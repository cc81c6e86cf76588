---------------------------- MODULE MessageStore ----------------------------
(***************************************************************************)
(* server/app/routers/messages.py: the messages of one channel and the     *)
(* handlers that create, edit and delete them.  Every request is a task of *)
(* its own and other requests run at each of its awaits, so a handler is   *)
(* split there: it reads a row, later writes it, reads it back, and only   *)
(* then publishes.  Writes are serialized by the write lock (WriteLock);   *)
(* reads are not.                                                          *)
(*                                                                         *)
(* A text is the set of privacy flags its phrases trigger                  *)
(* (privacy.detect_flags); a flag hides a message from bots.               *)
(***************************************************************************)
EXTENDS Naturals, Sequences, FiniteSets

CONSTANTS
    Handlers,  \* request tasks that may run at the same time
    Actors,    \* users and bots that write in the channel
    Bots,      \* the actors that are bots
    Flags,     \* BOT_HIDDEN_FLAGS
    MaxRows,   \* bound: messages ever posted
    MaxEvents, \* bound: events published and requests that will publish one
    NoHandler

ASSUME MessageStoreAssumption ==
    /\ Bots \subseteq Actors
    /\ NoHandler \notin Handlers
    /\ MaxRows \in Nat
    /\ MaxEvents \in Nat

VARIABLES
    rows,   \* table messages by id; id order is insertion order
    writer, \* the handler inside transaction(), or NoHandler
    pc,     \* where each handler is
    job,    \* what each handler carries across its awaits
    events  \* what has been handed to events.publish, in that order

storeVars == <<rows, writer, pc, job, events>>

Texts == SUBSET Flags
Row == [seq : 1..MaxRows, author : Actors, text : Texts, flags : SUBSET Flags,
        deleted : BOOLEAN]
Event == [type : {"message_create", "message_edit", "message_delete"},
          id : 1..MaxRows, seq : 1..MaxRows, text : Texts,
          flags : SUBSET Flags, author : Actors]

NoJob == [op |-> "none"]
Ids == 1..Len(rows)

StoreInit ==
    /\ rows = <<>>
    /\ writer = NoHandler
    /\ pc = [h \in Handlers |-> "idle"]
    /\ job = [h \in Handlers |-> NoJob]
    /\ events = <<>>

(* Detection runs on what users write; bots set their flags themselves.    *)
DetectFlags(actor, text) == IF actor \in Bots THEN {} ELSE text

Goto(h, where) == pc' = [pc EXCEPT ![h] = where]
Carry(h, j) == job' = [job EXCEPT ![h] = j]
Done(h) == Goto(h, "idle") /\ Carry(h, NoJob)

Seqs == {rows[i].seq : i \in Ids}
NextSeq == IF rows = <<>> THEN 1
           ELSE 1 + CHOOSE n \in Seqs : \A m \in Seqs : m <= n

-----------------------------------------------------------------------------
(* create_message and deliver_message                                      *)

Create_Unlocked(h, a, text, given) ==
    /\ pc[h] = "idle"
    /\ Len(rows) < MaxRows
    /\ Carry(h, [op |-> "create", seq |-> NextSeq, author |-> a, text |-> text,
                 flags |-> given \cup DetectFlags(a, text)])
    /\ Goto(h, "insert")
    /\ UNCHANGED <<rows, writer, events>>

(* Inside the transaction() block: SELECT COALESCE(MAX(seq), 0) + 1.       *)
Create(h, a, text, given) ==
    /\ pc[h] = "idle"
    /\ writer = NoHandler
    /\ Len(rows) < MaxRows
    /\ writer' = h
    /\ Carry(h, [op |-> "create", seq |-> NextSeq, author |-> a, text |-> text,
                 flags |-> given \cup DetectFlags(a, text)])
    /\ Goto(h, "insert")
    /\ UNCHANGED <<rows, events>>

Insert(h) ==
    /\ pc[h] = "insert"
    /\ Len(rows) < MaxRows
    /\ rows' = Append(rows, [seq |-> job[h].seq, author |-> job[h].author,
                             text |-> job[h].text, flags |-> job[h].flags,
                             deleted |-> FALSE])
    /\ writer' = NoHandler
    /\ Carry(h, [op |-> "create", id |-> Len(rows) + 1])
    /\ Goto(h, "readback")
    /\ UNCHANGED events

-----------------------------------------------------------------------------
(* edit_message                                                            *)

EditRead_NoDetection(h, a, i, text) ==
    /\ pc[h] = "idle"
    /\ rows[i].author = a
    /\ ~rows[i].deleted
    /\ Carry(h, [op |-> "edit", id |-> i, text |-> text, flags |-> rows[i].flags])
    /\ Goto(h, "update")
    /\ UNCHANGED <<rows, writer, events>>

EditRead(h, a, i, text) ==
    /\ pc[h] = "idle"
    /\ rows[i].author = a
    /\ ~rows[i].deleted
    /\ Carry(h, [op |-> "edit", id |-> i, text |-> text,
                 flags |-> rows[i].flags \cup DetectFlags(a, text)])
    /\ Goto(h, "update")
    /\ UNCHANGED <<rows, writer, events>>

(* The UPDATE names the row by id alone and writes the flags merged when   *)
(* the row was read.                                                       *)
EditUpdate(h) ==
    /\ pc[h] = "update"
    /\ job[h].op = "edit"
    /\ writer = NoHandler
    /\ rows' = [rows EXCEPT ![job[h].id].text = job[h].text,
                            ![job[h].id].flags = job[h].flags]
    /\ Carry(h, [op |-> "edit", id |-> job[h].id])
    /\ Goto(h, "readback")
    /\ UNCHANGED <<writer, events>>

-----------------------------------------------------------------------------
(* delete_message: a soft delete                                           *)

DeleteRead(h, a, i) ==
    /\ pc[h] = "idle"
    /\ rows[i].author = a
    /\ ~rows[i].deleted
    /\ Carry(h, [op |-> "delete", id |-> i])
    /\ Goto(h, "update")
    /\ UNCHANGED <<rows, writer, events>>

DeleteUpdate(h) ==
    /\ pc[h] = "update"
    /\ job[h].op = "delete"
    /\ writer = NoHandler
    /\ rows' = [rows EXCEPT ![job[h].id].deleted = TRUE]
    /\ Goto(h, "publish")
    /\ UNCHANGED <<writer, job, events>>

-----------------------------------------------------------------------------
(* _require_message and message_payload: the row as it is now.             *)
ReadBack(h) ==
    /\ pc[h] = "readback"
    /\ Carry(h, [op |-> job[h].op, id |-> job[h].id,
                 row |-> rows[job[h].id]])
    /\ Goto(h, "publish")
    /\ UNCHANGED <<rows, writer, events>>

(* What the bus is given.  A message_delete carries no payload; the hub    *)
(* adds the flags of the row when it fans the event out.                   *)
EventOf(j) ==
    LET r == IF j.op = "delete" THEN rows[j.id] ELSE j.row
        type == CASE j.op = "create" -> "message_create"
                  [] j.op = "edit" -> "message_edit"
                  [] j.op = "delete" -> "message_delete"
    IN [type |-> type, id |-> j.id, seq |-> r.seq, author |-> r.author,
        text |-> IF j.op = "delete" THEN {} ELSE r.text,
        flags |-> IF j.op = "delete" THEN {} ELSE r.flags]

StorePublish(h) ==
    /\ pc[h] = "publish"
    /\ events' = Append(events, EventOf(job[h]))
    /\ Done(h)
    /\ UNCHANGED <<rows, writer>>

StoreRequest(h) ==
    /\ Len(events) + Cardinality({g \in Handlers : pc[g] # "idle"}) < MaxEvents
    /\ \E a \in Actors, text \in Texts :
          \/ \E given \in SUBSET Flags : Create(h, a, text, given)
          \/ \E i \in Ids : EditRead(h, a, i, text) \/ DeleteRead(h, a, i)

Advance(h) ==
    Insert(h) \/ EditUpdate(h) \/ DeleteUpdate(h) \/ ReadBack(h) \/ StorePublish(h)

StoreNext == \E h \in Handlers : StoreRequest(h) \/ Advance(h)

StoreSpec == StoreInit /\ [][StoreNext]_storeVars

-----------------------------------------------------------------------------
(* Properties *)

(* Every variable has its type; rows and events are complete records.      *)
TypeOK ==
    /\ rows \in Seq(Row) /\ Len(rows) <= MaxRows
    /\ writer \in Handlers \cup {NoHandler}
    /\ pc \in [Handlers -> {"idle", "insert", "update", "readback", "publish"}]
    /\ \A h \in Handlers : job[h].op \in {"none", "create", "edit", "delete"}
    /\ events \in Seq(Event)

(* "MAX(seq)+1 is race-free": the seqs of a channel are 1, 2, 3... in the  *)
(* order of insertion, so a reader that has seen seq n knows what it       *)
(* misses, however many posts overlap.                                     *)
SeqIsGapless == \A i \in Ids : rows[i].seq = i

(* The flag of a phrase exists before anyone can read the phrase: neither  *)
(* the table nor an event ever holds a user's text without the flags the   *)
(* text triggers, even when edits of one message overlap.                  *)
TextIsFlagged ==
    /\ \A i \in Ids : DetectFlags(rows[i].author, rows[i].text) \subseteq rows[i].flags
    /\ \A n \in 1..Len(events) :
          DetectFlags(events[n].author, events[n].text) \subseteq events[n].flags

(* A soft delete is final: no handler that read the row before the delete  *)
(* brings the message back.                                                *)
DeleteIsFinal ==
    [][\A i \in Ids : rows[i].deleted => rows'[i].deleted]_storeVars

(* The clients of the channel hear of a message once, and about the row    *)
(* that was committed for it: same seq, same author.                       *)
AnnouncedOnce ==
    \A m, n \in 1..Len(events) :
        /\ events[n].id \in Ids
        /\ events[n].seq = rows[events[n].id].seq
        /\ events[n].author = rows[events[n].id].author
        /\ events[m].type = "message_create" /\ events[n].type = "message_create"
             /\ events[m].seq = events[n].seq => m = n

=============================================================================
