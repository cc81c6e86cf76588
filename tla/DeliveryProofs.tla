--------------------------- MODULE DeliveryProofs ---------------------------
(***************************************************************************)
(* Proofs about MessageStore, BotClient and Delivery, for any handlers,    *)
(* actors, flags and bounds.                                               *)
(*                                                                         *)
(* What makes the handlers safe although each works on what it read some   *)
(* awaits ago: a row's author and seq never change and its text only       *)
(* changes together with its flags (HandlerInv), and the create that       *)
(* will be announced for a row is carried by one handler (OneAnnouncer).   *)
(* What makes the wall hold behind them: an event on its way to the bots   *)
(* has the flags of the text it carries (FlightInv), whichever moment its  *)
(* flags are of.                                                           *)
(*                                                                         *)
(* The client is proved about with any server (Client!Spec), and the path  *)
(* is shown to be such a server.  Last, the handlers, the hub and the      *)
(* client together leave out nothing but what is in lost: FeedInv says     *)
(* where on the path each message is that the bot does not have yet.       *)
(***************************************************************************)
EXTENDS Delivery, FiniteSetTheorems, TLAPS

Flagged(r) == DetectFlags(r.author, r.text) \subseteq r.flags

(* What a handler carries at each of its awaits.                           *)
HandlerInv(h) ==
    /\ pc[h] = "idle" => job[h] = NoJob
    /\ pc[h] = "insert" =>
          /\ job[h] \in [op : {"create"}, seq : 1..MaxRows, author : Actors,
                         text : Texts, flags : SUBSET Flags]
          /\ job[h].seq = Len(rows) + 1
          /\ Flagged(job[h])
    /\ pc[h] = "update" =>
          \/ /\ job[h] \in [op : {"edit"}, id : Ids, text : Texts, flags : SUBSET Flags]
             /\ DetectFlags(rows[job[h].id].author, job[h].text) \subseteq job[h].flags
          \/ job[h] \in [op : {"delete"}, id : Ids]
    /\ pc[h] = "readback" => job[h] \in [op : {"create", "edit"}, id : Ids]
    /\ pc[h] = "publish" =>
          \/ job[h] \in [op : {"delete"}, id : Ids]
          \/ /\ job[h] \in [op : {"create", "edit"}, id : Ids, row : Row]
             /\ job[h].row.seq = job[h].id
             /\ job[h].row.author = rows[job[h].id].author
             /\ Flagged(job[h].row)

LockInv == \A h \in Handlers : pc[h] = "insert" <=> writer = h

Announcing(h) == pc[h] \in {"readback", "publish"} /\ job[h].op = "create"

(* A row whose create is still to be published belongs to one handler, and *)
(* no event tells of it yet.                                               *)
OneAnnouncer ==
    \A h \in Handlers : Announcing(h) =>
        /\ \A n \in 1..Len(events) :
              events[n].type = "message_create" => events[n].id # job[h].id
        /\ \A g \in Handlers : Announcing(g) /\ job[g].id = job[h].id => g = h

StoreTyped ==
    /\ rows \in Seq(Row) /\ Len(rows) <= MaxRows
    /\ writer \in Handlers \cup {NoHandler}
    /\ pc \in [Handlers -> {"idle", "insert", "update", "readback", "publish"}]
    /\ job = [h \in Handlers |-> job[h]]
    /\ events \in Seq(Event)

IInv ==
    /\ StoreTyped
    /\ SeqIsGapless
    /\ TextIsFlagged
    /\ AnnouncedOnce
    /\ LockInv
    /\ OneAnnouncer
    /\ \A h \in Handlers : HandlerInv(h)

LEMMA InitIInv == StoreInit => IInv
BY MessageStoreAssumption
   DEF StoreInit, IInv, StoreTyped, SeqIsGapless, TextIsFlagged, AnnouncedOnce, LockInv,
       OneAnnouncer, Announcing, HandlerInv, Ids

(* The rows grow at the end and keep their authors and seqs.               *)
RowsStay ==
    /\ Len(rows) <= Len(rows')
    /\ \A i \in Ids : rows'[i].author = rows[i].author /\ rows'[i].seq = rows[i].seq

(* A handler that does not move keeps its part of the invariant, unless it *)
(* holds the lock and somebody else inserts.                               *)
LEMMA OthersKeep ==
    ASSUME NEW g, HandlerInv(g), RowsStay, rows \in Seq(Row), rows' \in Seq(Row),
           pc'[g] = pc[g], job'[g] = job[g],
           pc[g] = "insert" => Len(rows') = Len(rows)
    PROVE  HandlerInv(g)'
<1>1. Len(rows) \in Nat /\ Len(rows') \in Nat /\ Ids \subseteq Ids'
  BY DEF RowsStay, Ids
<1>2. CASE pc[g] \in {"idle", "insert"}
  BY <1>2 DEF HandlerInv, Flagged, DetectFlags
<1>3. CASE pc[g] = "update"
  BY <1>1, <1>3 DEF HandlerInv, RowsStay, DetectFlags
<1>4. CASE pc[g] = "readback"
  BY <1>1, <1>4 DEF HandlerInv
<1>5. CASE pc[g] = "publish"
  BY <1>1, <1>5 DEF HandlerInv, RowsStay, Flagged, DetectFlags
<1>6. CASE pc[g] \notin {"idle", "insert", "update", "readback", "publish"}
  BY <1>6 DEF HandlerInv
<1> QED
  BY <1>2, <1>3, <1>4, <1>5, <1>6

(* "SELECT COALESCE(MAX(seq), 0) + 1" is the next id.                      *)
LEMMA NextSeqIs == ASSUME IInv PROVE NextSeq = Len(rows) + 1
<1>1. rows \in Seq(Row) /\ SeqIsGapless /\ Len(rows) \in Nat
  BY DEF IInv, StoreTyped
<1>2. Seqs = 1..Len(rows)
  BY <1>1 DEF Seqs, SeqIsGapless, Ids
<1>3. CASE rows = <<>>
  BY <1>3 DEF NextSeq
<1>4. CASE rows # <<>>
  <2>1. Len(rows) \in Seqs /\ \A m \in Seqs : m <= Len(rows)
    BY <1>1, <1>2, <1>4
  <2>2. ASSUME NEW n \in Seqs, \A m \in Seqs : m <= n PROVE n = Len(rows)
    BY <1>1, <1>2, <2>1, <2>2
  <2>3. (CHOOSE n \in Seqs : \A m \in Seqs : m <= n) = Len(rows)
    BY <2>1, <2>2
  <2>4. NextSeq = 1 + Len(rows)
    BY <1>4, <2>3, Zenon DEF NextSeq
  <2> QED
    BY <1>1, <2>4
<1> QED
  BY <1>3, <1>4

-----------------------------------------------------------------------------
(* One lemma per step of a handler                                         *)

LEMMA CreateKeeps ==
    ASSUME IInv, NEW h \in Handlers, NEW a \in Actors, NEW text \in Texts,
           NEW given \in SUBSET Flags, Create(h, a, text, given)
    PROVE  IInv'
<1> USE MessageStoreAssumption
<1>1. NextSeq = Len(rows) + 1 /\ Len(rows) \in Nat
  BY NextSeqIs DEF IInv, StoreTyped
<1>2. /\ rows' = rows /\ events' = events /\ writer' = h
      /\ pc' = [pc EXCEPT ![h] = "insert"]
      /\ job' = [job EXCEPT ![h] =
                    [op |-> "create", seq |-> Len(rows) + 1, author |-> a, text |-> text,
                     flags |-> given \cup DetectFlags(a, text)]]
  BY <1>1 DEF Create, Goto, Carry
<1>3. StoreTyped'
  BY <1>2 DEF IInv, StoreTyped
<1>4. SeqIsGapless' /\ TextIsFlagged' /\ AnnouncedOnce'
  BY <1>2 DEF IInv, SeqIsGapless, TextIsFlagged, AnnouncedOnce, Ids
<1>5. LockInv'
  BY <1>2 DEF IInv, StoreTyped, LockInv, Create
<1>6. OneAnnouncer'
  BY <1>2 DEF IInv, StoreTyped, OneAnnouncer, Announcing
<1>7. HandlerInv(h)'
  <2>1. DetectFlags(a, text) \in SUBSET Flags
    BY DEF DetectFlags, Texts
  <2>2. Len(rows) + 1 \in 1..MaxRows
    BY <1>1 DEF Create
  <2> QED
    BY <1>2, <2>1, <2>2 DEF IInv, StoreTyped, HandlerInv, Flagged
<1>8. ASSUME NEW g \in Handlers, g # h PROVE HandlerInv(g)'
  <2>1. HandlerInv(g) /\ pc'[g] = pc[g] /\ job'[g] = job[g] /\ rows \in Seq(Row)
    BY <1>2, <1>8 DEF IInv, StoreTyped
  <2>2. RowsStay
    BY <1>1, <1>2 DEF RowsStay
  <2> QED
    BY <1>2, <2>1, <2>2, OthersKeep
<1> QED
  BY <1>3, <1>4, <1>5, <1>6, <1>7, <1>8 DEF IInv

(* EditRead, DeleteRead and ReadBack only read.                            *)
LEMMA ReadKeeps ==
    ASSUME IInv, NEW h \in Handlers, NEW where, NEW j, UNCHANGED <<rows, writer, events>>,
           pc[h] # "insert", where \in {"update", "publish"}, Goto(h, where), Carry(h, j),
           j.op = "create" => Announcing(h) /\ j.id = job[h].id,
           where = "update" => j.op # "create",
           HandlerInv(h)'
    PROVE  IInv'
<1>1. StoreTyped'
  BY DEF IInv, StoreTyped, Goto, Carry
<1>2. SeqIsGapless' /\ TextIsFlagged' /\ AnnouncedOnce'
  BY DEF IInv, SeqIsGapless, TextIsFlagged, AnnouncedOnce, Ids
<1>3. LockInv'
  BY DEF IInv, StoreTyped, LockInv, Goto
<1>4. OneAnnouncer'
  BY DEF IInv, StoreTyped, OneAnnouncer, Announcing, Goto, Carry
<1>5. ASSUME NEW g \in Handlers, g # h PROVE HandlerInv(g)'
  BY <1>5, OthersKeep DEF IInv, StoreTyped, RowsStay, Goto, Carry
<1> QED
  BY <1>1, <1>2, <1>3, <1>4, <1>5 DEF IInv

LEMMA EditReadKeeps ==
    ASSUME IInv, NEW h \in Handlers, NEW a \in Actors, NEW i \in Ids, NEW text \in Texts,
           EditRead(h, a, i, text)
    PROVE  IInv'
<1> DEFINE j == [op |-> "edit", id |-> i, text |-> text,
                 flags |-> rows[i].flags \cup DetectFlags(a, text)]
<1>1. rows[i] \in Row /\ DetectFlags(a, text) \in SUBSET Flags
  BY DEF IInv, StoreTyped, Ids, DetectFlags, Texts
<1>2. j \in [op : {"edit"}, id : Ids, text : Texts, flags : SUBSET Flags]
  BY <1>1 DEF Row
<1>3. HandlerInv(h)'
  BY <1>2 DEF IInv, StoreTyped, HandlerInv, EditRead, Goto, Carry, Ids, DetectFlags
<1> QED
  BY <1>3, ReadKeeps DEF EditRead

LEMMA DeleteReadKeeps ==
    ASSUME IInv, NEW h \in Handlers, NEW a \in Actors, NEW i \in Ids, DeleteRead(h, a, i)
    PROVE  IInv'
<1>1. HandlerInv(h)'
  BY DEF IInv, StoreTyped, HandlerInv, DeleteRead, Goto, Carry, Ids
<1> QED
  BY <1>1, ReadKeeps DEF DeleteRead

LEMMA ReadBackKeeps ==
    ASSUME IInv, NEW h \in Handlers, ReadBack(h) PROVE IInv'
<1>1. /\ pc[h] = "readback"
      /\ job[h] \in [op : {"create", "edit"}, id : Ids]
      /\ rows[job[h].id] \in Row
      /\ rows[job[h].id].seq = job[h].id
      /\ Flagged(rows[job[h].id])
  BY DEF IInv, StoreTyped, HandlerInv, ReadBack, SeqIsGapless, TextIsFlagged, Flagged, Ids
<1>2. HandlerInv(h)'
  BY <1>1 DEF IInv, StoreTyped, HandlerInv, ReadBack, Goto, Carry, Ids, Flagged, DetectFlags
<1> QED
  BY <1>1, <1>2, ReadKeeps DEF ReadBack, Announcing

LEMMA InsertKeeps ==
    ASSUME IInv, NEW h \in Handlers, Insert(h) PROVE IInv'
<1> USE MessageStoreAssumption
<1> DEFINE row == [seq |-> job[h].seq, author |-> job[h].author, text |-> job[h].text,
                   flags |-> job[h].flags, deleted |-> FALSE]
           new == Len(rows) + 1
<1>1. /\ rows \in Seq(Row) /\ Len(rows) \in Nat /\ row \in Row
      /\ row.seq = new /\ Flagged(row) /\ new <= MaxRows
  BY DEF IInv, StoreTyped, HandlerInv, Insert, Row, Flagged, DetectFlags
<1>2. /\ rows' = Append(rows, row) /\ writer' = NoHandler /\ events' = events
      /\ pc' = [pc EXCEPT ![h] = "readback"]
      /\ job' = [job EXCEPT ![h] = [op |-> "create", id |-> new]]
  BY DEF Insert, Goto, Carry
<1>3. /\ rows' \in Seq(Row) /\ Len(rows') = new /\ rows'[new] = row
      /\ \A i \in Ids : rows'[i] = rows[i]
      /\ Ids' = Ids \cup {new}
  BY <1>1, <1>2 DEF Ids
<1>4. StoreTyped'
  BY <1>1, <1>2, <1>3 DEF IInv, StoreTyped
<1>5. SeqIsGapless'
  BY <1>1, <1>3 DEF IInv, SeqIsGapless
<1>6. TextIsFlagged'
  BY <1>1, <1>2, <1>3 DEF IInv, TextIsFlagged, Flagged, DetectFlags
<1>7. AnnouncedOnce'
  <2> SUFFICES ASSUME NEW m \in 1..Len(events), NEW n \in 1..Len(events)
               PROVE  /\ events[n].id \in Ids'
                      /\ events[n].seq = rows'[events[n].id].seq
                      /\ events[n].author = rows'[events[n].id].author
                      /\ events[m].type = "message_create" /\ events[n].type = "message_create"
                           /\ events[m].seq = events[n].seq => m = n
    BY <1>2 DEF AnnouncedOnce
  <2> QED
    BY <1>3 DEF IInv, AnnouncedOnce
<1>8. LockInv'
  BY <1>2 DEF IInv, StoreTyped, LockInv, Insert
<1>9. OneAnnouncer'
  <2>1. \A n \in 1..Len(events) : events[n].id # new
    BY <1>1 DEF IInv, AnnouncedOnce, Ids
  <2>2. \A g \in Handlers : Announcing(g) => job[g].id \in Ids
    BY DEF IInv, HandlerInv, Announcing
  <2>3. \A g \in Handlers : g # h /\ Announcing(g)' => Announcing(g) /\ job'[g] = job[g]
    BY <1>2 DEF IInv, StoreTyped, Announcing
  <2>4. new \notin Ids /\ job'[h].id = new
    BY <1>1, <1>2 DEF IInv, StoreTyped, Ids
  <2> QED
    BY <1>2, <2>1, <2>2, <2>3, <2>4 DEF IInv, OneAnnouncer
<1>10. HandlerInv(h)'
  BY <1>1, <1>2, <1>3 DEF IInv, StoreTyped, HandlerInv
<1>11. ASSUME NEW g \in Handlers, g # h PROVE HandlerInv(g)'
  <2>1. pc[g] # "insert"
    BY <1>11 DEF IInv, LockInv, Insert
  <2>2. RowsStay
    BY <1>1, <1>3 DEF RowsStay
  <2> QED
    BY <1>1, <1>2, <1>3, <1>11, <2>1, <2>2, OthersKeep DEF IInv, StoreTyped
<1> QED
  BY <1>4, <1>5, <1>6, <1>7, <1>8, <1>9, <1>10, <1>11 DEF IInv

(* An UPDATE of one row, of an edit or a delete.                           *)
LEMMA UpdateKeeps ==
    ASSUME IInv, NEW h \in Handlers, NEW i \in Ids, NEW r \in Row,
           r.seq = rows[i].seq, r.author = rows[i].author, Flagged(r),
           rows' = [rows EXCEPT ![i] = r], UNCHANGED <<writer, events>>,
           pc[h] = "update", Goto(h, "readback") \/ Goto(h, "publish"),
           job' = [job EXCEPT ![h] = job'[h]], job'[h].op # "create", HandlerInv(h)'
    PROVE  IInv'
<1>1. /\ rows \in Seq(Row) /\ rows' \in Seq(Row) /\ Len(rows') = Len(rows)
      /\ \A k \in Ids : rows'[k] = IF k = i THEN r ELSE rows[k]
      /\ Ids' = Ids
  BY DEF IInv, StoreTyped, Ids
<1>2. RowsStay
  BY <1>1 DEF RowsStay
<1>3. StoreTyped'
  BY <1>1 DEF IInv, StoreTyped, Goto
<1>4. SeqIsGapless'
  BY <1>1 DEF IInv, SeqIsGapless
<1>5. TextIsFlagged'
  BY <1>1 DEF IInv, TextIsFlagged, Flagged, DetectFlags
<1>6. AnnouncedOnce'
  BY <1>1 DEF IInv, AnnouncedOnce
<1>7. LockInv'
  BY DEF IInv, StoreTyped, LockInv, Goto
<1>8. OneAnnouncer'
  BY DEF IInv, StoreTyped, OneAnnouncer, Announcing, Goto
<1>9. ASSUME NEW g \in Handlers, g # h PROVE HandlerInv(g)'
  BY <1>1, <1>2, <1>9, OthersKeep DEF IInv, StoreTyped, Goto
<1> QED
  BY <1>3, <1>4, <1>5, <1>6, <1>7, <1>8, <1>9 DEF IInv

LEMMA EditUpdateKeeps ==
    ASSUME IInv, NEW h \in Handlers, EditUpdate(h) PROVE IInv'
<1> DEFINE i == job[h].id
           r == [rows[i] EXCEPT !.text = job[h].text, !.flags = job[h].flags]
<1>1. /\ job[h] \in [op : {"edit"}, id : Ids, text : Texts, flags : SUBSET Flags]
      /\ DetectFlags(rows[i].author, job[h].text) \subseteq job[h].flags
      /\ rows \in Seq(Row) /\ rows[i] \in Row
  BY DEF IInv, StoreTyped, HandlerInv, EditUpdate, Ids
<1>2. r \in Row /\ r.seq = rows[i].seq /\ r.author = rows[i].author /\ Flagged(r)
  BY <1>1 DEF Row, Flagged
<1>3. rows' = [rows EXCEPT ![i] = r]
  BY <1>1 DEF EditUpdate, Ids
<1>4. Ids' = Ids
  BY <1>1, <1>3 DEF Ids
<1>5. HandlerInv(h)' /\ job'[h].op = "edit"
  BY <1>1, <1>4 DEF IInv, StoreTyped, HandlerInv, EditUpdate, Goto, Carry
<1> QED
  BY <1>1, <1>2, <1>3, <1>5, UpdateKeeps DEF IInv, StoreTyped, EditUpdate, Carry

LEMMA DeleteUpdateKeeps ==
    ASSUME IInv, NEW h \in Handlers, DeleteUpdate(h) PROVE IInv'
<1> DEFINE i == job[h].id
           r == [rows[i] EXCEPT !.deleted = TRUE]
<1>1. /\ job[h] \in [op : {"delete"}, id : Ids]
      /\ rows \in Seq(Row) /\ rows[i] \in Row /\ Flagged(rows[i])
  BY DEF IInv, StoreTyped, HandlerInv, DeleteUpdate, TextIsFlagged, Flagged, Ids
<1>2. r \in Row /\ r.seq = rows[i].seq /\ r.author = rows[i].author /\ Flagged(r)
  BY <1>1 DEF Row, Flagged
<1>3. rows' = [rows EXCEPT ![i] = r]
  BY <1>1 DEF DeleteUpdate, Ids
<1>4. Ids' = Ids
  BY <1>1, <1>3 DEF Ids
<1>5. HandlerInv(h)' /\ job'[h].op = "delete"
  BY <1>1, <1>4 DEF IInv, StoreTyped, HandlerInv, DeleteUpdate, Goto
<1> QED
  BY <1>1, <1>2, <1>3, <1>5, UpdateKeeps DEF IInv, StoreTyped, DeleteUpdate

LEMMA PublishKeeps ==
    ASSUME IInv, NEW h \in Handlers, StorePublish(h) PROVE IInv'
<1> DEFINE e == EventOf(job[h])
<1>1. /\ rows \in Seq(Row) /\ events \in Seq(Event) /\ Len(events) \in Nat
      /\ job[h].id \in Ids /\ job[h].op \in {"create", "edit", "delete"}
      /\ rows[job[h].id] \in Row /\ rows[job[h].id].seq = job[h].id
  BY DEF IInv, StoreTyped, HandlerInv, StorePublish, SeqIsGapless, Ids
<1>2. /\ e \in Event /\ e.id = job[h].id /\ e.seq = job[h].id
      /\ e.author = rows[job[h].id].author
      /\ DetectFlags(e.author, e.text) \subseteq e.flags
      /\ e.type = "message_create" <=> job[h].op = "create"
  <2>1. CASE job[h].op = "delete"
    <3>1. e = [type |-> "message_delete", id |-> job[h].id, seq |-> rows[job[h].id].seq,
               author |-> rows[job[h].id].author, text |-> {}, flags |-> {}]
      BY <2>1 DEF EventOf
    <3>2. job[h].id \in 1..MaxRows
      BY <1>1, MessageStoreAssumption DEF IInv, StoreTyped, Ids
    <3> QED
      BY <1>1, <2>1, <3>1, <3>2 DEF Event, Row, Texts, DetectFlags
  <2>2. CASE job[h].op \in {"create", "edit"}
    <3>1. /\ job[h].row \in Row /\ job[h].row.seq = job[h].id
          /\ job[h].row.author = rows[job[h].id].author /\ Flagged(job[h].row)
      BY <2>2 DEF IInv, HandlerInv, StorePublish
    <3>2. e = [type |-> IF job[h].op = "create" THEN "message_create" ELSE "message_edit",
               id |-> job[h].id, seq |-> job[h].row.seq, author |-> job[h].row.author,
               text |-> job[h].row.text, flags |-> job[h].row.flags]
      BY <2>2 DEF EventOf
    <3> QED
      BY <1>1, <2>2, <3>1, <3>2 DEF Event, Row, Flagged
  <2> QED
    BY <1>1, <2>1, <2>2
<1>3. /\ rows' = rows /\ writer' = writer /\ events' = Append(events, e)
      /\ pc' = [pc EXCEPT ![h] = "idle"] /\ job' = [job EXCEPT ![h] = NoJob]
  BY DEF StorePublish, Done, Goto, Carry
<1>4. /\ events' \in Seq(Event) /\ Len(events') = Len(events) + 1
      /\ events'[Len(events) + 1] = e
      /\ \A n \in 1..Len(events) : events'[n] = events[n]
      /\ 1..Len(events') = 1..Len(events) \cup {Len(events) + 1}
  BY <1>1, <1>2, <1>3
<1>5. StoreTyped'
  BY <1>3, <1>4 DEF IInv, StoreTyped
<1>6. SeqIsGapless'
  BY <1>3 DEF IInv, SeqIsGapless, Ids
<1>7. TextIsFlagged'
  BY <1>2, <1>3, <1>4 DEF IInv, TextIsFlagged, Ids, DetectFlags
<1>8. AnnouncedOnce'
  <2>1. \A n \in 1..Len(events) : events[n].id \in Ids /\ events[n].seq = events[n].id
    BY DEF IInv, AnnouncedOnce, SeqIsGapless
  <2>2. e.type = "message_create" =>
           \A n \in 1..Len(events) : events[n].type = "message_create" => events[n].seq # e.seq
    BY <1>1, <1>2, <2>1 DEF IInv, OneAnnouncer, Announcing, StorePublish
  <2> QED
    BY <1>1, <1>2, <1>3, <1>4, <2>1, <2>2 DEF IInv, AnnouncedOnce, Ids
<1>9. LockInv'
  BY <1>3 DEF IInv, StoreTyped, LockInv, StorePublish
<1>10. OneAnnouncer'
  <2>1. \A g \in Handlers : Announcing(g)' => g # h /\ Announcing(g) /\ job'[g] = job[g]
    BY <1>3 DEF IInv, StoreTyped, Announcing, NoJob
  <2>2. e.type = "message_create" => Announcing(h)
    BY <1>1, <1>2 DEF Announcing, StorePublish
  <2> QED
    BY <1>2, <1>4, <2>1, <2>2 DEF IInv, OneAnnouncer
<1>11. HandlerInv(h)'
  BY <1>3 DEF IInv, StoreTyped, HandlerInv
<1>12. ASSUME NEW g \in Handlers, g # h PROVE HandlerInv(g)'
  BY <1>1, <1>3, <1>12, OthersKeep DEF IInv, StoreTyped, RowsStay
<1> QED
  BY <1>5, <1>6, <1>7, <1>8, <1>9, <1>10, <1>11, <1>12 DEF IInv

LEMMA NextKeeps == ASSUME IInv, StoreNext PROVE IInv'
<1>1. PICK h \in Handlers : StoreRequest(h) \/ Advance(h)
  BY DEF StoreNext
<1>2. CASE StoreRequest(h)
  BY <1>2, CreateKeeps, EditReadKeeps, DeleteReadKeeps DEF StoreRequest
<1>3. CASE Advance(h)
  BY <1>3, InsertKeeps, EditUpdateKeeps, DeleteUpdateKeeps, ReadBackKeeps, PublishKeeps
     DEF Advance
<1> QED
  BY <1>1, <1>2, <1>3

LEMMA StutterKeeps == ASSUME IInv, UNCHANGED storeVars PROVE IInv'
BY DEF IInv, StoreTyped, SeqIsGapless, TextIsFlagged, AnnouncedOnce, LockInv, OneAnnouncer,
       Announcing, HandlerInv, storeVars, Ids, DetectFlags, Flagged

-----------------------------------------------------------------------------
(* Theorems                                                                *)

(* However requests overlap, what each handler carries from one await to   *)
(* the next still fits the table when it is used.                          *)
THEOREM StoreInvariance == StoreSpec => []IInv
<1>1. IInv /\ [StoreNext]_storeVars => IInv'
  BY NextKeeps, StutterKeeps
<1> QED
  BY InitIInv, <1>1, PTL DEF StoreSpec

(* Type correctness of the table, the handlers and the events.             *)
THEOREM StoreTypeCorrect == StoreSpec => []TypeOK
<1>1. IInv => TypeOK
  <2> SUFFICES ASSUME IInv, NEW h \in Handlers
               PROVE  job[h].op \in {"none", "create", "edit", "delete"}
    BY DEF IInv, StoreTyped, TypeOK
  <2>1. pc[h] \in {"idle", "insert", "update", "readback", "publish"} /\ HandlerInv(h)
    BY DEF IInv, StoreTyped
  <2> QED
    BY <2>1 DEF HandlerInv, NoJob
<1> QED
  BY StoreInvariance, <1>1, PTL

(* No handler that read a row before its delete brings it back.            *)
THEOREM DeletesAreFinal == StoreSpec => DeleteIsFinal
<1>1. IInv /\ [StoreNext]_storeVars => [\A i \in Ids : rows[i].deleted => rows'[i].deleted]_storeVars
  <2> SUFFICES ASSUME IInv, StoreNext, NEW i \in Ids, rows[i].deleted PROVE rows'[i].deleted
    OBVIOUS
  <2>1. rows \in Seq(Row) /\ rows[i] \in Row
    BY DEF IInv, StoreTyped, Ids
  <2>2. CASE UNCHANGED rows
    BY <2>2
  <2>3. ASSUME NEW h \in Handlers, Insert(h) PROVE rows'[i].deleted
    BY <2>1, <2>3 DEF Insert, Ids
  <2>4. ASSUME NEW h \in Handlers, EditUpdate(h) \/ DeleteUpdate(h) PROVE rows'[i].deleted
    <3>1. i \in DOMAIN rows
      BY <2>1 DEF Ids
    <3>2. CASE EditUpdate(h)
      <4>1. rows'[i] = rows[i] \/ rows'[i] = [rows[i] EXCEPT !.text = job[h].text,
                                                            !.flags = job[h].flags]
        BY <3>1, <3>2 DEF EditUpdate
      <4> QED
        BY <2>1, <4>1 DEF Row
    <3>3. CASE DeleteUpdate(h)
      <4>1. rows'[i] = rows[i] \/ rows'[i] = [rows[i] EXCEPT !.deleted = TRUE]
        BY <3>1, <3>3 DEF DeleteUpdate
      <4> QED
        BY <2>1, <4>1 DEF Row
    <3> QED
      BY <2>4, <3>2, <3>3
  <2> QED
    BY <2>2, <2>3, <2>4
       DEF StoreNext, StoreRequest, Advance, Create, EditRead, DeleteRead, ReadBack, StorePublish
<1> QED
  BY StoreInvariance, <1>1, PTL DEF StoreSpec, DeleteIsFinal

-----------------------------------------------------------------------------
(* The fan-out and the bot                                                 *)

Carried(e, ids) ==
    /\ e \in Event
    /\ e.id \in ids
    /\ DetectFlags(e.author, e.text) \subseteq e.flags
    /\ e.type = "message_delete" => e.text = {}

FlightInv ==
    /\ flight = [h \in Handlers |-> flight[h]]
    /\ \A h \in Handlers :
          flight[h] # Idle => /\ flight[h] \in [at : {"users", "bots"}, event : Event]
                              /\ Carried(flight[h].event, Ids)

WallInv == IInv /\ FlightInv /\ HiddenTextStaysHidden

(* Each step of the path is a step of the handlers, or none of theirs.     *)
LEMMA PathStep == ASSUME [Next]_vars PROVE [StoreNext]_storeVars
<1>1. CASE UNCHANGED vars
  BY <1>1 DEF vars, storeVars
<1>2. ASSUME NEW h \in Handlers, Request(h) PROVE StoreNext
  BY <1>2 DEF Request, StoreNext
<1>3. ASSUME NEW h \in Handlers, Handle(h) \/ Publish(h) PROVE StoreNext
  BY <1>3 DEF Handle, Publish, StoreNext, Advance
<1>4. ASSUME NEW h \in Handlers, ListBots(h) \/ SendToBot(h) PROVE UNCHANGED storeVars
  BY <1>4 DEF ListBots, SendToBot
<1>5. CASE BotStep
  BY <1>5 DEF BotStep, Connect, FetchPage, Handover
<1>6. CASE LinkLost \/ BackfillFails \/ Restart
  BY <1>6 DEF LinkLost, BackfillFails, Restart, Mishap
<1> QED
  BY <1>1, <1>2, <1>3, <1>4, <1>5, <1>6 DEF Next, ServerStep

(* A row stays where it is.                                                *)
LEMMA IdsStay == ASSUME IInv, [StoreNext]_storeVars PROVE Ids \subseteq Ids'
<1>1. rows \in Seq(Row) /\ Len(rows) \in Nat
  BY DEF IInv, StoreTyped
<1>2. CASE UNCHANGED rows
  BY <1>2 DEF Ids
<1>3. ASSUME NEW h \in Handlers, Insert(h) PROVE Ids \subseteq Ids'
  BY <1>1, <1>3 DEF Insert, Ids
<1>4. ASSUME NEW h \in Handlers, EditUpdate(h) \/ DeleteUpdate(h) PROVE Ids \subseteq Ids'
  BY <1>1, <1>4 DEF EditUpdate, DeleteUpdate, Ids
<1> QED
  BY <1>2, <1>3, <1>4
     DEF StoreNext, StoreRequest, Advance, Create, EditRead, DeleteRead, ReadBack, StorePublish,
         storeVars

(* A fan-out that nobody touches keeps what it carries.                    *)
LEMMA FlightKeeps ==
    ASSUME FlightInv, Ids \subseteq Ids', flight' = flight PROVE FlightInv'
BY DEF FlightInv, Carried, Idle, DetectFlags

(* publish() hands the event that was just made to the hub.                *)
LEMMA FanOutBegins ==
    ASSUME IInv, IInv', FlightInv, Ids \subseteq Ids', NEW h \in Handlers, Publish(h)
    PROVE  FlightInv'
<1> DEFINE e == events'[Len(events')]
<1>1. /\ events \in Seq(Event) /\ events' = Append(events, EventOf(job[h]))
      /\ flight' = [flight EXCEPT ![h] = [at |-> "users", event |-> e]]
  BY DEF IInv, StoreTyped, Publish, StorePublish
<1>2. events' \in Seq(Event) /\ Len(events') \in 1..Len(events')
  BY <1>1 DEF IInv, StoreTyped
<1>3. /\ e \in Event /\ e.id \in Ids'
      /\ DetectFlags(e.author, e.text) \subseteq e.flags
  BY <1>2 DEF IInv, AnnouncedOnce, TextIsFlagged, DetectFlags
<1>4. e.type = "message_delete" => e.text = {}
  <2>1. e = EventOf(job[h])
    BY <1>1
  <2>2. job[h].op \in {"create", "edit", "delete"}
    BY DEF IInv, HandlerInv, Publish, StorePublish
  <2> QED
    BY <2>1, <2>2 DEF EventOf
<1>5. Carried(e, Ids')
  BY <1>3, <1>4 DEF Carried
<1> QED
  BY <1>1, <1>3, <1>5 DEF FlightInv, Carried, Idle, DetectFlags

(* The flags a delete is given are those of its row, its text is empty.    *)
LEMMA ListBotsKeeps ==
    ASSUME IInv, FlightInv, NEW h \in Handlers, ListBots(h) PROVE FlightInv'
<1> DEFINE e == flight[h].event
           flags == IF e.type = "message_delete" THEN rows[e.id].flags ELSE e.flags
           f == [e EXCEPT !.flags = flags]
<1>1. /\ flight[h] # Idle /\ e \in Event /\ Carried(e, Ids)
      /\ rows' = rows
      /\ flight' = [flight EXCEPT ![h] = IF Connected THEN [at |-> "bots", event |-> f] ELSE Idle]
  BY DEF FlightInv, ListBots, Idle, storeVars
<1>2. flags \in SUBSET Flags
  <2>1. rows[e.id] \in Row
    BY <1>1 DEF Carried, IInv, StoreTyped, Ids
  <2>2. rows[e.id].flags \in SUBSET Flags /\ e.flags \in SUBSET Flags
    BY <1>1, <2>1 DEF Row, Event
  <2> QED
    BY <2>2
<1>3. /\ f \in Event /\ f.id = e.id /\ f.flags = flags /\ f.type = e.type
      /\ f.author = e.author /\ f.text = e.text
  BY <1>1, <1>2 DEF Event
<1>4. DetectFlags(f.author, f.text) \subseteq f.flags
  BY <1>1, <1>3 DEF Carried, DetectFlags
<1>5. Carried(f, Ids)
  BY <1>1, <1>3, <1>4 DEF Carried
<1>6. Carried(f, Ids') /\ Ids' = Ids
  BY <1>1, <1>5 DEF Ids
<1> QED
  BY <1>1, <1>3, <1>6 DEF FlightInv, Carried, Idle, DetectFlags

(* What passes the filter triggers no flag.                                *)
LEMMA SendToBotKeeps ==
    ASSUME IInv, FlightInv, HiddenTextStaysHidden, NEW h \in Handlers, SendToBot(h)
    PROVE  FlightInv' /\ HiddenTextStaysHidden'
<1>1. /\ flight[h] # Idle /\ Carried(flight[h].event, Ids)
      /\ flight' = [flight EXCEPT ![h] = Idle]
      /\ rows' = rows
  BY DEF FlightInv, SendToBot, Idle, storeVars
<1>2. FlightInv'
  BY <1>1 DEF FlightInv, Carried, Idle, Ids, DetectFlags
<1>3. HiddenTextStaysHidden'
  BY <1>1 DEF SendToBot, Carried, HiddenTextStaysHidden
<1> QED
  BY <1>2, <1>3

(* Nor does what a page shows.                                             *)
LEMMA FetchPageKeeps ==
    ASSUME IInv, HiddenTextStaysHidden, FetchPage PROVE HiddenTextStaysHidden'
<1>1. \A i \in VisibleFrom(from) : DetectFlags(rows[i].author, rows[i].text) = {}
  BY DEF VisibleFrom, RowsFrom, IInv, TextIsFlagged
<1>2. shown' = shown \cup UNION {DetectFlags(rows[i].author, rows[i].text) :
                                    i \in {n \in VisibleFrom(from) : ~rows[n].deleted}}
  BY DEF FetchPage
<1> QED
  BY <1>1, <1>2 DEF HiddenTextStaysHidden

LEMMA PathKeeps == ASSUME WallInv, [Next]_vars PROVE WallInv'
<1>1. [StoreNext]_storeVars
  BY PathStep
<1>2. IInv' /\ Ids \subseteq Ids'
  BY <1>1, NextKeeps, StutterKeeps, IdsStay DEF WallInv
<1>3. CASE flight' = flight /\ shown' = shown
  BY <1>2, <1>3, FlightKeeps DEF WallInv, HiddenTextStaysHidden
<1>4. ASSUME NEW h \in Handlers, Publish(h) PROVE WallInv'
  BY <1>2, <1>4, FanOutBegins DEF WallInv, HiddenTextStaysHidden, Publish
<1>5. ASSUME NEW h \in Handlers, ListBots(h) PROVE WallInv'
  BY <1>2, <1>5, ListBotsKeeps DEF WallInv, HiddenTextStaysHidden, ListBots
<1>6. ASSUME NEW h \in Handlers, SendToBot(h) PROVE WallInv'
  BY <1>2, <1>6, SendToBotKeeps DEF WallInv
<1>7. CASE FetchPage
  BY <1>2, <1>7, FetchPageKeeps, FlightKeeps DEF WallInv, FetchPage
<1> QED
  BY <1>3, <1>4, <1>5, <1>6, <1>7
     DEF Next, ServerStep, BotStep, Request, Handle, Connect, Handover, LinkLost, BackfillFails,
         Restart, Mishap, hubVars, vars

(* The path is the handlers with more around them.                         *)
THEOREM PathRunsTheHandlers == Spec => StoreSpec
<1>1. Init => StoreInit
  BY DEF Init
<1>2. [Next]_vars => [StoreNext]_storeVars
  BY PathStep
<1> QED
  BY <1>1, <1>2, PTL DEF Spec, StoreSpec

(* With the fan-out and the bot: an event under way has the flags of its   *)
(* text, and no hidden text has reached the bot.                           *)
THEOREM WallInvariance == Spec => []WallInv
<1>1. Init => WallInv
  BY InitIInv DEF Init, WallInv, FlightInv, HiddenTextStaysHidden
<1> QED
  BY <1>1, PathKeeps, PTL DEF Spec

(* The privacy wall: no text that triggers a flag reaches a bot, live or   *)
(* by backfill, for any requests that overlap.                             *)
THEOREM HiddenTextNeverReachesABot == Spec => []HiddenTextStaysHidden
<1>1. WallInv => HiddenTextStaysHidden
  BY DEF WallInv
<1> QED
  BY WallInvariance, <1>1, PTL

(* The seqs of a channel are 1, 2, 3... in the order of insertion, for any *)
(* number of overlapping posts.                                            *)
THEOREM SeqsAreGapless == Spec => []SeqIsGapless
<1>1. IInv => SeqIsGapless
  BY DEF IInv
<1> QED
  BY PathRunsTheHandlers, StoreInvariance, <1>1, PTL

(* No row and no event ever holds a user's text without its flags.         *)
THEOREM FlagsComeWithTheText == Spec => []TextIsFlagged
<1>1. IInv => TextIsFlagged
  BY DEF IInv
<1> QED
  BY PathRunsTheHandlers, StoreInvariance, <1>1, PTL

(* A message is announced at most once, as the row it is.                  *)
THEOREM MessagesAreAnnouncedOnce == Spec => []AnnouncedOnce
<1>1. IInv => AnnouncedOnce
  BY DEF IInv
<1> QED
  BY PathRunsTheHandlers, StoreInvariance, <1>1, PTL
-----------------------------------------------------------------------------
(* The bot's client by itself: IInv of BotClient is inductive whatever the  *)
(* server answers and sends.  The steps that matter are the two that hand  *)
(* a message over: both take a seq above the cursor, and everything handed *)
(* over so far is at or below it.                                          *)

(* An element of a sequence has the type of its elements.                  *)
LEMMA Element == ASSUME NEW S, NEW q \in Seq(S), NEW i \in 1..Len(q) PROVE q[i] \in S
OBVIOUS

(* A fresh client has handed over nothing and asks for nothing.            *)
LEMMA ClientInit == Client!Init => Client!IInv
<1> USE DeliveryAssumption DEF Client!BotClientAssumption
<1>1. ASSUME Client!Init PROVE Client!TypeOK
  <2>1. page \in Seq(Client!Item) /\ wire \in Seq(Client!Frame) /\ yielded \in Seq(1..MaxRows)
    BY <1>1 DEF Client!Init
  <2>2. Len(wire) <= MaxEvents
    BY <1>1 DEF Client!Init
  <2>3. short \in BOOLEAN /\ before \in BOOLEAN /\ known \in BOOLEAN
    BY <1>1, Zenon DEF Client!Init
  <2>4. cursor \in 0..MaxRows /\ from \in 0..(MaxRows + 1)
    BY <1>1 DEF Client!Init
  <2> QED BY <1>1, <2>1, <2>2, <2>3, <2>4 DEF Client!Init, Client!TypeOK
<1>2. ASSUME Client!Init PROVE Client!YieldsAscend /\ Client!CursorCoversYields
  BY <1>2 DEF Client!Init, Client!YieldsAscend, Client!CursorCoversYields
<1> QED BY <1>1, <1>2 DEF Client!Init, Client!IInv

(* Handing over a message beyond the cursor keeps the order.               *)
LEMMA ClientHandsOver ==
    ASSUME NEW s \in 1..MaxRows, Client!IInv, cursor < s, cursor' = s,
           yielded' = Append(yielded, s)
    PROVE  Client!YieldsAscend' /\ Client!CursorCoversYields' /\ yielded' \in Seq(1..MaxRows)
<1> USE DeliveryAssumption DEF Client!BotClientAssumption
<1>1. yielded \in Seq(1..MaxRows) /\ cursor \in 0..MaxRows
  BY DEF Client!IInv, Client!TypeOK
<1>2. yielded' \in Seq(1..MaxRows) /\ Len(yielded') = Len(yielded) + 1
  BY <1>1
<1>3. \A i \in 1..Len(yielded) : yielded'[i] = yielded[i] /\ yielded[i] \in 1..MaxRows
  BY <1>1
<1>4. yielded'[Len(yielded) + 1] = s
  BY <1>1
<1>5. \A i \in 1..Len(yielded) : yielded[i] <= cursor
  BY DEF Client!IInv, Client!CursorCoversYields
<1>6. \A i, j \in 1..Len(yielded) : i < j => yielded[i] < yielded[j]
  BY DEF Client!IInv, Client!YieldsAscend
<1>7. Len(yielded) \in Nat
  BY <1>1
<1>8. \A i \in 1..Len(yielded') : i \in 1..Len(yielded) \/ i = Len(yielded) + 1
  BY <1>2, <1>7
<1>9. Client!YieldsAscend'
  <2> SUFFICES ASSUME NEW i \in 1..Len(yielded'), NEW j \in 1..Len(yielded'), i < j
               PROVE  yielded'[i] < yielded'[j]
    BY DEF Client!YieldsAscend
  <2>1. i \in 1..Len(yielded)
    BY <1>2, <1>7
  <2>2. CASE j \in 1..Len(yielded)
    BY <2>1, <2>2, <1>3, <1>6
  <2>3. CASE j = Len(yielded) + 1
    BY <2>1, <2>3, <1>1, <1>3, <1>4, <1>5
  <2> QED BY <2>2, <2>3, <1>8
<1>10. Client!CursorCoversYields'
  <2> SUFFICES ASSUME NEW i \in 1..Len(yielded') PROVE yielded'[i] <= cursor'
    BY DEF Client!CursorCoversYields
  <2>1. CASE i \in 1..Len(yielded)
    BY <2>1, <1>1, <1>3, <1>5
  <2>2. CASE i = Len(yielded) + 1
    BY <2>2, <1>4
  <2> QED BY <2>1, <2>2, <1>8
<1> QED BY <1>2, <1>9, <1>10

(* So does moving the cursor forward and handing over nothing.             *)
LEMMA ClientKeepsYields ==
    ASSUME Client!IInv, yielded' = yielded, cursor' \in 0..MaxRows, cursor <= cursor'
    PROVE  Client!YieldsAscend' /\ Client!CursorCoversYields' /\ yielded' \in Seq(1..MaxRows)
<1>1. yielded \in Seq(1..MaxRows) /\ cursor \in 0..MaxRows
  BY DEF Client!IInv, Client!TypeOK
<1>2. \A i \in 1..Len(yielded) : yielded[i] \in 1..MaxRows
  BY <1>1, Element
<1>3. Client!YieldsAscend'
  BY DEF Client!IInv, Client!YieldsAscend
<1>4. Client!CursorCoversYields'
  BY <1>1, <1>2, DeliveryAssumption
     DEF Client!IInv, Client!CursorCoversYields, Client!BotClientAssumption
<1> QED BY <1>1, <1>3, <1>4

(* A known channel's backfill starts beyond its cursor.                    *)
LEMMA ClientConnects ==
    ASSUME Client!IInv, Client!Connect
    PROVE  Client!IInv' /\ cursor <= cursor' /\ (known => known')
<1> USE DeliveryAssumption DEF Client!BotClientAssumption
<1>1. cursor' = cursor /\ yielded' = yielded /\ cursor \in 0..MaxRows
  BY DEF Client!IInv, Client!TypeOK, Client!Connect
<1>2. Client!YieldsAscend' /\ Client!CursorCoversYields' /\ yielded' \in Seq(1..MaxRows)
  BY <1>1, ClientKeepsYields
<1>3. Client!TypeOK'
  <2>1. wire' \in Seq(Client!Frame) /\ Len(wire') <= MaxEvents
    BY DEF Client!Connect
  <2>2. before' \in BOOLEAN
    BY Zenon DEF Client!Connect
  <2> QED BY <1>1, <1>2, <2>1, <2>2 DEF Client!IInv, Client!TypeOK, Client!Connect
<1>4. link' # "paging" /\ (link' = "backfill" => cursor' < from')
  BY <1>1 DEF Client!IInv, Client!TypeOK, Client!Connect
<1> QED BY <1>1, <1>2, <1>3, <1>4 DEF Client!IInv, Client!Connect

(* Losing the link, restarting and receiving bytes hand over nothing.      *)
LEMMA ClientIsQuiet ==
    ASSUME Client!IInv, Client!LinkLost \/ Client!Restart \/ Client!BackfillFails
           \/ \E f \in Client!Frame : Client!Arrive(f)
    PROVE  Client!IInv' /\ cursor <= cursor' /\ (known => known')
<1> USE DeliveryAssumption DEF Client!BotClientAssumption
<1>1. UNCHANGED <<cursor, yielded, known, from, page, short>> /\ cursor \in 0..MaxRows
  BY DEF Client!IInv, Client!TypeOK, Client!LinkLost, Client!Restart, Client!BackfillFails,
     Client!Arrive
<1>2. Client!YieldsAscend' /\ Client!CursorCoversYields' /\ yielded' \in Seq(1..MaxRows)
  BY <1>1, ClientKeepsYields
<1>3. wire' \in Seq(Client!Frame) /\ Len(wire') <= MaxEvents
  <2>1. CASE Client!LinkLost BY <2>1 DEF Client!LinkLost
  <2>2. CASE Client!Restart \/ Client!BackfillFails
    BY <2>2 DEF Client!Restart, Client!BackfillFails, Client!IInv, Client!TypeOK
  <2>3. ASSUME NEW f \in Client!Frame, Client!Arrive(f)
        PROVE  wire' \in Seq(Client!Frame) /\ Len(wire') <= MaxEvents
    BY <2>3 DEF Client!Arrive, Client!IInv, Client!TypeOK
  <2> QED BY <2>1, <2>2, <2>3
<1>4. before' \in BOOLEAN
  BY Zenon DEF Client!IInv, Client!TypeOK, Client!LinkLost, Client!Restart, Client!BackfillFails,
     Client!Arrive
<1>5. link' = link \/ link' \in {"down", "live"}
  BY DEF Client!LinkLost, Client!Restart, Client!BackfillFails,
     Client!Arrive
<1>6. Client!TypeOK'
  BY <1>1, <1>2, <1>3, <1>4, <1>5 DEF Client!IInv, Client!TypeOK
<1> QED BY <1>1, <1>2, <1>5, <1>6 DEF Client!IInv, Client!TypeOK

(* A page holds, in order, messages from where it was asked for.           *)
LEMMA ClientFetches ==
    ASSUME NEW items, Client!IInv, Client!IsPage(items, from), Client!FetchPage(items)
    PROVE  Client!IInv' /\ cursor <= cursor' /\ (known => known')
<1> USE DeliveryAssumption DEF Client!BotClientAssumption
<1>1. cursor' = cursor /\ yielded' = yielded /\ cursor \in 0..MaxRows /\ from' = from
  BY DEF Client!IInv, Client!TypeOK, Client!FetchPage
<1>2. Client!YieldsAscend' /\ Client!CursorCoversYields' /\ yielded' \in Seq(1..MaxRows)
  BY <1>1, ClientKeepsYields
<1>3. short' \in BOOLEAN
  BY DEF Client!FetchPage
<1>4. Client!TypeOK'
  BY <1>1, <1>2, <1>3 DEF Client!IInv, Client!TypeOK, Client!FetchPage, Client!IsPage
<1>5. cursor < from
  BY DEF Client!IInv, Client!FetchPage
<1>6. \A i \in 1..Len(items) : items[i].seq \in 1..MaxRows
  <2>1. \A i \in 1..Len(items) : items[i] \in Client!Item
    BY Element DEF Client!IsPage
  <2> QED BY <2>1 DEF Client!Item
<1>7. \A i \in 1..Len(page') : cursor' < page'[i].seq
  BY <1>1, <1>5, <1>6 DEF Client!FetchPage, Client!IsPage, Client!IInv, Client!TypeOK
<1>8. \A i, j \in 1..Len(page') : i < j => page'[i].seq < page'[j].seq
  BY DEF Client!FetchPage, Client!IsPage
<1> QED BY <1>1, <1>2, <1>4, <1>5, <1>7, <1>8 DEF Client!IInv, Client!FetchPage

(* A backfilled message lies beyond the cursor and becomes it.             *)
LEMMA ClientBackfills ==
    ASSUME Client!IInv, Client!BackfillItem PROVE Client!IInv' /\ cursor <= cursor' /\ (known => known')
<1> USE DeliveryAssumption DEF Client!BotClientAssumption
<1> DEFINE s == Head(page).seq
<1>1. /\ page \in Seq(Client!Item) /\ page # <<>> /\ link = "paging"
      /\ cursor \in 0..MaxRows /\ from \in 0..(MaxRows + 1)
  BY DEF Client!IInv, Client!TypeOK, Client!BackfillItem
<1>2. 1 \in 1..Len(page) /\ Head(page) = page[1] /\ Head(page) \in Client!Item
  BY <1>1
<1>3. s \in 1..MaxRows /\ cursor < s
  BY <1>1, <1>2 DEF Client!IInv, Client!Item
<1>4. cursor' = s /\ from' = s + 1
  BY <1>1, <1>3 DEF Client!BackfillItem, Client!Highest
<1>5. Client!YieldsAscend' /\ Client!CursorCoversYields' /\ yielded' \in Seq(1..MaxRows)
  <2>1. CASE Head(page).deleted
    <3>1. yielded' = yielded
      BY <2>1 DEF Client!BackfillItem
    <3>2. cursor' \in 0..MaxRows /\ cursor <= cursor'
      BY <1>1, <1>3, <1>4
    <3> HIDE DEF s
    <3> QED BY <3>1, <3>2, ClientKeepsYields
  <2>2. CASE ~Head(page).deleted
    <3>1. yielded' = Append(yielded, s)
      BY <2>2 DEF Client!BackfillItem
    <3> HIDE DEF s
    <3> QED BY <3>1, <1>3, <1>4, ClientHandsOver
  <2> QED BY <2>1, <2>2
<1>6. /\ page' \in Seq(Client!Item) /\ Len(page') = Len(page) - 1
      /\ \A i \in 1..Len(page') : page'[i] = page[i + 1] /\ i + 1 \in 1..Len(page)
  BY <1>1 DEF Client!BackfillItem
<1>7. \A i \in 1..Len(page) : page[i].seq \in 1..MaxRows
  <2>1. \A i \in 1..Len(page) : page[i] \in Client!Item
    BY <1>1, Element
  <2> QED BY <2>1 DEF Client!Item
<1>8. \A i, j \in 1..Len(page) : i < j => page[i].seq < page[j].seq
  BY <1>1 DEF Client!IInv
<1>9. Len(page) \in Nat
  BY <1>1
<1>10. \A i \in 1..Len(page') : cursor' < page'[i].seq
  <2> SUFFICES ASSUME NEW i \in 1..Len(page') PROVE cursor' < page'[i].seq
    OBVIOUS
  <2>1. page'[i] = page[i + 1] /\ i + 1 \in 1..Len(page) /\ 1 < i + 1
    BY <1>6, <1>9
  <2> QED BY <2>1, <1>2, <1>4, <1>8
<1>11. \A i, j \in 1..Len(page') : i < j => page'[i].seq < page'[j].seq
  <2> SUFFICES ASSUME NEW i \in 1..Len(page'), NEW j \in 1..Len(page'), i < j
               PROVE  page'[i].seq < page'[j].seq
    OBVIOUS
  <2>1. i + 1 < j + 1 /\ i + 1 \in 1..Len(page) /\ j + 1 \in 1..Len(page)
    BY <1>6, <1>9
  <2> QED BY <2>1, <1>6, <1>8
<1>12. Client!TypeOK'
  <2>1. cursor' \in 0..MaxRows /\ from' \in 0..(MaxRows + 1)
    BY <1>3, <1>4
  <2> QED BY <2>1, <1>5, <1>6 DEF Client!IInv, Client!TypeOK, Client!BackfillItem
<1>13. cursor' < from' /\ cursor <= cursor' /\ known' = known
  BY <1>1, <1>3, <1>4 DEF Client!BackfillItem
<1> QED BY <1>5, <1>10, <1>11, <1>12, <1>13 DEF Client!IInv

(* The next page is asked for beyond the cursor.                           *)
LEMMA ClientEndsPage ==
    ASSUME Client!IInv, Client!PageDone PROVE Client!IInv' /\ cursor <= cursor' /\ (known => known')
<1> USE DeliveryAssumption DEF Client!BotClientAssumption
<1>1. UNCHANGED <<before, known, cursor, from, page, short, wire, yielded>> /\ cursor \in 0..MaxRows
  BY DEF Client!IInv, Client!TypeOK, Client!PageDone
<1>2. Client!YieldsAscend' /\ Client!CursorCoversYields' /\ yielded' \in Seq(1..MaxRows)
  BY <1>1, ClientKeepsYields
<1>3. link = "paging" /\ link' \in {"live", "backfill"}
  BY DEF Client!PageDone
<1>4. Client!TypeOK'
  BY <1>1, <1>3 DEF Client!IInv, Client!TypeOK
<1> QED BY <1>1, <1>2, <1>3, <1>4 DEF Client!IInv

(* A live message is handed over only beyond the cursor.                   *)
LEMMA ClientReceives ==
    ASSUME Client!IInv, Client!ReceiveCreate
    PROVE  Client!IInv' /\ cursor <= cursor' /\ (known => known')
<1> USE DeliveryAssumption DEF Client!BotClientAssumption
<1> DEFINE s == Head(wire).seq
<1>1. /\ wire \in Seq(Client!Frame) /\ wire # <<>> /\ link = "live" /\ link' = "live"
      /\ cursor \in 0..MaxRows
  BY DEF Client!IInv, Client!TypeOK, Client!ReceiveCreate
<1>2. wire' \in Seq(Client!Frame) /\ Len(wire') = Len(wire) - 1 /\ Head(wire) \in Client!Frame
  BY <1>1 DEF Client!ReceiveCreate
<1>3. s \in 1..MaxRows
  BY <1>2 DEF Client!Frame
<1>4. CASE s <= cursor
  <2>1. UNCHANGED <<known, cursor, yielded>>
    BY <1>4 DEF Client!ReceiveCreate
  <2>2. Client!YieldsAscend' /\ Client!CursorCoversYields' /\ yielded' \in Seq(1..MaxRows)
    BY <2>1, <1>1, ClientKeepsYields
  <2>3. Client!TypeOK'
    BY <1>1, <1>2, <2>1, <2>2 DEF Client!IInv, Client!TypeOK, Client!ReceiveCreate
  <2> QED BY <1>1, <2>1, <2>2, <2>3 DEF Client!IInv
<1>5. CASE ~(s <= cursor)
  <2>1. cursor' = s /\ known' = TRUE /\ yielded' = Append(yielded, s) /\ cursor < s
    BY <1>1, <1>3, <1>5 DEF Client!ReceiveCreate, Client!AdvanceTo, Client!Highest
  <2>2. Client!YieldsAscend' /\ Client!CursorCoversYields' /\ yielded' \in Seq(1..MaxRows)
    <3> HIDE DEF s
    <3> QED BY <2>1, <1>3, ClientHandsOver
  <2>3. Client!TypeOK'
    <3>1. known' \in BOOLEAN /\ cursor' \in 0..MaxRows
      BY <2>1, <1>3
    <3> QED BY <3>1, <1>1, <1>2, <2>2 DEF Client!IInv, Client!TypeOK, Client!ReceiveCreate
  <2>4. cursor <= cursor'
    BY <2>1, <1>1, <1>3
  <2> QED BY <1>1, <2>1, <2>2, <2>3, <2>4 DEF Client!IInv
<1> QED BY <1>4, <1>5

(* Edits and deletes only move the cursor forward.                         *)
LEMMA ClientReceivesOther ==
    ASSUME Client!IInv, Client!ReceiveOther PROVE Client!IInv' /\ cursor <= cursor' /\ (known => known')
<1> USE DeliveryAssumption DEF Client!BotClientAssumption
<1>1. /\ wire \in Seq(Client!Frame) /\ wire # <<>> /\ link = "live" /\ link' = "live"
      /\ cursor \in 0..MaxRows
  BY DEF Client!IInv, Client!TypeOK, Client!ReceiveOther
<1>2. wire' \in Seq(Client!Frame) /\ Len(wire') = Len(wire) - 1 /\ Head(wire) \in Client!Frame
  BY <1>1 DEF Client!ReceiveOther
<1>3. Head(wire).seq \in 1..MaxRows
  BY <1>2 DEF Client!Frame
<1>4. cursor' \in 0..MaxRows /\ cursor <= cursor' /\ known' = TRUE /\ yielded' = yielded
  BY <1>1, <1>3 DEF Client!ReceiveOther, Client!AdvanceTo, Client!Highest
<1>5. Client!YieldsAscend' /\ Client!CursorCoversYields' /\ yielded' \in Seq(1..MaxRows)
  BY <1>4, ClientKeepsYields
<1>6. Client!TypeOK'
  BY <1>1, <1>2, <1>4, <1>5 DEF Client!IInv, Client!TypeOK, Client!ReceiveOther
<1> QED BY <1>1, <1>4, <1>5, <1>6 DEF Client!IInv

(* Every step of the client keeps the invariant and the cursor's order.    *)
LEMMA ClientKeeps ==
    ASSUME Client!IInv, Client!Next PROVE Client!IInv' /\ cursor <= cursor' /\ (known => known')
BY ClientConnects, ClientIsQuiet, ClientFetches, ClientBackfills, ClientEndsPage,
   ClientReceives, ClientReceivesOther DEF Client!Next

(* A stuttering step keeps everything.                                     *)
LEMMA ClientStutters ==
    ASSUME Client!IInv, UNCHANGED Client!clientVars
    PROVE  Client!IInv' /\ cursor <= cursor' /\ (known => known')
<1>1. cursor \in Nat
  BY DeliveryAssumption DEF Client!IInv, Client!TypeOK, Client!BotClientAssumption
<1> QED
  BY <1>1 DEF Client!clientVars, Client!IInv, Client!TypeOK, Client!YieldsAscend,
              Client!CursorCoversYields

(* The inductive invariant holds throughout: a page under way lies beyond  *)
(* the cursor and everything handed over at or below it.                   *)
THEOREM ClientInvariance == Client!Spec => []Client!IInv
<1>1. Client!Init => Client!IInv
  BY ClientInit
<1>2. Client!IInv /\ [Client!Next]_(Client!clientVars) => Client!IInv'
  BY ClientKeeps, ClientStutters DEF Client!clientVars
<1> QED BY <1>1, <1>2, PTL DEF Client!Spec

(* Every variable of the client keeps its type, the bounds on the cursor,  *)
(* the next page's start and the socket's queue included.                  *)
THEOREM ClientTypeCorrect == Client!Spec => []Client!TypeOK
BY ClientInvariance, PTL DEF Client!IInv

(* The bot is handed each message at most once and in seq order, for any   *)
(* page size and any sequence of reconnects, frames and pages.             *)
THEOREM HandedOverInOrder == Client!Spec => []Client!YieldsAscend
BY ClientInvariance, PTL DEF Client!IInv

(* The cursor is never behind what was handed over.                        *)
THEOREM CursorIsNeverBehind == Client!Spec => []Client!CursorCoversYields
BY ClientInvariance, PTL DEF Client!IInv

(* last_seen_seq of a channel only moves forward and is never forgotten.   *)
THEOREM CursorNeverGoesBack == Client!Spec => Client!CursorIsMonotonic
<1>1. Client!IInv /\ [Client!Next]_(Client!clientVars)
         => [cursor <= cursor' /\ (known => known')]_(Client!clientVars)
  BY ClientKeeps
<1> QED BY <1>1, ClientInvariance, PTL DEF Client!Spec, Client!CursorIsMonotonic
-----------------------------------------------------------------------------
(* The path runs the client.                                               *)

(* The page of a listing is in order: below the k-th seq there are k of    *)
(* them, because counting is one-to-one onto 1..Cardinality.               *)
UpTo(S, i) == {j \in S : j <= i}
Rank(S, i) == Cardinality(UpTo(S, i))

LEMMA RankIsBounded ==
    ASSUME NEW S \in SUBSET Nat, IsFiniteSet(S), NEW i \in S
    PROVE  IsFiniteSet(UpTo(S, i)) /\ Rank(S, i) \in 1..Cardinality(S)
<1>1. UpTo(S, i) \in SUBSET S /\ i \in UpTo(S, i)
  BY DEF UpTo
<1>2. IsFiniteSet(UpTo(S, i)) /\ Cardinality(UpTo(S, i)) <= Cardinality(S)
  BY <1>1, FS_Subset
<1>3. Cardinality(UpTo(S, i)) \in Nat /\ Cardinality(S) \in Nat
  BY <1>2, FS_CardinalityType
<1>4. Cardinality(UpTo(S, i)) # 0
  BY <1>1, <1>2, FS_EmptySet
<1> QED
  BY <1>2, <1>3, <1>4 DEF Rank

LEMMA RankAscends ==
    ASSUME NEW S \in SUBSET Nat, IsFiniteSet(S), NEW i \in S, NEW j \in S, i < j
    PROVE  Rank(S, i) < Rank(S, j)
<1>1. \A m \in S : m \in Nat
  OBVIOUS
<1>2. \A m \in UpTo(S, i) : m \in UpTo(S, j)
  BY <1>1 DEF UpTo
<1>3. j \in UpTo(S, j) /\ j \notin UpTo(S, i)
  BY <1>1 DEF UpTo
<1>4. IsFiniteSet(UpTo(S, j)) /\ UpTo(S, i) \in SUBSET UpTo(S, j)
  BY <1>2, RankIsBounded
<1>5. Cardinality(UpTo(S, i)) <= Cardinality(UpTo(S, j)) /\ Cardinality(UpTo(S, i)) # Cardinality(UpTo(S, j))
  BY <1>3, <1>4, FS_Subset
<1>6. Cardinality(UpTo(S, i)) \in Nat /\ Cardinality(UpTo(S, j)) \in Nat
  BY <1>4, FS_Subset, FS_CardinalityType
<1> QED
  BY <1>5, <1>6 DEF Rank

LEMMA RanksAreTaken ==
    ASSUME NEW S \in SUBSET Nat, IsFiniteSet(S), NEW k \in 1..Cardinality(S)
    PROVE  \E i \in S : Rank(S, i) = k
<1> DEFINE f == [i \in S |-> Rank(S, i)]
           T == 1..Cardinality(S)
<1>1. \A i \in S : Rank(S, i) \in T
  BY RankIsBounded
<1>2. f \in [S -> T]
  BY <1>1
<1>3. ASSUME NEW i \in S, NEW j \in S, f[i] = f[j] PROVE i = j
  <2>1. i \in Nat /\ j \in Nat /\ Rank(S, i) = Rank(S, j) /\ Rank(S, i) \in T /\ Rank(S, j) \in T
    BY <1>1, <1>3
  <2>2. CASE i < j
    BY <2>1, <2>2, RankAscends
  <2>3. CASE j < i
    BY <2>1, <2>3, RankAscends
  <2> QED
    BY <2>1, <2>2, <2>3
<1>4. f \in Injection(S, T)
  BY <1>2, <1>3 DEF Injection, IsInjective
<1>5. IsFiniteSet(T) /\ Cardinality(T) = Cardinality(S)
  BY FS_Interval, FS_CardinalityType
<1>6. f \in Surjection(S, T)
  <2> HIDE DEF f, T
  <2> QED
    BY <1>4, <1>5, FS_Injection
<1> QED
  BY <1>6 DEF Surjection

LEMMA PageAscends ==
    ASSUME NEW S \in SUBSET Nat, IsFiniteSet(S), NEW k \in 1..Cardinality(S)
    PROVE  /\ Nth(S, k) \in S
           /\ \A m \in 1..Cardinality(S) : k < m => Nth(S, k) < Nth(S, m)
<1>1. ASSUME NEW m \in 1..Cardinality(S) PROVE Nth(S, m) \in S /\ Rank(S, Nth(S, m)) = m
  <2>1. \E i \in S : Rank(S, i) = m
    BY RanksAreTaken
  <2>2. Nth(S, m) = CHOOSE i \in S : Rank(S, i) = m
    BY DEF Nth, Rank, UpTo
  <2> QED
    BY <2>1, <2>2
<1>2. ASSUME NEW m \in 1..Cardinality(S), k < m PROVE Nth(S, k) < Nth(S, m)
  <2> DEFINE i == Nth(S, k)
             j == Nth(S, m)
  <2>1. i \in S /\ j \in S /\ i \in Nat /\ j \in Nat
    BY <1>1
  <2>2. Rank(S, i) = k /\ Rank(S, j) = m
    BY <1>1
  <2> HIDE DEF i, j
  <2>3. i # j
    BY <1>2, <2>2
  <2>4. ~(j < i)
    BY <1>2, <2>1, <2>2, RankAscends
  <2>5. i < j
    BY <2>1, <2>3, <2>4
  <2> QED
    BY <2>5 DEF i, j
<1> QED
  BY <1>1, <1>2
(* list_messages answers with a page, as BotClient expects it.             *)
LEMMA ListingIsAPage ==
    ASSUME IInv, Client!IInv, FetchPage
    PROVE  \E n \in 0..Page : \E items \in [1..n -> Client!Item] :
              Client!IsPage(items, from) /\ Client!FetchPage(items)
<1> DEFINE S == VisibleFrom(from)
           n == Cardinality(S)
           items == [k \in 1..n |-> [seq |-> rows[Nth(S, k)].seq, deleted |-> rows[Nth(S, k)].deleted]]
<1>1. /\ rows \in Seq(Row) /\ Len(rows) \in Nat /\ \A i \in Ids : rows[i] \in Row /\ rows[i].seq = i
      /\ from \in Nat /\ Page \in Nat \ {0}
  BY DeliveryAssumption DEF IInv, StoreTyped, SeqIsGapless, Ids, Client!IInv, Client!TypeOK,
     Client!BotClientAssumption
<1>2. S \in SUBSET (from..(from + Page - 1)) /\ S \in SUBSET Ids /\ S \in SUBSET Nat
  BY <1>1 DEF VisibleFrom, RowsFrom, Ids
<1>3. IsFiniteSet(from..(from + Page - 1)) /\ Cardinality(from..(from + Page - 1)) = Page
  BY <1>1, FS_Interval
<1>4. IsFiniteSet(S) /\ n <= Page
  BY <1>2, <1>3, FS_Subset
<1>5. n \in 0..Page
  BY <1>1, <1>4, FS_CardinalityType
<1>6. ASSUME NEW k \in 1..n
      PROVE  /\ Nth(S, k) \in Ids /\ from <= Nth(S, k)
             /\ items[k] \in Client!Item /\ items[k].seq = Nth(S, k)
  <2>1. Nth(S, k) \in S
    BY <1>2, <1>4, PageAscends
  <2>2. Nth(S, k) \in Ids /\ Nth(S, k) \in from..(from + Page - 1)
    BY <1>2, <2>1
  <2>3. rows[Nth(S, k)] \in Row /\ rows[Nth(S, k)].seq = Nth(S, k)
    BY <1>1, <2>2
  <2> HIDE DEF S
  <2> QED
    BY <1>1, <2>2, <2>3 DEF Row, Client!Item
<1>7. \A k, m \in 1..n : k < m => items[k].seq < items[m].seq
  <2>1. \A k, m \in 1..n : k < m => Nth(S, k) < Nth(S, m)
    BY <1>2, <1>4, PageAscends
  <2>2. \A k \in 1..n : items[k].seq = Nth(S, k)
    BY <1>6
  <2> HIDE DEF S, items
  <2> QED
    BY <2>1, <2>2
<1>8. items \in [1..n -> Client!Item]
  <2>1. \A k \in 1..n : items[k] \in Client!Item
    BY <1>6
  <2> HIDE DEF S, n
  <2> QED
    BY <2>1
<1>9. Client!IsPage(items, from)
  <2>1. items \in Seq(Client!Item) /\ Len(items) = n
    <3>1. n \in Nat
      BY <1>1, <1>5
    <3> HIDE DEF S, n, items
    <3> QED
      BY <1>8, <3>1
  <2>2. \A k \in 1..n : from <= items[k].seq
    BY <1>6
  <2> HIDE DEF S, n, items
  <2> QED
    BY <1>5, <1>7, <2>1, <2>2 DEF Client!IsPage
<1>10. Client!FetchPage(items)
  BY DEF FetchPage
<1> HIDE DEF S, n, items
<1> QED
  BY <1>5, <1>8, <1>9, <1>10

(* Each step of the path is a step of the client or none of it.            *)
LEMMA PathStepsClient ==
    ASSUME WallInv, Client!IInv, [Next]_vars PROVE [Client!Next]_(Client!clientVars)
<1>1. CASE UNCHANGED vars
  BY <1>1 DEF vars, Client!clientVars
<1>2. ASSUME NEW h \in Handlers, Request(h) \/ Handle(h) \/ Publish(h) \/ ListBots(h)
      PROVE  UNCHANGED Client!clientVars
  BY <1>2 DEF Request, Handle, Publish, StorePublish, ListBots, clientVars, Client!clientVars
<1>3. ASSUME NEW h \in Handlers, SendToBot(h) PROVE [Client!Next]_(Client!clientVars)
  <2>1. flight[h] # Idle
    BY <1>3 DEF SendToBot, Idle
  <2>2. flight[h].event \in Event
    BY <2>1 DEF WallInv, FlightInv, Carried
  <2>3. [type |-> flight[h].event.type, seq |-> flight[h].event.seq] \in Client!Frame
    BY <2>2 DEF Event, Client!Frame
  <2>4. \/ Client!Arrive([type |-> flight[h].event.type, seq |-> flight[h].event.seq])
        \/ UNCHANGED clientVars
    BY <1>3 DEF SendToBot
  <2> QED
    BY <2>3, <2>4 DEF Client!Next, clientVars, Client!clientVars
<1>4. CASE FetchPage
  BY <1>4, ListingIsAPage DEF WallInv, Client!Next
<1>5. CASE Connect \/ Handover \/ LinkLost \/ BackfillFails \/ Restart
  BY <1>5 DEF Connect, Handover, LinkLost, BackfillFails, Restart, Client!Next
<1> QED
  BY <1>1, <1>2, <1>3, <1>4, <1>5 DEF Next, ServerStep, BotStep

(* Both invariants hold along the path.                                    *)
THEOREM PathInvariance == Spec => [](WallInv /\ Client!IInv)
<1>1. Init => Client!IInv
  BY ClientInit DEF Init
<1>2. WallInv /\ Client!IInv /\ [Next]_vars => Client!IInv'
  BY PathStepsClient, ClientKeeps, ClientStutters
<1> QED
  BY <1>1, <1>2, WallInvariance, PTL DEF Spec

(* Against the real server and hub the client is the client that was       *)
(* proved about alone: pages and frames are what it counts on.             *)
THEOREM PathRunsTheClient == Spec => Client!Spec
<1>1. Init => Client!Init
  BY DEF Init
<1>2. WallInv /\ Client!IInv /\ [Next]_vars => [Client!Next]_(Client!clientVars)
  BY PathStepsClient
<1> QED
  BY <1>1, <1>2, PathInvariance, PTL DEF Spec, Client!Spec
-----------------------------------------------------------------------------
(* Nothing else is skipped.  Where on the path a message is that the bot   *)
(* was not handed yet: beyond the cursor, and still to be asked for, in    *)
(* the page in hand, or on its way with nothing before it that would move  *)
(* the cursor past it.                                                     *)
Catching == link \in {"backfill", "paging"}

InPage(i) == \E n \in 1..Len(page) : page[n].seq = i /\ ~page[n].deleted
PageIsBefore(i) == \A n \in 1..Len(page) : page[n].seq < i

Coming(i) ==
    /\ cursor < i
    /\ Catching => from <= i
    /\ \/ link \in {"down", "backfill"}
       \/ link = "paging" /\ InPage(i)
       \/ link = "paging" /\ PageIsBefore(i) /\ (~short \/ OnItsWay(i))
       \/ link = "live" /\ OnItsWay(i)

Spared == Gone \cup lost
Owed(i) == i \in Yielded \cup Spared \/ Coming(i)

(* Nothing the client holds is of a message that is not there.             *)
SeenInv ==
    /\ cursor <= Len(rows)
    /\ from <= Len(rows) + 1
    /\ Yielded \subseteq Ids
    /\ \A n \in 1..Len(wire) : wire[n].seq \in Ids
    /\ \A n \in 1..Len(page) : page[n].seq \in Ids
    /\ link = "down" => wire = <<>>

(* A handler is free again when its event has been fanned out.             *)
ToldInv ==
    \A h \in Handlers : flight[h] # Idle => pc[h] = "idle" /\ flight[h].event.seq \in Ids

(* No frame overtakes the create of a message that is not lost, in the     *)
(* socket or before it gets there.                                         *)
WireInv ==
    \A m, n \in 1..Len(wire) :
        m < n /\ wire[n].type = "message_create" /\ wire[n].seq \notin lost
            => wire[m].seq < wire[n].seq
TellInv ==
    \A h \in Handlers : \A i \in Ids :
        Untold(h, i) /\ i \notin lost => \A n \in 1..Len(wire) : wire[n].seq < i

(* A create the filter will stop is of a message that was hidden.          *)
HiddenInv ==
    \A h \in Handlers :
        /\ pc[h] = "publish" /\ job[h].op = "create" /\ job[h].row.flags # {} => job[h].id \in Spared
        /\ flight[h] # Idle /\ flight[h].event.type = "message_create" /\ flight[h].event.flags # {}
              => flight[h].event.seq \in Spared

Kept == \A i \in Ids : Owed(i)

FeedInv == SeenInv /\ ToldInv /\ WireInv /\ TellInv /\ HiddenInv /\ Kept

LEMMA FeedInit == ASSUME Init PROVE FeedInv
BY DEF Init, StoreInit, Client!Init, Idle, FeedInv, SeenInv, ToldInv, WireInv, TellInv, HiddenInv,
       Kept, Yielded, Ids, NoJob

(* The types the steps below use.                                          *)
PathTyped ==
    /\ rows \in Seq(Row) /\ Len(rows) \in Nat /\ cursor \in Nat /\ from \in Nat /\ Page \in Nat \ {0}
    /\ wire \in Seq(Client!Frame) /\ page \in Seq(Client!Item) /\ yielded \in Seq(1..MaxRows)
    /\ Len(wire) \in Nat /\ Len(page) \in Nat /\ Len(yielded) \in Nat
    /\ link \in {"down", "backfill", "paging", "live"} /\ short \in BOOLEAN
    /\ pc \in [Handlers -> {"idle", "insert", "update", "readback", "publish"}]
    /\ \A i \in Ids : rows[i] \in Row

LEMMA PathIsTyped == ASSUME WallInv, Client!IInv PROVE PathTyped
BY DeliveryAssumption
   DEF WallInv, IInv, StoreTyped, Client!IInv, Client!TypeOK, Client!BotClientAssumption, PathTyped, Ids

LEMMA RowsGrow ==
    ASSUME WallInv, [Next]_vars
    PROVE  /\ \A i \in Ids : rows[i].deleted => rows'[i].deleted
           /\ Len(rows) \in Nat /\ Len(rows') \in Nat /\ Len(rows) <= Len(rows') /\ Ids \subseteq Ids'
<1>1. [StoreNext]_storeVars
  BY PathStep
<1>2. Ids \subseteq Ids' /\ IInv'
  BY <1>1, IdsStay, PathKeeps DEF WallInv
<1>3. rows \in Seq(Row) /\ rows' \in Seq(Row) /\ Len(rows) \in Nat /\ Len(rows') \in Nat
  BY <1>2 DEF WallInv, IInv, StoreTyped
<1>4. Len(rows) <= Len(rows')
  BY <1>2, <1>3 DEF Ids
<1>5. \A i \in Ids : rows[i].deleted => rows'[i].deleted
  <2>1. CASE UNCHANGED rows
    BY <2>1
  <2>2. ASSUME NEW h \in Handlers, Insert(h) PROVE \A i \in Ids : rows'[i] = rows[i]
    BY <1>3, <2>2 DEF Insert, Ids
  <2>3. ASSUME NEW h \in Handlers, EditUpdate(h) \/ DeleteUpdate(h)
        PROVE  \A i \in Ids : rows[i].deleted => rows'[i].deleted
    <3>1. \A i \in Ids : rows[i] \in Row
      BY <1>3 DEF Ids
    <3>2. job[h].id \in Ids
      BY <2>3 DEF EditUpdate, DeleteUpdate, WallInv, IInv, HandlerInv
    <3> DEFINE edited == [rows[job[h].id] EXCEPT !.text = job[h].text, !.flags = job[h].flags]
               dead == [rows[job[h].id] EXCEPT !.deleted = TRUE]
    <3>3. edited.deleted = rows[job[h].id].deleted /\ dead.deleted = TRUE
      BY <3>1, <3>2 DEF Row
    <3>4. rows' = [rows EXCEPT ![job[h].id] = edited] \/ rows' = [rows EXCEPT ![job[h].id] = dead]
      BY <1>3, <2>3, <3>2 DEF EditUpdate, DeleteUpdate, Ids
    <3> HIDE DEF edited, dead
    <3> QED
      BY <1>3, <3>2, <3>3, <3>4 DEF Ids
  <2> QED
    BY <1>1, <2>1, <2>2, <2>3
       DEF StoreNext, StoreRequest, Advance, Create, EditRead, DeleteRead, ReadBack, StorePublish,
           storeVars
<1> QED
  BY <1>2, <1>3, <1>4, <1>5

(* What a step brings back to light is lost in that step.                  *)
LEMMA SparedStays == ASSUME WallInv, [Next]_vars PROVE Spared \subseteq Spared'
<1>1. Ids \subseteq Ids' /\ \A i \in Ids : rows[i].deleted => rows'[i].deleted
  BY RowsGrow
<1>2. ASSUME NEW h \in Handlers, Handle(h) PROVE Spared \subseteq Spared'
  <2>1. lost' = lost \cup Unhidden
    BY <1>2 DEF Handle
  <2> QED
    BY <1>1, <2>1 DEF Spared, Gone, Unhidden
<1>3. CASE UNCHANGED rows /\ lost \subseteq lost'
  BY <1>3 DEF Spared, Gone, Ids
<1>4. ASSUME NEW h \in Handlers, Request(h) \/ Publish(h) \/ ListBots(h) \/ SendToBot(h)
      PROVE  UNCHANGED rows /\ lost \subseteq lost'
  BY <1>4 DEF Request, StoreRequest, Create, EditRead, DeleteRead, Publish, StorePublish, ListBots,
              SendToBot, storeVars, hubVars
<1>5. CASE BotStep \/ LinkLost \/ BackfillFails \/ Restart
  <2>1. UNCHANGED rows
    BY <1>5 DEF BotStep, Connect, FetchPage, Handover, LinkLost, BackfillFails, Restart, Mishap, storeVars
  <2>2. lost \subseteq lost'
    BY <1>5 DEF BotStep, Connect, FetchPage, Handover, LinkLost, BackfillFails, Restart, hubVars
  <2> QED
    BY <1>3, <2>1, <2>2
<1>6. CASE UNCHANGED vars
  BY <1>3, <1>6 DEF vars
<1> QED
  BY <1>2, <1>3, <1>4, <1>5, <1>6 DEF Next, ServerStep

-----------------------------------------------------------------------------
(* The handlers' steps up to the sockets: a create is told of until it is  *)
(* written, and only a new row is a new thing to tell.                     *)
LEMMA ServerTells ==
    ASSUME PathTyped, WallInv, ToldInv, NEW h \in Handlers,
           Request(h) \/ Handle(h) \/ Publish(h) \/ ListBots(h)
    PROVE  /\ ToldInv'
           /\ \A g \in Handlers : \A i : Untold(g, i) => Untold(g, i)' \/ link = "down"
           /\ \/ /\ Len(rows') = Len(rows)
                 /\ \A g \in Handlers : \A i : Untold(g, i)' => Untold(g, i)
              \/ /\ Len(rows') = Len(rows) + 1
                 /\ \A i : i = Len(rows') => Untold(h, i)'
                 /\ \A g \in Handlers : \A i : Untold(g, i)' => Untold(g, i) \/ i = Len(rows')
<1>0. /\ HandlerInv(h) /\ DOMAIN job = Handlers /\ DOMAIN flight = Handlers
      /\ flight[h] # Idle => flight[h] \in [at : {"users", "bots"}, event : Event]
      /\ DOMAIN pc = Handlers
  BY DEF WallInv, FlightInv, IInv, StoreTyped
<1>1. \A g \in Handlers : g # h => pc'[g] = pc[g] /\ job'[g] = job[g] /\ flight'[g] = flight[g]
  BY <1>0 DEF Request, StoreRequest, Create, EditRead, DeleteRead, Handle, Insert, EditUpdate, DeleteUpdate,
         ReadBack, Publish, StorePublish, ListBots, Done, Goto, Carry, hubVars, storeVars
<1>2. \A g \in Handlers : g # h => \A i : Untold(g, i)' <=> Untold(g, i)
  BY <1>1 DEF Untold
<1>3. Len(rows) \in Nat /\ Len(rows) <= Len(rows') /\ Ids \subseteq Ids'
  <2>1. [Next]_vars
    BY DEF Next, ServerStep
  <2> QED
    BY <2>1, RowsGrow
<1>4. \A g \in Handlers : g # h =>
         (flight'[g] # Idle => pc'[g] = "idle" /\ flight'[g].event.seq \in Ids')
  BY <1>1, <1>3 DEF ToldInv
<1>5. CASE Request(h)
  <2>1. flight[h] = Idle /\ flight' = flight /\ pc[h] = "idle" /\ pc'[h] \in {"insert", "update"}
        /\ rows' = rows
    BY <1>0, <1>5 DEF Request, StoreRequest, Create, EditRead, DeleteRead, Goto, hubVars
  <2>2. \A i : Untold(h, i)' <=> Untold(h, i)
    BY <2>1 DEF Untold
  <2> QED
    BY <1>2, <1>4, <2>1, <2>2 DEF ToldInv
<1>6. CASE Insert(h) /\ UNCHANGED flight
  <2>1. /\ pc[h] = "insert" /\ pc'[h] = "readback"
        /\ job'[h] = [op |-> "create", id |-> Len(rows) + 1]
        /\ Len(rows') = Len(rows) + 1
    BY <1>0, <1>6 DEF PathTyped, Insert, Goto, Carry
  <2>2. flight[h] = Idle
    BY <2>1 DEF ToldInv
  <2>3. \A i : Untold(h, i)' <=> i = Len(rows')
    BY <1>6, <2>1, <2>2 DEF Untold
  <2>4. \A i : ~Untold(h, i)
    BY <2>1, <2>2 DEF Untold
  <2>5. ToldInv'
    BY <1>4, <1>6, <2>2 DEF ToldInv
  <2>6. \A i : i = Len(rows') => Untold(h, i)'
    BY <2>3
  <2>7. \A g \in Handlers : \A i : Untold(g, i)' => Untold(g, i) \/ i = Len(rows')
    BY <1>2, <2>3
  <2>8. \A g \in Handlers : \A i : Untold(g, i) => Untold(g, i)'
    BY <1>2, <2>4
  <2> QED
    BY <2>1, <2>5, <2>6, <2>7, <2>8
<1>7. CASE (EditUpdate(h) \/ DeleteUpdate(h)) /\ UNCHANGED flight
  <2>1. pc[h] = "update" /\ pc'[h] \in {"readback", "publish"} /\ job'[h].op \in {"edit", "delete"}
    BY <1>0, <1>7 DEF EditUpdate, DeleteUpdate, Goto, Carry
  <2>2. Len(rows') = Len(rows)
    BY <1>7 DEF PathTyped, EditUpdate, DeleteUpdate
  <2>3. flight[h] = Idle
    BY <2>1 DEF ToldInv
  <2>4. \A i : ~Untold(h, i)' /\ ~Untold(h, i)
    BY <1>7, <2>1, <2>3 DEF Untold
  <2> QED
    BY <1>2, <1>4, <1>7, <2>1, <2>2, <2>3, <2>4 DEF ToldInv
<1>8. CASE ReadBack(h) /\ UNCHANGED flight
  <2>1. /\ pc[h] = "readback" /\ pc'[h] = "publish" /\ rows' = rows
        /\ job'[h].op = job[h].op /\ job'[h].id = job[h].id
    BY <1>0, <1>8 DEF ReadBack, Goto, Carry
  <2>2. flight[h] = Idle
    BY <2>1 DEF ToldInv
  <2>3. \A i : Untold(h, i)' <=> Untold(h, i)
    BY <1>8, <2>1, <2>2 DEF Untold
  <2> QED
    BY <1>2, <1>4, <1>8, <2>1, <2>2, <2>3 DEF ToldInv
<1>9. CASE Publish(h)
  <2> DEFINE e == EventOf(job[h])
  <2>1. pc[h] = "publish" /\ pc'[h] = "idle" /\ rows' = rows
        /\ flight'[h] = [at |-> "users", event |-> e]
    BY <1>0, <1>9 DEF WallInv, IInv, StoreTyped, Publish, StorePublish, Done, Goto
  <2>2. flight[h] = Idle
    BY <2>1 DEF ToldInv
  <2>3. job[h].id \in Ids /\ (job[h].op # "delete" => job[h].row.seq = job[h].id)
    BY <1>0, <2>1 DEF HandlerInv
  <2>4. e.seq = job[h].id
    BY <2>3 DEF EventOf, WallInv, IInv, SeqIsGapless
  <2>5. e.type = "message_create" <=> job[h].op = "create"
    BY <1>0, <2>1 DEF HandlerInv, EventOf
  <2>6. flight'[h] # Idle /\ flight'[h].event = e
    BY <2>1 DEF Idle
  <2> HIDE DEF e
  <2>7. \A i : Untold(h, i)' <=> Untold(h, i)
    BY <2>1, <2>2, <2>4, <2>5, <2>6 DEF Untold
  <2>8. e.seq \in Ids'
    BY <1>3, <2>3, <2>4
  <2> QED
    BY <1>2, <1>4, <2>1, <2>6, <2>7, <2>8 DEF ToldInv
<1>10. CASE ListBots(h)
  <2>1. flight[h] # Idle /\ rows' = rows /\ pc' = pc /\ job' = job /\ pc[h] = "idle"
    BY <1>10 DEF ListBots, Idle, storeVars, ToldInv
  <2>2. /\ flight'[h] # Idle => flight'[h].event.type = flight[h].event.type
                                /\ flight'[h].event.seq = flight[h].event.seq
        /\ flight'[h] = Idle => link = "down"
    <3>1. flight[h].event \in Event
      BY <1>0, <2>1
    <3> QED
      BY <1>0, <1>10, <3>1 DEF ListBots, Connected, Idle, Event
  <2>3. /\ \A i : Untold(h, i)' => Untold(h, i)
        /\ \A i : Untold(h, i) => Untold(h, i)' \/ link = "down"
    BY <2>1, <2>2 DEF Untold
  <2>4. flight'[h] # Idle => pc'[h] = "idle" /\ flight'[h].event.seq \in Ids'
    BY <1>3, <2>1, <2>2 DEF ToldInv
  <2> QED
    BY <1>2, <1>4, <2>1, <2>3, <2>4 DEF ToldInv
<1> QED
  BY <1>5, <1>6, <1>7, <1>8, <1>9, <1>10 DEF Handle
(* What a create carries of its row was there when it was read back.       *)
LEMMA ServerHides ==
    ASSUME PathTyped, WallInv, ToldInv, HiddenInv, Spared \subseteq Spared', NEW h \in Handlers,
           Request(h) \/ Handle(h) \/ Publish(h) \/ ListBots(h)
    PROVE  HiddenInv'
<1>0. /\ HandlerInv(h) /\ DOMAIN job = Handlers /\ DOMAIN flight = Handlers /\ DOMAIN pc = Handlers
      /\ flight[h] # Idle => flight[h] \in [at : {"users", "bots"}, event : Event]
  BY DEF WallInv, FlightInv, IInv, StoreTyped
<1>1. \A g \in Handlers : g # h => pc'[g] = pc[g] /\ job'[g] = job[g] /\ flight'[g] = flight[g]
  BY <1>0 DEF Request, StoreRequest, Create, EditRead, DeleteRead, Handle, Insert, EditUpdate, DeleteUpdate,
         ReadBack, Publish, StorePublish, ListBots, Done, Goto, Carry, hubVars, storeVars
<1> DEFINE Job == pc[h] = "publish" /\ job[h].op = "create" /\ job[h].row.flags # {} => job[h].id \in Spared
           Flying == flight[h] # Idle /\ flight[h].event.type = "message_create" /\ flight[h].event.flags # {}
                        => flight[h].event.seq \in Spared
<1>2. Job /\ Flying
  BY DEF HiddenInv
<1>3. SUFFICES Job' /\ Flying'
  BY <1>1, <1>3 DEF HiddenInv
<1>4. CASE UNCHANGED flight
  <2>1. Flying'
    BY <1>2, <1>4
  <2>2. CASE Request(h) \/ Insert(h) \/ EditUpdate(h)
    <3>1. pc'[h] # "publish"
      BY <1>0, <2>2 DEF Request, StoreRequest, Create, EditRead, DeleteRead, Insert, EditUpdate, Goto
    <3> QED
      BY <2>1, <3>1
  <2>3. CASE DeleteUpdate(h)
    <3>1. job'[h].op # "create"
      BY <2>3 DEF DeleteUpdate
    <3> QED
      BY <2>1, <3>1
  <2>4. CASE ReadBack(h)
    <3>1. /\ job'[h].op = job[h].op /\ job'[h].id = job[h].id /\ job'[h].row = rows[job[h].id]
          /\ job[h].id \in Ids
      BY <1>0, <2>4 DEF ReadBack, Carry, HandlerInv
    <3>2. rows[job[h].id].flags # {} => job[h].id \in Spared
      BY <3>1 DEF Spared, Gone
    <3> QED
      BY <2>1, <3>1, <3>2
  <2>5. Request(h) \/ Handle(h)
    BY <1>0, <1>4 DEF Publish, ListBots, Idle, ToldInv, StorePublish, WallInv, FlightInv
  <2> QED
    BY <2>2, <2>3, <2>4, <2>5 DEF Handle
<1>5. CASE Publish(h)
  <2> DEFINE e == EventOf(job[h])
  <2>1. pc[h] = "publish" /\ pc'[h] = "idle" /\ flight'[h] = [at |-> "users", event |-> e]
    BY <1>0, <1>5 DEF WallInv, IInv, StoreTyped, Publish, StorePublish, Done, Goto
  <2>2. job[h].id \in Ids /\ (job[h].op # "delete" => job[h].row.seq = job[h].id)
    BY <1>0, <2>1 DEF HandlerInv
  <2>3. e.type = "message_create" =>
          job[h].op = "create" /\ e.seq = job[h].id /\ e.flags = job[h].row.flags
    BY <1>0, <2>1, <2>2 DEF HandlerInv, EventOf
  <2>4. flight'[h].event = e
    BY <2>1
  <2> HIDE DEF e
  <2> QED
    BY <1>2, <2>1, <2>3, <2>4
<1>6. CASE ListBots(h)
  <2>1. flight[h] # Idle /\ pc' = pc /\ job' = job
    BY <1>6 DEF ListBots, Idle, storeVars
  <2>2. flight[h].event \in Event
    BY <1>0, <2>1
  <2>3. flight'[h] # Idle /\ flight'[h].event.type = "message_create" =>
          /\ flight[h].event.type = "message_create"
          /\ flight'[h].event.flags = flight[h].event.flags
          /\ flight'[h].event.seq = flight[h].event.seq
    BY <1>0, <1>6, <2>2 DEF ListBots, Idle, Event
  <2> QED
    BY <1>2, <2>1, <2>3
<1> QED
  BY <1>4, <1>5, <1>6 DEF Request, Handle, hubVars

LEMMA ServerKeepsFeed ==
    ASSUME WallInv, Client!IInv, NEW h \in Handlers, FeedInv,
           Request(h) \/ Handle(h) \/ Publish(h) \/ ListBots(h)
    PROVE  FeedInv'
<1>1. PathTyped /\ SeenInv /\ ToldInv /\ WireInv /\ TellInv /\ HiddenInv /\ Kept
  BY PathIsTyped DEF FeedInv
<1>2. UNCHANGED clientVars
  BY DEF Request, Handle, Publish, ListBots
<1>3. [Next]_vars
  BY DEF Next, ServerStep
<1>4. /\ Spared \subseteq Spared' /\ Len(rows) \in Nat /\ Len(rows') \in Nat
      /\ Len(rows) <= Len(rows') /\ Ids \subseteq Ids'
  BY <1>3, RowsGrow, SparedStays
<1>5. /\ ToldInv'
      /\ \A g \in Handlers : \A i : Untold(g, i) => Untold(g, i)' \/ link = "down"
      /\ \/ /\ Len(rows') = Len(rows)
            /\ \A g \in Handlers : \A i : Untold(g, i)' => Untold(g, i)
         \/ /\ Len(rows') = Len(rows) + 1
            /\ \A i : i = Len(rows') => Untold(h, i)'
            /\ \A g \in Handlers : \A i : Untold(g, i)' => Untold(g, i) \/ i = Len(rows')
  BY <1>1, ServerTells
<1>6. HiddenInv'
  BY <1>1, <1>4, ServerHides
<1>7. lost \subseteq lost'
  BY DEF Request, Handle, Publish, ListBots, hubVars
<1>8. /\ Yielded' = Yielded /\ Creates' = Creates /\ wire' = wire /\ page' = page
      /\ cursor' = cursor /\ link' = link /\ from' = from /\ short' = short
  BY <1>2 DEF Yielded, Creates, clientVars
<1>9. SeenInv' /\ WireInv'
  BY <1>1, <1>4, <1>7, <1>8 DEF SeenInv, WireInv, PathTyped
<1>10. \A n \in 1..Len(wire) : wire[n].seq < Len(rows) + 1
  BY <1>1, <1>4 DEF SeenInv, Ids
<1>11. \A n \in 1..Len(page) : page[n].seq < Len(rows) + 1
  BY <1>1, <1>4 DEF SeenInv, Ids
<1>12. TellInv'
  <2> SUFFICES ASSUME NEW g \in Handlers, NEW i \in Ids', Untold(g, i)', i \notin lost',
                      NEW n \in 1..Len(wire)
               PROVE  wire[n].seq < i
    BY <1>8 DEF TellInv
  <2>1. CASE i \in Ids /\ Untold(g, i)
    BY <1>1, <1>7, <2>1 DEF TellInv
  <2>2. CASE ~(i \in Ids /\ Untold(g, i))
    <3>1. i = Len(rows) + 1
      BY <1>4, <1>5, <2>2 DEF Ids
    <3> QED
      BY <1>10, <3>1
  <2> QED
    BY <2>1, <2>2
<1>13. ASSUME NEW i \in Ids, Coming(i) PROVE Coming(i)'
  <2>1. OnItsWay(i) => OnItsWay(i)' \/ link = "down"
    BY <1>5, <1>8 DEF OnItsWay
  <2>2. (Catching' <=> Catching) /\ (InPage(i)' <=> InPage(i)) /\ (PageIsBefore(i)' <=> PageIsBefore(i))
    BY <1>8 DEF Catching, InPage, PageIsBefore
  <2> QED
    BY <1>8, <1>13, <2>1, <2>2 DEF Coming
<1>14. ASSUME NEW i \in Ids', i \notin Ids PROVE Coming(i)'
  <2>1. i = Len(rows) + 1 /\ i = Len(rows') /\ Len(rows') # Len(rows)
    BY <1>4, <1>5, <1>14 DEF Ids
  <2>3. Untold(h, i)'
    BY <1>5, <2>1
  <2>2. OnItsWay(i)' /\ PageIsBefore(i)' /\ cursor < i /\ from <= i
    BY <1>1, <1>4, <1>8, <1>11, <2>1, <2>3 DEF OnItsWay, PageIsBefore, SeenInv, PathTyped
  <2> QED
    BY <1>1, <1>8, <2>2 DEF Coming, PathTyped
<1>15. Kept'
  BY <1>1, <1>4, <1>8, <1>13, <1>14 DEF Kept, Owed
<1> QED
  BY <1>5, <1>6, <1>9, <1>12, <1>15 DEF FeedInv

-----------------------------------------------------------------------------
(* A frame at the end of the wire, and one taken from its head.            *)
LEMMA WireGrows ==
    ASSUME PathTyped, NEW frame \in Client!Frame, wire' = Append(wire, frame)
    PROVE  /\ Len(wire') = Len(wire) + 1 /\ wire'[Len(wire) + 1] = frame
           /\ \A n \in 1..Len(wire) : wire'[n] = wire[n]
           /\ frame.type = "message_create" => Creates' = Creates \cup {frame.seq}
           /\ frame.type # "message_create" => Creates' = Creates
<1>1. /\ Len(wire') = Len(wire) + 1 /\ wire'[Len(wire) + 1] = frame
      /\ \A n \in 1..Len(wire) : wire'[n] = wire[n]
      /\ Len(wire) \in Nat
  BY DEF PathTyped
<1> QED
  BY <1>1 DEF Creates

LEMMA WireShrinks ==
    ASSUME PathTyped, wire # <<>>, wire' = Tail(wire)
    PROVE  /\ Len(wire) \in Nat \ {0} /\ Len(wire') = Len(wire) - 1 /\ Head(wire) = wire[1]
           /\ \A n \in 1..Len(wire') : wire'[n] = wire[n + 1] /\ n + 1 \in 1..Len(wire)
           /\ \A i \in Creates' : \E n \in 2..Len(wire) : wire[n].type = "message_create" /\ wire[n].seq = i
           /\ Creates' \subseteq Creates
           /\ \A i \in Creates : i \in Creates' \/ (Head(wire).type = "message_create" /\ i = Head(wire).seq)
<1>1. /\ Len(wire) \in Nat \ {0} /\ Len(wire') = Len(wire) - 1 /\ Head(wire) = wire[1]
      /\ \A n \in 1..Len(wire') : wire'[n] = wire[n + 1]
  BY DEF PathTyped
<1>2. \A n \in 1..Len(wire') : n + 1 \in 2..Len(wire)
  BY <1>1
<1>3. \A n \in 2..Len(wire) : n - 1 \in 1..Len(wire') /\ wire'[n - 1] = wire[n]
  BY <1>1
<1>4. \A i \in Creates' : \E n \in 2..Len(wire) : wire[n].type = "message_create" /\ wire[n].seq = i
  BY <1>1, <1>2 DEF Creates
<1>5. ASSUME NEW i \in Creates
      PROVE  i \in Creates' \/ (Head(wire).type = "message_create" /\ i = Head(wire).seq)
  <2>1. PICK n \in 1..Len(wire) : wire[n].type = "message_create" /\ wire[n].seq = i
    BY <1>5 DEF Creates
  <2>2. CASE n = 1
    BY <1>1, <2>1, <2>2
  <2>3. CASE n # 1
    <3>1. n \in 2..Len(wire)
      BY <1>1, <2>1, <2>3
    <3>2. /\ n - 1 \in 1..Len(wire') /\ wire'[n - 1].type = "message_create"
          /\ wire'[n - 1].seq = i
      BY <1>3, <2>1, <3>1
    <3>3. \E m \in 1..Len(wire') : wire'[m].type = "message_create" /\ wire'[m].seq = i
      BY <3>2
    <3>4. i \in Creates'
      BY <3>3, Zenon DEF Creates
    <3> QED
      BY <3>4
  <2> QED
    BY <2>2, <2>3
<1>6. Creates' \subseteq Creates
  BY <1>1, <1>4 DEF Creates
<1> QED
  BY <1>1, <1>2, <1>4, <1>5, <1>6

LEMMA YieldGrows ==
    ASSUME PathTyped, NEW s \in 1..MaxRows, yielded' = Append(yielded, s)
    PROVE  Yielded' = Yielded \cup {s}
BY DEF PathTyped, Yielded

(* The newest frame overtakes what is lost by it.                          *)
LEMMA SendKeepsFeed ==
    ASSUME WallInv, Client!IInv, NEW h \in Handlers, FeedInv, SendToBot(h)
    PROVE  FeedInv'
<1> DEFINE e == flight[h].event
           frame == [type |-> e.type, seq |-> e.seq]
<1>1. PathTyped /\ SeenInv /\ ToldInv /\ WireInv /\ TellInv /\ HiddenInv /\ Kept
  BY PathIsTyped DEF FeedInv
<1>2. /\ UNCHANGED storeVars /\ flight'[h] = Idle /\ flight[h] # Idle /\ e \in Event
      /\ \A g \in Handlers : g # h => flight'[g] = flight[g]
  BY DEF SendToBot, WallInv, FlightInv, Idle
<1>3. /\ Gone' = Gone /\ Ids' = Ids /\ Len(rows') = Len(rows) /\ Len(rows) \in Nat
      /\ pc' = pc /\ job' = job /\ rows' = rows
  BY <1>1, <1>2 DEF storeVars, Gone, Ids, PathTyped
<1>4. /\ frame \in Client!Frame /\ e.seq \in Ids /\ e.seq \in Nat
      /\ frame.type = e.type /\ frame.seq = e.seq
  BY <1>1, <1>2 DEF Event, ToldInv, Client!Frame, Ids
<1>5. /\ UNCHANGED <<link, before, known, cursor, from, page, short, yielded>>
      /\ \/ link # "down" /\ wire' = Append(wire, frame) /\ lost' = lost \cup Overtaken(h, e.seq)
         \/ (link = "down" \/ e.flags # {}) /\ wire' = wire /\ lost' = lost
  BY DEF SendToBot, Connected, Client!Arrive, clientVars
<1>6. /\ \A i : ~Untold(h, i)'
      /\ \A i : Untold(h, i) => e.type = "message_create" /\ i = e.seq
      /\ \A g \in Handlers : g # h => \A i : Untold(g, i)' <=> Untold(g, i)
  BY <1>1, <1>2, <1>3 DEF ToldInv, Untold
<1>7. lost \subseteq lost' /\ Spared \subseteq Spared'
  BY <1>3, <1>5 DEF Spared
<1>8. /\ Yielded' = Yielded /\ (Catching' <=> Catching)
      /\ \A i : (InPage(i)' <=> InPage(i)) /\ (PageIsBefore(i)' <=> PageIsBefore(i))
  BY <1>5 DEF Yielded, Catching, InPage, PageIsBefore
<1>9. ToldInv' /\ HiddenInv'
  BY <1>1, <1>2, <1>3, <1>7 DEF ToldInv, HiddenInv
<1> HIDE DEF e, frame
<1>10. CASE (link = "down" \/ e.flags # {}) /\ wire' = wire /\ lost' = lost
  <2>1. SeenInv' /\ WireInv'
    BY <1>1, <1>3, <1>5, <1>8, <1>10 DEF SeenInv, WireInv
  <2>2. TellInv'
    BY <1>1, <1>3, <1>6, <1>10 DEF TellInv
  <2>3. Creates' = Creates
    BY <1>10 DEF Creates
  <2>4. ASSUME NEW i \in Ids, Owed(i) PROVE Owed(i)'
    <3>1. CASE i \in Yielded \cup Spared
      BY <1>7, <1>8, <3>1 DEF Owed
    <3>2. CASE link # "down" /\ Untold(h, i)
      <4>1. i \in Spared
        BY <1>1, <1>2, <1>6, <1>10, <3>2 DEF HiddenInv, e
      <4> QED
        BY <1>7, <4>1 DEF Owed
    <3>3. CASE link = "down" \/ ~Untold(h, i)
      <4>1. OnItsWay(i) => OnItsWay(i)' \/ link = "down"
        BY <1>6, <2>3, <3>3 DEF OnItsWay
      <4>2. Coming(i) => Coming(i)'
        BY <1>5, <1>8, <4>1 DEF Coming
      <4> QED
        BY <1>7, <1>8, <2>4, <4>2 DEF Owed
    <3> QED
      BY <3>1, <3>2, <3>3
  <2> QED
    BY <1>1, <1>3, <1>9, <2>1, <2>2, <2>4 DEF FeedInv, Kept
<1>11. CASE link # "down" /\ wire' = Append(wire, frame) /\ lost' = lost \cup Overtaken(h, e.seq)
  <2>1. /\ Len(wire') = Len(wire) + 1 /\ wire'[Len(wire) + 1] = frame
        /\ \A n \in 1..Len(wire) : wire'[n] = wire[n]
        /\ e.type = "message_create" => Creates' = Creates \cup {e.seq}
        /\ e.type # "message_create" => Creates' = Creates
        /\ Len(wire) \in Nat
    BY <1>1, <1>4, <1>11, WireGrows DEF PathTyped
  <2>2. SeenInv'
    BY <1>1, <1>3, <1>4, <1>5, <1>8, <1>11, <2>1 DEF SeenInv
  <2>3. WireInv'
    <3> SUFFICES ASSUME NEW m \in 1..(Len(wire) + 1), NEW n \in 1..(Len(wire) + 1), m < n,
                        wire'[n].type = "message_create", wire'[n].seq \notin lost'
                 PROVE  wire'[m].seq < wire'[n].seq
      BY <2>1 DEF WireInv
    <3>1. m \in 1..Len(wire)
      BY <2>1
    <3>2. CASE n \in 1..Len(wire)
      BY <1>1, <1>7, <2>1, <3>1, <3>2 DEF WireInv
    <3>3. CASE n = Len(wire) + 1
      <4>1. e.type = "message_create" /\ e.seq \notin lost
        BY <1>4, <1>7, <2>1, <3>3
      <4>2. Untold(h, e.seq)
        BY <1>2, <4>1 DEF Untold, e
      <4> QED
        BY <1>1, <1>4, <2>1, <3>1, <3>3, <4>1, <4>2 DEF TellInv
    <3> QED
      BY <2>1, <3>2, <3>3
  <2>4. ASSUME NEW g \in Handlers, g # h, NEW i \in Ids, Untold(g, i), i \notin lost'
        PROVE  e.seq < i
    <3>1. i \notin Overtaken(h, e.seq) /\ i \in Nat /\ i >= 1
      BY <1>3, <1>11, <2>4 DEF Ids
    <3>2. ~(i \in 1..e.seq)
      BY <2>4, <3>1 DEF Overtaken
    <3> QED
      BY <1>4, <3>1, <3>2
  <2>5. TellInv'
    <3> SUFFICES ASSUME NEW g \in Handlers, NEW i \in Ids, Untold(g, i)', i \notin lost',
                        NEW n \in 1..(Len(wire) + 1)
                 PROVE  wire'[n].seq < i
      BY <1>3, <2>1 DEF TellInv
    <3>1. g # h /\ Untold(g, i)
      BY <1>6
    <3>2. CASE n \in 1..Len(wire)
      BY <1>1, <1>7, <2>1, <3>1, <3>2 DEF TellInv
    <3>3. CASE n = Len(wire) + 1
      BY <1>4, <2>1, <2>4, <3>1, <3>3
    <3> QED
      BY <2>1, <3>2, <3>3
  <2>6. \A i : OnItsWay(i) => OnItsWay(i)'
    BY <1>6, <2>1 DEF OnItsWay
  <2>7. \A i \in Ids : Owed(i) => Owed(i)'
    BY <1>5, <1>7, <1>8, <2>6 DEF Owed, Coming
  <2> QED
    BY <1>1, <1>3, <1>9, <2>2, <2>3, <2>5, <2>7 DEF FeedInv, Kept
<1> QED
  BY <1>5, <1>10, <1>11

(* The client's own steps leave the server alone.                          *)
LEMMA ServerStays ==
    ASSUME UNCHANGED <<storeVars, flight>>, lost \subseteq lost'
    PROVE  /\ Gone' = Gone /\ Ids' = Ids /\ rows' = rows /\ Spared \subseteq Spared'
           /\ \A g, i : Untold(g, i)' <=> Untold(g, i)
           /\ ToldInv => ToldInv'
           /\ HiddenInv => HiddenInv'
<1>1. Gone' = Gone /\ Ids' = Ids /\ rows' = rows /\ pc' = pc /\ job' = job
  BY DEF storeVars, Gone, Ids
<1>2. Spared \subseteq Spared'
  BY <1>1 DEF Spared
<1>3. \A g, i : Untold(g, i)' <=> Untold(g, i)
  BY DEF storeVars, Untold
<1>4. ToldInv => ToldInv'
  BY <1>1 DEF ToldInv
<1>5. HiddenInv => HiddenInv'
  BY <1>1, <1>2 DEF HiddenInv
<1> QED
  BY <1>1, <1>2, <1>3, <1>4, <1>5

(* A connection is made, lost, or left without its backfill.               *)
LEMMA LinkKeepsFeed ==
    ASSUME WallInv, Client!IInv, FeedInv, Connect \/ LinkLost \/ Restart \/ BackfillFails
    PROVE  FeedInv'
<1>1. PathTyped /\ SeenInv /\ ToldInv /\ WireInv /\ TellInv /\ HiddenInv /\ Kept
  BY PathIsTyped DEF FeedInv
<1>2. /\ UNCHANGED <<storeVars, flight>> /\ UNCHANGED <<known, cursor, page, short, yielded>>
      /\ lost \subseteq lost' /\ wire' \in {wire, <<>>}
  BY DEF Connect, LinkLost, Restart, BackfillFails, Mishap, Client!Connect, Client!LinkLost,
         Client!Restart, Client!BackfillFails
<1>3. /\ Gone' = Gone /\ Ids' = Ids /\ rows' = rows /\ Spared \subseteq Spared'
      /\ \A g, i : Untold(g, i)' <=> Untold(g, i)
      /\ ToldInv' /\ HiddenInv'
  BY <1>1, <1>2, ServerStays
<1>4. Yielded' = Yielded
  BY <1>2 DEF Yielded
<1>5. WireInv' /\ TellInv'
  BY <1>1, <1>2, <1>3 DEF WireInv, TellInv
<1>6. /\ cursor \in Nat /\ Len(rows) \in Nat /\ \A i \in Ids : i \in Nat
      /\ link \in {"down", "backfill", "paging", "live"}
  BY <1>1 DEF PathTyped, Ids
<1>7. CASE Connect
  <2>1. /\ link = "down" /\ wire' = <<>> /\ wire = <<>>
        /\ \/ link' = "backfill" /\ from' = cursor + 1
           \/ link' = "live" /\ from' = from /\ lost' = lost \cup PassedOver(cursor + 1)
    BY <1>1, <1>7 DEF Connect, Client!Connect, SeenInv
  <2>2. SeenInv'
    BY <1>1, <1>2, <1>3, <1>4, <1>6, <2>1 DEF SeenInv
  <2>3. \A i : OnItsWay(i)' <=> OnItsWay(i)
    BY <1>3, <2>1 DEF OnItsWay, Creates
  <2>4. ASSUME NEW i \in Ids, Coming(i) PROVE Coming(i)' \/ i \in lost'
    <3>1. cursor < i /\ cursor + 1 <= i
      BY <1>6, <2>4 DEF Coming
    <3>2. CASE link' = "backfill" /\ from' = cursor + 1
      BY <1>2, <3>1, <3>2 DEF Coming
    <3>3. CASE link' = "live" /\ lost' = lost \cup PassedOver(cursor + 1)
      <4>1. OnItsWay(i) \/ i \in lost'
        BY <3>1, <3>3 DEF PassedOver
      <4> QED
        BY <1>2, <2>3, <3>1, <3>3, <4>1 DEF Coming, Catching
    <3> QED
      BY <2>1, <3>2, <3>3
  <2>5. Kept'
    BY <1>1, <1>3, <1>4, <2>4 DEF Kept, Owed, Spared
  <2> QED
    BY <1>3, <1>5, <2>2, <2>5 DEF FeedInv
<1>8. CASE LinkLost \/ Restart
  <2>1. /\ link' = "down" /\ from' = from /\ wire' = <<>>
    BY <1>1, <1>8 DEF LinkLost, Restart, Client!LinkLost, Client!Restart, SeenInv
  <2>2. SeenInv'
    BY <1>1, <1>2, <1>3, <1>4, <2>1 DEF SeenInv
  <2>3. \A i \in Ids : Coming(i) => Coming(i)'
    BY <1>2, <2>1 DEF Coming, Catching
  <2>4. Kept'
    BY <1>1, <1>3, <1>4, <2>3 DEF Kept, Owed
  <2> QED
    BY <1>3, <1>5, <2>2, <2>4 DEF FeedInv
<1>9. CASE BackfillFails
  <2>1. /\ link = "backfill" /\ link' = "live" /\ UNCHANGED <<from, wire>>
        /\ lost' = lost \cup PassedOver(from)
    BY <1>9 DEF BackfillFails, Client!BackfillFails
  <2>2. SeenInv'
    BY <1>1, <1>2, <1>3, <1>4, <2>1 DEF SeenInv
  <2>3. \A i : OnItsWay(i)' <=> OnItsWay(i)
    BY <1>3, <2>1 DEF OnItsWay, Creates
  <2>4. ASSUME NEW i \in Ids, Coming(i) PROVE Coming(i)' \/ i \in lost'
    <3>1. cursor < i /\ from <= i
      BY <2>1, <2>4 DEF Coming, Catching
    <3>2. OnItsWay(i) \/ i \in lost'
      BY <2>1, <3>1 DEF PassedOver
    <3> QED
      BY <1>2, <2>1, <2>3, <3>1, <3>2 DEF Coming, Catching
  <2>5. Kept'
    BY <1>1, <1>3, <1>4, <2>4 DEF Kept, Owed, Spared
  <2> QED
    BY <1>3, <1>5, <2>2, <2>5 DEF FeedInv
<1> QED
  BY <1>7, <1>8, <1>9

(* Every row that is listed is on the page, none beyond it is.             *)
LEMMA EveryRankIsNth ==
    ASSUME NEW S \in SUBSET Nat, IsFiniteSet(S), NEW i \in S
    PROVE  Rank(S, i) \in 1..Cardinality(S) /\ Nth(S, Rank(S, i)) = i
<1> DEFINE k == Rank(S, i)
           j == Nth(S, k)
<1>1. k \in 1..Cardinality(S)
  BY RankIsBounded
<1>2. j = CHOOSE m \in S : Rank(S, m) = k
  BY DEF Nth, Rank, UpTo
<1>3. j \in S /\ Rank(S, j) = Rank(S, i)
  BY <1>2
<1> HIDE DEF j
<1>4. Rank(S, i) \in Nat /\ i \in Nat /\ j \in Nat
  BY <1>1, <1>3
<1>5. ~(i < j) /\ ~(j < i)
  BY <1>3, <1>4, RankAscends
<1>6. i = j
  BY <1>4, <1>5
<1> QED
  BY <1>1, <1>6 DEF j

LEMMA ListingIsWhole ==
    ASSUME WallInv, Client!IInv, FetchPage
    PROVE  /\ \A n \in 1..Len(page') : page'[n].seq \in Ids /\ page'[n].seq < from + Page
           /\ \A i \in VisibleFrom(from) \ Gone :
                 \E n \in 1..Len(page') : page'[n].seq = i /\ ~page'[n].deleted
           /\ short' <=> Cardinality(VisibleFrom(from)) # Page
<1> DEFINE S == VisibleFrom(from)
           n == Cardinality(S)
           items == [k \in 1..n |-> [seq |-> rows[Nth(S, k)].seq, deleted |-> rows[Nth(S, k)].deleted]]
<1>1. PathTyped /\ \A i \in Ids : rows[i].seq = i
  BY PathIsTyped DEF WallInv, IInv, SeqIsGapless
<1>2. /\ S \in SUBSET (from..(from + Page - 1)) /\ S \in SUBSET Ids /\ S \in SUBSET Nat
      /\ from \in Nat /\ Page \in Nat
  BY <1>1 DEF VisibleFrom, RowsFrom, Ids, PathTyped
<1>3. IsFiniteSet(from..(from + Page - 1)) /\ Cardinality(from..(from + Page - 1)) = Page
  <2>1. from \in Int /\ from + Page - 1 \in Int /\ Page \in Nat
    BY <1>2
  <2>2. Cardinality(from..(from + Page - 1)) =
           IF from > from + Page - 1 THEN 0 ELSE (from + Page - 1) - from + 1
    BY ONLY <2>1, FS_Interval, Zenon
  <2>3. IsFiniteSet(from..(from + Page - 1))
    BY ONLY <2>1, FS_Interval, Zenon
  <2> QED
    BY ONLY <2>1, <2>2, <2>3
<1>4. IsFiniteSet(S) /\ n <= Page /\ n \in Nat
  BY <1>2, <1>3, FS_Subset, FS_CardinalityType
<1>5. page' = items /\ short' = (Len(items) < Page)
  BY DEF FetchPage, Client!FetchPage
<1>6. \A k \in 1..n : Nth(S, k) \in S
  BY <1>2, <1>4, PageAscends
<1>7. \A i \in S : Rank(S, i) \in 1..n /\ Nth(S, Rank(S, i)) = i
  BY <1>2, <1>4, EveryRankIsNth
<1>8. Len(items) = n
  <2> HIDE DEF n, S
  <2> QED
    BY <1>4
<1>9. \A k \in 1..n : /\ items[k].seq = rows[Nth(S, k)].seq
                       /\ items[k].deleted = rows[Nth(S, k)].deleted
  OBVIOUS
<1>10. \A i \in S : rows[i].seq = i /\ i < from + Page /\ i \in Ids
  BY <1>1, <1>2
<1>11. \A i \in S \ Gone : rows[i].deleted # TRUE
  BY <1>2 DEF Gone
<1> HIDE DEF items, n, S
<1>12. \A k \in 1..n : items[k].seq \in Ids /\ items[k].seq < from + Page
  BY <1>6, <1>9, <1>10
<1>13. ASSUME NEW i \in S \ Gone PROVE \E k \in 1..n : items[k].seq = i /\ ~items[k].deleted
  <2>1. Rank(S, i) \in 1..n /\ Nth(S, Rank(S, i)) = i
    BY <1>7
  <2>2. items[Rank(S, i)].seq = i /\ items[Rank(S, i)].deleted = rows[i].deleted
    BY <1>9, <1>10, <2>1
  <2>3. ~rows[i].deleted
    BY <1>11
  <2> QED
    BY <2>1, <2>2, <2>3
<1>14. short' <=> n # Page
  <2>1. short' = (n < Page) /\ n \in Nat /\ Page \in Nat /\ n <= Page
    BY <1>2, <1>4, <1>5, <1>8
  <2>2. (n < Page) <=> n # Page
    BY <2>1
  <2> QED
    BY <2>1, <2>2
<1> QED
  BY <1>5, <1>8, <1>12, <1>13, <1>14 DEF n, S

(* A page has what was asked for, or says that there is more, or what is   *)
(* beyond it is on its way or lost.                                        *)
LEMMA FetchKeepsFeed ==
    ASSUME WallInv, Client!IInv, FeedInv, FetchPage
    PROVE  FeedInv'
<1>1. PathTyped /\ SeenInv /\ ToldInv /\ WireInv /\ TellInv /\ HiddenInv /\ Kept
  BY PathIsTyped DEF FeedInv
<1>2. /\ UNCHANGED <<storeVars, flight>> /\ UNCHANGED <<before, known, cursor, from, wire, yielded>>
      /\ link = "backfill" /\ link' = "paging"
      /\ lost' = IF Cardinality(VisibleFrom(from)) = Page THEN lost
                 ELSE lost \cup PassedOver(from + Page)
  BY DEF FetchPage, Client!FetchPage
<1>3. /\ Gone' = Gone /\ Ids' = Ids /\ rows' = rows /\ Spared \subseteq Spared'
      /\ \A g, i : Untold(g, i)' <=> Untold(g, i)
      /\ ToldInv' /\ HiddenInv' /\ lost \subseteq lost'
  BY <1>1, <1>2, ServerStays
<1>4. Creates' = Creates /\ Yielded' = Yielded
  BY <1>2 DEF Creates, Yielded
<1>5. /\ \A n \in 1..Len(page') : page'[n].seq \in Ids /\ page'[n].seq < from + Page
      /\ \A i \in VisibleFrom(from) \ Gone : InPage(i)'
      /\ short' <=> Cardinality(VisibleFrom(from)) # Page
  BY ListingIsWhole DEF InPage
<1>6. SeenInv' /\ WireInv' /\ TellInv'
  BY <1>1, <1>2, <1>3, <1>4, <1>5 DEF SeenInv, WireInv, TellInv
<1>7. \A i : OnItsWay(i)' <=> OnItsWay(i)
  BY <1>3, <1>4 DEF OnItsWay
<1>8. ASSUME NEW i \in Ids, Coming(i) PROVE Coming(i)' \/ i \in Spared'
  <2>1. /\ cursor < i /\ from <= i /\ i \in Nat /\ from \in Nat /\ Page \in Nat
        /\ \A n \in 1..Len(page') : page'[n].seq \in Nat
    BY <1>1, <1>2, <1>5, <1>8 DEF Coming, Catching, PathTyped, Ids
  <2>2. CASE i < from + Page
    <3>1. CASE i \in VisibleFrom(from) /\ i \notin Gone
      BY <1>2, <1>5, <2>1, <3>1 DEF Coming, Catching
    <3>2. CASE i \notin VisibleFrom(from)
      BY <1>3, <2>1, <2>2, <3>2 DEF VisibleFrom, RowsFrom, Spared, Gone
    <3> QED
      BY <1>3, <3>1, <3>2 DEF Spared
  <2>3. CASE ~(i < from + Page)
    <3>1. PageIsBefore(i)' /\ from + Page <= i
      BY <1>5, <2>1, <2>3 DEF PageIsBefore
    <3>2. ~short' \/ OnItsWay(i) \/ i \in lost'
      BY <1>2, <1>5, <3>1 DEF PassedOver
    <3> QED
      BY <1>2, <1>7, <2>1, <3>1, <3>2 DEF Coming, Catching, Spared
  <2> QED
    BY <2>2, <2>3
<1>9. Kept'
  BY <1>1, <1>3, <1>4, <1>8 DEF Kept, Owed
<1> QED
  BY <1>3, <1>6, <1>9 DEF FeedInv

LEMMA ItemKeepsFeed ==
    ASSUME WallInv, Client!IInv, FeedInv, Client!BackfillItem, UNCHANGED <<storeVars, hubVars>>
    PROVE  FeedInv'
<1> DEFINE s == Head(page).seq
<1>1. PathTyped /\ SeenInv /\ ToldInv /\ WireInv /\ TellInv /\ HiddenInv /\ Kept
  BY PathIsTyped DEF FeedInv
<1>2. /\ UNCHANGED <<storeVars, flight, lost>> /\ UNCHANGED <<link, before, known, short, wire>>
      /\ link = "paging" /\ page # <<>> /\ page' = Tail(page)
      /\ from' = s + 1 /\ cursor' = Client!Highest(cursor, s)
      /\ IF Head(page).deleted THEN yielded' = yielded ELSE yielded' = Append(yielded, s)
  BY DEF Client!BackfillItem, hubVars
<1>3. /\ Gone' = Gone /\ Ids' = Ids /\ rows' = rows /\ Spared \subseteq Spared'
      /\ \A g, i : Untold(g, i)' <=> Untold(g, i)
      /\ ToldInv' /\ HiddenInv'
  BY <1>1, <1>2, ServerStays
<1>4. /\ Len(page) \in Nat \ {0} /\ Len(page') = Len(page) - 1 /\ Head(page) = page[1]
      /\ \A n \in 1..Len(page') : page'[n] = page[n + 1] /\ n + 1 \in 1..Len(page)
      /\ \A n \in 1..Len(page) : n # 1 => n - 1 \in 1..Len(page') /\ page'[n - 1] = page[n]
  BY <1>1, <1>2 DEF PathTyped
<1>5. 1 \in 1..Len(page)
  BY <1>4
<1>6. /\ s \in Ids /\ s \in Nat /\ s <= Len(rows) /\ Len(rows) \in Nat /\ cursor \in Nat /\ cursor < s
      /\ \A n \in 1..Len(page) : n # 1 => s < page[n].seq
  BY <1>1, <1>2, <1>4, <1>5 DEF SeenInv, PathTyped, Ids, Client!IInv
<1>7. cursor' = s /\ from' = s + 1
  BY <1>2, <1>6 DEF Client!Highest
<1>8. /\ Yielded \subseteq Yielded' /\ Yielded' \subseteq Yielded \cup {s}
      /\ ~Head(page).deleted => s \in Yielded'
  <2>1. s \in 1..MaxRows
    BY <1>6, MessageStoreAssumption DEF Ids, WallInv, IInv, StoreTyped
  <2>2. CASE Head(page).deleted
    <3>1. Yielded' = Yielded
      BY <1>2, <2>2 DEF Yielded
    <3> QED
      BY <2>2, <3>1
  <2>3. CASE ~Head(page).deleted
    <3>1. Yielded' = Yielded \cup {s}
      BY <1>1, <1>2, <2>1, <2>3, YieldGrows
    <3> QED
      BY <3>1
  <2> QED
    BY <2>2, <2>3
<1> HIDE DEF s
<1>9. Creates' = Creates
  BY <1>2 DEF Creates
<1>10. SeenInv'
  <2>1. \A n \in 1..Len(page') : page'[n].seq \in Ids'
    BY <1>1, <1>3, <1>4 DEF SeenInv
  <2> QED
    BY <1>1, <1>2, <1>3, <1>6, <1>7, <1>8, <2>1 DEF SeenInv
<1>14. WireInv'
  BY <1>1, <1>2, <1>3 DEF WireInv
<1>15. TellInv'
  BY <1>1, <1>2, <1>3, <1>9 DEF TellInv
<1>11. \A i : OnItsWay(i)' <=> OnItsWay(i)
  BY <1>3, <1>9 DEF OnItsWay
<1>12. ASSUME NEW i \in Ids, Coming(i) PROVE Coming(i)' \/ i \in Yielded'
  <2>1. i \in Nat /\ (InPage(i) \/ (PageIsBefore(i) /\ (~short \/ OnItsWay(i))))
    BY <1>2, <1>12 DEF Coming, Ids
  <2>2. CASE i = s /\ InPage(i)
    <3>1. PICK n \in 1..Len(page) : page[n].seq = i /\ ~page[n].deleted
      BY <2>2 DEF InPage
    <3>2. n = 1
      BY <1>6, <2>2, <3>1
    <3> QED
      BY <1>4, <1>8, <2>2, <3>1, <3>2
  <2>3. CASE i # s /\ InPage(i)
    <3>1. PICK n \in 1..Len(page) : page[n].seq = i /\ ~page[n].deleted
      BY <2>3 DEF InPage
    <3>2. n # 1
      BY <1>4, <2>3, <3>1 DEF s
    <3>3. n - 1 \in 1..Len(page') /\ page'[n - 1].seq = i /\ ~page'[n - 1].deleted /\ s < i
      BY <1>4, <1>6, <3>1, <3>2
    <3>4. InPage(i)'
      BY <3>3 DEF InPage
    <3>5. cursor' < i /\ from' <= i
      BY <1>6, <1>7, <2>1, <3>3
    <3> QED
      BY <1>2, <3>4, <3>5 DEF Coming
  <2>4. CASE PageIsBefore(i) /\ (~short \/ OnItsWay(i))
    <3>1. s < i
      BY <1>4, <1>5, <2>4 DEF PageIsBefore, s
    <3>2. PageIsBefore(i)'
      BY <1>4, <2>4 DEF PageIsBefore
    <3>3. cursor' < i /\ from' <= i
      BY <1>6, <1>7, <2>1, <3>1
    <3> QED
      BY <1>2, <1>11, <2>4, <3>2, <3>3 DEF Coming
  <2> QED
    BY <2>1, <2>2, <2>3, <2>4
<1>13. Kept'
  BY <1>1, <1>3, <1>8, <1>12 DEF Kept, Owed
<1> QED
  BY <1>3, <1>10, <1>13, <1>14, <1>15 DEF FeedInv

LEMMA PageDoneKeepsFeed ==
    ASSUME WallInv, Client!IInv, FeedInv, Client!PageDone, UNCHANGED <<storeVars, hubVars>>
    PROVE  FeedInv'
<1>1. PathTyped /\ SeenInv /\ ToldInv /\ WireInv /\ TellInv /\ HiddenInv /\ Kept
  BY PathIsTyped DEF FeedInv
<1>2. /\ UNCHANGED <<storeVars, flight, lost>>
      /\ UNCHANGED <<before, known, cursor, from, page, short, wire, yielded>>
      /\ link = "paging" /\ page = <<>> /\ link' = IF short THEN "live" ELSE "backfill"
  BY DEF Client!PageDone, hubVars
<1>3. /\ Gone' = Gone /\ Ids' = Ids /\ rows' = rows /\ Spared \subseteq Spared'
      /\ \A g, i : Untold(g, i)' <=> Untold(g, i)
      /\ ToldInv' /\ HiddenInv'
  BY <1>1, <1>2, ServerStays
<1>4. Creates' = Creates /\ Yielded' = Yielded
  BY <1>2 DEF Creates, Yielded
<1>5. SeenInv' /\ WireInv' /\ TellInv'
  BY <1>1, <1>2, <1>3, <1>4 DEF SeenInv, WireInv, TellInv
<1>6. \A i : (OnItsWay(i)' <=> OnItsWay(i)) /\ ~InPage(i)
  BY <1>2, <1>3, <1>4 DEF OnItsWay, InPage
<1>7. \A i \in Ids : Coming(i) => Coming(i)'
  BY <1>1, <1>2, <1>6 DEF Coming, Catching, PathTyped
<1>8. Kept'
  BY <1>1, <1>3, <1>4, <1>7 DEF Kept, Owed
<1> QED
  BY <1>3, <1>5, <1>8 DEF FeedInv

(* A frame is read: a create that is new is handed over, one at or below   *)
(* the cursor is dropped, any other frame moves the cursor.                *)
LEMMA ReceiveKeepsFeed ==
    ASSUME WallInv, Client!IInv, FeedInv, Client!ReceiveCreate \/ Client!ReceiveOther,
           UNCHANGED <<storeVars, hubVars>>
    PROVE  FeedInv'
<1> DEFINE s == Head(wire).seq
           create == Head(wire).type = "message_create"
<1>1. PathTyped /\ SeenInv /\ ToldInv /\ WireInv /\ TellInv /\ HiddenInv /\ Kept
  BY PathIsTyped DEF FeedInv
<1>2. /\ UNCHANGED <<storeVars, flight, lost>> /\ UNCHANGED <<link, before, from, page, short>>
      /\ link = "live" /\ wire # <<>> /\ wire' = Tail(wire)
      /\ \/ create /\ s <= cursor /\ UNCHANGED <<cursor, yielded>>
         \/ create /\ ~(s <= cursor) /\ cursor' = Client!Highest(cursor, s)
            /\ yielded' = Append(yielded, s)
         \/ ~create /\ cursor' = Client!Highest(cursor, s) /\ yielded' = yielded
  BY DEF Client!ReceiveCreate, Client!ReceiveOther, Client!AdvanceTo, hubVars
<1>3. /\ Len(wire) \in Nat \ {0} /\ Len(wire') = Len(wire) - 1 /\ Head(wire) = wire[1]
      /\ \A n \in 1..Len(wire') : wire'[n] = wire[n + 1] /\ n + 1 \in 1..Len(wire)
      /\ \A i \in Creates' : \E n \in 2..Len(wire) : wire[n].type = "message_create" /\ wire[n].seq = i
      /\ Creates' \subseteq Creates
      /\ \A i \in Creates : i \in Creates' \/ (create /\ i = s)
  BY <1>1, <1>2, WireShrinks
<1>4. /\ Gone' = Gone /\ Ids' = Ids /\ rows' = rows /\ Spared \subseteq Spared'
      /\ \A g, i : Untold(g, i)' <=> Untold(g, i)
      /\ ToldInv' /\ HiddenInv'
  BY <1>1, <1>2, ServerStays
<1>5. /\ s \in Ids /\ s \in Nat /\ cursor \in Nat /\ Len(rows) \in Nat /\ s <= Len(rows)
      /\ cursor <= Len(rows)
  BY <1>1, <1>3 DEF SeenInv, PathTyped, Ids
<1>6. \A i \in Creates' : i \notin lost => s < i
  BY <1>1, <1>3 DEF WireInv
<1>7. 1 \in 1..Len(wire)
  BY <1>3
<1>8. \A g \in Handlers : \A i \in Ids : Untold(g, i) /\ i \notin lost => s < i
  BY <1>1, <1>3, <1>7 DEF TellInv
<1> HIDE DEF s, create
<1>9. /\ cursor' \in {cursor, s} /\ cursor' \in Nat
      /\ Yielded \subseteq Yielded' /\ Yielded' \subseteq Yielded \cup {s}
      /\ create /\ cursor < s => s \in Yielded'
  <2>1. s \in 1..MaxRows
    BY <1>5, MessageStoreAssumption DEF Ids, WallInv, IInv, StoreTyped
  <2>2. yielded' = yielded => Yielded' = Yielded
    BY DEF Yielded
  <2>3. yielded' = Append(yielded, s) => Yielded' = Yielded \cup {s}
    BY <1>1, <2>1, YieldGrows
  <2>4. CASE create /\ s <= cursor /\ UNCHANGED <<cursor, yielded>>
    BY <1>5, <2>2, <2>4
  <2>5. CASE create /\ ~(s <= cursor) /\ cursor' = Client!Highest(cursor, s)
             /\ yielded' = Append(yielded, s)
    BY <1>5, <2>3, <2>5 DEF Client!Highest
  <2>6. CASE ~create /\ cursor' = Client!Highest(cursor, s) /\ yielded' = yielded
    BY <1>5, <2>2, <2>6 DEF Client!Highest
  <2> QED
    BY <1>2, <2>4, <2>5, <2>6
<1>10. SeenInv'
  BY <1>1, <1>2, <1>3, <1>4, <1>5, <1>9 DEF SeenInv
<1>11. WireInv'
  <2> SUFFICES ASSUME NEW m \in 1..Len(wire'), NEW n \in 1..Len(wire'), m < n,
                      wire'[n].type = "message_create", wire'[n].seq \notin lost
               PROVE  wire'[m].seq < wire'[n].seq
    BY <1>2 DEF WireInv
  <2>1. m + 1 \in 1..Len(wire) /\ n + 1 \in 1..Len(wire) /\ m + 1 < n + 1
        /\ wire'[m] = wire[m + 1] /\ wire'[n] = wire[n + 1]
    BY <1>3
  <2> QED
    BY <1>1, <2>1 DEF WireInv
<1>12. TellInv'
  BY <1>1, <1>2, <1>3, <1>4 DEF TellInv
<1>13. ASSUME NEW i \in Ids, Coming(i), i \notin lost PROVE Coming(i)' \/ i \in Yielded'
  <2>1. cursor < i /\ OnItsWay(i) /\ ~Catching' /\ i \in Nat
    BY <1>2, <1>13 DEF Coming, Catching, Ids
  <2>2. CASE \E g \in Handlers : Untold(g, i)
    <3>1. s < i /\ OnItsWay(i)'
      BY <1>4, <1>8, <1>13, <2>2 DEF OnItsWay
    <3> QED
      BY <1>2, <1>9, <2>1, <3>1 DEF Coming
  <2>3. CASE i \in Creates'
    <3>1. s < i /\ OnItsWay(i)'
      BY <1>6, <1>13, <2>3 DEF OnItsWay
    <3> QED
      BY <1>2, <1>9, <2>1, <3>1 DEF Coming
  <2>4. CASE create /\ i = s
    BY <1>9, <2>1, <2>4
  <2> QED
    BY <1>3, <2>1, <2>2, <2>3, <2>4 DEF OnItsWay
<1>14. Kept'
  BY <1>1, <1>4, <1>9, <1>13 DEF Kept, Owed, Spared
<1> QED
  BY <1>4, <1>10, <1>11, <1>12, <1>14 DEF FeedInv

LEMMA FeedStutters == ASSUME FeedInv, UNCHANGED vars PROVE FeedInv'
<1>1. UNCHANGED <<storeVars, flight, lost>> /\ UNCHANGED clientVars
  BY DEF vars, storeVars, clientVars
<1>2. /\ Gone' = Gone /\ Ids' = Ids /\ rows' = rows /\ Spared \subseteq Spared'
      /\ \A g, i : Untold(g, i)' <=> Untold(g, i)
      /\ ToldInv' /\ HiddenInv'
  BY <1>1, ServerStays DEF FeedInv
<1>3. SeenInv' /\ WireInv' /\ TellInv'
  BY <1>1, <1>2 DEF clientVars, FeedInv, SeenInv, WireInv, TellInv, Yielded
<1>4. \A i : (OnItsWay(i)' <=> OnItsWay(i)) /\ (Coming(i) => Coming(i)')
  BY <1>1, <1>2 DEF clientVars, OnItsWay, Creates, Coming, Catching, InPage, PageIsBefore
<1>5. Kept'
  BY <1>1, <1>2, <1>4 DEF clientVars, FeedInv, Kept, Owed, Yielded
<1> QED
  BY <1>2, <1>3, <1>5 DEF FeedInv

LEMMA FeedKeeps == ASSUME WallInv, Client!IInv, FeedInv, [Next]_vars PROVE FeedInv'
<1>1. ASSUME NEW g \in Handlers, Request(g) \/ Handle(g) \/ Publish(g) \/ ListBots(g) PROVE FeedInv'
  BY <1>1, ServerKeepsFeed
<1>2. ASSUME NEW g \in Handlers, SendToBot(g) PROVE FeedInv'
  BY <1>2, SendKeepsFeed
<1>3. CASE Connect \/ LinkLost \/ Restart \/ BackfillFails
  BY <1>3, LinkKeepsFeed
<1>4. CASE FetchPage
  BY <1>4, FetchKeepsFeed
<1>5. CASE Handover
  BY <1>5, ItemKeepsFeed, PageDoneKeepsFeed, ReceiveKeepsFeed DEF Handover
<1>6. CASE UNCHANGED vars
  BY <1>6, FeedStutters
<1> QED
  BY <1>1, <1>2, <1>3, <1>4, <1>5, <1>6 DEF Next, ServerStep, BotStep

LEMMA FeedHasNoHoles == ASSUME WallInv, Client!IInv, FeedInv PROVE NothingSkipped
<1> SUFFICES ASSUME NEW i \in 1..cursor PROVE i \in Yielded \cup Gone \cup lost
  BY DEF NothingSkipped
<1>1. PathTyped /\ SeenInv /\ Kept
  BY PathIsTyped DEF FeedInv
<1>2. i \in Ids /\ ~(cursor < i)
  BY <1>1 DEF SeenInv, PathTyped, Ids
<1> QED
  BY <1>1, <1>2 DEF Kept, Owed, Coming, Spared

(* Each message the bot is still owed is somewhere on the path, and        *)
(* nothing on its way moves the cursor past it: for any handlers, hidden   *)
(* messages, failed pages, lost connections and restarts (ws.py,           *)
(* handle_bus_event; client.py, _backfill and _parse_frame).               *)
THEOREM FeedInvariance == Spec => []FeedInv
<1>1. Init => FeedInv
  BY FeedInit
<1>2. WallInv /\ Client!IInv /\ FeedInv /\ [Next]_vars => FeedInv'
  BY FeedKeeps
<1> QED
  BY <1>1, <1>2, PathInvariance, PTL DEF Spec

(* The bot is handed every message that is not deleted or hidden, however  *)
(* pages, queued frames, fan-outs and lost connections overlap, but for    *)
(* those that one of the five causes named in Delivery cost it: a first    *)
(* connection, which is not backfilled, a page that failed, a short page   *)
(* with a hidden row, a create that a later frame overtook, and a flag an  *)
(* overlapping edit took away.                                             *)
THEOREM NothingIsSkipped == Spec => []NothingSkipped
<1>1. WallInv /\ Client!IInv /\ FeedInv => NothingSkipped
  BY FeedHasNoHoles
<1> QED
  BY <1>1, PathInvariance, FeedInvariance, PTL
-----------------------------------------------------------------------------
(* The path implements OrderedFeed                                         *)

(* Only messages that exist are lost.                                      *)
LostInv == lost \subseteq Ids

LEMMA LostStays == ASSUME WallInv, FeedInv, LostInv, [Next]_vars PROVE LostInv'
<1>1. Ids \subseteq Ids' /\ (Len(rows) \in Nat)
  BY RowsGrow DEF WallInv, IInv, StoreTyped
<1>2. lost' \subseteq lost \cup Ids => LostInv'
  BY <1>1 DEF LostInv
<1>3. ASSUME NEW h \in Handlers, Request(h) \/ Handle(h) \/ Publish(h) \/ ListBots(h)
      PROVE  lost' \subseteq lost \cup Ids
  BY <1>3 DEF Request, Handle, Publish, ListBots, hubVars, Unhidden
<1>4. ASSUME NEW h \in Handlers, SendToBot(h) PROVE lost' \subseteq lost \cup Ids
  <2>1. flight[h].event.seq \in Ids
    <3>1. flight[h] # Idle
      BY <1>4 DEF SendToBot, Idle
    <3> QED
      BY <3>1 DEF FeedInv, ToldInv
  <2>2. Overtaken(h, flight[h].event.seq) \subseteq Ids
    BY <1>1, <2>1 DEF Overtaken, Ids
  <2> QED
    BY <1>4, <2>2 DEF SendToBot
<1>5. CASE BotStep \/ LinkLost \/ BackfillFails \/ Restart
  BY <1>2, <1>5 DEF BotStep, Connect, FetchPage, Handover, LinkLost, BackfillFails, Restart, hubVars, PassedOver
<1>6. CASE UNCHANGED vars
  BY <1>2, <1>6 DEF vars
<1> QED
  BY <1>2, <1>3, <1>4, <1>5, <1>6 DEF Next, ServerStep

(* A message handed over follows the last one with only spared ones        *)
(* between.                                                                *)
LEMMA HandingOver ==
    ASSUME WallInv, Client!IInv, Client!IInv', FeedInv', NothingSkipped',
           NEW s \in 1..MaxRows, yielded' = Append(yielded, s), UNCHANGED <<rows, lost>>
    PROVE  [Feed!Next]_(Feed!feedVars)
<1>1. PathTyped /\ Client!YieldsAscend' /\ Client!CursorCoversYields' /\ SeenInv'
  BY PathIsTyped DEF Client!IInv, FeedInv
<1>2. Gone' = Gone /\ Ids' = Ids /\ lost' = lost
  BY DEF Gone, Ids
<1> DEFINE n == Len(yielded)
<1>3. /\ n \in Nat /\ Len(yielded') = n + 1 /\ yielded'[n + 1] = s
      /\ \A i \in 1..n : yielded'[i] = yielded[i] /\ yielded[i] \in 1..MaxRows
  <2>1. yielded \in Seq(1..MaxRows) /\ n \in Nat
    BY <1>1 DEF PathTyped
  <2>2. \A i \in 1..n : yielded[i] \in 1..MaxRows
    BY <2>1, Element
  <2> QED
    BY <2>1, <2>2
<1>4. Yielded' = Yielded \cup {s} /\ s \in Ids
  BY <1>1, <1>2, YieldGrows DEF SeenInv
<1>5. s <= cursor'
  BY <1>1, <1>3 DEF Client!CursorCoversYields
<1> HIDE DEF n
<1>6. ASSUME yielded # <<>>
      PROVE  s > yielded[n] /\ (yielded[n] + 1)..(s - 1) \subseteq Gone \cup lost
  <2>1. n \in 1..n
    BY <1>1, <1>3, <1>6 DEF PathTyped, n
  <2>2. \A i \in 1..n : yielded[i] <= yielded[n]
    BY <1>1, <1>3, <2>1 DEF Client!YieldsAscend
  <2>3. yielded[n] < s /\ yielded[n] \in 1..MaxRows
    BY <1>1, <1>3, <2>1 DEF Client!YieldsAscend
  <2>4. \A i \in Yielded : i <= yielded[n]
    BY <2>2 DEF Yielded, n
  <2>5. ASSUME NEW i \in (yielded[n] + 1)..(s - 1) PROVE i \in Gone \cup lost
    <3>1. cursor' \in Nat /\ MaxRows \in Nat
      BY MessageStoreAssumption DEF Client!IInv, Client!TypeOK
    <3>2. i \in 1..cursor' /\ i # s /\ ~(i <= yielded[n])
      BY <1>5, <2>3, <2>5, <3>1
    <3>3. i \in Yielded' \cup Gone' \cup lost'
      BY <3>2 DEF NothingSkipped
    <3> QED
      BY <1>2, <1>4, <2>4, <3>2, <3>3
  <2> QED
    BY <2>3, <2>5
<1>7. Feed!Hand(s)
  BY <1>2, <1>6 DEF Feed!Hand, n
<1> QED
  BY <1>4, <1>7 DEF Feed!Next, Ids

(* A new row: nobody hides an older one by it.                             *)
LEMMA InsertFeeds ==
    ASSUME WallInv, NEW h \in Handlers, Insert(h), lost' = lost \cup Unhidden, UNCHANGED yielded
    PROVE  [Feed!Next]_(Feed!feedVars)
<1>1. rows \in Seq(Row) /\ Len(rows) \in Nat
  BY DEF WallInv, IInv, StoreTyped
<1>2. /\ Len(rows') = Len(rows) + 1
      /\ \A i \in Ids : rows'[i] = rows[i]
  BY <1>1 DEF Insert, Ids
<1>3. Ids' = Ids \cup {Len(rows) + 1} /\ Len(rows) + 1 \notin Ids
  BY <1>1, <1>2 DEF Ids
<1>4. lost' = lost
  BY <1>2 DEF Unhidden
<1>5. Gone' \in {Gone, Gone \cup {Len(rows) + 1}}
  BY <1>2, <1>3 DEF Gone
<1>6. (Gone \cup lost)' \in {Gone \cup lost, (Gone \cup lost) \cup {Len(rows) + 1}}
  BY <1>4, <1>5
<1> QED
  BY <1>2, <1>6 DEF Feed!Next, Feed!Post

(* Every other step hands nothing over: messages may have vanished.        *)
LEMMA OtherStepsFeed ==
    ASSUME WallInv, FeedInv, LostInv, [Next]_vars, Len(rows') = Len(rows), UNCHANGED yielded
    PROVE  [Feed!Next]_(Feed!feedVars)
<1>1. Spared \subseteq Spared' /\ LostInv' /\ Ids' = Ids
  BY SparedStays, LostStays DEF Ids
<1>2. (Gone \cup lost)' \subseteq Ids
  BY <1>1 DEF LostInv, Gone
<1>3. Feed!Vanish
  BY <1>1, <1>2 DEF Feed!Vanish, Spared, Ids
<1> QED
  BY <1>3 DEF Feed!Next

LEMMA PathStepsFeed ==
    ASSUME WallInv, Client!IInv, FeedInv, LostInv,
           Client!IInv', FeedInv', NothingSkipped', [Next]_vars
    PROVE  [Feed!Next]_(Feed!feedVars)
<1>0. PathTyped
  BY PathIsTyped
<1>1. CASE Len(rows') = Len(rows) /\ UNCHANGED yielded
  BY <1>1, OtherStepsFeed
<1>2. ASSUME NEW h \in Handlers, Request(h) \/ Publish(h) \/ ListBots(h)
      PROVE  UNCHANGED <<rows, yielded>>
  BY <1>2 DEF Request, StoreRequest, Create, EditRead, DeleteRead, Publish, StorePublish, ListBots,
              storeVars, clientVars
<1>3. ASSUME NEW h \in Handlers, SendToBot(h) PROVE UNCHANGED <<rows, yielded>>
  <2>1. UNCHANGED rows
    BY <1>3 DEF SendToBot, storeVars
  <2>2. UNCHANGED yielded
    BY <1>3 DEF SendToBot, Client!Arrive, clientVars
  <2> QED
    BY <2>1, <2>2
<1>4. ASSUME NEW h \in Handlers, Handle(h) PROVE [Feed!Next]_(Feed!feedVars)
  <2>1. UNCHANGED yielded /\ lost' = lost \cup Unhidden
    BY <1>4 DEF Handle, clientVars
  <2>2. CASE Insert(h)
    BY <2>1, <2>2, InsertFeeds
  <2>3. CASE EditUpdate(h) \/ DeleteUpdate(h) \/ ReadBack(h)
    <3>1. Len(rows') = Len(rows)
      BY <1>0, <2>3 DEF EditUpdate, DeleteUpdate, ReadBack, PathTyped
    <3> QED
      BY <1>1, <2>1, <3>1
  <2> QED
    BY <1>4, <2>2, <2>3 DEF Handle
<1>5. ASSUME BotStep \/ LinkLost \/ BackfillFails \/ Restart PROVE [Feed!Next]_(Feed!feedVars)
  <2>1. UNCHANGED rows
    BY <1>5 DEF BotStep, Connect, FetchPage, Handover, LinkLost, BackfillFails, Restart, Mishap, storeVars
  <2>2. \/ yielded' = yielded
        \/ Client!BackfillItem /\ yielded' = Append(yielded, Head(page).seq) /\ lost' = lost
        \/ Client!ReceiveCreate /\ yielded' = Append(yielded, Head(wire).seq) /\ lost' = lost
    BY <1>5 DEF BotStep, Connect, FetchPage, Handover, LinkLost, BackfillFails, Restart, hubVars,
                Client!Connect, Client!FetchPage, Client!PageDone, Client!ReceiveOther,
                Client!LinkLost, Client!BackfillFails, Client!Restart,
                Client!BackfillItem, Client!ReceiveCreate
  <2>3. CASE Client!BackfillItem /\ yielded' = Append(yielded, Head(page).seq) /\ lost' = lost
    <3>1. Head(page) \in Client!Item
      BY <1>0, <2>3 DEF PathTyped, Client!BackfillItem
    <3>2. Head(page).seq \in 1..MaxRows
      BY <3>1 DEF Client!Item
    <3> QED
      BY <2>1, <2>3, <3>2, HandingOver
  <2>4. CASE Client!ReceiveCreate /\ yielded' = Append(yielded, Head(wire).seq) /\ lost' = lost
    <3>1. Head(wire) \in Client!Frame
      BY <1>0, <2>4 DEF PathTyped, Client!ReceiveCreate
    <3>2. Head(wire).seq \in 1..MaxRows
      BY <3>1 DEF Client!Frame
    <3> QED
      BY <2>1, <2>4, <3>2, HandingOver
  <2> QED
    BY <1>1, <2>1, <2>2, <2>3, <2>4
<1>6. CASE UNCHANGED vars
  BY <1>1, <1>6 DEF vars
<1> QED
  BY <1>1, <1>2, <1>3, <1>4, <1>5, <1>6 DEF Next, ServerStep

(* Handlers, hub, wire and client together keep the SDK's promise: the bot *)
(* is handed a feed, in which there is no socket, cursor or page, and in   *)
(* which what one of the five causes cost it is missing like what was      *)
(* deleted.                                                                *)
THEOREM PathIsAFeed == Spec => IsAFeed
<1>1. Init => Feed!Init /\ LostInv
  BY DEF Init, StoreInit, Client!Init, Feed!Init, Gone, Ids, LostInv
<1>2. WallInv /\ FeedInv /\ LostInv /\ [Next]_vars => LostInv'
  BY LostStays
<1>3. WallInv /\ (Client!IInv /\ Client!IInv') /\ FeedInv /\ LostInv /\ FeedInv' /\ NothingSkipped'
         /\ [Next]_vars
         => [Feed!Next]_(Feed!feedVars)
  BY PathStepsFeed
<1> QED
  BY <1>1, <1>2, <1>3, PathInvariance, FeedInvariance, NothingIsSkipped, PTL
     DEF Spec, IsAFeed, Feed!Spec
=============================================================================
