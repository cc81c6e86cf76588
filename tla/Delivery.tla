------------------------------ MODULE Delivery -------------------------------
(***************************************************************************)
(* The path of a message from its author to a bot: the handlers of         *)
(* MessageStore, the event bus and the hub's fan-out (server/app/events.py *)
(* and handle_bus_event of server/app/ws.py), and the bot's BotClient.     *)
(*                                                                         *)
(* publish() awaits the subscribers in the handler's own task, so a        *)
(* handler is not free again before its event is fanned out, and the       *)
(* events of different handlers are fanned out concurrently.  The bot is a *)
(* member of the channel throughout.                                       *)
(***************************************************************************)
EXTENDS MessageStore

CONSTANTS
    Page,        \* PAGE of _backfill
    MaxDrops,    \* bound: how often the connection is lost
    MaxFailures, \* bound: how many pages of a backfill fail
    MaxRestarts  \* bound: how often the bot's process restarts

VARIABLES
    link, before, known, cursor, from, page, short, wire, yielded,
    flight,  \* per handler, the event its publish() is fanning out
    mishaps, \* how many drops, failures and restarts have happened
    shown,   \* the flags triggered by the users' texts that reached the bot
    lost     \* history: messages one of the causes below let the bot pass over

clientVars == <<link, before, known, cursor, from, page, short, wire, yielded>>
hubVars == <<flight, mishaps, shown, lost>>
vars == <<rows, writer, pc, job, events, link, before, known, cursor, from,
          page, short, wire, yielded, flight, mishaps, shown, lost>>

Client == INSTANCE BotClient WITH MaxSeq <- MaxRows, MaxWire <- MaxEvents

(* What the theorems about the client ask of its bounds.                   *)
ASSUME DeliveryAssumption == Client!BotClientAssumption

Idle == [at |-> "none"]

Init ==
    /\ StoreInit
    /\ Client!Init
    /\ flight = [h \in Handlers |-> Idle]
    /\ mishaps = [drops |-> 0, failures |-> 0, restarts |-> 0]
    /\ shown = {}
    /\ lost = {}

-----------------------------------------------------------------------------
(* What the code can leave out.  Five things let the client's cursor pass  *)
(* a message that nobody deleted or hid; each adds to lost where it        *)
(* happens, and only the messages it can cost.                             *)

Gone == {i \in Ids : rows[i].deleted \/ rows[i].flags # {}}

(* The create of i is committed, and h has still to write it to the bot.   *)
Untold(h, i) ==
    \/ pc[h] \in {"readback", "publish"} /\ job[h].op = "create" /\ job[h].id = i
    \/ flight[h] # Idle /\ flight[h].event.type = "message_create" /\ flight[h].event.seq = i

Creates == {wire[n].seq : n \in {m \in 1..Len(wire) : wire[m].type = "message_create"}}

OnItsWay(i) == i \in Creates \/ \E h \in Handlers : Untold(h, i)

(* A client that reads no rows from seq f on gets to know of these no more. *)
PassedOver(f) == {i \in Ids : f <= i /\ ~OnItsWay(i)}

(* A frame of h with this seq gets to the bot before these creates.        *)
Overtaken(h, seq) == {i \in 1..seq : \E g \in Handlers \ {h} : Untold(g, i)}

(* Of two overlapping edits, the later one wrote the flags it had read.    *)
Unhidden == {i \in Ids : rows[i].flags # {} /\ rows'[i].flags = {}}

-----------------------------------------------------------------------------
(* Requests *)

Request(h) ==
    /\ flight[h] = Idle
    /\ StoreRequest(h)
    /\ UNCHANGED <<clientVars, hubVars>>

Handle(h) ==
    /\ \/ Insert(h)
       \/ EditUpdate(h)
       \/ DeleteUpdate(h)
       \/ ReadBack(h)
    /\ lost' = lost \cup Unhidden
    /\ UNCHANGED <<clientVars, flight, mishaps, shown>>

Publish(h) ==
    /\ StorePublish(h)
    /\ flight' = [flight EXCEPT ![h] = [at |-> "users", event |-> events'[Len(events')]]]
    /\ UNCHANGED <<clientVars, mishaps, shown, lost>>

-----------------------------------------------------------------------------
(* handle_bus_event *)

Connected == link # "down"

(* The users' sockets have been written.  A delete is given the flags its  *)
(* row has now, and the connected bots are listed.                         *)
ListBots(h) ==
    /\ flight[h].at = "users"
    /\ LET e == flight[h].event
           flags == IF e.type = "message_delete" THEN rows[e.id].flags ELSE e.flags
       IN flight' = [flight EXCEPT ![h] =
                        IF Connected THEN [at |-> "bots", event |-> [e EXCEPT !.flags = flags]]
                        ELSE Idle]
    /\ UNCHANGED <<storeVars, clientVars, mishaps, shown, lost>>

SendToBot_FiltersCreatesOnly(h) ==
    /\ flight[h].at = "bots"
    /\ LET e == flight[h].event
       IN IF (e.type = "message_create" => e.flags = {}) /\ Connected
          THEN /\ Client!Arrive([type |-> e.type, seq |-> e.seq])
               /\ shown' = shown \cup DetectFlags(e.author, e.text)
               /\ lost' = lost \cup Overtaken(h, e.seq)
          ELSE UNCHANGED <<clientVars, shown, lost>>
    /\ flight' = [flight EXCEPT ![h] = Idle]
    /\ UNCHANGED <<storeVars, mishaps>>

(* filter_event_for_bot, then the bot's sockets of this moment.            *)
SendToBot(h) ==
    /\ flight[h].at = "bots"
    /\ LET e == flight[h].event
       IN IF e.flags = {} /\ Connected
          THEN /\ Client!Arrive([type |-> e.type, seq |-> e.seq])
               /\ shown' = shown \cup DetectFlags(e.author, e.text)
               /\ lost' = lost \cup Overtaken(h, e.seq)
          ELSE UNCHANGED <<clientVars, shown, lost>>
    /\ flight' = [flight EXCEPT ![h] = Idle]
    /\ UNCHANGED <<storeVars, mishaps>>

-----------------------------------------------------------------------------
(* The bot *)

(* The first connection of a process is not backfilled.                    *)
Connect ==
    /\ Client!Connect
    /\ lost' = IF before /\ known THEN lost ELSE lost \cup PassedOver(cursor + 1)
    /\ UNCHANGED <<storeVars, flight, mishaps, shown>>

RowsFrom_Exclusive(f) == {i \in Ids : f < i /\ i <= f + Page}

(* list_messages with from_seq: at most Page rows in seq order, and then   *)
(* the rows hidden from bots are left out of the answer.                   *)
RowsFrom(f) == {i \in Ids : f <= i /\ i < f + Page}
VisibleFrom(f) == {i \in RowsFrom(f) : rows[i].flags = {}}

Nth(s, k) == CHOOSE i \in s : Cardinality({j \in s : j <= i}) = k

(* A page with a hidden row is short, and the client takes it for the last.*)
FetchPage ==
    LET visible == VisibleFrom(from)
    IN /\ Client!FetchPage([k \in 1..Cardinality(visible) |->
              [seq |-> rows[Nth(visible, k)].seq, deleted |-> rows[Nth(visible, k)].deleted]])
       /\ shown' = shown \cup UNION {DetectFlags(rows[i].author, rows[i].text) :
                                        i \in {n \in visible : ~rows[n].deleted}}
       /\ lost' = IF Cardinality(visible) = Page THEN lost
                  ELSE lost \cup PassedOver(from + Page)
       /\ UNCHANGED <<storeVars, flight, mishaps>>

Handover ==
    /\ Client!BackfillItem \/ Client!PageDone \/ Client!ReceiveCreate \/ Client!ReceiveOther
    /\ UNCHANGED <<storeVars, hubVars>>

Mishap(kind, bound) ==
    /\ mishaps[kind] < bound
    /\ mishaps' = [mishaps EXCEPT ![kind] = @ + 1]
    /\ UNCHANGED <<storeVars, flight, shown>>

LinkLost == Client!LinkLost /\ Mishap("drops", MaxDrops) /\ UNCHANGED lost
Restart == Client!Restart /\ Mishap("restarts", MaxRestarts) /\ UNCHANGED lost

BackfillFails ==
    /\ Client!BackfillFails
    /\ Mishap("failures", MaxFailures)
    /\ lost' = lost \cup PassedOver(from)

ServerStep(h) == Handle(h) \/ Publish(h) \/ ListBots(h) \/ SendToBot(h)
BotStep == Connect \/ FetchPage \/ Handover

Next ==
    \/ \E h \in Handlers : Request(h) \/ ServerStep(h)
    \/ BotStep
    \/ LinkLost \/ BackfillFails \/ Restart

Spec == Init /\ [][Next]_vars

(* A handler runs to its end, and the SDK keeps reconnecting and reading.  *)
FairSpec == Spec /\ WF_vars(BotStep) /\ \A h \in Handlers : WF_vars(ServerStep(h))

-----------------------------------------------------------------------------
(* Properties *)

Yielded == {yielded[i] : i \in 1..Len(yielded)}

(* The privacy wall: no text that triggers a flag reaches a bot, live or   *)
(* by backfill, whatever edits, deletes and fan-outs overlap.              *)
HiddenTextStaysHidden == shown = {}

(* The client loses nothing else: its cursor never passes a message that   *)
(* the bot was not handed, unless it is deleted or hidden, or one of the   *)
(* five causes above cost it; any other overlap of pages, frames and lost  *)
(* connections is made good.                                               *)
NothingSkipped == \A i \in 1..cursor : i \in Yielded \cup Gone \cup lost

(* What the SDK documents: the bot is handed a feed, in which what was     *)
(* lost is missing like what is deleted or hidden.                         *)
Feed == INSTANCE OrderedFeed WITH
            posted <- Len(rows), gone <- Gone \cup lost, handed <- yielded
IsAFeed == Feed!Spec

(* A message posted to a bot that follows the channel gets to it, however  *)
(* often the connection is lost.                                           *)
Delivered ==
    \A i \in 1..MaxRows :
        (yielded # <<>> /\ yielded[1] < i /\ i <= Len(rows)) ~> (i \in Yielded \cup Gone)

=============================================================================
