------------------------------ MODULE BotClient ------------------------------
(***************************************************************************)
(* sdk/disjorn_sdk/client.py: the event stream of one bot, seen on one     *)
(* channel.  The client keeps a cursor (last_seen_seq), the server's       *)
(* frames queue up in the socket, and after a reconnect the channel is     *)
(* read over REST from the cursor on, a page at a time, before the queued  *)
(* frames are looked at.  What the server answers and sends is up to the   *)
(* environment: this module only assumes that a page ascends from the seq  *)
(* it was asked for.                                                       *)
(***************************************************************************)
EXTENDS Naturals, Sequences

CONSTANTS
    MaxSeq,  \* bound: the highest seq of the channel
    Page,    \* _BACKFILL_PAGE, the limit of one page
    MaxWire  \* bound: frames queued in the socket

BotClientAssumption == MaxSeq \in Nat /\ Page \in Nat \ {0} /\ MaxWire \in Nat

VARIABLES
    link,    \* down, backfill (about to ask for a page), paging or live
    before,  \* connected_before
    known,   \* the channel is a key of last_seen_seq
    cursor,  \* last_seen_seq of the channel, 0 when not known
    from,    \* from_seq of the next page of a backfill
    page,    \* items of the page still to be handled
    short,   \* the page was shorter than Page: it is the last one
    wire,    \* frames in the socket, oldest first
    yielded  \* seqs of the MessageCreate events handed to the bot, in order

clientVars == <<link, before, known, cursor, from, page, short, wire, yielded>>

Frame == [type : {"message_create", "message_edit", "message_delete"}, seq : 1..MaxSeq]
Item == [seq : 1..MaxSeq, deleted : BOOLEAN]

(* What GET /channels/{id}/messages?from_seq=f&limit=Page may return.      *)
IsPage(items, f) ==
    /\ items \in Seq(Item)
    /\ Len(items) <= Page
    /\ \A i \in 1..Len(items) : f <= items[i].seq
    /\ \A i, j \in 1..Len(items) : i < j => items[i].seq < items[j].seq

Init ==
    /\ link = "down"
    /\ before = FALSE
    /\ known = FALSE
    /\ cursor = 0
    /\ from = 0
    /\ page = <<>>
    /\ short = FALSE
    /\ wire = <<>>
    /\ yielded = <<>>

Highest(a, b) == IF a >= b THEN a ELSE b

(* _advance, for any kind of frame.                                        *)
AdvanceTo(seq) ==
    /\ cursor' = Highest(cursor, seq)
    /\ known' = TRUE

Connect_NoBackfill ==
    /\ link = "down"
    /\ link' = "live"
    /\ before' = TRUE
    /\ wire' = <<>>
    /\ UNCHANGED <<known, cursor, from, page, short, yielded>>

(* A connection that got its ready frame; only a reconnect with a cursor   *)
(* is backfilled.                                                          *)
Connect ==
    /\ link = "down"
    /\ link' = IF before /\ known THEN "backfill" ELSE "live"
    /\ from' = IF before /\ known THEN cursor + 1 ELSE from
    /\ before' = TRUE
    /\ wire' = <<>>
    /\ UNCHANGED <<known, cursor, page, short, yielded>>

(* Only recv() notices: a backfill under way runs to its end first.        *)
LinkLost ==
    /\ link = "live"
    /\ link' = "down"
    /\ wire' = <<>>
    /\ UNCHANGED <<before, known, cursor, from, page, short, yielded>>

(* The bot process restarts and seeds the cursor it had saved (seed_seq).  *)
Restart ==
    /\ link = "down"
    /\ before' = FALSE
    /\ UNCHANGED <<link, known, cursor, from, page, short, wire, yielded>>

(* get_messages: one page of _backfill.                                    *)
FetchPage(items) ==
    /\ link = "backfill"
    /\ link' = "paging"
    /\ page' = items
    /\ short' = (Len(items) < Page)
    /\ UNCHANGED <<before, known, cursor, from, wire, yielded>>

(* A tombstone moves the cursor and is not yielded.                        *)
BackfillItem ==
    /\ link = "paging"
    /\ page # <<>>
    /\ cursor' = Highest(cursor, Head(page).seq)
    /\ from' = Head(page).seq + 1
    /\ page' = Tail(page)
    /\ yielded' = IF Head(page).deleted THEN yielded
                  ELSE Append(yielded, Head(page).seq)
    /\ UNCHANGED <<link, before, known, short, wire>>

PageDone ==
    /\ link = "paging"
    /\ page = <<>>
    /\ link' = IF short THEN "live" ELSE "backfill"
    /\ UNCHANGED <<before, known, cursor, from, page, short, wire, yielded>>

(* httpx.HTTPError: this channel is left for the next reconnect.           *)
BackfillFails ==
    /\ link = "backfill"
    /\ link' = "live"
    /\ UNCHANGED <<before, known, cursor, from, page, short, wire, yielded>>

ReceiveCreate_NoDedup ==
    /\ link = "live"
    /\ wire # <<>>
    /\ Head(wire).type = "message_create"
    /\ wire' = Tail(wire)
    /\ AdvanceTo(Head(wire).seq)
    /\ yielded' = Append(yielded, Head(wire).seq)
    /\ UNCHANGED <<link, before, from, page, short>>

(* _parse_frame on the oldest frame.                                       *)
ReceiveCreate ==
    /\ link = "live"
    /\ wire # <<>>
    /\ Head(wire).type = "message_create"
    /\ wire' = Tail(wire)
    /\ IF Head(wire).seq <= cursor
       THEN UNCHANGED <<known, cursor, yielded>>
       ELSE /\ AdvanceTo(Head(wire).seq)
            /\ yielded' = Append(yielded, Head(wire).seq)
    /\ UNCHANGED <<link, before, from, page, short>>

ReceiveOther ==
    /\ link = "live"
    /\ wire # <<>>
    /\ Head(wire).type # "message_create"
    /\ wire' = Tail(wire)
    /\ AdvanceTo(Head(wire).seq)
    /\ UNCHANGED <<link, before, from, page, short, yielded>>

(* The server writes a frame to a connected socket.                        *)
Arrive(frame) ==
    /\ link # "down"
    /\ Len(wire) < MaxWire
    /\ wire' = Append(wire, frame)
    /\ UNCHANGED <<link, before, known, cursor, from, page, short, yielded>>

Next ==
    \/ Connect
    \/ LinkLost
    \/ Restart
    \/ \E n \in 0..Page : \E items \in [1..n -> Item] :
          IsPage(items, from) /\ FetchPage(items)
    \/ BackfillItem
    \/ PageDone
    \/ BackfillFails
    \/ ReceiveCreate
    \/ ReceiveOther
    \/ \E frame \in Frame : Arrive(frame)

Spec == Init /\ [][Next]_clientVars

-----------------------------------------------------------------------------
(* Properties *)

(* Every variable has its type, and a cursor is a seq of the channel or 0.   *)
TypeOK ==
    /\ link \in {"down", "backfill", "paging", "live"}
    /\ page \in Seq(Item)
    /\ short \in BOOLEAN
    /\ before \in BOOLEAN
    /\ known \in BOOLEAN
    /\ cursor \in 0..MaxSeq
    /\ from \in 0..(MaxSeq + 1)
    /\ wire \in Seq(Frame) /\ Len(wire) <= MaxWire
    /\ yielded \in Seq(1..MaxSeq)

(* The bot is handed the messages of a channel in seq order and none of    *)
(* them twice, over any sequence of reconnects, whatever frames overlap    *)
(* the pages of a backfill ("in seq order per channel", and live frames    *)
(* at or below the cursor "are deduplicated away").                        *)
YieldsAscend ==
    \A i, j \in 1..Len(yielded) : i < j => yielded[i] < yielded[j]

(* What has been handed over is at or below the cursor, so a cursor saved  *)
(* at any moment and seeded again never asks for a message twice.          *)
CursorCoversYields ==
    \A i \in 1..Len(yielded) : yielded[i] <= cursor

(* The inductive strengthening: a backfill asks for what follows the       *)
(* cursor, and the rest of a page lies beyond it, in order.                *)
IInv ==
    /\ TypeOK
    /\ link \in {"backfill", "paging"} => cursor < from
    /\ link = "paging" =>
          /\ \A i \in 1..Len(page) : cursor < page[i].seq
          /\ \A i, j \in 1..Len(page) : i < j => page[i].seq < page[j].seq
    /\ YieldsAscend
    /\ CursorCoversYields

(* The cursor of a channel never goes back, and once known stays known.    *)
CursorIsMonotonic == [][cursor <= cursor' /\ (known => known')]_clientVars

=============================================================================
