----------------------------- MODULE WebClient ------------------------------
(***************************************************************************)
(* One tab of the web client and one channel: the socket of                *)
(* client/src/ws.ts, which brings live frames and resyncs after a          *)
(* reconnect, and the message list of client/src/stores/messages.ts, which *)
(* is filled by those frames and by pages fetched over HTTP.  The list     *)
(* may have holes, and `gaps' says where (the reader sees a seam there).   *)
(*                                                                         *)
(* A message is its seq: the list is ordered by it and holds it once.      *)
(* An edit changes no seq and is left out.  Of the server there is what a  *)
(* tab can tell: posts take the next seq (SeqIsGapless of MessageStore),   *)
(* the frames of what is committed come later and in any order, or, with   *)
(* no socket, not at all, and a page is the table of a moment between the  *)
(* asking and the answer.                                                  *)
(***************************************************************************)
EXTENDS Naturals, Sequences, FiniteSets, FiniteSetsExt

CONSTANTS
    Page,       \* HISTORY_PAGE
    BackPage,   \* PAGE of backfill
    Ahead,      \* how far ensureAround looks past its target
    History,    \* posts that are there when the tab opens
    MaxPosts,   \* bound: posts ever
    MaxDeletes, \* bound: deletes ever
    MaxLosses,  \* bound: how often the socket is lost
    MaxAsked    \* bound: pages the reader has asked for and not got

ASSUME WebClientAssumption ==
    /\ {Page, BackPage, Ahead} \subseteq Nat \ {0}
    /\ {History, MaxPosts, MaxDeletes, MaxLosses, MaxAsked} \subseteq Nat
    /\ History <= MaxPosts

VARIABLES
    posted,       \* the newest seq of the channel
    gone,         \* the seqs that are deleted
    frames,       \* of committed posts and deletes, not fanned out or on the wire
    connected,    \* the hub has a socket of this tab
    hadReady, held, loaded, reachedStart, gaps,
    fetches,      \* pages asked for, with the answer when there is one
    losses,
    jumped,       \* what a frame or a page was put over: seqs not known of
    severed,      \* deletes took the whole of a piece of the list
    owed          \* what was posted while the tab followed the channel

serverVars == <<posted, gone, frames>>
socketVars == <<connected, hadReady>>
listVars == <<held, loaded, reachedStart, gaps>>
history == <<jumped, severed, owed>>
vars == <<serverVars, socketVars, listVars, fetches, losses, history>>

Ops == {"load", "older", "around", "fill", "refresh", "backfill"}
Asked == {f \in fetches : f.op \in {"load", "older", "around", "fill"}}

Init ==
    /\ posted = History /\ gone = {} /\ frames = {}
    /\ connected = FALSE /\ hadReady = FALSE
    /\ held = {} /\ loaded = FALSE /\ reachedStart = FALSE /\ gaps = {}
    /\ fetches = {} /\ losses = 0
    /\ jumped = {} /\ severed = FALSE /\ owed = {}

Live == (1..posted) \ gone
LastSeqOf(list) == IF list = {} THEN 0 ELSE Max(list)
LastSeq == LastSeqOf(held)

Neighbours(s) ==
    {p \in s \X s : p[1] < p[2] /\ ~\E n \in s : p[1] < n /\ n < p[2]}
Between(g, p) == p[1] <= g /\ g < p[2]
Seam(p) == \E g \in gaps : Between(g, p)

(* What of the list is in one piece with s.                                *)
Piece(s) == {h \in held : ~\E g \in gaps : Between(g, <<s, h>>) \/ Between(g, <<h, s>>)}
Severs == \E s \in held : Piece(s) \cap held' = {}

-----------------------------------------------------------------------------
(* The server *)

Post ==
    /\ posted < MaxPosts
    /\ posted' = posted + 1
    /\ frames' = frames \cup {[type |-> "message_create", seq |-> posted + 1]}
    /\ owed' = IF hadReady /\ loaded /\ held # {} THEN owed \cup {posted + 1} ELSE owed
    /\ UNCHANGED <<gone, socketVars, listVars, fetches, losses, jumped, severed>>

Delete(s) ==
    /\ s \in Live
    /\ Cardinality(gone) < MaxDeletes
    /\ gone' = gone \cup {s}
    /\ frames' = frames \cup {[type |-> "message_delete", seq |-> s]}
    /\ UNCHANGED <<posted, socketVars, listVars, fetches, losses, history>>

(* list_messages: scrollback leaves deleted messages out, newest first;    *)
(* a backfill has tombstones for them.                                     *)
PageBelow(before) ==
    LET below == {s \in Live : s < before}
    IN {s \in below : Cardinality({t \in below : t > s}) < Page}
PageFrom(from) == {s \in 1..posted : from <= s /\ s < from + BackPage}

Serve(f) ==
    /\ f \in fetches /\ ~f.served
    /\ LET page == IF f.op = "backfill" THEN PageFrom(f.edge) ELSE PageBelow(f.edge)
       IN fetches' = (fetches \ {f}) \cup
                        {[f EXCEPT !.served = TRUE, !.page = page, !.dead = page \cap gone]}
    /\ UNCHANGED <<serverVars, socketVars, listVars, losses, history>>

-----------------------------------------------------------------------------
(* The socket *)

(* It closes, or wake() replaces it: its frames are not listened to.       *)
LoseSocket ==
    /\ connected
    /\ losses < MaxLosses
    /\ losses' = losses + 1
    /\ connected' = FALSE

LinkLost ==
    /\ LoseSocket
    /\ UNCHANGED <<serverVars, hadReady, listVars, fetches, history>>

(* With the server go the pages asked for, and resync gives up; the        *)
(* frames it had not sent are never sent.                                  *)
ServerBounces ==
    /\ LoseSocket
    /\ fetches' = {}
    /\ frames' = {}
    /\ UNCHANGED <<posted, gone, hadReady, listVars, history>>

(* The fan-out reaches the sockets of its moment.                          *)
Miss(frame) ==
    /\ ~connected
    /\ frames' = frames \ {frame}
    /\ UNCHANGED <<posted, gone, socketVars, listVars, fetches, losses, history>>

Fetch(op, edge, seam) ==
    [op |-> op, edge |-> edge, seam |-> seam, served |-> FALSE, page |-> {}, dead |-> {}]
Refresh == [Fetch("refresh", losses, 0) EXCEPT !.served = TRUE] \* no page

(* The hub sends ready before anything else.  The first has nothing to     *)
(* resync, a later one refreshes the list of channels and then backfills.  *)
Connect ==
    /\ ~connected
    /\ connected' = TRUE
    /\ hadReady' = TRUE
    /\ fetches' = IF hadReady THEN fetches \cup {Refresh} ELSE fetches
    /\ UNCHANGED <<serverVars, listVars, losses, history>>

(* What the list skips next to s, up to its end.                           *)
Hole(s) ==
    {n \in 1..Max(held \cup {s}) \ {s} :
        \A m \in held : m \notin n..s /\ m \notin s..n}

(* Live frames of a channel that is not loaded are ignored.                *)
ApplyCreate(s) ==
    /\ held' = IF loaded THEN held \cup {s} ELSE held
    /\ jumped' = IF loaded THEN jumped \cup Hole(s) ELSE jumped
    /\ UNCHANGED <<loaded, reachedStart, gaps, fetches>>

ApplyDelete(s) ==
    /\ held' = held \ {s}
    /\ UNCHANGED <<loaded, reachedStart, gaps, fetches, jumped>>

Dispatch(frame) ==
    /\ connected
    /\ frames' = frames \ {frame}
    /\ \/ frame.type = "message_create" /\ ApplyCreate(frame.seq)
       \/ frame.type = "message_delete" /\ ApplyDelete(frame.seq)
    /\ severed' = (severed \/ Severs)
    /\ UNCHANGED <<posted, gone, socketVars, losses, owed>>

-----------------------------------------------------------------------------
(* Where the list has a hole *)

RecomputeGaps_Forgets(merged, fetched, previous, anchor) ==
    {p[1] : p \in {q \in Neighbours(merged) :
        /\ q[2] > q[1] + 1
        /\ (q[1] \in fetched) # (q[2] \in fetched)
        /\ ~(q[1] \in fetched /\ q[2] = anchor)}}

(* A page is of one piece, and a page anchored at `anchor' goes up to it;  *)
(* what lies between two pieces is not known.                              *)
RecomputeGaps(merged, fetched, previous, anchor) ==
    {p[1] : p \in {q \in Neighbours(merged) :
        /\ q[2] > q[1] + 1
        /\ ~(q[1] \in fetched /\ (q[2] \in fetched \/ q[2] = anchor))
        /\ \/ (q[1] \in fetched) # (q[2] \in fetched)
           \/ \E g \in previous : Between(g, q)}}

-----------------------------------------------------------------------------
(* Pages *)

Ask(f) ==
    /\ Cardinality(Asked) < MaxAsked
    /\ f \notin fetches
    /\ fetches' = fetches \cup {f}
    /\ UNCHANGED <<serverVars, socketVars, listVars, losses, history>>

InFlight(op) == \E f \in fetches : f.op = op
Newest == MaxPosts + 1 \* no before_seq

EnsureLoaded ==
    /\ ~loaded
    /\ Ask(Fetch("load", Newest, 0))

FetchOlder ==
    /\ loaded /\ ~reachedStart /\ ~InFlight("older")
    /\ Ask(Fetch("older", IF held = {} THEN Newest ELSE Min(held), 0))

(* A search result that is not in the list.                                *)
EnsureAround(target) ==
    /\ loaded
    /\ target \in Live \ held
    /\ Ask(Fetch("around", target + Ahead, 0))

(* The reader presses a seam: the page below its upper edge.               *)
FillGap(p) ==
    /\ ~InFlight("fill")
    /\ p \in Neighbours(held)
    /\ Seam(p)
    /\ Ask(Fetch("fill", p[2], p[1]))

(* A second first page, too, is merged with no look at its edges.          *)
Doubled(f) ==
    UNION {Hole(s) : s \in {x \in f.page \cup {0} : loaded /\ f.op = "load" /\ (x = 0 => f.page = {})}}

PageArrives(f) ==
    /\ f.op \in {"load", "older"}
    /\ held' = held \cup f.page
    /\ loaded' = (loaded \/ f.op = "load")
    /\ reachedStart' = (Cardinality(f.page) < Page)
    /\ fetches' = fetches \ {f}
    /\ jumped' = jumped \cup Doubled(f)
    /\ UNCHANGED gaps

(* A window is all that an empty list gets, and its start was reached.     *)
Unreached(f) == {n \in 1..posted : held = {} /\ f.page # {} /\ \A m \in f.page : n < m}

(* The seams are tied anew to the messages of the list while another page  *)
(* is on its way whose edge was deleted: the seam above that edge can be   *)
(* tied below it, and the other page then comes to lie over it.            *)
Crossed(f) ==
    {n \in 1..LastSeqOf(held') : \E o \in fetches \ {f} :
        o.op \in {"older", "fill"} /\ o.edge <= n /\ (o.edge..n) \cap held' = {}}

WindowArrives(f) ==
    /\ f.op = "around"
    /\ held' = held \cup f.page
    /\ gaps' = RecomputeGaps(held', f.page, gaps, 0)
    /\ fetches' = fetches \ {f}
    /\ jumped' = jumped \cup Unreached(f) \cup Crossed(f)
    /\ UNCHANGED <<loaded, reachedStart>>

FillArrives(f) ==
    /\ f.op = "fill"
    /\ held' = held \cup f.page
    /\ gaps' = IF f.page = {} THEN gaps \ {f.seam}
               ELSE RecomputeGaps(held', f.page, gaps, f.edge)
    /\ jumped' = IF f.page = {} THEN jumped ELSE jumped \cup Crossed(f)
    /\ fetches' = fetches \ {f}
    /\ UNCHANGED <<loaded, reachedStart>>

(* resync: only a list that holds something is backfilled.                 *)
ChannelsRefreshed(f) ==
    /\ f.op = "refresh"
    /\ fetches' = (fetches \ {f}) \cup
                     (IF held # {} THEN {Fetch("backfill", LastSeq + 1, f.edge)} ELSE {})
    /\ UNCHANGED <<listVars, jumped>>

(* What the list skips above a page that ends below its last.              *)
Overtaken(f) ==
    {n \in 1..LastSeq : /\ f.page # {} /\ \A m \in f.page : m < n
                       /\ \A m \in held : m \in 1..n => \E k \in f.page : m <= k}

BackfillArrives_OnePage(f) ==
    /\ f.op = "backfill"
    /\ held' = (held \ f.dead) \cup (f.page \ f.dead)
    /\ fetches' = fetches \ {f}
    /\ jumped' = jumped \cup Overtaken(f)
    /\ UNCHANGED <<loaded, reachedStart, gaps>>

(* Tombstones drop what they name.  A full page is not the last one.       *)
BackfillArrives(f) ==
    /\ f.op = "backfill"
    /\ held' = (held \ f.dead) \cup (f.page \ f.dead)
    /\ fetches' = (fetches \ {f}) \cup
                     (IF Cardinality(f.page) < BackPage THEN {}
                      ELSE {Fetch("backfill", LastSeqOf(held') + 1, f.seam)})
    /\ jumped' = jumped \cup Overtaken(f)
    /\ UNCHANGED <<loaded, reachedStart, gaps>>

Arrive(f) ==
    /\ f \in fetches /\ f.served
    /\ \/ PageArrives(f) \/ WindowArrives(f) \/ FillArrives(f)
       \/ ChannelsRefreshed(f) \/ BackfillArrives(f)
    /\ severed' = (severed \/ Severs)
    /\ UNCHANGED <<serverVars, socketVars, losses, owed>>

-----------------------------------------------------------------------------
Reader ==
    \/ EnsureLoaded \/ FetchOlder
    \/ \E s \in 1..MaxPosts : EnsureAround(s)
    \/ \E p \in (1..MaxPosts) \X (1..MaxPosts) : FillGap(p)

Answer(op) == \E f \in fetches : f.op = op /\ (Serve(f) \/ Arrive(f))

FrameComes == \E frame \in frames : Dispatch(frame) \/ Miss(frame)

Next ==
    \/ Post \/ (\E s \in 1..MaxPosts : Delete(s))
    \/ FrameComes
    \/ Connect \/ LinkLost \/ ServerBounces
    \/ Reader
    \/ \E op \in Ops : Answer(op)

Spec == Init /\ [][Next]_vars

(* The server publishes and answers, the tab reconnects and handles what   *)
(* it gets.  Nothing obliges people.                                       *)
FairSpec == Spec /\ WF_vars(Connect) /\ WF_vars(FrameComes) /\ \A op \in Ops : WF_vars(Answer(op))

-----------------------------------------------------------------------------
(* Properties *)

(* Every variable has its type, and only an answer has a page.             *)
Fetches ==
    [op: Ops, edge: Nat, seam: Nat, served: BOOLEAN, page: SUBSET (1..posted), dead: SUBSET gone]
TypeOK ==
    /\ posted \in History..MaxPosts /\ gone \subseteq 1..posted
    /\ frames \subseteq [type: {"message_create", "message_delete"}, seq: 1..posted]
    /\ connected \in BOOLEAN /\ hadReady \in BOOLEAN
    /\ held \subseteq 1..posted /\ gaps \subseteq 1..posted
    /\ loaded \in BOOLEAN /\ reachedStart \in BOOLEAN
    /\ \A f \in fetches : f \in Fetches /\ (f.page # {} => f.served)
    /\ losses \in 0..MaxLosses
    /\ jumped \subseteq 1..posted /\ severed \in BOOLEAN /\ owed \subseteq 1..posted

(* What looks whole: two neighbours without a seam, and the start of the   *)
(* channel when it was reached.                                            *)
StartReached == reachedStart /\ held # {}
Pieces ==
    {p \in Neighbours(held) : ~Seam(p)}
    \cup (IF StartReached THEN {<<0, Min(held)>>} ELSE {})
BehindSeams == {n \in 1..posted : \E p \in Neighbours(held) : Seam(p) /\ p[1] < n /\ n < p[2]}
Silent == {n \in Live \ held : \E p \in Pieces : p[1] < n /\ n < p[2]}

(* No message is missing where the list looks whole, however pages,        *)
(* windows around a search result, fills, deletes and reconnects overlap:  *)
(* the seams tell where the rest is.  Excepted is what was jumped over: by *)
(* a live frame, a backfill the list has overtaken, a second first page, a *)
(* window into an emptied list, or one that crosses another page whose     *)
(* edge was deleted.  (Deletes of a whole piece undo all seams.)           *)
HolesAreMarked == severed \/ Silent \subseteq jumped

(* A tab that follows a channel has what was posted there as soon as       *)
(* nothing is on its way any more, however often the socket was lost, but  *)
(* for what was jumped over.  (An emptied list is not resynced.)           *)
CaughtUpWhenQuiet ==
    connected /\ frames = {} /\ fetches = {} /\ ~severed
        => owed \subseteq gone \cup held \cup BehindSeams \cup jumped

(* The same as a promise: the resync ends.                                 *)
TailIsReached == \A s \in 1..MaxPosts : (s \in owed) ~> (s \in gone \cup held \cup BehindSeams \cup jumped \/ severed)

(* The store says of a seam that it is wherever the successor "is NOT      *)
(* known to be adjacent".  Live frames make holes without one.             *)
NoSilentHole == Silent = {}

=============================================================================
