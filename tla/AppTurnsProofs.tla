--------------------------- MODULE AppTurnsProofs ---------------------------
(***************************************************************************)
(* Proofs about AppTurns, for any ceiling, launches and troubles.          *)
(*                                                                         *)
(* What a turn is known by is its number, and calls may share one: in      *)
(* memory the app is claimed, on disk there are a ticket, a unit and a     *)
(* record of the number, at the server a running turn and charges.  The    *)
(* invariant says whose each of them is at every place of a launch, and    *)
(* what outlives it: the claim is of the launch that holds the app, what   *)
(* works has its ticket, what was charged was written, what was announced  *)
(* is still running for the session, and, as long as no call crossed       *)
(* another, one launch has a cost that is not on the ledger.               *)
(***************************************************************************)
EXTENDS AppTurns, FiniteSetTheorems, TLAPS

Names == 0..MaxLaunches
Kinds == {"none", "scoped", "ceiling", "written", "haltedScoped", "secret", "gaveUp", "gaveUpScoped"}
Hows == {"none", "written", "haltedScoped", "secret"}
Places == {"free", "sweep", "resolve", "claim", "note", "ticket", "spawn", "gate", "commit", "watch",
           "finish", "giveUp", "mark", "undo", "remove", "over"}
CallRecord == [pc : Places, turn : Names, before : Nat, ev : Kinds, try : {1, 2}, from : Names,
               begun : BOOLEAN, closed : BOOLEAN, sent : BOOLEAN, adopted : BOOLEAN,
               saw : SUBSET Launches, sawLogged : Nat]
RowRecord == [ended : BOOLEAN, stop : BOOLEAN, turns : Names, tokens : Nat, running : Names,
              charged : SUBSET Turns]

(* Every variable has its type.                                            *)
TypedDisk ==
    /\ ticket \in [Turns -> Names] /\ unit \in [Turns -> Names]
    /\ result \in [Turns -> [of : Names, how : Hows]]
    /\ marked \subseteq Launches /\ ledger \in Nat
TypedBooks ==
    /\ wrote \subseteq Names /\ logged \subseteq Names /\ announced \subseteq Launches
    /\ heard \subseteq Launches /\ unheard \subseteq Launches
    /\ forsaken \subseteq Names /\ crossed \subseteq Names /\ unsaid \subseteq Launches
Typed ==
    /\ call \in [Launches -> CallRecord] /\ row \in RowRecord
    /\ press \in {"none", "first", "again"} /\ active \in Names
    /\ up \in BOOLEAN /\ todo \subseteq Turns /\ troubles \in Nat
    /\ TypedDisk /\ TypedBooks

(* Where a launch is: it asks before it has the app, then holds it.        *)
Posting(l) == call[l].pc \in {"gate", "commit"}
Asking(l) == call[l].pc \in {"sweep", "resolve", "claim", "note"} \/ (Posting(l) /\ call[l].ev = "ceiling")
Holds(l) == \/ call[l].pc \in {"ticket", "spawn", "undo", "watch", "finish", "giveUp"}
            \/ Posting(l) /\ call[l].ev # "ceiling"
Starting(l) == call[l].pc \in {"ticket", "spawn"} \/ (Posting(l) /\ call[l].ev = "scoped")

(* What a place says of a launch's record.                                 *)
CallShape(l) ==
    /\ At(l, "free") => call[l] = Idle
    /\ Asking(l) => ~call[l].begun
    /\ Asking(l) \/ Starting(l) => up
    /\ ~At(l, "free") /\ ~At(l, "over") /\ ~Asking(l) => call[l].begun
    /\ call[l].begun \/ Asking(l) => Turn(l) \in Turns
    /\ call[l].turn <= l
    /\ Posting(l) => call[l].ev # "none"
    /\ call[l].closed => call[l].begun /\ At(l, "over") /\ (ticket[Turn(l)] = l => l \in marked)
    /\ At(l, "free") => row.turns < l /\ \A m \in Launches : l < m => At(m, "free")
    /\ At(l, "resolve") => call[l].from \in marked
ShapeInv == \A l \in Launches : CallShape(l)

(* Only launches that began left anything, under their own turn number.    *)
Begun(l) == l \in Launches /\ call[l].begun
DiskInv ==
    /\ \A n \in Turns : ticket[n] # Nobody => Begun(ticket[n]) /\ Turn(ticket[n]) = n
    /\ \A n \in Turns : unit[n] # Nobody =>
          Begun(unit[n]) /\ Turn(unit[n]) = n /\ call[unit[n]].pc \notin {"ticket", "spawn"}
    /\ \A n \in Turns : result[n] # NoResult =>
          result[n].of \in wrote /\ Turn(result[n].of) = n /\ result[n].how # "none"
    /\ \A l \in wrote \cup announced \cup heard \cup logged : Begun(l)
    /\ \A l \in marked : l \in Launches /\ call[l].closed

(* What an adoption has still to look at has no thread.                    *)
TodoInv ==
    /\ todo # {} => ~up
    /\ \A n \in todo : ticket[n] # Nobody /\ At(ticket[n], "over")
    /\ ~up => \A l \in Launches : ~At(l, "free") /\ ~At(l, "over") => Turn(l) \notin todo

(* The app is claimed by the launch that is past its claim, and by it only.*)
ClaimInv == active \in Names /\ \A l \in Launches : Holds(l) <=> active = l

(* A turn that runs, as far as its reaper knows, has its ticket.           *)
KeepsInv ==
    \A l \in Launches :
        At(l, "spawn") \/ At(l, "watch") \/ (Posting(l) /\ call[l].ev # "ceiling") =>
            ticket[Turn(l)] = l \/ l \in forsaken

(* A unit that works is watched, or has a ticket that will be looked at.   *)
Watched(l) == At(l, "watch") \/ (Posting(l) /\ call[l].ev = "scoped")
Waits(l) == At(l, "over") /\ ~up /\ Turn(l) \in todo /\ ticket[Turn(l)] = l /\ l \notin marked
WriterInv ==
    /\ \A n \in Working : Watched(unit[n]) \/ Waits(unit[n])
    /\ \A m, n \in Working : m = n

(* A turn is charged when its record was written, and once.                *)
Charging(l) == (Posting(l) /\ Metered(call[l].ev)) \/ At(l, "finish")
MeterInv ==
    /\ row.tokens = Cardinality(row.charged)
    /\ \A n \in row.charged : \E l \in wrote : Turn(l) = n
    /\ \A l \in Launches : Charging(l) => call[l].from \in wrote /\ Turn(call[l].from) = Turn(l)

(* A turn the room was told of and not told the end of is the one the      *)
(* session runs, and its end gets through an ended session.                *)
Fresh(l) == call[l].pc \in {"ticket", "spawn"} \/ (Posting(l) /\ call[l].ev = "scoped" /\ call[l].try = 1)
Untold(l) ==
    /\ row.running = Turn(l)
    /\ row.ended => row.stop
    /\ At(l, "watch") \/ (Posting(l) /\ call[l].ev # "ceiling") \/ Waits(l)
TellInv ==
    /\ \A l \in Launches : Fresh(l) => l \notin announced
    /\ forsaken = {} => \A l \in announced \ (heard \cup unheard \cup unsaid) : Untold(l)

(* While no call crossed another there is one launch whose cost may still  *)
(* reach the ledger, and a launch that claims knew all that was spent.     *)
Pending(l) == call[l].begun /\ (call[l].closed => ticket[Turn(l)] = l)
Overtaken(l) == \E o \in Launches \ call[l].saw : call[o].begun
Counted(l) ==
    /\ Pending(l) => Cardinality(logged \ {l}) <= call[l].before
    /\ Charging(l) => call[l].from = l
    /\ Asking(l) \/ call[l].begun => call[l].sawLogged <= Cardinality(logged)
    /\ Asking(l) => \A o \in call[l].saw : call[o].closed
    /\ call[l].begun => call[l].sawLogged < Ceiling
    /\ At(l, "claim") =>
          /\ call[l].sawLogged <= call[l].before /\ call[l].before < Ceiling
          /\ \/ Overtaken(l)
             \/ /\ \A o \in Launches : ~Pending(o)
                /\ Cardinality(logged) <= call[l].before
CountInv ==
    crossed = {} =>
        /\ Cardinality(logged) <= ledger
        /\ \A l, o \in Launches : Pending(l) /\ Pending(o) => l = o
        /\ \A l \in Launches : Counted(l)

IInv == /\ Typed /\ ShapeInv /\ DiskInv /\ TodoInv /\ ClaimInv /\ KeepsInv
        /\ WriterInv /\ MeterInv /\ TellInv /\ CountInv
-----------------------------------------------------------------------------
(* What each action does to the launches *)

(* One launch goes on, and is still the same launch.                       *)
Alone(l) ==
    /\ call' \in [Launches -> CallRecord]
    /\ \A o \in Launches \ {l} : call'[o] = call[o]
Same(l) ==
    /\ call'[l].turn = call[l].turn /\ call'[l].begun = call[l].begun
    /\ call'[l].saw = call[l].saw /\ call'[l].sawLogged = call[l].sawLogged
Steps(l, where) ==
    /\ Alone(l) /\ Same(l) /\ call'[l].pc = where
    /\ call'[l].closed = call[l].closed /\ call'[l].before = call[l].before
Rests(l, where) ==
    Steps(l, where) /\ call'[l].ev = "none" /\ call'[l].try = 1 /\ call'[l].from = call[l].from
Jumps(l, where) ==
    /\ Steps(l, where) /\ call'[l].ev = call[l].ev /\ call'[l].try = call[l].try
    /\ call'[l].from = call[l].from
Posts(l, ev) ==
    Steps(l, "gate") /\ call'[l].ev = ev /\ call'[l].try = 1
Leaves(l) ==
    Alone(l) /\ call'[l] = [Idle EXCEPT !.pc = "over"]
Closes(l) ==
    /\ Alone(l) /\ Same(l) /\ call'[l].pc = "over" /\ call'[l].closed
    /\ call'[l].before = call[l].before

LEMMA LaunchIsWhole ==
    ASSUME Typed, NEW l \in Launches PROVE call[l] \in CallRecord
  BY DEF Typed

LEMMA IdleIsWhole == Idle \in CallRecord
  BY AppTurnsAssumption DEF Idle, CallRecord, Places, Names, Kinds, Nobody

LEMMA GotoEffect ==
    ASSUME Typed, NEW l \in Launches, NEW where \in Places, Goto(l, where) PROVE Jumps(l, where)
<1>1. call[l] \in CallRecord
  BY LaunchIsWhole
<1> QED
  BY <1>1 DEF Goto, Jumps, Steps, Alone, Same, Typed, CallRecord

LEMMA RestEffect ==
    ASSUME Typed, NEW l \in Launches, NEW where \in Places,
           call' = [call EXCEPT ![l] = Rest(l, where)]
    PROVE  Rests(l, where)
<1>1. call[l] \in CallRecord
  BY LaunchIsWhole
<1> QED
  BY <1>1 DEF Rest, Rests, Steps, Alone, Same, Typed, CallRecord, Kinds

LEMMA RefuseEffect ==
    ASSUME Typed, NEW l \in Launches, Refuse(l) PROVE Leaves(l)
<1>1. [Idle EXCEPT !.pc = "over"] \in CallRecord
  BY IdleIsWhole DEF CallRecord, Places
<1> QED
  BY <1>1 DEF Refuse, Leaves, Alone, Typed

LEMMA CloseEffect ==
    ASSUME Typed, NEW l \in Launches, Close(l) PROVE Closes(l)
<1>1. call[l] \in CallRecord
  BY LaunchIsWhole
<1>2. [Rest(l, "over") EXCEPT !.closed = TRUE, !.from = Nobody] \in CallRecord
  <2>1. Rest(l, "over") \in CallRecord
    BY <1>1 DEF Rest, CallRecord, Kinds, Places
  <2>2. Nobody \in Names
    BY AppTurnsAssumption DEF Names, Nobody
  <2> QED
    BY <2>1, <2>2 DEF CallRecord
<1> QED
  BY <1>1, <1>2 DEF Close, Rest, Closes, Alone, Same, Typed, CallRecord

LEMMA PostEffect ==
    ASSUME Typed, NEW l \in Launches, NEW ev \in Kinds, NEW from \in Names,
           call' = [call EXCEPT ![l] = [Post(l, ev) EXCEPT !.from = from]]
    PROVE  Posts(l, ev) /\ call'[l].from = from
<1>1. call[l] \in CallRecord
  BY LaunchIsWhole
<1>2. [Post(l, ev) EXCEPT !.from = from] \in CallRecord
  BY <1>1 DEF Post, CallRecord, Places
<1> QED
  BY <1>1, <1>2 DEF Post, Posts, Steps, Alone, Same, Typed, CallRecord

LEMMA PlainPostEffect ==
    ASSUME Typed, NEW l \in Launches, NEW ev \in Kinds,
           call' = [call EXCEPT ![l] = Post(l, ev)]
    PROVE  Posts(l, ev) /\ call'[l].from = call[l].from
<1>1. call[l] \in CallRecord
  BY LaunchIsWhole
<1>2. Post(l, ev) \in CallRecord
  BY <1>1 DEF Post, CallRecord, Places
<1> QED
  BY <1>1, <1>2 DEF Post, Posts, Steps, Alone, Same, Typed, CallRecord

LEMMA GoOnEffect ==
    ASSUME Typed, NEW l \in Launches, GoOn(l)
    PROVE  /\ Rests(l, AfterPost(call[l].ev))
           /\ AfterPost(call[l].ev) \in {"watch", "note", "finish", "giveUp"}
<1>1. AfterPost(call[l].ev) \in {"watch", "note", "finish", "giveUp"}
  BY DEF AfterPost
<1> QED
  BY <1>1, RestEffect DEF GoOn, Places
(* The rest of what a step may do to a launch.                             *)
Looks(l) ==
    /\ Alone(l) /\ call'[l].pc = "sweep" /\ call'[l].turn = row.turns + 1
    /\ call'[l].before = row.tokens /\ call'[l].ev = "none"
    /\ ~call'[l].begun /\ ~call'[l].closed
    /\ call'[l].saw = {o \in Launches : call[o].closed}
    /\ call'[l].sawLogged = Cardinality(logged)
Begins(l) ==
    /\ Alone(l) /\ call'[l].pc = "ticket" /\ call'[l].begun
    /\ call'[l].turn = call[l].turn /\ call'[l].closed = call[l].closed
    /\ call'[l].saw = call[l].saw /\ call'[l].sawLogged = call[l].sawLogged
    /\ call'[l].before = call[l].before /\ call'[l].ev = call[l].ev

LEMMA SetsAreFinite ==
    ASSUME NEW S \in SUBSET Names PROVE IsFiniteSet(S) /\ Cardinality(S) \in Nat
<1>1. IsFiniteSet(Names)
  BY FS_Interval, AppTurnsAssumption DEF Names
<1> QED
  BY <1>1, FS_Subset, FS_CardinalityType

LEMMA ViewEffect ==
    ASSUME Typed, NEW l \in Launches, CallShape(l), View(l) PROVE Looks(l)
<1>1. call[l] = Idle /\ row.turns < l
  BY DEF View, CallShape
<1>2. row.turns + 1 \in Names /\ row.tokens \in Nat
  BY <1>1, AppTurnsAssumption DEF Typed, RowRecord, Names, Launches
<1>3. Cardinality(logged) \in Nat
  BY SetsAreFinite DEF Typed, TypedBooks
<1> DEFINE next == [call[l] EXCEPT !.pc = "sweep", !.turn = row.turns + 1, !.before = row.tokens,
                           !.saw = {o \in Launches : call[o].closed},
                           !.sawLogged = Cardinality(logged)]
<1>4. next \in CallRecord
  <2>1. {o \in Launches : call[o].closed} \in SUBSET Launches
    OBVIOUS
  <2>2. call[l] \in CallRecord
    BY LaunchIsWhole
  <2>3. "sweep" \in Places
    BY DEF Places
  <2> HIDE DEF Places, Names, Launches
  <2> QED
    BY <1>2, <1>3, <2>1, <2>2, <2>3 DEF CallRecord
<1>5. call' = [call EXCEPT ![l] = next]
  BY DEF View
<1>6. call'[l] = next /\ Alone(l)
  <2> HIDE DEF next
  <2> QED
    BY <1>4, <1>5 DEF Alone, Typed
<1> QED
  BY <1>1, <1>6 DEF Looks, Idle

LEMMA SweepEffect ==
    ASSUME Typed, NEW l \in Launches, NEW n \in Turns, Sweep(l, n)
    PROVE  /\ Steps(l, "resolve") /\ call'[l].ev = call[l].ev /\ call'[l].try = call[l].try
           /\ call'[l].from = ticket[n]
<1>1. call[l] \in CallRecord
  BY LaunchIsWhole
<1>2. ticket[n] \in Names
  BY DEF Typed, TypedDisk
<1>3. call' = [call EXCEPT ![l] = [@ EXCEPT !.pc = "resolve", !.from = ticket[n]]]
  BY <1>1 DEF Sweep, Typed, CallRecord
<1>4. [call[l] EXCEPT !.pc = "resolve", !.from = ticket[n]] \in CallRecord
  BY <1>1, <1>2 DEF CallRecord, Places
<1> QED
  BY <1>1, <1>3, <1>4 DEF Steps, Alone, Same, Typed, CallRecord

LEMMA SpentIsKnown ==
    ASSUME Typed, NEW l \in Launches
    PROVE  Spent(l) \in Nat /\ Spent(l) >= call[l].before /\ Spent(l) >= ledger
<1>1. call[l].before \in Nat /\ ledger \in Nat
  BY LaunchIsWhole DEF CallRecord, Typed, TypedDisk
<1> QED
  BY <1>1 DEF Spent, Larger

LEMMA CeilingEffect ==
    ASSUME Typed, NEW l \in Launches, CheckCeiling(l)
    PROVE  /\ Alone(l) /\ Same(l) /\ call'[l].closed = call[l].closed
           /\ troubles' \in Nat /\ crossed' \in {crossed, crossed \cup {l}}
           /\ \/ call'[l].pc = "gate" /\ call'[l].ev = "ceiling"
              \/ call'[l].pc = "claim"
           /\ crossed' = {} =>
                /\ call'[l].before = Spent(l)
                /\ call'[l].pc = "claim" => Spent(l) < Ceiling
<1>1. call[l] \in CallRecord
  BY LaunchIsWhole
<1>2. PICK read \in BOOLEAN :
        /\ call' = [call EXCEPT ![l] =
                      [IF SpentAs(l, read) >= Ceiling THEN Post(l, "ceiling")
                       ELSE [call[l] EXCEPT !.pc = "claim"]
                       EXCEPT !.before = SpentAs(l, read)]]
        /\ \/ read /\ UNCHANGED <<troubles, crossed>>
           \/ ~read /\ Trouble /\ crossed' = crossed \cup {l}
  BY DEF CheckCeiling
<1> DEFINE k == SpentAs(l, read)
<1>3. k \in Nat /\ Ceiling \in Nat /\ (read => k = Spent(l))
  BY <1>1, SpentIsKnown, AppTurnsAssumption DEF SpentAs, CallRecord
<1>4. troubles' \in Nat /\ crossed' \in {crossed, crossed \cup {l}} /\ (crossed' = {} => read)
  BY <1>2 DEF Trouble, Typed
<1> HIDE DEF k
<1>5. CASE k >= Ceiling
  <2>1. call' = [call EXCEPT ![l] = [Post(l, "ceiling") EXCEPT !.before = k]]
    BY <1>2, <1>5 DEF k
  <2>2. [Post(l, "ceiling") EXCEPT !.before = k] \in CallRecord
    BY <1>1, <1>3 DEF Post, CallRecord, Places, Kinds
  <2> QED
    BY <1>1, <1>3, <1>4, <2>1, <2>2 DEF Post, Alone, Same, Typed, CallRecord
<1>6. CASE ~(k >= Ceiling)
  <2>1. call' = [call EXCEPT ![l] = [[call[l] EXCEPT !.pc = "claim"] EXCEPT !.before = k]]
    BY <1>2, <1>6 DEF k
  <2>2. [[call[l] EXCEPT !.pc = "claim"] EXCEPT !.before = k] \in CallRecord
    BY <1>1, <1>3 DEF CallRecord, Places
  <2> QED
    BY <1>1, <1>3, <1>4, <1>6, <2>1, <2>2 DEF Alone, Same, Typed, CallRecord
<1> QED
  BY <1>5, <1>6

LEMMA BeginEffect ==
    ASSUME Typed, NEW l \in Launches,
           call' = [call EXCEPT ![l].pc = "ticket", ![l].begun = TRUE]
    PROVE  Begins(l)
<1>1. call[l] \in CallRecord
  BY LaunchIsWhole
<1>2. call' = [call EXCEPT ![l] = [@ EXCEPT !.pc = "ticket", !.begun = TRUE]]
  BY <1>1 DEF Typed, CallRecord
<1>3. [call[l] EXCEPT !.pc = "ticket", !.begun = TRUE] \in CallRecord
  BY <1>1 DEF CallRecord, Places
<1> QED
  BY <1>1, <1>2, <1>3 DEF Begins, Alone, Typed, CallRecord

LEMMA RetryEffect ==
    ASSUME Typed, NEW l \in Launches,
           call' = [call EXCEPT ![l].pc = "gate", ![l].try = 2]
    PROVE  Steps(l, "gate") /\ call'[l].ev = call[l].ev /\ call'[l].try = 2 /\ call'[l].from = call[l].from
<1>1. call[l] \in CallRecord
  BY LaunchIsWhole
<1>2. call' = [call EXCEPT ![l] = [@ EXCEPT !.pc = "gate", !.try = 2]]
  BY <1>1 DEF Typed, CallRecord
<1>3. [call[l] EXCEPT !.pc = "gate", !.try = 2] \in CallRecord
  BY <1>1 DEF CallRecord, Places
<1> QED
  BY <1>1, <1>2, <1>3 DEF Steps, Same, Alone, Typed, CallRecord

LEMMA SentEffect ==
    ASSUME Typed, NEW l \in Launches, NEW sent \in BOOLEAN, call' = [call EXCEPT ![l].sent = sent]
    PROVE  Jumps(l, call[l].pc)
<1>1. call[l] \in CallRecord
  BY LaunchIsWhole
<1>2. [call[l] EXCEPT !.sent = sent] \in CallRecord
  BY <1>1 DEF CallRecord
<1>3. call' = [call EXCEPT ![l] = [call[l] EXCEPT !.sent = sent]]
  BY <1>1 DEF Typed, CallRecord
<1> QED
  BY <1>1, <1>2, <1>3 DEF Jumps, Steps, Same, Alone, Typed, CallRecord

LEMMA WatchEffect ==
    ASSUME Typed, NEW l \in Launches,
           call' = [call EXCEPT ![l].pc = "watch", ![l].adopted = TRUE]
    PROVE  Jumps(l, "watch")
<1>1. call[l] \in CallRecord
  BY LaunchIsWhole
<1>2. call' = [call EXCEPT ![l] = [@ EXCEPT !.pc = "watch", !.adopted = TRUE]]
  BY <1>1 DEF Typed, CallRecord
<1>3. [call[l] EXCEPT !.pc = "watch", !.adopted = TRUE] \in CallRecord
  BY <1>1 DEF CallRecord, Places
<1> QED
  BY <1>1, <1>2, <1>3 DEF Jumps, Steps, Same, Alone, Typed, CallRecord

(* A crash ends every thread; a launch that began is remembered.           *)
Ends(l) ==
    \/ At(l, "free") /\ call'[l] = call[l]
    \/ ~At(l, "free") /\ ~call[l].begun /\ call'[l] = [Idle EXCEPT !.pc = "over"]
    \/ /\ ~At(l, "free") /\ call[l].begun /\ Same(l)
       /\ call'[l].pc = "over" /\ call'[l].before = call[l].before
       /\ call'[l].closed <=> call[l].closed \/ ticket[Turn(l)] # l

LEMMA CrashEffect ==
    ASSUME Typed, Crash
    PROVE  call' \in [Launches -> CallRecord] /\ \A l \in Launches : Ends(l)
<1>1. ASSUME NEW l \in Launches PROVE call'[l] \in CallRecord /\ Ends(l)
  <2>1. call[l] \in CallRecord
    BY LaunchIsWhole
  <2>2. CASE At(l, "free")
    BY <2>1, <2>2 DEF Crash, Ends
  <2>3. CASE ~At(l, "free") /\ ~call[l].begun
    BY <2>3, IdleIsWhole DEF Crash, Ends, CallRecord, Places
  <2>4. CASE ~At(l, "free") /\ call[l].begun
    <3>1. call'[l] = [Rest(l, "over") EXCEPT !.closed = @ \/ ticket[Turn(l)] # l, !.from = Nobody]
      BY <2>4 DEF Crash
    <3>2. Rest(l, "over") \in CallRecord
      BY <2>1 DEF Rest, CallRecord, Kinds, Places
    <3>3. Nobody \in Names
      BY AppTurnsAssumption DEF Names, Nobody
    <3>4. call'[l] \in CallRecord
      BY <3>1, <3>2, <3>3 DEF CallRecord
    <3>5. Same(l) /\ call'[l].pc = "over" /\ call'[l].before = call[l].before
      BY <2>1, <3>1 DEF Rest, Same, CallRecord
    <3>6. call'[l].closed <=> call[l].closed \/ ticket[Turn(l)] # l
      BY <2>1, <3>1 DEF Rest, CallRecord
    <3> QED
      BY <2>4, <3>4, <3>5, <3>6 DEF Ends
  <2> QED
    BY <2>2, <2>3, <2>4
<1>2. call' = [l \in Launches |-> call'[l]]
  BY DEF Crash
<1> QED
  BY <1>1, <1>2
-----------------------------------------------------------------------------
(* What the steps of a launch's thread have in common *)

Acts(l) == Handoff(l) \/ Publish(l) \/ Reap(l) \/ \E n \in Turns : Sweep(l, n)

(* The launch moves, and who began stays who it was.                       *)
Moving(l) ==
    /\ ~At(l, "over") /\ ~call[l].closed /\ Alone(l) /\ call'[l].pc # "free"
    /\ call[l].begun => Same(l)
    /\ call'[l].begun => call'[l].turn = call[l].turn
    /\ call'[l].pc \in {"ticket", "spawn"} => ~call[l].begun \/ At(l, "ticket")
    /\ \A m \in Launches : m < l => ~At(m, "free")
    /\ At(l, "free") => up
    /\ UNCHANGED <<press, up, todo, result, wrote>>

LEMMA ActsMove ==
    ASSUME Typed, ShapeInv, NEW l \in Launches, Acts(l) PROVE Moving(l)
<1> USE DEF At
<1>1. CallShape(l) /\ call[l] \in CallRecord
  BY LaunchIsWhole DEF ShapeInv
<1>2. ASSUME ~At(l, "free") PROVE \A m \in Launches : m < l => ~At(m, "free")
  BY <1>2 DEF ShapeInv, CallShape
<1>3. ASSUME NEW where \in Places \ {"free", "ticket", "spawn"}, Steps(l, where), ~At(l, "free"), ~At(l, "over"),
             UNCHANGED <<press, up, todo, result, wrote>>
      PROVE  Moving(l)
  BY <1>1, <1>2, <1>3 DEF Moving, Steps, Same, CallShape
<1>4. CASE View(l)
  <2>1. Looks(l)
    BY <1>1, <1>4, ViewEffect
  <2> QED
    BY <1>1, <1>4, <2>1 DEF View, Looks, Moving, CallShape, Idle, disk, books
<1>5. CASE \E n \in Turns : Sweep(l, n)
  <2>1. Steps(l, "resolve")
    BY <1>5, SweepEffect
  <2> QED
    BY <1>3, <1>5, <2>1 DEF Sweep, Places, disk, books
<1>6. CASE CheckCeiling(l)
  <2>1. Alone(l) /\ Same(l) /\ call'[l].pc \in {"gate", "claim"}
    BY <1>6, CeilingEffect
  <2> QED
    BY <1>1, <1>2, <1>6, <2>1 DEF CheckCeiling, Moving, CallShape, Same, disk, books
<1>7. CASE Claim(l)
  <2>1. CASE Refuse(l)
    <3>1. Leaves(l)
      BY <2>1, RefuseEffect
    <3> QED
      BY <1>1, <1>2, <1>7, <3>1 DEF Claim, Leaves, Moving, CallShape, Asking, Idle, disk
  <2>2. CASE ~Refuse(l)
    <3>1. Begins(l)
      BY <1>7, <2>2, BeginEffect DEF Claim
    <3> QED
      BY <1>1, <1>2, <1>7, <3>1 DEF Claim, Begins, Moving, CallShape, Asking, disk
  <2> QED
    BY <2>1, <2>2
<1>8. CASE NoteCeiling(l)
  <2>1. Leaves(l)
    BY <1>8, RefuseEffect DEF NoteCeiling
  <2> QED
    BY <1>1, <1>2, <1>8, <2>1 DEF NoteCeiling, Leaves, Moving, CallShape, Asking, Idle, books
<1>9. CASE WriteTicket(l)
  <2>1. Steps(l, "spawn") \/ Steps(l, "undo")
    BY <1>9, GotoEffect DEF WriteTicket, Jumps, Places
  <2> QED
    BY <1>1, <1>2, <1>9, <2>1 DEF WriteTicket, Moving, Steps, CallShape, Same, disk
<1>10. CASE Resolve(l) \/ Undo(l) \/ Finish(l) \/ GiveUp(l)
  <2>1. Steps(l, "sweep") \/ Steps(l, "remove") \/ Steps(l, "mark")
    BY <1>10, GotoEffect DEF Resolve, Undo, Finish, GiveUp, Jumps, Places
  <2> QED
    BY <1>3, <1>10, <2>1 DEF Resolve, Undo, Finish, GiveUp, Places, disk, books
<1>11. CASE Spawn(l) \/ FindResult(l) \/ Synthesize(l) \/ EarlyRefusal(l)
  <2>1. Steps(l, "gate") \/ Steps(l, "undo")
    <3>1. ASSUME Spawn(l) PROVE Steps(l, "gate") \/ Steps(l, "undo")
      BY <3>1, PlainPostEffect, GotoEffect DEF Spawn, Posts, Jumps, Places, Kinds
    <3>2. ASSUME FindResult(l) PROVE Steps(l, "gate")
      <4>1. Turn(l) \in Turns
        BY <1>1, <3>2 DEF FindResult, CallShape, Asking, Posting
      <4>2. result[Turn(l)].how \in Kinds /\ result[Turn(l)].of \in Names
        BY <4>1 DEF Typed, TypedDisk, Hows, Kinds
      <4> QED
        BY <3>2, <4>2, PostEffect DEF FindResult, Posts
    <3>3. ASSUME Synthesize(l) PROVE Steps(l, "gate")
      BY <3>3, PlainPostEffect DEF Synthesize, Posts, Kinds
    <3>4. ASSUME EarlyRefusal(l) PROVE Steps(l, "undo")
      BY <3>4, RestEffect DEF EarlyRefusal, Rests, Places
    <3> QED
      BY <1>11, <3>1, <3>2, <3>3, <3>4
  <2> QED
    BY <1>3, <1>11, <2>1 DEF Spawn, FindResult, Synthesize, EarlyRefusal, Places, disk, books
<1>12. CASE RemoveTicket(l) \/ MarkTicket(l)
  <2>1. Closes(l)
    BY <1>12, CloseEffect DEF RemoveTicket, MarkTicket
  <2> QED
    BY <1>1, <1>2, <1>12, <2>1 DEF RemoveTicket, MarkTicket, Moving, Closes, CallShape, Same
<1>13. CASE Gate(l) \/ Commit(l) \/ LosePost(l)
  <2>1. \/ Steps(l, "commit") \/ Steps(l, "gate") \/ Steps(l, "watch")
        \/ Steps(l, "note") \/ Steps(l, "finish") \/ Steps(l, "giveUp")
    <3>1. ASSUME GoOn(l)
          PROVE  Steps(l, "watch") \/ Steps(l, "note") \/ Steps(l, "finish") \/ Steps(l, "giveUp")
      BY <3>1, GoOnEffect DEF Rests
    <3>2. ASSUME Goto(l, "commit") PROVE Steps(l, "commit")
      BY <3>2, GotoEffect DEF Jumps, Places
    <3> QED
      BY <1>13, <3>1, <3>2, RetryEffect DEF Gate, Commit, LosePost
  <2> QED
    BY <1>3, <1>13, <2>1 DEF Gate, Commit, LosePost, Places, disk, books
<1>14. CASE PollStop(l)
  <2>1. Steps(l, "watch") \/ Steps(l, "undo")
    BY <1>14, SentEffect, GotoEffect DEF PollStop, Jumps, Places
  <2> QED
    BY <1>3, <1>14, <2>1 DEF PollStop, Places
<1> QED
  BY <1>4, <1>5, <1>6, <1>7, <1>8, <1>9, <1>10, <1>11, <1>12, <1>13, <1>14
     DEF Acts, Handoff, Publish, Reap

(* Tickets are only written by their launch; who loses one has been let go *)
(* of or was marked, and what an adoption has not looked at stays.         *)
Tickets(l) ==
    /\ \A n \in Turns : ticket'[n] # ticket[n] =>
          /\ ticket'[n] = Nobody \/ (ticket'[n] = l /\ n = Turn(l) /\ call[l].begun)
          /\ ticket[n] \in {Nobody, l} \cup marked \cup forsaken'
          /\ up \/ n \notin todo
    /\ ticket' \in [Turns -> Names]
    /\ marked \subseteq marked' /\ marked' \subseteq marked \cup {l}
    /\ forsaken \subseteq forsaken' /\ forsaken' \subseteq Names

LEMMA DropEffect ==
    ASSUME Typed, NEW n \in Turns, NEW mine, DropTicket(n, mine)
    PROVE  /\ ticket' = [ticket EXCEPT ![n] = Nobody] /\ ticket' \in [Turns -> Names]
           /\ ticket[n] \in {Nobody, mine} \cup forsaken'
           /\ forsaken \subseteq forsaken' /\ forsaken' \subseteq Names
<1>1. Nobody \in Names
  BY AppTurnsAssumption DEF Names, Nobody
<1> QED
  BY <1>1 DEF DropTicket, Typed, TypedDisk, TypedBooks

LEMMA ActsOnTickets ==
    ASSUME Typed, ShapeInv, DiskInv, TodoInv, NEW l \in Launches, Acts(l) PROVE Tickets(l)
<1> USE DEF At
<1>1. CallShape(l) /\ call[l] \in CallRecord
  BY LaunchIsWhole DEF ShapeInv
<1>2. l \in Names /\ Nobody \in Names /\ l # Nobody
  BY AppTurnsAssumption DEF Names, Launches, Nobody
<1>3. ASSUME ~At(l, "free"), ~At(l, "over") PROVE up \/ Turn(l) \notin todo
  BY <1>3 DEF TodoInv
<1>4. ASSUME UNCHANGED <<ticket, marked>>, forsaken \subseteq forsaken', forsaken' \subseteq Names
      PROVE  Tickets(l)
  BY <1>4 DEF Tickets, Typed, TypedDisk
<1>5. CASE WriteTicket(l) \/ PollStop(l) \/ MarkTicket(l) \/ RemoveTicket(l)
  <2>1. Turn(l) \in Turns /\ call[l].begun /\ (up \/ Turn(l) \notin todo)
    BY <1>1, <1>3, <1>5 DEF CallShape, WriteTicket, PollStop, MarkTicket, RemoveTicket, Asking, Posting
  <2>2. CASE ticket' = [ticket EXCEPT ![Turn(l)] = l] /\ forsaken' = forsaken \cup ({ticket[Turn(l)]} \ {l, Nobody})
             /\ (marked' = marked \/ marked' = marked \cup {l})
    BY <1>2, <2>1, <2>2 DEF Tickets, Typed, TypedDisk, TypedBooks
  <2>3. CASE DropTicket(Turn(l), l) /\ marked' = marked
    BY <1>2, <2>1, <2>3, DropEffect DEF Tickets, Typed, TypedDisk
  <2>4. CASE UNCHANGED <<ticket, marked>> /\ (forsaken' = forsaken \/ forsaken' = forsaken \cup {l})
    BY <1>2, <1>4, <2>4 DEF Typed, TypedBooks
  <2>5. WriteTicket(l) /\ ticket' # ticket => ticket' = [ticket EXCEPT ![Turn(l)] = l]
                       /\ forsaken' = forsaken \cup ({ticket[Turn(l)]} \ {Nobody}) /\ marked' = marked
    BY DEF WriteTicket
  <2>6. CASE ticket' = [ticket EXCEPT ![Turn(l)] = l]
             /\ forsaken' = forsaken \cup ({ticket[Turn(l)]} \ {Nobody}) /\ marked' = marked
    BY <1>2, <2>1, <2>6 DEF Tickets, Typed, TypedDisk, TypedBooks
  <2>7. CASE WriteTicket(l)
    BY <2>4, <2>6, <2>7 DEF WriteTicket
  <2>8. CASE PollStop(l)
    BY <2>2, <2>4, <2>8 DEF PollStop
  <2>9. CASE MarkTicket(l)
    BY <2>2, <2>3, <2>9 DEF MarkTicket
  <2>10. CASE RemoveTicket(l)
    BY <2>3, <2>10 DEF RemoveTicket
  <2> QED
    BY <1>5, <2>7, <2>8, <2>9, <2>10
<1>6. CASE Resolve(l)
  <2>1. PICK o \in Launches : o = call[l].from /\ o \in marked
    BY <1>1, <1>6 DEF Resolve, CallShape, DiskInv
  <2>2. CallShape(o) /\ call[o].closed
    BY <2>1 DEF ShapeInv, DiskInv
  <2>3. Turn(o) \in Turns /\ up
    BY <1>1, <1>6, <2>2 DEF CallShape, Resolve, Asking
  <2>4. DropTicket(Turn(o), o) /\ marked' = marked
    BY <1>6, <2>1 DEF Resolve
  <2> QED
    BY <2>1, <2>3, <2>4, <1>2, DropEffect DEF Tickets, Typed, TypedDisk
<1>7. CASE View(l) \/ (\E n \in Turns : Sweep(l, n)) \/ CheckCeiling(l) \/ NoteCeiling(l) \/ Spawn(l) \/ EarlyRefusal(l) \/ Undo(l)
  BY <1>4, <1>7 DEF View, Sweep, CheckCeiling, NoteCeiling, Spawn, EarlyRefusal, Undo, disk, books, Typed, TypedBooks
<1>8. CASE Claim(l) \/ Gate(l) \/ Commit(l) \/ LosePost(l) \/ Finish(l) \/ GiveUp(l)
  BY <1>4, <1>8 DEF Claim, Gate, Commit, LosePost, Finish, GiveUp, disk, books, Typed, TypedBooks
<1>9. CASE FindResult(l) \/ Synthesize(l)
  <2>1. forsaken' = forsaken \/ forsaken' = forsaken \cup {l}
    BY <1>9 DEF FindResult, Synthesize
  <2> QED
    BY <1>2, <1>4, <1>9, <2>1 DEF FindResult, Synthesize, disk, Typed, TypedBooks
<1> QED
  BY <1>5, <1>6, <1>7, <1>8, <1>9 DEF Acts, Handoff, Publish, Reap
(* Of a line in the ledger.                                                *)
LEMMA LedgerEffect ==
    ASSUME Typed, NEW tokens \in Nat, NEW of \in SUBSET Names, WriteLedger(tokens, of)
    PROVE  /\ ledger' \in Nat /\ logged' \subseteq Names /\ logged \subseteq logged' /\ troubles' \in Nat
           /\ \/ UNCHANGED <<ledger, logged>>
              \/ ledger' = Larger(ledger, tokens) /\ logged' = logged \cup of
  BY DEF WriteLedger, Trouble, Larger, Typed, TypedDisk, TypedBooks

Lands(l) == \E said \in BOOLEAN : Land(l, said)

(* The session's row moves when a post lands, and never past the launches  *)
(* that have begun.                                                        *)
LEMMA LandEffect ==
    ASSUME Typed, ShapeInv, NEW l \in Launches, Posting(l), Lands(l)
    PROVE  /\ row' \in RowRecord
           /\ \A m \in Launches : At(m, "free") => row'.turns < m
           /\ announced' \subseteq Launches /\ heard' \subseteq Launches /\ unheard' \subseteq Launches
           /\ unsaid' \subseteq Launches
<1> DEFINE ev == call[l].ev
           n == Turn(l)
<1>1. CallShape(l) /\ call[l] \in CallRecord
  BY LaunchIsWhole DEF ShapeInv
<1>2. n \in Turns /\ n \in Names /\ n <= l /\ 0 \in Names
  BY <1>1, AppTurnsAssumption DEF CallShape, Posting, Asking, At, Turns, Names, Turn
<1>3. /\ row.ended \in BOOLEAN /\ row.stop \in BOOLEAN /\ row.turns \in Names
      /\ row.tokens \in Nat /\ row.running \in Names /\ row.charged \in SUBSET Turns
  BY DEF Typed, RowRecord
<1>4. Charge(ev, n) \in Nat /\ Larger(row.turns, n) \in Names /\ RunningAfter(ev, n) \in Names
  BY <1>2, <1>3 DEF Charge, Larger, RunningAfter, Names
<1>5. /\ row'.ended \in BOOLEAN /\ row'.stop \in BOOLEAN /\ row'.turns \in Names
      /\ row'.tokens \in Nat /\ row'.running \in Names /\ row'.charged \in SUBSET Turns
  BY <1>2, <1>3, <1>4 DEF Lands, Land
<1>6. row' \in RowRecord
  BY <1>5 DEF Lands, Land, RowRecord
<1>7. ASSUME NEW m \in Launches, At(m, "free") PROVE row'.turns < m
  <2>1. CallShape(m) /\ ~At(l, "free")
    BY DEF ShapeInv, Posting, At
  <2>2. row.turns < m /\ ~(m < l) /\ m # l
    BY <1>7, <2>1 DEF CallShape
  <2>3. row'.turns = row.turns \/ row'.turns = Larger(row.turns, n)
    BY DEF Lands, Land
  <2> QED
    BY <1>2, <1>3, <2>2, <2>3, AppTurnsAssumption DEF Larger, Names, Launches
<1>8. Running \subseteq Launches
  BY DEF Running
<1> QED
  BY <1>6, <1>7, <1>8 DEF Lands, Land, Typed, TypedBooks

(* What else a thread's step changes.                                      *)
Rows(l) ==
    /\ row' \in RowRecord /\ active' \in Names /\ ledger' \in Nat /\ troubles' \in Nat
    /\ unit' \in [Turns -> Names]
    /\ logged' \subseteq Names /\ crossed' \subseteq Names /\ crossed \subseteq crossed' /\ logged \subseteq logged'
    /\ announced' \subseteq Launches /\ heard' \subseteq Launches /\ unheard' \subseteq Launches
    /\ unsaid' \subseteq Launches
    /\ \A m \in Launches \ {l} : At(m, "free") => row'.turns < m
    /\ \/ UNCHANGED <<row, announced, heard, unsaid>>
       \/ At(l, "commit") /\ Lands(l)
    /\ unit' = unit \/ (At(l, "spawn") /\ unit[Turn(l)] = Nobody /\ unit' = [unit EXCEPT ![Turn(l)] = l])

LEMMA ActsOnRows ==
    ASSUME Typed, ShapeInv, DiskInv, NEW l \in Launches, Acts(l) PROVE Rows(l)
<1> USE DEF At
<1>1. CallShape(l) /\ call[l] \in CallRecord
  BY LaunchIsWhole DEF ShapeInv
<1>2. l \in Names /\ Nobody \in Names /\ l # Nobody
  BY AppTurnsAssumption DEF Names, Launches, Nobody
<1>3. \A m \in Launches : At(m, "free") => row.turns < m
  BY DEF ShapeInv, CallShape
<1>4. \A k \in Nat, x \in {0, 1} : Larger(ledger, k + x) \in Nat /\ Larger(ledger, k) \in Nat
  BY DEF Larger, Typed, TypedDisk
<1>5. ASSUME UNCHANGED <<row, unit, announced, heard, unsaid>>, active' \in Names, ledger' \in Nat, troubles' \in Nat,
             logged' \subseteq Names, crossed' \subseteq Names, unheard' \subseteq Launches,
             crossed \subseteq crossed', logged \subseteq logged'
      PROVE  Rows(l)
  BY <1>3, <1>5 DEF Rows, Typed, TypedDisk, TypedBooks
<1>6. CASE WriteTicket(l) \/ PollStop(l) \/ MarkTicket(l) \/ RemoveTicket(l) \/ Synthesize(l) \/ Gate(l)
  BY <1>5, <1>6 DEF WriteTicket, PollStop, MarkTicket, RemoveTicket, Synthesize, Gate, disk, books, Typed, TypedDisk, TypedBooks
<1>7. CASE Resolve(l)
  <2>1. /\ crossed' = crossed \/ crossed' = crossed \cup {call[l].from}
        /\ troubles' \in Nat
        /\ \/ UNCHANGED <<ledger, logged>>
           \/ /\ ledger' = Larger(ledger, call[call[l].from].before + 1)
              /\ logged' = logged \cup {result[Turn(call[l].from)].of}
    BY <1>7 DEF Resolve, LogLate, WriteLedger, Trouble, Typed
  <2>2. PICK o \in Launches : o = call[l].from /\ o \in marked
    BY <1>1, <1>7 DEF Resolve, CallShape, DiskInv
  <2>3. CallShape(o) /\ call[o].closed /\ call[o] \in CallRecord
    BY <2>2, LaunchIsWhole DEF ShapeInv, DiskInv
  <2>4. result[Turn(o)].of \in Names /\ o \in Names
    BY <2>3, AppTurnsAssumption DEF CallShape, Typed, TypedDisk, Names, Launches
  <2>5. call[o].before \in Nat /\ ledger \in Nat
    BY <2>3 DEF CallRecord, Typed, TypedDisk
  <2>6. ledger' \in Nat /\ logged' \subseteq Names /\ crossed' \subseteq Names /\ crossed \subseteq crossed' /\ logged \subseteq logged'
    BY <1>4, <2>1, <2>2, <2>4, <2>5 DEF Typed, TypedBooks
  <2> QED
    BY <1>5, <1>7, <2>1, <2>6 DEF Resolve, Typed, TypedDisk, TypedBooks
<1>8. CASE View(l) \/ (\E n \in Turns : Sweep(l, n)) \/ EarlyRefusal(l)
  BY <1>5, <1>8 DEF View, Sweep, EarlyRefusal, disk, books, Typed, TypedDisk, TypedBooks
<1>15. CASE CheckCeiling(l)
  <2>1. troubles' \in Nat /\ crossed' \subseteq Names /\ crossed \subseteq crossed'
    BY <1>2, <1>15, CeilingEffect DEF Typed, TypedBooks
  <2> QED
    BY <1>5, <1>15, <2>1 DEF CheckCeiling, disk, Typed, TypedDisk, TypedBooks
<1>9. CASE NoteCeiling(l) \/ Finish(l) \/ GiveUp(l)
  <2>1. call[l].before \in Nat /\ call[l].from \in Names
    BY <1>1 DEF CallRecord
  <2>2. /\ ledger' \in Nat /\ logged' \subseteq Names /\ logged \subseteq logged'
        /\ troubles' \in Nat
    <3>1. {} \in SUBSET Names /\ {call[l].from} \in SUBSET Names /\ call[l].before + 1 \in Nat
      BY <2>1
    <3> QED
      BY <1>9, <2>1, <3>1, LedgerEffect DEF NoteCeiling, Finish, GiveUp
  <2> QED
    BY <1>2, <1>5, <1>9, <2>2 DEF NoteCeiling, Finish, GiveUp, Release, Typed, TypedDisk, TypedBooks
<1>10. CASE Claim(l) \/ Undo(l)
  BY <1>2, <1>5, <1>10 DEF Claim, Undo, Release, disk, books, Typed, TypedDisk, TypedBooks
<1>11. CASE FindResult(l)
  BY <1>2, <1>5, <1>11 DEF FindResult, disk, Typed, TypedDisk, TypedBooks
<1>12. CASE Spawn(l)
  <2>1. unit' = unit \/ (unit[Turn(l)] = Nobody /\ unit' = [unit EXCEPT ![Turn(l)] = l])
    BY <1>12 DEF Spawn
  <2>2. unit' \in [Turns -> Names]
    BY <1>2, <2>1 DEF Typed, TypedDisk
  <2> QED
    BY <1>3, <1>12, <2>1, <2>2 DEF Spawn, Rows, disk, books, Typed, TypedDisk, TypedBooks
<1>13. CASE Commit(l)
  <2>1. Lands(l)
    BY <1>13 DEF Commit, Lands
  <2>2. troubles' \in Nat /\ UNCHANGED <<active, unit, ledger, logged, crossed>>
    <3>1. UNCHANGED troubles \/ Trouble
      BY <1>13 DEF Commit
    <3>2. troubles' \in Nat
      BY <3>1 DEF Trouble, Typed
    <3> QED
      BY <1>13, <3>2 DEF Commit, disk
  <2> QED
    BY <1>13, <2>1, <2>2, LandEffect DEF Commit, Rows, Posting, Typed, TypedDisk, TypedBooks
<1>14. CASE LosePost(l)
  <2>1. troubles' \in Nat /\ UNCHANGED <<active, unit, ledger, logged, crossed>>
    BY <1>14 DEF LosePost, Trouble, disk, Typed
  <2>2. CASE At(l, "gate") /\ unheard' \subseteq Launches /\ UNCHANGED <<row, announced, heard, unsaid>>
    BY <1>5, <2>1, <2>2 DEF Typed, TypedDisk, TypedBooks
  <2>3. CASE At(l, "commit") /\ Lands(l)
    BY <2>1, <2>3, LandEffect DEF Rows, Posting, Typed, TypedDisk, TypedBooks
  <2>4. (unheard' = unheard \cup ({l} \ heard) \/ unheard' = unheard) => unheard' \subseteq Launches
    BY DEF Typed, TypedBooks
  <2> QED
    BY <1>14, <2>2, <2>3, <2>4 DEF LosePost, Lands
<1> QED
  BY <1>6, <1>7, <1>8, <1>9, <1>10, <1>11, <1>12, <1>13, <1>14, <1>15 DEF Acts, Handoff, Publish, Reap
-----------------------------------------------------------------------------
(* Steps that move no launch, restarts and types *)

World ==
    /\ UNCHANGED <<call, active, todo, ticket, marked, ledger, logged, announced, heard, unheard,
                   forsaken, crossed, unsaid>>
    /\ row' \in RowRecord /\ row'.turns = row.turns /\ row'.running = row.running
    /\ row'.tokens = row.tokens /\ row'.charged = row.charged
    /\ (row.ended => row.stop) /\ row.running # 0 => (row'.ended => row'.stop)
    /\ press' \in {"none", "first", "again"} /\ troubles' \in Nat /\ up' \in BOOLEAN
    /\ unit' \in [Turns -> Names] /\ result' \in [Turns -> [of : Names, how : Hows]]
    /\ wrote' \subseteq Names /\ wrote \subseteq wrote'
    /\ up' = up \/ (~up /\ up' /\ todo = {})
    /\ unit' = unit \/ \E n \in Turns : unit' = [unit EXCEPT ![n] = Nobody]
    /\ wrote' = wrote \/ \E n \in Turns : unit[n] # Nobody /\ wrote' = wrote \cup {unit[n]}
    /\ \A n \in Turns :
          \/ result'[n] = NoResult
          \/ result'[n] = result[n]
          \/ unit[n] # Nobody /\ result'[n].of = unit[n] /\ result'[n].how # "none" /\ unit[n] \in wrote'

LEMMA UnitsAndOwners ==
    ASSUME Typed, (\E n \in Turns : Unit(n)) \/ ReadStop \/ RequestStop \/ EndSession \/ Serve
    PROVE  World
<1>1. Nobody \in Names /\ NoResult \in [of : Names, how : Hows]
  BY AppTurnsAssumption DEF Names, Nobody, NoResult, Hows
<1>2. ASSUME NEW n \in Turns, Unit(n) PROVE World
  <2>1. unit[n] \in Names
    BY DEF Typed, TypedDisk
  <2>2. CASE UnitStarts(n)
    <3>1. result' = [result EXCEPT ![n] = NoResult]
      BY <2>2 DEF UnitStarts
    <3>2. result' \in [Turns -> [of : Names, how : Hows]]
      BY <1>1, <3>1 DEF Typed, TypedDisk
    <3>3. \A m \in Turns : result'[m] = NoResult \/ result'[m] = result[m]
      BY <3>1 DEF Typed, TypedDisk
    <3> QED
      BY <2>2, <3>2, <3>3 DEF UnitStarts, World, books, Typed, TypedDisk, TypedBooks
  <2>3. CASE UnitWrites(n)
    <3>1. PICK how \in Hows \ {"none"} : result' = [result EXCEPT ![n] = [of |-> unit[n], how |-> how]]
      BY <2>3 DEF UnitWrites, Hows
    <3>2. [of |-> unit[n], how |-> how] \in [of : Names, how : Hows]
      BY <2>1
    <3>3. result' \in [Turns -> [of : Names, how : Hows]]
      BY <3>1, <3>2 DEF Typed, TypedDisk
    <3>4. wrote' = wrote \cup {unit[n]} /\ unit[n] # Nobody
      BY <2>3 DEF UnitWrites
    <3>5. \A m \in Turns :
             \/ result'[m] = result[m]
             \/ unit[m] # Nobody /\ result'[m].of = unit[m] /\ result'[m].how # "none" /\ unit[m] \in wrote'
      BY <3>1, <3>4 DEF Typed, TypedDisk
    <3> QED
      BY <2>1, <2>3, <3>3, <3>4, <3>5 DEF UnitWrites, World, Typed, TypedDisk, TypedBooks
  <2>4. CASE UnitEnds(n)
    <3>1. unit' \in [Turns -> Names] /\ unit' = [unit EXCEPT ![n] = Nobody]
      BY <1>1, <2>4 DEF UnitEnds, Typed, TypedDisk
    <3> QED
      BY <2>4, <3>1 DEF UnitEnds, World, disk, books, Typed, TypedDisk, TypedBooks
  <2> QED
    BY <1>2, <2>2, <2>3, <2>4 DEF Unit
<1>3. CASE ReadStop \/ RequestStop \/ EndSession
  <2>1. /\ row' \in RowRecord /\ row'.turns = row.turns /\ row'.running = row.running
        /\ row'.tokens = row.tokens /\ row'.charged = row.charged
        /\ (row.ended => row.stop) /\ row.running # 0 => (row'.ended => row'.stop)
    BY <1>3 DEF ReadStop, RequestStop, EndSession, Typed, RowRecord
  <2>2. /\ press' \in {"none", "first", "again"} /\ troubles' \in Nat
        /\ UNCHANGED <<call, active, up, todo, disk, unit, books>>
    BY <1>3 DEF ReadStop, RequestStop, EndSession, Typed
  <2> QED
    BY <2>1, <2>2 DEF World, disk, books, Typed, TypedDisk, TypedBooks
<1>4. CASE Serve
  BY <1>4 DEF Serve, World, disk, books, Typed, TypedDisk, TypedBooks
<1> QED
  BY <1>2, <1>3, <1>4

(* What an adoption finds: the launch of the ticket, without a thread.     *)
LEMMA AdoptFinds ==
    ASSUME Typed, ShapeInv, DiskInv, TodoInv, NEW n \in Turns, Adopt(n)
    PROVE  /\ ticket[n] \in Launches /\ ticket[n] \in Names /\ ticket[n] # Nobody
           /\ Turn(ticket[n]) = n /\ call[ticket[n]].begun /\ At(ticket[n], "over")
           /\ ticket[n] \notin marked => ~call[ticket[n]].closed
<1>1. ticket[n] # Nobody /\ At(ticket[n], "over")
  BY DEF Adopt, TodoInv
<1>2. ticket[n] \in Launches /\ Turn(ticket[n]) = n /\ call[ticket[n]].begun
  BY <1>1 DEF DiskInv, Begun
<1>3. CallShape(ticket[n])
  BY <1>2 DEF ShapeInv
<1> QED
  BY <1>1, <1>2, <1>3, AppTurnsAssumption DEF CallShape, Launches, Names

LEMMA AdoptTypes ==
    ASSUME Typed, ShapeInv, DiskInv, TodoInv, NEW n \in Turns, Adopt(n)
    PROVE  Typed'
<1>1. PICK l \in Launches :
         l = ticket[n] /\ l \in Names /\ Turn(l) = n /\ call[l] \in CallRecord
  BY AdoptFinds, LaunchIsWhole
<1>2. call' \in [Launches -> CallRecord]
  <2>1. call' = call \/ call' = [call EXCEPT ![l].pc = "watch", ![l].adopted = TRUE]
    BY <1>1 DEF Adopt
  <2> QED
    BY <2>1, WatchEffect DEF Jumps, Steps, Alone, Typed
<1>3. ledger' \in Nat /\ logged' \subseteq Names /\ crossed' \subseteq Names /\ troubles' \in Nat
  <2>1. result[n].of \in Names /\ call[l].before \in Nat /\ ledger \in Nat
    BY <1>1 DEF Typed, TypedDisk, CallRecord
  <2>2. CASE LogLate(l)
    BY <1>1, <2>1, <2>2, AppTurnsAssumption
       DEF LogLate, WriteLedger, Trouble, Larger, Typed, TypedDisk, TypedBooks
  <2> QED
    BY <1>1, <2>2 DEF Adopt, Typed, TypedDisk, TypedBooks
<1>4. ticket' \in [Turns -> Names] /\ forsaken' \subseteq Names
  BY <1>1, DropEffect DEF Adopt, Typed, TypedDisk, TypedBooks
<1>5. active' \in Names /\ todo' \subseteq Turns
  BY <1>1 DEF Adopt, Typed
<1> QED
  BY <1>2, <1>3, <1>4, <1>5 DEF Adopt, Typed, TypedDisk, TypedBooks

LEMMA TypeStep ==
    ASSUME Typed, ShapeInv, DiskInv, TodoInv, [Next]_vars PROVE Typed'
<1>1. ASSUME NEW l \in Launches, Acts(l) PROVE Typed'
  <2>1. Moving(l) /\ Tickets(l) /\ Rows(l)
    BY <1>1, ActsMove, ActsOnTickets, ActsOnRows
  <2>2. marked' \subseteq Launches /\ call' \in [Launches -> CallRecord]
    BY <2>1 DEF Moving, Alone, Tickets, Typed, TypedDisk
  <2> QED
    BY <2>1, <2>2 DEF Moving, Tickets, Rows, Typed, TypedDisk, TypedBooks
<1>2. CASE (\E n \in Turns : Unit(n)) \/ ReadStop \/ RequestStop \/ EndSession \/ Serve
  BY <1>2, UnitsAndOwners DEF World, Typed, TypedDisk, TypedBooks
<1>3. CASE Crash
  <2>1. call' \in [Launches -> CallRecord]
    BY <1>3, CrashEffect
  <2>2. /\ troubles' = troubles + 1 /\ up' = FALSE /\ active' = Nobody
        /\ todo' = {n \in Turns : ticket[n] # Nobody}
        /\ UNCHANGED <<row, press, disk, unit, books>>
    BY <1>3 DEF Crash
  <2>3. todo' \subseteq Turns
    BY <2>2
  <2>4. up' \in BOOLEAN /\ active' \in Names
    <3>1. Nobody \in Names
      BY AppTurnsAssumption DEF Names, Nobody
    <3> QED
      BY <2>2, <3>1
  <2>5. troubles' \in Nat
    BY <2>2 DEF Typed
  <2> QED
    BY <2>1, <2>2, <2>3, <2>4, <2>5 DEF disk, books, Typed, TypedDisk, TypedBooks
<1>4. CASE UNCHANGED vars
  BY <1>4 DEF vars, disk, books, Typed, TypedDisk, TypedBooks
<1> QED
  BY <1>1, <1>2, <1>3, <1>4, AdoptTypes DEF Next, Acts, Restart
-----------------------------------------------------------------------------
(* The shape of the records *)

LEMMA OthersKeepShape ==
    ASSUME Typed, ShapeInv, NEW l \in Launches, Moving(l), Tickets(l), Rows(l), NEW o \in Launches \ {l}
    PROVE  CallShape(o)'
<1>1. CallShape(o) /\ call'[o] = call[o] /\ up' = up
  BY DEF ShapeInv, Moving, Alone
<1>2. ASSUME At(o, "free")
      PROVE  row'.turns < o /\ \A m \in Launches : o < m => At(m, "free")'
  <2>1. ~(o < l)
    BY <1>2 DEF Moving, At
  <2>2. ASSUME NEW m \in Launches, o < m PROVE At(m, "free")'
    <3>1. m # l /\ At(m, "free")
      BY <1>1, <1>2, <2>1, <2>2 DEF CallShape
    <3> QED
      BY <3>1 DEF Moving, Alone, At
  <2> QED
    BY <1>2, <2>2 DEF Rows
<1>3. ASSUME call[o].closed, ticket'[Turn(o)] = o PROVE o \in marked'
  <2>1. Turn(o) \in Turns /\ o # Nobody
    BY <1>1, <1>3, AppTurnsAssumption DEF CallShape, Launches, Nobody
  <2>2. ticket[Turn(o)] = o
    BY <1>3, <2>1 DEF Tickets
  <2> QED
    BY <1>1, <1>3, <2>2 DEF CallShape, Tickets
<1>4. call[o].from \in marked => call[o].from \in marked'
  BY DEF Tickets
<1> QED
  BY <1>1, <1>2, <1>3, <1>4 DEF CallShape, At, Asking, Posting, Starting, Turn

(* A launch that goes on within what it asked for, or within what it has.  *)
LEMMA StepsKeepShape ==
    ASSUME Typed, NEW l \in Launches, CallShape(l), Tickets(l),
           up' = up, call'[l].turn = call[l].turn, call'[l].closed = call[l].closed, ~call[l].closed,
           ~At(l, "free"), ~At(l, "over"),
           \/ /\ Asking(l) /\ Asking(l)' /\ ~call'[l].begun
              /\ call'[l].pc = "resolve" => call'[l].from \in marked
           \/ /\ call'[l].begun /\ ~Asking(l)'
              /\ call'[l].pc \in Places \ {"free", "resolve"}
              /\ Starting(l)' => Starting(l) \/ Asking(l),
           Posting(l)' => call'[l].ev # "none"
    PROVE  CallShape(l)'
<1>1. call'[l].pc \notin {"free"}
  BY DEF Asking, Posting
<1>2. Turn(l) \in Turns /\ call[l].turn <= l
  BY DEF CallShape
<1>3. marked \subseteq marked'
  BY DEF Tickets
<1>4. Asking(l)' \/ Starting(l)' => up'
  BY DEF CallShape
<1> QED
  BY <1>1, <1>2, <1>3, <1>4 DEF CallShape, At, Turn

LEMMA ActsKeepShape ==
    ASSUME Typed, ShapeInv, DiskInv, NEW l \in Launches, Acts(l), Moving(l), Tickets(l)
    PROVE  CallShape(l)'
<1> USE DEF At
<1>1. CallShape(l) /\ call[l] \in CallRecord
  BY LaunchIsWhole DEF ShapeInv
<1>2. up' = up /\ l # Nobody /\ 0 < l
  BY AppTurnsAssumption DEF Moving, Launches, Nobody
<1>3. CASE View(l)
  <2>1. Looks(l)
    BY <1>1, <1>3, ViewEffect
  <2>2. row.turns < l /\ row.turns \in Names /\ ~row'.ended
    BY <1>1, <1>3 DEF View, CallShape, Typed, RowRecord
  <2>3. row.turns + 1 <= l /\ row.turns + 1 \in Turns
    BY <2>2, AppTurnsAssumption DEF Names, Turns, Launches
  <2> QED
    BY <1>3, <2>1, <2>3 DEF View, Looks, CallShape, Asking, Posting, Starting, Turn
<1>4. CASE \E n \in Turns : Sweep(l, n)
  <2>1. PICK n \in Turns : Sweep(l, n)
    BY <1>4
  <2>2. Steps(l, "resolve") /\ call'[l].from = ticket[n]
    BY <2>1, SweepEffect
  <2> QED
    BY <1>1, <1>2, <2>1, <2>2, StepsKeepShape DEF Sweep, Moving, Steps, Same, Asking, Posting, CallShape
<1>5. CASE CheckCeiling(l)
  <2>1. /\ Alone(l) /\ Same(l) /\ call'[l].closed = call[l].closed
        /\ (call'[l].pc = "gate" /\ call'[l].ev = "ceiling") \/ call'[l].pc = "claim"
    BY <1>5, CeilingEffect
  <2> QED
    BY <1>1, <1>2, <1>5, <2>1, StepsKeepShape DEF CheckCeiling, Moving, Same, Asking, Posting, CallShape
<1>6. ASSUME Leaves(l) PROVE CallShape(l)'
  <2>1. 0 <= l
    BY AppTurnsAssumption DEF Launches
  <2> QED
    BY <1>6, <2>1 DEF Leaves, Idle, CallShape, Asking, Posting, Starting, Turn
<1>7. CASE Claim(l)
  <2>1. CASE Refuse(l)
    BY <1>6, <2>1, RefuseEffect
  <2>2. CASE ~Refuse(l)
    <3>1. Begins(l)
      BY <1>7, <2>2, BeginEffect DEF Claim
    <3> QED
      BY <1>1, <1>2, <1>7, <3>1, StepsKeepShape DEF Claim, Begins, Moving, Asking, Starting, Posting, CallShape, Places
  <2> QED
    BY <2>1, <2>2
<1>8. CASE NoteCeiling(l)
  BY <1>6, <1>8, RefuseEffect DEF NoteCeiling
<1>9. CASE Resolve(l)
  <2>1. Steps(l, "sweep")
    BY <1>9, GotoEffect DEF Resolve, Jumps, Places
  <2> QED
    BY <1>1, <1>2, <1>9, <2>1, StepsKeepShape DEF Resolve, Moving, Steps, Same, Asking, Posting, CallShape
<1>10. ASSUME NEW where \in Places \ {"free", "resolve", "sweep", "claim", "note"}, Steps(l, where), call[l].begun,
              ~At(l, "free"), ~At(l, "over"),
              where \in {"gate", "commit"} => call'[l].ev \notin {"none", "ceiling"},
              \/ where \notin {"ticket", "spawn", "gate", "commit"}
              \/ Starting(l)
              \/ where \in {"gate", "commit"} /\ call'[l].ev # "scoped"
       PROVE  CallShape(l)'
  BY <1>1, <1>2, <1>10, StepsKeepShape DEF Moving, Steps, Same, Asking, Starting, Posting
<1>11. CASE WriteTicket(l)
  <2>1. Steps(l, "spawn") \/ Steps(l, "undo")
    BY <1>11, GotoEffect DEF WriteTicket, Jumps, Places
  <2> QED
    BY <1>1, <1>10, <1>11, <2>1 DEF WriteTicket, CallShape, Asking, Posting, Starting, Places
<1>12. CASE Undo(l) \/ Finish(l) \/ GiveUp(l)
  <2>1. Steps(l, "remove") \/ Steps(l, "mark")
    BY <1>12, GotoEffect DEF Undo, Finish, GiveUp, Jumps, Places
  <2> QED
    BY <1>1, <1>10, <1>12, <2>1 DEF Undo, Finish, GiveUp, CallShape, Asking, Posting, Places
<1>13. CASE Spawn(l)
  <2>1. (Posts(l, "scoped") \/ Steps(l, "undo"))
    BY <1>13, PlainPostEffect, GotoEffect DEF Spawn, Jumps, Places, Kinds
  <2> QED
    BY <1>1, <1>10, <1>13, <2>1 DEF Spawn, Posts, CallShape, Asking, Posting, Starting, Places
<1>14. CASE EarlyRefusal(l)
  <2>1. Steps(l, "undo")
    BY <1>14, RestEffect DEF EarlyRefusal, Rests, Places
  <2> QED
    BY <1>1, <1>10, <1>14, <2>1 DEF EarlyRefusal, CallShape, Asking, Posting, Places
<1>15. CASE FindResult(l)
  <2>1. Turn(l) \in Turns
    BY <1>1, <1>15 DEF FindResult, CallShape, Asking, Posting
  <2>2. result[Turn(l)].how \in Kinds \ {"none", "scoped", "ceiling"} /\ result[Turn(l)].of \in Names
    BY <1>15, <2>1 DEF FindResult, DiskInv, Typed, TypedDisk, Hows, Kinds
  <2>3. Posts(l, result[Turn(l)].how)
    BY <1>15, <2>2, PostEffect DEF FindResult
  <2> QED
    BY <1>1, <1>10, <1>15, <2>2, <2>3 DEF FindResult, Posts, CallShape, Asking, Posting, Places
<1>16. CASE Synthesize(l)
  <2>1. Posts(l, "gaveUp") \/ Posts(l, "gaveUpScoped")
    BY <1>16, PlainPostEffect DEF Synthesize, Kinds
  <2> QED
    BY <1>1, <1>10, <1>16, <2>1 DEF Synthesize, Posts, CallShape, Asking, Posting, Places
<1>17. CASE PollStop(l)
  <2>1. Steps(l, "watch") \/ Steps(l, "undo")
    BY <1>17, SentEffect, GotoEffect DEF PollStop, Jumps, Places
  <2> QED
    BY <1>1, <1>10, <1>17, <2>1 DEF PollStop, CallShape, Asking, Posting, Places
<1>18. CASE RemoveTicket(l) \/ MarkTicket(l)
  <2>1. Closes(l)
    BY <1>18, CloseEffect DEF RemoveTicket, MarkTicket
  <2>2. Turn(l) \in Turns /\ call[l].begun /\ call[l].turn <= l
    BY <1>1, <1>18 DEF CallShape, RemoveTicket, MarkTicket, Asking, Posting
  <2>3. ticket'[Turn(l)] = Nobody \/ l \in marked'
    BY <1>18, <2>2 DEF RemoveTicket, MarkTicket, DropTicket, Typed, TypedDisk
  <2> QED
    BY <1>2, <2>1, <2>2, <2>3 DEF Closes, Same, CallShape, Asking, Posting, Starting, Turn
<1>19. CASE Gate(l) \/ Commit(l) \/ LosePost(l)
  <2>1. Posting(l) /\ call[l].ev # "none" /\ Turn(l) \in Turns /\ call[l].turn <= l
    BY <1>1, <1>19 DEF Gate, Commit, LosePost, Posting, CallShape, Asking
  <2>2. CASE /\ Steps(l, "commit") \/ Steps(l, "gate")
             /\ call'[l].ev = call[l].ev
    BY <1>1, <1>2, <2>1, <2>2, StepsKeepShape
       DEF Moving, Steps, Same, Asking, Starting, Posting, CallShape, Places
  <2>3. CASE Rests(l, AfterPost(call[l].ev))
    <3>1. CASE call[l].ev = "ceiling"
      <4>1. AfterPost(call[l].ev) = "note"
        BY <3>1 DEF AfterPost, Metered
      <4>2. call'[l].pc = "note" /\ Same(l) /\ call'[l].closed = call[l].closed
        BY <2>3, <4>1 DEF Rests, Steps
      <4>3. Asking(l) /\ Asking(l)' /\ ~call'[l].begun /\ ~Posting(l)'
        BY <1>1, <2>1, <3>1, <4>2 DEF CallShape, Asking, Posting, Same
      <4> QED
        BY <1>1, <1>2, <2>1, <4>2, <4>3, StepsKeepShape DEF Moving, Same, Posting
    <3>2. CASE call[l].ev # "ceiling"
      <4>1. AfterPost(call[l].ev) \in {"watch", "finish", "giveUp"} /\ call[l].begun
        BY <1>1, <2>1, <3>2 DEF AfterPost, CallShape, Asking, Posting
      <4> QED
        BY <1>10, <2>1, <2>3, <4>1 DEF Rests, Posting, Places
    <3> QED
      BY <3>1, <3>2
  <2>4. GoOn(l) \/ Goto(l, "commit") \/ call' = [call EXCEPT ![l].pc = "gate", ![l].try = 2]
    BY <1>19 DEF Gate, Commit, LosePost
  <2> QED
    BY <2>2, <2>3, <2>4, GoOnEffect, GotoEffect, RetryEffect DEF Jumps, Places
<1> QED
  BY <1>3, <1>4, <1>5, <1>7, <1>8, <1>9, <1>11, <1>12, <1>13, <1>14, <1>15, <1>16, <1>17, <1>18, <1>19
     DEF Acts, Handoff, Publish, Reap

LEMMA ShapeStep ==
    ASSUME Typed, ShapeInv, DiskInv, TodoInv, [Next]_vars PROVE ShapeInv'
<1>1. ASSUME NEW l \in Launches, Acts(l) PROVE ShapeInv'
  <2>1. Moving(l) /\ Tickets(l) /\ Rows(l)
    BY <1>1, ActsMove, ActsOnTickets, ActsOnRows
  <2>2. CallShape(l)'
    BY <1>1, <2>1, ActsKeepShape
  <2> QED
    BY <2>1, <2>2, OthersKeepShape DEF ShapeInv
<1>2. CASE (\E n \in Turns : Unit(n)) \/ ReadStop \/ RequestStop \/ EndSession \/ Serve
  <2>1. World
    BY <1>2, UnitsAndOwners
  <2>2. UNCHANGED <<call, ticket, marked>> /\ row'.turns = row.turns /\ (up => up')
    BY <2>1 DEF World
  <2> QED
    BY <2>2 DEF ShapeInv, CallShape, At, Asking, Posting, Starting, Turn
<1>3. CASE Crash
  <2>1. \A l \in Launches : Ends(l)
    BY <1>3, CrashEffect
  <2>2. UNCHANGED <<row, ticket, marked>>
    BY <1>3 DEF Crash, disk
  <2>3. ASSUME NEW l \in Launches PROVE CallShape(l)'
    <3>1. CallShape(l) /\ Ends(l)
      BY <2>1 DEF ShapeInv
    <3>2. CASE At(l, "free")
      <4>1. ASSUME NEW m \in Launches, l < m PROVE At(m, "free")'
        BY <2>1, <3>1, <3>2, <4>1 DEF CallShape, Ends, At
      <4>2. call'[l] = Idle
        BY <3>1, <3>2 DEF CallShape, Ends
      <4> QED
        BY <2>2, <3>1, <3>2, <4>1, <4>2 DEF CallShape, At, Asking, Posting, Starting, Turn, Idle
    <3>3. CASE ~At(l, "free") /\ ~call[l].begun
      <4>1. call'[l] = [Idle EXCEPT !.pc = "over"] /\ 0 <= l
        BY <3>1, <3>3, AppTurnsAssumption DEF Ends, Launches
      <4> QED
        BY <4>1 DEF CallShape, At, Asking, Posting, Starting, Turn, Idle
    <3>4. CASE ~At(l, "free") /\ call[l].begun
      BY <2>2, <3>1, <3>4 DEF CallShape, Ends, Same, At, Asking, Posting, Starting, Turn
    <3> QED
      BY <3>2, <3>3, <3>4
  <2> QED
    BY <2>3 DEF ShapeInv
<1>4. ASSUME NEW n \in Turns, Adopt(n) PROVE ShapeInv'
  <2>1. PICK l \in Launches :
          /\ l = ticket[n] /\ Turn(l) = n /\ call[l].begun /\ At(l, "over") /\ l # Nobody
          /\ l \notin marked => ~call[l].closed
    BY <1>4, AdoptFinds
  <2>2. UNCHANGED <<row, up, marked>>
    BY <1>4 DEF Adopt
  <2>3. ticket' = ticket \/ ticket' = [ticket EXCEPT ![n] = Nobody]
    BY <1>4 DEF Adopt, DropTicket
  <2>4. ASSUME NEW o \in Launches, NEW m \in Turns, ticket'[m] = o PROVE ticket[m] = o
    BY <2>3, <2>4, AppTurnsAssumption DEF Typed, TypedDisk, Launches, Nobody
  <2>5. CASE UNCHANGED call
    BY <2>2, <2>4, <2>5 DEF ShapeInv, CallShape, At, Asking, Posting, Starting, Turn
  <2>6. CASE call' = [call EXCEPT ![l].pc = "watch", ![l].adopted = TRUE] /\ l \notin marked
    <3>1. Jumps(l, "watch")
      BY <2>6, WatchEffect
    <3>2. ASSUME NEW o \in Launches \ {l} PROVE CallShape(o)'
      <4>1. CallShape(o) /\ call'[o] = call[o] /\ ~(o < l /\ At(o, "free"))
        BY <2>1, <3>1 DEF ShapeInv, Jumps, Steps, Alone, CallShape, At
      <4>2. ASSUME NEW m \in Launches, o < m, At(o, "free") PROVE At(m, "free")'
        BY <3>1, <4>1, <4>2 DEF Jumps, Steps, Alone, CallShape, At
      <4> QED
        BY <2>2, <2>4, <4>1, <4>2 DEF CallShape, At, Asking, Posting, Starting, Turn
    <3>3. CallShape(l)'
      <4>1. CallShape(l) /\ ~call[l].closed
        BY <2>1, <2>6 DEF ShapeInv
      <4> QED
        BY <2>1, <3>1, <4>1 DEF Jumps, Steps, Same, CallShape, At, Asking, Posting, Starting, Turn
    <3> QED
      BY <3>2, <3>3 DEF ShapeInv
  <2> QED
    BY <1>4, <2>1, <2>5, <2>6 DEF Adopt
<1>5. CASE UNCHANGED vars
  BY <1>5 DEF vars, disk, ShapeInv, CallShape, At, Asking, Posting, Starting, Turn
<1> QED
  BY <1>1, <1>2, <1>3, <1>4, <1>5 DEF Next, Acts, Restart
-----------------------------------------------------------------------------
(* What is left by whom *)

(* A launch that began is the same launch after any step.                  *)
LEMMA BegunStays ==
    ASSUME Typed, ShapeInv, NEW l \in Launches, Moving(l), NEW o, Begun(o)
    PROVE  Begun(o)' /\ Turn(o)' = Turn(o) /\ call'[o].saw = call[o].saw /\ call'[o].sawLogged = call[o].sawLogged
  BY DEF Begun, Moving, Alone, Same, Turn

LEMMA BegunSurvives ==
    ASSUME Typed, ShapeInv, Crash, NEW o, Begun(o)
    PROVE  /\ Begun(o)' /\ Turn(o)' = Turn(o) /\ call'[o].sawLogged = call[o].sawLogged
           /\ call'[o].pc = "over" /\ call'[o].before = call[o].before
           /\ call'[o].closed <=> call[o].closed \/ ticket[Turn(o)] # o
<1>1. Ends(o) /\ CallShape(o) /\ call[o].begun
  BY CrashEffect DEF Begun, ShapeInv
<1>2. ~At(o, "free")
  BY <1>1 DEF CallShape, Idle
<1> QED
  BY <1>1, <1>2 DEF Begun, Ends, Same, Turn

(* What is logged late was written by the unit of that turn.               *)
LEMMA LateLogs ==
    ASSUME Typed, DiskInv, NEW o \in Launches, Turn(o) \in Turns, LogLate(o)
    PROVE  \/ UNCHANGED <<ledger, logged>>
           \/ /\ result[Turn(o)].of \in wrote /\ logged' = logged \cup {result[Turn(o)].of}
              /\ ledger' = Larger(ledger, call[o].before + 1)
  BY DEF LogLate, WriteLedger, DiskInv

LEMMA ResolveFinds ==
    ASSUME Typed, ShapeInv, DiskInv, NEW l \in Launches, Resolve(l)
    PROVE  /\ call[l].from \in Launches /\ call[l].from \in marked /\ call[call[l].from].closed
           /\ Turn(call[l].from) \in Turns /\ call[l].from # l /\ At(call[l].from, "over") /\ up
<1>1. CallShape(l) /\ At(l, "resolve")
  BY DEF ShapeInv, Resolve
<1>2. call[l].from \in Launches /\ call[l].from \in marked /\ call[call[l].from].closed
  BY <1>1 DEF CallShape, DiskInv
<1>3. CallShape(call[l].from)
  BY <1>2 DEF ShapeInv
<1> QED
  BY <1>1, <1>2, <1>3 DEF CallShape, At, Asking

(* Who is told of, heard or logged by a thread's step has begun.           *)
LEMMA ActsOnBooks ==
    ASSUME Typed, ShapeInv, DiskInv, MeterInv, NEW l \in Launches, Acts(l)
    PROVE  /\ \A o \in announced' \cup heard' \cup logged' : Begun(o)
           /\ l \in marked' /\ l \notin marked => call'[l].closed
<1>1. CallShape(l)
  BY DEF ShapeInv
<1>2. Rows(l)
  BY ActsOnRows
<1>3. ASSUME At(l, "commit"), Lands(l) PROVE \A o \in announced' \cup heard' : Begun(o)
  <2>1. call[l].ev # "ceiling" => call[l].begun
    BY <1>1, <1>3 DEF CallShape, At, Asking, Posting
  <2>2. announced' = announced \/ (announced' = announced \cup {l} /\ call[l].ev = "scoped")
    BY <1>3 DEF Lands, Land
  <2>3. heard' = heard \/ (heard' = heard \cup {l} /\ call[l].ev # "ceiling")
    BY <1>3 DEF Lands, Land, Ending
  <2> QED
    BY <2>1, <2>2, <2>3 DEF DiskInv, Begun
<1>4. \A o \in announced' \cup heard' : Begun(o)
  BY <1>2, <1>3 DEF Rows, DiskInv
<1>5. \A o \in wrote : Begun(o)
  BY DEF DiskInv
<1>6. CASE Resolve(l)
  <2>1. PICK o \in Launches : o = call[l].from /\ Turn(o) \in Turns
    BY <1>6, ResolveFinds
  <2>2. LogLate(o) /\ UNCHANGED marked
    BY <1>6, <2>1 DEF Resolve
  <2>3. \A x \in logged' : Begun(x)
    BY <1>5, <2>1, <2>2, LateLogs DEF DiskInv
  <2> QED
    BY <1>4, <2>2, <2>3
<1>7. CASE Finish(l)
  <2>1. /\ call[l].from \in wrote /\ UNCHANGED marked
        /\ logged' = logged \/ logged' = logged \cup {call[l].from}
    BY <1>7 DEF Finish, WriteLedger, MeterInv, Charging
  <2> QED
    BY <1>4, <1>5, <2>1 DEF DiskInv
<1>8. CASE MarkTicket(l)
  <2>1. Closes(l) /\ UNCHANGED logged
    BY <1>8, CloseEffect DEF MarkTicket
  <2> QED
    BY <1>4, <2>1 DEF Closes, DiskInv
<1>9. CASE UNCHANGED <<logged, marked>>
  BY <1>4, <1>9 DEF DiskInv
<1>10. \/ Resolve(l) \/ Finish(l) \/ MarkTicket(l) \/ UNCHANGED <<logged, marked>>
  BY DEF WriteLedger, Acts, Handoff, Publish, Reap, View, Sweep, CheckCeiling, NoteCeiling, Claim, WriteTicket, Spawn, EarlyRefusal,
     Undo, RemoveTicket, Gate, Commit, LosePost, FindResult, PollStop, Synthesize, GiveUp, disk, books
<1> QED
  BY <1>6, <1>7, <1>8, <1>9, <1>10

LEMMA DiskStep ==
    ASSUME Typed, ShapeInv, DiskInv, TodoInv, MeterInv, [Next]_vars PROVE DiskInv'
<1>1. ASSUME NEW l \in Launches, Acts(l) PROVE DiskInv'
  <2>1. Moving(l) /\ Tickets(l) /\ Rows(l)
    BY <1>1, ActsMove, ActsOnTickets, ActsOnRows
  <2>2. ASSUME NEW n \in Turns, NEW o, o = ticket'[n], o # Nobody PROVE Begun(o)' /\ Turn(o)' = n
    <3>2. Begun(o) /\ Turn(o) = n
      BY <2>1, <2>2 DEF Tickets, DiskInv, Begun
    <3>3. Begun(o)' /\ Turn(o)' = Turn(o)
      BY <2>1, <3>2, BegunStays
    <3> QED
      BY <3>2, <3>3
  <2>3. ASSUME NEW n \in Turns, NEW o, o = unit'[n], o # Nobody
        PROVE  Begun(o)' /\ Turn(o)' = n /\ call'[o].pc \notin {"ticket", "spawn"}
    <3>2. CASE unit[n] = o
      <4>1. Begun(o) /\ Turn(o) = n /\ call[o].pc \notin {"ticket", "spawn"}
        BY <2>3, <3>2 DEF DiskInv
      <4>2. Begun(o)' /\ Turn(o)' = Turn(o)
        BY <2>1, <4>1, BegunStays
      <4>3. call'[o].pc \notin {"ticket", "spawn"}
        BY <2>1, <4>1 DEF Moving, Alone, Begun, At
      <4> QED
        BY <4>1, <4>2, <4>3
    <3>3. CASE unit[n] # o
      <4>1. o = l /\ Turn(l) = n /\ At(l, "spawn")
        BY <2>1, <2>3, <3>3 DEF Rows, Typed, TypedDisk
      <4>2. Begun(l)
        BY <4>1 DEF ShapeInv, CallShape, Asking, Posting, At, Begun
      <4>3. Begun(l)' /\ Turn(l)' = n
        BY <2>1, <4>1, <4>2, BegunStays
      <4>4. call'[l].pc \notin {"ticket", "spawn"}
        BY <2>1, <4>1, <4>2 DEF Moving, At, Begun
      <4> QED
        BY <4>1, <4>3, <4>4
    <3> QED
      BY <3>2, <3>3
  <2>4. ASSUME NEW n \in Turns, result'[n] # NoResult, NEW o, o = result'[n].of
        PROVE  o \in wrote' /\ Turn(o)' = n /\ result'[n].how # "none"
    <3>1. result' = result /\ wrote' = wrote /\ o \in wrote /\ Turn(o) = n /\ result[n].how # "none" /\ Begun(o)
      BY <2>1, <2>4 DEF Moving, DiskInv
    <3>2. Turn(o)' = n
      BY <2>1, <3>1, BegunStays
    <3> QED
      BY <3>1, <3>2
  <2>5. ASSUME NEW o \in wrote' \cup announced' \cup heard' \cup logged' PROVE Begun(o)'
    <3>1. Begun(o)
      BY <1>1, <2>1, ActsOnBooks DEF Moving, DiskInv
    <3> QED
      BY <2>1, <3>1, BegunStays
  <2>6. ASSUME NEW o \in marked' PROVE o \in Launches /\ call'[o].closed
    <3>1. CASE o = l
      BY <1>1, <2>1, <2>6, <3>1, ActsOnBooks DEF Moving, DiskInv
    <3>2. CASE o # l
      BY <2>1, <2>6, <3>2 DEF Moving, Alone, Tickets, DiskInv
    <3> QED
      BY <3>1, <3>2
  <2> QED
    BY <2>2, <2>3, <2>4, <2>5, <2>6 DEF DiskInv, Begun, Turn
<1>2. CASE (\E n \in Turns : Unit(n)) \/ ReadStop \/ RequestStop \/ EndSession \/ Serve
  <2>1. World
    BY <1>2, UnitsAndOwners
  <2>2. UNCHANGED <<call, ticket, marked, announced, heard, logged>>
    BY <2>1 DEF World
  <2>3. ASSUME NEW n \in Turns, unit'[n] # Nobody PROVE unit'[n] = unit[n]
    BY <2>1, <2>3 DEF World, Typed, TypedDisk
  <2>4. ASSUME NEW n \in Turns, result'[n] # NoResult
        PROVE  result'[n].of \in wrote' /\ Turn(result'[n].of) = n /\ result'[n].how # "none"
    BY <2>1, <2>4 DEF World, DiskInv
  <2>5. \A o \in wrote' : Begun(o)
    BY <2>1 DEF World, DiskInv
  <2> QED
    BY <2>2, <2>3, <2>4, <2>5 DEF DiskInv, Begun, Turn
<1>3. CASE Crash
  <2>1. UNCHANGED <<ticket, unit, result, marked, wrote, announced, heard, logged>>
    BY <1>3 DEF Crash, disk, books
  <2>2. \A o : Begun(o) => Begun(o)' /\ Turn(o)' = Turn(o) /\ call'[o].pc = "over"
    BY <1>3, BegunSurvives
  <2>3. \A o \in Launches : call[o].closed => call'[o].closed
    <3>1. ASSUME NEW o \in Launches, call[o].closed PROVE call'[o].closed
      <4>1. Begun(o)
        BY <3>1 DEF ShapeInv, CallShape, Begun
      <4> QED
        BY <1>3, <3>1, <4>1, BegunSurvives
    <3> QED
      BY <3>1
  <2> QED
    BY <2>1, <2>2, <2>3 DEF DiskInv, Begun, Turn
<1>4. ASSUME NEW n \in Turns, Adopt(n) PROVE DiskInv'
  <2>1. PICK l \in Launches :
          l = ticket[n] /\ Turn(l) = n /\ call[l].begun /\ At(l, "over") /\ l # Nobody
    BY <1>4, AdoptFinds
  <2>2. UNCHANGED <<unit, result, marked, wrote, announced, heard>>
    BY <1>4 DEF Adopt
  <2>3. ticket' = ticket \/ ticket' = [ticket EXCEPT ![n] = Nobody]
    BY <1>4 DEF Adopt, DropTicket
  <2>4. \A m \in Turns : ticket'[m] # Nobody => ticket'[m] = ticket[m]
    BY <2>3 DEF Typed, TypedDisk
  <2>5. \A o \in logged' : Begun(o)
    <3>1. CASE LogLate(l)
      BY <2>1, <3>1, LateLogs DEF DiskInv
    <3> QED
      BY <1>4, <2>1, <3>1 DEF Adopt, DiskInv
  <2>6. call' = call \/ Jumps(l, "watch")
    BY <1>4, <2>1, WatchEffect DEF Adopt
  <2>7. \A o : Begun(o) => Begun(o)' /\ Turn(o)' = Turn(o)
    BY <2>6 DEF Jumps, Steps, Alone, Same, Begun, Turn
  <2>8. \A o \in Launches : /\ call[o].closed => call'[o].closed
                            /\ call'[o].pc \in {"ticket", "spawn"} => call'[o].pc = call[o].pc
    BY <2>6 DEF Jumps, Steps, Alone, Same
  <2> QED
    BY <2>2, <2>4, <2>5, <2>7, <2>8 DEF DiskInv, Begun, Turn
<1>5. CASE UNCHANGED vars
  BY <1>5 DEF vars, disk, books, DiskInv, Begun, Turn
<1> QED
  BY <1>1, <1>2, <1>3, <1>4, <1>5 DEF Next, Acts, Restart
-----------------------------------------------------------------------------
(* Claims, tickets and watches *)

LEMMA TodoStep ==
    ASSUME Typed, ShapeInv, DiskInv, TodoInv, [Next]_vars PROVE TodoInv'
<1>1. ASSUME NEW l \in Launches, Acts(l) PROVE TodoInv'
  <2>1. Moving(l) /\ Tickets(l)
    BY <1>1, ActsMove, ActsOnTickets
  <2>2. up' = up /\ todo' = todo /\ todo \subseteq Turns
    BY <2>1 DEF Moving, Typed
  <2>3. ASSUME NEW n \in todo PROVE ticket'[n] # Nobody /\ call'[ticket'[n]].pc = "over"
    <3>1. ticket'[n] = ticket[n]
      BY <2>1, <2>2, <2>3 DEF Tickets, TodoInv
    <3>2. ticket[n] \in Launches \ {l} /\ call[ticket[n]].pc = "over" /\ ticket[n] # Nobody
      BY <2>1, <2>2, <2>3 DEF TodoInv, DiskInv, Begun, Moving, At
    <3> QED
      BY <2>1, <3>1, <3>2 DEF Moving, Alone
  <2>4. ASSUME NEW o \in Launches, ~up, call'[o].pc \notin {"free", "over"} PROVE call'[o].turn \notin todo
    <3>1. CASE o = l
      <4>1. CallShape(l) /\ ~At(l, "free") /\ ~At(l, "over")
        BY <2>1, <2>4 DEF ShapeInv, Moving
      <4>2. call[l].begun
        BY <2>4, <4>1 DEF CallShape
      <4> QED
        BY <2>1, <2>4, <3>1, <4>1, <4>2 DEF TodoInv, Moving, Same, Turn
    <3>2. CASE o # l
      BY <2>1, <2>4, <3>2 DEF TodoInv, Moving, Alone, At, Turn
    <3> QED
      BY <3>1, <3>2
  <2> QED
    BY <2>2, <2>3, <2>4 DEF TodoInv, At, Turn
<1>2. CASE (\E n \in Turns : Unit(n)) \/ ReadStop \/ RequestStop \/ EndSession \/ Serve
  <2>1. World
    BY <1>2, UnitsAndOwners
  <2>2. UNCHANGED <<call, ticket, todo>> /\ (up' = up \/ todo = {})
    BY <2>1 DEF World
  <2> QED
    BY <2>2 DEF TodoInv, At, Turn
<1>3. CASE Crash
  <2>1. todo' = {n \in Turns : ticket[n] # Nobody} /\ up' = FALSE /\ ticket' = ticket
    BY <1>3 DEF Crash, disk
  <2>2. ASSUME NEW n \in todo' PROVE ticket'[n] # Nobody /\ call'[ticket'[n]].pc = "over"
    <3>1. Begun(ticket[n])
      BY <2>1, <2>2 DEF DiskInv
    <3> QED
      BY <1>3, <2>1, <2>2, <3>1, BegunSurvives
  <2>3. ASSUME NEW o \in Launches PROVE call'[o].pc \in {"free", "over"}
    BY <1>3, CrashEffect DEF Ends, At, Idle
  <2> QED
    BY <2>1, <2>2, <2>3 DEF TodoInv, At, Turn
<1>4. ASSUME NEW n \in Turns, Adopt(n) PROVE TodoInv'
  <2>1. PICK l \in Launches :
          l = ticket[n] /\ Turn(l) = n /\ call[l].begun /\ At(l, "over") /\ l # Nobody
    BY <1>4, AdoptFinds
  <2>2. up' = up /\ ~up /\ todo' = todo \ {n} /\ todo \subseteq Turns
    BY <1>4 DEF Adopt, Typed
  <2>3. ticket' = ticket \/ ticket' = [ticket EXCEPT ![n] = Nobody]
    BY <1>4 DEF Adopt, DropTicket
  <2>4. call' = call \/ Jumps(l, "watch")
    BY <1>4, <2>1, WatchEffect DEF Adopt
  <2>5. ASSUME NEW m \in todo' PROVE ticket'[m] # Nobody /\ call'[ticket'[m]].pc = "over"
    <3>1. m \in todo /\ m # n /\ ticket'[m] = ticket[m] /\ m \in Turns
      BY <2>2, <2>3, <2>5 DEF Typed, TypedDisk
    <3>2. ticket[m] \in Launches /\ ticket[m] # l /\ ticket[m] # Nobody /\ call[ticket[m]].pc = "over"
      BY <2>1, <3>1 DEF TodoInv, DiskInv, Begun, At
    <3> QED
      BY <2>4, <3>1, <3>2 DEF Jumps, Steps, Alone
  <2>6. ASSUME NEW o \in Launches, call'[o].pc \notin {"free", "over"} PROVE call'[o].turn \notin todo'
    <3>1. CASE o = l
      BY <2>1, <2>2, <2>4, <3>1 DEF Jumps, Steps, Same, Turn
    <3>2. CASE o # l
      BY <2>2, <2>4, <2>6, <3>2 DEF TodoInv, Jumps, Steps, Alone, At, Turn
    <3> QED
      BY <3>1, <3>2
  <2> QED
    BY <2>2, <2>5, <2>6 DEF TodoInv, At, Turn
<1>5. CASE UNCHANGED vars
  BY <1>5 DEF vars, disk, TodoInv, At, Turn
<1> QED
  BY <1>1, <1>2, <1>3, <1>4, <1>5 DEF Next, Acts, Restart

Kept(l) == At(l, "spawn") \/ At(l, "watch") \/ (Posting(l) /\ call[l].ev # "ceiling")
Telling(l) == At(l, "watch") \/ (Posting(l) /\ call[l].ev # "ceiling")

(* What a step does to what its launch holds, keeps, watches and tells.    *)
Holding(l) ==
    /\ \/ (Holds(l)' <=> Holds(l)) /\ active' = active
       \/ ~Holds(l) /\ active = Nobody /\ Holds(l)' /\ active' = l
       \/ Holds(l) /\ ~Holds(l)' /\ active' = Nobody
    /\ Kept(l)' => ticket'[Turn(l)] = l \/ (Kept(l) /\ ticket' = ticket)
    /\ Watched(l) => \/ Watched(l)' \/ unit[Turn(l)] # l
                     \/ l \in forsaken' \cup wrote
    /\ Fresh(l)' => Fresh(l) \/ ~call[l].begun
    /\ Telling(l) => \/ Telling(l)' \/ Fresh(l) \/ l \in forsaken' \cup heard' \cup unheard' \cup unsaid'
                     \/ At(l, "gate") /\ ~Admitted(Turn(l))

LEMMA ActsOnHolds ==
    ASSUME Typed, ShapeInv, DiskInv, NEW l \in Launches, Acts(l) PROVE Holding(l)
<1> USE DEF At
<1>1. CallShape(l) /\ call[l] \in CallRecord
  BY LaunchIsWhole DEF ShapeInv
<1>2. ASSUME ~Holds(l), ~Holds(l)', active' = active, ~Telling(l), ~Telling(l)', ~At(l, "spawn")' PROVE Holding(l)
  BY <1>2 DEF Holding, Kept, Telling, Watched, Fresh, Holds, Posting
<1>3. CASE View(l)
  <2>1. Looks(l) /\ active' = active
    BY <1>1, <1>3, ViewEffect DEF View
  <2> QED
    BY <1>2, <1>3, <2>1 DEF View, Looks, Holds, Telling, Posting
<1>4. CASE (\E n \in Turns : Sweep(l, n)) \/ Resolve(l)
  <2>1. Steps(l, "resolve") \/ Steps(l, "sweep")
    BY <1>4, SweepEffect, GotoEffect DEF Resolve, Jumps, Places
  <2> QED
    BY <1>2, <1>4, <2>1 DEF Sweep, Resolve, Steps, Holds, Telling, Posting
<1>5. CASE CheckCeiling(l)
  <2>1. (call'[l].pc = "gate" /\ call'[l].ev = "ceiling") \/ call'[l].pc = "claim"
    BY <1>5, CeilingEffect
  <2> QED
    BY <1>2, <1>5, <2>1 DEF CheckCeiling, Holds, Telling, Posting
<1>6. CASE Claim(l)
  <2>1. CASE Refuse(l) /\ active' = active
    <3>1. call'[l].pc = "over"
      BY <2>1, RefuseEffect DEF Leaves, Idle
    <3> QED
      BY <1>2, <1>6, <2>1, <3>1 DEF Claim, Holds, Telling, Posting
  <2>2. CASE ~(Refuse(l) /\ active' = active)
    <3>1. call'[l].pc = "ticket" /\ active = Nobody /\ active' = l /\ ~call[l].begun
      BY <1>1, <1>6, <2>2, BeginEffect DEF Claim, Begins, CallShape, Asking
    <3> QED
      BY <1>6, <3>1 DEF Claim, Holding, Holds, Kept, Telling, Watched, Fresh, Posting
  <2> QED
    BY <2>1, <2>2
<1>7. CASE NoteCeiling(l) \/ RemoveTicket(l) \/ MarkTicket(l)
  <2>1. call'[l].pc = "over" /\ active' = active
    BY <1>7, RefuseEffect, CloseEffect DEF NoteCeiling, RemoveTicket, MarkTicket, Leaves, Closes, Idle
  <2> QED
    BY <1>2, <1>7, <2>1 DEF NoteCeiling, RemoveTicket, MarkTicket, Holds, Telling, Posting
<1>8. CASE WriteTicket(l)
  <2>1. (call'[l].pc = "spawn" /\ ticket' = [ticket EXCEPT ![Turn(l)] = l]) \/ call'[l].pc = "undo"
    BY <1>8, GotoEffect DEF WriteTicket, Jumps, Steps, Places
  <2>2. Turn(l) \in Turns
    BY <1>1, <1>8 DEF WriteTicket, CallShape, Asking, Posting
  <2> QED
    BY <1>8, <2>1, <2>2 DEF WriteTicket, Holding, Holds, Kept, Telling, Watched, Fresh, Posting, Typed, TypedDisk
<1>9. CASE Spawn(l)
  <2>1. (call'[l].pc = "gate" /\ call'[l].ev = "scoped") \/ call'[l].pc = "undo"
    BY <1>9, PlainPostEffect, GotoEffect DEF Spawn, Posts, Jumps, Steps, Places, Kinds
  <2>2. active' = active /\ ticket' = ticket
    BY <1>9 DEF Spawn, disk
  <2> QED
    BY <1>9, <2>1, <2>2 DEF Spawn, Holding, Holds, Kept, Telling, Watched, Fresh, Posting
<1>10. CASE EarlyRefusal(l)
  <2>1. call'[l].pc = "undo" /\ active' = active
    BY <1>10, RestEffect DEF EarlyRefusal, Rests, Steps, Places
  <2> QED
    BY <1>10, <2>1 DEF EarlyRefusal, Holding, Holds, Kept, Telling, Watched, Fresh, Posting
<1>11. CASE Undo(l) \/ Finish(l) \/ GiveUp(l)
  <2>1. call'[l].pc \in {"remove", "mark"} /\ active' = Nobody
    BY <1>11, GotoEffect DEF Undo, Finish, GiveUp, Release, Jumps, Steps, Places
  <2> QED
    BY <1>11, <2>1 DEF Undo, Finish, GiveUp, Holding, Holds, Kept, Telling, Watched, Fresh, Posting
<1>12. CASE FindResult(l)
  <2>1. Turn(l) \in Turns
    BY <1>1, <1>12 DEF FindResult, CallShape, Asking, Posting
  <2>2. result[Turn(l)].how \in Kinds \ {"none", "scoped", "ceiling"} /\ result[Turn(l)].of \in Names \cap wrote
    BY <1>12, <2>1 DEF FindResult, DiskInv, Typed, TypedDisk, Hows, Kinds
  <2>3. Posts(l, result[Turn(l)].how)
    BY <1>12, <2>2, PostEffect DEF FindResult
  <2>4. call'[l].pc = "gate" /\ call'[l].ev \notin {"scoped", "ceiling"} /\ active' = active /\ ticket' = ticket
    BY <1>12, <2>2, <2>3 DEF FindResult, Posts, Steps, disk
  <2>5. l \in forsaken' \cup wrote
    BY <1>12, <2>2 DEF FindResult
  <2> QED
    BY <1>12, <2>4, <2>5 DEF FindResult, Holding, Holds, Kept, Telling, Watched, Fresh, Posting
<1>13. CASE Synthesize(l)
  <2>1. call'[l].pc = "gate" /\ call'[l].ev \notin {"scoped", "ceiling"} /\ active' = active /\ ticket' = ticket
    BY <1>13, PlainPostEffect DEF Synthesize, Posts, Steps, Kinds, disk
  <2>2. unit[Turn(l)] # l \/ l \in forsaken'
    BY <1>13, AppTurnsAssumption DEF Synthesize, Alive, Launches, Nobody
  <2> QED
    BY <1>13, <2>1, <2>2 DEF Synthesize, Holding, Holds, Kept, Telling, Watched, Fresh, Posting
<1>14. CASE PollStop(l)
  <2>1. \/ call'[l].pc = "watch" /\ ticket' = [ticket EXCEPT ![Turn(l)] = l]
        \/ call'[l].pc = "undo" /\ l \in forsaken'
    BY <1>14, SentEffect, GotoEffect DEF PollStop, Jumps, Steps, Places
  <2>2. Turn(l) \in Turns /\ active' = active
    BY <1>1, <1>14 DEF PollStop, CallShape, Asking, Posting
  <2> QED
    BY <1>14, <2>1, <2>2 DEF PollStop, Holding, Holds, Kept, Telling, Watched, Fresh, Posting, Typed, TypedDisk
<1>15. CASE Gate(l) \/ Commit(l) \/ LosePost(l)
  <2>1. active' = active /\ ticket' = ticket /\ Posting(l) /\ call[l].ev # "none"
    BY <1>1, <1>15 DEF Gate, Commit, LosePost, disk, Posting, CallShape
  <2>2. CASE /\ call'[l].pc \in {"gate", "commit"} /\ call'[l].ev = call[l].ev
             /\ call'[l].try = call[l].try \/ call'[l].try = 2
    BY <2>1, <2>2 DEF Holding, Holds, Kept, Telling, Watched, Fresh, Posting
  <2>3. CASE GoOn(l)
    <3>1. call'[l].pc = AfterPost(call[l].ev)
      BY <2>3, GoOnEffect DEF Rests, Steps
    <3>2. CASE call[l].ev = "scoped"
      <4>1. call'[l].pc = "watch"
        BY <3>1, <3>2 DEF AfterPost, Metered
      <4> QED
        BY <2>1, <3>2, <4>1 DEF Holding, Holds, Kept, Telling, Watched, Fresh, Posting
    <3>3. CASE call[l].ev = "ceiling"
      <4>1. call'[l].pc = "note"
        BY <3>1, <3>3 DEF AfterPost, Metered
      <4> QED
        BY <1>2, <2>1, <3>3, <4>1 DEF Holds, Telling, Posting
    <3>4. CASE call[l].ev \notin {"scoped", "ceiling"}
      <4>1. call'[l].pc \in {"finish", "giveUp"}
        BY <3>1, <3>4 DEF AfterPost
      <4>2. (At(l, "gate") /\ ~Admitted(Turn(l))) \/ l \in heard' \cup unheard' \cup unsaid'
        <5>1. CASE Gate(l)
          BY <4>1, <5>1, GotoEffect DEF Gate, Jumps, Steps, Places
        <5>2. Ending(call[l].ev)
          BY <3>4 DEF Ending, Terminal
        <5>3. ASSUME Lands(l) PROVE l \in heard' \cup unsaid'
          BY <5>2, <5>3 DEF Lands, Land
        <5>4. CASE Commit(l)
          BY <5>3, <5>4 DEF Commit, Lands
        <5>5. CASE LosePost(l)
          <6>1. PICK again \in BOOLEAN :
                  /\ \/ /\ At(l, "gate")
                        /\ unheard' = IF again \/ ~Ending(call[l].ev) THEN unheard
                                      ELSE unheard \cup ({l} \ heard)
                        /\ UNCHANGED <<row, announced, heard, unsaid>>
                     \/ At(l, "commit") /\ \E said \in BOOLEAN : Land(l, said)
                  /\ IF again THEN call' = [call EXCEPT ![l].pc = "gate", ![l].try = 2]
                     ELSE GoOn(l)
            BY <5>5 DEF LosePost
          <6>2. ~again
            BY <4>1, <6>1, RetryEffect DEF Steps
          <6> QED
            BY <5>2, <5>3, <6>1, <6>2 DEF Lands
        <5> QED
          BY <1>15, <5>1, <5>4, <5>5
      <4> QED
        BY <2>1, <3>4, <4>1, <4>2 DEF Holding, Holds, Kept, Telling, Watched, Fresh, Posting
    <3> QED
      BY <3>2, <3>3, <3>4
  <2>4. GoOn(l) \/ Goto(l, "commit") \/ call' = [call EXCEPT ![l].pc = "gate", ![l].try = 2]
    BY <1>15 DEF Gate, Commit, LosePost
  <2> QED
    BY <2>2, <2>3, <2>4, GotoEffect, RetryEffect DEF Jumps, Steps, Places
<1> QED
  BY <1>3, <1>4, <1>5, <1>6, <1>7, <1>8, <1>9, <1>10, <1>11, <1>12, <1>13, <1>14, <1>15
     DEF Acts, Handoff, Publish, Reap
LEMMA ClaimStep ==
    ASSUME Typed, ShapeInv, DiskInv, TodoInv, ClaimInv, [Next]_vars PROVE ClaimInv'
<1>1. ASSUME NEW l \in Launches, Acts(l) PROVE ClaimInv'
  <2>1. Moving(l) /\ Rows(l) /\ Holding(l)
    BY <1>1, ActsMove, ActsOnRows, ActsOnHolds
  <2>2. ASSUME NEW o \in Launches \ {l} PROVE Holds(o)' <=> Holds(o)
    BY <2>1 DEF Moving, Alone, Holds, Posting
  <2>3. l # Nobody /\ \A o \in Launches : o # Nobody
    BY AppTurnsAssumption DEF Launches, Nobody
  <2> QED
    BY <2>1, <2>2, <2>3 DEF ClaimInv, Rows, Holding
<1>2. CASE (\E n \in Turns : Unit(n)) \/ ReadStop \/ RequestStop \/ EndSession \/ Serve
  <2>1. UNCHANGED <<call, active>>
    BY <1>2, UnitsAndOwners DEF World
  <2> QED
    BY <2>1 DEF ClaimInv, Holds, Posting
<1>3. CASE Crash
  <2>1. active' = Nobody /\ Nobody \in Names /\ \A l \in Launches : l # Nobody
    <3>1. Nobody \in Names /\ \A l \in Launches : l # Nobody
      BY AppTurnsAssumption DEF Nobody, Names, Launches
    <3> QED
      BY <1>3, <3>1 DEF Crash
  <2>2. ASSUME NEW l \in Launches PROVE call'[l].pc \in {"free", "over"}
    BY <1>3, CrashEffect DEF Ends, At, Idle
  <2> QED
    BY <2>1, <2>2 DEF ClaimInv, Holds, Posting
<1>4. ASSUME NEW n \in Turns, Adopt(n) PROVE ClaimInv'
  <2>1. PICK l \in Launches : l = ticket[n] /\ l \in Names /\ At(l, "over") /\ l # Nobody
    BY <1>4, AdoptFinds
  <2>2. CASE UNCHANGED <<call, active>>
    BY <2>2 DEF ClaimInv, Holds, Posting
  <2>3. CASE active = Nobody /\ active' = l /\ Jumps(l, "watch")
    <3>1. \A o \in Launches : ~Holds(o)
      BY <2>3, AppTurnsAssumption DEF ClaimInv, Launches, Nobody
    <3>2. Holds(l)' /\ \A o \in Launches \ {l} : Holds(o)' <=> Holds(o)
      BY <2>3 DEF Jumps, Steps, Alone, Holds, Posting
    <3> QED
      BY <2>1, <2>3, <3>1, <3>2 DEF ClaimInv
  <2> QED
    BY <1>4, <2>1, <2>2, <2>3, WatchEffect DEF Adopt
<1>5. CASE UNCHANGED vars
  BY <1>5 DEF vars, ClaimInv, Holds, Posting
<1> QED
  BY <1>1, <1>2, <1>3, <1>4, <1>5 DEF Next, Acts, Restart

LEMMA KeepsStep ==
    ASSUME Typed, ShapeInv, DiskInv, TodoInv, KeepsInv, [Next]_vars PROVE KeepsInv'
<1>1. ASSUME NEW l \in Launches, Acts(l) PROVE KeepsInv'
  <2>1. Moving(l) /\ Tickets(l) /\ Holding(l)
    BY <1>1, ActsMove, ActsOnTickets, ActsOnHolds
  <2>2. ASSUME NEW o \in Launches \ {l}, Kept(o)' PROVE ticket'[Turn(o)] = o \/ o \in forsaken'
    <3>1. Kept(o) /\ call'[o] = call[o]
      BY <2>1, <2>2 DEF Moving, Alone, Kept, At, Posting
    <3>2. o \notin marked
      BY <3>1 DEF DiskInv, ShapeInv, CallShape, Kept, At, Posting
    <3>3. Turn(o) \in Turns /\ o # Nobody
      BY <3>1, AppTurnsAssumption DEF ShapeInv, CallShape, Kept, At, Posting, Asking, Launches, Nobody
    <3>4. ticket[Turn(o)] = o \/ o \in forsaken
      BY <3>1 DEF KeepsInv, Kept
    <3> QED
      BY <2>1, <3>2, <3>3, <3>4 DEF Tickets
  <2>3. ASSUME Kept(l)' PROVE ticket'[Turn(l)] = l \/ l \in forsaken'
    BY <2>1, <2>3 DEF Holding, Tickets, KeepsInv, Kept
  <2>4. ASSUME NEW o \in Launches, Kept(o)' PROVE call'[o].turn = call[o].turn
    <3>1. CASE o = l
      <4>1. call'[l].begun
        <5>1. CallShape(l)'
          BY <1>1, <2>1, ActsKeepShape
        <5> QED
          BY <2>4, <3>1, <5>1 DEF CallShape, Kept, At, Asking, Posting
      <4> QED
        BY <2>1, <3>1, <4>1 DEF Moving
    <3>2. CASE o # l
      BY <2>1, <3>2 DEF Moving, Alone
    <3> QED
      BY <3>1, <3>2
  <2> QED
    BY <2>2, <2>3, <2>4 DEF KeepsInv, Kept, Turn
<1>2. CASE (\E n \in Turns : Unit(n)) \/ ReadStop \/ RequestStop \/ EndSession \/ Serve
  <2>1. UNCHANGED <<call, ticket, forsaken>>
    BY <1>2, UnitsAndOwners DEF World
  <2> QED
    BY <2>1 DEF KeepsInv, At, Posting, Turn
<1>3. CASE Crash
  <2>1. ASSUME NEW l \in Launches PROVE call'[l].pc \in {"free", "over"}
    BY <1>3, CrashEffect DEF Ends, At, Idle
  <2> QED
    BY <2>1 DEF KeepsInv, At, Posting
<1>4. ASSUME NEW n \in Turns, Adopt(n) PROVE KeepsInv'
  <2>1. PICK l \in Launches :
          l = ticket[n] /\ Turn(l) = n /\ At(l, "over") /\ l # Nobody /\ l \in Names
    BY <1>4, AdoptFinds
  <2>2. CASE UNCHANGED <<call, ticket>> /\ forsaken \subseteq forsaken'
    BY <2>2 DEF KeepsInv, At, Posting, Turn
  <2>3. CASE UNCHANGED call /\ DropTicket(n, l)
    <3>1. ticket' = [ticket EXCEPT ![n] = Nobody] /\ forsaken \subseteq forsaken'
      BY <2>3 DEF DropTicket
    <3>2. ASSUME NEW o \in Launches, Kept(o) PROVE ticket'[Turn(o)] = o \/ o \in forsaken'
      BY <2>1, <3>1, <3>2 DEF KeepsInv, Kept, At, Posting, Typed, TypedDisk
    <3> QED
      BY <2>3, <3>2 DEF KeepsInv, Kept, At, Posting, Turn
  <2>4. CASE Jumps(l, "watch") /\ UNCHANGED <<ticket, forsaken>>
    BY <2>1, <2>4 DEF Jumps, Steps, Alone, Same, KeepsInv, At, Posting, Turn
  <2> QED
    BY <1>4, <2>1, <2>2, <2>3, <2>4, WatchEffect DEF Adopt
<1>5. CASE UNCHANGED vars
  BY <1>5 DEF vars, disk, books, KeepsInv, At, Posting, Turn
<1> QED
  BY <1>1, <1>2, <1>3, <1>4, <1>5 DEF Next, Acts, Restart
-----------------------------------------------------------------------------
(* One writer *)

(* A launch that takes a unit watches it from then on.                     *)
LEMMA SpawnWatches ==
    ASSUME Typed, ShapeInv, NEW l \in Launches, Acts(l), unit' # unit
    PROVE  Watched(l)' /\ At(l, "spawn")
<1>1. Spawn(l)
  BY DEF Acts, Handoff, Publish, Reap, View, Sweep, Resolve, CheckCeiling, NoteCeiling, Claim, WriteTicket, EarlyRefusal,
     Undo, RemoveTicket, Gate, Commit, LosePost, FindResult, PollStop, Synthesize, Finish, GiveUp, MarkTicket
<1>2. Posts(l, "scoped") /\ At(l, "spawn")
  BY <1>1, PlainPostEffect DEF Spawn, Kinds
<1> QED
  BY <1>2 DEF Posts, Steps, Watched, At, Posting

LEMMA WriterStep ==
    ASSUME Typed, ShapeInv, DiskInv, TodoInv, ClaimInv, KeepsInv, WriterInv, [Next]_vars PROVE WriterInv'
<1>1. ASSUME NEW l \in Launches, Acts(l) PROVE WriterInv'
  <2>1. Moving(l) /\ Tickets(l) /\ Rows(l) /\ Holding(l)
    BY <1>1, ActsMove, ActsOnTickets, ActsOnRows, ActsOnHolds
  <2>2. CASE unit' = unit
    <3>1. Working' \subseteq Working
      BY <2>1, <2>2 DEF Working, Moving, Tickets
    <3>2. ASSUME NEW n \in Working', NEW o, o = unit[n] PROVE Watched(o)' \/ Waits(o)'
      <4>1. o \in Launches /\ Turn(o) = n /\ (Watched(o) \/ Waits(o)) /\ n \in Turns
        BY <3>1, <3>2 DEF WriterInv, DiskInv, Begun, Working
      <4>2. CASE o = l
        <5>1. ~Waits(l) /\ l \notin forsaken' \cup wrote /\ unit[Turn(l)] = l
          BY <2>1, <2>2, <3>2, <4>1, <4>2 DEF Waits, Moving, Working
        <5> QED
          BY <2>1, <4>1, <4>2, <5>1 DEF Holding
      <4>3. CASE o # l /\ Watched(o)
        BY <2>1, <4>1, <4>3 DEF Moving, Alone, Watched, At, Posting
      <4>4. CASE o # l /\ Waits(o)
        <5>1. call'[o] = call[o] /\ ticket'[Turn(o)] = ticket[Turn(o)] /\ o \notin marked'
          BY <2>1, <4>1, <4>4 DEF Moving, Alone, Tickets, Waits
        <5> QED
          BY <2>1, <4>4, <5>1 DEF Waits, Moving, At, Turn
      <4> QED
        BY <4>1, <4>2, <4>3, <4>4
    <3> QED
      BY <2>2, <3>1, <3>2 DEF WriterInv, Working
  <2>3. CASE unit' # unit
    <3>1. Watched(l)' /\ At(l, "spawn") /\ unit' = [unit EXCEPT ![Turn(l)] = l]
      BY <1>1, <2>1, <2>3, SpawnWatches DEF Rows
    <3>2. up /\ active = l /\ Turn(l) \in Turns
      <4>1. CallShape(l) /\ Starting(l) /\ Holds(l)
        BY <3>1 DEF ShapeInv, Starting, Holds, At
      <4> QED
        BY <3>1, <4>1 DEF ClaimInv, CallShape, At, Asking, Posting
    <3>3. ASSUME NEW n \in Working PROVE FALSE
      <4>1. unit[n] \in Launches /\ (Watched(unit[n]) \/ Waits(unit[n]))
        BY <3>3 DEF WriterInv, DiskInv, Working, Begun
      <4>2. Watched(unit[n]) => Holds(unit[n])
        BY DEF Watched, Holds, At
      <4>3. unit[n] = l
        BY <3>2, <4>1, <4>2 DEF ClaimInv, Waits
      <4> QED
        BY <3>1, <4>1, <4>3, <3>2 DEF Watched, Waits, At, Posting
    <3>4. ASSUME NEW n \in Working' PROVE n = Turn(l) /\ unit'[n] = l
      <4>1. n \in Turns
        BY <3>4 DEF Working
      <4>2. CASE n # Turn(l)
        <5>1. unit'[n] = unit[n]
          BY <3>1, <4>1, <4>2 DEF Typed, TypedDisk
        <5>2. n \in Working
          BY <2>1, <3>4, <4>1, <5>1 DEF Working, Moving, Tickets
        <5> QED
          BY <3>3, <5>2
      <4> QED
        BY <3>1, <3>2, <4>2 DEF Typed, TypedDisk
    <3>5. ASSUME NEW n \in Working', NEW o, o = unit'[n] PROVE Watched(o)' \/ Waits(o)'
      BY <3>1, <3>4, <3>5
    <3> QED
      BY <3>4, <3>5 DEF WriterInv, Watched, Waits, At, Posting, Turn
  <2> QED
    BY <2>2, <2>3
<1>2. CASE (\E n \in Turns : Unit(n)) \/ ReadStop \/ RequestStop \/ EndSession \/ Serve
  <2>1. World
    BY <1>2, UnitsAndOwners
  <2>2. \A n \in Turns : unit'[n] # Nobody => unit'[n] = unit[n]
    BY <2>1 DEF World, Typed, TypedDisk
  <2>3. \A n \in Working' : n \in Working /\ unit'[n] = unit[n]
    BY <2>1, <2>2 DEF World, Working
  <2>4. UNCHANGED <<call, ticket, todo, marked>> /\ (up' = up \/ todo = {})
    BY <2>1 DEF World
  <2>5. \A o : (Watched(o) => Watched(o)') /\ (Waits(o) => Waits(o)')
    BY <2>4 DEF Watched, Waits, At, Posting, Turn
  <2>6. ASSUME NEW n \in Working', NEW o, o = unit'[n] PROVE Watched(o)' \/ Waits(o)'
    BY <2>3, <2>5, <2>6 DEF WriterInv
  <2> QED
    BY <2>3, <2>6 DEF WriterInv, Watched, Waits, At, Posting, Turn
<1>3. CASE Crash
  <2>1. /\ UNCHANGED <<ticket, unit, marked, wrote, forsaken>> /\ up' = FALSE
        /\ todo' = {n \in Turns : ticket[n] # Nobody}
    BY <1>3 DEF Crash, disk, books
  <2>2. Working' = Working
    BY <2>1 DEF Working
  <2>3. ASSUME NEW n \in Working, NEW o, o = unit[n] PROVE Waits(o)'
    <3>1. Begun(o) /\ Turn(o) = n /\ n \in Turns /\ (Watched(o) \/ Waits(o)) /\ o \notin forsaken /\ o # Nobody
      BY <2>3 DEF Working, DiskInv, WriterInv
    <3>2. ticket[n] = o /\ o \notin marked
      <4>1. CASE Watched(o)
        BY <3>1, <4>1 DEF Watched, KeepsInv, Begun, DiskInv, ShapeInv, CallShape, At, Posting
      <4> QED
        BY <3>1, <4>1 DEF Waits
    <3>3. Turn(o)' = n /\ At(o, "over")'
      BY <1>3, <3>1, BegunSurvives DEF At
    <3> QED
      BY <2>1, <3>1, <3>2, <3>3 DEF Waits
  <2>4. ASSUME NEW n \in Working', NEW o, o = unit'[n] PROVE Watched(o)' \/ Waits(o)'
    BY <2>1, <2>2, <2>3, <2>4
  <2> QED
    BY <2>2, <2>4 DEF WriterInv, Watched, Waits, At, Posting, Turn
<1>4. ASSUME NEW n \in Turns, Adopt(n) PROVE WriterInv'
  <2>1. PICK l \in Launches :
          l = ticket[n] /\ Turn(l) = n /\ At(l, "over") /\ l # Nobody /\ l \in Names
    BY <1>4, AdoptFinds
  <2>2. UNCHANGED <<up, unit, marked, wrote>> /\ forsaken \subseteq forsaken' /\ todo' = todo \ {n}
    BY <1>4 DEF Adopt, DropTicket
  <2>3. Working' \subseteq Working
    BY <2>2 DEF Working
  <2>4. ticket' = ticket \/ ticket' = [ticket EXCEPT ![n] = Nobody]
    BY <1>4 DEF Adopt, DropTicket
  <2>5. l \in marked \/ l \in forsaken' \/ Jumps(l, "watch")
    BY <1>4, <2>1, WatchEffect DEF Adopt
  <2>6. \A o \in Launches \ {l} : call'[o] = call[o]
    BY <1>4, <2>1, WatchEffect DEF Adopt, Jumps, Steps, Alone
  <2>7. ASSUME NEW m \in Working', NEW o, o = unit[m] PROVE Watched(o)' \/ Waits(o)'
    <3>1. o \in Launches /\ Turn(o) = m /\ (Watched(o) \/ Waits(o)) /\ m \in Turns /\ o \notin forsaken'
      BY <2>2, <2>3, <2>7 DEF WriterInv, DiskInv, Begun, Working
    <3>2. CASE o = l
      BY <2>1, <2>5, <3>1, <3>2 DEF Watched, Waits, Jumps, Steps, At, Posting
    <3>3. CASE o # l /\ Watched(o)
      BY <2>6, <3>1, <3>3 DEF Watched, At, Posting
    <3>4. CASE o # l /\ Waits(o)
      <4>1. m # n /\ ticket'[m] = ticket[m]
        BY <2>1, <2>4, <3>1, <3>4 DEF Waits, Typed, TypedDisk
      <4> QED
        BY <2>2, <2>6, <3>1, <3>4, <4>1 DEF Waits, At, Turn
    <3> QED
      BY <3>1, <3>2, <3>3, <3>4
  <2> QED
    BY <2>2, <2>3, <2>7 DEF WriterInv, Watched, Waits, At, Posting, Turn
<1>5. CASE UNCHANGED vars
  BY <1>5 DEF vars, disk, books, WriterInv, Working, Watched, Waits, At, Posting, Turn
<1> QED
  BY <1>1, <1>2, <1>3, <1>4, <1>5 DEF Next, Acts, Restart

-----------------------------------------------------------------------------
(* What a turn is charged *)

TakesFrom(l) ==
    \/ Charging(l) /\ call'[l].from = call[l].from
    \/ FindResult(l) /\ call'[l].from = result[Turn(l)].of

LEMMA ActsOnCharges ==
    ASSUME Typed, ShapeInv, DiskInv, MeterInv, NEW l \in Launches, Acts(l), Charging(l)'
    PROVE  call'[l].from \in wrote /\ Turn(call'[l].from) = Turn(l) /\ TakesFrom(l)
<1> USE DEF At
<1>1. CallShape(l)
  BY DEF ShapeInv
<1>2. ASSUME Charging(l), call'[l].from = call[l].from
      PROVE  call'[l].from \in wrote /\ Turn(call'[l].from) = Turn(l) /\ TakesFrom(l)
  BY <1>2 DEF MeterInv, TakesFrom
<1>3. CASE FindResult(l)
  <2>1. Turn(l) \in Turns
    BY <1>1, <1>3 DEF FindResult, CallShape, Asking, Posting
  <2>2. result[Turn(l)].how \in Kinds /\ result[Turn(l)].of \in Names
    BY <2>1 DEF Typed, TypedDisk, Hows, Kinds
  <2>3. call'[l].from = result[Turn(l)].of
    BY <1>3, <2>2, PostEffect DEF FindResult
  <2> QED
    BY <1>3, <2>1, <2>3 DEF FindResult, DiskInv, TakesFrom
<1>4. CASE Gate(l) \/ Commit(l) \/ LosePost(l)
  <2>1. Posting(l)
    BY <1>4 DEF Gate, Commit, LosePost, Posting
  <2>2. CASE GoOn(l)
    <3>1. Rests(l, AfterPost(call[l].ev)) /\ AfterPost(call[l].ev) \in {"watch", "note", "finish", "giveUp"}
      BY <2>2, GoOnEffect
    <3>2. AfterPost(call[l].ev) = "finish"
      BY <3>1 DEF Rests, Steps, Charging, Posting
    <3>3. Metered(call[l].ev)
      BY <3>2 DEF AfterPost
    <3> QED
      BY <1>2, <2>1, <3>1, <3>3 DEF Rests, Charging
  <2>3. CASE call'[l].ev = call[l].ev /\ call'[l].pc \in {"gate", "commit"} /\ call'[l].from = call[l].from
    BY <1>2, <2>1, <2>3 DEF Charging, Posting
  <2>4. GoOn(l) \/ Goto(l, "commit") \/ call' = [call EXCEPT ![l].pc = "gate", ![l].try = 2]
    BY <1>4 DEF Gate, Commit, LosePost
  <2> QED
    BY <2>2, <2>3, <2>4, GotoEffect, RetryEffect DEF Jumps, Steps, Places
<1>5. CASE View(l) \/ (\E n \in Turns : Sweep(l, n)) \/ Resolve(l) \/ CheckCeiling(l) \/ Claim(l)
  <2>1. ~Charging(l)'
    <3>1. CASE View(l)
      BY <1>1, <3>1, ViewEffect DEF Looks, Charging, Posting
    <3>2. CASE (\E n \in Turns : Sweep(l, n)) \/ Resolve(l)
      BY <3>2, SweepEffect, GotoEffect DEF Resolve, Jumps, Steps, Places, Charging, Posting
    <3>3. CASE CheckCeiling(l)
      BY <3>3, CeilingEffect DEF Charging, Posting, Metered
    <3>4. CASE Claim(l)
      BY <3>4, RefuseEffect, BeginEffect DEF Claim, Leaves, Idle, Begins, Charging, Posting
    <3> QED
      BY <1>5, <3>1, <3>2, <3>3, <3>4
  <2> QED
    BY <2>1
<1>6. CASE NoteCeiling(l) \/ RemoveTicket(l) \/ MarkTicket(l) \/ EarlyRefusal(l) \/ Undo(l) \/ Finish(l) \/ GiveUp(l)
  <2>1. call'[l].pc \in {"over", "undo", "remove", "mark"}
    BY <1>6, RefuseEffect, CloseEffect, RestEffect, GotoEffect
       DEF NoteCeiling, RemoveTicket, MarkTicket, EarlyRefusal, Undo, Finish, GiveUp, Leaves, Idle, Closes, Rests, Jumps, Steps, Places
  <2> QED
    BY <2>1 DEF Charging, Posting
<1>7. CASE WriteTicket(l) \/ Spawn(l) \/ PollStop(l) \/ Synthesize(l)
  <2>1. ~Charging(l)'
    <3>1. CASE WriteTicket(l)
      BY <3>1, GotoEffect DEF WriteTicket, Jumps, Steps, Places, Charging, Posting
    <3>2. CASE Spawn(l)
      BY <3>2, PlainPostEffect, GotoEffect DEF Spawn, Posts, Jumps, Steps, Places, Kinds, Charging, Posting, Metered
    <3>3. CASE PollStop(l)
      BY <3>3, SentEffect, GotoEffect DEF PollStop, Jumps, Steps, Places, Charging, Posting
    <3>4. CASE Synthesize(l)
      BY <3>4, PlainPostEffect DEF Synthesize, Posts, Steps, Kinds, Charging, Posting, Metered
    <3> QED
      BY <1>7, <3>1, <3>2, <3>3, <3>4
  <2> QED
    BY <2>1
<1> QED
  BY <1>3, <1>4, <1>5, <1>6, <1>7 DEF Acts, Handoff, Publish, Reap
LEMMA MeterStep ==
    ASSUME Typed, ShapeInv, DiskInv, TodoInv, MeterInv, [Next]_vars PROVE MeterInv'
<1>1. ASSUME NEW l \in Launches, Acts(l) PROVE MeterInv'
  <2>1. Moving(l) /\ Rows(l)
    BY <1>1, ActsMove, ActsOnRows
  <2>2. wrote' = wrote /\ \A o \in wrote : Turn(o)' = Turn(o)
    BY <2>1, BegunStays DEF Moving, DiskInv
  <2>3. row'.tokens = Cardinality(row'.charged) /\ \A n \in row'.charged : \E o \in wrote : Turn(o) = n
    <3>1. CASE row' = row
      BY <3>1 DEF MeterInv
    <3>2. CASE At(l, "commit") /\ Lands(l)
      <4>1. CASE ~Metered(call[l].ev) \/ Turn(l) \in row.charged
        <5>1. row'.tokens = row.tokens /\ row'.charged = row.charged
          BY <3>2, <4>1 DEF Lands, Land, Charge, Typed, RowRecord
        <5> QED
          BY <5>1 DEF MeterInv
      <4>2. CASE Metered(call[l].ev) /\ Turn(l) \notin row.charged
        <5>1. row'.tokens = row.tokens + 1 /\ row'.charged = row.charged \cup {Turn(l)}
          BY <3>2, <4>2 DEF Lands, Land, Charge
        <5>2. IsFiniteSet(row.charged)
          <6>1. row.charged \in SUBSET Names
            BY DEF Typed, RowRecord, Turns, Names
          <6> QED
            BY <6>1, SetsAreFinite
        <5>3. Cardinality(row.charged \cup {Turn(l)}) = Cardinality(row.charged) + 1
          BY <4>2, <5>2, FS_AddElement
        <5>4. call[l].from \in wrote /\ Turn(call[l].from) = Turn(l)
          BY <3>2, <4>2 DEF MeterInv, Charging, Posting, At
        <5> QED
          BY <5>1, <5>3, <5>4 DEF MeterInv
      <4> QED
        BY <4>1, <4>2
    <3> QED
      BY <2>1, <3>1, <3>2 DEF Rows
  <2>4. ASSUME NEW o \in Launches, Charging(o)', NEW x, x = call'[o].from PROVE x \in wrote' /\ Turn(x)' = Turn(o)'
    <3>1. CASE o = l
      <4>1. x \in wrote /\ Turn(x) = Turn(l)
        BY <1>1, <2>4, <3>1, ActsOnCharges
      <4>2. Turn(l)' = Turn(l)
        <5>1. CallShape(l)'
          BY <1>1, <2>1, ActsOnTickets, ActsKeepShape
        <5>2. call'[l].begun
          BY <2>4, <3>1, <5>1 DEF CallShape, Charging, At, Asking, Posting, Metered
        <5> QED
          BY <2>1, <5>2 DEF Moving, Turn
      <4> QED
        BY <2>2, <3>1, <4>1, <4>2
    <3>2. CASE o # l
      <4>1. call'[o] = call[o] /\ Charging(o)
        BY <2>1, <2>4, <3>2 DEF Moving, Alone, Charging, At, Posting
      <4> QED
        BY <2>2, <2>4, <4>1 DEF MeterInv, Turn
    <3> QED
      BY <3>1, <3>2
  <2>5. \A n \in row'.charged : \E o \in wrote' : Turn(o)' = n
    BY <2>2, <2>3
  <2> QED
    BY <2>3, <2>4, <2>5 DEF MeterInv, Turn, Charging, At, Posting
<1>2. CASE (\E n \in Turns : Unit(n)) \/ ReadStop \/ RequestStop \/ EndSession \/ Serve
  <2>1. call' = call /\ row'.tokens = row.tokens /\ row'.charged = row.charged /\ wrote \subseteq wrote'
    BY <1>2, UnitsAndOwners DEF World
  <2> QED
    BY <2>1 DEF MeterInv, Turn, Charging, At, Posting
<1>3. CASE Crash
  <2>1. row' = row /\ wrote' = wrote
    BY <1>3 DEF Crash, books
  <2>2. \A o \in wrote : Turn(o)' = Turn(o)
    BY <1>3, BegunSurvives DEF DiskInv
  <2>3. ASSUME NEW l \in Launches PROVE call'[l].pc \in {"free", "over"}
    BY <1>3, CrashEffect DEF Ends, At, Idle
  <2> QED
    BY <2>1, <2>2, <2>3 DEF MeterInv, Turn, Charging, At, Posting
<1>4. ASSUME NEW n \in Turns, Adopt(n) PROVE MeterInv'
  <2>1. PICK l \in Launches : l = ticket[n] /\ Turn(l) = n /\ call[l].begun /\ At(l, "over")
    BY <1>4, AdoptFinds
  <2>2. row' = row /\ wrote' = wrote /\ (call' = call \/ Jumps(l, "watch"))
    BY <1>4, <2>1, WatchEffect DEF Adopt
  <2>3. \A o \in wrote : Turn(o)' = Turn(o)
    BY <2>2 DEF DiskInv, Begun, Jumps, Steps, Alone, Same, Turn
  <2>4. ASSUME NEW o \in Launches, Charging(o)'
        PROVE  Charging(o) /\ call'[o].from = call[o].from /\ call'[o].turn = call[o].turn
    BY <2>2, <2>4 DEF Jumps, Steps, Alone, Same, Charging, At, Posting
  <2> QED
    BY <2>2, <2>3, <2>4 DEF MeterInv, Turn, Charging, At, Posting
<1>5. CASE UNCHANGED vars
  BY <1>5 DEF vars, books, MeterInv, Turn, Charging, At, Posting
<1> QED
  BY <1>1, <1>2, <1>3, <1>4, <1>5 DEF Next, Acts, Restart

-----------------------------------------------------------------------------
(* What the room is told *)

LEMMA LandGoesOn ==
    ASSUME Typed, ShapeInv, NEW l \in Launches, Acts(l), At(l, "commit")
    PROVE  ~Fresh(l)' /\ (call[l].ev = "scoped" => Telling(l)')
<1> USE DEF At
<1>1. Commit(l) \/ LosePost(l)
  BY DEF Acts, Handoff, Publish, Reap, View, Sweep, Resolve, CheckCeiling, NoteCeiling, Claim, WriteTicket, Spawn, EarlyRefusal,
     Undo, RemoveTicket, Gate, FindResult, PollStop, Synthesize, Finish, GiveUp, MarkTicket
<1>2. CASE GoOn(l)
  <2>1. call'[l].pc = AfterPost(call[l].ev) /\ AfterPost(call[l].ev) \in {"watch", "note", "finish", "giveUp"}
    BY <1>2, GoOnEffect DEF Rests, Steps
  <2>2. call[l].ev = "scoped" => AfterPost(call[l].ev) = "watch"
    BY DEF AfterPost, Metered
  <2> QED
    BY <2>1, <2>2 DEF Fresh, Telling, Posting
<1>3. CASE call' = [call EXCEPT ![l].pc = "gate", ![l].try = 2]
  <2>1. call'[l].pc = "gate" /\ call'[l].ev = call[l].ev /\ call'[l].try = 2
    BY <1>3, RetryEffect DEF Steps
  <2> QED
    BY <2>1 DEF Fresh, Telling, Posting
<1> QED
  BY <1>1, <1>2, <1>3 DEF Commit, LosePost

LEMMA ActsOnUnheard ==
    ASSUME Typed, NEW l \in Launches, Acts(l) PROVE unheard \subseteq unheard'
  BY DEF Acts, Handoff, Publish, Reap, View, Sweep, Resolve, CheckCeiling, NoteCeiling, Claim, WriteTicket, Spawn, EarlyRefusal,
     Undo, RemoveTicket, Gate, Commit, LosePost, Lands, Land, FindResult, PollStop, Synthesize, Finish, GiveUp, MarkTicket, books

(* A post that lands leaves no other turn untold.                          *)
LEMMA LandTells ==
    ASSUME Typed, ShapeInv, DiskInv, ClaimInv, TellInv, forsaken = {}, NEW l \in Launches, Acts(l), At(l, "commit"), Lands(l),
           NEW o \in announced' \ (heard' \cup unheard' \cup unsaid')
    PROVE  o = l /\ row'.running = Turn(l) /\ (row'.ended => row'.stop) /\ Telling(l)'
<1>1. CallShape(l) /\ call[l].ev # "none" /\ Posting(l)
  BY DEF ShapeInv, CallShape, At, Posting
<1>2. o # l => o \in announced \ (heard \cup unheard \cup unsaid)
  BY DEF Lands, Land
<1>3. CASE o # l
  <2>1. Untold(o) /\ o \in Launches /\ call[o].begun
    BY <1>2, <1>3 DEF TellInv, DiskInv, Begun
  <2>2. CASE Terminal(call[l].ev)
    BY <1>2, <1>3, <2>1, <2>2 DEF Lands, Land, Running, Untold
  <2>3. CASE call[l].ev = "scoped"
    <3>1. up /\ Holds(l)
      BY <1>1, <2>3 DEF CallShape, Starting, Holds
    <3>2. ~Waits(o) /\ ~Holds(o)
      BY <1>3, <2>1, <3>1 DEF Waits, ClaimInv
    <3> QED
      BY <2>1, <3>2 DEF Untold, Holds, At
  <2> QED
    BY <2>2, <2>3 DEF Terminal
<1>4. CASE o = l
  <2>1. call[l].ev # "ceiling"
    <3>1. l \in announced \/ call[l].ev = "scoped"
      BY <1>4 DEF Lands, Land
    <3> QED
      BY <1>1, <3>1 DEF DiskInv, Begun, CallShape, Asking
  <2>2. call[l].ev = "scoped"
    BY <1>4, <2>1 DEF Lands, Land, Ending, Terminal
  <2>3. l \in announced => Untold(l)
    <3>1. l \notin heard \cup unheard \cup unsaid
      BY <1>4 DEF Lands, Land
    <3> QED
      BY <3>1 DEF TellInv
  <2>4. row'.running = Turn(l) /\ row'.ended = row.ended /\ row'.stop = row.stop
    BY <2>2 DEF Lands, Land, RunningAfter, Typed, RowRecord
  <2>5. row.ended => row.stop
    BY <1>4, <2>2, <2>3 DEF Lands, Land, Untold
  <2> QED
    BY <1>4, <2>2, <2>4, <2>5, LandGoesOn
<1> QED
  BY <1>3, <1>4

LEMMA TellStep ==
    ASSUME Typed, ShapeInv, DiskInv, TodoInv, ClaimInv, KeepsInv, TellInv, [Next]_vars PROVE TellInv'
<1>1. ASSUME NEW l \in Launches, Acts(l) PROVE TellInv'
  <2>1. Moving(l) /\ Tickets(l) /\ Rows(l) /\ Holding(l) /\ unheard \subseteq unheard'
    BY <1>1, ActsMove, ActsOnTickets, ActsOnRows, ActsOnHolds, ActsOnUnheard
  <2>2. ASSUME NEW o \in Launches, Fresh(o)' PROVE o \notin announced'
    <3>1. CASE o = l
      <4>1. ~At(l, "commit")
        BY <1>1, <2>2, <3>1, LandGoesOn
      <4>2. announced' = announced
        BY <2>1, <4>1 DEF Rows
      <4>3. Fresh(l) \/ ~call[l].begun
        BY <2>1, <2>2, <3>1 DEF Holding
      <4> QED
        BY <3>1, <4>2, <4>3 DEF TellInv, DiskInv, Begun
    <3>2. CASE o # l
      <4>1. Fresh(o)
        BY <2>1, <2>2, <3>2 DEF Moving, Alone, Fresh, Posting
      <4>2. announced' \subseteq announced \cup {l}
        BY <2>1 DEF Rows, Lands, Land
      <4> QED
        BY <3>2, <4>1, <4>2 DEF TellInv
    <3> QED
      BY <3>1, <3>2
  <2>3. ASSUME forsaken' = {}, NEW o \in announced' \ (heard' \cup unheard' \cup unsaid') PROVE Untold(o)'
    <3>1. forsaken = {}
      BY <2>1, <2>3 DEF Tickets
    <3>2. CASE At(l, "commit") /\ Lands(l)
      <4>1. o = l /\ row'.running = Turn(l) /\ (row'.ended => row'.stop) /\ Telling(l)'
        BY <1>1, <2>3, <3>1, <3>2, LandTells
      <4>2. Begun(l)
        BY <1>1, <2>3, <3>2, <4>1 DEF DiskInv, Begun, Lands, Land, ShapeInv, CallShape, At, Asking, Posting
      <4>3. Turn(l)' = Turn(l)
        BY <2>1, <4>2, BegunStays
      <4> QED
        BY <4>1, <4>3 DEF Untold, Telling
    <3>3. CASE UNCHANGED <<row, announced, heard, unsaid>>
      <4>1. Untold(o) /\ Begun(o) /\ o \in announced
        BY <2>1, <2>3, <3>1, <3>3 DEF TellInv, DiskInv
      <4>2. Turn(o)' = Turn(o)
        BY <2>1, <4>1, BegunStays
      <4>3. CASE o = l
        <5>1. Telling(l) /\ ~Fresh(l) /\ Admitted(Turn(l))
          BY <2>1, <4>1, <4>3 DEF Untold, Telling, Waits, Moving, TellInv, Admitted, Begun
        <5>2. Telling(l)'
          BY <2>1, <2>3, <4>3, <5>1 DEF Holding
        <5> QED
          BY <3>3, <4>1, <4>2, <4>3, <5>2 DEF Untold, Telling
      <4>4. CASE o # l /\ Telling(o)
        <5>1. Telling(o)'
          BY <2>1, <4>1, <4>4 DEF Moving, Alone, Telling, At, Posting, Begun
        <5> QED
          BY <3>3, <4>1, <4>2, <5>1 DEF Untold, Telling
      <4>5. CASE o # l /\ Waits(o)
        <5>1. call'[o] = call[o] /\ ticket'[Turn(o)] = ticket[Turn(o)] /\ o \notin marked'
          BY <2>1, <4>1, <4>5 DEF Moving, Alone, Tickets, Waits, Begun, Typed
        <5>2. Waits(o)'
          BY <2>1, <4>5, <5>1 DEF Waits, Moving, At, Turn
        <5> QED
          BY <3>3, <4>1, <4>2, <5>2 DEF Untold
      <4> QED
        BY <4>1, <4>3, <4>4, <4>5 DEF Untold, Telling
    <3> QED
      BY <2>1, <3>2, <3>3 DEF Rows
  <2> QED
    BY <2>2, <2>3 DEF TellInv, Fresh, Posting, Untold, Waits, At, Turn
<1>2. CASE (\E n \in Turns : Unit(n)) \/ ReadStop \/ RequestStop \/ EndSession \/ Serve
  <2>1. World
    BY <1>2, UnitsAndOwners
  <2>2. /\ UNCHANGED <<call, ticket, todo, marked, announced, heard, unheard, forsaken, unsaid>>
        /\ up' = up \/ todo = {}
        /\ row'.running = row.running
        /\ (row.ended => row.stop) /\ row.running # 0 => (row'.ended => row'.stop)
    BY <2>1 DEF World
  <2>3. ASSUME NEW o \in Launches, call[o].begun, Untold(o) PROVE Untold(o)'
    <3>1. Turn(o) \in Turns
      BY <2>3 DEF ShapeInv, CallShape
    <3>2. row.running # 0
      BY <2>3, <3>1 DEF Untold, Turns
    <3> QED
      BY <2>2, <2>3, <3>2 DEF Untold, Waits, At, Posting, Turn
  <2>4. announced \subseteq Launches /\ \A o \in announced : call[o].begun
    BY DEF DiskInv, Begun
  <2>5. \A o \in Launches : Fresh(o)' => Fresh(o)
    BY <2>2 DEF Fresh, Posting
  <2> QED
    BY <2>2, <2>3, <2>4, <2>5 DEF TellInv
<1>3. CASE Crash
  <2>1. /\ UNCHANGED <<row, ticket, marked, announced, heard, unheard, forsaken, unsaid>> /\ up' = FALSE
        /\ todo' = {n \in Turns : ticket[n] # Nobody}
    BY <1>3 DEF Crash, disk, books
  <2>2. ASSUME NEW o \in Launches PROVE ~Fresh(o)'
    BY <1>3, CrashEffect DEF Ends, At, Idle, Fresh, Posting
  <2>3. ASSUME forsaken = {}, NEW o \in announced, Untold(o) PROVE Untold(o)'
    <3>1. Begun(o) /\ Turn(o) \in Turns /\ o # Nobody
      BY AppTurnsAssumption DEF DiskInv, Begun, ShapeInv, CallShape, Launches, Nobody
    <3>2. ticket[Turn(o)] = o /\ o \notin marked
      <4>1. CASE Telling(o)
        BY <2>3, <3>1, <4>1 DEF Telling, KeepsInv, Begun, DiskInv, ShapeInv, CallShape, At, Posting
      <4> QED
        BY <2>3, <4>1 DEF Untold, Telling, Waits
    <3>3. Turn(o)' = Turn(o) /\ At(o, "over")'
      BY <1>3, <3>1, BegunSurvives DEF At
    <3> QED
      BY <2>1, <2>3, <3>1, <3>2, <3>3 DEF Untold, Waits
  <2> QED
    BY <2>1, <2>2, <2>3 DEF TellInv
<1>4. ASSUME NEW n \in Turns, Adopt(n) PROVE TellInv'
  <2>1. PICK l \in Launches :
          l = ticket[n] /\ Turn(l) = n /\ At(l, "over") /\ l # Nobody /\ l \in Names
    BY <1>4, AdoptFinds
  <2>2. UNCHANGED <<row, up, marked, announced, heard, unheard, unsaid>> /\ forsaken \subseteq forsaken' /\ todo' = todo \ {n}
    BY <1>4 DEF Adopt, DropTicket
  <2>3. ticket' = ticket \/ ticket' = [ticket EXCEPT ![n] = Nobody]
    BY <1>4 DEF Adopt, DropTicket
  <2>4. l \in marked \/ l \in forsaken' \/ Jumps(l, "watch")
    BY <1>4, <2>1, WatchEffect DEF Adopt
  <2>5. call' = call \/ Jumps(l, "watch")
    BY <1>4, <2>1, WatchEffect DEF Adopt
  <2>6. ASSUME NEW o \in Launches, Fresh(o)' PROVE Fresh(o)
    BY <2>5, <2>6 DEF Jumps, Steps, Alone, Fresh, Posting
  <2>7. ASSUME forsaken' = {}, NEW o \in announced, Untold(o) PROVE Untold(o)'
    <3>1. o \in Launches /\ Turn(o) \in Turns /\ Turn(o)' = Turn(o)
      BY <2>5 DEF DiskInv, Begun, ShapeInv, CallShape, Jumps, Steps, Alone, Same, Turn
    <3>2. CASE o = l
      BY <2>1, <2>2, <2>4, <2>7, <3>1, <3>2 DEF Untold, Waits, Jumps, Steps, At, Posting
    <3>3. CASE o # l /\ Telling(o)
      BY <2>2, <2>5, <2>7, <3>1, <3>3 DEF Untold, Telling, Jumps, Steps, Alone, At, Posting
    <3>4. CASE o # l /\ Waits(o)
      <4>1. Turn(o) # n /\ ticket'[Turn(o)] = ticket[Turn(o)]
        BY <2>1, <2>3, <3>1, <3>4 DEF Waits, Typed, TypedDisk
      <4>2. Waits(o)'
        BY <2>2, <2>5, <3>1, <3>4, <4>1 DEF Waits, Jumps, Steps, Alone, At
      <4> QED
        BY <2>2, <2>7, <3>1, <4>2 DEF Untold
    <3> QED
      BY <2>7, <3>2, <3>3, <3>4 DEF Untold, Telling
  <2>8. forsaken' = {} => forsaken = {}
    BY <2>2
  <2> QED
    BY <2>2, <2>6, <2>7, <2>8 DEF TellInv
<1>5. CASE UNCHANGED vars
  BY <1>5 DEF vars, disk, books, TellInv, Fresh, Untold, Waits, At, Posting, Turn
<1> QED
  BY <1>1, <1>2, <1>3, <1>4, <1>5 DEF Next, Acts, Restart
-----------------------------------------------------------------------------
(* What counts against the ceiling *)

(* The ledger stays, or takes in one launch whose cost it did not have.    *)
Ledgered ==
    /\ ledger' \in Nat /\ ledger' >= ledger
    /\ \/ logged' = logged
       \/ \E x \in Launches :
             Pending(x) /\ logged' = logged \cup {x} /\ ledger' >= call[x].before + 1

LEMMA LedgerGrows ==
    ASSUME Typed, CountInv, crossed = {}, Ledgered
    PROVE  /\ Cardinality(logged') <= ledger' /\ Cardinality(logged) <= Cardinality(logged')
           /\ \A o \in Launches : Pending(o) => Cardinality(logged' \ {o}) <= call[o].before
           /\ (\A o \in Launches : ~Pending(o)) => logged' = logged
<1>1. /\ IsFiniteSet(logged) /\ Cardinality(logged) \in Nat /\ Cardinality(logged) <= ledger /\ ledger \in Nat
      /\ \A o \in Launches : call[o].before \in Nat
  BY SetsAreFinite, LaunchIsWhole DEF Typed, TypedBooks, TypedDisk, CountInv, CallRecord
<1>2. CASE logged' = logged
  <2>1. Cardinality(logged) <= ledger'
    BY <1>1 DEF Ledgered
  <2> QED
    BY <1>1, <1>2, <2>1 DEF CountInv, Counted
<1>3. ASSUME NEW x \in Launches, Pending(x), logged' = logged \cup {x}, ledger' >= call[x].before + 1
      PROVE  /\ Cardinality(logged') <= ledger' /\ Cardinality(logged) <= Cardinality(logged')
             /\ \A o \in Launches : Pending(o) => Cardinality(logged' \ {o}) <= call[o].before
  <2>1. IsFiniteSet(logged \ {x}) /\ Cardinality(logged \ {x}) \in Nat /\ Cardinality(logged \ {x}) <= call[x].before
    <3>1. logged \ {x} \in SUBSET Names
      BY DEF Typed, TypedBooks
    <3> QED
      BY <1>3, <3>1, SetsAreFinite DEF CountInv, Counted
  <2>2. logged' = (logged \ {x}) \cup {x} /\ x \notin logged \ {x} /\ logged' \ {x} = logged \ {x}
    BY <1>3
  <2>3. Cardinality(logged') = Cardinality(logged \ {x}) + 1
    BY <2>1, <2>2, FS_AddElement
  <2>4. Cardinality(logged') <= ledger'
    <3>1. ledger' \in Nat /\ call[x].before \in Nat
      BY <1>1 DEF Ledgered
    <3> QED
      BY <1>3, <2>1, <2>3, <3>1
  <2>5. Cardinality(logged) <= Cardinality(logged')
    <3>1. logged \subseteq logged' /\ IsFiniteSet(logged')
      BY <2>1, <2>2, FS_AddElement
    <3> QED
      BY <3>1, FS_Subset
  <2>6. \A o \in Launches : Pending(o) => o = x
    BY <1>3 DEF CountInv
  <2> QED
    BY <2>1, <2>2, <2>4, <2>5, <2>6
<1> QED
  BY <1>2, <1>3 DEF Ledgered

(* What a launch logs late is its own, when no calls crossed.              *)
LEMMA LateIsPending ==
    ASSUME Typed, ShapeInv, DiskInv, NEW o \in Launches, call[o].closed, LogLate(o), crossed' = {}
    PROVE  Ledgered
<1>1. CallShape(o) /\ call[o].begun /\ Turn(o) \in Turns
  BY DEF ShapeInv, CallShape
<1>2. ticket[Turn(o)] = o /\ result[Turn(o)].of \in {Nobody, o}
  BY DEF LogLate
<1>3. Pending(o)
  BY <1>1, <1>2 DEF Pending
<1>4. ledger \in Nat /\ call[o].before \in Nat
  BY LaunchIsWhole DEF Typed, TypedDisk, CallRecord
<1>5. CASE UNCHANGED <<ledger, logged>>
  BY <1>4, <1>5 DEF Ledgered
<1>6. CASE /\ result[Turn(o)].of \in wrote /\ logged' = logged \cup {result[Turn(o)].of}
           /\ ledger' = Larger(ledger, call[o].before + 1)
  <2>1. result[Turn(o)].of = o
    BY <1>2, <1>6, AppTurnsAssumption DEF DiskInv, Begun, Launches, Nobody
  <2> QED
    BY <1>3, <1>4, <1>6, <2>1 DEF Ledgered, Larger
<1> QED
  BY <1>1, <1>5, <1>6, LateLogs

LEMMA ActsOnLedger ==
    ASSUME Typed, ShapeInv, DiskInv, CountInv, crossed = {}, NEW l \in Launches, Acts(l), crossed' = {}
    PROVE  Ledgered
<1>1. ledger \in Nat /\ call[l].before \in Nat
  BY LaunchIsWhole DEF Typed, TypedDisk, CallRecord
<1>2. CASE Resolve(l)
  <2>1. PICK o \in Launches : o = call[l].from /\ call[o].closed
    BY <1>2, ResolveFinds
  <2> QED
    BY <1>2, <2>1, LateIsPending DEF Resolve
<1>3. CASE Finish(l)
  <2>1. At(l, "finish") /\ CallShape(l)
    BY <1>3 DEF Finish, ShapeInv
  <2>2. call[l].from = l
    BY <2>1 DEF CountInv, Counted, Charging
  <2>3. Pending(l)
    BY <2>1 DEF Pending, CallShape, At, Asking, Posting
  <2> QED
    BY <1>1, <1>3, <2>2, <2>3 DEF Finish, WriteLedger, Ledgered, Larger
<1>4. CASE NoteCeiling(l) \/ GiveUp(l)
  BY <1>1, <1>4 DEF NoteCeiling, GiveUp, WriteLedger, Ledgered, Larger, books
<1>5. CASE UNCHANGED <<ledger, logged>>
  BY <1>1, <1>5 DEF Ledgered
<1>6. Resolve(l) \/ Finish(l) \/ NoteCeiling(l) \/ GiveUp(l) \/ UNCHANGED <<ledger, logged>>
  BY DEF Acts, Handoff, Publish, Reap, View, Sweep, CheckCeiling, Claim, WriteTicket, Spawn, EarlyRefusal,
     Undo, RemoveTicket, Gate, Commit, LosePost, FindResult, PollStop, Synthesize, MarkTicket, disk, books
<1> QED
  BY <1>2, <1>3, <1>4, <1>5, <1>6

(* What a step does to what its own launch counts on.                      *)
Counting(l) ==
    /\ call[l].begun => call'[l].before = call[l].before
    /\ Asking(l)' => View(l) \/ (Asking(l) /\ Same(l))
    /\ At(l, "claim")' => CheckCeiling(l)
    /\ call'[l].begun => call[l].begun \/ (At(l, "claim") /\ Begins(l) /\ (crossed' = {} => ~Overtaken(l)))

LEMMA ActsOnCounts ==
    ASSUME Typed, ShapeInv, NEW l \in Launches, Acts(l), Moving(l) PROVE Counting(l)
<1> USE DEF At
<1>1. CallShape(l) /\ call[l] \in CallRecord
  BY LaunchIsWhole DEF ShapeInv
<1>2. ASSUME NEW where \in Places \ {"claim"}, Steps(l, where), Asking(l)' => Asking(l) PROVE Counting(l)
  BY <1>2 DEF Steps, Same, Counting
<1>3. CASE View(l)
  <2>1. Looks(l) /\ ~call[l].begun
    <3>1. At(l, "free")
      BY <1>3 DEF View
    <3>2. ~call[l].begun
      BY <1>1, <3>1 DEF CallShape, Idle
    <3> QED
      BY <1>1, <1>3, <3>2, ViewEffect
  <2> QED
    BY <1>3, <2>1 DEF Looks, Counting
<1>4. CASE (\E n \in Turns : Sweep(l, n)) \/ Resolve(l)
  <2>1. (Steps(l, "resolve") \/ Steps(l, "sweep")) /\ Asking(l)
    BY <1>4, SweepEffect, GotoEffect DEF Sweep, Resolve, Jumps, Places, Asking
  <2> QED
    BY <1>2, <2>1 DEF Places
<1>5. CASE CheckCeiling(l)
  <2>1. Same(l) /\ Asking(l) /\ ~call[l].begun
    BY <1>1, <1>5, CeilingEffect DEF CheckCeiling, Asking, CallShape
  <2> QED
    BY <1>5, <2>1 DEF Counting, Same
<1>6. CASE Claim(l)
  <2>1. ~call[l].begun
    BY <1>1, <1>6 DEF Claim, CallShape, Asking
  <2>2. CASE Refuse(l)
    <3>1. call'[l].pc = "over" /\ ~call'[l].begun
      BY <2>2, RefuseEffect DEF Leaves, Idle
    <3> QED
      BY <2>1, <3>1 DEF Counting, Asking, Posting
  <2>3. CASE ~Refuse(l)
    <3>1. Begins(l) /\ (crossed' = {} => ~Overtaken(l))
      BY <1>6, <2>3, BeginEffect DEF Claim, Overtaken
    <3>2. call'[l].pc = "ticket"
      BY <3>1 DEF Begins
    <3> QED
      BY <1>6, <2>1, <3>1, <3>2 DEF Claim, Counting, Asking, Posting
  <2> QED
    BY <2>2, <2>3
<1>7. CASE NoteCeiling(l)
  <2>1. call'[l].pc = "over" /\ ~call'[l].begun /\ ~call[l].begun
    BY <1>1, <1>7, RefuseEffect DEF NoteCeiling, Leaves, Idle, CallShape, Asking
  <2> QED
    BY <2>1 DEF Counting, Asking, Posting
<1>8. CASE RemoveTicket(l) \/ MarkTicket(l)
  <2>1. Closes(l)
    BY <1>8, CloseEffect DEF RemoveTicket, MarkTicket
  <2> QED
    BY <2>1 DEF Closes, Same, Counting, Asking, Posting
<1>9. CASE WriteTicket(l) \/ Undo(l) \/ Finish(l) \/ GiveUp(l) \/ PollStop(l) \/ EarlyRefusal(l)
  <2>1. \/ Steps(l, "spawn") \/ Steps(l, "undo") \/ Steps(l, "remove")
        \/ Steps(l, "mark") \/ Steps(l, "watch")
    BY <1>9, GotoEffect, SentEffect, RestEffect
       DEF WriteTicket, Undo, Finish, GiveUp, PollStop, EarlyRefusal, Jumps, Rests, Places
  <2> QED
    BY <1>2, <2>1 DEF Steps, Places, Asking, Posting
<1>10. CASE Spawn(l) \/ Synthesize(l) \/ FindResult(l)
  <2>1. (Steps(l, "gate") /\ call'[l].ev # "ceiling") \/ Steps(l, "undo")
    <3>1. CASE Spawn(l)
      BY <3>1, PlainPostEffect, GotoEffect DEF Spawn, Posts, Jumps, Places, Kinds
    <3>2. CASE Synthesize(l)
      BY <3>2, PlainPostEffect DEF Synthesize, Posts, Kinds
    <3>3. CASE FindResult(l)
      <4>1. Turn(l) \in Turns
        BY <1>1, <3>3 DEF FindResult, CallShape, Asking, Posting
      <4>2. result[Turn(l)].how \in Kinds \ {"ceiling"} /\ result[Turn(l)].of \in Names
        BY <4>1 DEF Typed, TypedDisk, Hows, Kinds
      <4> QED
        BY <3>3, <4>2, PostEffect DEF FindResult, Posts
    <3> QED
      BY <1>10, <3>1, <3>2, <3>3
  <2> QED
    BY <1>2, <2>1 DEF Steps, Places, Asking, Posting
<1>11. CASE Gate(l) \/ Commit(l) \/ LosePost(l)
  <2>1. Posting(l)
    BY <1>11 DEF Gate, Commit, LosePost, Posting
  <2>2. CASE GoOn(l)
    <3>1. Rests(l, AfterPost(call[l].ev)) /\ AfterPost(call[l].ev) \in {"watch", "note", "finish", "giveUp"}
      BY <2>2, GoOnEffect
    <3>2. call[l].ev # "ceiling" => AfterPost(call[l].ev) # "note"
      BY DEF AfterPost
    <3>3. Asking(l)' => Asking(l)
      BY <2>1, <3>1, <3>2 DEF Rests, Steps, Asking, Posting
    <3> QED
      BY <1>2, <3>1, <3>3 DEF Rests, Places
  <2>3. CASE (Steps(l, "gate") \/ Steps(l, "commit")) /\ call'[l].ev = call[l].ev
    BY <1>2, <2>1, <2>3 DEF Steps, Places, Asking, Posting
  <2>4. GoOn(l) \/ Goto(l, "commit") \/ call' = [call EXCEPT ![l].pc = "gate", ![l].try = 2]
    BY <1>11 DEF Gate, Commit, LosePost
  <2> QED
    BY <2>2, <2>3, <2>4, GotoEffect, RetryEffect DEF Jumps, Places
<1> QED
  BY <1>3, <1>4, <1>5, <1>6, <1>7, <1>8, <1>9, <1>10, <1>11 DEF Acts, Handoff, Publish, Reap
(* Nothing but a claim makes a launch pending.                             *)
LEMMA CountsStay ==
    ASSUME Typed, CountInv, crossed = {}, Ledgered, NEW o \in Launches,
           Counted(o), call'[o] = call[o],
           \A x \in Launches : Pending(x)' => Pending(x) \/ (~call[x].closed /\ call'[x].begun /\ x # o),
           \A x \in Launches : call[x].begun => call'[x].begun,
           \A x \in Launches : call[x].closed => call'[x].closed
    PROVE  Counted(o)'
<1>1. /\ Cardinality(logged) \in Nat /\ Cardinality(logged') >= Cardinality(logged)
      /\ Pending(o) => Cardinality(logged' \ {o}) <= call[o].before
      /\ (\A x \in Launches : ~Pending(x)) => logged' = logged
  BY LedgerGrows, SetsAreFinite DEF Typed, TypedBooks
<1>2. call[o].sawLogged \in Nat /\ Cardinality(logged') \in Nat
  <2>1. IsFiniteSet(logged')
    BY SetsAreFinite, FS_AddElement DEF Ledgered, Typed, TypedBooks
  <2> QED
    BY <2>1, FS_CardinalityType, LaunchIsWhole DEF CallRecord
<1>3. Pending(o)' => Cardinality(logged' \ {o}) <= call'[o].before
  BY <1>1
<1>4. Charging(o)' => call'[o].from = o
  BY DEF Counted, Charging, Posting, At
<1>5. Asking(o)' \/ call'[o].begun => call'[o].sawLogged <= Cardinality(logged')
  <2>1. Asking(o)' => Asking(o)
    BY DEF Asking, Posting
  <2>2. Asking(o) \/ call[o].begun => call[o].sawLogged <= Cardinality(logged)
    BY DEF Counted
  <2> QED
    BY <1>1, <1>2, <2>1, <2>2
<1>6. Asking(o)' => \A x \in call'[o].saw : call'[x].closed
  <2>1. call[o].saw \in SUBSET Launches
    BY LaunchIsWhole DEF CallRecord
  <2> QED
    BY <2>1 DEF Counted, Asking, Posting
<1>7. call'[o].begun => call'[o].sawLogged < Ceiling
  BY DEF Counted
<1>8. ASSUME At(o, "claim")'
      PROVE  /\ call'[o].sawLogged <= call'[o].before /\ call'[o].before < Ceiling
             /\ \/ Overtaken(o)'
                \/ /\ \A x \in Launches : ~Pending(x)'
                   /\ Cardinality(logged') <= call'[o].before
  <2>1. At(o, "claim") /\ Asking(o)
    BY <1>8 DEF At, Asking
  <2>2. CASE Overtaken(o)
    BY <2>1, <2>2 DEF Counted, Overtaken
  <2>3. CASE ~Overtaken(o) /\ \E x \in Launches : Pending(x)'
    <3>1. PICK x \in Launches : Pending(x)'
      BY <2>3
    <3>2. \A y \in Launches : ~Pending(y)
      BY <2>1, <2>3 DEF Counted
    <3>3. ~call[x].closed /\ call'[x].begun
      BY <3>1, <3>2
    <3>4. x \notin call[o].saw
      BY <2>1, <3>3 DEF Counted
    <3> QED
      BY <2>1, <3>3, <3>4 DEF Counted, Overtaken
  <2>4. CASE ~Overtaken(o) /\ \A x \in Launches : ~Pending(x)'
    BY <1>1, <2>1, <2>4 DEF Counted
  <2> QED
    BY <2>2, <2>3, <2>4
<1> QED
  BY <1>3, <1>4, <1>5, <1>6, <1>7, <1>8 DEF Counted

LEMMA CountStep ==
    ASSUME Typed, ShapeInv, DiskInv, TodoInv, MeterInv, CountInv, [Next]_vars PROVE CountInv'
<1> SUFFICES ASSUME crossed' = {} PROVE CountInv'
  BY DEF CountInv
<1>1. ASSUME NEW l \in Launches, Acts(l) PROVE CountInv'
  <2>1. Moving(l) /\ Tickets(l) /\ Rows(l) /\ Counting(l)
    BY <1>1, ActsMove, ActsOnTickets, ActsOnRows, ActsOnCounts
  <2>2. crossed = {}
    BY <2>1 DEF Rows
  <2>3. Ledgered
    BY <1>1, <2>2, ActsOnLedger
  <2>4. /\ Cardinality(logged') <= ledger' /\ Cardinality(logged) <= Cardinality(logged')
        /\ \A o \in Launches : Pending(o) => Cardinality(logged' \ {o}) <= call[o].before
        /\ (\A o \in Launches : ~Pending(o)) => logged' = logged
    BY <2>2, <2>3, LedgerGrows
  <2>5. Cardinality(logged) \in Nat /\ Cardinality(logged') \in Nat /\ ledger \in Nat
    BY <2>1, SetsAreFinite DEF Rows, Typed, TypedBooks, TypedDisk
  <2>6. ASSUME NEW o \in Launches, Pending(o)' PROVE Pending(o) \/ (o = l /\ ~call[l].begun /\ call'[l].begun)
    <3>1. CASE o = l
      BY <2>1, <2>6, <3>1 DEF Pending, Moving
    <3>2. CASE o # l
      <4>1. call'[o] = call[o] /\ call[o].begun
        BY <2>1, <2>6, <3>2 DEF Moving, Alone, Pending
      <4>2. Turn(o) \in Turns /\ Turn(o)' = Turn(o) /\ o # Nobody
        BY <4>1, AppTurnsAssumption DEF ShapeInv, CallShape, Turn, Launches, Nobody
      <4>3. ticket'[Turn(o)] = o => ticket[Turn(o)] = o
        BY <2>1, <3>2, <4>2 DEF Tickets
      <4> QED
        BY <2>6, <4>1, <4>2, <4>3 DEF Pending
    <3> QED
      BY <3>1, <3>2
  <2>7. /\ ~call[l].closed
        /\ \A o \in Launches : call[o].begun => call'[o].begun
        /\ \A o \in Launches : call[o].closed => call'[o].closed
    BY <2>1 DEF Moving, Alone, Same
  <2>8. ASSUME NEW o \in Launches \ {l} PROVE Counted(o)'
    <3>1. Counted(o) /\ call'[o] = call[o]
      BY <2>1, <2>2 DEF CountInv, Moving, Alone
    <3>2. \A x \in Launches : Pending(x)' => Pending(x) \/ (~call[x].closed /\ call'[x].begun /\ x # o)
      BY <2>6, <2>7
    <3> QED
      BY <2>2, <2>3, <2>7, <3>1, <3>2, CountsStay
  <2>9. ASSUME call'[l].begun, ~call[l].begun
        PROVE  /\ \A o \in Launches : ~Pending(o)
               /\ Cardinality(logged') <= call'[l].before /\ call'[l].sawLogged < Ceiling
               /\ call'[l].sawLogged <= Cardinality(logged')
    <3>1. At(l, "claim") /\ Begins(l) /\ ~Overtaken(l) /\ Counted(l)
      BY <2>1, <2>2, <2>9 DEF Counting, CountInv
    <3>2. /\ \A o \in Launches : ~Pending(o)
          /\ Cardinality(logged) <= call[l].before /\ call[l].sawLogged <= call[l].before
          /\ call[l].before < Ceiling /\ call[l].sawLogged <= Cardinality(logged)
      BY <3>1 DEF Counted, At, Asking
    <3>3. call[l].before \in Nat /\ call[l].sawLogged \in Nat /\ Ceiling \in Nat
      BY LaunchIsWhole, AppTurnsAssumption DEF CallRecord
    <3>4. call'[l].before = call[l].before /\ call'[l].sawLogged = call[l].sawLogged
      BY <3>1 DEF Begins
    <3>5. call[l].sawLogged < Ceiling
      BY <3>2, <3>3
    <3> QED
      BY <2>4, <3>2, <3>4, <3>5
  <2>10. Counted(l)'
    <3>1. Pending(l)' => Cardinality(logged' \ {l}) <= call'[l].before
      <4>1. CASE Pending(l)
        BY <2>1, <2>4, <4>1 DEF Pending, Counting
      <4>2. CASE ~call[l].begun /\ call'[l].begun
        <5>1. Cardinality(logged' \ {l}) <= Cardinality(logged')
          <6>1. IsFiniteSet(logged')
            BY <2>1, SetsAreFinite DEF Rows
          <6> QED
            BY <6>1, FS_Subset
        <5>2. Cardinality(logged' \ {l}) \in Nat /\ call'[l].before \in Nat
          <6>1. logged' \ {l} \in SUBSET Names
            BY <2>1 DEF Rows
          <6>2. call'[l] \in CallRecord
            BY <2>1 DEF Moving, Alone
          <6> QED
            BY <6>1, <6>2, SetsAreFinite DEF CallRecord
        <5> QED
          BY <2>5, <2>9, <4>2, <5>1, <5>2
      <4> QED
        BY <2>6, <4>1, <4>2
    <3>2. Charging(l)' => call'[l].from = l
      <4>1. ASSUME Charging(l)' PROVE call'[l].from = l
        <5>1. TakesFrom(l)
          BY <1>1, <4>1, ActsOnCharges
        <5>2. Charging(l) => call[l].from = l
          BY <2>2 DEF CountInv, Counted
        <5>3. FindResult(l) => result[Turn(l)].of = l
          BY DEF FindResult
        <5> QED
          BY <5>1, <5>2, <5>3 DEF TakesFrom
      <4> QED
        BY <4>1
    <3>3. View(l) => Looks(l)
      BY ViewEffect DEF ShapeInv
    <3>4. Asking(l)' \/ call'[l].begun => call'[l].sawLogged <= Cardinality(logged')
      <4>1. CASE View(l)
        BY <2>4, <2>5, <3>3, <4>1 DEF Looks
      <4>2. ASSUME Asking(l) \/ call[l].begun, Same(l) PROVE call'[l].sawLogged <= Cardinality(logged')
        <5>1. call[l].sawLogged <= Cardinality(logged) /\ call[l].sawLogged \in Nat
          BY <2>2, <4>2, LaunchIsWhole DEF CountInv, Counted, CallRecord
        <5> QED
          BY <2>4, <2>5, <4>2, <5>1 DEF Same
      <4> QED
        BY <2>1, <2>9, <4>1, <4>2 DEF Counting, Moving
    <3>5. Asking(l)' => \A o \in call'[l].saw : call'[o].closed
      <4>1. CASE View(l)
        BY <2>7, <3>3, <4>1 DEF Looks
      <4>2. CASE Asking(l) /\ Same(l)
        <5>1. call[l].saw \in SUBSET Launches /\ \A o \in call[l].saw : call[o].closed
          BY <2>2, <4>2, LaunchIsWhole DEF CountInv, Counted, CallRecord
        <5> QED
          BY <2>7, <4>2, <5>1 DEF Same
      <4> QED
        BY <2>1, <4>1, <4>2 DEF Counting
    <3>6. call'[l].begun => call'[l].sawLogged < Ceiling
      BY <2>1, <2>2, <2>9 DEF CountInv, Counted, Moving, Same
    <3>7. ASSUME At(l, "claim")'
          PROVE  /\ call'[l].sawLogged <= call'[l].before /\ call'[l].before < Ceiling
                 /\ \/ Overtaken(l)'
                    \/ /\ \A x \in Launches : ~Pending(x)'
                       /\ Cardinality(logged') <= call'[l].before
      <4>1. CheckCeiling(l) /\ At(l, "sweep") /\ Asking(l)
        BY <2>1, <3>7 DEF Counting, CheckCeiling, At, Asking
      <4>2. Same(l) /\ call'[l].before = Spent(l) /\ Spent(l) < Ceiling
        BY <3>7, <4>1, CeilingEffect DEF At
      <4>3. Spent(l) \in Nat /\ Spent(l) >= ledger /\ call[l].sawLogged \in Nat
        BY SpentIsKnown, LaunchIsWhole DEF CallRecord
      <4>4. call[l].sawLogged <= Cardinality(logged) /\ Cardinality(logged) <= ledger
        BY <2>2, <4>1 DEF CountInv, Counted
      <4>5. call[l].sawLogged <= Spent(l) /\ Cardinality(logged) <= Spent(l)
        BY <2>5, <4>3, <4>4
      <4>6. CASE Overtaken(l)
        BY <2>7, <4>2, <4>5, <4>6 DEF Overtaken, Same
      <4>7. CASE ~Overtaken(l)
        <5>1. ASSUME NEW x \in Launches, Pending(x) PROVE FALSE
          <6>1. x \in call[l].saw /\ call[x].closed /\ call[x].begun
            BY <2>2, <4>1, <4>7, <5>1 DEF Overtaken, Pending, CountInv, Counted
          <6>2. Turn(x) \in Turns /\ ticket[Turn(x)] = x /\ x \in marked
            BY <5>1, <6>1 DEF Pending, ShapeInv, CallShape
          <6> QED
            BY <4>1, <6>1, <6>2 DEF CheckCeiling
        <5>2. \A x \in Launches : ~Pending(x)'
          <6>1. ~call'[l].begun
            <7>1. ~call[l].begun
              BY <4>1 DEF ShapeInv, CallShape
            <7> QED
              BY <4>2, <7>1 DEF Same
          <6> QED
            BY <2>6, <5>1, <6>1
        <5>3. logged' = logged
          BY <2>4, <5>1
        <5> QED
          BY <4>2, <4>5, <5>2, <5>3 DEF Same
      <4> QED
        BY <4>6, <4>7
    <3> QED
      BY <3>1, <3>2, <3>4, <3>5, <3>6, <3>7 DEF Counted
  <2>11. ASSUME NEW o \in Launches, NEW x \in Launches, Pending(o)', Pending(x)' PROVE o = x
    BY <2>2, <2>6, <2>9, <2>11 DEF CountInv, Pending
  <2> QED
    BY <2>4, <2>8, <2>10, <2>11 DEF CountInv
<1>2. CASE (\E n \in Turns : Unit(n)) \/ ReadStop \/ RequestStop \/ EndSession \/ Serve
  <2>1. UNCHANGED <<call, ticket, ledger, logged, crossed>>
    BY <1>2, UnitsAndOwners DEF World
  <2> QED
    BY <2>1 DEF CountInv, Counted, Pending, Overtaken, Charging, Asking, Posting, At, Turn
<1>3. CASE Crash
  <2>1. UNCHANGED <<ticket, ledger, logged, crossed>>
    BY <1>3 DEF Crash, disk, books
  <2>2. ASSUME NEW o \in Launches
        PROVE  /\ call'[o].pc \in {"free", "over"}
               /\ call'[o].begun => Begun(o)
    BY <1>3, CrashEffect DEF Ends, At, Idle, Begun, ShapeInv, CallShape
  <2>3. ASSUME NEW o \in Launches, Begun(o)
        PROVE  /\ Pending(o)' => Pending(o)
               /\ call'[o].before = call[o].before /\ call'[o].sawLogged = call[o].sawLogged
    BY <1>3, <2>1, <2>3, BegunSurvives DEF Pending, Begun
  <2>4. \A o \in Launches : Pending(o)' => Begun(o) /\ Pending(o)
    BY <2>2, <2>3 DEF Pending
  <2>5. ASSUME NEW o \in Launches PROVE Counted(o)'
    <3>1. Counted(o)
      BY <2>1 DEF CountInv
    <3>2. ~Charging(o)' /\ ~Asking(o)' /\ ~At(o, "claim")'
      BY <2>2 DEF Charging, Asking, Posting, At
    <3>3. call'[o].begun => call'[o].before = call[o].before /\ call'[o].sawLogged = call[o].sawLogged /\ call[o].begun
      BY <2>2, <2>3 DEF Begun
    <3>4. Pending(o)' => call'[o].begun
      BY DEF Pending
    <3> QED
      BY <2>1, <2>4, <3>1, <3>2, <3>3, <3>4 DEF Counted
  <2> QED
    BY <2>1, <2>4, <2>5 DEF CountInv
<1>4. ASSUME NEW n \in Turns, Adopt(n) PROVE CountInv'
  <2>1. PICK l \in Launches :
          /\ l = ticket[n] /\ Turn(l) = n /\ call[l].begun /\ At(l, "over") /\ l # Nobody
          /\ l \notin marked => ~call[l].closed
    BY <1>4, AdoptFinds
  <2>2. crossed = {} /\ ledger \in Nat
    BY <1>4, <2>1 DEF Adopt, LogLate, Typed, TypedDisk
  <2>3. Ledgered
    <3>1. CASE LogLate(l) /\ l \in marked
      BY <2>1, <3>1, LateIsPending DEF DiskInv
    <3>2. CASE UNCHANGED <<ledger, logged>>
      BY <2>2, <3>2 DEF Ledgered
    <3> QED
      BY <1>4, <2>1, <3>1, <3>2 DEF Adopt
  <2>4. ticket' = ticket \/ ticket' = [ticket EXCEPT ![n] = Nobody]
    BY <1>4 DEF Adopt, DropTicket
  <2>5. call' = call \/ (Jumps(l, "watch") /\ l \notin marked /\ UNCHANGED <<ledger, logged>>)
    BY <1>4, <2>1, WatchEffect DEF Adopt
  <2>6. \A o \in Launches : /\ call'[o].begun = call[o].begun /\ call'[o].closed = call[o].closed
                            /\ Turn(o)' = Turn(o)
    BY <2>5 DEF Jumps, Steps, Alone, Same, Turn
  <2>7. ASSUME NEW o \in Launches, Pending(o)' PROVE Pending(o)
    <3>1. Turn(o) \in Turns /\ o # Nobody
      BY <2>6, <2>7, AppTurnsAssumption DEF Pending, ShapeInv, CallShape, Launches, Nobody
    <3> QED
      BY <2>4, <2>6, <2>7, <3>1 DEF Pending, Typed, TypedDisk
  <2>8. Cardinality(logged') <= ledger'
    BY <2>2, <2>3, LedgerGrows
  <2>9. ASSUME NEW o \in Launches PROVE Counted(o)'
    <3>1. CASE call'[o] = call[o]
      BY <2>2, <2>3, <2>6, <2>7, <3>1, CountsStay DEF CountInv
    <3>2. CASE o = l /\ Jumps(l, "watch") /\ UNCHANGED <<ledger, logged>>
      <4>1. /\ call'[l].before = call[l].before /\ call'[l].sawLogged = call[l].sawLogged
            /\ ~Charging(l)' /\ ~Asking(l)' /\ ~At(l, "claim")'
        BY <3>2 DEF Jumps, Steps, Same, Charging, Asking, Posting, At
      <4> QED
        BY <2>1, <2>2, <2>6, <2>7, <3>2, <4>1 DEF CountInv, Counted
    <3> QED
      BY <2>5, <3>1, <3>2 DEF Jumps, Steps, Alone
  <2> QED
    BY <2>2, <2>7, <2>8, <2>9 DEF CountInv
<1>5. CASE UNCHANGED vars
  BY <1>5 DEF vars, disk, books, CountInv, Counted, Pending, Overtaken, Charging, Asking, Posting, At, Turn
<1> QED
  BY <1>1, <1>2, <1>3, <1>4, <1>5 DEF Next, Acts, Restart
-----------------------------------------------------------------------------
(* The invariant *)

LEMMA InitHolds == Init => IInv
<1> SUFFICES ASSUME Init PROVE IInv
  OBVIOUS
<1>1. 0 \in Names /\ Nobody = 0 /\ NoResult \in [of : Names, how : Hows]
  BY AppTurnsAssumption DEF Names, Nobody, NoResult, Hows
<1>2. /\ call = [l \in Launches |-> Idle] /\ ticket = [n \in Turns |-> Nobody]
      /\ unit = [n \in Turns |-> Nobody] /\ result = [n \in Turns |-> NoResult]
      /\ active = Nobody /\ up = TRUE /\ todo = {} /\ marked = {} /\ ledger = 0 /\ troubles = 0
      /\ wrote = {} /\ logged = {} /\ announced = {} /\ heard = {} /\ unheard = {}
      /\ forsaken = {} /\ crossed = {} /\ unsaid = {} /\ press = "none"
  BY DEF Init
<1>3. row = [ended |-> FALSE, stop |-> FALSE, turns |-> 0, tokens |-> 0, running |-> 0, charged |-> {}]
  BY DEF Init
<1>4. row \in RowRecord
  BY <1>1, <1>3 DEF RowRecord
<1>5. Typed
  <2>1. TypedDisk /\ TypedBooks
    BY <1>1, <1>2 DEF TypedDisk, TypedBooks
  <2> QED
    BY <1>1, <1>2, <1>4, <2>1, IdleIsWhole DEF Typed
<1>6. \A l \in Launches : call[l] = Idle /\ 0 < l
  BY <1>2, AppTurnsAssumption DEF Launches
<1>7. Idle.pc = "free" /\ ~Idle.begun /\ ~Idle.closed /\ Idle.turn = 0
  BY DEF Idle
<1>8. \A l \in Launches : At(l, "free") /\ ~call[l].begun /\ ~call[l].closed /\ call[l].turn = 0
  BY <1>6, <1>7 DEF At
<1>9. ShapeInv
  <2> SUFFICES ASSUME NEW l \in Launches PROVE CallShape(l)
    BY DEF ShapeInv
  <2>1. At(l, "free") /\ call[l] = Idle /\ ~call[l].begun /\ ~call[l].closed /\ call[l].turn = 0
    BY <1>6, <1>8
  <2>2. ~Asking(l) /\ ~Starting(l) /\ ~Posting(l) /\ ~At(l, "resolve") /\ ~At(l, "over")
    BY <2>1 DEF At, Asking, Starting, Posting
  <2>3. row.turns < l /\ call[l].turn <= l
    BY <1>3, <1>6, <2>1, AppTurnsAssumption DEF Launches
  <2>4. \A m \in Launches : l < m => At(m, "free")
    BY <1>8
  <2> QED
    BY <2>1, <2>2, <2>3, <2>4 DEF CallShape
<1>10. DiskInv /\ TodoInv
  BY <1>2 DEF DiskInv, TodoInv
<1>11. ClaimInv /\ KeepsInv
  BY <1>1, <1>2, <1>6, <1>8 DEF ClaimInv, KeepsInv, Holds, At, Posting
<1>12. WriterInv
  BY <1>2 DEF WriterInv, Working
<1>13. MeterInv
  BY <1>3, <1>8, FS_EmptySet DEF MeterInv, Charging, At, Posting
<1>14. TellInv
  BY <1>2, <1>8 DEF TellInv, Fresh, At, Posting
<1>15. CountInv
  BY <1>2, <1>8, FS_EmptySet DEF CountInv, Counted, Pending, Charging, Asking, At, Posting
<1> QED
  BY <1>5, <1>9, <1>10, <1>11, <1>12, <1>13, <1>14, <1>15 DEF IInv

LEMMA NextKeeps == IInv /\ [Next]_vars => IInv'
<1> SUFFICES ASSUME IInv, [Next]_vars PROVE IInv'
  OBVIOUS
<1>1. /\ Typed /\ ShapeInv /\ DiskInv /\ TodoInv /\ ClaimInv /\ KeepsInv
      /\ WriterInv /\ MeterInv /\ TellInv /\ CountInv
  BY DEF IInv
<1> QED
  BY <1>1, TypeStep, ShapeStep, DiskStep, TodoStep, ClaimStep, KeepsStep, WriterStep, MeterStep, TellStep, CountStep
     DEF IInv

(* The inductive invariant holds for any ceiling, launches and troubles.   *)
THEOREM AppTurnsInvariance == Spec => []IInv
  BY InitHolds, NextKeeps, PTL DEF Spec

(* Every variable has its type, who has the app has claimed it, and what   *)
(* is on disk or runs belongs to a launch of that turn number.             *)
THEOREM AppTurnsTypeCorrect == Spec => []TypeOK
<1>1. IInv => TypeOK
  <2> SUFFICES ASSUME IInv PROVE TypeOK
    OBVIOUS
  <2>1. /\ row.turns \in 0..MaxLaunches /\ row.tokens \in Nat
        /\ row.running \in 0..MaxLaunches /\ row.charged \subseteq Turns
        /\ press \in {"none", "first", "again"} /\ todo \subseteq Turns /\ (todo # {} => ~up)
        /\ marked \subseteq Launches
    BY DEF IInv, Typed, TypedDisk, RowRecord, Names, TodoInv
  <2>2. active \in Launches \cup {Nobody}
    BY AppTurnsAssumption DEF IInv, Typed, Names, Launches, Nobody
  <2>3. ASSUME active # Nobody PROVE call[active].begun
    <3>1. active \in Launches /\ Holds(active) /\ CallShape(active)
      BY <2>2, <2>3 DEF IInv, ClaimInv, ShapeInv
    <3> QED
      BY <3>1 DEF CallShape, Holds, At, Asking, Posting
  <2>4. ASSUME NEW n \in Turns, NEW l \in {ticket[n], unit[n], result[n].of} \ {Nobody}
        PROVE  l \in Launches /\ Turn(l) = n
    <3>1. CASE l = result[n].of
      <4>1. result[n] # NoResult
        BY <2>4, <3>1 DEF NoResult
      <4> QED
        BY <3>1, <4>1 DEF IInv, DiskInv, Begun
    <3> QED
      BY <2>4, <3>1 DEF IInv, DiskInv, Begun
  <2>5. \A n \in Turns : result[n].how \in {"none", "written", "haltedScoped", "secret"}
    BY DEF IInv, Typed, TypedDisk, Hows
  <2> QED
    BY <2>1, <2>2, <2>3, <2>4, <2>5 DEF TypeOK
<1> QED
  BY <1>1, AppTurnsInvariance, PTL

(* One turn writes the app's tree at a time, but for units the broker has  *)
(* let go of, across restarts, adoptions and lost posts.                   *)
THEOREM OneTurnWrites == Spec => []OneWriter
<1>1. IInv => OneWriter
  <2> SUFFICES ASSUME IInv PROVE OneWriter
    OBVIOUS
  <2>1. \A m, n \in Working : m = n
    BY DEF IInv, WriterInv
  <2>2. CASE Working = {}
    BY <2>2, FS_EmptySet DEF OneWriter
  <2>3. CASE Working # {}
    <3>1. PICK n : Working = {n}
      BY <2>1, <2>3
    <3>2. Cardinality({n}) = 1
      BY FS_Singleton
    <3> QED
      BY <3>1, <3>2 DEF OneWriter
  <2> QED
    BY <2>2, <2>3
<1> QED
  BY <1>1, AppTurnsInvariance, PTL

(* A turn posted again, by this broker or the next, is not charged again:  *)
(* the session pays for at most the records that were written.             *)
THEOREM TurnsAreChargedOnce == Spec => []NeverOvercharged
<1>1. IInv => NeverOvercharged
  <2> SUFFICES ASSUME IInv PROVE NeverOvercharged
    OBVIOUS
  <2> DEFINE Told == {Turn(l) : l \in wrote}
             f == [l \in wrote |-> Turn(l)]
  <2>1. IsFiniteSet(wrote) /\ Cardinality(wrote) \in Nat
    BY SetsAreFinite DEF IInv, Typed, TypedBooks
  <2>2. f \in Surjection(wrote, Told)
    BY DEF Surjection
  <2>3. IsFiniteSet(Told) /\ Cardinality(Told) <= Cardinality(wrote)
    BY <2>1, <2>2, FS_Surjection
  <2>4. row.charged \subseteq Told
    BY DEF IInv, MeterInv
  <2> HIDE DEF Told
  <2>5. Cardinality(row.charged) <= Cardinality(Told)
    BY <2>3, <2>4, FS_Subset
  <2>6. Cardinality(row.charged) \in Nat /\ Cardinality(Told) \in Nat
    BY <2>3, <2>4, FS_Subset, FS_CardinalityType
  <2> QED
    BY <2>1, <2>3, <2>5, <2>6 DEF IInv, MeterInv, NeverOvercharged
<1> QED
  BY <1>1, AppTurnsInvariance, PTL

(* A turn launched on a view of all that had ended, with a ledger it could *)
(* read, was under the ceiling, with what was logged but never posted and  *)
(* what came late.                                                         *)
THEOREM TurnsStayUnderTheCeiling == Spec => []CeilingHolds
<1>1. IInv => CeilingHolds
  BY DEF IInv, CountInv, Counted, CeilingHolds
<1> QED
  BY <1>1, AppTurnsInvariance, PTL

(* Once no thread is left, the room has heard the end of every turn it was *)
(* told of, also of those that a restart or the end of the session met,    *)
(* but for posts that were lost and lines the server could not post.       *)
THEOREM TurnsAreToldToTheEnd == Spec => []EveryTurnIsTold
<1>1. IInv => EveryTurnIsTold
  <2> SUFFICES ASSUME IInv, AtRest, forsaken = {}, NEW l \in announced, l \notin heard \cup unheard \cup unsaid PROVE FALSE
    BY DEF EveryTurnIsTold
  <2>1. Untold(l) /\ l \in Launches
    BY DEF IInv, TellInv, Typed, TypedBooks
  <2> QED
    BY <2>1 DEF Untold, Waits, AtRest, At, Posting
<1> QED
  BY <1>1, AppTurnsInvariance, PTL

(* The app is free again when the last thread has gone.                    *)
THEOREM TheAppComesBack == Spec => []ClaimComesBack
<1>1. IInv => ClaimComesBack
  <2> SUFFICES ASSUME IInv, AtRest, active # Nobody PROVE FALSE
    BY DEF ClaimComesBack
  <2>1. active \in Launches
    BY AppTurnsAssumption DEF IInv, Typed, Names, Launches, Nobody
  <2> QED
    BY <2>1 DEF IInv, ClaimInv, Holds, AtRest, Posting
<1> QED
  BY <1>1, AppTurnsInvariance, PTL
=============================================================================
