---------------------------- MODULE BuildsProofs ----------------------------
(***************************************************************************)
(* Proofs about Builds, for any specs, cap, builds, days and crashes.      *)
(*                                                                         *)
(* Everything is keyed by the slug: the claim in memory, the ticket on     *)
(* disk, the unit.  The invariant says when a name can be trusted: a build *)
(* that has neither been robbed nor refunded is the only one that holds    *)
(* its slug, and while the broker is adopting, a slug it has not looked at *)
(* has no thread.                                                          *)
(***************************************************************************)
EXTENDS Builds, FiniteSetTheorems, TLAPS

Places == {"reserve", "logs", "ticket", "announce", "spawn", "watch", "restamp", "refused",
           "poll", "tidy", "logsGone", "ticketGone", "tidyUnclaimed", "kept", "left", "over"}
Verbs == {"waits", "returns", "audited", "lost"}
Record == [pc : Places, slug : Slugs, day : 0..NoDay, verb : Verbs, refund : BOOLEAN]
Free == [pc |-> "free"]

Names(s, b) == b \in Builds /\ ~At(b, "free") /\ Slug(b) = s

(* Every variable has its type, and names on disk and of units are right.  *)
Shape ==
    /\ day \in 0..MaxDay /\ up \in BOOLEAN /\ todo \subseteq Slugs /\ (todo # {} => ~up)
    /\ spec \in [Slugs -> {"confirmed", "building", "ended"}]
    /\ ticket \in [Slugs -> Builds \cup {Nothing}] /\ unit \in [Slugs -> Builds \cup {Nothing}]
    /\ logs \subseteq Builds /\ active \subseteq Slugs
    /\ exit \in [Builds -> {"none", "ok", "refused"}]
    /\ count \in [day : 0..NoDay, n : 0..Cap]
    /\ audited \in [Builds -> 0..NoDay]
    /\ build \in [Builds -> {Free} \cup Record]
    /\ crashes \in Nat /\ misrefunds \in Nat /\ told \in [Builds -> Nat]
    /\ robbed \subseteq Builds /\ cut \subseteq Builds
    /\ \A s \in Slugs : \A b \in {ticket[s], unit[s]} \ {Nothing} : Names(s, b)

-----------------------------------------------------------------------------
(* Steps *)

LEMMA RecordsAreWhole ==
    ASSUME Shape, NEW b \in Builds
    PROVE  /\ ~At(b, "free") => build[b] \in Record
           /\ At(b, "free") => build[b] = Free
  BY DEF Shape, At, Record, Free, Places

(* A thread goes on: of its build only the place changes.                  *)
Moves(b, where) ==
    /\ build' \in [Builds -> {Free} \cup Record]
    /\ build[b] \in Record /\ build[b].pc # "free"
    /\ build'[b].pc = where /\ build'[b].slug = build[b].slug
    /\ build'[b].day = build[b].day /\ build'[b].verb = build[b].verb
    /\ build'[b].refund = build[b].refund
    /\ \A c \in Builds \ {b} : build'[c] = build[c]

LEMMA GotoMoves ==
    ASSUME Shape, NEW b \in Builds, ~At(b, "free"), NEW where \in Places, Goto(b, where)
    PROVE  Moves(b, where)
<1>1. build[b] \in Record
  BY RecordsAreWhole
<1> QED
  BY <1>1 DEF Goto, Shape, Record, Moves, At

(* What is not free stays so, and keeps its slug.                          *)
Grows ==
    /\ build' \in [Builds -> {Free} \cup Record]
    /\ \A b \in Builds : ~At(b, "free") => ~At(b, "free")' /\ Slug(b)' = Slug(b)

LEMMA MovesGrows ==
    ASSUME Shape, NEW b \in Builds, NEW where \in Places, Moves(b, where) PROVE Grows
<1>1. where # "free"
  BY DEF Places
<1> QED
  BY <1>1 DEF Moves, Grows, At, Slug

(* The names that were right stay right.                                   *)
LEMMA NamesStay ==
    ASSUME Shape, Grows, NEW s \in Slugs, NEW b, Names(s, b) PROVE Names(s, b)'
  BY DEF Names, Grows

LEMMA StampKeeps ==
    ASSUME Shape, NEW s \in Slugs, NEW from \in {"confirmed", "building", "ended"},
           NEW status \in {"confirmed", "building", "ended"}, Stamp(s, from, status)
    PROVE  spec' \in [Slugs -> {"confirmed", "building", "ended"}]
  BY DEF Stamp, Shape

(* A refund gives the slug back and a slot, if the count has any left.     *)
LEMMA RefundKeeps ==
    ASSUME Shape, NEW b \in Builds, ~At(b, "free"), Refund(b)
    PROVE  /\ count' \in [day : 0..NoDay, n : 0..Cap] /\ misrefunds' \in Nat
           /\ active' \subseteq Slugs /\ robbed' \subseteq Builds
<1>1. count' \in [day : 0..NoDay, n : 0..Cap]
  <2>1. count'.n \in 0..Cap
    BY BuildsAssumption DEF Refund, Shape
  <2> QED
    BY <2>1 DEF Refund, Shape
<1>2. misrefunds' \in Nat /\ active' \subseteq Slugs
  BY DEF Refund, Shape
<1>3. robbed' \subseteq Builds
  BY DEF Refund, LeavesOthers, Claimants, Shape
<1> QED
  BY <1>1, <1>2, <1>3

(* What the rest of a state must be for the shape to stay.                 *)
Fits ==
    /\ day' \in 0..MaxDay /\ up' \in BOOLEAN /\ todo' \subseteq Slugs /\ (todo' # {} => ~up')
    /\ spec' \in [Slugs -> {"confirmed", "building", "ended"}]
    /\ logs' \subseteq Builds /\ active' \subseteq Slugs
    /\ exit' \in [Builds -> {"none", "ok", "refused"}]
    /\ count' \in [day : 0..NoDay, n : 0..Cap]
    /\ audited' \in [Builds -> 0..NoDay]
    /\ crashes' \in Nat /\ misrefunds' \in Nat /\ told' \in [Builds -> Nat]
    /\ robbed' \subseteq Builds /\ cut' \subseteq Builds

(* A name map that only loses names, or gains the right one.               *)
Renames(m, n) ==
    /\ n \in [Slugs -> Builds \cup {Nothing}]
    /\ \A s \in Slugs, b \in Builds : n[s] = b => m[s] = b \/ Names(s, b)'

LEMMA OneNameChanges ==
    ASSUME NEW m \in [Slugs -> Builds \cup {Nothing}], NEW n, NEW s \in Slugs,
           NEW v \in Builds \cup {Nothing}, v \in Builds => Names(s, v)',
           n = m \/ n = [m EXCEPT ![s] = v]
    PROVE  Renames(m, n)
  BY DEF Renames

LEMMA OneNameGoes ==
    ASSUME NEW m \in [Slugs -> Builds \cup {Nothing}], NEW n, NEW s \in Slugs,
           n = [m EXCEPT ![s] = Nothing]
    PROVE  Renames(m, n)
  BY DEF Renames, Builds, Nothing

LEMMA ShapeStays ==
    ASSUME Shape, Grows, Fits, Renames(ticket, ticket'), Renames(unit, unit')
    PROVE  Shape'
<1>1. ASSUME NEW s \in Slugs, NEW b \in Builds, b = ticket'[s] \/ b = unit'[s] PROVE Names(s, b)'
  <2>1. b # Nothing
    BY DEF Builds, Nothing
  <2>2. CASE b = ticket[s] \/ b = unit[s]
    BY <2>1, <2>2, NamesStay DEF Shape
  <2> QED
    BY <1>1, <2>2 DEF Renames
<1> QED
  BY <1>1 DEF Shape, Fits, Grows, Renames, NoDay

LEMMA BuildsAreFinite ==
    ASSUME NEW S \in SUBSET Builds PROVE IsFiniteSet(S) /\ Cardinality(S) \in Nat
<1>1. IsFiniteSet(Builds)
  BY FS_Interval, BuildsAssumption DEF Builds
<1> QED
  BY <1>1, FS_Subset, FS_CardinalityType

LEMMA ThreadKeepsShape ==
    ASSUME Shape, NEW b \in Builds, Thread(b) PROVE Shape' /\ Grows
<1> USE DEF At
<1>1. ~At(b, "free") /\ build[b] \in Record /\ Slug(b) \in Slugs
  BY RecordsAreWhole DEF Thread, Reserve, OpenLogs, WriteTicket, Announce, Spawn, Reap, RefusedRelease,
     RefusedRestamp, RefusedNarrate, Unlink, RemoveTicket, FinishBuild, TidyAdopted, Poll, Record, Slug
<1>2. CASE Reserve(b)
  <2>1. CASE Deny(b)
    <3>1. Grows
      BY <1>1, <2>1, GotoMoves, MovesGrows DEF Deny, Places
    <3>2. Fits /\ Renames(ticket, ticket') /\ Renames(unit, unit')
      BY <2>1 DEF Deny, Shape, Fits, Renames, disk, memory, history
    <3> QED
      BY <3>1, <3>2, ShapeStays
  <2>2. CASE ~(Slug(b) \in active \/ CountToday >= Cap)
    <3>1. Grows
      <4>1. build' = [build EXCEPT ![b] = [@ EXCEPT !.pc = "logs", !.day = day]]
        BY <1>2, <2>2 DEF Reserve
      <4>2. day \in 0..NoDay
        BY BuildsAssumption DEF Shape, NoDay
      <4> QED
        BY <1>1, <4>1, <4>2 DEF Grows, Shape, Record, Places, Slug
    <3>2. CountToday + 1 \in 0..Cap
      <4>1. CountToday \in Nat
        <5>1. Cardinality({c \in Builds : audited[c] = day}) \in Nat
          BY BuildsAreFinite
        <5> QED
          BY <5>1, BuildsAssumption DEF CountToday, Shape
      <4> QED
        BY <2>2, <4>1, BuildsAssumption
    <3>3. Fits /\ Renames(ticket, ticket') /\ Renames(unit, unit')
      <4>1. day \in 0..NoDay
        BY BuildsAssumption DEF Shape, NoDay
      <4>2. count' = [day |-> day, n |-> CountToday + 1] /\ active' = active \cup {Slug(b)}
        BY <1>2, <2>2 DEF Reserve
      <4>3. UNCHANGED <<day, up, todo, disk, unit, exit, audited, crashes, history>>
        BY <1>2, <2>2 DEF Reserve
      <4> QED
        BY <1>1, <3>2, <4>1, <4>2, <4>3 DEF Shape, Fits, Renames, disk, history
    <3> QED
      BY <3>1, <3>3, ShapeStays
  <2> QED
    BY <1>2, <2>1, <2>2 DEF Reserve
<1>3. CASE OpenLogs(b)
  <2>1. Grows
    BY <1>1, <1>3, GotoMoves, MovesGrows DEF OpenLogs, Places
  <2>2. Fits /\ Renames(ticket, ticket') /\ Renames(unit, unit')
    BY <1>1, <1>3, RefundKeeps DEF OpenLogs, Shape, Fits, Renames, disk, memory, history
  <2> QED
    BY <2>1, <2>2, ShapeStays
<1>4. CASE WriteTicket(b)
  <2>1. Grows
    BY <1>1, <1>4, GotoMoves, MovesGrows DEF WriteTicket, Places
  <2>2. Fits
    BY <1>1, <1>4, RefundKeeps DEF WriteTicket, Shape, Fits, disk, memory, history
  <2>3. Renames(ticket, ticket') /\ Renames(unit, unit')
    <3>1. \A s \in Slugs : s = Slug(b) => Names(s, b)'
      BY <1>1, <2>1 DEF Names, Grows
    <3>2. ticket' = ticket \/ ticket' = [ticket EXCEPT ![Slug(b)] = b]
      BY <1>4 DEF WriteTicket
    <3>3. unit' = unit
      BY <1>4 DEF WriteTicket
    <3> QED
      BY <1>1, <3>1, <3>2, <3>3, OneNameChanges DEF Shape
  <2> QED
    BY <2>1, <2>2, <2>3, ShapeStays
<1>5. CASE Announce(b)
  <2>1. Grows
    BY <1>1, <1>5, GotoMoves, MovesGrows DEF Announce, Places
  <2>2. Fits /\ Renames(ticket, ticket') /\ Renames(unit, unit')
    BY <1>1, <1>5, StampKeeps DEF Announce, Shape, Fits, Renames, disk, memory, history
  <2> QED
    BY <2>1, <2>2, ShapeStays
<1>6. CASE Spawn(b)
  <2>1. Grows
    <3>1. CASE Goto(b, "over")
      BY <1>1, <3>1, GotoMoves, MovesGrows DEF Places
    <3>2. CASE build' = [build EXCEPT ![b] = [@ EXCEPT !.pc = "watch", !.verb = "returns"]]
      BY <1>1, <3>2 DEF Grows, Shape, Record, Places, Verbs, Slug
    <3> QED
      BY <1>6, <3>1, <3>2 DEF Spawn
  <2>2. Fits
    BY <1>1, <1>6, RefundKeeps, StampKeeps DEF Spawn, Shape, Fits, disk, memory, history
  <2>3. Renames(ticket, ticket') /\ Renames(unit, unit')
    <3>1. \A s \in Slugs : s = Slug(b) => Names(s, b)'
      BY <1>1, <2>1 DEF Names, Grows
    <3>2. ticket' = ticket \/ ticket' = [ticket EXCEPT ![Slug(b)] = Nothing]
      BY <1>6 DEF Spawn
    <3>3. unit' = unit \/ unit' = [unit EXCEPT ![Slug(b)] = b]
      BY <1>6 DEF Spawn
    <3> QED
      BY <1>1, <3>1, <3>2, <3>3, OneNameChanges DEF Shape, Builds, Nothing
  <2> QED
    BY <2>1, <2>2, <2>3, ShapeStays
<1>7. CASE Reap(b) \/ Poll(b)
  <2>1. Grows
    <3>1. Goto(b, "tidy") \/ Goto(b, "kept")
      BY <1>7 DEF Reap, Poll
    <3> QED
      BY <1>1, <3>1, GotoMoves, MovesGrows DEF Places
  <2>2. Fits
    BY <1>1, <1>7, StampKeeps DEF Reap, Poll, StopUnit, Narrate, Shape, Fits, disk, memory, history
  <2>3. Renames(ticket, ticket') /\ Renames(unit, unit')
    <3>1. ticket' = ticket
      BY <1>7 DEF Reap, Poll
    <3>2. unit' = unit \/ unit' = [unit EXCEPT ![Slug(b)] = Nothing]
      BY <1>7 DEF Reap, Poll, StopUnit
    <3> QED
      BY <1>1, <3>1, <3>2, OneNameChanges DEF Shape, Builds, Nothing
  <2> QED
    BY <2>1, <2>2, <2>3, ShapeStays
<1>8. CASE RefusedRelease(b)
  <2>1. Grows
    BY <1>1, <1>8 DEF RefusedRelease, Grows, Shape, Record, Places, Slug
  <2>2. Fits /\ Renames(ticket, ticket') /\ Renames(unit, unit')
    BY <1>1, <1>8, RefundKeeps DEF RefusedRelease, Shape, Fits, Renames, disk, memory, history
  <2> QED
    BY <2>1, <2>2, ShapeStays
<1>9. CASE RefusedRestamp(b) \/ RefusedNarrate(b) \/ Unlink(b)
  <2>1. Grows
    BY <1>1, <1>9, GotoMoves, MovesGrows DEF RefusedRestamp, RefusedNarrate, Unlink, Places
  <2>2. Fits /\ Renames(ticket, ticket') /\ Renames(unit, unit')
    BY <1>1, <1>9, StampKeeps DEF RefusedRestamp, RefusedNarrate, Unlink, Narrate, Shape, Fits, Renames,
       disk, memory, history
  <2> QED
    BY <2>1, <2>2, ShapeStays
<1>10. CASE RemoveTicket(b) \/ FinishBuild(b) \/ TidyAdopted(b)
  <2>1. Grows
    BY <1>1, <1>10, GotoMoves, MovesGrows DEF RemoveTicket, FinishBuild, TidyAdopted, Places
  <2>2. Fits
    BY <1>1, <1>10 DEF RemoveTicket, FinishBuild, TidyAdopted, LeavesOthers, Claimants, Shape, Fits,
       disk, memory, history
  <2>3. Renames(ticket, ticket') /\ Renames(unit, unit')
    <3>1. unit' = unit
      BY <1>10 DEF RemoveTicket, FinishBuild, TidyAdopted, disk
    <3>2. ticket' = ticket \/ ticket' = [ticket EXCEPT ![Slug(b)] = Nothing]
      BY <1>10 DEF RemoveTicket, FinishBuild, TidyAdopted, disk
    <3> QED
      BY <1>1, <3>1, <3>2, OneNameChanges DEF Shape, Builds, Nothing
  <2> QED
    BY <2>1, <2>2, <2>3, ShapeStays
<1> QED
  BY <1>2, <1>3, <1>4, <1>5, <1>6, <1>7, <1>8, <1>9, <1>10 DEF Thread

LEMMA OthersKeepShape ==
    ASSUME Shape,
           \/ \E b \in Builds, s \in Slugs : ReadSpec(b, s)
           \/ \E b \in Builds : Audit(b)
           \/ \E s \in Slugs : UnitEnds(s) \/ Confirm(s)
           \/ Restart \/ Crash \/ Midnight
    PROVE  Shape' /\ Grows
<1>1. ASSUME NEW b \in Builds, NEW s \in Slugs, ReadSpec(b, s) PROVE Shape' /\ Grows
  <2>1. Grows
    <3>1. [pc |-> "reserve", slug |-> s, day |-> NoDay, verb |-> "waits", refund |-> FALSE] \in Record
      BY BuildsAssumption DEF Record, Places, Verbs, NoDay
    <3> QED
      BY <1>1, <3>1 DEF ReadSpec, Grows, Shape, At, Slug
  <2>2. Fits /\ Renames(ticket, ticket') /\ Renames(unit, unit')
    BY <1>1 DEF ReadSpec, Shape, Fits, Renames, disk, memory, history
  <2> QED
    BY <2>1, <2>2, ShapeStays
<1>2. ASSUME NEW b \in Builds, Audit(b) PROVE Shape' /\ Grows
  <2>1. Grows
    BY <1>2, RecordsAreWhole DEF Audit, Grows, Shape, At, Slug, Record, Verbs
  <2>2. Fits /\ Renames(ticket, ticket') /\ Renames(unit, unit')
    BY <1>2, BuildsAssumption DEF Audit, Shape, Fits, Renames, disk, memory, history, NoDay
  <2> QED
    BY <2>1, <2>2, ShapeStays
<1>3. ASSUME NEW s \in Slugs, UnitEnds(s) PROVE Shape' /\ Grows
  <2>1. Grows
    BY <1>3 DEF UnitEnds, Grows, Shape, At, Slug
  <2>2. Fits
    BY <1>3 DEF UnitEnds, Shape, Fits, disk, memory, history
  <2>3. Renames(ticket, ticket') /\ Renames(unit, unit')
    <3>1. ticket' = ticket /\ unit' = [unit EXCEPT ![s] = Nothing]
      BY <1>3 DEF UnitEnds, disk
    <3>2. Renames(ticket, ticket')
      BY <3>1 DEF Shape, Renames
    <3>3. Renames(unit, unit')
      BY <3>1, OneNameGoes DEF Shape
    <3> QED
      BY <3>2, <3>3
  <2> QED
    BY <2>1, <2>2, <2>3, ShapeStays
<1>4. ASSUME NEW s \in Slugs, Confirm(s) PROVE Shape' /\ Grows
  <2>1. Grows
    BY <1>4 DEF Confirm, Grows, Shape, At, Slug
  <2>2. Fits /\ Renames(ticket, ticket') /\ Renames(unit, unit')
    BY <1>4 DEF Confirm, Shape, Fits, Renames, memory, history
  <2> QED
    BY <2>1, <2>2, ShapeStays
<1>5. ASSUME NEW s \in Slugs, Adopt(s) PROVE Shape' /\ Grows
  <2>1. Grows
    <3>1. CASE ticket[s] = Nothing
      BY <1>5, <3>1 DEF Adopt, Grows, Shape, At, Slug
    <3>2. CASE ticket[s] # Nothing
      <4>1. ticket[s] \in Builds /\ ~At(ticket[s], "free")
        BY <3>2 DEF Shape, Names
      <4>2. \/ Goto(ticket[s], "poll") \/ Goto(ticket[s], "tidyUnclaimed")
            \/ Goto(ticket[s], "left")
        BY <1>5, <3>2 DEF Adopt
      <4> QED
        BY <4>1, <4>2, GotoMoves, MovesGrows DEF Places
    <3> QED
      BY <3>1, <3>2
  <2>2. Fits
    BY <1>5, StampKeeps DEF Adopt, Narrate, Shape, Fits, Names, disk, history
  <2>3. Renames(ticket, ticket') /\ Renames(unit, unit')
    <3>1. Renames(unit, unit')
      BY <1>5 DEF Adopt, Shape, Renames
    <3>2. ticket' = ticket \/ ticket' = [ticket EXCEPT ![s] = Nothing]
      BY <1>5 DEF Adopt
    <3> QED
      BY <3>1, <3>2, OneNameChanges DEF Shape, Builds, Nothing
  <2> QED
    BY <2>1, <2>2, <2>3, ShapeStays
<1>6. CASE Serve
  <2>1. Grows
    BY <1>6 DEF Serve, Grows, Shape, At, Slug
  <2>2. Fits /\ Renames(ticket, ticket') /\ Renames(unit, unit')
    BY <1>6 DEF Serve, Shape, Fits, Renames, memory, history
  <2> QED
    BY <2>1, <2>2, ShapeStays
<1>9. CASE AdoptNone
  <2>1. Grows
    <3>1. ASSUME NEW b \in Builds
          PROVE  /\ build'[b] \in {Free} \cup Record
                 /\ ~At(b, "free") => ~At(b, "free")' /\ Slug(b)' = Slug(b)
      <4>1. CASE \E s \in Slugs : ticket[s] = b
        <5>1. build[b] \in Record
          BY <4>1, RecordsAreWhole DEF Shape, Names, Builds, Nothing
        <5>2. build'[b] = [build[b] EXCEPT !.pc = "left"]
          BY <1>9, <4>1 DEF AdoptNone
        <5> QED
          BY <5>1, <5>2 DEF At, Slug, Record, Places
      <4>2. CASE ~\E s \in Slugs : ticket[s] = b
        <5>1. build'[b] = build[b]
          BY <1>9, <4>2 DEF AdoptNone
        <5> QED
          BY <5>1 DEF Shape, At, Slug
      <4> QED
        BY <4>1, <4>2
    <3>2. build' = [b \in Builds |-> build'[b]]
      BY <1>9 DEF AdoptNone
    <3> QED
      BY <3>1, <3>2 DEF Grows
  <2>2. Fits /\ Renames(ticket, ticket') /\ Renames(unit, unit')
    BY <1>9 DEF AdoptNone, Shape, Fits, Renames, disk, memory, history
  <2> QED
    BY <2>1, <2>2, ShapeStays
<1>7. CASE Crash
  <2>1. Grows
    <3>1. ASSUME NEW b \in Builds
          PROVE  /\ build'[b] \in {Free} \cup Record
                 /\ ~At(b, "free") => ~At(b, "free")' /\ Slug(b)' = Slug(b)
      BY <1>7, RecordsAreWhole DEF Crash, At, Slug, Record, Places, Verbs, Free
    <3>2. build' = [b \in Builds |-> build'[b]]
      BY <1>7 DEF Crash
    <3> QED
      BY <3>1, <3>2 DEF Grows
  <2>2. Fits
    <3>1. up' = FALSE /\ todo' = Slugs /\ active' = {} /\ count' = [day |-> NoDay, n |-> 0]
      BY <1>7 DEF Crash
    <3>2. crashes' \in Nat /\ cut' \subseteq Builds
      <4>1. crashes' = crashes + 1 /\ crashes \in Nat
        BY <1>7 DEF Crash, Shape
      <4>2. cut' = cut \cup {b \in Builds : build[b].pc \in {"tidy", "logsGone", "tidyUnclaimed"}}
        BY <1>7 DEF Crash
      <4> QED
        BY <4>1, <4>2 DEF Shape
    <3>3. NoDay \in 0..NoDay /\ 0 \in 0..Cap
      BY BuildsAssumption DEF NoDay
    <3>4. UNCHANGED <<day, spec, logs, exit, audited, told, robbed, misrefunds>>
      BY <1>7 DEF Crash, disk
    <3> QED
      BY <3>1, <3>2, <3>3, <3>4 DEF Shape, Fits
  <2>3. Renames(ticket, ticket') /\ Renames(unit, unit')
    BY <1>7 DEF Crash, Shape, Renames, disk
  <2> QED
    BY <2>1, <2>2, <2>3, ShapeStays
<1>8. CASE Midnight
  <2>1. Grows
    BY <1>8 DEF Midnight, Grows, Shape, At, Slug
  <2>2. Fits /\ Renames(ticket, ticket') /\ Renames(unit, unit')
    BY <1>8, BuildsAssumption DEF Midnight, Shape, Fits, Renames, disk, memory, history
  <2> QED
    BY <2>1, <2>2, ShapeStays
<1> QED
  BY <1>1, <1>2, <1>3, <1>4, <1>5, <1>6, <1>7, <1>8, <1>9 DEF Restart

-----------------------------------------------------------------------------
(* Tickets and claims *)

Reserving == {"logs", "ticket", "announce", "spawn"}
Holding == Reserving \cup {"watch", "poll", "kept", "tidy", "logsGone", "ticketGone"}

(* The build holds its slug, as far as nobody took it by mistake.          *)
Holds(b) == build[b].pc \in Holding /\ ~build[b].refund /\ b \notin robbed

(* Where a build is tells what it has: who holds a slug holds it alone.    *)
TicketInv ==
    \A b \in Builds :
       /\ build[b].pc \in {"reserve", "logs", "ticket", "ticketGone"} => ticket[Slug(b)] # b
       /\ build[b].pc \in Reserving \cup {"reserve", "watch"} => ~build[b].refund
       /\ build[b].pc \in {"restamp", "refused"} => build[b].refund
       /\ Holds(b) => Slug(b) \in active
       /\ Holds(b) /\ build[b].pc \in {"announce", "spawn", "watch", "poll", "kept", "tidy"}
            => ticket[Slug(b)] = b
       /\ \A c \in Builds : Holds(b) /\ Holds(c) /\ Slug(b) = Slug(c) => b = c

(* Threads an adoption starts.                                             *)
Back == {"poll", "kept", "tidy", "logsGone", "ticketGone", "tidyUnclaimed"}

(* While tickets are adopted, nothing else runs, and one thread per slug.  *)
AdoptInv ==
    \A b \in Builds :
       /\ build[b].pc = "tidyUnclaimed" => ~up
       /\ ~up =>
            /\ build[b].pc \in Back \cup {"free", "left", "over"}
            /\ build[b].pc \in Back => Slug(b) \notin todo
            /\ build[b].pc = "poll" => ticket[Slug(b)] = b
            /\ \A c \in Builds : build[b].pc \in Back /\ build[c].pc \in Back /\ Slug(b) = Slug(c) => b = c

(* Tidying up by name robs every other holder, or there is none.           *)
LEMMA TidiesAlone ==
    ASSUME Shape, TicketInv, NEW b \in Builds, build[b].pc \in Holding, LeavesOthers(b)
    PROVE  /\ robbed \subseteq robbed'
           /\ \A c \in Builds \ {b} : Slug(c) = Slug(b) /\ Holds(c) => c \in robbed'
  BY DEF TicketInv, LeavesOthers, Claimants, Holds, Holding, Reserving

(* The ticket of the slug is gone, the others are as before.               *)
TicketsGo(b) == \A c \in Builds : ticket'[Slug(c)] = IF Slug(c) = Slug(b) THEN Nothing ELSE ticket[Slug(c)]

LEMMA TicketGoes ==
    ASSUME Shape, NEW b \in Builds, Slug(b) \in Slugs, ticket' = [ticket EXCEPT ![Slug(b)] = Nothing]
    PROVE  TicketsGo(b) /\ Nothing \notin Builds
  BY DEF TicketsGo, Shape, Builds, Nothing

LEMMA ThreadKeepsTickets ==
    ASSUME Shape, TicketInv, AdoptInv, NEW b \in Builds, Thread(b) PROVE TicketInv'
<1>1. ~At(b, "free") /\ build[b] \in Record /\ Slug(b) \in Slugs
  BY RecordsAreWhole DEF At, Thread, Reserve, OpenLogs, WriteTicket, Announce, Spawn, Reap, RefusedRelease,
     RefusedRestamp, RefusedNarrate, Unlink, RemoveTicket, FinishBuild, TidyAdopted, Poll, Record, Slug
<1>2. CASE Reserve(b)
  <2>1. CASE Deny(b)
    <3>1. Moves(b, "over")
      BY <1>1, <2>1, GotoMoves DEF Deny, Places
    <3> QED
      BY <2>1, <3>1 DEF Deny, disk, memory, history, Moves, TicketInv, Holds, Holding, Reserving, Slug
  <2>2. CASE ~(Slug(b) \in active \/ CountToday >= Cap)
    <3>1. /\ build[b].pc = "reserve" /\ ~build[b].refund /\ ticket[Slug(b)] # b
          /\ active' = active \cup {Slug(b)} /\ UNCHANGED <<ticket, robbed>>
      BY <1>2, <2>2 DEF Reserve, disk, history, At, TicketInv
    <3>2. /\ build'[b].pc = "logs" /\ build'[b].slug = build[b].slug
          /\ build'[b].refund = build[b].refund
          /\ \A c \in Builds \ {b} : build'[c] = build[c]
      <4>1. build' = [build EXCEPT ![b] = [@ EXCEPT !.pc = "logs", !.day = day]]
        BY <1>2, <2>2 DEF Reserve
      <4> QED
        BY <1>1, <4>1 DEF Record, Shape
    <3>3. \A c \in Builds : Slug(c) = Slug(b) => ~Holds(c)
      BY <2>2 DEF TicketInv
    <3> QED
      BY <3>1, <3>2, <3>3 DEF TicketInv, Holds, Holding, Reserving, Slug
  <2> QED
    BY <1>2, <2>1, <2>2 DEF Reserve
<1>3. CASE OpenLogs(b)
  <2>1. build[b].pc = "logs" /\ ticket' = ticket
    BY <1>3 DEF OpenLogs, At
  <2>2. CASE Moves(b, "ticket") /\ UNCHANGED <<active, robbed>>
    BY <2>1, <2>2 DEF Moves, TicketInv, Holds, Holding, Reserving, Slug
  <2>3. CASE Moves(b, "over") /\ Refund(b)
    BY <2>1, <2>3, TidiesAlone DEF Refund, Moves, TicketInv, Holds, Holding, Reserving, Slug
  <2> QED
    BY <1>1, <1>3, <2>2, <2>3, GotoMoves DEF OpenLogs, memory, Places
<1>4. CASE WriteTicket(b)
  <2>1. build[b].pc = "ticket"
    BY <1>4 DEF WriteTicket, At
  <2>2. CASE /\ Moves(b, "announce") /\ active' = active
             /\ ticket' = [ticket EXCEPT ![Slug(b)] = b]
             /\ robbed' = robbed \cup ({ticket[Slug(b)]} \ {Nothing})
    <3>1. \A c \in Builds \ {b} : Slug(c) = Slug(b) /\ ticket[Slug(b)] = c => c \in robbed'
      BY <2>2 DEF Builds, Nothing
    <3>2. \A c \in Builds : ticket'[Slug(c)] = IF Slug(c) = Slug(b) THEN b ELSE ticket[Slug(c)]
      BY <1>1, <2>2 DEF Shape, Slug, Record
    <3> QED
      BY <2>1, <2>2, <3>1, <3>2 DEF Moves, TicketInv, Holds, Holding, Reserving, Slug
  <2>3. CASE Moves(b, "over") /\ Refund(b) /\ ticket' = ticket
    BY <2>1, <2>3, TidiesAlone DEF Refund, Moves, TicketInv, Holds, Holding, Reserving, Slug
  <2> QED
    BY <1>1, <1>4, <2>2, <2>3, GotoMoves DEF WriteTicket, memory, Places
<1>5. CASE Announce(b)
  <2>1. build[b].pc = "announce" /\ Moves(b, "spawn") /\ UNCHANGED <<ticket, active, robbed>>
    BY <1>1, <1>5, GotoMoves DEF Announce, At, Places, memory, history
  <2> QED
    BY <2>1 DEF Moves, TicketInv, Holds, Holding, Reserving, Slug
<1>6. CASE Spawn(b)
  <2>1. build[b].pc = "spawn"
    BY <1>6 DEF Spawn, At
  <2>2. CASE /\ build' = [build EXCEPT ![b] = [@ EXCEPT !.pc = "watch", !.verb = "returns"]]
             /\ UNCHANGED <<ticket, active, robbed>>
    <3>1. /\ build'[b].pc = "watch" /\ build'[b].slug = build[b].slug
          /\ build'[b].refund = build[b].refund
          /\ \A c \in Builds \ {b} : build'[c] = build[c]
      BY <1>1, <2>2 DEF Record, Shape
    <3> QED
      BY <2>1, <2>2, <3>1 DEF TicketInv, Holds, Holding, Reserving, Slug
  <2>3. CASE Moves(b, "over") /\ Refund(b) /\ ticket' = [ticket EXCEPT ![Slug(b)] = Nothing]
    <3>1. TicketsGo(b) /\ Nothing \notin Builds
      BY <1>1, <2>3, TicketGoes
    <3> QED
      BY <2>1, <2>3, <3>1, TidiesAlone DEF TicketsGo, Refund, Moves, TicketInv, Holds, Holding, Reserving, Slug
  <2> QED
    BY <1>1, <1>6, <2>2, <2>3, GotoMoves DEF Spawn, memory, Places
<1>7. CASE Reap(b) \/ Poll(b) \/ RefusedNarrate(b)
  <2>1. /\ build[b].pc \in {"watch", "poll", "refused"}
        /\ Moves(b, "tidy") \/ (build[b].pc = "poll" /\ Moves(b, "kept"))
        /\ UNCHANGED <<ticket, active, robbed>>
    BY <1>1, <1>7, GotoMoves DEF Reap, Poll, RefusedNarrate, At, Places, disk, memory
  <2> QED
    BY <2>1 DEF Moves, TicketInv, Holds, Holding, Reserving, Slug
<1>8. CASE RefusedRelease(b)
  <2>1. /\ build[b].pc = "watch" /\ Refund(b) /\ ticket' = ticket
        /\ build' = [build EXCEPT ![b] = [@ EXCEPT !.pc = "restamp", !.refund = TRUE]]
    BY <1>8 DEF RefusedRelease, At, disk
  <2>2. /\ build'[b].pc = "restamp" /\ build'[b].slug = build[b].slug /\ build'[b].refund
        /\ \A c \in Builds \ {b} : build'[c] = build[c]
    BY <1>1, <2>1 DEF Record, Shape
  <2> QED
    BY <2>1, <2>2, TidiesAlone DEF Refund, TicketInv, Holds, Holding, Reserving, Slug
<1>9. CASE RefusedRestamp(b)
  <2>1. build[b].pc = "restamp" /\ Moves(b, "refused") /\ UNCHANGED <<ticket, active, robbed>>
    BY <1>1, <1>9, GotoMoves DEF RefusedRestamp, At, Places, memory, history
  <2> QED
    BY <2>1 DEF Moves, TicketInv, Holds, Holding, Reserving, Slug
<1>10. CASE Unlink(b)
  <2>1. build[b].pc = "tidy" /\ Moves(b, "logsGone") /\ UNCHANGED <<ticket, active, robbed>>
    BY <1>1, <1>10, GotoMoves DEF Unlink, At, Places, memory, history
  <2> QED
    BY <2>1 DEF Moves, TicketInv, Holds, Holding, Reserving, Slug
<1>11. CASE RemoveTicket(b)
  <2>1. /\ build[b].pc = "logsGone" /\ Moves(b, "ticketGone") /\ LeavesOthers(b) /\ active' = active
        /\ ticket' = [ticket EXCEPT ![Slug(b)] = Nothing]
    BY <1>1, <1>11, GotoMoves DEF RemoveTicket, At, Places, memory
  <2>2. TicketsGo(b) /\ Nothing \notin Builds
    BY <1>1, <2>1, TicketGoes
  <2> QED
    BY <2>1, <2>2, TidiesAlone DEF TicketsGo, Moves, TicketInv, Holds, Holding, Reserving, Slug
<1>12. CASE FinishBuild(b)
  <2>1. /\ build[b].pc = "ticketGone" /\ Moves(b, "over") /\ LeavesOthers(b)
        /\ active' = active \ {Slug(b)} /\ ticket' = ticket
    BY <1>1, <1>12, GotoMoves DEF FinishBuild, At, Places, disk
  <2> QED
    BY <2>1, TidiesAlone DEF Moves, TicketInv, Holds, Holding, Reserving, Slug
<1>13. CASE TidyAdopted(b)
  <2>1. /\ build[b].pc = "tidyUnclaimed" /\ Moves(b, "over") /\ UNCHANGED <<active, robbed>>
        /\ ticket' = [ticket EXCEPT ![Slug(b)] = Nothing]
    BY <1>1, <1>13, GotoMoves DEF TidyAdopted, At, Places, memory, history
  <2>2. TicketsGo(b) /\ Nothing \notin Builds
    BY <1>1, <2>1, TicketGoes
  <2>3. \A c \in Builds \ {b} : Slug(c) = Slug(b) => ~Holds(c)
    BY <2>1 DEF AdoptInv, Back, Holds, Holding, Reserving
  <2> QED
    BY <2>1, <2>2, <2>3 DEF TicketsGo, Moves, TicketInv, Holds, Holding, Reserving, Slug
<1> QED
  BY <1>2, <1>3, <1>4, <1>5, <1>6, <1>7, <1>8, <1>9, <1>10, <1>11, <1>12, <1>13 DEF Thread

(* What a step of a thread leaves alone, and where adopted threads go.     *)
LEMMA ThreadMoves ==
    ASSUME Shape, NEW b \in Builds, Thread(b)
    PROVE  /\ build[b].slug \in Slugs /\ build'[b].slug = build[b].slug
           /\ \A c \in Builds \ {b} : build'[c] = build[c]
           /\ UNCHANGED <<day, up, todo, crashes, cut, audited>>
           /\ \A s \in Slugs : s # Slug(b) => ticket'[s] = ticket[s]
           /\ build[b].pc \notin {"free", "left", "over"}
           /\ build[b].pc \in Back => build'[b].pc \in (Back \ {"poll", "tidyUnclaimed"}) \cup {"over"}
           /\ build[b].pc \notin Back => build'[b].pc \notin {"free", "poll", "tidyUnclaimed"}
<1>1. ~At(b, "free") /\ build[b] \in Record /\ Slug(b) \in Slugs
  BY RecordsAreWhole DEF At, Thread, Reserve, OpenLogs, WriteTicket, Announce, Spawn, Reap, RefusedRelease,
     RefusedRestamp, RefusedNarrate, Unlink, RemoveTicket, FinishBuild, TidyAdopted, Poll, Record, Slug
<1>2. \A s \in Slugs : s # Slug(b) => ticket'[s] = ticket[s]
  BY DEF Shape, Thread, Reserve, Deny, OpenLogs, WriteTicket, Announce, Spawn, Reap, RefusedRelease,
     RefusedRestamp, RefusedNarrate, Unlink, RemoveTicket, FinishBuild, TidyAdopted, Poll, disk
<1>3. UNCHANGED <<day, up, todo, crashes, cut, audited>>
  BY DEF Thread, Reserve, Deny, OpenLogs, WriteTicket, Announce, Spawn, Reap, RefusedRelease,
     RefusedRestamp, RefusedNarrate, Unlink, RemoveTicket, FinishBuild, TidyAdopted, Poll, history
<1>4. CASE Reserve(b)
  <2>1. build[b].pc = "reserve"
    BY <1>4 DEF Reserve, At
  <2>2. CASE Deny(b)
    BY <1>1, <1>2, <1>3, <2>1, <2>2, GotoMoves DEF Deny, Moves, Places, Back, Record, Slug
  <2>3. CASE build' = [build EXCEPT ![b] = [@ EXCEPT !.pc = "logs", !.day = day]]
    BY <1>1, <1>2, <1>3, <2>1, <2>3 DEF Shape, Back, Record, Slug
  <2> QED
    BY <1>4, <2>2, <2>3 DEF Reserve
<1>5. CASE Spawn(b)
  <2>1. build[b].pc = "spawn"
    BY <1>5 DEF Spawn, At
  <2>2. CASE Goto(b, "over")
    BY <1>1, <1>2, <1>3, <2>1, <2>2, GotoMoves DEF Moves, Places, Back, Record, Slug
  <2>3. CASE build' = [build EXCEPT ![b] = [@ EXCEPT !.pc = "watch", !.verb = "returns"]]
    BY <1>1, <1>2, <1>3, <2>1, <2>3 DEF Shape, Back, Record, Slug
  <2> QED
    BY <1>5, <2>2, <2>3 DEF Spawn
<1>6. CASE RefusedRelease(b)
  BY <1>1, <1>2, <1>3, <1>6 DEF RefusedRelease, At, Shape, Back, Record, Slug
<1>7. CASE OpenLogs(b) \/ WriteTicket(b) \/ Announce(b) \/ Reap(b) \/ RefusedRestamp(b) \/ RefusedNarrate(b)
  <2>1. PICK where \in {"ticket", "announce", "spawn", "tidy", "refused", "over"} : Goto(b, where)
    BY <1>7 DEF OpenLogs, WriteTicket, Announce, Reap, RefusedRestamp, RefusedNarrate
  <2>2. build[b].pc \in {"logs", "ticket", "announce", "watch", "restamp", "refused"}
    BY <1>7 DEF OpenLogs, WriteTicket, Announce, Reap, RefusedRestamp, RefusedNarrate, At
  <2>3. Moves(b, where)
    BY <1>1, <2>1, GotoMoves DEF Places
  <2> QED
    BY <1>1, <1>2, <1>3, <2>2, <2>3 DEF Moves, Back, Record, Slug
<1>8. CASE Unlink(b) \/ RemoveTicket(b) \/ FinishBuild(b) \/ TidyAdopted(b) \/ Poll(b)
  <2>1. PICK where \in {"kept", "tidy", "logsGone", "ticketGone", "over"} : Goto(b, where)
    BY <1>8 DEF Unlink, RemoveTicket, FinishBuild, TidyAdopted, Poll
  <2>2. build[b].pc \in Back
    BY <1>8 DEF Unlink, RemoveTicket, FinishBuild, TidyAdopted, Poll, At, Back
  <2>3. Moves(b, where)
    BY <1>1, <2>1, GotoMoves DEF Places
  <2> QED
    BY <1>1, <1>2, <1>3, <2>2, <2>3 DEF Moves, Back, Record, Slug
<1> QED
  BY <1>4, <1>5, <1>6, <1>7, <1>8 DEF Thread

LEMMA ThreadKeepsAdoption ==
    ASSUME Shape, AdoptInv, NEW b \in Builds, Thread(b) PROVE AdoptInv'
<1>1. \A c \in Builds : build[c].pc \in Back => build[c].slug \in Slugs
  BY RecordsAreWhole DEF At, Back, Record, Free
<1> QED
  BY <1>1, ThreadMoves DEF AdoptInv, Back, Slug

-----------------------------------------------------------------------------
(* Adoption *)

(* What Adopt(s) does to the build on the ticket of s, if there is one.    *)
LEMMA AdoptMoves ==
    ASSUME Shape, AdoptInv, NEW s \in Slugs, Adopt(s), ticket[s] # Nothing
    PROVE  \E b \in Builds :
              /\ ticket[s] = b /\ build[b].slug = s /\ build[b].pc \in {"left", "over"} /\ b # Nothing
              /\ \A c \in Builds : Slug(c) = s => build[c].pc \in {"free", "left", "over"}
              /\ todo' = todo \ {s} /\ s \in todo
              /\ UNCHANGED <<up, logs, robbed, cut, crashes>> /\ ~up
              /\ \/ Moves(b, "poll") /\ active' = active \cup {s} /\ told' = told /\ ticket' = ticket
                 \/ Moves(b, "tidyUnclaimed") /\ active' = active /\ Narrate(b) /\ ticket' = ticket
                 \/ /\ Moves(b, "left") /\ active' = active /\ told' = told
                    /\ ticket' = [ticket EXCEPT ![s] = Nothing]
<1>1. PICK b \in Builds : ticket[s] = b /\ ~At(b, "free") /\ Slug(b) = s
  BY DEF Shape, Names
<1>2. \A c \in Builds : Slug(c) = s => build[c].pc \in {"free", "left", "over"}
  BY DEF Adopt, AdoptInv
<1>3. \/ Moves(b, "poll") /\ active' = active \cup {s} /\ told' = told /\ ticket' = ticket
      \/ Moves(b, "tidyUnclaimed") /\ active' = active /\ Narrate(b) /\ ticket' = ticket
      \/ /\ Moves(b, "left") /\ active' = active /\ told' = told
         /\ ticket' = [ticket EXCEPT ![s] = Nothing]
  <2>1. \/ Goto(b, "poll") /\ active' = active \cup {s} /\ told' = told /\ ticket' = ticket
        \/ Goto(b, "tidyUnclaimed") /\ active' = active /\ Narrate(b) /\ ticket' = ticket
        \/ /\ Goto(b, "left") /\ active' = active /\ told' = told
           /\ ticket' = [ticket EXCEPT ![s] = Nothing]
    BY <1>1 DEF Adopt, Goto, Narrate
  <2>2. "poll" \in Places /\ "tidyUnclaimed" \in Places /\ "left" \in Places
    BY DEF Places
  <2> QED
    BY <1>1, <2>1, <2>2, GotoMoves
<1>4. b # Nothing
  BY DEF Builds, Nothing
<1> QED
  BY <1>1, <1>2, <1>3, <1>4 DEF Adopt, At, Slug

LEMMA AdoptKeepsTickets ==
    ASSUME Shape, TicketInv, AdoptInv, NEW s \in Slugs, Adopt(s) PROVE TicketInv' /\ AdoptInv'
<1>1. CASE ticket[s] = Nothing
  BY <1>1 DEF Adopt, TicketInv, AdoptInv, Holds, Slug
<1>2. CASE ticket[s] # Nothing
  <2>1. PICK b \in Builds :
              /\ ticket[s] = b /\ build[b].slug = s /\ build[b].pc \in {"left", "over"} /\ b # Nothing
              /\ \A c \in Builds : Slug(c) = s => build[c].pc \in {"free", "left", "over"}
              /\ todo' = todo \ {s} /\ s \in todo
              /\ UNCHANGED <<up, logs, robbed, cut, crashes>> /\ ~up
              /\ \/ Moves(b, "poll") /\ active' = active \cup {s} /\ told' = told /\ ticket' = ticket
                 \/ Moves(b, "tidyUnclaimed") /\ active' = active /\ Narrate(b) /\ ticket' = ticket
                 \/ /\ Moves(b, "left") /\ active' = active /\ told' = told
                    /\ ticket' = [ticket EXCEPT ![s] = Nothing]
    BY <1>2, AdoptMoves
  <2>2. \A c \in Builds :
           build[c].pc # "free" =>
              /\ ticket'[Slug(c)] = ticket[Slug(c)] \/ (Slug(c) = s /\ ticket'[Slug(c)] = Nothing)
              /\ ticket'[Slug(c)] = c => ticket[Slug(c)] = c
    <3>1. Nothing \notin Builds /\ \A c \in Builds : build[c].pc # "free" => Slug(c) \in Slugs
      BY RecordsAreWhole DEF At, Record, Builds, Nothing, Slug
    <3> QED
      BY <2>1, <3>1 DEF Shape
  <2>3. TicketInv'
    BY <2>1, <2>2 DEF Moves, TicketInv, Holds, Holding, Reserving, Slug
  <2>4. AdoptInv'
    BY <2>1, <2>2 DEF Moves, AdoptInv, Back, Slug
  <2> QED
    BY <2>3, <2>4
<1> QED
  BY <1>1, <1>2

(* What AdoptNone does: it finds no thread, and nothing has moved since    *)
(* the crash.                                                              *)
LEMMA AdoptNoneMoves ==
    ASSUME Shape, AdoptInv, AdoptNone
    PROVE  /\ UNCHANGED <<day, disk, memory, audited, crashes, history>> /\ up' /\ todo' = {}
           /\ \A b \in Builds :
                 /\ build[b].pc \in {"free", "left", "over"}
                 /\ \/ build'[b] = build[b]
                    \/ /\ build[b].pc \in {"left", "over"} /\ build'[b].pc = "left"
                       /\ build'[b].slug = build[b].slug /\ build'[b].day = build[b].day
                       /\ build'[b].verb = build[b].verb /\ build'[b].refund = build[b].refund
<1>1. UNCHANGED <<day, disk, memory, audited, crashes, history>> /\ up' /\ todo' = {}
  BY DEF AdoptNone
<1>2. ASSUME NEW b \in Builds PROVE build[b].pc \in {"free", "left", "over"}
  <2>1. build[b].pc \in Back => build[b].slug \in Slugs
    BY RecordsAreWhole DEF At, Back, Record, Free
  <2> QED
    BY <2>1 DEF AdoptNone, AdoptInv, Slug
<1>3. ASSUME NEW b \in Builds
      PROVE  \/ build'[b] = build[b]
             \/ /\ build[b].pc \in {"left", "over"} /\ build'[b].pc = "left"
                /\ build'[b].slug = build[b].slug /\ build'[b].day = build[b].day
                /\ build'[b].verb = build[b].verb /\ build'[b].refund = build[b].refund
  <2>1. CASE \E s \in Slugs : ticket[s] = b
    <3>1. build[b] \in Record /\ build[b].pc # "free"
      BY <2>1, RecordsAreWhole DEF Shape, Names, Builds, Nothing, At
    <3>2. build'[b] = [build[b] EXCEPT !.pc = "left"]
      BY <2>1 DEF AdoptNone
    <3> QED
      BY <1>2, <3>1, <3>2 DEF Record
  <2>2. CASE ~\E s \in Slugs : ticket[s] = b
    BY <2>2 DEF AdoptNone
  <2> QED
    BY <2>1, <2>2
<1> QED
  BY <1>1, <1>2, <1>3

(* A new build and an audit line touch one record only.                    *)
LEMMA RecordMoves ==
    ASSUME Shape, NEW b \in Builds, Audit(b) \/ \E s \in Slugs : ReadSpec(b, s)
    PROVE  /\ \A c \in Builds \ {b} : build'[c] = build[c]
           /\ UNCHANGED <<day, up, todo, disk, active, count, crashes, history>>
           /\ \/ /\ build[b].pc = "free" /\ build'[b].pc = "reserve" /\ up
                 /\ build'[b].day = NoDay /\ build'[b].verb = "waits" /\ ~build'[b].refund
                 /\ build'[b].slug \in Slugs
                 /\ audited' = audited
              \/ /\ build[b].pc # "free" /\ build'[b].pc = build[b].pc
                 /\ build'[b].slug = build[b].slug /\ build'[b].refund = build[b].refund
                 /\ build'[b].day = build[b].day
                 /\ build[b].verb = "returns" /\ build'[b].verb = "audited"
                 /\ audited' = [audited EXCEPT ![b] = day]
<1>1. CASE Audit(b)
  <2>1. build[b] \in Record /\ build[b].pc # "free"
    BY <1>1, RecordsAreWhole DEF Audit, At
  <2> QED
    BY <1>1, <2>1 DEF Audit, Shape, Record, memory
<1>2. ASSUME NEW s \in Slugs, ReadSpec(b, s)
      PROVE  /\ \A c \in Builds \ {b} : build'[c] = build[c]
             /\ UNCHANGED <<day, up, todo, disk, active, count, crashes, history, audited>>
             /\ build[b].pc = "free" /\ build'[b].pc = "reserve" /\ up
             /\ build'[b].day = NoDay /\ build'[b].verb = "waits" /\ ~build'[b].refund
             /\ build'[b].slug \in Slugs
  BY <1>2 DEF ReadSpec, At, Shape, memory
<1> QED
  BY <1>1, <1>2

(* The broker dies: every thread is gone.                                  *)
LEMMA CrashMoves ==
    ASSUME Shape, Crash
    PROVE  \A b \in Builds :
              /\ build[b].pc = "free" => build'[b] = build[b]
              /\ build[b].pc # "free" =>
                    /\ build'[b].pc = (IF build[b].pc \in {"kept", "left"} THEN "left" ELSE "over") /\ build'[b].slug = build[b].slug
                    /\ build'[b].day = build[b].day /\ build'[b].refund = build[b].refund
                    /\ build'[b].verb = IF build[b].verb = "returns" THEN "lost" ELSE build[b].verb
<1> SUFFICES ASSUME NEW b \in Builds
             PROVE  /\ build[b].pc = "free" => build'[b] = build[b]
                    /\ build[b].pc # "free" =>
                       /\ build'[b].pc = (IF build[b].pc \in {"kept", "left"} THEN "left" ELSE "over") /\ build'[b].slug = build[b].slug
                       /\ build'[b].day = build[b].day /\ build'[b].refund = build[b].refund
                       /\ build'[b].verb = IF build[b].verb = "returns" THEN "lost" ELSE build[b].verb
  OBVIOUS
<1>1. CASE build[b].pc = "free"
  BY <1>1 DEF Crash, At
<1>2. CASE build[b].pc # "free"
  BY <1>2, RecordsAreWhole DEF Crash, At, Record
<1> QED
  BY <1>1, <1>2

LEMMA OthersKeepTickets ==
    ASSUME Shape, TicketInv, AdoptInv,
           \/ \E b \in Builds, s \in Slugs : ReadSpec(b, s)
           \/ \E b \in Builds : Audit(b)
           \/ \E s \in Slugs : UnitEnds(s) \/ Confirm(s)
           \/ Restart \/ Crash \/ Midnight
    PROVE  TicketInv' /\ AdoptInv'
<1>1. ASSUME NEW b \in Builds, Audit(b) \/ \E s \in Slugs : ReadSpec(b, s) PROVE TicketInv' /\ AdoptInv'
  <2>1. \A c \in Builds : build[c].pc = "free" => \A s \in Slugs : ticket[s] # c
    BY DEF Shape, Names, At, Builds, Nothing
  <2> DEFINE Step == /\ \A c \in Builds \ {b} : build'[c] = build[c]
                     /\ UNCHANGED <<up, todo, ticket, active, robbed>>
                     /\ \/ /\ build[b].pc = "free" /\ build'[b].pc = "reserve" /\ up
                           /\ ~build'[b].refund /\ build'[b].slug \in Slugs
                        \/ /\ build'[b].pc = build[b].pc /\ build'[b].slug = build[b].slug
                           /\ build'[b].refund = build[b].refund
  <2>2. Step
    BY <1>1, RecordMoves DEF disk, history
  <2>3. TicketInv'
    BY <2>1, <2>2 DEF TicketInv, Holds, Holding, Reserving, Slug
  <2>4. AdoptInv'
    BY <2>2 DEF AdoptInv, Back, Slug
  <2> QED
    BY <2>3, <2>4
<1>2. CASE (\E s \in Slugs : UnitEnds(s) \/ Confirm(s)) \/ Midnight \/ Serve
  <2>1. UNCHANGED <<ticket, active, robbed, build>> /\ (UNCHANGED <<up, todo>> \/ Serve)
    BY <1>2 DEF UnitEnds, Confirm, Midnight, Serve, disk, memory, history
  <2>2. TicketInv'
    BY <2>1 DEF TicketInv, Holds, Slug
  <2>3. AdoptInv'
    BY <2>1 DEF AdoptInv, Serve, At, Slug
  <2> QED
    BY <2>2, <2>3
<1>3. CASE Crash
  <2>1. ticket' = ticket
    BY <1>3 DEF Crash, disk
  <2>2. TicketInv'
    BY <1>3, <2>1, CrashMoves DEF TicketInv, Holds, Holding, Reserving, Slug
  <2>3. AdoptInv'
    <3>1. \A b \in Builds : build'[b].pc \in {"free", "left", "over"}
      BY <1>3, CrashMoves
    <3> QED
      BY <1>3, <3>1 DEF AdoptInv, Back, Crash
  <2> QED
    BY <2>2, <2>3
<1>4. CASE AdoptNone
  <2>1. ticket' = ticket /\ active' = active /\ robbed' = robbed /\ up'
    BY <1>4, AdoptNoneMoves DEF disk, memory, history
  <2>2. \A b \in Builds :
           /\ build[b].pc \in {"free", "left", "over"} /\ build'[b].pc \in {"free", "left", "over"}
           /\ build'[b].slug = build[b].slug \/ build'[b] = build[b]
           /\ build'[b].pc = build[b].pc \/ build'[b].pc = "left"
    BY <1>4, AdoptNoneMoves
  <2>3. TicketInv'
    BY <2>1, <2>2 DEF TicketInv, Holds, Holding, Reserving, Slug
  <2>4. AdoptInv'
    BY <2>1, <2>2 DEF AdoptInv
  <2> QED
    BY <2>3, <2>4
<1> QED
  BY <1>1, <1>2, <1>3, <1>4, AdoptKeepsTickets DEF Restart

-----------------------------------------------------------------------------
(* Narration *)

Ended == {"tidy", "logsGone", "tidyUnclaimed"}

(* A build that is still to be narrated was so at most once per crash, and *)
(* one that was has lost its ticket, or its reaper is tidying up.          *)
ToldInv ==
    \A b \in Builds :
       /\ build[b].pc \in Reserving \cup {"free", "reserve", "watch", "restamp", "refused"} => told[b] = 0
       /\ told[b] <= 1 + crashes
       /\ build[b].pc = "poll" => told[b] <= crashes
       /\ build[b].pc \in {"left", "over"} /\ Slug(b) \in todo => told[b] <= crashes
       /\ b \notin cut =>
            /\ told[b] <= 1
            /\ build[b].pc = "poll" => told[b] = 0
            /\ told[b] = 1 => build[b].pc \in Ended \/ ticket[Slug(b)] # b

(* No thread writes the name of another build.                             *)
LEMMA ThreadTickets ==
    ASSUME Shape, NEW b \in Builds, Thread(b)
    PROVE  /\ b # Nothing
           /\ \A s \in Slugs : \/ ticket'[s] = ticket[s]
                               \/ ticket'[s] = Nothing
                               \/ ticket'[s] = b /\ build[b].pc = "ticket"
<1>1. build[b].slug \in Slugs
  BY ThreadMoves
<1>2. \/ ticket' = ticket
      \/ ticket' = [ticket EXCEPT ![Slug(b)] = Nothing]
      \/ ticket' = [ticket EXCEPT ![Slug(b)] = b] /\ build[b].pc = "ticket"
  BY DEF Thread, Reserve, Deny, OpenLogs, WriteTicket, Announce, Spawn, Reap, RefusedRelease, At,
     RefusedRestamp, RefusedNarrate, Unlink, RemoveTicket, FinishBuild, TidyAdopted, Poll, disk
<1> QED
  BY <1>1, <1>2 DEF Shape, Slug, Builds, Nothing

(* Every build with a thread has a slug.                                   *)
LEMMA SlugsAreSlugs ==
    ASSUME Shape PROVE \A b \in Builds : build[b].pc # "free" => build[b].slug \in Slugs
  BY RecordsAreWhole DEF At, Record

LEMMA ThreadKeepsTold ==
    ASSUME Shape, TicketInv, AdoptInv, ToldInv, NEW b \in Builds, Thread(b) PROVE ToldInv'
<1>1. crashes \in Nat /\ told \in [Builds -> Nat] /\ build[b].slug \in Slugs
  BY ThreadMoves DEF Shape
<1>2. \A c \in Builds \ {b} :
         build[c].pc # "free" /\ ticket[build[c].slug] # c => ticket'[build[c].slug] # c
  BY ThreadTickets, SlugsAreSlugs DEF Builds, Nothing
<1>3. \A c \in Builds \ {b} : told'[c] = told[c]
  BY <1>1 DEF Thread, Reserve, Deny, OpenLogs, WriteTicket, Announce, Spawn, Reap, RefusedRelease, Narrate,
     RefusedRestamp, RefusedNarrate, Unlink, RemoveTicket, FinishBuild, TidyAdopted, Poll, history
<1>4. ASSUME NEW c \in Builds \ {b} PROVE
       /\ build'[c].pc \in Reserving \cup {"free", "reserve", "watch", "restamp", "refused"} => told'[c] = 0
       /\ told'[c] <= 1 + crashes'
       /\ build'[c].pc = "poll" => told'[c] <= crashes'
       /\ build'[c].pc \in {"left", "over"} /\ Slug(c)' \in todo' => told'[c] <= crashes'
       /\ c \notin cut' =>
            /\ told'[c] <= 1
            /\ build'[c].pc = "poll" => told'[c] = 0
            /\ told'[c] = 1 => build'[c].pc \in Ended \/ ticket'[Slug(c)'] # c
  <2>1. build'[c] = build[c] /\ told'[c] = told[c] /\ UNCHANGED <<todo, crashes, cut>>
    BY <1>3, ThreadMoves
  <2> QED
    BY <1>2, <2>1 DEF ToldInv, Slug, Reserving
<1>5. build'[b].pc = "over" => Slug(b)' \notin todo' \/ told[b] = 0
  BY ThreadMoves DEF AdoptInv, Slug, Shape, ToldInv, Back, Reserving
<1>6. CASE Reap(b) \/ (Poll(b) /\ Narrate(b) /\ Goto(b, "tidy")) \/ RefusedNarrate(b)
  <2>1. /\ build'[b].pc = "tidy" /\ build[b].pc \in {"watch", "poll", "refused"}
        /\ told'[b] = told[b] + 1 /\ UNCHANGED <<crashes, cut>>
    BY <1>1, <1>6, GotoMoves, RecordsAreWhole
       DEF Reap, Poll, RefusedNarrate, Narrate, At, Moves, Places
  <2>2. told[b] <= crashes /\ (b \notin cut => told[b] = 0)
    BY <1>1, <2>1 DEF ToldInv
  <2>3. /\ told'[b] <= 1 + crashes' /\ (b \notin cut' => told'[b] <= 1)
    BY <1>1, <2>1, <2>2
  <2> QED
    BY <1>4, <2>1, <2>3 DEF ToldInv, Ended, Reserving
<1>7. CASE /\ told' = told
           /\ build[b].pc \in Reserving \cup {"reserve", "watch", "restamp"}
  <2>1. told'[b] = 0 /\ UNCHANGED <<crashes, cut>>
    BY <1>7, ThreadMoves DEF ToldInv
  <2> QED
    BY <1>1, <1>4, <2>1 DEF ToldInv
<1>8. CASE Unlink(b) \/ RemoveTicket(b) \/ FinishBuild(b) \/ TidyAdopted(b)
  <2>1. /\ told' = told /\ UNCHANGED <<crashes, cut, todo>> /\ build'[b].slug = build[b].slug
        /\ build'[b].pc \in {"logsGone", "ticketGone", "over"}
        /\ build'[b].pc = "logsGone" \/ ticket'[build[b].slug] # b
    BY <1>1, <1>8, GotoMoves, RecordsAreWhole, ThreadMoves, ThreadTickets
       DEF Unlink, RemoveTicket, FinishBuild, TidyAdopted, At, Moves, Places, TicketInv, Slug, history, disk,
           Shape
  <2> QED
    BY <1>1, <1>4, <1>5, <2>1 DEF ToldInv, Ended, Reserving, Slug
<1>9. CASE Poll(b) /\ Goto(b, "kept") /\ told' = told
  <2>1. /\ build[b].pc = "poll" /\ build'[b].pc = "kept" /\ build'[b].slug = build[b].slug
        /\ UNCHANGED <<crashes, cut>>
    BY <1>1, <1>9, GotoMoves DEF Poll, At, Moves, Places
  <2>2. told'[b] <= crashes /\ (b \notin cut => told'[b] = 0)
    BY <1>9, <2>1 DEF ToldInv
  <2> QED
    BY <1>1, <1>4, <1>9, <2>1, <2>2 DEF ToldInv, Reserving
<1>10. Poll(b) => (Narrate(b) /\ Goto(b, "tidy")) \/ (Goto(b, "kept") /\ told' = told)
  BY DEF Poll
<1> QED
  BY <1>6, <1>7, <1>8, <1>9, <1>10 DEF Thread, Reserve, Deny, OpenLogs, WriteTicket, Announce, Spawn,
     RefusedRelease, RefusedRestamp, At, history, Reserving

LEMMA OthersKeepTold ==
    ASSUME Shape, AdoptInv, ToldInv,
           \/ \E b \in Builds, s \in Slugs : ReadSpec(b, s)
           \/ \E b \in Builds : Audit(b)
           \/ \E s \in Slugs : UnitEnds(s) \/ Confirm(s)
           \/ Restart \/ Crash \/ Midnight
    PROVE  ToldInv'
<1>1. ASSUME NEW b \in Builds, Audit(b) \/ \E s \in Slugs : ReadSpec(b, s) PROVE ToldInv'
  <2>1. /\ \A c \in Builds \ {b} : build'[c] = build[c]
        /\ UNCHANGED <<todo, ticket, told, cut, crashes>>
        /\ \/ build[b].pc = "free" /\ build'[b].pc = "reserve"
           \/ build'[b].pc = build[b].pc /\ build'[b].slug = build[b].slug
    BY <1>1, RecordMoves DEF disk, history
  <2> QED
    BY <2>1 DEF ToldInv, Ended, Reserving, Slug, Shape
<1>2. CASE (\E s \in Slugs : UnitEnds(s) \/ Confirm(s)) \/ Midnight \/ Serve
  <2>1. UNCHANGED <<ticket, told, cut, crashes, build, todo>>
    BY <1>2 DEF UnitEnds, Confirm, Midnight, Serve, disk, memory, history
  <2> QED
    BY <2>1 DEF ToldInv, Slug
<1>3. CASE Crash
  <2>1. /\ UNCHANGED <<ticket, told>> /\ crashes' = crashes + 1
        /\ cut' = cut \cup {b \in Builds : build[b].pc \in Ended}
    BY <1>3 DEF Crash, disk, Ended
  <2> QED
    BY <1>3, <2>1, CrashMoves DEF ToldInv, Ended, Reserving, Slug, Shape
<1>4. ASSUME NEW s \in Slugs, Adopt(s) PROVE ToldInv'
  <2>1. CASE ticket[s] = Nothing
    BY <1>4, <2>1 DEF Adopt, ToldInv, Slug
  <2>2. CASE ticket[s] # Nothing
    <3>1. PICK b \in Builds :
              /\ ticket[s] = b /\ build[b].slug = s /\ build[b].pc \in {"left", "over"} /\ b # Nothing
              /\ todo' = todo \ {s} /\ s \in todo
              /\ UNCHANGED <<cut, crashes>>
              /\ \/ Moves(b, "poll") /\ told' = told /\ ticket' = ticket
                 \/ Moves(b, "tidyUnclaimed") /\ Narrate(b) /\ ticket' = ticket
                 \/ /\ Moves(b, "left") /\ told' = told
                    /\ ticket' = [ticket EXCEPT ![s] = Nothing]
      BY <1>4, <2>2, AdoptMoves
    <3>2. told \in [Builds -> Nat] /\ crashes \in Nat
      BY DEF Shape
    <3>3. told[b] <= crashes /\ (b \notin cut => told[b] = 0)
      <4>1. b \notin cut => told[b] <= 1 /\ told[b] # 1
        BY <3>1 DEF ToldInv, Slug, Ended
      <4> QED
        BY <3>1, <3>2, <4>1 DEF ToldInv, Slug
    <3>4. CASE Moves(b, "poll") /\ told' = told /\ ticket' = ticket
      BY <3>1, <3>2, <3>3, <3>4 DEF Moves, ToldInv, Ended, Reserving, Slug
    <3>5. CASE Moves(b, "tidyUnclaimed") /\ Narrate(b) /\ ticket' = ticket
      BY <3>1, <3>2, <3>3, <3>5 DEF Moves, Narrate, ToldInv, Ended, Reserving, Slug
    <3>6. CASE /\ Moves(b, "left") /\ told' = told
               /\ ticket' = [ticket EXCEPT ![s] = Nothing]
      <4>1. \A c \in Builds : build[c].pc # "free" /\ ticket'[Slug(c)] = c => ticket[Slug(c)] = c
        BY <3>6, SlugsAreSlugs DEF Shape, Builds, Nothing, Slug
      <4> QED
        BY <3>1, <3>2, <3>3, <3>6, <4>1 DEF Moves, ToldInv, Ended, Reserving, Slug
    <3> QED
      BY <3>1, <3>4, <3>5, <3>6
  <2> QED
    BY <2>1, <2>2
<1>5. CASE AdoptNone
  <2>1. UNCHANGED <<ticket, told, cut, crashes>> /\ todo' = {}
    BY <1>5, AdoptNoneMoves DEF disk, history
  <2> QED
    BY <1>5, <2>1, AdoptNoneMoves DEF ToldInv, Ended, Reserving, Slug
<1> QED
  BY <1>1, <1>2, <1>3, <1>4, <1>5 DEF Restart

-----------------------------------------------------------------------------
(* Files *)

Kept(b) == b \in logs \cup robbed \cup cut

(* Whoever will read the files has them, and so will whoever finds the     *)
(* ticket.                                                                 *)
FilesInv ==
    \A b \in Builds :
       /\ build[b].pc \in {"ticket", "announce", "spawn", "watch", "poll"} => Kept(b)
       /\ build[b].pc \notin {"free", "logsGone"} /\ ticket[Slug(b)] = b => Kept(b)

LEMMA ThreadKeepsFiles ==
    ASSUME Shape, TicketInv, FilesInv, NEW b \in Builds, Thread(b) PROVE FilesInv'
<1>1. robbed \subseteq robbed' /\ cut' = cut
  BY ThreadMoves DEF Thread, Reserve, Deny, OpenLogs, WriteTicket, Announce, Spawn, Reap, RefusedRelease,
     RefusedRestamp, RefusedNarrate, Unlink, RemoveTicket, FinishBuild, TidyAdopted, Poll, LeavesOthers,
     Refund, history
<1>2. \A c \in Builds \ {b} : Kept(c) => Kept(c)'
  BY <1>1 DEF Kept, Thread, Reserve, Deny, OpenLogs, WriteTicket, Announce, Spawn, Reap, RefusedRelease,
     RefusedRestamp, RefusedNarrate, Unlink, RemoveTicket, FinishBuild, TidyAdopted, Poll, disk
<1>3. ASSUME NEW c \in Builds \ {b} PROVE
       /\ build'[c].pc \in {"ticket", "announce", "spawn", "watch", "poll"} => Kept(c)'
       /\ build'[c].pc \notin {"free", "logsGone"} /\ ticket'[Slug(c)'] = c => Kept(c)'
  <2>1. build'[c] = build[c]
    BY ThreadMoves
  <2>2. build[c].pc # "free" /\ ticket'[build[c].slug] = c => ticket[build[c].slug] = c
    BY ThreadTickets, SlugsAreSlugs DEF Builds, Nothing
  <2> QED
    BY <1>2, <2>1, <2>2 DEF FilesInv, Slug
<1>4. build[b].slug \in Slugs /\ build'[b].slug = build[b].slug
  BY ThreadMoves
<1>5. ~At(b, "free") /\ b # Nothing
  BY ThreadMoves, ThreadTickets DEF At
<1>6. CASE Reserve(b)
  <2>1. /\ ticket' = ticket /\ ticket[build[b].slug] # b
    BY <1>6 DEF Reserve, Deny, At, TicketInv, Slug, disk
  <2>2. build'[b].pc \in {"logs", "over"}
    <3>1. CASE Goto(b, "over")
      BY <1>5, <3>1, GotoMoves DEF Moves, Places
    <3>2. CASE build' = [build EXCEPT ![b] = [@ EXCEPT !.pc = "logs", !.day = day]]
      BY <1>5, <3>2, RecordsAreWhole DEF Record, Shape
    <3> QED
      BY <1>6, <3>1, <3>2 DEF Reserve, Deny
  <2> QED
    BY <1>3, <1>4, <2>1, <2>2 DEF FilesInv, Slug
<1>7. CASE OpenLogs(b) \/ WriteTicket(b)
  <2>1. ticket[build[b].slug] # b
    BY <1>7 DEF OpenLogs, WriteTicket, At, TicketInv, Slug
  <2>2. \/ Moves(b, "ticket") /\ b \in logs'
        \/ Moves(b, "over") /\ ticket' = ticket
        \/ Moves(b, "announce") /\ logs' = logs /\ build[b].pc = "ticket"
    BY <1>5, <1>7, GotoMoves DEF OpenLogs, WriteTicket, At, Places
  <2>3. Moves(b, "announce") /\ logs' = logs /\ build[b].pc = "ticket" => Kept(b)'
    BY <1>1 DEF FilesInv, Kept
  <2> QED
    BY <1>3, <1>4, <2>1, <2>2, <2>3 DEF FilesInv, Slug, Moves, Kept
<1>8. CASE Announce(b) \/ Spawn(b)
  <2>1. build[b].pc \in {"announce", "spawn"}
    BY <1>8 DEF Announce, Spawn, At
  <2>2. logs' = logs \/ (Moves(b, "over") /\ ticket' = [ticket EXCEPT ![Slug(b)] = Nothing])
    BY <1>5, <1>8, GotoMoves DEF Announce, Spawn, Places
  <2>3. CASE logs' = logs
    BY <1>1, <1>3, <2>1, <2>3 DEF FilesInv, Kept
  <2>4. CASE Moves(b, "over") /\ ticket' = [ticket EXCEPT ![Slug(b)] = Nothing]
    BY <1>3, <1>4, <1>5, <2>4 DEF FilesInv, Moves, Slug, Shape
  <2> QED
    BY <2>2, <2>3, <2>4
<1>9. CASE Reap(b) \/ Poll(b) \/ RefusedRelease(b) \/ RefusedRestamp(b) \/ RefusedNarrate(b)
  <2>1. logs' = logs /\ ticket' = ticket /\ build[b].pc \in {"watch", "poll", "restamp", "refused"}
    BY <1>9 DEF Reap, Poll, RefusedRelease, RefusedRestamp, RefusedNarrate, At, disk
  <2>2. build'[b].pc \in {"tidy", "kept", "restamp", "refused"}
    <3>1. CASE Goto(b, "tidy") \/ Goto(b, "kept") \/ Goto(b, "refused")
      BY <1>5, <3>1, GotoMoves DEF Moves, Places
    <3>2. CASE build' = [build EXCEPT ![b] = [@ EXCEPT !.pc = "restamp", !.refund = TRUE]]
      BY <1>5, <3>2, RecordsAreWhole DEF Record, Shape
    <3> QED
      BY <1>9, <3>1, <3>2 DEF Reap, Poll, RefusedRelease, RefusedRestamp, RefusedNarrate
  <2> QED
    BY <1>1, <1>3, <1>4, <2>1, <2>2 DEF FilesInv, Slug, Kept
<1>10. CASE Unlink(b)
  <2>1. build'[b].pc = "logsGone"
    BY <1>5, <1>10, GotoMoves DEF Unlink, Moves, Places
  <2> QED
    BY <1>3, <2>1 DEF FilesInv
<1>11. CASE RemoveTicket(b) \/ TidyAdopted(b) \/ FinishBuild(b)
  <2>1. build'[b].pc \in {"ticketGone", "over"}
    BY <1>5, <1>11, GotoMoves DEF RemoveTicket, TidyAdopted, FinishBuild, Moves, Places
  <2>2. ticket'[build[b].slug] # b
    BY <1>4, <1>5, <1>11 DEF RemoveTicket, TidyAdopted, FinishBuild, At, TicketInv, Slug, disk, Shape
  <2> QED
    BY <1>3, <1>4, <2>1, <2>2 DEF FilesInv, Slug
<1> QED
  BY <1>6, <1>7, <1>8, <1>9, <1>10, <1>11 DEF Thread

LEMMA OthersKeepFiles ==
    ASSUME Shape, AdoptInv, FilesInv,
           \/ \E b \in Builds, s \in Slugs : ReadSpec(b, s)
           \/ \E b \in Builds : Audit(b)
           \/ \E s \in Slugs : UnitEnds(s) \/ Confirm(s)
           \/ Restart \/ Crash \/ Midnight
    PROVE  FilesInv'
<1>1. ASSUME NEW b \in Builds, Audit(b) \/ \E s \in Slugs : ReadSpec(b, s) PROVE FilesInv'
  <2>1. \A c \in Builds : build[c].pc = "free" => \A s \in Slugs : ticket[s] # c
    BY DEF Shape, Names, At, Builds, Nothing
  <2>2. /\ \A c \in Builds \ {b} : build'[c] = build[c]
        /\ UNCHANGED <<ticket, logs, robbed, cut>>
        /\ \/ build[b].pc = "free" /\ build'[b].pc = "reserve" /\ build'[b].slug \in Slugs
           \/ build'[b].pc = build[b].pc /\ build'[b].slug = build[b].slug
    BY <1>1, RecordMoves DEF disk, history
  <2> QED
    BY <2>1, <2>2 DEF FilesInv, Kept, Slug
<1>2. CASE (\E s \in Slugs : UnitEnds(s) \/ Confirm(s)) \/ Midnight
  <2>1. UNCHANGED <<ticket, logs, robbed, cut, build>>
    BY <1>2 DEF UnitEnds, Confirm, Midnight, disk, history
  <2> QED
    BY <2>1 DEF FilesInv, Kept, Slug
<1>3. CASE Serve
  <2>1. /\ UNCHANGED <<ticket, robbed, cut, build>> /\ ~up
        /\ logs' = logs \cap {ticket[s] : s \in Slugs}
    BY <1>3 DEF Serve, history
  <2>2. ASSUME NEW b \in Builds, build[b].pc # "free", ticket[Slug(b)] = b, Kept(b) PROVE Kept(b)'
    BY <2>1, <2>2, SlugsAreSlugs DEF Kept, Slug
  <2>3. \A b \in Builds : build[b].pc \in {"ticket", "announce", "spawn", "watch", "poll"} => ticket[Slug(b)] = b
    BY <2>1 DEF AdoptInv, Back
  <2> QED
    BY <2>1, <2>2, <2>3 DEF FilesInv, Slug
<1>4. CASE Crash
  <2>1. /\ UNCHANGED <<ticket, logs, robbed>>
        /\ cut' = cut \cup {b \in Builds : build[b].pc \in {"tidy", "logsGone", "tidyUnclaimed"}}
    BY <1>4 DEF Crash, disk
  <2> QED
    BY <1>4, <2>1, CrashMoves DEF FilesInv, Kept, Slug
<1>5. ASSUME NEW s \in Slugs, Adopt(s) PROVE FilesInv'
  <2>1. CASE ticket[s] = Nothing
    BY <1>5, <2>1 DEF Adopt, FilesInv, Kept, Slug
  <2>2. CASE ticket[s] # Nothing
    <3>1. PICK b \in Builds :
              /\ ticket[s] = b /\ build[b].slug = s /\ build[b].pc \in {"left", "over"}
              /\ UNCHANGED <<logs, robbed, cut>>
              /\ \/ Moves(b, "poll") \/ Moves(b, "tidyUnclaimed") \/ Moves(b, "left")
              /\ ticket' = ticket \/ ticket' = [ticket EXCEPT ![s] = Nothing]
      BY <1>5, <2>2, AdoptMoves
    <3>2. \A c \in Builds : build[c].pc # "free" /\ ticket'[Slug(c)] = c => ticket[Slug(c)] = c
      BY <3>1, SlugsAreSlugs DEF Shape, Builds, Nothing, Slug
    <3> QED
      BY <3>1, <3>2 DEF Moves, FilesInv, Kept, Slug
  <2> QED
    BY <2>1, <2>2
<1>6. CASE AdoptNone
  <2>1. UNCHANGED <<ticket, logs, robbed, cut>>
    BY <1>6, AdoptNoneMoves DEF disk, history
  <2> QED
    BY <1>6, <2>1, AdoptNoneMoves DEF FilesInv, Kept, Slug
<1> QED
  BY <1>1, <1>2, <1>3, <1>4, <1>5, <1>6 DEF Restart

-----------------------------------------------------------------------------
(* The day's cap *)

(* Builds that hold one of the day's slots, running or on their way.       *)
Taken(d) == {b \in Builds : /\ ~At(b, "free") /\ build[b].day = d /\ ~build[b].refund
                            /\ build[b].verb # "waits" \/ build[b].pc \in Reserving}

(* What the records say of days: an audit line is not older than the slot, *)
(* and when the count is not of today, no build of today is under way.     *)
DaysInv ==
    \A b \in Builds : ~At(b, "free") =>
       /\ build[b].pc = "reserve" => build[b].day = NoDay
       /\ build[b].day \in (0..day) \cup {NoDay}
       /\ build[b].verb # "waits" \/ build[b].pc \in Reserving => build[b].day <= day
       /\ build[b].pc \in Reserving \cup {"reserve"} => build[b].verb = "waits"
       /\ build[b].pc = "watch" => build[b].verb # "waits"
       /\ build[b].verb = "audited" => build[b].day <= audited[b] /\ audited[b] <= day
       /\ count.day # day /\ build[b].day = day =>
             build[b].verb # "returns" /\ build[b].pc \notin Reserving

(* The count covers the slots of its day, but for what is excepted.        *)
CountInv ==
    /\ \A d \in 0..MaxDay : Cardinality(Taken(d)) <= Cap + Cardinality(Lost) + misrefunds
    /\ count.day # NoDay => Cardinality(Taken(count.day)) <= count.n + Cardinality(Lost) + misrefunds

LEMMA TakenAreFew ==
    /\ \A d : Taken(d) \in SUBSET Builds /\ Taken(d)' \in SUBSET Builds
    /\ Lost \in SUBSET Builds /\ Lost' \in SUBSET Builds
    /\ \A d : Cardinality(Taken(d)) \in Nat /\ Cardinality(Taken(d)') \in Nat
    /\ Cardinality(Lost) \in Nat /\ Cardinality(Lost') \in Nat
<1>1. /\ \A d : Taken(d) \in SUBSET Builds /\ Taken(d)' \in SUBSET Builds
      /\ Lost \in SUBSET Builds /\ Lost' \in SUBSET Builds
  BY DEF Taken, Lost
<1> QED
  BY <1>1, BuildsAreFinite

(* Nothing is taken, nothing lost is found again.                          *)
LEMMA QuietKeepsCount ==
    ASSUME Shape, Shape', CountInv, \A d : Taken(d)' \subseteq Taken(d), Lost \subseteq Lost',
           misrefunds' = misrefunds, count' = count \/ count'.day = NoDay
    PROVE  CountInv'
<1>1. \A d : Cardinality(Taken(d)') <= Cardinality(Taken(d))
  BY TakenAreFew, BuildsAreFinite, FS_Subset
<1>2. Cardinality(Lost) <= Cardinality(Lost')
  BY TakenAreFew, BuildsAreFinite, FS_Subset
<1>3. misrefunds \in Nat /\ Cap \in Nat /\ count \in [day : 0..NoDay, n : 0..Cap]
  BY BuildsAssumption DEF Shape
<1>4. ASSUME NEW d \in 0..MaxDay
      PROVE  Cardinality(Taken(d)') <= Cap + Cardinality(Lost') + misrefunds'
  BY <1>1, <1>2, <1>3, TakenAreFew DEF CountInv
<1>5. ASSUME count' = count, count.day # NoDay
      PROVE  Cardinality(Taken(count.day)') <= count.n + Cardinality(Lost') + misrefunds
  BY <1>1, <1>2, <1>3, <1>5, TakenAreFew DEF CountInv
<1> QED
  BY <1>4, <1>5 DEF CountInv

(* A refund takes a slot off the count and off the day that lent it, or is *)
(* counted as given back to the wrong day.                                 *)
LEMMA RefundKeepsCount ==
    ASSUME Shape, Shape', CountInv, NEW b \in Builds, Refund(b), b \in Taken(build[b].day),
           \A d : Taken(d)' \subseteq Taken(d) \ {b}, Lost' = Lost
    PROVE  CountInv'
<1>1. \A d : Cardinality(Taken(d)') <= Cardinality(Taken(d))
  BY TakenAreFew, BuildsAreFinite, FS_Subset
<1>2. ASSUME NEW d, build[b].day = d PROVE Cardinality(Taken(d)') + 1 <= Cardinality(Taken(d))
  <2>1. IsFiniteSet(Taken(d)) /\ b \in Taken(d) /\ Cardinality(Taken(d)) \in Nat
    BY <1>2, TakenAreFew, BuildsAreFinite
  <2>2. IsFiniteSet(Taken(d) \ {b}) /\ Cardinality(Taken(d) \ {b}) = Cardinality(Taken(d)) - 1
    BY <2>1, FS_RemoveElement
  <2>3. Cardinality(Taken(d)') <= Cardinality(Taken(d) \ {b})
    BY <2>2, FS_Subset
  <2> QED
    BY <2>1, <2>2, <2>3, TakenAreFew
<1>3. /\ misrefunds \in Nat /\ Cap \in Nat /\ count.n \in Nat /\ count.day \in 0..NoDay
      /\ count' = [count EXCEPT !.n = IF @ > 0 THEN @ - 1 ELSE 0]
      /\ misrefunds' = misrefunds + (IF count.n > 0 /\ count.day # build[b].day THEN 1 ELSE 0)
  BY BuildsAssumption DEF Shape, Refund
<1>4. ASSUME NEW d \in 0..MaxDay
      PROVE  Cardinality(Taken(d)') <= Cap + Cardinality(Lost') + misrefunds'
  BY <1>1, <1>3, TakenAreFew DEF CountInv
<1>5. count'.day = count.day /\ count'.n = IF count.n > 0 THEN count.n - 1 ELSE 0
  BY <1>3 DEF Shape
<1>6. ASSUME count.day # NoDay
      PROVE  Cardinality(Taken(count.day)') <= count'.n + Cardinality(Lost') + misrefunds'
  <2>1. PICK d : d = count.day
    OBVIOUS
  <2>2. Cardinality(Taken(d)) <= count.n + Cardinality(Lost) + misrefunds
    BY <1>6, <2>1 DEF CountInv
  <2>3. Cardinality(Taken(d)') <= count'.n + Cardinality(Lost') + misrefunds'
    <3>1. CASE count.n = 0
      BY <1>1, <1>3, <1>5, <2>2, <3>1, TakenAreFew
    <3>2. CASE count.n > 0 /\ build[b].day = d
      BY <1>2, <1>3, <1>5, <2>1, <2>2, <3>2, TakenAreFew
    <3>3. CASE count.n > 0 /\ build[b].day # d
      BY <1>1, <1>3, <1>5, <2>1, <2>2, <3>3, TakenAreFew
    <3> QED
      BY <1>3, <3>1, <3>2, <3>3
  <2> QED
    BY <1>5, <2>1, <2>3
<1> QED
  BY <1>4, <1>5, <1>6 DEF CountInv

(* A reservation finds the count of the day, in memory or in the audit     *)
(* log, below the cap, and adds itself.                                    *)
LEMMA ReserveKeepsCount ==
    ASSUME Shape, Shape', CountInv, DaysInv, NEW b \in Builds, NEW t, day = t, day' = t,
           CountToday < Cap, count' = [day |-> day, n |-> CountToday + 1],
           \A d : Taken(d)' \subseteq IF d = t THEN Taken(d) \cup {b} ELSE Taken(d),
           Lost' = Lost, misrefunds' = misrefunds
    PROVE  CountInv'
<1>1. \A d : d # t => Cardinality(Taken(d)') <= Cardinality(Taken(d))
  BY TakenAreFew, BuildsAreFinite, FS_Subset
<1>2. Cardinality(Taken(t)') <= Cardinality(Taken(t)) + 1
  <2>1. IsFiniteSet(Taken(t)) /\ Cardinality(Taken(t)) \in Nat
    BY TakenAreFew, BuildsAreFinite
  <2>2. IsFiniteSet(Taken(t) \cup {b}) /\ Cardinality(Taken(t) \cup {b}) <= Cardinality(Taken(t)) + 1
    <3>1. /\ IsFiniteSet(Taken(t) \cup {b})
          /\ Cardinality(Taken(t) \cup {b}) =
             IF b \in Taken(t) THEN Cardinality(Taken(t)) ELSE Cardinality(Taken(t)) + 1
      BY <2>1, FS_AddElement, Zenon
    <3> QED
      BY <2>1, <3>1
  <2>3. Cardinality(Taken(t)') <= Cardinality(Taken(t) \cup {b})
    BY <2>2, FS_Subset
  <2> QED
    BY <2>1, <2>2, <2>3, TakenAreFew, FS_CardinalityType
<1>3. misrefunds \in Nat /\ Cap \in Nat /\ count.n \in Nat /\ t \in 0..MaxDay /\ NoDay \notin 0..MaxDay
  BY BuildsAssumption DEF Shape, NoDay
<1>4. CountToday \in Nat /\ Cardinality(Taken(t)) <= CountToday + Cardinality(Lost) + misrefunds
  <2>1. CASE count.day = day
    <3>1. Cardinality(Taken(t)) <= count.n + Cardinality(Lost) + misrefunds
      BY <1>3, <2>1 DEF CountInv
    <3> QED
      BY <1>3, <2>1, <3>1 DEF CountToday
  <2>2. CASE count.day # day
    <3> DEFINE Lines == {c \in Builds : audited[c] = day}
    <3>1. Taken(t) \subseteq Lines \cup Lost
      <4> SUFFICES ASSUME NEW c \in Taken(t), c \notin Lost PROVE c \in Lines
        OBVIOUS
      <4>1. c \in Builds /\ build[c] \in Record /\ build[c].day = day
        BY RecordsAreWhole DEF Taken
      <4>2. build[c].verb = "audited"
        BY <2>2, <4>1 DEF Taken, DaysInv, Lost, Record, Verbs
      <4>3. build[c].day <= audited[c] /\ audited[c] <= day
        BY <4>1, <4>2 DEF DaysInv, Taken
      <4>4. audited[c] \in Nat
        BY <4>1, BuildsAssumption DEF Shape, NoDay
      <4> QED
        BY <1>3, <4>1, <4>3, <4>4
    <3>2. IsFiniteSet(Lines) /\ Cardinality(Lines) \in Nat /\ IsFiniteSet(Lost)
      BY BuildsAreFinite, TakenAreFew
    <3>3. /\ IsFiniteSet(Lines \cup Lost) /\ Cardinality(Lines \cap Lost) \in Nat
          /\ Cardinality(Lines \cup Lost) = Cardinality(Lines) + Cardinality(Lost) - Cardinality(Lines \cap Lost)
      BY <3>2, FS_Union, FS_Intersection, FS_CardinalityType
    <3>4. Cardinality(Taken(t)) <= Cardinality(Lines \cup Lost)
      BY <3>1, <3>3, FS_Subset
    <3>5. CountToday = Cardinality(Lines)
      BY <2>2 DEF CountToday
    <3> QED
      BY <1>3, <3>2, <3>3, <3>4, <3>5, TakenAreFew
  <2> QED
    BY <2>1, <2>2
<1>5. Cardinality(Taken(t)') <= CountToday + 1 + Cardinality(Lost') + misrefunds'
  BY <1>2, <1>3, <1>4, TakenAreFew
<1>6. ASSUME NEW d \in 0..MaxDay
      PROVE  Cardinality(Taken(d)') <= Cap + Cardinality(Lost') + misrefunds'
  <2>1. CASE d = t
    BY <1>3, <1>4, <1>5, <2>1, TakenAreFew
  <2>2. CASE d # t
    BY <1>1, <1>3, <2>2, TakenAreFew DEF CountInv
  <2> QED
    BY <2>1, <2>2
<1>7. count'.day = t /\ Cardinality(Taken(t)') <= count'.n + Cardinality(Lost') + misrefunds'
  BY <1>5
<1> QED
  BY <1>6, <1>7 DEF CountInv
(* What a step of a thread does to its build's slot: nothing, a refund or  *)
(* the reservation.                                                        *)
SlotStays(b) ==
    /\ UNCHANGED <<count, misrefunds>>
    /\ build'[b].day = build[b].day /\ build'[b].refund = build[b].refund
    /\ \/ /\ build'[b].verb = build[b].verb /\ build'[b].pc \notin {"free", "reserve", "watch"}
          /\ build'[b].pc \in Reserving => build[b].pc \in Reserving
       \/ /\ build[b].pc = "spawn" /\ build'[b].pc = "watch"
          /\ build[b].verb # "lost" /\ build'[b].verb = "returns"

SlotGoes(b) ==
    /\ Refund(b)
    /\ build'[b].day = build[b].day /\ build'[b].verb = build[b].verb
    /\ \/ build[b].pc \in Reserving /\ build'[b].pc = "over"
       \/ build[b].pc = "watch" /\ build'[b].pc = "restamp" /\ build'[b].refund

SlotComes(b) ==
    /\ build[b].pc = "reserve" /\ build'[b].pc = "logs"
    /\ build'[b].day = day /\ build'[b].verb = build[b].verb
    /\ CountToday < Cap /\ count' = [day |-> day, n |-> CountToday + 1]
    /\ misrefunds' = misrefunds

LEMMA ThreadSlots ==
    ASSUME Shape, DaysInv, NEW b \in Builds, Thread(b)
    PROVE  SlotStays(b) \/ SlotGoes(b) \/ SlotComes(b)
<1>1. build[b].pc # "free" /\ build[b] \in Record /\ b \in Builds
  BY ThreadMoves, RecordsAreWhole DEF At
<1>2. CASE Reserve(b)
  <2>1. CASE Deny(b)
    <3>1. Moves(b, "over")
      BY <1>1, <2>1, GotoMoves DEF Deny, Places, At
    <3> QED
      BY <2>1, <3>1 DEF Deny, Moves, SlotStays, memory, history, Reserving
  <2>2. CASE ~(Slug(b) \in active \/ CountToday >= Cap)
    <3>1. build' = [build EXCEPT ![b] = [@ EXCEPT !.pc = "logs", !.day = day]]
      BY <1>2, <2>2 DEF Reserve
    <3>2. build'[b].pc = "logs" /\ build'[b].day = day /\ build'[b].verb = build[b].verb
      BY <1>1, <3>1 DEF Shape, Record
    <3>3. CountToday \in Nat
      <4>1. Cardinality({c \in Builds : audited[c] = day}) \in Nat
        BY BuildsAreFinite
      <4> QED
        BY <4>1 DEF CountToday, Shape
    <3>4. CountToday < Cap
      BY <2>2, <3>3, BuildsAssumption
    <3> QED
      BY <1>2, <2>2, <3>2, <3>4 DEF Reserve, SlotComes, At, history
  <2> QED
    BY <1>2, <2>1, <2>2 DEF Reserve
<1>3. CASE OpenLogs(b) \/ WriteTicket(b) \/ Announce(b)
  <2>1. build[b].pc \in {"logs", "ticket", "announce"}
    BY <1>3 DEF OpenLogs, WriteTicket, Announce, At
  <2>2. \/ /\ Moves(b, "ticket") \/ Moves(b, "announce") \/ Moves(b, "spawn")
           /\ UNCHANGED <<count, misrefunds>>
        \/ Moves(b, "over") /\ Refund(b)
    BY <1>1, <1>3, GotoMoves DEF OpenLogs, WriteTicket, Announce, Places, At, memory, history
  <2> QED
    BY <2>1, <2>2 DEF Moves, SlotStays, SlotGoes, Reserving
<1>4. CASE Spawn(b)
  <2>1. CASE Goto(b, "over") /\ Refund(b)
    <3>1. Moves(b, "over")
      BY <1>1, <2>1, GotoMoves DEF Places, At
    <3> QED
      BY <1>4, <2>1, <3>1 DEF Spawn, At, Moves, SlotGoes, Reserving
  <2>2. CASE /\ build' = [build EXCEPT ![b] = [@ EXCEPT !.pc = "watch", !.verb = "returns"]]
             /\ UNCHANGED <<count, misrefunds>>
    <3>1. /\ build'[b].pc = "watch" /\ build'[b].verb = "returns"
          /\ build'[b].day = build[b].day /\ build'[b].refund = build[b].refund
      BY <1>1, <2>2 DEF Shape, Record
    <3>2. build[b].pc = "spawn" /\ build[b].verb = "waits"
      BY <1>4 DEF Spawn, At, DaysInv, Reserving
    <3> QED
      BY <2>2, <3>1, <3>2 DEF SlotStays
  <2> QED
    BY <1>4, <2>1, <2>2 DEF Spawn, memory
<1>5. CASE RefusedRelease(b)
  <2>1. build' = [build EXCEPT ![b] = [@ EXCEPT !.pc = "restamp", !.refund = TRUE]]
    BY <1>5 DEF RefusedRelease
  <2>2. /\ build'[b].pc = "restamp" /\ build'[b].verb = build[b].verb
        /\ build'[b].day = build[b].day /\ build'[b].refund = TRUE
    BY <1>1, <2>1 DEF Shape, Record
  <2> QED
    BY <1>5, <2>2 DEF RefusedRelease, At, SlotGoes
<1>6. CASE \/ Reap(b) \/ Poll(b) \/ RefusedRestamp(b) \/ RefusedNarrate(b) \/ Unlink(b)
           \/ RemoveTicket(b) \/ FinishBuild(b) \/ TidyAdopted(b)
  <2>1. UNCHANGED <<count, misrefunds>>
    BY <1>6 DEF Reap, Poll, RefusedRestamp, RefusedNarrate, Unlink, RemoveTicket, FinishBuild, TidyAdopted,
       memory, history
  <2>2. \E where \in {"tidy", "kept", "refused", "logsGone", "ticketGone", "over"} : Goto(b, where)
    BY <1>6 DEF Reap, Poll, RefusedRestamp, RefusedNarrate, Unlink, RemoveTicket, FinishBuild, TidyAdopted
  <2>3. PICK where \in {"tidy", "kept", "refused", "logsGone", "ticketGone", "over"} : Goto(b, where)
    BY <2>2
  <2>4. Moves(b, where)
    BY <1>1, <2>3, GotoMoves DEF Places, At
  <2> QED
    BY <2>1, <2>4 DEF Moves, SlotStays, Reserving
<1> QED
  BY <1>2, <1>3, <1>4, <1>5, <1>6 DEF Thread

LEMMA ThreadKeepsBudget ==
    ASSUME Shape, Shape', TicketInv, DaysInv, CountInv, NEW b \in Builds, Thread(b)
    PROVE  DaysInv' /\ CountInv'
<1>1. /\ day' = day /\ audited' = audited /\ day \in Nat /\ day # NoDay
      /\ \A c \in Builds \ {b} : build'[c] = build[c]
      /\ build[b].pc # "free" /\ build[b] \in Record
  BY ThreadMoves, RecordsAreWhole, BuildsAssumption DEF At, Shape, NoDay
<1>2. /\ \A d : Taken(d)' \ {b} = Taken(d) \ {b}
      /\ Lost' \ {b} = Lost \ {b}
  BY <1>1 DEF Taken, Lost, At
<1>3. CASE SlotStays(b)
  <2>1. DaysInv'
    BY <1>1, <1>3 DEF SlotStays, DaysInv, At, Reserving
  <2>2. \A d : b \in Taken(d)' => b \in Taken(d)
    BY <1>1, <1>3 DEF SlotStays, Taken, At, Reserving
  <2>3. b \in Lost => b \in Lost'
    BY <1>1, <1>3 DEF SlotStays, Lost, At
  <2>4. (\A d : Taken(d)' \subseteq Taken(d)) /\ Lost \subseteq Lost'
    BY <1>2, <2>2, <2>3
  <2> QED
    BY <1>3, <2>1, <2>4, QuietKeepsCount DEF SlotStays
<1>4. CASE SlotGoes(b)
  <2>1. count'.day = count.day
    BY <1>4 DEF SlotGoes, Refund, Shape
  <2>2. DaysInv'
    BY <1>1, <1>4, <2>1 DEF SlotGoes, DaysInv, At, Reserving
  <2>3. b \in Taken(build[b].day)
    BY <1>1, <1>4 DEF SlotGoes, Taken, At, Reserving, DaysInv, TicketInv
  <2>4. \A d : b \notin Taken(d)'
    BY <1>1, <1>4 DEF SlotGoes, Taken, At, Reserving, DaysInv
  <2>5. b \in Lost <=> b \in Lost'
    BY <1>1, <1>4 DEF SlotGoes, Lost, At, Reserving
  <2>6. (\A d : Taken(d)' \subseteq Taken(d) \ {b}) /\ Lost' = Lost
    BY <1>2, <2>4, <2>5
  <2> QED
    BY <1>4, <2>2, <2>3, <2>6, RefundKeepsCount DEF SlotGoes
<1>5. CASE SlotComes(b)
  <2>1. DaysInv'
    BY <1>1, <1>5 DEF SlotComes, DaysInv, At, Reserving
  <2>2. PICK t : day = t
    OBVIOUS
  <2>3. \A d : d # t => b \notin Taken(d)'
    BY <1>1, <1>5, <2>2 DEF SlotComes, Taken
  <2>4. b \notin Lost /\ b \notin Lost'
    BY <1>1, <1>5 DEF SlotComes, Lost, DaysInv, At
  <2>5. /\ \A d : Taken(d)' \subseteq IF d = t THEN Taken(d) \cup {b} ELSE Taken(d)
        /\ Lost' = Lost
    BY <1>2, <2>3, <2>4
  <2> QED
    BY <1>1, <1>5, <2>1, <2>2, <2>5, ReserveKeepsCount DEF SlotComes
<1> QED
  BY <1>3, <1>4, <1>5, ThreadSlots
LEMMA OthersKeepBudget ==
    ASSUME Shape, Shape', AdoptInv, DaysInv, CountInv,
           \/ \E b \in Builds, s \in Slugs : ReadSpec(b, s)
           \/ \E b \in Builds : Audit(b)
           \/ \E s \in Slugs : UnitEnds(s) \/ Confirm(s)
           \/ Restart \/ Crash \/ Midnight
    PROVE  DaysInv' /\ CountInv'
<1>1. /\ day \in Nat /\ day # NoDay /\ NoDay \in Nat /\ MaxDay \in Nat /\ MaxDay < NoDay
      /\ audited \in [Builds -> Nat]
  BY BuildsAssumption DEF Shape, NoDay
<1>2. ASSUME NEW b \in Builds, Audit(b) \/ \E s \in Slugs : ReadSpec(b, s) PROVE DaysInv' /\ CountInv'
  <2>1. /\ \A c \in Builds \ {b} : build'[c] = build[c] /\ audited'[c] = audited[c]
        /\ UNCHANGED <<day, count, misrefunds>>
    BY <1>1, <1>2, RecordMoves DEF history
  <2>2. CASE /\ build[b].pc = "free" /\ build'[b].pc = "reserve"
             /\ build'[b].day = NoDay /\ build'[b].verb = "waits"
    <3>1. DaysInv'
      BY <1>1, <2>1, <2>2 DEF DaysInv, At, Reserving
    <3>2. (\A d : Taken(d)' \subseteq Taken(d)) /\ Lost' = Lost
      BY <2>1, <2>2 DEF Taken, Lost, At, Reserving
    <3> QED
      BY <2>1, <3>1, <3>2, QuietKeepsCount
  <2>3. CASE /\ build[b].pc # "free" /\ build'[b].pc = build[b].pc
             /\ build'[b].day = build[b].day /\ build'[b].refund = build[b].refund
             /\ build[b].verb = "returns" /\ build'[b].verb = "audited"
             /\ audited' = [audited EXCEPT ![b] = day]
    <3>1. audited'[b] = day
      BY <1>1, <2>3
    <3>2. DaysInv'
      BY <1>1, <2>1, <2>3, <3>1 DEF DaysInv, At, Reserving
    <3>3. (\A d : Taken(d)' \subseteq Taken(d)) /\ Lost' = Lost
      BY <2>1, <2>3 DEF Taken, Lost, At
    <3> QED
      BY <2>1, <3>2, <3>3, QuietKeepsCount
  <2> QED
    BY <1>2, <2>2, <2>3, RecordMoves
<1>3. CASE (\E s \in Slugs : UnitEnds(s) \/ Confirm(s)) \/ Serve
  <2>1. UNCHANGED <<day, count, misrefunds, build, audited>>
    BY <1>3 DEF UnitEnds, Confirm, Serve, memory, history
  <2>2. DaysInv'
    BY <2>1 DEF DaysInv, At
  <2>3. (\A d : Taken(d)' \subseteq Taken(d)) /\ Lost' = Lost
    BY <2>1 DEF Taken, Lost, At
  <2> QED
    BY <2>1, <2>2, <2>3, QuietKeepsCount
<1>4. CASE Midnight
  <2>1. UNCHANGED <<count, misrefunds, build, audited>> /\ day' = day + 1 /\ day < MaxDay
    BY <1>4 DEF Midnight, memory, history
  <2>2. DaysInv'
    BY <1>1, <2>1 DEF DaysInv, At
  <2>3. (\A d : Taken(d)' \subseteq Taken(d)) /\ Lost' = Lost
    BY <2>1 DEF Taken, Lost, At
  <2> QED
    BY <2>1, <2>2, <2>3, QuietKeepsCount
<1>5. CASE Crash
  <2>1. UNCHANGED <<day, misrefunds, audited>> /\ count'.day = NoDay
    BY <1>5 DEF Crash, history
  <2>2. DaysInv'
    BY <1>1, <1>5, <2>1, CrashMoves DEF DaysInv, At, Reserving
  <2>3. ASSUME NEW d PROVE Taken(d)' \subseteq Taken(d)
    BY <1>5, CrashMoves DEF Taken, At, Reserving, DaysInv
  <2>4. Lost \subseteq Lost'
    BY <1>5, CrashMoves DEF Lost, At
  <2> QED
    BY <2>1, <2>2, <2>3, <2>4, QuietKeepsCount
<1>6. ASSUME NEW s \in Slugs, Adopt(s) PROVE DaysInv' /\ CountInv'
  <2>1. UNCHANGED <<day, count, misrefunds, audited>>
    BY <1>6 DEF Adopt
  <2>2. \A b \in Builds :
           /\ build'[b].day = build[b].day /\ build'[b].verb = build[b].verb
           /\ build'[b].refund = build[b].refund
           /\ \/ build'[b].pc = build[b].pc
              \/ build[b].pc \in {"left", "over"} /\ build'[b].pc \in {"poll", "tidyUnclaimed", "left"}
    <3>1. CASE ticket[s] = Nothing
      BY <1>6, <3>1 DEF Adopt
    <3>2. CASE ticket[s] # Nothing
      BY <1>6, <3>2, AdoptMoves DEF Moves
    <3> QED
      BY <3>1, <3>2
  <2>3. DaysInv'
    BY <2>1, <2>2 DEF DaysInv, At, Reserving
  <2>4. (\A d : Taken(d)' \subseteq Taken(d)) /\ Lost' = Lost
    BY <2>2 DEF Taken, Lost, At, Reserving
  <2> QED
    BY <2>1, <2>3, <2>4, QuietKeepsCount
<1>7. CASE AdoptNone
  <2>1. UNCHANGED <<day, count, misrefunds, audited>>
    BY <1>7, AdoptNoneMoves DEF memory, history
  <2>2. \A b \in Builds :
           /\ build'[b].day = build[b].day /\ build'[b].verb = build[b].verb
           /\ build'[b].refund = build[b].refund
           /\ build'[b].pc = build[b].pc \/ (build[b].pc \in {"left", "over"} /\ build'[b].pc = "left")
    BY <1>7, AdoptNoneMoves
  <2>3. DaysInv'
    BY <2>1, <2>2 DEF DaysInv, At, Reserving
  <2>4. (\A d : Taken(d)' \subseteq Taken(d)) /\ Lost' = Lost
    BY <2>2 DEF Taken, Lost, At, Reserving
  <2> QED
    BY <2>1, <2>3, <2>4, QuietKeepsCount
<1> QED
  BY <1>2, <1>3, <1>4, <1>5, <1>6, <1>7 DEF Restart

-----------------------------------------------------------------------------
(* The invariant and the theorems *)

IInv == Shape /\ TicketInv /\ AdoptInv /\ ToldInv /\ FilesInv /\ DaysInv /\ CountInv

LEMMA InitInv == Init => IInv
<1> SUFFICES ASSUME Init PROVE IInv
  OBVIOUS
<1>1. /\ \A b \in Builds : build[b] = Free /\ build[b].pc = "free"
      /\ \A s \in Slugs : ticket[s] = Nothing /\ unit[s] = Nothing
      /\ up = TRUE /\ todo = {} /\ misrefunds = 0 /\ NoDay \in Nat
  BY BuildsAssumption DEF Init, Free, NoDay
<1>2. Shape
  BY <1>1, BuildsAssumption DEF Init, Shape, Free, NoDay, Names
<1>3. TicketInv /\ AdoptInv /\ FilesInv /\ DaysInv
  BY <1>1 DEF TicketInv, AdoptInv, FilesInv, DaysInv, Reserving, Holding, Holds, Back, At
<1>4. ToldInv
  <2>1. \A b \in Builds : told[b] = 0
    BY DEF Init
  <2> QED
    BY <1>1, <1>2, <2>1 DEF ToldInv, Shape
<1>5. CountInv
  <2>1. (\A d : Taken(d) = {}) /\ Lost = {}
    BY <1>1 DEF Taken, Lost, At
  <2>2. Cardinality({}) = 0
    BY FS_EmptySet
  <2> QED
    BY <1>1, <2>1, <2>2, BuildsAssumption DEF CountInv, Init
<1> QED
  BY <1>2, <1>3, <1>4, <1>5 DEF IInv

LEMMA NextKeepsInv == IInv /\ [Next]_vars => IInv'
<1> SUFFICES ASSUME IInv, [Next]_vars PROVE IInv'
  OBVIOUS
<1> USE DEF IInv
<1>1. CASE UNCHANGED vars
  <2>1. Shape'
    BY <1>1 DEF vars, disk, memory, history, Shape, Names, At, Slug
  <2>2. TicketInv' /\ AdoptInv' /\ ToldInv' /\ FilesInv' /\ DaysInv'
    BY <1>1 DEF vars, disk, memory, history, TicketInv, AdoptInv, ToldInv, FilesInv, DaysInv, Holds, Kept,
       At, Slug
  <2>3. (\A d : Taken(d)' \subseteq Taken(d)) /\ Lost' = Lost
    BY <1>1 DEF vars, Taken, Lost, At
  <2>4. CountInv'
    BY <1>1, <2>1, <2>3, QuietKeepsCount DEF vars, memory, history
  <2> QED
    BY <2>1, <2>2, <2>4
<1>2. ASSUME NEW b \in Builds, Thread(b) PROVE IInv'
  <2>1. Shape'
    BY <1>2, ThreadKeepsShape
  <2> QED
    BY <1>2, <2>1, ThreadKeepsTickets, ThreadKeepsAdoption, ThreadKeepsTold, ThreadKeepsFiles, ThreadKeepsBudget
<1>3. CASE \/ \E b \in Builds, s \in Slugs : ReadSpec(b, s)
           \/ \E b \in Builds : Audit(b)
           \/ \E s \in Slugs : UnitEnds(s) \/ Confirm(s)
           \/ Restart \/ Crash \/ Midnight
  <2>1. Shape'
    BY <1>3, OthersKeepShape
  <2> QED
    BY <1>3, <2>1, OthersKeepTickets, OthersKeepTold, OthersKeepFiles, OthersKeepBudget
<1> QED
  BY <1>1, <1>2, <1>3 DEF Next

(* Names, tickets, narrations, files and slots, together, in every state.  *)
THEOREM BuildsInvariance == Spec => []IInv
<1>1. Init => IInv
  BY InitInv
<1>2. IInv /\ [Next]_vars => IInv'
  BY NextKeepsInv
<1> QED
  BY <1>1, <1>2, PTL DEF Spec

(* The state of the broker's builds keeps its shape, and what the disk and *)
(* systemd have under a slug's name is a build of that slug.               *)
THEOREM BuildsTypeCorrect == Spec => []TypeOK
<1>1. IInv => TypeOK
  <2> SUFFICES ASSUME IInv PROVE TypeOK
    OBVIOUS
  <2> QED
    BY BuildsAssumption DEF IInv, Shape, TypeOK, Names
<1> QED
  BY <1>1, BuildsInvariance, PTL

(* A build is narrated once, and again only for a broker that died between *)
(* the narration and the removal of its ticket, as often as brokers died.  *)
THEOREM BuildsAreToldOnce == Spec => []ToldOnce
<1>1. IInv => ToldOnce
  BY DEF IInv, ToldInv, ToldOnce
<1> QED
  BY <1>1, BuildsInvariance, PTL

(* While a build is under way its ticket and its claim are its own, unless *)
(* a refused build of the same slug tidied them away.                      *)
THEOREM BuildsKeepTheirTickets == Spec => []TicketStays
<1>1. IInv => TicketStays
  <2> SUFFICES ASSUME IInv, NEW b \in Builds,
                      build[b].pc \in {"announce", "spawn", "watch", "poll", "kept", "tidy"},
                      b \notin robbed, ~build[b].refund
               PROVE  ticket[Slug(b)] = b /\ Slug(b) \in active
    BY DEF TicketStays, IInv, Shape, Record, Free
  <2> QED
    BY DEF IInv, TicketInv, Holds, Holding, Reserving
<1> QED
  BY <1>1, BuildsInvariance, PTL

(* Builds that ran never exceed a day's cap, but for the audit lines that  *)
(* crashes took and the slots that refunds gave to the wrong day.          *)
THEOREM BuildsStayInBudget == Spec => []BudgetHolds
<1>1. IInv => BudgetHolds
  <2> SUFFICES ASSUME IInv, NEW d \in 0..MaxDay
               PROVE  Cardinality(Ran(d)) <= Cap + Cardinality(Lost) + misrefunds
    BY DEF BudgetHolds
  <2>1. Ran(d) \subseteq Taken(d)
    BY DEF Ran, Taken
  <2>2. Cardinality(Ran(d)) <= Cardinality(Taken(d)) /\ Cardinality(Ran(d)) \in Nat
    BY <2>1, TakenAreFew, BuildsAreFinite, FS_Subset
  <2>3. Cardinality(Taken(d)) <= Cap + Cardinality(Lost) + misrefunds
    BY DEF IInv, CountInv
  <2> QED
    BY <2>2, <2>3, TakenAreFew, BuildsAssumption DEF IInv, Shape
<1> QED
  BY <1>1, BuildsInvariance, PTL

(* Whoever is to read a build's files finds them, unless they were taken   *)
(* by a refused build or narrated before a crash.                          *)
THEOREM HarvestsHaveTheirFiles == Spec => []HarvestHasItsFiles
<1>1. IInv => HarvestHasItsFiles
  BY DEF IInv, FilesInv, Kept, HarvestHasItsFiles
<1> QED
  BY <1>1, BuildsInvariance, PTL
=============================================================================
