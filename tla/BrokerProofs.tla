---------------------------- MODULE BrokerProofs ----------------------------
(***************************************************************************)
(* Proofs about what the broker does for the resident and for the apps:    *)
(* WakeLane, for any calls, windows and bounds, and Publishing, for any    *)
(* sessions, turns, presses and faults.  Neither names the other's state.  *)
(*                                                                         *)
(* The daily cap of wakes holds although the spool is pruned: a granted    *)
(* record that is gone from it is Retention old, a call is at most MaxWait *)
(* old when it writes, and Retention > Day + MaxWait puts the two on       *)
(* different days.  So the records the lock counted are all the grants of  *)
(* that day.                                                               *)
(*                                                                         *)
(* A unit's name is its mode and the app, so at most one publish and one   *)
(* revert move directories.  What is served is then always at live, at     *)
(* live.prev of the publish that moved it aside, or in the swap of the     *)
(* revert that holds it.  When the two never meet, there is one unit, and  *)
(* how far it is says where every tree must be.                            *)
(***************************************************************************)
EXTENDS WakeLane, Publishing, FiniteSetTheorems, TLAPS

-----------------------------------------------------------------------------
(* The wake lane                                                           *)

(* What the clock says of a call in the broker's hands.                    *)
CallInv ==
    \A w \in Wakes :
        /\ call[w] # "new" => at[w] <= now
        /\ call[w] \in {"asked", "counted"} => now <= at[w] + MaxWait

(* A grant is in the spool until it is Retention old.                      *)
SpoolInv ==
    /\ spool \subseteq Granted
    /\ \A r \in Granted \ spool : at[r] + Retention <= now

(* One thread has the lock, and there was room when it counted.            *)
LockInv ==
    /\ \A v, w \in Wakes : call[v] = "counted" /\ call[w] = "counted" => v = w
    /\ \A w \in Wakes : call[w] = "counted" => SpentToday(w) < DailyCap

(* The record in hand is claimed, what is left of the batch is not.        *)
BatchInv ==
    /\ due \cap missed = {}
    /\ (due \cup missed) \cap Ids(served) = {}
    /\ pc \in {"missed", "launch", "session"} => current \in Wakes
    /\ pc = "session" => began <= now
    /\ pc \in {"down", "idle"} => due = {} /\ missed = {}
    /\ \A i, j \in 1..Len(file) : file[i] = file[j] => i = j

CapInv == CallInv /\ SpoolInv /\ LockInv /\ DailyCapHolds

WakesInv ==
    /\ LaneTypeOK
    /\ CapInv
    /\ BatchInv

-----------------------------------------------------------------------------
(* Days *)

(* Times of one day are less than a day apart.                             *)
LEMMA SameDay ==
    ASSUME WakeLaneAssumption, NEW s \in Nat, NEW t \in Nat, DayOf(s) = DayOf(t)
    PROVE  t < s + Day
<1>1. Day \in Nat \ {0}
  BY DEF WakeLaneAssumption
<1> QED
  BY <1>1 DEF DayOf

-----------------------------------------------------------------------------
(* Lists of claims *)

Injective(list) == \A i, j \in 1..Len(list) : list[i] = list[j] => i = j

(* A claim more keeps a list without repetitions.                          *)
LEMMA AppendClaim ==
    ASSUME NEW list \in Seq(Wakes), Injective(list), NEW w \in Wakes, w \notin Ids(list)
    PROVE  /\ Append(list, w) \in Seq(Wakes)
           /\ Injective(Append(list, w))
           /\ Ids(Append(list, w)) = Ids(list) \cup {w}
<1> DEFINE more == Append(list, w)
<1>1. /\ more \in Seq(Wakes) /\ Len(more) = Len(list) + 1
      /\ \A i \in 1..Len(list) : more[i] = list[i]
      /\ more[Len(list) + 1] = w /\ Len(list) \in Nat
  OBVIOUS
<1>2. \A i \in 1..Len(list) : list[i] # w
  BY DEF Ids
<1> HIDE DEF more
<1>3. Injective(more)
  BY <1>1, <1>2 DEF Injective
<1>4. Ids(more) = Ids(list) \cup {w}
  <2>1. 1..Len(more) = 1..Len(list) \cup {Len(list) + 1}
    BY <1>1
  <2> QED
    BY <1>1, <2>1 DEF Ids
<1> QED
  BY <1>1, <1>3, <1>4 DEF more

(* What _save keeps of the claims.                                         *)
LEMMA NewestClaims ==
    ASSUME WakeLaneAssumption, NEW list \in Seq(Wakes), Injective(list)
    PROVE  /\ Newest(list) \in Seq(Wakes)
           /\ Len(Newest(list)) <= MaxServed
           /\ Injective(Newest(list))
           /\ Len(list) <= MaxServed => Newest(list) = list
<1> DEFINE extra == Len(list) - MaxServed
           kept == SubSeq(list, extra + 1, Len(list))
<1>1. MaxServed \in Nat /\ Len(list) \in Nat
  BY DEF WakeLaneAssumption
<1>2. CASE Len(list) > MaxServed
  <2>1. Newest(list) = kept
    BY <1>2 DEF Newest
  <2>2. /\ extra + 1 \in 1..Len(list) + 1 /\ Len(list) - (extra + 1) + 1 = MaxServed
        /\ extra \in Nat
    BY <1>1, <1>2
  <2>3. kept \in Seq(Wakes) /\ Len(kept) = MaxServed
    BY <1>1, <1>2, <2>2
  <2>4. \A i \in 1..MaxServed : kept[i] = list[extra + i] /\ extra + i \in 1..Len(list)
    BY <1>1, <1>2, <2>2
  <2>5. Injective(kept)
    <3> HIDE DEF kept
    <3> SUFFICES ASSUME NEW i \in 1..MaxServed, NEW j \in 1..MaxServed, kept[i] = kept[j]
                 PROVE  i = j
      BY <2>3 DEF Injective
    <3>1. list[extra + i] = list[extra + j]
      BY <2>4
    <3>2. extra + i = extra + j
      BY <2>4, <3>1 DEF Injective
    <3> QED
      BY <1>1, <2>2, <3>2
  <2> QED
    BY <1>1, <1>2, <2>1, <2>3, <2>5
<1>3. CASE Len(list) <= MaxServed
  BY <1>1, <1>3 DEF Newest
<1> QED
  BY <1>1, <1>2, <1>3

-----------------------------------------------------------------------------
(* Grants *)

(* The grants of the day of a call in the lock are all in the spool.       *)
LEMMA GrantsOfTheDay ==
    ASSUME WakeLaneAssumption, LaneTypeOK, CapInv, NEW w \in Wakes, call[w] = "counted"
    PROVE  {r \in Granted : DayOf(at[r]) = DayOf(at[w])}
              = {r \in spool : DayOf(at[r]) = DayOf(at[w])}
<1>1. spool \subseteq Granted
  BY DEF CapInv, SpoolInv
<1>2. ASSUME NEW r \in Granted, DayOf(at[r]) = DayOf(at[w]), r \notin spool
      PROVE  FALSE
  <2>1. /\ at[r] \in Nat /\ at[w] \in Nat /\ now \in Nat
        /\ Day \in Nat /\ MaxWait \in Nat /\ Retention \in Nat /\ Retention > Day + MaxWait
    BY DEF LaneTypeOK, WakeLaneAssumption, Granted
  <2>2. at[w] < at[r] + Day
    BY <1>2, <2>1, SameDay
  <2>3. at[r] + Retention <= now
    BY <1>2 DEF CapInv, SpoolInv
  <2>4. now <= at[w] + MaxWait
    BY DEF CapInv, CallInv
  <2> QED
    BY <2>1, <2>2, <2>3, <2>4
<1> QED
  BY <1>1, <1>2

(* Sets of calls are finite.                                               *)
LEMMA CallsAreFinite ==
    ASSUME WakeLaneAssumption, NEW S \in SUBSET Wakes
    PROVE  IsFiniteSet(S) /\ Cardinality(S) \in Nat
<1>1. IsFiniteSet(S)
  BY FS_Subset DEF WakeLaneAssumption
<1> QED
  BY <1>1, FS_CardinalityType

LEMMA RoomForOne ==
    ASSUME NEW S, NEW x, NEW n \in Nat, IsFiniteSet(S), Cardinality(S) \in Nat, Cardinality(S) < n
    PROVE  Cardinality(S \cup {x}) <= n
<1>1. Cardinality(S \cup {x}) = IF x \in S THEN Cardinality(S) ELSE Cardinality(S) + 1
  BY FS_AddElement
<1> QED
  BY <1>1

(* A step that leaves the broker's part and the clock alone.               *)
LEMMA BrokerUntouched ==
    ASSUME CapInv, UNCHANGED <<now, call, at, spool>>
    PROVE  CapInv'
<1>1. CallInv'
  BY DEF CapInv, CallInv
<1>2. SpoolInv'
  BY DEF CapInv, SpoolInv, Granted
<1>3. LockInv'
  BY DEF CapInv, LockInv, SpentToday, DayOf
<1>4. DailyCapHolds'
  BY DEF CapInv, DailyCapHolds, Granted, DayOf
<1> QED
  BY <1>1, <1>2, <1>3, <1>4 DEF CapInv

LEMMA AskKeepsCap ==
    ASSUME WakeLaneAssumption, LaneTypeOK, CapInv, NEW w \in Wakes, Ask(w)
    PROVE  CapInv'
<1>1. /\ call' = [call EXCEPT ![w] = "asked"] /\ at' = [at EXCEPT ![w] = now]
      /\ now' = now /\ spool' = spool /\ call[w] = "new"
  BY DEF Ask
<1>2. w \notin Granted /\ Granted' = Granted
  BY <1>1 DEF LaneTypeOK, Granted
<1>3. \A v \in Wakes : v # w => at'[v] = at[v] /\ call'[v] = call[v]
  BY <1>1 DEF LaneTypeOK
<1>4. w \notin spool
  BY <1>2 DEF CapInv, SpoolInv
<1>5. CallInv'
  BY <1>1 DEF LaneTypeOK, CapInv, CallInv, WakeLaneAssumption
<1>6. SpoolInv'
  BY <1>1, <1>2, <1>3 DEF CapInv, SpoolInv, LaneTypeOK, Granted
<1>7. LockInv'
  <2>1. \A v \in Wakes : call'[v] = "counted" => v # w /\ call[v] = "counted"
    BY <1>1 DEF LaneTypeOK
  <2>2. \A v \in Wakes : v # w => SpentToday(v)' = SpentToday(v)
    <3> SUFFICES ASSUME NEW v \in Wakes, v # w
                 PROVE  {r \in spool' : DayOf(at'[r]) = DayOf(at'[v])}
                           = {r \in spool : DayOf(at[r]) = DayOf(at[v])}
      BY DEF SpentToday, DayOf
    <3>1. \A r \in spool : at'[r] = at[r] /\ at'[v] = at[v]
      BY <1>3, <1>4 DEF LaneTypeOK
    <3> QED
      BY <1>1, <3>1
  <2> QED
    BY <2>1, <2>2 DEF CapInv, LockInv
<1>8. DailyCapHolds'
  <2>1. \A v \in Granted : at'[v] = at[v]
    BY <1>2, <1>3 DEF Granted
  <2>2. \A v \in Granted : {r \in Granted : DayOf(at'[r]) = DayOf(at'[v])}
                              = {r \in Granted : DayOf(at[r]) = DayOf(at[v])}
    BY <2>1
  <2> QED
    BY <1>2, <2>2 DEF CapInv, DailyCapHolds, DayOf
<1> QED
  BY <1>5, <1>6, <1>7, <1>8 DEF CapInv

LEMMA CountKeepsCap ==
    ASSUME WakeLaneAssumption, LaneTypeOK, CapInv, NEW w \in Wakes, Count(w)
    PROVE  CapInv'
<1>1. /\ call' = [call EXCEPT ![w] = IF SpentToday(w) >= DailyCap THEN "refused" ELSE "counted"]
      /\ at' = at /\ now' = now /\ spool' = spool /\ call[w] = "asked"
      /\ \A other \in Wakes : call[other] # "counted"
  BY DEF Count
<1>2. Granted' = Granted
  BY <1>1 DEF LaneTypeOK, Granted
<1>3. CallInv'
  BY <1>1 DEF LaneTypeOK, CapInv, CallInv
<1>4. SpoolInv'
  BY <1>1, <1>2 DEF CapInv, SpoolInv
<1>5. LockInv'
  <2>1. \A v \in Wakes : call'[v] = "counted" => v = w /\ ~(SpentToday(w) >= DailyCap)
    BY <1>1 DEF LaneTypeOK
  <2>2. SpentToday(w) \in Nat /\ DailyCap \in Nat
    <3>1. {r \in spool : DayOf(at[r]) = DayOf(at[w])} \in SUBSET Wakes
      BY DEF LaneTypeOK
    <3> QED
      BY <3>1, CallsAreFinite DEF SpentToday, WakeLaneAssumption
  <2>3. \A v \in Wakes : SpentToday(v)' = SpentToday(v)
    BY <1>1 DEF SpentToday, DayOf
  <2> QED
    BY <2>1, <2>2, <2>3 DEF LockInv
<1>6. DailyCapHolds'
  BY <1>1, <1>2 DEF CapInv, DailyCapHolds, DayOf
<1> QED
  BY <1>3, <1>4, <1>5, <1>6 DEF CapInv

(* The write that grants: what the lock counted is what there is.          *)
LEMMA WriteKeepsCap ==
    ASSUME WakeLaneAssumption, LaneTypeOK, CapInv, NEW w \in Wakes, Write(w)
    PROVE  CapInv'
<1>1. at' = at /\ now' = now /\ call[w] = "counted"
  BY DEF Write
<1>2. \A v \in Wakes : call'[v] # "counted"
  BY <1>1 DEF Write, LaneTypeOK, CapInv, LockInv
<1>3. LockInv'
  BY <1>2 DEF LockInv
<1>4. CallInv'
  BY <1>1 DEF Write, LaneTypeOK, CapInv, CallInv
<1>5. CASE spool' = spool \cup {w} /\ call' = [call EXCEPT ![w] = "written"]
  <2>1. Granted' = Granted \cup {w}
    BY <1>5 DEF LaneTypeOK, Granted
  <2>2. SpoolInv'
    BY <1>1, <1>5, <2>1 DEF CapInv, SpoolInv
  <2>3. DailyCapHolds'
    <3> DEFINE Same(v) == {r \in Granted : DayOf(at[r]) = DayOf(at[v])}
    <3>1. ASSUME NEW v \in Granted'
          PROVE  Cardinality({r \in Granted' : DayOf(at[r]) = DayOf(at[v])}) <= DailyCap
      <4>1. CASE DayOf(at[v]) = DayOf(at[w])
        <5>1. {r \in Granted' : DayOf(at[r]) = DayOf(at[v])} = Same(w) \cup {w}
          BY <2>1, <4>1
        <5>2. Same(w) = {r \in spool : DayOf(at[r]) = DayOf(at[w])}
          BY <1>1, GrantsOfTheDay
        <5>3. Cardinality(Same(w)) < DailyCap
          BY <1>1, <5>2 DEF CapInv, LockInv, SpentToday
        <5>4. IsFiniteSet(Same(w)) /\ Cardinality(Same(w)) \in Nat
          <6>1. Same(w) \in SUBSET Wakes
            BY DEF Granted
          <6> QED
            BY <6>1, CallsAreFinite
        <5>5. Cardinality(Same(w) \cup {w}) <= DailyCap
          <6>1. DailyCap \in Nat
            BY DEF WakeLaneAssumption
          <6> QED
            BY <5>3, <5>4, <6>1, RoomForOne
        <5> QED
          BY <5>1, <5>5
      <4>2. CASE DayOf(at[v]) # DayOf(at[w])
        <5>1. v \in Granted
          BY <2>1, <4>2
        <5>2. {r \in Granted' : DayOf(at[r]) = DayOf(at[v])} = Same(v)
          BY <2>1, <4>2
        <5> QED
          BY <5>1, <5>2 DEF CapInv, DailyCapHolds
      <4> QED
        BY <4>1, <4>2
    <3> QED
      BY <1>1, <3>1 DEF DailyCapHolds, DayOf
  <2> QED
    BY <1>3, <1>4, <2>2, <2>3 DEF CapInv
<1>6. CASE spool' = spool /\ call' = [call EXCEPT ![w] = "refused"]
  <2>1. Granted' = Granted
    BY <1>1, <1>6 DEF LaneTypeOK, Granted
  <2>2. SpoolInv' /\ DailyCapHolds'
    BY <1>1, <1>6, <2>1 DEF CapInv, SpoolInv, DailyCapHolds, DayOf
  <2> QED
    BY <1>3, <1>4, <2>2 DEF CapInv
<1> QED
  BY <1>5, <1>6 DEF Write

(* What is pruned is Retention old.                                        *)
LEMMA PruneKeepsCap ==
    ASSUME WakeLaneAssumption, LaneTypeOK, CapInv, NEW w \in Wakes, Prune(w)
    PROVE  CapInv'
<1>1. /\ call' = [call EXCEPT ![w] = "done"] /\ call[w] = "written"
      /\ spool' = {r \in spool : at[r] + Retention > now}
      /\ at' = at /\ now' = now
  BY DEF Prune
<1>2. Granted' = Granted
  BY <1>1 DEF LaneTypeOK, Granted
<1>3. CallInv'
  BY <1>1 DEF LaneTypeOK, CapInv, CallInv
<1>4. SpoolInv'
  <2>1. \A r \in Granted : at[r] \in Nat /\ now \in Nat /\ Retention \in Nat
    BY DEF LaneTypeOK, Granted, WakeLaneAssumption
  <2> QED
    BY <1>1, <1>2, <2>1 DEF CapInv, SpoolInv
<1>5. LockInv'
  <2>1. \A v \in Wakes : call'[v] = "counted" => call[v] = "counted"
    BY <1>1 DEF LaneTypeOK
  <2>2. ASSUME NEW v \in Wakes, call[v] = "counted" PROVE SpentToday(v)' < DailyCap
    <3> DEFINE before == {r \in spool : DayOf(at[r]) = DayOf(at[v])}
               after == {r \in spool' : DayOf(at[r]) = DayOf(at[v])}
    <3>1. after \in SUBSET before /\ before \in SUBSET Wakes
      BY <1>1 DEF LaneTypeOK
    <3>2. IsFiniteSet(before) /\ Cardinality(before) \in Nat /\ Cardinality(after) \in Nat
      BY <3>1, CallsAreFinite
    <3>3. Cardinality(after) <= Cardinality(before)
      <4> HIDE DEF before, after
      <4> QED
        BY <3>1, <3>2, FS_Subset
    <3>4. Cardinality(before) < DailyCap /\ DailyCap \in Nat
      BY <2>2 DEF CapInv, LockInv, SpentToday, WakeLaneAssumption
    <3>5. SpentToday(v)' = Cardinality(after)
      BY <1>1 DEF SpentToday, DayOf
    <3> HIDE DEF before, after
    <3> QED
      BY <3>2, <3>3, <3>4, <3>5
  <2> QED
    BY <2>1, <2>2 DEF CapInv, LockInv
<1>6. DailyCapHolds'
  BY <1>1, <1>2 DEF CapInv, DailyCapHolds, DayOf
<1> QED
  BY <1>3, <1>4, <1>5, <1>6 DEF CapInv

LEMMA BrokerRestartKeepsCap ==
    ASSUME WakeLaneAssumption, LaneTypeOK, CapInv, BrokerRestart
    PROVE  CapInv'
<1>1. /\ at' = at /\ now' = now /\ spool' = spool
      /\ \A w \in Wakes : call'[w] = CASE call[w] \in {"asked", "counted"} -> "refused"
                                       [] call[w] = "written" -> "done"
                                       [] OTHER -> call[w]
  BY DEF BrokerRestart
<1>2. \A w \in Wakes : /\ call[w] = "new" <=> call'[w] = "new"
                       /\ call'[w] \notin {"asked", "counted"}
                       /\ w \in Granted <=> w \in Granted'
  BY <1>1 DEF LaneTypeOK, Granted
<1>3. Granted' = Granted
  BY <1>2 DEF Granted
<1>4. CallInv' /\ LockInv'
  BY <1>1, <1>2 DEF CapInv, CallInv, LockInv
<1>5. SpoolInv' /\ DailyCapHolds'
  BY <1>1, <1>3 DEF CapInv, SpoolInv, DailyCapHolds, DayOf
<1> QED
  BY <1>4, <1>5 DEF CapInv

(* A call in the broker's hands does not outlast its bound.                *)
LEMMA TickKeepsCap ==
    ASSUME WakeLaneAssumption, LaneTypeOK, CapInv, Tick
    PROVE  CapInv'
<1>1. /\ now' = now + 1 /\ call' = call /\ at' = at /\ spool' = spool
      /\ \A w \in Wakes : call[w] \in {"asked", "counted"} => now < at[w] + MaxWait
  BY DEF Tick, brokerVars
<1>2. now \in Nat /\ MaxWait \in Nat /\ Retention \in Nat /\ \A w \in Wakes : at[w] \in Nat
  BY DEF LaneTypeOK, WakeLaneAssumption
<1>3. CallInv'
  BY <1>1, <1>2 DEF CapInv, CallInv
<1>4. SpoolInv'
  BY <1>1, <1>2 DEF CapInv, SpoolInv, Granted
<1>5. LockInv' /\ DailyCapHolds'
  BY <1>1 DEF CapInv, LockInv, DailyCapHolds, SpentToday, Granted, DayOf
<1> QED
  BY <1>3, <1>4, <1>5 DEF CapInv

-----------------------------------------------------------------------------
(* Types and batches *)

LaneInv == LaneTypeOK /\ BatchInv

LEMMA ClaimKeepsLists ==
    ASSUME WakeLaneAssumption, LaneInv, NEW w \in due \cup missed, MarkServed(w)
    PROVE  /\ served' \in Seq(Wakes) /\ Injective(served')
           /\ Ids(served') = Ids(served) \cup {w}
           /\ file' \in Seq(Wakes) /\ Len(file') <= MaxServed /\ Injective(file')
           /\ unsaved' \subseteq Wakes /\ forgotten' = forgotten
<1>1. /\ served \in Seq(Wakes) /\ Injective(served) /\ w \in Wakes /\ w \notin Ids(served)
      /\ file \in Seq(Wakes) /\ Len(file) <= MaxServed /\ Injective(file)
      /\ unsaved \subseteq Wakes
  BY DEF LaneInv, LaneTypeOK, BatchInv, Injective
<1>2. served' = Append(served, w) /\ forgotten' = forgotten
  BY DEF MarkServed
<1>3. /\ served' \in Seq(Wakes) /\ Injective(served')
      /\ Ids(served') = Ids(served) \cup {w}
  BY <1>1, <1>2, AppendClaim
<1>4. CASE Saved(Newest(served'))
  BY <1>1, <1>2, <1>3, <1>4, NewestClaims DEF Saved
<1>5. CASE unsaved' = unsaved \cup {w} /\ UNCHANGED file
  BY <1>1, <1>2, <1>3, <1>5
<1> QED
  BY <1>4, <1>5 DEF MarkServed

LEMMA BrokerKeepsLane ==
    ASSUME WakeLaneAssumption, LaneInv, Broker \/ BrokerRestart
    PROVE  LaneInv'
<1>1. UNCHANGED <<now, runnerVars, outcomeVars, historyVars, crashes>>
  BY DEF Broker, Ask, Count, Write, Prune, BrokerRestart
<1>2. BatchInv'
  BY <1>1 DEF LaneInv, BatchInv, runnerVars, Ids
<1>3. /\ call' \in [Wakes -> {"new", "asked", "counted", "written", "done", "refused"}]
      /\ at' \in [Wakes -> 0..MaxTime] /\ spool' \subseteq Wakes
  <2>1. ASSUME NEW w \in Wakes, Ask(w) \/ Count(w) \/ Write(w) \/ Prune(w)
        PROVE  /\ call' \in [Wakes -> {"new", "asked", "counted", "written", "done", "refused"}]
               /\ at' \in [Wakes -> 0..MaxTime] /\ spool' \subseteq Wakes
    <3>1. CASE Ask(w)
      BY <3>1 DEF LaneInv, LaneTypeOK, Ask
    <3>2. CASE Count(w)
      BY <3>2 DEF LaneInv, LaneTypeOK, Count
    <3>3. CASE Write(w)
      BY <3>3 DEF LaneInv, LaneTypeOK, Write
    <3>4. CASE Prune(w)
      BY <3>4 DEF LaneInv, LaneTypeOK, Prune
    <3> QED
      BY <2>1, <3>1, <3>2, <3>3, <3>4
  <2>2. CASE BrokerRestart
    BY <2>2 DEF LaneInv, LaneTypeOK, BrokerRestart
  <2> QED
    BY <2>1, <2>2 DEF Broker
<1>4. LaneTypeOK'
  BY <1>1, <1>3 DEF LaneInv, LaneTypeOK, runnerVars, outcomeVars, historyVars
<1> QED
  BY <1>2, <1>4 DEF LaneInv

LEMMA RunnerKeepsLane ==
    ASSUME WakeLaneAssumption, LaneInv, Runner
    PROVE  LaneInv'
<1> USE DEF LaneInv
<1>1. CASE Poll
  <2>1. LaneTypeOK'
    BY <1>1 DEF LaneTypeOK, Poll, brokerVars, outcomeVars, historyVars
  <2>2. BatchInv'
    <3>1. /\ due' = {w \in spool : w \notin Ids(served) /\ ~Expired(w)}
          /\ missed' = {w \in spool : w \notin Ids(served) /\ Expired(w)}
          /\ pc' = "batch" /\ served' = served /\ file' = file
      BY <1>1 DEF Poll
    <3>2. Ids(served') = Ids(served)
      BY <3>1
    <3> QED
      BY <3>1, <3>2 DEF BatchInv
  <2> QED
    BY <2>1, <2>2
<1>2. ASSUME NEW w \in Wakes, TakeMissed(w) PROVE LaneInv'
  <2>1. /\ w \in missed /\ MarkServed(w) /\ missed' = missed \ {w} /\ due' = due
        /\ current' = w /\ pc' = "missed" /\ began' = began /\ now' = now
        /\ UNCHANGED <<brokerVars, outcomeVars, crashes>>
    BY <1>2 DEF TakeMissed, Oldest
  <2>2. /\ served' \in Seq(Wakes) /\ Injective(served')
        /\ Ids(served') = Ids(served) \cup {w}
        /\ file' \in Seq(Wakes) /\ Len(file') <= MaxServed /\ Injective(file')
        /\ unsaved' \subseteq Wakes /\ forgotten' = forgotten
    BY <2>1, ClaimKeepsLists
  <2>3. LaneTypeOK'
    BY <2>1, <2>2 DEF LaneTypeOK, brokerVars, outcomeVars, Injective
  <2>4. BatchInv'
    BY <2>1, <2>2 DEF BatchInv, Injective
  <2> QED
    BY <2>3, <2>4
<1>3. ASSUME NEW w \in Wakes, TakeDue(w) PROVE LaneInv'
  <2>1. /\ w \in due /\ MarkServed(w) /\ due' = due \ {w} /\ missed' = missed
        /\ current' = w /\ pc' = "launch" /\ began' = began /\ now' = now
        /\ UNCHANGED <<brokerVars, outcomeVars, crashes>>
    BY <1>3 DEF TakeDue, Oldest
  <2>2. /\ served' \in Seq(Wakes) /\ Injective(served')
        /\ Ids(served') = Ids(served) \cup {w}
        /\ file' \in Seq(Wakes) /\ Len(file') <= MaxServed /\ Injective(file')
        /\ unsaved' \subseteq Wakes /\ forgotten' = forgotten
    BY <2>1, ClaimKeepsLists
  <2>3. LaneTypeOK'
    BY <2>1, <2>2 DEF LaneTypeOK, brokerVars, outcomeVars, Injective
  <2>4. BatchInv'
    BY <2>1, <2>2 DEF BatchInv, Injective
  <2> QED
    BY <2>3, <2>4
<1>4. CASE ReportMissed
  BY <1>4 DEF LaneTypeOK, BatchInv, ReportMissed, brokerVars, historyVars, Ids
<1>5. CASE Launch
  <2>1. LaneTypeOK'
    BY <1>5 DEF LaneTypeOK, BatchInv, Launch, brokerVars, historyVars
  <2>2. BatchInv'
    BY <1>5 DEF LaneTypeOK, BatchInv, Launch, Ids
  <2> QED
    BY <2>1, <2>2
<1>6. CASE SessionEnds
  BY <1>6 DEF LaneTypeOK, BatchInv, SessionEnds, brokerVars, outcomeVars, historyVars, Ids,
              WakeLaneAssumption
<1>7. CASE BatchDone
  BY <1>7 DEF LaneTypeOK, BatchInv, BatchDone, brokerVars, outcomeVars, historyVars, Ids
<1> QED
  BY <1>1, <1>2, <1>3, <1>4, <1>5, <1>6, <1>7 DEF Runner

LEMMA FaultsKeepLane ==
    ASSUME WakeLaneAssumption, LaneInv, Crash \/ Restart \/ Tick
    PROVE  LaneInv'
<1> USE DEF LaneInv
<1>1. CASE Crash
  <2>1. served' = <<>> /\ due' = {} /\ missed' = {} /\ pc' = "down" /\ file' = file
    BY <1>1 DEF Crash
  <2>2. Dropped(served) \subseteq Wakes
    BY DEF Dropped, LaneTypeOK
  <2>3. LaneTypeOK'
    BY <1>1, <2>2 DEF LaneTypeOK, Crash, brokerVars, WakeLaneAssumption
  <2>4. BatchInv'
    BY <2>1 DEF BatchInv
  <2> QED
    BY <2>3, <2>4
<1>2. CASE Restart
  <2>1. /\ served' = file \/ served' = <<>>
        /\ due' = due /\ missed' = missed /\ pc' = "idle" /\ file' = file
        /\ due = {} /\ missed = {}
    BY <1>2 DEF Restart, BatchInv
  <2>2. forgotten' \subseteq Wakes
    <3>1. Ids(file) \subseteq Wakes
      BY DEF LaneTypeOK, Ids
    <3>2. forgotten' = forgotten \/ forgotten' = forgotten \cup Ids(file)
      BY <1>2 DEF Restart
    <3> QED
      BY <3>1, <3>2 DEF LaneTypeOK
  <2>3. LaneTypeOK'
    <3>1. /\ UNCHANGED <<now, call, at, spool, current, began, sessions, reported, unsaved, crashes>>
          /\ file \in Seq(Wakes) /\ <<>> \in Seq(Wakes) /\ Len(<<>>) = 0
          /\ \A i, j \in 1..Len(file) : file[i] = file[j] => i = j
      BY <1>2 DEF LaneTypeOK, BatchInv, Restart, brokerVars, outcomeVars
    <3>2. served' \in Seq(Wakes) /\ \A i, j \in 1..Len(served') : served'[i] = served'[j] => i = j
      <4>1. CASE served' = file
        BY <3>1, <4>1
      <4>2. CASE served' = <<>>
        BY <3>1, <4>2
      <4> QED
        BY <2>1, <4>1, <4>2
    <3> QED
      BY <2>1, <2>2, <3>1, <3>2 DEF LaneTypeOK
  <2>4. BatchInv'
    BY <2>1 DEF BatchInv
  <2> QED
    BY <2>3, <2>4
<1>3. CASE Tick
  <2>1. LaneTypeOK'
    BY <1>3 DEF LaneTypeOK, Tick, brokerVars, runnerVars, outcomeVars, historyVars,
                WakeLaneAssumption
  <2>2. BatchInv'
    BY <1>3 DEF LaneTypeOK, BatchInv, Tick, runnerVars, Ids
  <2> QED
    BY <2>1, <2>2
<1> QED
  BY <1>1, <1>2, <1>3

-----------------------------------------------------------------------------
(* Types and the daily cap *)

LEMMA InitInv == WakeLaneAssumption /\ LaneInit => WakesInv
<1> SUFFICES ASSUME WakeLaneAssumption, LaneInit PROVE WakesInv
  OBVIOUS
<1>1. LaneTypeOK
  BY DEF LaneInit, LaneTypeOK, WakeLaneAssumption
<1>2. BatchInv
  BY DEF LaneInit, BatchInv
<1>3. Granted = {}
  BY DEF LaneInit, Granted
<1>4. CapInv
  BY <1>3 DEF LaneInit, CapInv, CallInv, SpoolInv, LockInv, DailyCapHolds
<1> QED
  BY <1>1, <1>2, <1>4 DEF WakesInv

LEMMA NextInv == WakeLaneAssumption /\ WakesInv /\ [LaneNext]_laneVars => WakesInv'
<1> SUFFICES ASSUME WakeLaneAssumption, WakesInv, [LaneNext]_laneVars PROVE WakesInv'
  OBVIOUS
<1>1. LaneTypeOK /\ LaneInv /\ CapInv
  BY DEF WakesInv, LaneInv
<1>2. LaneInv'
  <2>1. CASE UNCHANGED laneVars
    BY <1>1, <2>1 DEF LaneInv, LaneTypeOK, BatchInv, laneVars, brokerVars, runnerVars, outcomeVars,
                      historyVars, Ids
  <2> QED
    BY <1>1, <2>1, BrokerKeepsLane, RunnerKeepsLane, FaultsKeepLane DEF LaneNext
<1>3. CapInv'
  <2>1. CASE Broker
    BY <1>1, <2>1, AskKeepsCap, CountKeepsCap, WriteKeepsCap, PruneKeepsCap DEF Broker
  <2>2. CASE Runner \/ Crash \/ Restart
    BY <1>1, <2>2, BrokerUntouched
       DEF Runner, Poll, TakeMissed, TakeDue, ReportMissed, Launch, SessionEnds, BatchDone,
           Crash, Restart, brokerVars
  <2>3. CASE UNCHANGED laneVars
    BY <1>1, <2>3, BrokerUntouched DEF laneVars, brokerVars
  <2> QED
    BY <1>1, <2>1, <2>2, <2>3, BrokerRestartKeepsCap, TickKeepsCap DEF LaneNext
<1> QED
  BY <1>2, <1>3 DEF WakesInv, LaneInv

(* The inductive invariant: of the calls, the spool, the lock and the      *)
(* batch in the runner's hands (broker_wake.py, wake.py).                  *)
THEOREM LaneInvariance == LaneSpec => []WakesInv
<1>1. WakeLaneAssumption
  BY WakeLaneAssumption
<1> QED
  BY <1>1, InitInv, NextInv, PTL DEF LaneSpec

(* Type correctness; no wake is claimed twice by one life of the runner.   *)
THEOREM LaneTypeCorrect == LaneSpec => []LaneTypeOK
<1>1. WakesInv => LaneTypeOK
  BY DEF WakesInv
<1> QED
  BY LaneInvariance, <1>1, PTL

(* The daily cap: for any number of calls at once, over midnights, broker  *)
(* restarts and whatever is pruned, as long as the retention is longer     *)
(* than a day and the wait for the lock together.                          *)
THEOREM DayHasItsCap == LaneSpec => []DailyCapHolds
<1>1. WakesInv => DailyCapHolds
  BY DEF WakesInv, CapInv
<1> QED
  BY LaneInvariance, <1>1, PTL

-----------------------------------------------------------------------------
(* One ending *)

(* The claims the runner goes by, or will when it is back.                 *)
Known == IF pc = "down" THEN Ids(file) ELSE Ids(served)

Untouched(w) == sessions[w] = 0 /\ w \notin reported

(* A claim is in the file, or its save failed, or later ones pushed it     *)
(* out; a wake nobody knows of was never touched; the one in hand is not   *)
(* touched yet.                                                            *)
EndingInv ==
    /\ Ids(served) \subseteq unsaved \cup Dropped(served) \cup Ids(file)
    /\ \A w \in Wakes \ Known : Untouched(w) \/ w \in forgotten
    /\ pc \in {"missed", "launch"} =>
          current \in Ids(served) /\ (Untouched(current) \/ current \in forgotten)
    /\ ServedOnce
    /\ OneEnding

(* What a save leaves out of a list has MaxServed later claims, and so it  *)
(* has when the list grows.                                                *)
LEMMA NewestOrDropped ==
    ASSUME WakeLaneAssumption, NEW list \in Seq(Wakes)
    PROVE  Ids(list) \subseteq Dropped(list) \cup Ids(Newest(list))
<1> DEFINE extra == Len(list) - MaxServed
           kept == SubSeq(list, extra + 1, Len(list))
<1>1. MaxServed \in Nat /\ Len(list) \in Nat
  BY DEF WakeLaneAssumption
<1>2. CASE Len(list) > MaxServed
  <2>1. Newest(list) = kept
    BY <1>2 DEF Newest
  <2>2. /\ extra + 1 \in 1..Len(list) + 1 /\ Len(list) - (extra + 1) + 1 = MaxServed
        /\ extra \in Nat
    BY <1>1, <1>2
  <2>3. kept \in Seq(Wakes) /\ Len(kept) = MaxServed
    BY <1>1, <1>2, <2>2
  <2>4. \A i \in 1..MaxServed : kept[i] = list[extra + i] /\ extra + i \in 1..Len(list)
    BY <1>1, <1>2, <2>2
  <2> SUFFICES ASSUME NEW i \in 1..Len(list)
               PROVE  list[i] \in Dropped(list) \cup Ids(kept)
    BY <2>1 DEF Ids
  <2>5. CASE i <= extra
    <3>1. i + MaxServed <= Len(list)
      BY <1>1, <2>5
    <3> QED
      BY <3>1 DEF Dropped
  <2>6. CASE i > extra
    <3> HIDE DEF kept
    <3>1. i - extra \in 1..MaxServed /\ extra + (i - extra) = i
      BY <1>1, <1>2, <2>2, <2>6
    <3>2. kept[i - extra] = list[i]
      BY <2>4, <3>1
    <3> QED
      BY <2>3, <3>1, <3>2 DEF Ids
  <2> QED
    BY <1>1, <2>2, <2>5, <2>6
<1>3. CASE Len(list) <= MaxServed
  BY <1>1, <1>3 DEF Newest
<1> QED
  BY <1>1, <1>2, <1>3

LEMMA DroppedStaysDropped ==
    ASSUME WakeLaneAssumption, NEW list \in Seq(Wakes), NEW w \in Wakes
    PROVE  Dropped(list) \subseteq Dropped(Append(list, w))
<1> DEFINE more == Append(list, w)
<1>1. MaxServed \in Nat /\ Len(list) \in Nat /\ Len(more) = Len(list) + 1
  BY DEF WakeLaneAssumption
<1>2. \A i \in 1..Len(list) : more[i] = list[i] /\ i \in 1..Len(more)
  BY <1>1
<1> HIDE DEF more
<1> SUFFICES ASSUME NEW i \in 1..Len(list), i + MaxServed <= Len(list)
             PROVE  list[i] \in Dropped(more)
  BY DEF Dropped, more
<1>3. i + MaxServed <= Len(more) /\ more[i] = list[i] /\ i \in 1..Len(more)
  BY <1>1, <1>2
<1> QED
  BY <1>3 DEF Dropped

(* After a claim it is known, saved or to be forgotten.                    *)
LEMMA ClaimKeepsFile ==
    ASSUME WakeLaneAssumption, LaneInv, EndingInv,
           NEW w \in due \cup missed, MarkServed(w)
    PROVE  /\ Ids(served') = Ids(served) \cup {w}
           /\ Ids(served') \subseteq unsaved' \cup Dropped(served') \cup Ids(file')
<1>1. /\ served' \in Seq(Wakes) /\ served' = Append(served, w)
      /\ Ids(served') = Ids(served) \cup {w}
  BY ClaimKeepsLists DEF MarkServed
<1>2. CASE Saved(Newest(served'))
  BY <1>1, <1>2, NewestOrDropped DEF Saved
<1>3. CASE unsaved' = unsaved \cup {w} /\ UNCHANGED file
  <2>1. Dropped(served) \subseteq Dropped(served')
    BY <1>1, DroppedStaysDropped DEF LaneInv, LaneTypeOK, BatchInv
  <2> QED
    BY <1>1, <1>3, <2>1 DEF EndingInv
<1> QED
  BY <1>1, <1>2, <1>3 DEF MarkServed

LEMMA EndingUntouched ==
    ASSUME EndingInv, UNCHANGED <<served, file, sessions, reported, unsaved, forgotten>>,
           pc' = pc \/ pc' \in {"idle", "batch"}, pc # "down", current' = current \/ pc' \in {"idle", "batch"}
    PROVE  EndingInv'
<1>1. Known' = Known
  BY DEF Known, Ids
<1>2. Ids(served') = Ids(served) /\ Ids(file') = Ids(file) /\ Dropped(served') = Dropped(served)
  OBVIOUS
<1>3. \A w \in Wakes : Untouched(w)' <=> Untouched(w)
  BY DEF Untouched
<1>4. ServedOnce' /\ OneEnding'
  BY DEF EndingInv, ServedOnce, OneEnding
<1> QED
  BY <1>1, <1>2, <1>3, <1>4 DEF EndingInv, Untouched

LEMMA RunnerKeepsEnding ==
    ASSUME WakeLaneAssumption, LaneInv, EndingInv, Runner
    PROVE  EndingInv'
<1>1. CASE Poll \/ BatchDone \/ SessionEnds
  BY <1>1, EndingUntouched DEF Poll, BatchDone, SessionEnds, outcomeVars, historyVars
<1>2. ASSUME NEW w \in Wakes, TakeMissed(w) \/ TakeDue(w) PROVE EndingInv'
  <2>1. /\ w \in due \cup missed /\ MarkServed(w) /\ current' = w /\ pc = "batch"
        /\ pc' \in {"missed", "launch"} /\ sessions' = sessions /\ reported' = reported
        /\ forgotten' = forgotten
    BY <1>2 DEF TakeMissed, TakeDue, Oldest, outcomeVars, MarkServed
  <2>2. /\ Ids(served') = Ids(served) \cup {w}
        /\ Ids(served') \subseteq unsaved' \cup Dropped(served') \cup Ids(file')
    BY <2>1, ClaimKeepsFile
  <2>3. w \notin Known /\ Known = Ids(served) /\ Known' = Ids(served) \cup {w}
    BY <2>1, <2>2 DEF Known, LaneInv, BatchInv
  <2>4. Untouched(w) \/ w \in forgotten
    BY <2>3 DEF EndingInv
  <2>5. ServedOnce' /\ OneEnding'
    BY <2>1 DEF EndingInv, ServedOnce, OneEnding
  <2>6. \A v \in Wakes \ Known' : Untouched(v)' \/ v \in forgotten'
    BY <2>1, <2>3 DEF EndingInv, Untouched
  <2>7. current' \in Ids(served') /\ (Untouched(current)' \/ current' \in forgotten')
    BY <2>1, <2>2, <2>4 DEF Untouched
  <2> QED
    BY <2>2, <2>5, <2>6, <2>7 DEF EndingInv
<1>3. CASE ReportMissed
  <2>1. /\ pc = "missed" /\ pc' = "batch" /\ reported' = reported \cup {current}
        /\ UNCHANGED <<served, file, sessions, unsaved, forgotten>>
    BY <1>3 DEF ReportMissed, historyVars
  <2>2. current \in Known /\ (sessions[current] = 0 \/ current \in forgotten)
        /\ Known' = Known
    BY <2>1 DEF EndingInv, Known, Untouched
  <2>3. ServedOnce' /\ OneEnding'
    BY <2>1, <2>2 DEF EndingInv, ServedOnce, OneEnding
  <2>4. \A v \in Wakes \ Known' : Untouched(v)' \/ v \in forgotten'
    BY <2>1, <2>2 DEF EndingInv, Untouched
  <2> QED
    BY <2>1, <2>3, <2>4 DEF EndingInv
<1>4. CASE Launch
  <2>1. /\ pc = "launch" /\ pc' = "session" /\ current \in Wakes
        /\ sessions' = [sessions EXCEPT ![current] = @ + 1]
        /\ UNCHANGED <<served, file, reported, unsaved, forgotten>>
    BY <1>4 DEF Launch, historyVars, LaneInv, BatchInv
  <2>2. current \in Known /\ (Untouched(current) \/ current \in forgotten)
        /\ Known' = Known
    BY <2>1 DEF EndingInv, Known
  <2>3. \A v \in Wakes : v # current => sessions'[v] = sessions[v]
    BY <2>1 DEF LaneInv, LaneTypeOK
  <2>4. sessions'[current] = sessions[current] + 1
    BY <2>1 DEF LaneInv, LaneTypeOK
  <2>5. ServedOnce'
    BY <2>1, <2>2, <2>3, <2>4 DEF EndingInv, ServedOnce, Untouched
  <2>6. OneEnding'
    <3>1. reported \subseteq Wakes
      BY DEF LaneInv, LaneTypeOK
    <3> QED
      BY <2>1, <2>2, <2>3, <3>1 DEF EndingInv, OneEnding, Untouched
  <2>7. \A v \in Wakes \ Known' : Untouched(v)' \/ v \in forgotten'
    BY <2>1, <2>2, <2>3 DEF EndingInv, Untouched
  <2> QED
    BY <2>1, <2>5, <2>6, <2>7 DEF EndingInv
<1> QED
  BY <1>1, <1>2, <1>3, <1>4 DEF Runner

LEMMA FaultsKeepEnding ==
    ASSUME WakeLaneAssumption, LaneInv, EndingInv, Crash \/ Restart
    PROVE  EndingInv'
<1>1. CASE Crash
  <2>1. /\ pc # "down" /\ pc' = "down" /\ served' = <<>> /\ file' = file
        /\ forgotten' = forgotten \cup unsaved \cup Dropped(served)
        /\ sessions' = sessions /\ reported' = reported
    BY <1>1 DEF Crash
  <2>2. Known' = Ids(file) /\ Known = Ids(served) /\ Ids(served') = {}
    BY <2>1 DEF Known, Ids
  <2>3. \A w \in Wakes \ Known' : Untouched(w)' \/ w \in forgotten'
    BY <2>1, <2>2 DEF EndingInv, Untouched
  <2>4. ServedOnce' /\ OneEnding'
    BY <2>1 DEF EndingInv, ServedOnce, OneEnding
  <2> QED
    BY <2>1, <2>2, <2>3, <2>4 DEF EndingInv
<1>2. CASE Restart
  <2>1. /\ pc = "down" /\ pc' = "idle" /\ file' = file
        /\ UNCHANGED <<sessions, reported, unsaved>>
        /\ forgotten \subseteq forgotten'
        /\ served' = file \/ (served' = <<>> /\ Ids(file) \subseteq forgotten')
    <3>1. /\ pc = "down" /\ pc' = "idle" /\ file' = file
          /\ UNCHANGED <<sessions, reported, unsaved>>
      BY <1>2 DEF Restart, outcomeVars
    <3>2. \/ served' = file /\ forgotten' = forgotten
          \/ served' = <<>> /\ forgotten' = forgotten \cup Ids(file)
      BY <1>2 DEF Restart
    <3> QED
      BY <3>1, <3>2
  <2>2. /\ Known' = Ids(served') /\ Known = Ids(file) /\ Ids(file') = Ids(file)
        /\ Ids(served') \subseteq Ids(file) /\ Known \ Known' \subseteq forgotten'
    BY <2>1 DEF Known, Ids
  <2>3. \A w \in Wakes \ Known' : Untouched(w)' \/ w \in forgotten'
    BY <2>1, <2>2 DEF EndingInv, Untouched
  <2>4. ServedOnce' /\ OneEnding'
    BY <2>1 DEF EndingInv, ServedOnce, OneEnding
  <2> QED
    BY <2>1, <2>2, <2>3, <2>4 DEF EndingInv
<1> QED
  BY <1>1, <1>2

LEMMA OthersKeepEnding ==
    ASSUME EndingInv,
           UNCHANGED <<pc, served, file, current, sessions, reported, unsaved, forgotten>>
    PROVE  EndingInv'
BY DEF EndingInv, Known, Untouched, ServedOnce, OneEnding, Ids

LEMMA EndingInvariance == LaneSpec => [](WakesInv /\ EndingInv)
<1>1. WakeLaneAssumption
  BY WakeLaneAssumption
<1>2. LaneInit => EndingInv
  <2> SUFFICES ASSUME LaneInit PROVE EndingInv
    OBVIOUS
  <2>1. Ids(served) = {} /\ pc = "idle" /\ reported = {} /\ \A w \in Wakes : sessions[w] = 0
    BY DEF LaneInit, Ids
  <2> QED
    BY <2>1 DEF EndingInv, Untouched, ServedOnce, OneEnding
<1>3. WakesInv /\ EndingInv /\ [LaneNext]_laneVars => EndingInv'
  <2> SUFFICES ASSUME WakesInv, EndingInv, [LaneNext]_laneVars PROVE EndingInv'
    OBVIOUS
  <2>1. LaneInv
    BY DEF WakesInv, LaneInv
  <2>2. CASE Runner
    BY <1>1, <2>1, <2>2, RunnerKeepsEnding
  <2>3. CASE Crash \/ Restart
    BY <1>1, <2>1, <2>3, FaultsKeepEnding
  <2>4. CASE Broker \/ BrokerRestart \/ Tick \/ UNCHANGED laneVars
    BY <2>4, OthersKeepEnding
       DEF Broker, Ask, Count, Write, Prune, BrokerRestart, Tick, laneVars, runnerVars,
           outcomeVars, historyVars
  <2> QED
    BY <2>2, <2>3, <2>4 DEF LaneNext
<1> QED
  BY <1>1, <1>2, <1>3, InitInv, NextInv, PTL DEF LaneSpec

(* A wake is one session: a runner that dies at any step does not start it *)
(* over, but for the claims its file did not give back (wake.py,           *)
(* mark_served, _save and _load): those whose save failed, those with      *)
(* MAX_SERVED_IDS later claims, and those of a file that could not be      *)
(* read.  For any number of wakes, deaths and failing saves.               *)
THEOREM WakesRunOnce == LaneSpec => []ServedOnce
<1>1. EndingInv => ServedOnce
  BY DEF EndingInv
<1> QED
  BY EndingInvariance, <1>1, PTL

(* A wake has one ending: what is reported as missed was never run and     *)
(* never is, over any number of crashes, with the same exceptions.         *)
THEOREM WakesEndOnce == LaneSpec => []OneEnding
<1>1. EndingInv => OneEnding
  BY DEF EndingInv
<1> QED
  BY EndingInvariance, <1>1, PTL

-----------------------------------------------------------------------------
(* Publishing                                                              *)

(* What the units of a publish and of a revert know of each other: none    *)
(* shares its kind, a swap under way holds a tree, and the publish that    *)
(* moved live aside has it at live.prev until it serves another.           *)
KindsFit ==
    \A r \in Requests :
        /\ op[r].pc \in Rotating \cup {"claim", "preflight", "start", "release"} => op[r].kind = "publish"
        /\ op[r].pc \in Swapping \cup {"check", "begin"} => op[r].kind = "revert"
UnitsAreAlone ==
    \A r, q \in Requests : r # q /\ InUnit(r) /\ InUnit(q) => op[r].kind # op[q].kind
UnitsHoldTrees ==
    \A r \in Requests :
        /\ op[r].pc \in Rotating => op[r].tree # None
        /\ At(r, "aside") => op[r].had
        /\ At(r, "swapIn") => disk.swap # None

Shown == status = "live" \/ \E r \in Requests : At(r, "done")
SomethingIsServed ==
    Shown /\ disk.live = None =>
        \/ "dark" \in happened
        \/ \E r \in Requests : At(r, "swapIn")
        \/ \E r \in Requests : At(r, "place") /\ op[r].had /\ disk.prev # None

IInv == TypeOK /\ KindsFit /\ UnitsAreAlone /\ UnitsHoldTrees /\ SomethingIsServed

(* Where the trees are while one unit moves them.                          *)
InStep == disk.live = told.live /\ disk.prev = told.prev
WhereTreesAre(r) ==
    /\ op[r].pc \in {"copying", "clear", "look", "aside", "swapOut"} => InStep
    /\ op[r].pc \in {"look", "aside", "place"} => told.prev = None
    /\ At(r, "clearing") => disk.live = told.live /\ disk.prev = Torn
    /\ At(r, "place") => disk.live = None /\ disk.prev = told.live
    /\ At(r, "place") /\ ~op[r].had => disk.prev = None
    /\ At(r, "swapIn") => disk.live = None /\ disk.swap = told.live /\ disk.prev = told.prev
    /\ At(r, "swapBack") => disk.live = told.live /\ disk.prev = None /\ disk.swap = told.prev
    /\ op[r].pc \in {"swapOut", "swapIn"} => disk.prev # None

Calm == "overlap" \notin happened
OneUnit ==
    /\ \A r, q \in Requests : r # q /\ InUnit(r) => ~InUnit(q)
    /\ (\A r \in Requests : ~InUnit(r)) => InStep
    /\ \A r \in Requests : InUnit(r) => WhereTreesAre(r)
Exact == Calm => OneUnit

(* No turn renews the preview from the question about it to the end of the *)
(* copy, so that what is copied, and in the end served, is whole.          *)
NotExcused == happened \cap {"late", "blind", "overlap", "half"} = {}
WholeCopies ==
    \A r \in Requests :
        /\ op[r].pc \in {"start", "copying"} => ~UnitRuns
        /\ At(r, "copying") => disk.preview = op[r].tree
        /\ op[r].pc \in Rotating => op[r].tree # Torn
WholeTold == told.live # Torn /\ told.prev # Torn
Whole ==
    /\ disk.preview # Torn /\ disk.old # Torn
    /\ NotExcused => WholeCopies /\ WholeTold

-----------------------------------------------------------------------------
(* Types *)

LEMMA Constants ==
    ASSUME PublishingAssumption
    PROVE  /\ MaxRequests \in Nat /\ MaxFaults \in Nat /\ MaxTurns \in Nat /\ MaxTurns >= 2
           /\ Torn \in Trees /\ Torn > MaxTurns /\ Torn # None
           /\ \A n \in 0..MaxTurns : n \in Trees /\ n # Torn
<1> QED BY DEF PublishingAssumption, Torn, Trees, None

LEMMA InitIsTyped ==
    ASSUME PublishingAssumption, Init
    PROVE  TypeOK
<1>1. 1 \in Trees /\ 2 \in Trees /\ 0 \in Trees /\ 2 \in 0..MaxTurns
  BY Constants DEF Trees, Torn, None
<1>2. op \in [Requests -> OpRecords]
  BY <1>1 DEF Init, Free, Idle, Nobody, None, OpRecords, Places
<1>3. session \in [Sessions -> SessionRecords]
  BY DEF Init, Opened, Nobody, SessionRecords
<1>4. disk \in [{"preview", "old", "live", "prev", "swap"} -> Trees]
  BY <1>1 DEF Init, NoTrees, None
<1>5. told \in [live : Trees, prev : Trees]
  BY <1>4 DEF Init
<1>6. turn \in TurnRecords
  BY <1>1 DEF Init, NoTurn, Nobody, TurnRecords
<1> QED
  BY <1>2, <1>3, <1>4, <1>5, <1>6, Constants DEF Init, TypeOK

(* A session, or a turn, changes no press, and of the trees only preview   *)
(* and old.                                                                *)
Building ==
    \/ \E s \in Sessions : AskSession(s) \/ InsertSession(s) \/ CloseSession(s) \/ TurnStarts(s)
    \/ TurnScoped \/ HarvestAside \/ HarvestPlace \/ TurnOver \/ TurnTold

LEMMA BuildingIsTyped ==
    ASSUME PublishingAssumption, TypeOK, Building
    PROVE  TypeOK'
<1> USE DEF TypeOK
<1>1. ASSUME NEW s \in Sessions, AskSession(s) \/ InsertSession(s) \/ CloseSession(s)
      PROVE  TypeOK'
  <2>1. \E where \in {"asked", "open", "lapsed", "ended"} :
           session' = [session EXCEPT ![s] = [@ EXCEPT !.is = where]]
    BY <1>1 DEF AskSession, InsertSession, CloseSession
  <2>2. session' \in [Sessions -> SessionRecords]
    BY <2>1 DEF SessionRecords
  <2> QED BY <1>1, <2>2 DEF AskSession, InsertSession, CloseSession
<1>2. ASSUME NEW s \in Sessions, TurnStarts(s) PROVE TypeOK'
  <2>1. turn.n + 1 \in 0..MaxTurns
    BY <1>2, Constants DEF TurnStarts, TurnRecords
  <2>2. turn' \in TurnRecords
    BY <1>2, <2>1 DEF TurnStarts, TurnRecords
  <2> QED BY <1>2, <2>2 DEF TurnStarts, Note
<1>3. CASE TurnScoped
  <2>1. turn' \in TurnRecords
    BY <1>3 DEF TurnScoped, TurnRecords
  <2>2. Begun(turn.of) \in BOOLEAN
    BY DEF Begun
  <2>3. session' \in [Sessions -> SessionRecords]
    <3>1. session' = [session EXCEPT ![turn.of].running = Begun(turn.of)]
      BY <1>3 DEF TurnScoped
    <3>2. ASSUME NEW s \in Sessions PROVE session'[s] \in SessionRecords
      BY <2>2, <3>1 DEF SessionRecords
    <3> QED BY <3>1, <3>2
  <2> QED BY <1>3, <2>1, <2>3 DEF TurnScoped
<1>4. CASE HarvestAside
  <2>1. disk' \in [{"preview", "old", "live", "prev", "swap"} -> Trees]
    <3>1. None \in Trees
      BY Constants DEF None
    <3> QED BY <1>4, <3>1 DEF HarvestAside
  <2>2. turn' \in TurnRecords
    BY <1>4 DEF HarvestAside, TurnRecords
  <2> QED BY <1>4, <2>1, <2>2 DEF HarvestAside
<1>5. CASE HarvestPlace
  <2>1. turn.n \in Trees /\ None \in Trees
    BY Constants DEF TurnRecords, None
  <2>2. disk' \in [{"preview", "old", "live", "prev", "swap"} -> Trees]
    BY <1>5, <2>1 DEF HarvestPlace
  <2>3. turn' \in TurnRecords
    BY <1>5 DEF HarvestPlace, TurnRecords
  <2>4. faults' \in 0..MaxFaults
    BY <1>5, Constants DEF HarvestPlace, NoFault, Fault
  <2> QED BY <1>5, <2>2, <2>3, <2>4 DEF HarvestPlace
<1>6. CASE TurnOver
  <2>1. turn' \in TurnRecords
    BY <1>6 DEF TurnOver, TurnRecords
  <2>2. faults' \in 0..MaxFaults
    BY <1>6, Constants DEF TurnOver, NoFault, Fault
  <2> QED BY <1>6, <2>1, <2>2 DEF TurnOver
<1>7. CASE TurnTold
  <2>1. turn' \in TurnRecords
    BY <1>7 DEF TurnTold, NoTurn, TurnRecords, Nobody
  <2>3. session' \in [Sessions -> SessionRecords]
    <3> DEFINE built == session[turn.of].deployed \/ turn.made
               begun == Begun(turn.of)
    <3>1. built \in BOOLEAN /\ begun \in BOOLEAN
      BY DEF Begun
    <3>2. \/ session' = [session EXCEPT ![turn.of] = [@ EXCEPT !.running = FALSE, !.deployed = built]]
          \/ session' = [session EXCEPT ![turn.of] = [@ EXCEPT !.running = begun]]
      BY <1>7 DEF TurnTold
    <3> HIDE DEF built, begun
    <3>3. ASSUME NEW s \in Sessions PROVE session'[s] \in SessionRecords
      <4>1. session[s] \in SessionRecords
        BY <3>3
      <4>2. /\ [session[s] EXCEPT !.running = FALSE, !.deployed = built] \in SessionRecords
            /\ [session[s] EXCEPT !.running = begun] \in SessionRecords
        BY <3>1, <4>1 DEF SessionRecords
      <4> QED BY <3>2, <4>1, <4>2
    <3> QED BY <3>2, <3>3
  <2> QED BY <1>7, <2>1, <2>3 DEF TurnTold
<1> QED BY <1>1, <1>2, <1>3, <1>4, <1>5, <1>6, <1>7 DEF Building

(* One press moves on: where a press and its record can go.                *)
LEMMA GoingIsTyped ==
    ASSUME PublishingAssumption, TypeOK, NEW r \in Requests, NEW where \in Places,
           Goto(r, where) \/ Over(r)
    PROVE  op' \in [Requests -> OpRecords]
<1>1. CASE Goto(r, where)
  BY <1>1 DEF TypeOK, Goto, OpRecords
<1>2. CASE Over(r)
  <2>1. None \in Trees /\ "over" \in Places /\ Nobody \in Sessions \cup {Nobody}
    BY Constants DEF Trees, None, Places
  <2>2. Idle("over") \in OpRecords
    BY <2>1 DEF OpRecords, Idle
  <2> QED BY <1>2, <2>2 DEF TypeOK, Over
<1> QED BY <1>1, <1>2

Paths == {"preview", "old", "live", "prev", "swap"}

LEMMA MovingIsTyped ==
    ASSUME PublishingAssumption, TypeOK, NEW from \in Paths, NEW to \in Paths
    PROVE  Moved(from, to) \in [Paths -> Trees] /\ None \in Trees /\ Torn \in Trees
<1>1. None \in Trees /\ Torn \in Trees
  BY Constants DEF None
<1> QED BY <1>1 DEF TypeOK, Moved, Paths

LEMMA RecordsGoOn ==
    ASSUME NEW x \in OpRecords, NEW where \in Places
    PROVE  /\ \A tree \in Trees : [x EXCEPT !.pc = where, !.tree = tree] \in OpRecords
           /\ \A had \in BOOLEAN : [x EXCEPT !.had = had, !.pc = where] \in OpRecords
<1>1. ASSUME NEW tree \in Trees PROVE [x EXCEPT !.pc = where, !.tree = tree] \in OpRecords
  BY Zenon DEF OpRecords
<1>2. ASSUME NEW had \in BOOLEAN PROVE [x EXCEPT !.had = had, !.pc = where] \in OpRecords
  BY Zenon DEF OpRecords
<1> QED BY <1>1, <1>2

LEMMA NotesAreTyped ==
    ASSUME PublishingAssumption, TypeOK
    PROVE  /\ \A what \in {"late", "blind", "overlap", "half", "dark", "crash"} :
                 Note(what) => happened' \subseteq {"late", "blind", "overlap", "half", "dark", "crash"}
           /\ Fault \/ NoFault => faults' \in 0..MaxFaults
<1>1. faults \in 0..MaxFaults /\ MaxFaults \in Nat
  BY Constants DEF TypeOK
<1>2. Fault \/ NoFault => faults' \in 0..MaxFaults
  BY <1>1 DEF Fault, NoFault
<1> QED BY <1>2 DEF TypeOK, Note

LEMMA LeavingIsTyped ==
    ASSUME PublishingAssumption, TypeOK, NEW r \in Requests, Leaves(r)
    PROVE  /\ told' \in [live : Trees, prev : Trees]
           /\ happened' \subseteq {"late", "blind", "overlap", "half", "dark", "crash"}
           /\ happened \subseteq happened'
<1>1. told \in [live : Trees, prev : Trees] /\ None \in Trees /\ Torn \in Trees
  BY Constants DEF TypeOK, None
<1>2. \/ told' = told
      \/ told' = [live |-> None, prev |-> told.live]
      \/ \E tree \in {None, Torn} : told' = [told EXCEPT !.prev = tree]
      \/ told' = [told EXCEPT !.live = None]
  BY DEF Leaves, At
<1>3. told' \in [live : Trees, prev : Trees]
  BY <1>1, <1>2
<1>4. /\ happened' \subseteq {"late", "blind", "overlap", "half", "dark", "crash"}
      /\ happened \subseteq happened'
  BY DEF Leaves, TypeOK
<1> QED BY <1>3, <1>4

LEMMA PublishIsTyped ==
    ASSUME PublishingAssumption, TypeOK, NEW r \in Requests, Publish(r)
    PROVE  TypeOK'
<1>a. ASSUME NEW where \in Places, Goto(r, where) \/ Over(r) PROVE op' \in [Requests -> OpRecords]
  BY <1>a, GoingIsTyped
<1>b. {"over", "preflight", "start", "release", "clear", "clearing", "look", "aside", "place", "done"}
        \subseteq Places
  BY DEF Places, Rotating
<1> USE DEF TypeOK
<1>1. CASE Claim(r)
  <2>1. op' \in [Requests -> OpRecords]
    BY <1>1, <1>a, <1>b DEF Claim
  <2>2. session' \in [Sessions -> SessionRecords]
    BY <1>1 DEF Claim, SessionRecords
  <2> QED BY <1>1, <2>1, <2>2 DEF Claim
<1>2. CASE Preflight(r)
  <2>1. op' \in [Requests -> OpRecords]
    BY <1>2, <1>a, <1>b DEF Preflight
  <2> QED BY <1>2, <2>1, NotesAreTyped DEF Preflight
<1>3. CASE Start(r)
  <2>1. op' \in [Requests -> OpRecords]
    <3>1. CASE Enter(r, "copying", disk.preview)
      <4>1. "copying" \in Places /\ disk.preview \in Trees
        BY DEF Places, Rotating
      <4>2. [op[r] EXCEPT !.pc = "copying", !.tree = disk.preview] \in OpRecords
        BY <4>1, RecordsGoOn
      <4> QED BY <3>1, <4>2 DEF Enter
    <3>2. CASE Goto(r, "release")
      BY <3>2, <1>a, <1>b
    <3> QED BY <1>3, <3>1, <3>2 DEF Start
  <2> QED BY <1>3, <2>1, NotesAreTyped DEF Start, Enter
<1>4. CASE Copy(r)
  <2>1. op' \in [Requests -> OpRecords]
    <3>1. CASE op' = [op EXCEPT ![r].pc = "clear", ![r].tree = Torn]
      <4>1. op' = [op EXCEPT ![r] = [@ EXCEPT !.pc = "clear", !.tree = Torn]]
        BY <3>1
      <4>2. [op[r] EXCEPT !.pc = "clear", !.tree = Torn] \in OpRecords
        BY <1>b, Constants, RecordsGoOn
      <4> QED BY <4>1, <4>2
    <3>2. CASE Goto(r, "clear") \/ Goto(r, "release")
      BY <3>2, <1>a, <1>b
    <3> QED BY <1>4, <3>1, <3>2 DEF Copy
  <2> QED BY <1>4, <2>1, NotesAreTyped DEF Copy
<1>5. CASE Clear(r)
  <2>1. op' \in [Requests -> OpRecords]
    BY <1>5, <1>a, <1>b DEF Clear
  <2>2. disk' \in [Paths -> Trees]
    BY <1>5, MovingIsTyped DEF Clear, Paths
  <2> QED BY <1>5, <2>1, <2>2, NotesAreTyped DEF Clear, Paths
<1>6. CASE Cleared(r)
  <2>1. op' \in [Requests -> OpRecords]
    BY <1>6, <1>a, <1>b DEF Cleared
  <2>2. /\ disk' \in [Paths -> Trees] /\ told' \in [live : Trees, prev : Trees]
        /\ happened' \subseteq {"late", "blind", "overlap", "half", "dark", "crash"}
    BY <1>6, MovingIsTyped, LeavingIsTyped DEF Cleared, Paths
  <2>3. Fault \/ NoFault
    BY <1>6 DEF Cleared
  <2> QED BY <1>6, <2>1, <2>2, <2>3, NotesAreTyped DEF Cleared, Paths
<1>7. CASE Look(r)
  <2>1. PICK had \in BOOLEAN, where \in {"aside", "place"} :
           op' = [op EXCEPT ![r] = [@ EXCEPT !.had = had, !.pc = where]]
    BY <1>7 DEF Look
  <2>2. op' \in [Requests -> OpRecords]
    <3>1. [op[r] EXCEPT !.had = had, !.pc = where] \in OpRecords
      BY <1>b, RecordsGoOn
    <3> QED BY <2>1, <3>1
  <2> QED BY <1>7, <2>2 DEF Look
<1>8. CASE Aside(r)
  <2>1. op' \in [Requests -> OpRecords]
    BY <1>8, <1>a, <1>b DEF Aside
  <2>2. disk' \in [Paths -> Trees]
    BY <1>8, MovingIsTyped DEF Aside, Paths
  <2> QED BY <1>8, <2>1, <2>2, NotesAreTyped DEF Aside, Paths
<1>9. CASE Place(r)
  <2>1. op' \in [Requests -> OpRecords]
    BY <1>9, <1>a, <1>b DEF Place
  <2>2. op[r].tree \in Trees
    BY DEF OpRecords
  <2>3. PutBack(r) \in [Paths -> Trees]
    BY MovingIsTyped DEF PutBack, Paths
  <2>4. /\ disk' \in [Paths -> Trees] /\ told' \in [live : Trees, prev : Trees]
        /\ happened' \subseteq {"late", "blind", "overlap", "half", "dark", "crash"}
    BY <1>9, <2>2, <2>3, LeavingIsTyped DEF Place, Serve, Paths
  <2>5. Fault \/ NoFault
    BY <1>9 DEF Place
  <2> QED BY <1>9, <2>1, <2>4, <2>5, NotesAreTyped DEF Place, Paths
<1>10. CASE Done(r)
  <2>1. op' \in [Requests -> OpRecords]
    BY <1>10, <1>a, <1>b DEF Done
  <2>2. Fault \/ NoFault
    BY <1>10 DEF Done
  <2> QED BY <1>10, <2>1, <2>2, NotesAreTyped DEF Done
<1>11. CASE Release(r)
  <2>1. op' \in [Requests -> OpRecords]
    BY <1>11, <1>a, <1>b DEF Release
  <2>2. session' \in [Sessions -> SessionRecords]
    BY <1>11 DEF Release, SessionRecords, Nobody
  <2> QED BY <1>11, <2>1, <2>2 DEF Release
<1> QED
  BY <1>1, <1>2, <1>3, <1>4, <1>5, <1>6, <1>7, <1>8, <1>9, <1>10, <1>11 DEF Publish

LEMMA RevertIsTyped ==
    ASSUME PublishingAssumption, TypeOK, NEW r \in Requests, Revert(r)
    PROVE  TypeOK'
<1>a. ASSUME NEW where \in Places, Goto(r, where) \/ Over(r) PROVE op' \in [Requests -> OpRecords]
  BY <1>a, GoingIsTyped
<1>b. {"over", "begin", "swapOut", "swapIn", "swapBack"} \subseteq Places
  BY DEF Places, Swapping
<1>c. None \in Trees
  BY Constants DEF None
<1> USE DEF TypeOK
<1>1. CASE PreflightRevert(r)
  <2>1. op' \in [Requests -> OpRecords]
    BY <1>1, <1>a, <1>b DEF PreflightRevert
  <2> QED BY <1>1, <2>1 DEF PreflightRevert
<1>2. CASE StartRevert(r)
  <2>1. op' \in [Requests -> OpRecords]
    <3>1. CASE Enter(r, "swapOut", None)
      <4>1. [op[r] EXCEPT !.pc = "swapOut", !.tree = None] \in OpRecords
        BY <1>b, <1>c, RecordsGoOn
      <4> QED BY <3>1, <4>1 DEF Enter
    <3>2. CASE Over(r)
      BY <3>2, <1>a, <1>b
    <3> QED BY <1>2, <3>1, <3>2 DEF StartRevert
  <2> QED BY <1>2, <2>1, NotesAreTyped DEF StartRevert, Enter
<1>3. CASE SwapOut(r)
  <2>1. op' \in [Requests -> OpRecords]
    BY <1>3, <1>a, <1>b DEF SwapOut
  <2>2. disk' \in [Paths -> Trees]
    BY <1>3, MovingIsTyped DEF SwapOut, Paths
  <2> QED BY <1>3, <2>1, <2>2, NotesAreTyped DEF SwapOut, Paths
<1>4. CASE SwapIn(r)
  <2>1. op' \in [Requests -> OpRecords]
    BY <1>4, <1>a, <1>b DEF SwapIn
  <2>2. disk' \in [Paths -> Trees]
    BY <1>4, <1>c, MovingIsTyped DEF SwapIn, Paths
  <2>3. /\ told' \in [live : Trees, prev : Trees]
        /\ happened' \subseteq {"late", "blind", "overlap", "half", "dark", "crash"}
    BY <1>4, LeavingIsTyped DEF SwapIn, Serve
  <2>4. Fault \/ NoFault
    BY <1>4 DEF SwapIn
  <2> QED BY <1>4, <2>1, <2>2, <2>3, <2>4, NotesAreTyped DEF SwapIn, Paths
<1>5. CASE SwapBack(r)
  <2>1. op' \in [Requests -> OpRecords]
    BY <1>5, <1>a, <1>b DEF SwapBack
  <2>2. disk' \in [Paths -> Trees] /\ told' \in [live : Trees, prev : Trees]
    BY <1>5, <1>c, MovingIsTyped DEF SwapBack, Paths
  <2>3. Fault \/ NoFault
    BY <1>5 DEF SwapBack
  <2> QED BY <1>5, <2>1, <2>2, <2>3, NotesAreTyped DEF SwapBack, Paths
<1> QED BY <1>1, <1>2, <1>3, <1>4, <1>5 DEF Revert

(* The owner's presses, and the faults.                                    *)
Pressing(r) == (\E s \in Sessions : Press(r, s)) \/ PressRevert(r)

LEMMA PressingIsTyped ==
    ASSUME PublishingAssumption, TypeOK, NEW r \in Requests, Pressing(r)
    PROVE  TypeOK'
<1>1. ASSUME NEW s \in Sessions, Press(r, s) PROVE op' \in [Requests -> OpRecords]
  <2> DEFINE kind == "publish"
             of == s
             place == "claim"
  <2>2. op[r] \in OpRecords
    BY DEF TypeOK
  <2>3. kind \in {"none", "publish", "revert"} /\ of \in Sessions \cup {Nobody} /\ place \in Places
    BY DEF Places
  <2> HIDE DEF kind, of, place
  <2>4. [op[r] EXCEPT !.kind = kind, !.of = of, !.pc = place] \in OpRecords
    BY <2>2, <2>3, Zenon DEF OpRecords
  <2>1. [op[r] EXCEPT !.kind = "publish", !.of = s, !.pc = "claim"] \in OpRecords
    BY <2>4 DEF kind, of, place
  <2> QED BY <1>1, <2>1 DEF TypeOK, Press
<1>2. ASSUME PressRevert(r) PROVE op' \in [Requests -> OpRecords]
  <2> DEFINE kind == "revert"
             place == "check"
  <2>2. op[r] \in OpRecords
    BY DEF TypeOK
  <2>3. kind \in {"none", "publish", "revert"} /\ place \in Places
    BY DEF Places
  <2> HIDE DEF kind, place
  <2>4. [op[r] EXCEPT !.kind = kind, !.pc = place] \in OpRecords
    BY <2>2, <2>3, Zenon DEF OpRecords
  <2>1. [op[r] EXCEPT !.kind = "revert", !.pc = "check"] \in OpRecords
    BY <2>4 DEF kind, place
  <2> QED BY <1>2, <2>1 DEF TypeOK, PressRevert
<1> QED BY <1>1, <1>2 DEF Pressing, Press, PressRevert, TypeOK

LEMMA KillIsTyped ==
    ASSUME PublishingAssumption, TypeOK, NEW r \in Requests, Kill(r)
    PROVE  TypeOK'
<1>1. op' \in [Requests -> OpRecords]
  <2>1. "release" \in Places
    BY DEF Places
  <2> QED BY <2>1, GoingIsTyped DEF Kill
<1>2. disk' \in [Paths -> Trees]
  BY Constants DEF Kill, TypeOK, Paths, None
<1> QED BY <1>1, <1>2, LeavingIsTyped, NotesAreTyped DEF Kill, TypeOK, Paths

LEMMA CrashIsTyped ==
    ASSUME PublishingAssumption, TypeOK, ServerCrash
    PROVE  TypeOK'
<1>1. Idle("over") \in OpRecords
  BY Constants DEF OpRecords, Idle, Places, None
<1>2. ASSUME NEW r \in Requests PROVE [op[r] EXCEPT !.heard = FALSE] \in OpRecords
  <2>1. op[r] \in OpRecords
    BY DEF TypeOK
  <2> QED BY <2>1 DEF OpRecords
<1>3. op' \in [Requests -> OpRecords]
  BY <1>1, <1>2 DEF ServerCrash, TypeOK
<1> QED BY <1>3, NotesAreTyped DEF ServerCrash, TypeOK

(* The trees, the presses, the sessions and the turn stay in their types:  *)
(* no step of a unit, a fault or a crash leaves a record half written.     *)
THEOREM PublishingTypeCorrect == ASSUME PublishingAssumption PROVE Spec => []TypeOK
<1>1. ASSUME TypeOK, [Next]_vars PROVE TypeOK'
  <2>1. CASE UNCHANGED vars
    BY <1>1, <2>1 DEF TypeOK, vars
  <2>2. CASE Next
    BY <1>1, <2>2, BuildingIsTyped, PublishIsTyped, RevertIsTyped, PressingIsTyped, KillIsTyped,
       CrashIsTyped DEF Next, Building, Pressing
  <2> QED BY <1>1, <2>1, <2>2
<1> QED BY <1>1, InitIsTyped, PTL DEF Spec

-----------------------------------------------------------------------------
(* The units and what they hold *)

(* One press moves: its place is new, the rest of its record is kept or    *)
(* forgotten, and the others stay.                                         *)
LEMMA OneMoves ==
    ASSUME TypeOK, NEW r \in Requests, NEW where
    PROVE  /\ Goto(r, where) =>
                 /\ op'[r].pc = where /\ op'[r].kind = op[r].kind /\ op'[r].tree = op[r].tree
                 /\ op'[r].had = op[r].had /\ op'[r].heard = op[r].heard
                 /\ \A q \in Requests \ {r} : op'[q] = op[q]
           /\ Over(r) => op'[r].pc = "over" /\ \A q \in Requests \ {r} : op'[q] = op[q]
<1>1. op \in [Requests -> OpRecords] /\ op[r] \in OpRecords
  BY DEF TypeOK
<1>2. Goto(r, where) => op' = [op EXCEPT ![r] = [@ EXCEPT !.pc = where]]
  BY DEF Goto
<1> QED BY <1>1, <1>2 DEF OpRecords, Over, Idle

(* The same for the steps that also write the record.                      *)
LEMMA OneWrites ==
    ASSUME TypeOK, NEW r \in Requests
    PROVE  /\ \A tree, where : Enter(r, where, tree) =>
                 /\ op'[r].pc = where /\ op'[r].kind = op[r].kind /\ op'[r].tree = tree
                 /\ \A q \in Requests \ {r} : op'[q] = op[q]
           /\ op' = [op EXCEPT ![r].pc = "clear", ![r].tree = Torn] =>
                 /\ op'[r].pc = "clear" /\ op'[r].kind = op[r].kind /\ op'[r].tree = Torn
                 /\ \A q \in Requests \ {r} : op'[q] = op[q]
           /\ Look(r) =>
                 /\ op'[r].pc = (IF disk.live # None THEN "aside" ELSE "place")
                 /\ op'[r].had = (disk.live # None)
                 /\ op'[r].kind = op[r].kind /\ op'[r].tree = op[r].tree
                 /\ \A q \in Requests \ {r} : op'[q] = op[q]
<1>1. op \in [Requests -> OpRecords] /\ op[r] \in OpRecords
  BY DEF TypeOK
<1>2. ASSUME NEW tree, NEW where, Enter(r, where, tree)
      PROVE  /\ op'[r].pc = where /\ op'[r].kind = op[r].kind /\ op'[r].tree = tree
             /\ \A q \in Requests \ {r} : op'[q] = op[q]
  BY <1>1, <1>2 DEF Enter, OpRecords
<1>3. ASSUME op' = [op EXCEPT ![r].pc = "clear", ![r].tree = Torn]
      PROVE  /\ op'[r].pc = "clear" /\ op'[r].kind = op[r].kind /\ op'[r].tree = Torn
             /\ \A q \in Requests \ {r} : op'[q] = op[q]
  BY <1>1, <1>3 DEF OpRecords
<1>4. ASSUME Look(r)
      PROVE  /\ op'[r].pc = (IF disk.live # None THEN "aside" ELSE "place")
             /\ op'[r].had = (disk.live # None)
             /\ op'[r].kind = op[r].kind /\ op'[r].tree = op[r].tree
             /\ \A q \in Requests \ {r} : op'[q] = op[q]
  BY <1>1, <1>4 DEF Look, OpRecords
<1> QED BY <1>2, <1>3, <1>4

Units == KindsFit /\ UnitsAreAlone /\ UnitsHoldTrees

LEMMA PublishKeepsUnits ==
    ASSUME PublishingAssumption, IInv, NEW r \in Requests, Publish(r)
    PROVE  Units'
<1>t. TypeOK /\ KindsFit /\ UnitsAreAlone /\ UnitsHoldTrees
  BY DEF IInv
<1>1. CASE Claim(r)
  <2>1. At(r, "claim") /\ \A q \in Requests \ {r} : op'[q] = op[q]
    BY <1>1, <1>t, OneMoves, OneWrites DEF Claim
  <2>2. op'[r].pc \in {"preflight", "over"} /\ (op'[r].pc # "over" => op'[r].kind = op[r].kind)
    BY <1>1, <1>t, OneMoves, OneWrites, Constants DEF Claim, UnitsHoldTrees, Rotating, At
  <2>3. UNCHANGED disk
    BY <1>1 DEF Claim
  <2>4. KindsFit'
    BY <1>t, <2>1, <2>2 DEF KindsFit, At, Rotating, Swapping
  <2>5. UnitsAreAlone'
    BY <1>t, <2>1, <2>2 DEF KindsFit, UnitsAreAlone, At, InUnit, Rotating, Swapping
  <2>6. UnitsHoldTrees'
    BY <1>t, <2>1, <2>2, <2>3 DEF UnitsHoldTrees, At, Rotating
  <2> QED BY <2>4, <2>5, <2>6 DEF Units
<1>2. CASE Preflight(r)
  <2>1. At(r, "preflight") /\ \A q \in Requests \ {r} : op'[q] = op[q]
    BY <1>2, <1>t, OneMoves, OneWrites DEF Preflight
  <2>2. op'[r].pc \in {"start", "release"} /\ op'[r].kind = op[r].kind
    BY <1>2, <1>t, OneMoves, OneWrites, Constants DEF Preflight, UnitsHoldTrees, Rotating, At
  <2>3. UNCHANGED disk
    BY <1>2 DEF Preflight
  <2>4. KindsFit'
    BY <1>t, <2>1, <2>2 DEF KindsFit, At, Rotating, Swapping
  <2>5. UnitsAreAlone'
    BY <1>t, <2>1, <2>2 DEF KindsFit, UnitsAreAlone, At, InUnit, Rotating, Swapping
  <2>6. UnitsHoldTrees'
    BY <1>t, <2>1, <2>2, <2>3 DEF UnitsHoldTrees, At, Rotating
  <2> QED BY <2>4, <2>5, <2>6 DEF Units
<1>3. CASE Start(r)
  <2>1. At(r, "start") /\ \A q \in Requests \ {r} : op'[q] = op[q]
    BY <1>3, <1>t, OneMoves, OneWrites DEF Start
  <2>2. \/ op'[r].pc = "copying" /\ op'[r].kind = op[r].kind /\ op'[r].tree # None /\ NameIsFree(r)
        \/ op'[r].pc = "release" /\ op'[r].kind = op[r].kind
    <3>1. CASE NameIsFree(r) /\ disk.preview # None
      <4>1. Enter(r, "copying", disk.preview)
        BY <1>3, <3>1 DEF Start
      <4> QED BY <1>t, <3>1, <4>1, OneWrites
    <3>2. CASE ~(NameIsFree(r) /\ disk.preview # None)
      <4>1. Goto(r, "release")
        BY <1>3, <3>2 DEF Start
      <4> QED BY <1>t, <4>1, OneMoves
    <3> QED BY <3>1, <3>2
  <2>3. UNCHANGED disk
    BY <1>3 DEF Start
  <2>4. KindsFit'
    BY <1>t, <2>1, <2>2 DEF KindsFit, At, Rotating, Swapping
  <2>5. UnitsAreAlone'
    BY <1>t, <2>1, <2>2 DEF KindsFit, UnitsAreAlone, At, InUnit, Rotating, Swapping, NameIsFree, Kin
  <2>6. UnitsHoldTrees'
    BY <1>t, <2>1, <2>2, <2>3 DEF UnitsHoldTrees, At, Rotating
  <2> QED BY <2>4, <2>5, <2>6 DEF Units
<1>4. CASE Copy(r)
  <2>1. At(r, "copying") /\ \A q \in Requests \ {r} : op'[q] = op[q]
    BY <1>4, <1>t, OneMoves, OneWrites DEF Copy
  <2>2. op'[r].pc \in {"clear", "release"} /\ op'[r].kind = op[r].kind /\ op'[r].tree # None
    BY <1>4, <1>t, OneMoves, OneWrites, Constants DEF Copy, UnitsHoldTrees, Rotating, At
  <2>3. UNCHANGED disk
    BY <1>4 DEF Copy
  <2>4. KindsFit'
    BY <1>t, <2>1, <2>2 DEF KindsFit, At, Rotating, Swapping
  <2>5. UnitsAreAlone'
    BY <1>t, <2>1, <2>2 DEF KindsFit, UnitsAreAlone, At, InUnit, Rotating, Swapping
  <2>6. UnitsHoldTrees'
    BY <1>t, <2>1, <2>2, <2>3 DEF UnitsHoldTrees, At, Rotating
  <2> QED BY <2>4, <2>5, <2>6 DEF Units
<1>5. CASE Clear(r)
  <2>1. At(r, "clear") /\ \A q \in Requests \ {r} : op'[q] = op[q]
    BY <1>5, <1>t, OneMoves, OneWrites DEF Clear
  <2>2. op'[r].pc \in {"look", "clearing", "release"} /\ op'[r].kind = op[r].kind /\ op'[r].tree = op[r].tree /\ op'[r].had = op[r].had
    BY <1>5, <1>t, OneMoves, OneWrites, Constants DEF Clear, UnitsHoldTrees, Rotating, At
  <2>3. disk'.swap = disk.swap
    BY <1>5, <1>t DEF Clear, TypeOK
  <2>4. KindsFit'
    BY <1>t, <2>1, <2>2 DEF KindsFit, At, Rotating, Swapping
  <2>5. UnitsAreAlone'
    BY <1>t, <2>1, <2>2 DEF KindsFit, UnitsAreAlone, At, InUnit, Rotating, Swapping
  <2>6. UnitsHoldTrees'
    BY <1>t, <2>1, <2>2, <2>3 DEF UnitsHoldTrees, At, Rotating
  <2> QED BY <2>4, <2>5, <2>6 DEF Units
<1>6. CASE Cleared(r)
  <2>1. At(r, "clearing") /\ \A q \in Requests \ {r} : op'[q] = op[q]
    BY <1>6, <1>t, OneMoves, OneWrites DEF Cleared
  <2>2. op'[r].pc \in {"look", "release"} /\ op'[r].kind = op[r].kind /\ op'[r].tree = op[r].tree /\ op'[r].had = op[r].had
    BY <1>6, <1>t, OneMoves, OneWrites, Constants DEF Cleared, UnitsHoldTrees, Rotating, At
  <2>3. disk'.swap = disk.swap
    BY <1>6, <1>t DEF Cleared, TypeOK
  <2>4. KindsFit'
    BY <1>t, <2>1, <2>2 DEF KindsFit, At, Rotating, Swapping
  <2>5. UnitsAreAlone'
    BY <1>t, <2>1, <2>2 DEF KindsFit, UnitsAreAlone, At, InUnit, Rotating, Swapping
  <2>6. UnitsHoldTrees'
    BY <1>t, <2>1, <2>2, <2>3 DEF UnitsHoldTrees, At, Rotating
  <2> QED BY <2>4, <2>5, <2>6 DEF Units
<1>7. CASE Look(r)
  <2>1. At(r, "look") /\ \A q \in Requests \ {r} : op'[q] = op[q]
    BY <1>7, <1>t, OneMoves, OneWrites DEF Look
  <2>2. \/ op'[r].pc = "aside" /\ op'[r].had /\ op'[r].kind = op[r].kind /\ op'[r].tree = op[r].tree
        \/ op'[r].pc = "place" /\ op'[r].kind = op[r].kind /\ op'[r].tree = op[r].tree
    <3>1. CASE disk.live # None
      BY <1>7, <1>t, <3>1, OneWrites
    <3>2. CASE disk.live = None
      BY <1>7, <1>t, <3>2, OneWrites
    <3> QED BY <3>1, <3>2
  <2>3. UNCHANGED disk
    BY <1>7 DEF Look
  <2>4. KindsFit'
    BY <1>t, <2>1, <2>2 DEF KindsFit, At, Rotating, Swapping
  <2>5. UnitsAreAlone'
    BY <1>t, <2>1, <2>2 DEF KindsFit, UnitsAreAlone, At, InUnit, Rotating, Swapping
  <2>6. UnitsHoldTrees'
    BY <1>t, <2>1, <2>2, <2>3 DEF UnitsHoldTrees, At, Rotating
  <2> QED BY <2>4, <2>5, <2>6 DEF Units
<1>8. CASE Aside(r)
  <2>1. At(r, "aside") /\ \A q \in Requests \ {r} : op'[q] = op[q]
    BY <1>8, <1>t, OneMoves, OneWrites DEF Aside
  <2>2. op'[r].pc \in {"place", "release"} /\ op'[r].kind = op[r].kind /\ op'[r].tree = op[r].tree /\ op'[r].had = op[r].had
    BY <1>8, <1>t, OneMoves, OneWrites, Constants DEF Aside, UnitsHoldTrees, Rotating, At
  <2>3. disk'.swap = disk.swap
    BY <1>8, <1>t DEF Aside, TypeOK, Moved, CanMove
  <2>4. KindsFit'
    BY <1>t, <2>1, <2>2 DEF KindsFit, At, Rotating, Swapping
  <2>5. UnitsAreAlone'
    BY <1>t, <2>1, <2>2 DEF KindsFit, UnitsAreAlone, At, InUnit, Rotating, Swapping
  <2>6. UnitsHoldTrees'
    BY <1>t, <2>1, <2>2, <2>3 DEF UnitsHoldTrees, At, Rotating
  <2> QED BY <2>4, <2>5, <2>6 DEF Units
<1>9. CASE Place(r)
  <2>1. At(r, "place") /\ \A q \in Requests \ {r} : op'[q] = op[q]
    BY <1>9, <1>t, OneMoves, OneWrites DEF Place
  <2>2. op'[r].pc \in {"done", "release"} /\ op'[r].kind = op[r].kind /\ op'[r].tree = op[r].tree /\ op'[r].had = op[r].had
    BY <1>9, <1>t, OneMoves, OneWrites, Constants DEF Place, UnitsHoldTrees, Rotating, At
  <2>3. disk'.swap = disk.swap
    BY <1>9, <1>t DEF Place, TypeOK, Moved, CanMove, PutBack
  <2>4. KindsFit'
    BY <1>t, <2>1, <2>2 DEF KindsFit, At, Rotating, Swapping
  <2>5. UnitsAreAlone'
    BY <1>t, <2>1, <2>2 DEF KindsFit, UnitsAreAlone, At, InUnit, Rotating, Swapping
  <2>6. UnitsHoldTrees'
    BY <1>t, <2>1, <2>2, <2>3 DEF UnitsHoldTrees, At, Rotating
  <2> QED BY <2>4, <2>5, <2>6 DEF Units
<1>10. CASE Done(r)
  <2>1. At(r, "done") /\ \A q \in Requests \ {r} : op'[q] = op[q]
    BY <1>10, <1>t, OneMoves, OneWrites DEF Done
  <2>2. op'[r].pc \in {"release", "over"} /\ (op'[r].pc # "over" => op'[r].kind = op[r].kind)
    BY <1>10, <1>t, OneMoves, OneWrites, Constants DEF Done, UnitsHoldTrees, Rotating, At
  <2>3. UNCHANGED disk
    BY <1>10 DEF Done
  <2>4. KindsFit'
    BY <1>t, <2>1, <2>2 DEF KindsFit, At, Rotating, Swapping
  <2>5. UnitsAreAlone'
    BY <1>t, <2>1, <2>2 DEF KindsFit, UnitsAreAlone, At, InUnit, Rotating, Swapping
  <2>6. UnitsHoldTrees'
    BY <1>t, <2>1, <2>2, <2>3 DEF UnitsHoldTrees, At, Rotating
  <2> QED BY <2>4, <2>5, <2>6 DEF Units
<1>11. CASE Release(r)
  <2>1. At(r, "release") /\ \A q \in Requests \ {r} : op'[q] = op[q]
    BY <1>11, <1>t, OneMoves, OneWrites DEF Release
  <2>2. op'[r].pc = "over"
    BY <1>11, <1>t, OneMoves, OneWrites, Constants DEF Release, UnitsHoldTrees, Rotating, At
  <2>3. UNCHANGED disk
    BY <1>11 DEF Release
  <2>4. KindsFit'
    BY <1>t, <2>1, <2>2 DEF KindsFit, At, Rotating, Swapping
  <2>5. UnitsAreAlone'
    BY <1>t, <2>1, <2>2 DEF KindsFit, UnitsAreAlone, At, InUnit, Rotating, Swapping
  <2>6. UnitsHoldTrees'
    BY <1>t, <2>1, <2>2, <2>3 DEF UnitsHoldTrees, At, Rotating
  <2> QED BY <2>4, <2>5, <2>6 DEF Units
<1> QED
  BY <1>1, <1>2, <1>3, <1>4, <1>5, <1>6, <1>7, <1>8, <1>9, <1>10, <1>11 DEF Publish

(* Who does not touch live, its keepers or the status breaks nothing.      *)
LEMMA ServedStays ==
    ASSUME SomethingIsServed, Shown' => Shown, happened \subseteq happened',
           disk'.live = disk.live, disk'.prev = disk.prev,
           \A q \in Requests : op[q].pc \in {"swapIn", "place"} =>
              op'[q].pc = op[q].pc /\ op'[q].had = op[q].had
    PROVE  SomethingIsServed'
<1> QED BY DEF SomethingIsServed, At

LEMMA PublishKeepsServed ==
    ASSUME PublishingAssumption, IInv, NEW r \in Requests, Publish(r)
    PROVE  SomethingIsServed'
<1>t. /\ TypeOK /\ KindsFit /\ UnitsAreAlone /\ UnitsHoldTrees /\ SomethingIsServed
      /\ \A path \in Paths : path \in DOMAIN disk
  BY DEF IInv, TypeOK, Paths
<1>1. CASE Claim(r) \/ Preflight(r) \/ Start(r) \/ Copy(r) \/ Release(r)
  <2>1. /\ op[r].pc \in {"claim", "preflight", "start", "copying", "release"} /\ op'[r].pc # "done"
        /\ \A q \in Requests \ {r} : op'[q] = op[q]
    BY <1>1, <1>t, OneMoves, OneWrites DEF Claim, Preflight, Start, Copy, Release, At
  <2>2. UNCHANGED <<status, disk>> /\ happened \subseteq happened'
    BY <1>1 DEF Claim, Preflight, Start, Copy, Release, Enter, Note
  <2>3. Shown' => Shown
    BY <2>1, <2>2 DEF Shown, At
  <2> QED BY <1>t, <2>1, <2>2, <2>3, ServedStays
<1>2. CASE Clear(r) \/ Cleared(r)
  <2>1. /\ op[r].pc \in {"clear", "clearing"} /\ op'[r].pc \in {"look", "clearing", "release"}
        /\ \A q \in Requests \ {r} : op'[q] = op[q]
    BY <1>2, <1>t, OneMoves DEF Clear, Cleared, At
  <2>2. disk'.live = disk.live /\ UNCHANGED status /\ happened \subseteq happened'
    BY <1>2, <1>t DEF Clear, Cleared, Leaves, TypeOK
  <2>3. \A q \in Requests : ~At(q, "place")
    BY <1>t, <2>1 DEF UnitsAreAlone, KindsFit, InUnit, At, Rotating, Swapping
  <2>4. Shown' => Shown
    BY <2>1, <2>2 DEF Shown, At
  <2> QED BY <1>t, <2>1, <2>2, <2>3, <2>4 DEF SomethingIsServed, At
<1>3. CASE Look(r)
  <2>1. /\ At(r, "look") /\ op'[r].pc \in {"aside", "place"}
        /\ \A q \in Requests \ {r} : op'[q] = op[q]
    BY <1>3, <1>t, OneWrites DEF Look
  <2>2. UNCHANGED <<status, disk, happened>>
    BY <1>3 DEF Look
  <2>3. Shown' => Shown
    BY <2>1, <2>2 DEF Shown, At
  <2>4. \A q \in Requests : op[q].pc \in {"swapIn", "place"} => op'[q] = op[q]
    BY <2>1 DEF At
  <2> QED BY <1>t, <2>2, <2>3, <2>4, ServedStays
<1>4. CASE Aside(r)
  <2>1. /\ At(r, "aside") /\ op'[r].pc \in {"place", "release"} /\ op'[r].had
        /\ \A q \in Requests \ {r} : op'[q] = op[q]
    BY <1>4, <1>t, OneMoves DEF Aside, UnitsHoldTrees
  <2>2. UNCHANGED <<status, happened>>
    BY <1>4 DEF Aside
  <2>3. Shown' => Shown
    BY <2>1, <2>2 DEF Shown, At
  <2>4. CASE UNCHANGED disk
    <3>1. \A q \in Requests : op[q].pc \in {"swapIn", "place"} => op'[q] = op[q]
      BY <2>1 DEF At
    <3> QED BY <1>t, <2>2, <2>3, <2>4, <3>1, ServedStays
  <2>5. CASE disk' = Moved("live", "prev") /\ CanMove("live", "prev") /\ Goto(r, "place")
    <3>1. op'[r].pc = "place"
      BY <1>t, <2>5, OneMoves
    <3>2. disk'.prev # None
      BY <1>t, <2>5 DEF Moved, CanMove, TypeOK
    <3> QED BY <2>1, <3>1, <3>2 DEF SomethingIsServed, At
  <2> QED BY <1>4, <2>4, <2>5 DEF Aside
<1>5. CASE Place(r)
  <2>1. /\ At(r, "place") /\ op'[r].pc \in {"done", "release"}
        /\ \A q \in Requests \ {r} : op'[q] = op[q]
    BY <1>5, <1>t, OneMoves DEF Place
  <2>2. UNCHANGED status /\ happened \subseteq happened'
    BY <1>5 DEF Place, Leaves
  <2>3. op[r].tree # None
    BY <1>t, <2>1 DEF UnitsHoldTrees, At, Rotating
  <2>4. CASE disk' = [disk EXCEPT !.live = op[r].tree]
    <3>1. disk'.live # None
      BY <1>t, <2>3, <2>4 DEF TypeOK
    <3> QED BY <3>1 DEF SomethingIsServed
  <2>5. CASE disk' = PutBack(r) /\ Goto(r, "release")
    <3>1. op'[r].pc = "release"
      BY <1>t, <2>5, OneMoves
    <3>2. Shown' => Shown
      BY <2>1, <2>2, <3>1 DEF Shown, At
    <3>3. \A q \in Requests : At(q, "place") => q = r
      BY <1>t, <2>1 DEF UnitsAreAlone, KindsFit, InUnit, At, Rotating, Swapping
    <3>4. CASE disk' = disk /\ (op[r].had => ~CanMove("prev", "live"))
      <4>1. disk.live = None => ~(op[r].had /\ disk.prev # None)
        BY <3>4 DEF CanMove
      <4> QED BY <1>t, <2>1, <2>2, <3>2, <3>3, <3>4, <4>1 DEF SomethingIsServed, At
    <3>5. CASE disk' = Moved("prev", "live") /\ CanMove("prev", "live")
      <4>1. disk'.live # None
        BY <1>t, <3>5 DEF Moved, CanMove, TypeOK
      <4> QED BY <4>1 DEF SomethingIsServed
    <3> QED BY <2>5, <3>4, <3>5 DEF PutBack
  <2>6. CASE disk.live = None /\ op[r].had /\ Leaves(r)
    <3>1. "dark" \in happened'
      BY <2>1, <2>6 DEF Leaves, LeftAside
    <3> QED BY <3>1 DEF SomethingIsServed
  <2> QED BY <1>5, <2>4, <2>5, <2>6 DEF Place
<1>6. CASE Done(r)
  <2>1. /\ At(r, "done") /\ \A q \in Requests \ {r} : op'[q] = op[q]
    BY <1>6, <1>t, OneMoves DEF Done
  <2>2. UNCHANGED <<disk, happened>> /\ Shown
    BY <1>6, <2>1 DEF Done, Shown
  <2>3. \A q \in Requests : op[q].pc \in {"swapIn", "place"} => op'[q] = op[q]
    BY <2>1 DEF At
  <2> QED BY <1>t, <2>2, <2>3, ServedStays
<1> QED BY <1>1, <1>2, <1>3, <1>4, <1>5, <1>6 DEF Publish

LEMMA StartRevertMoves ==
    ASSUME TypeOK, NEW r \in Requests, StartRevert(r)
    PROVE  /\ At(r, "begin") /\ \A q \in Requests \ {r} : op'[q] = op[q]
           /\ \/ op'[r].pc = "over"
              \/ op'[r].pc = "swapOut" /\ op'[r].kind = op[r].kind /\ NameIsFree(r) /\ Both
                 /\ Enter(r, "swapOut", None)
<1>1. CASE NameIsFree(r) /\ Both
  <2>1. Enter(r, "swapOut", None)
    BY <1>1 DEF StartRevert
  <2> QED BY <1>1, <2>1, OneWrites DEF StartRevert
<1>2. CASE ~(NameIsFree(r) /\ Both)
  <2>1. Over(r)
    BY <1>2 DEF StartRevert
  <2> QED BY <2>1, OneMoves DEF StartRevert
<1> QED BY <1>1, <1>2

LEMMA RevertKeepsUnits ==
    ASSUME PublishingAssumption, IInv, NEW r \in Requests, Revert(r)
    PROVE  Units'
<1>t. /\ TypeOK /\ KindsFit /\ UnitsAreAlone /\ UnitsHoldTrees
      /\ \A path \in Paths : path \in DOMAIN disk
  BY DEF IInv, TypeOK, Paths
<1> DEFINE Goes(where) == op'[r].pc = "over" \/ (op'[r].pc = where /\ op'[r].kind = op[r].kind)
<1>1. CASE PreflightRevert(r)
  <2>1. At(r, "check") /\ Goes("begin") /\ \A q \in Requests \ {r} : op'[q] = op[q]
    BY <1>1, <1>t, OneMoves DEF PreflightRevert
  <2>2. UNCHANGED disk
    BY <1>1 DEF PreflightRevert
  <2>3. KindsFit'
    BY <1>t, <2>1 DEF KindsFit, At, Rotating, Swapping
  <2>4. UnitsAreAlone'
    BY <1>t, <2>1 DEF UnitsAreAlone, At, InUnit, Rotating, Swapping
  <2>5. UnitsHoldTrees'
    BY <1>t, <2>1, <2>2 DEF UnitsHoldTrees, At, Rotating
  <2> QED BY <2>3, <2>4, <2>5 DEF Units
<1>2. CASE StartRevert(r)
  <2>1. /\ At(r, "begin") /\ Goes("swapOut") /\ \A q \in Requests \ {r} : op'[q] = op[q]
        /\ op'[r].pc = "swapOut" => NameIsFree(r)
    BY <1>2, <1>t, StartRevertMoves
  <2>2. UNCHANGED disk
    BY <1>2 DEF StartRevert
  <2>3. KindsFit'
    BY <1>t, <2>1 DEF KindsFit, At, Rotating, Swapping
  <2>4. UnitsAreAlone'
    BY <1>t, <2>1 DEF UnitsAreAlone, At, InUnit, Rotating, Swapping, NameIsFree, Kin
  <2>5. UnitsHoldTrees'
    BY <1>t, <2>1, <2>2 DEF UnitsHoldTrees, At, Rotating
  <2> QED BY <2>3, <2>4, <2>5 DEF Units
<1>3. CASE SwapOut(r)
  <2>1. At(r, "swapOut") /\ Goes("swapIn") /\ \A q \in Requests \ {r} : op'[q] = op[q]
    BY <1>3, <1>t, OneMoves DEF SwapOut
  <2>2. op'[r].pc = "swapIn" => disk'.swap # None
    <3>1. CASE disk.live # None /\ disk' = Moved("live", "swap")
      BY <1>t, <3>1 DEF Moved, TypeOK
    <3>2. CASE Over(r)
      BY <1>t, <3>2, OneMoves
    <3> QED BY <1>3, <3>1, <3>2 DEF SwapOut
  <2>3. KindsFit'
    BY <1>t, <2>1 DEF KindsFit, At, Rotating, Swapping
  <2>4. UnitsAreAlone'
    BY <1>t, <2>1 DEF KindsFit, UnitsAreAlone, At, InUnit, Rotating, Swapping
  <2>5. \A q \in Requests \ {r} : ~At(q, "swapIn")
    BY <1>t, <2>1 DEF KindsFit, UnitsAreAlone, At, InUnit, Rotating, Swapping
  <2>6. UnitsHoldTrees'
    BY <1>t, <2>1, <2>2, <2>5 DEF UnitsHoldTrees, At, Rotating
  <2> QED BY <2>3, <2>4, <2>6 DEF Units
<1>4. CASE SwapIn(r) \/ SwapBack(r)
  <2>1. /\ op[r].pc \in {"swapIn", "swapBack"} /\ Goes("swapBack")
        /\ \A q \in Requests \ {r} : op'[q] = op[q]
    BY <1>4, <1>t, OneMoves DEF SwapIn, SwapBack, At
  <2>2. KindsFit'
    BY <1>t, <2>1 DEF KindsFit, At, Rotating, Swapping
  <2>3. UnitsAreAlone'
    BY <1>t, <2>1 DEF KindsFit, UnitsAreAlone, At, InUnit, Rotating, Swapping
  <2>4. \A q \in Requests \ {r} : ~At(q, "swapIn")
    BY <1>t, <2>1 DEF KindsFit, UnitsAreAlone, At, InUnit, Rotating, Swapping
  <2>5. UnitsHoldTrees'
    BY <1>t, <2>1, <2>4 DEF UnitsHoldTrees, At, Rotating
  <2> QED BY <2>2, <2>3, <2>5 DEF Units
<1> QED BY <1>1, <1>2, <1>3, <1>4 DEF Revert

LEMMA RevertKeepsServed ==
    ASSUME PublishingAssumption, IInv, NEW r \in Requests, Revert(r)
    PROVE  SomethingIsServed'
<1>t. /\ TypeOK /\ KindsFit /\ UnitsAreAlone /\ UnitsHoldTrees /\ SomethingIsServed
      /\ \A path \in Paths : path \in DOMAIN disk
  BY DEF IInv, TypeOK, Paths
<1>1. CASE PreflightRevert(r) \/ StartRevert(r)
  <2>1. /\ op[r].pc \in {"check", "begin"} /\ op'[r].pc # "done"
        /\ \A q \in Requests \ {r} : op'[q] = op[q]
    BY <1>1, <1>t, OneMoves, StartRevertMoves DEF PreflightRevert, At
  <2>2. UNCHANGED <<status, disk>> /\ happened \subseteq happened'
    BY <1>1 DEF PreflightRevert, StartRevert, Enter, Note
  <2>3. Shown' => Shown
    BY <2>1, <2>2 DEF Shown, At
  <2> QED BY <1>t, <2>1, <2>2, <2>3, ServedStays
<1>2. CASE SwapOut(r)
  <2>1. At(r, "swapOut") /\ op'[r].pc # "done" /\ \A q \in Requests \ {r} : op'[q] = op[q]
    BY <1>2, <1>t, OneMoves DEF SwapOut
  <2>2. UNCHANGED <<status, happened>>
    BY <1>2 DEF SwapOut
  <2>3. Shown' => Shown
    BY <2>1, <2>2 DEF Shown, At
  <2>4. CASE UNCHANGED disk
    <3>1. \A q \in Requests : op[q].pc \in {"swapIn", "place"} => op'[q] = op[q]
      BY <2>1 DEF At
    <3> QED BY <1>t, <2>2, <2>3, <2>4, <3>1, ServedStays
  <2>5. CASE Goto(r, "swapIn")
    <3>1. op'[r].pc = "swapIn"
      BY <1>t, <2>5, OneMoves
    <3> QED BY <3>1 DEF SomethingIsServed, At
  <2> QED BY <1>2, <2>4, <2>5 DEF SwapOut
<1>3. CASE SwapIn(r)
  <2>1. disk.swap # None
    BY <1>3, <1>t DEF SwapIn, UnitsHoldTrees
  <2>3. CASE disk.live = None /\ Leaves(r)
    <3>1. "dark" \in happened'
      BY <1>3, <2>3 DEF SwapIn, Leaves, LeftAside
    <3> QED BY <3>1 DEF SomethingIsServed
  <2>2. ASSUME ~(disk.live = None /\ Leaves(r)) PROVE disk'.live # None
    <3>1. CASE disk' = Moved("prev", "live") /\ CanMove("prev", "live")
      BY <1>t, <3>1 DEF Moved, CanMove, TypeOK
    <3>2. CASE disk' = (IF disk.live = None THEN Moved("swap", "live") ELSE [disk EXCEPT !.swap = None])
      BY <1>t, <2>1, <3>2 DEF Moved, TypeOK
    <3> QED BY <1>3, <2>2, <3>1, <3>2 DEF SwapIn
  <2> QED BY <2>2, <2>3 DEF SomethingIsServed
<1>4. CASE SwapBack(r)
  <2>1. At(r, "swapBack") /\ op'[r].pc = "over" /\ \A q \in Requests \ {r} : op'[q] = op[q]
    BY <1>4, <1>t, OneMoves DEF SwapBack
  <2>2. UNCHANGED <<status, happened>>
    BY <1>4 DEF SwapBack
  <2>3. Shown' => Shown
    BY <2>1, <2>2 DEF Shown, At
  <2>4. disk'.live = disk.live /\ (disk.prev # None => disk'.prev # None)
    BY <1>4, <1>t DEF SwapBack, Moved, TypeOK
  <2> QED BY <1>t, <2>1, <2>2, <2>3, <2>4 DEF SomethingIsServed, At
<1> QED BY <1>1, <1>2, <1>3, <1>4 DEF Revert

LEMMA KillKeepsUnits ==
    ASSUME PublishingAssumption, IInv, NEW r \in Requests, Kill(r)
    PROVE  Units' /\ SomethingIsServed'
<1>t. /\ TypeOK /\ KindsFit /\ UnitsAreAlone /\ UnitsHoldTrees /\ SomethingIsServed
      /\ \A path \in Paths : path \in DOMAIN disk
  BY DEF IInv, TypeOK, Paths
<1>1. /\ InUnit(r) /\ \A q \in Requests \ {r} : op'[q] = op[q]
      /\ op'[r].pc = "over" \/ (op'[r].pc = "release" /\ op'[r].kind = op[r].kind /\ op[r].kind = "publish")
  <2>1. CASE op[r].kind = "publish"
    BY <1>t, <2>1, OneMoves DEF Kill
  <2>2. CASE op[r].kind # "publish"
    BY <1>t, <2>2, OneMoves DEF Kill
  <2> QED BY <2>1, <2>2
<1>2. KindsFit'
  BY <1>t, <1>1 DEF KindsFit, Rotating, Swapping
<1>3. UnitsAreAlone'
  BY <1>t, <1>1 DEF UnitsAreAlone, InUnit, Rotating, Swapping
<1>4. \A q \in Requests \ {r} : At(q, "swapIn") => disk'.swap = disk.swap
  BY <1>t, <1>1 DEF Kill, KindsFit, UnitsAreAlone, InUnit, At, Swapping, Rotating
<1>5. UnitsHoldTrees'
  BY <1>t, <1>1, <1>4 DEF UnitsHoldTrees, At, Rotating
<1>6. disk'.live = disk.live /\ disk'.prev = disk.prev /\ UNCHANGED status
  BY <1>t DEF Kill, TypeOK
<1>7. /\ happened \subseteq happened'
      /\ disk.live = None /\ LeftAside(r) => "dark" \in happened'
  BY DEF Kill, Leaves
<1>8. SomethingIsServed'
  <2>1. Shown' => Shown
    BY <1>1, <1>6 DEF Shown, At
  <2> QED BY <1>t, <1>1, <1>6, <1>7, <2>1 DEF SomethingIsServed, LeftAside, At
<1> QED BY <1>2, <1>3, <1>5, <1>8 DEF Units

LEMMA CrashKeepsUnits ==
    ASSUME PublishingAssumption, IInv, ServerCrash
    PROVE  Units' /\ SomethingIsServed'
<1>t. /\ TypeOK /\ KindsFit /\ UnitsAreAlone /\ UnitsHoldTrees /\ SomethingIsServed
      /\ \A path \in Paths : path \in DOMAIN disk
  BY DEF IInv, TypeOK, Paths
<1>1. ASSUME NEW q \in Requests
      PROVE  \/ op'[q].pc = "over"
             \/ /\ op'[q].pc = op[q].pc /\ op'[q].kind = op[q].kind
                /\ op'[q].tree = op[q].tree /\ op'[q].had = op[q].had
                /\ InUnit(q) \/ At(q, "free")
  <2>1. op[q] \in OpRecords
    BY <1>t DEF TypeOK
  <2>2. CASE InUnit(q)
    <3>1. op'[q] = [op[q] EXCEPT !.heard = FALSE]
      BY <2>2 DEF ServerCrash
    <3> QED BY <2>1, <2>2, <3>1 DEF OpRecords
  <2>3. CASE ~InUnit(q) /\ ~At(q, "free")
    BY <2>3 DEF ServerCrash, Idle
  <2>4. CASE At(q, "free")
    <3>1. ~InUnit(q)
      BY <2>4 DEF InUnit, At, Rotating, Swapping
    <3> QED BY <2>4, <3>1 DEF ServerCrash
  <2> QED BY <2>2, <2>3, <2>4
<1>2. KindsFit' /\ UnitsHoldTrees'
  BY <1>t, <1>1 DEF ServerCrash, KindsFit, UnitsHoldTrees, At, Rotating, Swapping
<1>3. UnitsAreAlone'
  BY <1>t, <1>1 DEF UnitsAreAlone, InUnit, Rotating, Swapping
<1>4. Shown' => Shown
  BY <1>1 DEF ServerCrash, Shown, At
<1>5. \A q \in Requests : op[q].pc \in {"swapIn", "place"} =>
         op'[q].pc = op[q].pc /\ op'[q].had = op[q].had
  <2>1. ASSUME NEW q \in Requests, op[q].pc \in {"swapIn", "place"}
        PROVE  op'[q].pc = op[q].pc /\ op'[q].had = op[q].had
    <3>1. InUnit(q)
      BY <2>1 DEF InUnit, Rotating, Swapping
    <3>2. op'[q] = [op[q] EXCEPT !.heard = FALSE]
      BY <3>1 DEF ServerCrash
    <3> QED BY <1>t, <3>2 DEF TypeOK, OpRecords
  <2> QED BY <2>1
<1>6. SomethingIsServed'
  BY <1>t, <1>4, <1>5, ServedStays DEF ServerCrash, Note
<1> QED BY <1>2, <1>3, <1>6 DEF Units

LEMMA OthersKeepUnits ==
    ASSUME PublishingAssumption, IInv, Building \/ \E r \in Requests : Pressing(r)
    PROVE  Units' /\ SomethingIsServed'
<1>t. /\ TypeOK /\ KindsFit /\ UnitsAreAlone /\ UnitsHoldTrees /\ SomethingIsServed
  BY DEF IInv
<1>1. CASE Building
  <2>1. UNCHANGED <<op, status>> /\ happened \subseteq happened'
    BY <1>1 DEF Building, AskSession, InsertSession, CloseSession, TurnStarts, TurnScoped,
       HarvestAside, HarvestPlace, TurnOver, TurnTold, Note
  <2>2. disk'.live = disk.live /\ disk'.prev = disk.prev /\ disk'.swap = disk.swap
    BY <1>1, <1>t DEF Building, AskSession, InsertSession, CloseSession, TurnStarts, TurnScoped,
       HarvestAside, HarvestPlace, TurnOver, TurnTold, TypeOK
  <2>3. Units'
    BY <1>t, <2>1, <2>2 DEF Units, KindsFit, UnitsAreAlone, UnitsHoldTrees, InUnit, At
  <2>4. SomethingIsServed'
    BY <1>t, <2>1, <2>2 DEF SomethingIsServed, Shown, At
  <2> QED BY <2>3, <2>4
<1>2. ASSUME NEW r \in Requests, Pressing(r) PROVE Units' /\ SomethingIsServed'
  <2>1. /\ At(r, "free") /\ UNCHANGED <<status, disk, happened>>
        /\ \A q \in Requests \ {r} : op'[q] = op[q]
        /\ \/ op'[r].kind = "publish" /\ op'[r].pc = "claim"
           \/ op'[r].kind = "revert" /\ op'[r].pc = "check"
    <3>1. op[r] \in OpRecords
      BY <1>t DEF TypeOK
    <3>2. ASSUME NEW s \in Sessions, Press(r, s) PROVE <2>1
      BY <1>t, <3>1, <3>2 DEF Press, Ready, TypeOK, OpRecords
    <3>3. ASSUME PressRevert(r) PROVE <2>1
      BY <1>t, <3>1, <3>3 DEF PressRevert, Ready, TypeOK, OpRecords
    <3> QED BY <1>2, <3>2, <3>3 DEF Pressing
  <2>2. KindsFit' /\ UnitsHoldTrees'
    BY <1>t, <2>1 DEF KindsFit, UnitsHoldTrees, At, Rotating, Swapping
  <2>3. UnitsAreAlone'
    BY <1>t, <2>1 DEF UnitsAreAlone, InUnit, Rotating, Swapping
  <2>4. Shown' => Shown
    BY <2>1 DEF Shown, At
  <2>5. \A q \in Requests : op[q].pc \in {"swapIn", "place"} =>
           op'[q].pc = op[q].pc /\ op'[q].had = op[q].had
    BY <2>1 DEF At
  <2>6. SomethingIsServed'
    BY <1>t, <2>1, <2>4, <2>5, ServedStays
  <2> QED BY <2>2, <2>3, <2>6 DEF Units
<1> QED BY <1>1, <1>2

LEMMA PublishingInvariance == ASSUME PublishingAssumption PROVE Spec => []IInv
<1>1. ASSUME Init PROVE IInv
  <2>1. \A r \in Requests : op[r].pc = "free"
    BY <1>1 DEF Init, Free, Idle
  <2>2. KindsFit /\ UnitsAreAlone /\ UnitsHoldTrees
    BY <2>1 DEF KindsFit, UnitsAreAlone, UnitsHoldTrees, InUnit, At, Rotating, Swapping
  <2>3. SomethingIsServed
    <3>1. status = "live" => disk.live # None
      <4>1. \/ status = "draft"
            \/ status = "live" /\ disk = [NoTrees EXCEPT !.preview = 2, !.live = 2, !.prev = 1]
        BY <1>1 DEF Init
      <4>2. [NoTrees EXCEPT !.preview = 2, !.live = 2, !.prev = 1].live = 2
        BY DEF NoTrees
      <4>3. status = "live" => disk.live = 2
        BY <4>1, <4>2, Zenon
      <4> QED BY <4>3 DEF None
    <3>2. \A r \in Requests : ~At(r, "done")
      BY <2>1 DEF At
    <3> QED BY <3>1, <3>2 DEF SomethingIsServed, Shown
  <2> QED BY <1>1, <2>2, <2>3, InitIsTyped DEF IInv
<1>2. ASSUME IInv, [Next]_vars PROVE IInv'
  <2>1. CASE UNCHANGED vars
    BY <1>2, <2>1 DEF IInv, vars, TypeOK, KindsFit, UnitsAreAlone, UnitsHoldTrees, SomethingIsServed,
       Shown, InUnit, At
  <2>2. CASE Next
    <3>1. TypeOK'
      BY <1>2, <2>2, BuildingIsTyped, PublishIsTyped, RevertIsTyped, PressingIsTyped, KillIsTyped,
         CrashIsTyped DEF Next, Building, Pressing, IInv
    <3>2. Units' /\ SomethingIsServed'
      <4>1. ASSUME NEW r \in Requests, Publish(r) PROVE Units' /\ SomethingIsServed'
        BY <1>2, <4>1, PublishKeepsUnits, PublishKeepsServed
      <4>2. ASSUME NEW r \in Requests, Revert(r) PROVE Units' /\ SomethingIsServed'
        BY <1>2, <4>2, RevertKeepsUnits, RevertKeepsServed
      <4>3. ASSUME NEW r \in Requests, Kill(r) \/ Pressing(r) PROVE Units' /\ SomethingIsServed'
        BY <1>2, <4>3, KillKeepsUnits, OthersKeepUnits
      <4>4. CASE ServerCrash
        BY <1>2, <4>4, CrashKeepsUnits
      <4>5. CASE Building
        BY <1>2, <4>5, OthersKeepUnits
      <4> QED BY <2>2, <4>1, <4>2, <4>3, <4>4, <4>5 DEF Next, Building, Pressing
    <3> QED BY <3>1, <3>2 DEF IInv, Units
  <2> QED BY <1>2, <2>1, <2>2
<1> QED BY <1>1, <1>2, PTL DEF Spec

(* An app that went live stays served through failed renames and removals  *)
(* and refused or abandoned requests; only a unit that is killed between   *)
(* its two renames, or whose rename back fails as well, leaves nothing at  *)
(* live.                                                                   *)
THEOREM AppsStayServed == ASSUME PublishingAssumption PROVE Spec => []LiveIsServed
<1>1. IInv => LiveIsServed
  BY DEF IInv, SomethingIsServed, Shown, LiveIsServed, At
<1> QED BY <1>1, PublishingInvariance, PTL

-----------------------------------------------------------------------------
(* Where Revert reaches *)

(* With the other presses out of their units, what one press leaves is all *)
(* there is to show.                                                       *)
LEMMA OneUnitMoves ==
    ASSUME NEW r \in Requests,
           \A q \in Requests \ {r} : op'[q] = op[q] /\ ~InUnit(q),
           InUnit(r)' => WhereTreesAre(r)', ~InUnit(r)' => InStep'
    PROVE  OneUnit'
<1>1. \A q \in Requests \ {r} : ~InUnit(q)'
  BY DEF InUnit
<1> QED BY <1>1 DEF OneUnit

(* A step that leaves the units where they are and live and live.prev alone. *)
LEMMA OneUnitStays ==
    ASSUME OneUnit, UNCHANGED told,
           disk'.live = disk.live, disk'.prev = disk.prev, disk'.swap = disk.swap,
           \A q \in Requests : \/ ~InUnit(q) /\ ~InUnit(q)'
                               \/ op'[q].pc = op[q].pc /\ op'[q].had = op[q].had
    PROVE  OneUnit'
<1>1. \A q \in Requests : InUnit(q)' <=> InUnit(q)
  BY DEF InUnit
<1>2. ASSUME NEW q \in Requests, InUnit(q)' PROVE WhereTreesAre(q)'
  <2>1. op'[q].pc = op[q].pc /\ op'[q].had = op[q].had /\ WhereTreesAre(q)
    BY <1>1, <1>2 DEF OneUnit
  <2> QED BY <2>1 DEF WhereTreesAre, InStep, At
<1> QED BY <1>1, <1>2 DEF OneUnit, InStep

LEMMA TreesMove ==
    ASSUME TypeOK, NEW from \in Paths, NEW to \in Paths, from # to, disk' = Moved(from, to)
    PROVE  /\ disk'[from] = None /\ disk'[to] = disk[from]
           /\ \A path \in Paths \ {from, to} : disk'[path] = disk[path]
<1> QED BY DEF TypeOK, Moved, Paths

(* A unit that ends where it is leaves what its outcome says.              *)
LEMMA LeavingIsExact ==
    ASSUME TypeOK, NEW r \in Requests, InUnit(r), WhereTreesAre(r), Leaves(r),
           disk'.live = disk.live, disk'.prev = disk.prev
    PROVE  InStep'
<1>t. told = [live |-> told.live, prev |-> told.prev]
  BY DEF TypeOK
<1>1. CASE op[r].pc \in {"copying", "clear", "look", "aside", "swapOut"}
  <2>1. told' = told
    BY <1>1 DEF Leaves, At
  <2> QED BY <1>1, <2>1 DEF WhereTreesAre, InStep
<1>2. CASE At(r, "clearing")
  <2>1. told' = [told EXCEPT !.prev = Torn]
    BY <1>2 DEF Leaves, At
  <2> QED BY <1>t, <1>2, <2>1 DEF WhereTreesAre, InStep
<1>3. CASE At(r, "place")
  <2>1. told' = [live |-> None, prev |-> told.live]
    BY <1>3 DEF Leaves, At
  <2> QED BY <1>3, <2>1 DEF WhereTreesAre, InStep
<1>4. CASE At(r, "swapIn")
  <2>1. told' = [told EXCEPT !.live = None]
    BY <1>4 DEF Leaves, At
  <2> QED BY <1>t, <1>4, <2>1 DEF WhereTreesAre, InStep
<1>5. CASE At(r, "swapBack")
  <2>1. told' = [told EXCEPT !.prev = None]
    BY <1>5 DEF Leaves, At
  <2> QED BY <1>t, <1>5, <2>1 DEF WhereTreesAre, InStep
<1> QED BY <1>1, <1>2, <1>3, <1>4, <1>5 DEF InUnit, At, Rotating, Swapping

LEMMA PublishStaysExact ==
    ASSUME PublishingAssumption, IInv, Exact, NEW r \in Requests, Publish(r)
    PROVE  Exact'
<1>t. TypeOK /\ \A path \in Paths : path \in DOMAIN disk
  BY DEF IInv, TypeOK, Paths
<1> SUFFICES ASSUME Calm' PROVE OneUnit'
  BY DEF Exact
<1>1. CASE Claim(r) \/ Preflight(r) \/ Done(r) \/ Release(r)
  <2>1. /\ op[r].pc \in {"claim", "preflight", "done", "release"}
        /\ op'[r].pc \in {"preflight", "start", "release", "over"}
        /\ \A q \in Requests \ {r} : op'[q] = op[q]
    BY <1>1, <1>t, OneMoves DEF Claim, Preflight, Done, Release, At
  <2>2. UNCHANGED <<disk, told>> /\ Calm
    BY <1>1 DEF Claim, Preflight, Done, Release, Calm, Note
  <2>3. \A q \in Requests : \/ ~InUnit(q) /\ ~InUnit(q)'
                            \/ op'[q].pc = op[q].pc /\ op'[q].had = op[q].had
    BY <2>1 DEF InUnit, Rotating, Swapping
  <2> QED BY <2>2, <2>3, OneUnitStays DEF Exact
<1>2. CASE Start(r)
  <2>1. At(r, "start") /\ UNCHANGED <<disk, told>> /\ Calm
    BY <1>2 DEF Start, Enter, Calm, Note
  <2>2. CASE NameIsFree(r) /\ disk.preview # None
    <3>1. Enter(r, "copying", disk.preview)
      BY <1>2, <2>2 DEF Start
    <3>2. op'[r].pc = "copying" /\ \A q \in Requests \ {r} : op'[q] = op[q]
      BY <1>t, <3>1, OneWrites
    <3>3. \A q \in Requests \ {r} : ~InUnit(q)
      BY <2>2, <3>1 DEF Enter, Overlap, NameIsFree, Note, Calm
    <3>4. InStep
      BY <2>1, <3>3 DEF Exact, OneUnit, InUnit, At, Rotating, Swapping
    <3> QED BY <2>1, <3>2, <3>3, <3>4, OneUnitMoves
        DEF WhereTreesAre, InStep, InUnit, At, Rotating, Swapping
  <2>3. CASE ~(NameIsFree(r) /\ disk.preview # None)
    <3>1. op'[r].pc = "release" /\ \A q \in Requests \ {r} : op'[q] = op[q]
      BY <1>2, <1>t, <2>3, OneMoves DEF Start
    <3>2. \A q \in Requests : \/ ~InUnit(q) /\ ~InUnit(q)'
                              \/ op'[q].pc = op[q].pc /\ op'[q].had = op[q].had
      BY <2>1, <3>1 DEF InUnit, At, Rotating, Swapping
    <3> QED BY <2>1, <3>2, OneUnitStays DEF Exact
  <2> QED BY <2>2, <2>3
<1>3. ASSUME Copy(r) \/ Clear(r) \/ Cleared(r) \/ Look(r) \/ Aside(r) \/ Place(r)
      PROVE  OneUnit'
  <2>1. InUnit(r)
    BY <1>3 DEF Copy, Clear, Cleared, Look, Aside, Place, InUnit, At, Rotating, Swapping
  <2>2. happened \subseteq happened'
    BY <1>3 DEF Copy, Clear, Cleared, Look, Aside, Place, Leaves
  <2>3. WhereTreesAre(r) /\ \A q \in Requests \ {r} : ~InUnit(q)
    BY <2>1, <2>2 DEF Exact, OneUnit, Calm
  <2>4. CASE Copy(r)
    <3>1. /\ At(r, "copying") /\ op'[r].pc \in {"clear", "release"}
          /\ \A q \in Requests \ {r} : op'[q] = op[q]
      BY <1>t, <2>4, OneMoves, OneWrites DEF Copy
    <3>2. UNCHANGED <<disk, told>>
      BY <2>4 DEF Copy
    <3> QED BY <2>3, <3>1, <3>2, OneUnitMoves
        DEF WhereTreesAre, InStep, InUnit, At, Rotating, Swapping
  <2>5. CASE Clear(r)
    <3>1. /\ At(r, "clear") /\ \A q \in Requests \ {r} : op'[q] = op[q]
          /\ \/ op'[r].pc = "look" /\ disk.prev = None /\ UNCHANGED disk
             \/ op'[r].pc = "clearing" /\ disk' = [disk EXCEPT !.prev = Torn]
             \/ op'[r].pc = "release" /\ UNCHANGED disk
      BY <1>t, <2>5, OneMoves DEF Clear
    <3>2. /\ UNCHANGED told /\ disk'.live = disk.live
          /\ op'[r].pc = "clearing" => disk'.prev = Torn
      BY <1>t, <2>5, <3>1 DEF Clear, Paths
    <3> QED BY <2>3, <3>1, <3>2, OneUnitMoves
        DEF WhereTreesAre, InStep, InUnit, At, Rotating, Swapping
  <2>6. CASE Cleared(r)
    <3>1. At(r, "clearing") /\ disk.prev = Torn
      BY <2>3, <2>6 DEF Cleared, WhereTreesAre
    <3>2. CASE disk' = [disk EXCEPT !.prev = None] /\ told' = [told EXCEPT !.prev = None] /\ Goto(r, "look")
      <4>1. op'[r].pc = "look" /\ \A q \in Requests \ {r} : op'[q] = op[q]
        BY <1>t, <3>2, OneMoves
      <4>2. /\ told'.live = told.live /\ told'.prev = None
            /\ disk'.live = disk.live /\ disk'.prev = None
        BY <1>t, <3>2 DEF Paths, TypeOK
      <4> QED BY <2>3, <3>1, <4>1, <4>2, OneUnitMoves
          DEF WhereTreesAre, InStep, InUnit, At, Rotating, Swapping
    <3>3. CASE Leaves(r) /\ UNCHANGED disk /\ Goto(r, "release")
      <4>1. op'[r].pc = "release" /\ \A q \in Requests \ {r} : op'[q] = op[q]
        BY <1>t, <3>3, OneMoves
      <4>2. InStep'
        BY <1>t, <2>1, <2>3, <3>3, LeavingIsExact
      <4> QED BY <2>3, <4>1, <4>2, OneUnitMoves DEF InUnit, Rotating, Swapping
    <3> QED BY <2>6, <3>1, <3>2, <3>3 DEF Cleared
  <2>7. CASE Look(r)
    <3>1. /\ At(r, "look") /\ op'[r].pc = (IF disk.live # None THEN "aside" ELSE "place")
          /\ \A q \in Requests \ {r} : op'[q] = op[q]
      BY <1>t, <2>7, OneWrites DEF Look
    <3>2. UNCHANGED <<disk, told>>
      BY <2>7 DEF Look
    <3> QED BY <2>3, <3>1, <3>2, OneUnitMoves
        DEF WhereTreesAre, InStep, InUnit, At, Rotating, Swapping
  <2>8. CASE Aside(r)
    <3>1. At(r, "aside") /\ UNCHANGED told
      BY <2>8 DEF Aside
    <3>2. CASE disk' = Moved("live", "prev") /\ Goto(r, "place")
      <4>1. op'[r].pc = "place" /\ op'[r].had = op[r].had /\ \A q \in Requests \ {r} : op'[q] = op[q]
        BY <1>t, <3>2, OneMoves
      <4>2. disk'.live = None /\ disk'.prev = disk.live
        BY <1>t, <3>2, TreesMove DEF Paths
      <4>3. op[r].had
        BY <3>1 DEF IInv, UnitsHoldTrees
      <4> QED BY <2>3, <3>1, <4>1, <4>2, <4>3, OneUnitMoves
          DEF WhereTreesAre, InStep, InUnit, At, Rotating, Swapping
    <3>3. CASE UNCHANGED disk /\ Goto(r, "release")
      <4>1. op'[r].pc = "release" /\ \A q \in Requests \ {r} : op'[q] = op[q]
        BY <1>t, <3>3, OneMoves
      <4> QED BY <2>3, <3>1, <3>3, <4>1, OneUnitMoves
          DEF WhereTreesAre, InStep, InUnit, At, Rotating, Swapping
    <3> QED BY <2>8, <3>2, <3>3 DEF Aside
  <2>9. CASE Place(r)
    <3>1. At(r, "place") /\ disk.live = None /\ disk.prev = told.live
          /\ (~op[r].had => disk.prev = None) /\ told.prev = None
      BY <2>3, <2>9 DEF Place, WhereTreesAre, At
    <3>2. CASE disk' = [disk EXCEPT !.live = op[r].tree] /\ Serve(op[r].tree, told.live) /\ Goto(r, "done")
      <4>1. op'[r].pc = "done" /\ \A q \in Requests \ {r} : op'[q] = op[q]
        BY <1>t, <3>2, OneMoves
      <4>2. InStep'
        BY <1>t, <3>1, <3>2 DEF Serve, InStep, Paths
      <4> QED BY <2>3, <4>1, <4>2, OneUnitMoves DEF InUnit
    <3>3. CASE disk' = PutBack(r) /\ UNCHANGED told /\ Goto(r, "release")
      <4>1. op'[r].pc = "release" /\ \A q \in Requests \ {r} : op'[q] = op[q]
        BY <1>t, <3>3, OneMoves
      <4>2. InStep'
        <5>1. CASE disk.prev = None
          BY <3>1, <3>3, <5>1 DEF PutBack, CanMove, InStep
        <5>2. CASE disk.prev # None
          <6>1. disk' = Moved("prev", "live")
            BY <3>1, <3>3, <5>2 DEF PutBack, CanMove
          <6>2. disk'.prev = None /\ disk'.live = disk.prev
            BY <1>t, <6>1, TreesMove DEF Paths
          <6> QED BY <3>1, <3>3, <6>2 DEF InStep
        <5> QED BY <5>1, <5>2
      <4> QED BY <2>3, <4>1, <4>2, OneUnitMoves DEF InUnit, Rotating, Swapping
    <3>4. CASE Leaves(r) /\ UNCHANGED disk /\ Goto(r, "release")
      <4>1. op'[r].pc = "release" /\ \A q \in Requests \ {r} : op'[q] = op[q]
        BY <1>t, <3>4, OneMoves
      <4>2. InStep'
        BY <1>t, <2>1, <2>3, <3>4, LeavingIsExact
      <4> QED BY <2>3, <4>1, <4>2, OneUnitMoves DEF InUnit, Rotating, Swapping
    <3> QED BY <2>9, <3>2, <3>3, <3>4 DEF Place
  <2> QED BY <1>3, <2>4, <2>5, <2>6, <2>7, <2>8, <2>9
<1> QED BY <1>1, <1>2, <1>3 DEF Publish

LEMMA RevertStaysExact ==
    ASSUME PublishingAssumption, IInv, Exact, NEW r \in Requests, Revert(r)
    PROVE  Exact'
<1>t. TypeOK /\ \A path \in Paths : path \in DOMAIN disk
  BY DEF IInv, TypeOK, Paths
<1> SUFFICES ASSUME Calm' PROVE OneUnit'
  BY DEF Exact
<1>1. CASE PreflightRevert(r)
  <2>1. /\ At(r, "check") /\ op'[r].pc \in {"begin", "over"}
        /\ \A q \in Requests \ {r} : op'[q] = op[q]
    BY <1>1, <1>t, OneMoves DEF PreflightRevert
  <2>2. UNCHANGED <<disk, told>> /\ Calm
    BY <1>1 DEF PreflightRevert, Calm
  <2>3. \A q \in Requests : \/ ~InUnit(q) /\ ~InUnit(q)'
                            \/ op'[q].pc = op[q].pc /\ op'[q].had = op[q].had
    BY <2>1 DEF InUnit, At, Rotating, Swapping
  <2> QED BY <2>2, <2>3, OneUnitStays DEF Exact
<1>2. CASE StartRevert(r)
  <2>1. /\ At(r, "begin") /\ \A q \in Requests \ {r} : op'[q] = op[q]
        /\ \/ op'[r].pc = "over"
           \/ op'[r].pc = "swapOut" /\ NameIsFree(r) /\ Both /\ Enter(r, "swapOut", None)
    BY <1>2, <1>t, StartRevertMoves
  <2>2. UNCHANGED <<disk, told>> /\ Calm
    BY <1>2 DEF StartRevert, Enter, Calm, Note
  <2>3. CASE op'[r].pc = "over"
    <3>1. \A q \in Requests : \/ ~InUnit(q) /\ ~InUnit(q)'
                              \/ op'[q].pc = op[q].pc /\ op'[q].had = op[q].had
      BY <2>1, <2>3 DEF InUnit, At, Rotating, Swapping
    <3> QED BY <2>2, <3>1, OneUnitStays DEF Exact
  <2>4. CASE op'[r].pc = "swapOut" /\ NameIsFree(r) /\ Both /\ Enter(r, "swapOut", None)
    <3>1. \A q \in Requests \ {r} : ~InUnit(q)
      BY <2>4 DEF Enter, Overlap, NameIsFree, Note, Calm
    <3>2. InStep
      BY <2>1, <2>2, <3>1 DEF Exact, OneUnit, InUnit, At, Rotating, Swapping
    <3> QED BY <2>1, <2>2, <2>4, <3>1, <3>2, OneUnitMoves
        DEF WhereTreesAre, InStep, Both, InUnit, At, Rotating, Swapping
  <2> QED BY <2>1, <2>3, <2>4
<1>3. ASSUME SwapOut(r) \/ SwapIn(r) \/ SwapBack(r) PROVE OneUnit'
  <2>1. InUnit(r)
    BY <1>3 DEF SwapOut, SwapIn, SwapBack, InUnit, At, Rotating, Swapping
  <2>2. happened \subseteq happened'
    BY <1>3 DEF SwapOut, SwapIn, SwapBack, Leaves
  <2>3. WhereTreesAre(r) /\ \A q \in Requests \ {r} : ~InUnit(q)
    BY <2>1, <2>2 DEF Exact, OneUnit, Calm
  <2>4. \A q \in Requests \ {r} : op'[q] = op[q]
    BY <1>3, <1>t, OneMoves DEF SwapOut, SwapIn, SwapBack
  <2>5. CASE SwapOut(r)
    <3>1. At(r, "swapOut") /\ UNCHANGED told
      BY <2>5 DEF SwapOut
    <3>2. CASE disk' = Moved("live", "swap") /\ Goto(r, "swapIn")
      <4>1. op'[r].pc = "swapIn"
        BY <1>t, <3>2, OneMoves
      <4>2. disk'.live = None /\ disk'.swap = disk.live /\ disk'.prev = disk.prev
        BY <1>t, <3>2, TreesMove DEF Paths
      <4> QED BY <2>3, <2>4, <3>1, <4>1, <4>2, OneUnitMoves
          DEF WhereTreesAre, InStep, InUnit, At, Rotating, Swapping
    <3>3. CASE UNCHANGED disk /\ Over(r)
      <4>1. op'[r].pc = "over"
        BY <1>t, <3>3, OneMoves
      <4> QED BY <2>3, <2>4, <3>1, <3>3, <4>1, OneUnitMoves
          DEF WhereTreesAre, InStep, InUnit, At, Rotating, Swapping
    <3> QED BY <2>5, <3>2, <3>3 DEF SwapOut
  <2>6. CASE SwapIn(r)
    <3>1. /\ At(r, "swapIn") /\ disk.live = None /\ disk.swap = told.live
          /\ disk.prev = told.prev /\ disk.prev # None
      BY <2>3, <2>6 DEF SwapIn, WhereTreesAre, At
    <3>2. CASE disk' = Moved("prev", "live") /\ Serve(told.prev, told.live) /\ Goto(r, "swapBack")
      <4>1. op'[r].pc = "swapBack"
        BY <1>t, <3>2, OneMoves
      <4>2. disk'.prev = None /\ disk'.live = disk.prev /\ disk'.swap = disk.swap
        BY <1>t, <3>2, TreesMove DEF Paths
      <4>3. told'.live = told.prev /\ told'.prev = told.live
        BY <3>2 DEF Serve
      <4> QED BY <2>3, <2>4, <3>1, <4>1, <4>2, <4>3, OneUnitMoves
          DEF WhereTreesAre, InStep, InUnit, At, Rotating, Swapping
    <3>3. CASE disk' = Moved("swap", "live") /\ UNCHANGED told /\ Over(r)
      <4>1. op'[r].pc = "over"
        BY <1>t, <3>3, OneMoves
      <4>2. disk'.live = disk.swap /\ disk'.prev = disk.prev
        BY <1>t, <3>3, TreesMove DEF Paths
      <4> QED BY <2>3, <2>4, <3>1, <3>3, <4>1, <4>2, OneUnitMoves
          DEF InStep, InUnit, Rotating, Swapping
    <3>4. CASE Leaves(r) /\ disk' = [disk EXCEPT !.swap = None] /\ Over(r)
      <4>1. op'[r].pc = "over"
        BY <1>t, <3>4, OneMoves
      <4>2. disk'.live = disk.live /\ disk'.prev = disk.prev
        BY <1>t, <3>4 DEF Paths
      <4>3. InStep'
        BY <1>t, <2>1, <2>3, <3>4, <4>2, LeavingIsExact
      <4> QED BY <2>3, <2>4, <4>1, <4>3, OneUnitMoves DEF InUnit, Rotating, Swapping
    <3> QED BY <2>6, <3>1, <3>2, <3>3, <3>4 DEF SwapIn
  <2>7. CASE SwapBack(r)
    <3>1. /\ At(r, "swapBack") /\ disk.live = told.live /\ disk.prev = None /\ disk.swap = told.prev
      BY <2>3, <2>7 DEF SwapBack, WhereTreesAre, At
    <3>2. op'[r].pc = "over"
      BY <1>t, <2>7, OneMoves DEF SwapBack
    <3>3. CASE disk' = Moved("swap", "prev") /\ UNCHANGED told
      <4>1. disk'.prev = disk.swap /\ disk'.live = disk.live
        BY <1>t, <3>3, TreesMove DEF Paths
      <4> QED BY <2>3, <2>4, <3>1, <3>2, <3>3, <4>1, OneUnitMoves
          DEF InStep, InUnit, Rotating, Swapping
    <3>4. CASE disk' = [disk EXCEPT !.swap = None] /\ told' = [told EXCEPT !.prev = None]
      <4>1. disk'.prev = disk.prev /\ disk'.live = disk.live
        BY <1>t, <3>4 DEF Paths
      <4>2. told'.live = told.live /\ told'.prev = None
        BY <1>t, <3>4 DEF TypeOK
      <4> QED BY <2>3, <2>4, <3>1, <3>2, <4>1, <4>2, OneUnitMoves
          DEF InStep, InUnit, Rotating, Swapping
    <3> QED BY <2>7, <3>3, <3>4 DEF SwapBack
  <2> QED BY <1>3, <2>5, <2>6, <2>7
<1> QED BY <1>1, <1>2, <1>3 DEF Revert

LEMMA OthersStayExact ==
    ASSUME PublishingAssumption, IInv, Exact,
           Building \/ (\E r \in Requests : Pressing(r) \/ Kill(r)) \/ ServerCrash
    PROVE  Exact'
<1>t. TypeOK /\ \A path \in Paths : path \in DOMAIN disk
  BY DEF IInv, TypeOK, Paths
<1> SUFFICES ASSUME Calm' PROVE OneUnit'
  BY DEF Exact
<1>1. CASE Building
  <2>1. UNCHANGED <<op, told>> /\ Calm
    BY <1>1 DEF Building, AskSession, InsertSession, CloseSession, TurnStarts, TurnScoped,
       HarvestAside, HarvestPlace, TurnOver, TurnTold, Note, Calm
  <2>2. disk'.live = disk.live /\ disk'.prev = disk.prev /\ disk'.swap = disk.swap
    BY <1>1, <1>t DEF Building, AskSession, InsertSession, CloseSession, TurnStarts, TurnScoped,
       HarvestAside, HarvestPlace, TurnOver, TurnTold, TypeOK
  <2> QED BY <2>1, <2>2, OneUnitStays DEF Exact
<1>2. ASSUME NEW r \in Requests, Pressing(r) PROVE OneUnit'
  <2>1. /\ op[r].pc = "free" /\ UNCHANGED <<disk, told, happened>>
        /\ \A q \in Requests \ {r} : op'[q] = op[q]
        /\ op'[r].pc \in {"claim", "check"}
    <3>1. op[r] \in OpRecords
      BY <1>t DEF TypeOK
    <3>2. ASSUME NEW s \in Sessions, Press(r, s) PROVE <2>1
      BY <1>t, <3>1, <3>2 DEF Press, Ready, At, TypeOK, OpRecords
    <3>3. ASSUME PressRevert(r) PROVE <2>1
      BY <1>t, <3>1, <3>3 DEF PressRevert, Ready, At, TypeOK, OpRecords
    <3> QED BY <1>2, <3>2, <3>3 DEF Pressing
  <2>2. \A q \in Requests : \/ ~InUnit(q) /\ ~InUnit(q)'
                            \/ op'[q].pc = op[q].pc /\ op'[q].had = op[q].had
    BY <2>1 DEF InUnit, Rotating, Swapping
  <2> QED BY <2>1, <2>2, OneUnitStays DEF Exact, Calm
<1>3. ASSUME NEW r \in Requests, Kill(r) PROVE OneUnit'
  <2>1. InUnit(r) /\ Leaves(r) /\ Calm
    BY <1>3 DEF Kill, Leaves, Calm
  <2>2. WhereTreesAre(r) /\ \A q \in Requests \ {r} : ~InUnit(q)
    BY <2>1 DEF Exact, OneUnit
  <2>3. disk'.live = disk.live /\ disk'.prev = disk.prev
    BY <1>3, <1>t DEF Kill, Paths
  <2>4. InStep'
    BY <1>t, <2>1, <2>2, <2>3, LeavingIsExact
  <2>5. op'[r].pc \in {"release", "over"} /\ \A q \in Requests \ {r} : op'[q] = op[q]
    BY <1>3, <1>t, OneMoves DEF Kill
  <2> QED BY <2>2, <2>4, <2>5, OneUnitMoves DEF InUnit, Rotating, Swapping
<1>4. CASE ServerCrash
  <2>1. ASSUME NEW q \in Requests
        PROVE  \/ ~InUnit(q) /\ ~InUnit(q)'
               \/ op'[q].pc = op[q].pc /\ op'[q].had = op[q].had
    <3>1. CASE InUnit(q)
      <4>1. op'[q] = [op[q] EXCEPT !.heard = FALSE]
        BY <1>4, <3>1 DEF ServerCrash
      <4> QED BY <1>t, <4>1 DEF TypeOK, OpRecords
    <3>2. CASE ~InUnit(q)
      <4>1. op'[q].pc = "over" \/ op'[q] = op[q]
        BY <1>4, <3>2 DEF ServerCrash, Idle
      <4> QED BY <3>2, <4>1 DEF InUnit, Rotating, Swapping
    <3> QED BY <3>1, <3>2
  <2>2. UNCHANGED <<disk, told>> /\ Calm
    BY <1>4 DEF ServerCrash, Note, Calm
  <2> QED BY <2>1, <2>2, OneUnitStays DEF Exact
<1> QED BY <1>1, <1>2, <1>3, <1>4

LEMMA ExactInvariance == ASSUME PublishingAssumption PROVE Spec => []Exact
<1>1. ASSUME Init PROVE Exact
  <2>1. \A r \in Requests : ~InUnit(r)
    BY <1>1 DEF Init, Free, Idle, InUnit, Rotating, Swapping
  <2>2. InStep
    BY <1>1 DEF Init, InStep
  <2> QED BY <2>1, <2>2 DEF Exact, OneUnit
<1>2. ASSUME IInv, Exact, [Next]_vars PROVE Exact'
  <2>1. CASE UNCHANGED vars
    BY <1>2, <2>1 DEF vars, Exact, OneUnit, Calm, WhereTreesAre, InStep, InUnit, At
  <2>2. CASE Next
    BY <1>2, <2>2, PublishStaysExact, RevertStaysExact, OthersStayExact DEF Next, Building, Pressing
  <2> QED BY <1>2, <2>1, <2>2
<1> QED BY <1>1, <1>2, PublishingInvariance, PTL DEF Spec

(* However many sessions of an app publish, and whatever fails or is       *)
(* killed, between operations live and live.prev hold what the operations  *)
(* that succeeded left there, and after a failure what Leaves says, unless *)
(* a publish met a revert.                                                 *)
THEOREM RevertFindsTheTreeBefore == ASSUME PublishingAssumption PROVE Spec => []RevertReachesBack
<1>1. Exact => RevertReachesBack
  BY DEF Exact, OneUnit, Calm, InStep, RevertReachesBack
<1> QED BY <1>1, ExactInvariance, PTL

-----------------------------------------------------------------------------
(* What is served is whole *)

LEMMA LeavingIsWhole ==
    ASSUME PublishingAssumption, TypeOK, NEW r \in Requests, Leaves(r), WholeTold, NotExcused'
    PROVE  WholeTold'
<1>t. told = [live |-> told.live, prev |-> told.prev] /\ None # Torn
  BY Constants DEF TypeOK, None
<1>1. ~At(r, "clearing")
  BY DEF Leaves, NotExcused
<1>2. \/ told' = told
      \/ told' = [live |-> None, prev |-> told.live]
      \/ told' = [told EXCEPT !.live = None]
      \/ told' = [told EXCEPT !.prev = None]
  BY <1>1 DEF Leaves
<1> QED BY <1>t, <1>2 DEF WholeTold

LEMMA PublishStaysWhole ==
    ASSUME PublishingAssumption, IInv, Whole, NEW r \in Requests, Publish(r)
    PROVE  Whole'
<1>t. TypeOK /\ \A path \in Paths : path \in DOMAIN disk
  BY DEF IInv, TypeOK, Paths
<1>p. disk'.preview = disk.preview /\ disk'.old = disk.old
  <2>1. CASE disk' = disk
    BY <2>1
  <2>2. CASE Clear(r) \/ Cleared(r)
    BY <1>t, <2>2 DEF Clear, Cleared, Paths
  <2>3. CASE Aside(r) \/ Place(r)
    <3>1. disk' \in {disk, Moved("live", "prev"), Moved("prev", "live"), [disk EXCEPT !.live = op[r].tree]}
      BY <2>3 DEF Aside, Place, PutBack
    <3> QED BY <1>t, <3>1, TreesMove DEF Paths
  <2> QED
    BY <2>1, <2>2, <2>3 DEF Publish, Claim, Preflight, Start, Copy, Look, Done, Release
<1>u. UNCHANGED turn /\ (NotExcused' => NotExcused)
  BY DEF Publish, Claim, Preflight, Start, Copy, Clear, Cleared, Look, Aside, Place, Done, Release,
     Enter, Note, Leaves, NotExcused
<1> SUFFICES ASSUME NotExcused' PROVE WholeCopies' /\ WholeTold'
  BY <1>p DEF Whole
<1>w. WholeCopies /\ WholeTold
  BY <1>u DEF Whole
<1> DEFINE Kept == \A q \in Requests \ {r} : op'[q] = op[q]
           Fits == /\ op'[r].pc \in {"start", "copying"} => ~UnitRuns
                   /\ op'[r].pc = "copying" => disk.preview = op'[r].tree
                   /\ op'[r].pc \in Rotating => op'[r].tree # Torn
<1>c. Kept /\ Fits => WholeCopies'
  BY <1>w, <1>p, <1>u DEF WholeCopies, UnitRuns, At
<1>1. CASE Claim(r) \/ Done(r) \/ Release(r)
  <2>1. Kept /\ op'[r].pc \in {"preflight", "release", "over"}
    BY <1>1, <1>t, OneMoves DEF Claim, Done, Release
  <2>2. UNCHANGED told
    BY <1>1 DEF Claim, Done, Release
  <2> QED BY <1>w, <1>c, <2>1, <2>2 DEF Rotating, WholeTold
<1>2. CASE Preflight(r)
  <2>1. Kept /\ op'[r].pc \in {"start", "release"}
    BY <1>2, <1>t, OneMoves DEF Preflight
  <2>2. op'[r].pc = "start" => ~UnitRuns
    BY <1>2, <1>t, OneMoves DEF Preflight, Note, NotExcused
  <2>3. UNCHANGED told
    BY <1>2 DEF Preflight
  <2> QED BY <1>w, <1>c, <2>1, <2>2, <2>3 DEF Rotating, WholeTold
<1>3. CASE Start(r)
  <2>1. CASE Enter(r, "copying", disk.preview)
    <3>1. Kept /\ op'[r].pc = "copying" /\ op'[r].tree = disk.preview
      BY <1>t, <2>1, OneWrites
    <3>2. ~UnitRuns
      BY <1>3, <1>w DEF Start, WholeCopies, At
    <3>3. Fits
      BY <3>1, <3>2 DEF Whole
    <3> QED BY <1>3, <1>w, <1>c, <3>1, <3>3 DEF Start, WholeTold
  <2>2. CASE Goto(r, "release")
    <3>1. Kept /\ op'[r].pc = "release"
      BY <1>t, <2>2, OneMoves
    <3> QED BY <1>3, <1>w, <1>c, <3>1 DEF Start, WholeTold, Rotating
  <2> QED BY <1>3, <2>1, <2>2 DEF Start
<1>4. CASE Copy(r)
  <2>1. At(r, "copying") /\ disk.preview = op[r].tree /\ op[r].tree # Torn /\ UNCHANGED told
    BY <1>4, <1>w DEF Copy, WholeCopies, At, Rotating
  <2>2. Goto(r, "clear") \/ Goto(r, "release")
    BY <1>4, <2>1 DEF Copy
  <2>3. Kept /\ op'[r].pc \in {"clear", "release"} /\ op'[r].tree = op[r].tree
    BY <1>t, <2>2, OneMoves
  <2> QED BY <1>w, <1>c, <2>1, <2>3 DEF WholeTold
<1>5. ASSUME Clear(r) \/ Cleared(r) \/ Look(r) \/ Aside(r) \/ Place(r)
      PROVE  WholeCopies' /\ WholeTold'
  <2>1. op[r].pc \in Rotating
    BY <1>5 DEF Clear, Cleared, Look, Aside, Place, At, Rotating
  <2>2. op[r].tree # Torn
    BY <1>w, <2>1 DEF WholeCopies
  <2>3. /\ Kept /\ op'[r].tree = op[r].tree
        /\ op'[r].pc \in {"look", "clearing", "release", "aside", "place", "done"}
    <3>1. CASE Look(r)
      BY <1>t, <3>1, OneWrites
    <3>2. CASE Clear(r)
      <4>1. Goto(r, "look") \/ Goto(r, "clearing") \/ Goto(r, "release")
        BY <3>2 DEF Clear
      <4> QED BY <1>t, <4>1, OneMoves
    <3>3. CASE Cleared(r) \/ Aside(r) \/ Place(r)
      <4>1. \E where \in {"look", "release", "place", "done"} : Goto(r, where)
        BY <3>3 DEF Cleared, Aside, Place
      <4> QED BY <1>t, <4>1, OneMoves
    <3> QED BY <1>5, <3>1, <3>2, <3>3
  <2>4. WholeTold'
    <3>1. CASE UNCHANGED told
      BY <1>w, <3>1 DEF WholeTold
    <3>2. CASE told' = [told EXCEPT !.prev = None]
      <4>1. told'.live = told.live /\ told'.prev = None
        BY <1>t, <3>2 DEF TypeOK
      <4> QED BY <1>w, <4>1, Constants DEF WholeTold
    <3>3. CASE Serve(op[r].tree, told.live)
      BY <1>w, <2>2, <3>3 DEF WholeTold, Serve
    <3>4. CASE Leaves(r)
      BY <1>t, <1>w, <3>4, LeavingIsWhole
    <3> QED BY <1>5, <3>1, <3>2, <3>3, <3>4 DEF Clear, Cleared, Look, Aside, Place
  <2> QED BY <1>c, <2>2, <2>3, <2>4
<1> QED BY <1>1, <1>2, <1>3, <1>4, <1>5 DEF Publish

LEMMA RevertStaysWhole ==
    ASSUME PublishingAssumption, IInv, Exact, Whole, NEW r \in Requests, Revert(r)
    PROVE  Whole'
<1>t. TypeOK /\ \A path \in Paths : path \in DOMAIN disk
  BY DEF IInv, TypeOK, Paths
<1>p. disk'.preview = disk.preview /\ disk'.old = disk.old
  <2>1. disk' \in {disk, Moved("live", "swap"), Moved("prev", "live"), Moved("swap", "live"),
                   Moved("swap", "prev"), [disk EXCEPT !.swap = None]}
    BY DEF Revert, PreflightRevert, StartRevert, SwapOut, SwapIn, SwapBack
  <2> QED BY <1>t, <2>1, TreesMove DEF Paths
<1>u. UNCHANGED turn /\ (NotExcused' => NotExcused /\ Calm)
  BY DEF Revert, PreflightRevert, StartRevert, SwapOut, SwapIn, SwapBack, Enter, Note, Leaves,
     NotExcused, Calm
<1> SUFFICES ASSUME NotExcused' PROVE WholeCopies' /\ WholeTold'
  BY <1>p DEF Whole
<1>w. WholeCopies /\ WholeTold
  BY <1>u DEF Whole
<1>1. /\ \A q \in Requests \ {r} : op'[q] = op[q]
      /\ op'[r].pc \in {"begin", "over", "swapOut", "swapIn", "swapBack"}
  BY <1>t, OneMoves, StartRevertMoves DEF Revert, PreflightRevert, SwapOut, SwapIn, SwapBack
<1>2. WholeCopies'
  BY <1>w, <1>p, <1>u, <1>1 DEF WholeCopies, UnitRuns, At, Rotating
<1>3. WholeTold'
  <2>1. CASE UNCHANGED told
    BY <1>w, <2>1 DEF WholeTold
  <2>2. CASE told' = [told EXCEPT !.prev = None]
    <3>1. told'.live = told.live /\ told'.prev = None
      BY <1>t, <2>2 DEF TypeOK
    <3> QED BY <1>w, <3>1, Constants DEF WholeTold
  <2>3. CASE Serve(told.prev, told.live)
    BY <1>w, <2>3 DEF WholeTold, Serve
  <2>4. CASE Leaves(r)
    BY <1>t, <1>w, <2>4, LeavingIsWhole
  <2> QED BY <2>1, <2>2, <2>3, <2>4 DEF Revert, PreflightRevert, StartRevert, SwapOut, SwapIn, SwapBack
<1> QED BY <1>2, <1>3

LEMMA BuildingStaysWhole ==
    ASSUME PublishingAssumption, IInv, Whole, Building
    PROVE  Whole'
<1>t. /\ TypeOK /\ KindsFit /\ turn.n # Torn /\ None # Torn
      /\ \A path \in Paths : path \in DOMAIN disk
  BY Constants DEF IInv, TypeOK, Paths, TurnRecords
<1>u. UNCHANGED <<op, told>> /\ (NotExcused' => NotExcused)
  BY DEF Building, AskSession, InsertSession, CloseSession, TurnStarts, TurnScoped,
     HarvestAside, HarvestPlace, TurnOver, TurnTold, Note, NotExcused
<1>1. CASE UNCHANGED <<disk, happened>> /\ (turn' = turn \/ ~UnitRuns')
  BY <1>1, <1>u DEF Whole, WholeCopies, WholeTold, At, UnitRuns, NotExcused
<1>2. ASSUME NEW s \in Sessions, TurnStarts(s) PROVE Whole'
  <2>1. UNCHANGED disk
    BY <1>2 DEF TurnStarts
  <2>2. NotExcused' => \A r \in Requests : op[r].pc \notin {"start", "copying"}
    BY <1>2, <1>t DEF TurnStarts, Note, NotExcused, KindsFit, Rotating
  <2> QED BY <1>u, <2>1, <2>2 DEF Whole, WholeCopies, WholeTold, At
<1>3. CASE TurnScoped
  <2>1. turn'.at = turn.at
    BY <1>3, <1>t DEF TurnScoped, TypeOK, TurnRecords
  <2> QED BY <1>3, <1>u, <2>1 DEF TurnScoped, Whole, WholeCopies, WholeTold, At, UnitRuns, NotExcused
<1>4. CASE HarvestAside \/ HarvestPlace
  <2>1. UnitRuns /\ UNCHANGED happened
    BY <1>4 DEF HarvestAside, HarvestPlace, UnitRuns
  <2>2. NotExcused => \A r \in Requests : op[r].pc \notin {"start", "copying"}
    BY <2>1 DEF Whole, WholeCopies
  <2>3. disk'.preview # Torn /\ disk'.old # Torn
    <3>1. CASE HarvestAside
      BY <1>t, <3>1 DEF HarvestAside, Paths, Whole
    <3>2. CASE HarvestPlace
      BY <1>t, <3>2 DEF HarvestPlace, Paths, Whole
    <3> QED BY <1>4, <3>1, <3>2
  <2> QED BY <1>u, <2>1, <2>2, <2>3 DEF Whole, WholeCopies, WholeTold, At, NotExcused
<1>5. CASE TurnOver
  <2>1. turn'.at = "over"
    BY <1>5, <1>t DEF TurnOver, TypeOK, TurnRecords
  <2> QED BY <1>1, <1>5, <2>1 DEF TurnOver, UnitRuns
<1>6. CASE TurnTold
  <2>1. turn'.at = "none"
    BY <1>6 DEF TurnTold, NoTurn
  <2> QED BY <1>1, <1>6, <2>1 DEF TurnTold, UnitRuns
<1> QED
  BY <1>1, <1>2, <1>3, <1>4, <1>5, <1>6 DEF Building, AskSession, InsertSession, CloseSession

LEMMA FaultsStayWhole ==
    ASSUME PublishingAssumption, IInv, Whole,
           (\E r \in Requests : Pressing(r) \/ Kill(r)) \/ ServerCrash
    PROVE  Whole'
<1>t. TypeOK
  BY DEF IInv
<1>1. ASSUME NEW r \in Requests, Pressing(r) PROVE Whole'
  <2>1. /\ UNCHANGED <<turn, disk, told, happened>> /\ \A q \in Requests \ {r} : op'[q] = op[q]
        /\ op'[r].pc \in {"claim", "check"}
    <3>1. op[r] \in OpRecords
      BY <1>t DEF TypeOK
    <3>2. ASSUME NEW s \in Sessions, Press(r, s) PROVE <2>1
      BY <1>t, <3>1, <3>2 DEF Press, TypeOK, OpRecords
    <3>3. ASSUME PressRevert(r) PROVE <2>1
      BY <1>t, <3>1, <3>3 DEF PressRevert, TypeOK, OpRecords
    <3> QED BY <1>1, <3>2, <3>3 DEF Pressing
  <2> QED BY <2>1 DEF Whole, WholeCopies, WholeTold, At, UnitRuns, NotExcused, Rotating
<1>2. ASSUME NEW r \in Requests, Kill(r) PROVE Whole'
  <2>1. Leaves(r) /\ UNCHANGED turn /\ (NotExcused' => NotExcused)
    BY <1>2 DEF Kill, Leaves, NotExcused
  <2>2. disk'.preview = disk.preview /\ disk'.old = disk.old
    BY <1>2, <1>t DEF Kill, TypeOK
  <2>3. op'[r].pc \in {"release", "over"} /\ \A q \in Requests \ {r} : op'[q] = op[q]
    BY <1>2, <1>t, OneMoves DEF Kill
  <2>4. NotExcused' => WholeTold'
    BY <1>t, <2>1, LeavingIsWhole DEF Whole
  <2>5. NotExcused' => WholeCopies'
    BY <2>1, <2>2, <2>3 DEF Whole, WholeCopies, UnitRuns, At, Rotating
  <2> QED BY <2>2, <2>4, <2>5 DEF Whole
<1>3. CASE ServerCrash
  <2>1. UNCHANGED <<turn, disk, told>> /\ (NotExcused' => NotExcused)
    BY <1>3 DEF ServerCrash, Note, NotExcused
  <2>2. ASSUME NEW q \in Requests
        PROVE  op'[q].pc \in {"over", "free"} \/ (op'[q].pc = op[q].pc /\ op'[q].tree = op[q].tree)
    <3>1. CASE InUnit(q)
      <4>1. op'[q] = [op[q] EXCEPT !.heard = FALSE]
        BY <1>3, <3>1 DEF ServerCrash
      <4> QED BY <1>t, <4>1 DEF TypeOK, OpRecords
    <3>2. CASE ~InUnit(q)
      BY <1>3, <3>2 DEF ServerCrash, Idle
    <3> QED BY <3>1, <3>2
  <2> QED BY <2>1, <2>2 DEF Whole, WholeCopies, WholeTold, At, UnitRuns, Rotating
<1> QED BY <1>1, <1>2, <1>3

LEMMA WholeInvariance == ASSUME PublishingAssumption PROVE Spec => []Whole
<1>1. ASSUME Init PROVE Whole
  <2>1. \A r \in Requests : op[r].pc = "free"
    BY <1>1 DEF Init, Free, Idle
  <2>2. /\ disk.preview = 2 /\ disk.old = None /\ disk.live \in {None, 2} /\ disk.prev \in {None, 1}
    <3>1. \/ disk = [NoTrees EXCEPT !.preview = 2]
          \/ disk = [NoTrees EXCEPT !.preview = 2, !.live = 2, !.prev = 1]
      BY <1>1 DEF Init
    <3> QED BY <3>1 DEF NoTrees
  <2>3. Torn # 2 /\ Torn # 1 /\ Torn # None
    BY Constants DEF None
  <2>4. told.live = disk.live /\ told.prev = disk.prev
    BY <1>1 DEF Init
  <2> QED BY <2>1, <2>2, <2>3, <2>4 DEF Whole, WholeCopies, WholeTold, At, Rotating
<1>2. ASSUME IInv, Exact, Whole, [Next]_vars PROVE Whole'
  <2>1. CASE UNCHANGED vars
    BY <1>2, <2>1 DEF vars, Whole, WholeCopies, WholeTold, NotExcused, At, UnitRuns
  <2>2. CASE Next
    BY <1>2, <2>2, PublishStaysWhole, RevertStaysWhole, BuildingStaysWhole, FaultsStayWhole
       DEF Next, Building, Pressing
  <2> QED BY <1>2, <2>1, <2>2
<1> QED BY <1>1, <1>2, PublishingInvariance, ExactInvariance, PTL DEF Spec

(* What is served, or would be by Revert, is never half a tree, unless a   *)
(* turn began after the publish asked about turns or systemd did not       *)
(* answer, a publish met a revert, or the removal of a live.prev stopped   *)
(* half way.                                                               *)
THEOREM ServedTreesAreWhole == ASSUME PublishingAssumption PROVE Spec => []LiveIsWhole
<1>1. ASSUME Exact, Whole PROVE LiveIsWhole
  <2>1. CASE ~NotExcused
    BY <2>1 DEF NotExcused, LiveIsWhole
  <2>2. CASE NotExcused
    <3>1. Calm /\ WholeTold /\ OneUnit
      BY <1>1, <2>2 DEF Exact, Whole, NotExcused, Calm
    <3>2. CASE \A r \in Requests : ~InUnit(r)
      BY <3>1, <3>2 DEF OneUnit, InStep, WholeTold, LiveIsWhole
    <3>3. ASSUME NEW r \in Requests, InUnit(r) PROVE LiveIsWhole
      <4>1. WhereTreesAre(r) /\ None # Torn
        BY <3>1, <3>3, Constants DEF OneUnit
      <4> QED BY <3>1, <3>3, <4>1
          DEF WhereTreesAre, InStep, WholeTold, LiveIsWhole, InUnit, At, Rotating, Swapping
    <3> QED BY <3>2, <3>3
  <2> QED BY <2>1, <2>2
<1> QED BY <1>1, ExactInvariance, WholeInvariance, PTL
=============================================================================
