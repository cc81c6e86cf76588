--------------------------- MODULE SummonsProofs ----------------------------
(***************************************************************************)
(* Proofs about Summons, for any seats, caps and bounds.                   *)
(*                                                                         *)
(* The ledgers keep a date beside each count, so a count means something   *)
(* only on that date: the invariant ties what the ledgers hold to what was *)
(* really granted.  Hops over the life of a work item are paid for by the  *)
(* looks the wall has counted, those up to unparkSeq.                      *)
(***************************************************************************)
EXTENDS Summons, FiniteSetTheorems, TLAPS

(* The looks the wall has taken into account.                              *)
Seen == {i \in Looks : i <= wall.unparkSeq}

(* An adapter that is busy is busy with a post of the channel.             *)
PlaceInv ==
    /\ Len(channel) <= MaxPosts
    /\ \A s \in Seats :
          /\ pos[s] <= Len(channel)
          /\ pc[s] # "idle" => pos[s] < Len(channel)

(* The state file counts the sessions of its date, and a summon that passed *)
(* can_spend still has room: the adapter is the only one that spends.      *)
BudgetInv ==
    \A s \in Seats :
       /\ budget[s].day <= day
       /\ sessions.today[s] = Used(s)
       /\ pc[s] \in {"wall", "spend"} => Used(s) < BudgetCap

(* The record of the work item counts the hops of its date.                *)
WallInv ==
    /\ wall.day <= day
    /\ wall.unparkSeq <= Len(channel)
    /\ granted.today = IF wall.day = day THEN wall.dayHops ELSE 0

HopsInv == granted.all <= HopCap * Cardinality(Seen) + wall.hops

IInv ==
    /\ TypeOK
    /\ PlaceInv
    /\ BudgetInv
    /\ WallInv
    /\ HopsInv

-----------------------------------------------------------------------------
(* Looks and hops *)

(* Looks are positions in the channel.                                     *)
LEMMA LooksAreFinite ==
    ASSUME channel \in Seq(Post)
    PROVE  /\ IsFiniteSet(Looks) /\ Cardinality(Looks) \in Nat
           /\ IsFiniteSet(Seen) /\ Cardinality(Seen) \in Nat
           /\ Cardinality(Seen) <= Cardinality(Looks)
<1>1. IsFiniteSet(1..Len(channel))
  BY FS_Interval
<1>2. Looks \in SUBSET (1..Len(channel)) /\ Seen \in SUBSET Looks
  BY DEF Looks, HumanPosts, Seen
<1>3. IsFiniteSet(Looks)
  BY <1>1, <1>2, FS_Subset
<1>4. IsFiniteSet(Seen) /\ Cardinality(Seen) <= Cardinality(Looks)
  BY <1>2, <1>3, FS_Subset
<1> QED
  BY <1>3, <1>4, FS_CardinalityType

(* A new post is no look the wall has already counted.                     *)
LEMMA AppendKeepsSeen ==
    ASSUME channel \in Seq(Post), wall.unparkSeq \in Nat, wall.unparkSeq <= Len(channel),
           NEW p \in Post, channel' = Append(channel, p), wall' = wall
    PROVE  Seen' = Seen
<1>1. Len(channel') = Len(channel) + 1
      /\ \A i \in 1..Len(channel) : channel'[i] = channel[i]
  OBVIOUS
<1> QED
  BY <1>1 DEF Seen, Looks, HumanPosts

WallRecord == [day : 0..MaxDay, hops : 0..HopCap, dayHops : 0..DailyHopCap,
               unparkSeq : 0..MaxPosts]

(* The record of the work item as of today.                                *)
LEMMA RecordOfToday ==
    ASSUME wall \in WallRecord
    PROVE  Record = [day |-> day, hops |-> wall.hops,
                     dayHops |-> IF wall.day = day THEN wall.dayHops ELSE 0,
                     unparkSeq |-> wall.unparkSeq]
<1>1. wall = [day |-> wall.day, hops |-> wall.hops, dayHops |-> wall.dayHops,
              unparkSeq |-> wall.unparkSeq]
  BY DEF WallRecord
<1>2. CASE wall.day = day
  BY <1>1, <1>2 DEF Record
<1>3. CASE wall.day # day
  BY <1>1, <1>3 DEF Record
<1> QED
  BY <1>2, <1>3

(* A look at seq is one more look, and pays for HopCap hops.               *)
LEMMA UnparkKeepsHops ==
    ASSUME IInv, SummonsAssumption, NEW seq \in Looks, Unpark(seq), UNCHANGED <<channel, granted>>
    PROVE  HopsInv'
<1> DEFINE n == Cardinality(Seen)
           m == Cardinality(Seen')
<1>1. /\ channel \in Seq(Post) /\ wall.hops \in 0..HopCap /\ wall.unparkSeq \in Nat
      /\ granted.all \in Nat /\ HopCap \in Nat /\ wall \in WallRecord /\ seq \in Nat
  BY DEF IInv, TypeOK, SummonsAssumption, Looks, HumanPosts, WallRecord
<1>2. CASE seq <= wall.unparkSeq
  BY <1>2 DEF Unpark, IInv, HopsInv, Seen, Looks, HumanPosts
<1>3. CASE seq > wall.unparkSeq
  <2>1. wall'.hops = 0 /\ wall'.unparkSeq = seq
    BY <1>1, <1>3, RecordOfToday DEF Unpark
  <2>2. Looks' = Looks
    BY DEF Looks, HumanPosts
  <2>3. Seen \cup {seq} \in SUBSET Seen' /\ seq \notin Seen /\ Seen' \in SUBSET Looks
    BY <1>1, <1>3, <2>1, <2>2 DEF Seen, Looks, HumanPosts
  <2>4. IsFiniteSet(Looks) /\ IsFiniteSet(Seen) /\ n \in Nat
    BY <1>1, LooksAreFinite
  <2>5. IsFiniteSet(Seen')
    BY <2>3, <2>4, FS_Subset
  <2>6. m \in Nat
    BY <2>5, FS_CardinalityType
  <2>7. Cardinality(Seen \cup {seq}) = n + 1
    BY <2>3, <2>4, FS_AddElement
  <2>8. n + 1 <= m
    BY <2>3, <2>5, <2>7, FS_Subset
  <2>9. granted.all <= HopCap * n + wall.hops
    BY DEF IInv, HopsInv
  <2> HIDE DEF n, m
  <2>10. HopCap * n + HopCap <= HopCap * m
    <3>1. PICK k \in Nat : m = (n + 1) + k
      BY <2>4, <2>6, <2>8, m - (n + 1) \in Nat
    <3>2. HopCap * m = HopCap * n + HopCap + HopCap * k
      BY <3>1, <1>1, <2>4
    <3>3. HopCap * k \in Nat
      BY <1>1, <3>1
    <3>4. HopCap * n \in Nat
      BY <1>1, <2>4
    <3> QED
      BY <3>2, <3>3, <3>4, <1>1
  <2>11. granted.all <= HopCap * m
    <3>1. HopCap * n \in Nat /\ HopCap * m \in Nat
      BY <1>1, <2>4, <2>6
    <3> QED
      BY <1>1, <2>9, <2>10, <3>1
  <2>12. HopsInv' <=> granted.all <= HopCap * m + 0
    BY <2>1 DEF HopsInv, m
  <2>13. HopCap * m + 0 = HopCap * m
    BY <1>1, <2>6
  <2> QED
    BY <2>11, <2>12, <2>13
<1> QED
  BY <1>1, <1>2, <1>3

-----------------------------------------------------------------------------
(* One lemma for each action *)

(* Midnight has not struck and nothing is granted: a step of an adapter    *)
(* that leaves channel, wall and ledgers alone.                            *)
LEMMA QuietKeeps ==
    ASSUME IInv, UNCHANGED <<channel, day, wall, budget, granted, sessions>>,
           crashes' \in 0..MaxCrashes,
           pos' \in [Seats -> 0..MaxPosts], chain' \in [Seats -> BOOLEAN],
           pc' \in [Seats -> {"idle", "detect", "wall", "spend", "session"}],
           \A s \in Seats : /\ pos'[s] <= Len(channel)
                            /\ pc'[s] # "idle" => pos'[s] < Len(channel)
                            /\ pc'[s] \in {"wall", "spend"} => Used(s) < BudgetCap
    PROVE  IInv'
<1>1. TypeOK'
  BY DEF IInv, TypeOK
<1>2. PlaceInv'
  BY DEF IInv, PlaceInv
<1>3. BudgetInv'
  BY DEF IInv, BudgetInv, Used
<1>4. WallInv' /\ HopsInv'
  BY DEF IInv, WallInv, HopsInv, Seen, Looks, HumanPosts
<1> QED
  BY <1>1, <1>2, <1>3, <1>4 DEF IInv

(* Handling a post, or dropping it at a lost connection, moves forward.    *)
LEMMA HandledKeeps ==
    ASSUME IInv, NEW s \in Seats, pos[s] < Len(channel), Handled(s),
           UNCHANGED <<channel, day, wall, budget, crashes, granted, sessions>>
    PROVE  IInv'
<1>1. channel \in Seq(Post) /\ Len(channel) \in Nat /\ Len(channel) <= MaxPosts
      /\ pos \in [Seats -> 0..MaxPosts]
  BY DEF IInv, TypeOK, PlaceInv
<1>2. \A t \in Seats : pc'[t] = IF t = s THEN "idle" ELSE pc[t]
  BY DEF Handled, Goto, IInv, TypeOK
<1>3. \A t \in Seats : pos'[t] = IF t = s THEN pos[s] + 1 ELSE pos[t]
  BY DEF Handled, IInv, TypeOK
<1>4. pos' \in [Seats -> 0..MaxPosts]
  BY <1>1, SummonsAssumption DEF Handled
<1>5. chain' \in [Seats -> BOOLEAN]
  BY Zenon DEF Handled, IInv, TypeOK
<1>6. pc' \in [Seats -> {"idle", "detect", "wall", "spend", "session"}]
  BY DEF Handled, Goto, IInv, TypeOK
<1>7. \A t \in Seats : /\ pos'[t] <= Len(channel)
                       /\ pc'[t] # "idle" => pos'[t] < Len(channel)
                       /\ pc'[t] \in {"wall", "spend"} => Used(t) < BudgetCap
  BY <1>1, <1>2, <1>3 DEF IInv, PlaceInv, BudgetInv
<1> QED
  BY <1>4, <1>5, <1>6, <1>7, QuietKeeps DEF IInv, TypeOK

(* Another step of the adapter on the same post.                           *)
LEMMA AdvanceKeeps ==
    ASSUME IInv, NEW s \in Seats, NEW where \in {"detect", "wall", "spend", "session"},
           pos[s] < Len(channel), where \in {"wall", "spend"} => Used(s) < BudgetCap,
           Goto(s, where), chain' \in [Seats -> BOOLEAN],
           UNCHANGED <<channel, day, wall, budget, pos, crashes, granted, sessions>>
    PROVE  IInv'
<1>1. \A t \in Seats : pc'[t] = IF t = s THEN where ELSE pc[t]
  BY DEF Goto, IInv, TypeOK
<1>2. pc' \in [Seats -> {"idle", "detect", "wall", "spend", "session"}]
  BY DEF Goto, IInv, TypeOK
<1>3. \A t \in Seats : /\ pos'[t] <= Len(channel)
                       /\ pc'[t] # "idle" => pos'[t] < Len(channel)
                       /\ pc'[t] \in {"wall", "spend"} => Used(t) < BudgetCap
  BY <1>1 DEF IInv, PlaceInv, BudgetInv
<1> QED
  BY <1>2, <1>3, QuietKeeps DEF IInv, TypeOK

(* The wall of the work item changes and the rest is as in AdvanceKeeps.   *)
LEMMA MaybeUnparkKeeps ==
    ASSUME IInv, SummonsAssumption, NEW s \in Seats, MaybeUnpark(s) PROVE IInv'
<1>1. /\ channel \in Seq(Post) /\ pos[s] \in 0..MaxPosts /\ pos[s] < Len(channel)
      /\ At(s).by = Human /\ At(s).cites /\ day \in 0..MaxDay /\ Len(channel) <= MaxPosts
      /\ wall \in WallRecord /\ HopCap \in Nat /\ DailyHopCap \in Nat
      /\ granted.today = IF wall.day = day THEN wall.dayHops ELSE 0
      /\ wall.day <= day /\ wall.unparkSeq <= Len(channel)
  BY DEF MaybeUnpark, Reportable, IInv, TypeOK, PlaceInv, SummonsAssumption, WallInv, WallRecord
<1>2. \A t \in Seats : pc'[t] = IF t = s THEN "detect" ELSE pc[t]
  BY DEF MaybeUnpark, Goto, IInv, TypeOK
<1>3. CASE UNCHANGED wall
  BY <1>1, <1>3, AdvanceKeeps DEF MaybeUnpark, historyVars, IInv, TypeOK
<1>4. CASE Unpark(pos[s] + 1)
  <2>1. pos[s] + 1 \in Looks
    BY <1>1 DEF Looks, HumanPosts, At
  <2>2. HopsInv'
    BY <1>4, <2>1, UnparkKeepsHops DEF MaybeUnpark, historyVars
  <2>3. WallInv' /\ wall' \in WallRecord
    <3>1. CASE pos[s] + 1 <= wall.unparkSeq
      BY <1>1, <1>4, <3>1 DEF WallInv, Unpark, MaybeUnpark, historyVars, WallRecord
    <3>2. CASE pos[s] + 1 > wall.unparkSeq
      <4> DEFINE dayHops == IF wall.day = day THEN wall.dayHops ELSE 0
      <4>1. wall' = [day |-> day, hops |-> 0, dayHops |-> dayHops, unparkSeq |-> pos[s] + 1]
        <5>1. Record = [day |-> day, hops |-> wall.hops, dayHops |-> dayHops,
                        unparkSeq |-> wall.unparkSeq]
          BY <1>1, RecordOfToday
        <5>2. ~(pos[s] + 1 <= wall.unparkSeq)
          BY <1>1, <3>2 DEF WallRecord
        <5> QED
          BY <1>4, <5>1, <5>2 DEF Unpark
      <4>2. pos[s] + 1 \in 0..MaxPosts /\ pos[s] + 1 <= Len(channel) /\ dayHops \in 0..DailyHopCap
        BY <1>1 DEF WallRecord
      <4>3. granted.today = dayHops
        BY <1>1
      <4> HIDE DEF dayHops
      <4> QED
        BY <1>1, <4>1, <4>2, <4>3 DEF WallInv, MaybeUnpark, historyVars, WallRecord
    <3> QED
      BY <1>1, <3>1, <3>2 DEF WallRecord
  <2>4. TypeOK'
    BY <2>3 DEF IInv, TypeOK, MaybeUnpark, Goto, historyVars, WallRecord
  <2>5. PlaceInv'
    BY <1>1, <1>2 DEF IInv, PlaceInv, MaybeUnpark
  <2>6. BudgetInv'
    BY <1>2 DEF IInv, BudgetInv, Used, MaybeUnpark, historyVars
  <2> QED
    BY <2>2, <2>3, <2>4, <2>5, <2>6 DEF IInv
<1> QED
  BY <1>3, <1>4 DEF MaybeUnpark

(* A summon goes on only when the budget has room.                         *)
LEMMA DetectKeeps == ASSUME IInv, SummonsAssumption, NEW s \in Seats, Detect(s) PROVE IInv'
<1>1. pos[s] < Len(channel) /\ chain \in [Seats -> BOOLEAN]
      /\ UNCHANGED <<channel, day, wall, budget, crashes, granted, sessions>>
  BY DEF Detect, historyVars, IInv, TypeOK
<1>2. CASE Handled(s)
  BY <1>1, <1>2, HandledKeeps
<1>3. CASE Used(s) < BudgetCap /\ Goto(s, "spend") /\ UNCHANGED <<pos, chain>>
  BY <1>1, <1>3, AdvanceKeeps
<1>4. CASE Used(s) < BudgetCap /\ Goto(s, "wall") /\ UNCHANGED <<pos, chain>>
  BY <1>1, <1>4, AdvanceKeeps
<1> QED
  BY <1>2, <1>3, <1>4 DEF Detect

(* A hop is charged while both counts are below their caps.                *)
LEMMA ClearTheHopWallKeeps ==
    ASSUME IInv, SummonsAssumption, NEW s \in Seats, ClearTheHopWall(s) PROVE IInv'
<1>1. pos[s] < Len(channel) /\ Used(s) < BudgetCap /\ chain \in [Seats -> BOOLEAN]
      /\ UNCHANGED <<channel, day, budget, crashes, sessions>>
  BY DEF ClearTheHopWall, IInv, TypeOK, PlaceInv, BudgetInv
<1>2. CASE Handled(s) /\ UNCHANGED <<wall, granted>>
  BY <1>1, <1>2, HandledKeeps
<1>3. CASE Goto(s, "spend") /\ UNCHANGED <<wall, granted, pos, chain>>
  BY <1>1, <1>3, AdvanceKeeps
<1>4. CASE MaySpend /\ Charge /\ Goto(s, "spend") /\ UNCHANGED pos
           /\ \E answered \in BOOLEAN : chain' = [chain EXCEPT ![s] = answered]
  <2>1. /\ wall \in WallRecord /\ HopCap \in Nat /\ DailyHopCap \in Nat
        /\ granted \in [all : Nat, today : Nat] /\ day \in 0..MaxDay /\ MaxDay \in Nat
    BY DEF IInv, TypeOK, SummonsAssumption, WallRecord
  <2>2. /\ wall' \in WallRecord
        /\ wall'.hops = wall.hops + 1 /\ wall'.unparkSeq = wall.unparkSeq /\ wall'.day = day
        /\ wall'.dayHops = (IF wall.day = day THEN wall.dayHops ELSE 0) + 1
    <3> DEFINE dayHops == IF wall.day = day THEN wall.dayHops ELSE 0
    <3>1. Record = [day |-> day, hops |-> wall.hops, dayHops |-> dayHops,
                    unparkSeq |-> wall.unparkSeq]
      BY <2>1, RecordOfToday
    <3>2. wall' = [day |-> day, hops |-> wall.hops + 1, dayHops |-> dayHops + 1,
                   unparkSeq |-> wall.unparkSeq]
      BY <1>4, <3>1 DEF Charge
    <3>3. wall.hops < HopCap /\ dayHops < DailyHopCap
      BY <1>4, <3>1 DEF MaySpend
    <3>4. dayHops \in 0..DailyHopCap
      BY <2>1 DEF WallRecord
    <3> HIDE DEF dayHops
    <3>5. /\ wall' \in WallRecord
          /\ wall'.hops = wall.hops + 1 /\ wall'.unparkSeq = wall.unparkSeq
          /\ wall'.day = day /\ wall'.dayHops = dayHops + 1
      BY <2>1, <3>2, <3>3, <3>4 DEF WallRecord
    <3> QED
      BY <3>5 DEF dayHops
  <2>3. granted' \in [all : Nat, today : Nat]
        /\ granted'.all = granted.all + 1 /\ granted'.today = granted.today + 1
    BY <1>4, <2>1 DEF Charge
  <2>4. chain' \in [Seats -> BOOLEAN]
    BY <1>1, <1>4, Zenon
  <2>5. TypeOK'
    BY <1>1, <1>4, <2>2, <2>3, <2>4 DEF IInv, TypeOK, Goto, WallRecord
  <2>6. \A t \in Seats : pc'[t] = IF t = s THEN "spend" ELSE pc[t]
    BY <1>4 DEF Goto, IInv, TypeOK
  <2>7. PlaceInv' /\ BudgetInv'
    BY <1>1, <1>4, <2>6 DEF IInv, PlaceInv, BudgetInv, Used
  <2>8. WallInv'
    BY <1>1, <2>1, <2>2, <2>3 DEF IInv, WallInv, WallRecord
  <2>9. HopsInv'
    <3>1. Seen' = Seen /\ Cardinality(Seen) \in Nat
      BY <1>1, <2>2, LooksAreFinite DEF Seen, Looks, HumanPosts, IInv, TypeOK
    <3>2. granted.all <= HopCap * Cardinality(Seen) + wall.hops
      BY DEF IInv, HopsInv
    <3> DEFINE bound == HopCap * Cardinality(Seen)
    <3>3. bound \in Nat
      BY <2>1, <3>1
    <3>4. granted.all <= bound + wall.hops
      BY <3>2
    <3>5. HopsInv' <=> granted'.all <= bound + wall'.hops
      BY <3>1 DEF HopsInv
    <3> HIDE DEF bound
    <3> QED
      BY <2>1, <2>2, <2>3, <3>3, <3>4, <3>5 DEF WallRecord
  <2> QED
    BY <2>5, <2>7, <2>8, <2>9 DEF IInv
<1> QED
  BY <1>2, <1>3, <1>4 DEF ClearTheHopWall

(* The session is counted on today's date.                                 *)
LEMMA SpendBudgetKeeps ==
    ASSUME IInv, SummonsAssumption, NEW s \in Seats, SpendBudget(s) PROVE IInv'
<1>1. /\ pos[s] < Len(channel) /\ Used(s) < BudgetCap /\ sessions.today[s] = Used(s)
      /\ UNCHANGED <<channel, day, wall, pos, chain, crashes, granted>>
  BY DEF SpendBudget, IInv, PlaceInv, BudgetInv
<1>2. \A t \in Seats : pc'[t] = IF t = s THEN "session" ELSE pc[t]
  BY DEF SpendBudget, Goto, IInv, TypeOK
<1>3. /\ budget \in [Seats -> [day : 0..MaxDay, count : 0..BudgetCap]] /\ day \in 0..MaxDay
      /\ sessions \in [human : Nat, bot : Nat, today : [Seats -> Nat]] /\ BudgetCap \in Nat
      /\ MaxDay \in Nat
  BY DEF IInv, TypeOK, SummonsAssumption
<1>4. Used(s) \in 0..BudgetCap
  BY <1>3 DEF Used
<1>5. /\ budget' \in [Seats -> [day : 0..MaxDay, count : 0..BudgetCap]]
      /\ \A t \in Seats : budget'[t] = IF t = s THEN [day |-> day, count |-> Used(s) + 1]
                                     ELSE budget[t]
  <2>1. budget' = [budget EXCEPT ![s] = [day |-> day, count |-> Used(s) + 1]]
    BY DEF SpendBudget, Spend
  <2>2. Used(s) + 1 \in 0..BudgetCap
    BY <1>1, <1>3, <1>4
  <2> HIDE DEF Used
  <2>3. [day |-> day, count |-> Used(s) + 1] \in [day : 0..MaxDay, count : 0..BudgetCap]
    BY <2>2, <1>3
  <2> QED
    BY ONLY <2>1, <2>3, <1>3, s \in Seats
<1>6. /\ sessions' \in [human : Nat, bot : Nat, today : [Seats -> Nat]]
      /\ \A t \in Seats : sessions'.today[t] = IF t = s THEN sessions.today[s] + 1
                                             ELSE sessions.today[t]
  BY <1>3 DEF SpendBudget
<1>7. TypeOK'
  BY <1>1, <1>5, <1>6 DEF SpendBudget, Goto, IInv, TypeOK
<1>8. PlaceInv'
  BY <1>1, <1>2 DEF IInv, PlaceInv
<1>9. BudgetInv'
  <2> SUFFICES ASSUME NEW t \in Seats
               PROVE  /\ budget'[t].day <= day
                      /\ sessions'.today[t] = Used(t)'
                      /\ pc'[t] \in {"wall", "spend"} => Used(t)' < BudgetCap
    BY <1>1 DEF BudgetInv
  <2>1. CASE t = s
    <3>1. budget'[s] = [day |-> day, count |-> Used(s) + 1] /\ pc'[s] = "session"
          /\ sessions'.today[s] = Used(s) + 1 /\ day' = day
      BY <1>1, <1>2, <1>5, <1>6
    <3>2. Used(s)' = Used(s) + 1
      BY <3>1 DEF Used
    <3> QED
      BY <1>3, <2>1, <3>1, <3>2
  <2>2. CASE t # s
    <3>1. budget'[t] = budget[t] /\ sessions'.today[t] = sessions.today[t] /\ pc'[t] = pc[t]
      BY <1>2, <1>5, <1>6, <2>2
    <3>2. Used(t)' = Used(t)
      BY <1>1, <3>1 DEF Used
    <3> QED
      BY <3>1, <3>2 DEF IInv, BudgetInv
  <2> QED
    BY <2>1, <2>2
<1>10. WallInv' /\ HopsInv'
  BY <1>1 DEF IInv, WallInv, HopsInv, Seen, Looks, HumanPosts
<1> QED
  BY <1>7, <1>8, <1>9, <1>10 DEF IInv

(* A new post moves nothing else.                                          *)
LEMMA SayKeeps ==
    ASSUME IInv, SummonsAssumption, NEW post \in Post, Say(post),
           UNCHANGED <<day, wall, budget, adapterVars, crashes, historyVars>>
    PROVE  IInv'
<1>1. /\ channel \in Seq(Post) /\ channel' = Append(channel, post) /\ Len(channel) < MaxPosts
      /\ wall.unparkSeq \in Nat /\ wall.unparkSeq <= Len(channel)
      /\ pos \in [Seats -> 0..MaxPosts]
  BY DEF Say, IInv, TypeOK, WallInv
<1>2. channel' \in Seq(Post) /\ Len(channel') = Len(channel) + 1
  BY <1>1
<1>3. TypeOK'
  BY <1>2 DEF IInv, TypeOK, adapterVars, historyVars
<1>4. PlaceInv'
  BY <1>1, <1>2, SummonsAssumption DEF IInv, PlaceInv, adapterVars
<1>5. BudgetInv'
  BY DEF IInv, BudgetInv, Used, adapterVars, historyVars
<1>6. WallInv'
  BY <1>1, <1>2 DEF IInv, WallInv, historyVars
<1>7. HopsInv'
  BY <1>1, AppendKeepsSeen DEF IInv, HopsInv, historyVars
<1> QED
  BY <1>3, <1>4, <1>5, <1>6, <1>7 DEF IInv

(* The reply is posted before the mention counts as handled.               *)
LEMMA ReplyKeeps == ASSUME IInv, SummonsAssumption, NEW s \in Seats, Reply(s) PROVE IInv'
<1>1. pos[s] < Len(channel) /\ UNCHANGED <<day, wall, budget, crashes, granted, sessions>>
  BY DEF Reply, historyVars, IInv, PlaceInv
<1>2. CASE UNCHANGED channel
  BY <1>1, <1>2, HandledKeeps DEF Reply
<1>3. CASE \E mentions \in SUBSET (Seats \ {s}), cites \in BOOLEAN :
             Say([by |-> s, to |-> EndTheChain(s, mentions), cites |-> cites])
  <2>1. PICK post \in Post : Say(post)
    <3>1. PICK mentions \in SUBSET (Seats \ {s}), cites \in BOOLEAN :
               Say([by |-> s, to |-> EndTheChain(s, mentions), cites |-> cites])
      BY <1>3
    <3>2. [by |-> s, to |-> EndTheChain(s, mentions), cites |-> cites] \in Post
      BY DEF Post, EndTheChain
    <3> QED
      BY <3>1, <3>2
  <2>2. /\ channel \in Seq(Post) /\ channel' = Append(channel, post) /\ Len(channel) < MaxPosts
        /\ wall.unparkSeq \in Nat /\ wall.unparkSeq <= Len(channel)
        /\ pos \in [Seats -> 0..MaxPosts]
    BY <2>1 DEF Say, IInv, TypeOK, WallInv
  <2>3. channel' \in Seq(Post) /\ Len(channel') = Len(channel) + 1
    BY <2>2
  <2>4. \A t \in Seats : /\ pc'[t] = IF t = s THEN "idle" ELSE pc[t]
                         /\ pos'[t] = IF t = s THEN pos[s] + 1 ELSE pos[t]
    BY <2>2 DEF Reply, Handled, Goto, IInv, TypeOK
  <2>5. pos' \in [Seats -> 0..MaxPosts]
    BY <1>1, <2>2, SummonsAssumption DEF Reply, Handled
  <2>6. chain' \in [Seats -> BOOLEAN]
    BY Zenon DEF Reply, Handled, IInv, TypeOK
  <2>7. pc' \in [Seats -> {"idle", "detect", "wall", "spend", "session"}]
    BY DEF Reply, Handled, Goto, IInv, TypeOK
  <2>8. TypeOK'
    BY <1>1, <2>3, <2>5, <2>6, <2>7 DEF IInv, TypeOK
  <2>9. PlaceInv'
    BY <1>1, <2>2, <2>3, <2>4, SummonsAssumption DEF IInv, PlaceInv
  <2>10. BudgetInv'
    BY <1>1, <2>4 DEF IInv, BudgetInv, Used
  <2>11. WallInv'
    BY <1>1, <2>2, <2>3 DEF IInv, WallInv
  <2>12. HopsInv'
    BY <1>1, <2>2, AppendKeepsSeen DEF IInv, HopsInv
  <2> QED
    BY <2>8, <2>9, <2>10, <2>11, <2>12 DEF IInv
<1> QED
  BY <1>2, <1>3 DEF Reply

(* What was posted meanwhile is skipped.                                   *)
LEMMA ReconnectKeeps == ASSUME IInv, SummonsAssumption, NEW s \in Seats, Reconnect(s) PROVE IInv'
<1>1. channel \in Seq(Post)
  BY DEF IInv, TypeOK
<1>2. MaxCrashes \in Nat /\ MaxPosts \in Nat
  BY DEF SummonsAssumption
<1>3. pos \in [Seats -> 0..MaxPosts] /\ crashes \in 0..MaxCrashes
  BY DEF IInv, TypeOK
<1>4. Len(channel) \in Nat /\ Len(channel) <= MaxPosts
  BY <1>1 DEF IInv, PlaceInv
<1>5. \A t \in Seats : /\ pc'[t] = IF t = s THEN "idle" ELSE pc[t]
                       /\ pos'[t] = IF t = s THEN Len(channel) ELSE pos[t]
  BY <1>3 DEF Reconnect, Goto, IInv, TypeOK
<1>6. pos' \in [Seats -> 0..MaxPosts] /\ crashes' \in 0..MaxCrashes
  BY <1>2, <1>3, <1>4 DEF Reconnect
<1>7. chain' \in [Seats -> BOOLEAN]
  BY Zenon DEF Reconnect, IInv, TypeOK
<1>8. pc' \in [Seats -> {"idle", "detect", "wall", "spend", "session"}]
  BY DEF Reconnect, Goto, IInv, TypeOK
<1>9. \A t \in Seats : /\ pos'[t] <= Len(channel)
                       /\ pc'[t] # "idle" => pos'[t] < Len(channel)
                       /\ pc'[t] \in {"wall", "spend"} => Used(t) < BudgetCap
  BY <1>4, <1>5 DEF IInv, PlaceInv, BudgetInv
<1> QED
  BY <1>6, <1>7, <1>8, <1>9, QuietKeeps DEF Reconnect, historyVars

(* The counts of a date that is over stand for nothing.                    *)
LEMMA MidnightKeeps == ASSUME IInv, SummonsAssumption, Midnight PROVE IInv'
<1>1. BudgetCap \in Nat /\ MaxDay \in Nat
  BY DEF SummonsAssumption
<1>2. /\ day \in 0..MaxDay /\ day' = day + 1 /\ day' \in 0..MaxDay
      /\ UNCHANGED <<channel, wall, budget, adapterVars, crashes>>
      /\ sessions \in [human : Nat, bot : Nat, today : [Seats -> Nat]]
      /\ granted \in [all : Nat, today : Nat]
  <2>1. /\ day \in 0..MaxDay
        /\ sessions \in [human : Nat, bot : Nat, today : [Seats -> Nat]]
        /\ granted \in [all : Nat, today : Nat]
    BY DEF IInv, TypeOK
  <2> QED
    BY <1>1, <2>1 DEF Midnight
<1>3. /\ sessions' \in [human : Nat, bot : Nat, today : [Seats -> Nat]]
      /\ \A s \in Seats : sessions'.today[s] = 0
      /\ granted' \in [all : Nat, today : Nat] /\ granted'.today = 0
      /\ granted'.all = granted.all
  BY <1>2 DEF Midnight
<1>4. TypeOK'
  BY <1>2, <1>3 DEF IInv, TypeOK, adapterVars
<1>5. PlaceInv'
  BY <1>2 DEF IInv, PlaceInv, adapterVars
<1>6. BudgetInv'
  <2> SUFFICES ASSUME NEW s \in Seats
               PROVE  /\ budget[s].day <= day'
                      /\ sessions'.today[s] = Used(s)'
                      /\ pc[s] \in {"wall", "spend"} => Used(s)' < BudgetCap
    BY <1>2 DEF BudgetInv, adapterVars
  <2>1. budget[s] \in [day : 0..MaxDay, count : 0..BudgetCap]
    BY DEF IInv, TypeOK
  <2>2. /\ budget[s].day <= day /\ budget[s].day \in Nat /\ Used(s) \in Nat
        /\ pc[s] \in {"wall", "spend"} => Used(s) < BudgetCap
    BY <1>1, <2>1 DEF IInv, BudgetInv, Used
  <2>3. Used(s)' = 0
    BY <1>2, <2>2 DEF Used
  <2> QED
    BY <1>1, <1>2, <1>3, <2>2, <2>3
<1>7. WallInv'
  <2>1. wall \in WallRecord /\ wall.day <= day /\ wall.unparkSeq <= Len(channel)
    BY DEF IInv, TypeOK, WallInv, WallRecord
  <2>2. wall'.day <= day' /\ wall'.day # day'
    BY <1>1, <1>2, <2>1 DEF WallRecord
  <2>3. channel' = channel /\ wall' = wall
    BY <1>2
  <2> QED
    BY <1>3, <2>1, <2>2, <2>3 DEF WallInv
<1>8. HopsInv'
  BY <1>2, <1>3 DEF IInv, HopsInv, Seen, Looks, HumanPosts
<1> QED
  BY <1>4, <1>5, <1>6, <1>7, <1>8 DEF IInv

-----------------------------------------------------------------------------
(* The ledger may hold any counts of today before the first post.          *)
LEMMA InitIInv == ASSUME SummonsAssumption, Init PROVE IInv
<1>1. channel = <<>> /\ Len(channel) = 0 /\ channel \in Seq(Post)
  BY DEF Init
<1>2. PICK hops \in 0..HopCap, dayHops \in 0..DailyHopCap :
         /\ wall = [day |-> 0, hops |-> hops, dayHops |-> dayHops, unparkSeq |-> 0]
         /\ granted = [all |-> hops, today |-> dayHops]
  BY DEF Init
<1>3. {HopCap, DailyHopCap, BudgetCap, MaxPosts, MaxHuman, MaxDay, MaxCrashes} \subseteq Nat
  BY DEF SummonsAssumption
<1>4. TypeOK
  BY <1>1, <1>2, <1>3 DEF Init, TypeOK
<1>5. PlaceInv /\ BudgetInv
  BY <1>1, <1>3 DEF Init, PlaceInv, BudgetInv, Used
<1>6. WallInv
  BY <1>1, <1>2 DEF Init, WallInv
<1>7. HopsInv
  <2>1. Cardinality(Seen) \in Nat
    BY <1>1, LooksAreFinite
  <2>2. HopCap * Cardinality(Seen) \in Nat
    BY <1>3, <2>1
  <2> QED
    BY <1>2, <1>3, <2>2 DEF HopsInv
<1> QED
  BY <1>4, <1>5, <1>6, <1>7 DEF IInv

(* A stuttering step keeps everything.                                     *)
LEMMA StutterKeeps == ASSUME IInv, UNCHANGED vars PROVE IInv'
BY DEF IInv, TypeOK, PlaceInv, BudgetInv, WallInv, HopsInv, Used, Seen, Looks, HumanPosts,
   vars, adapterVars, historyVars

(* The invariant holds in every behaviour: the ledgers agree with what was *)
(* granted, whatever is posted, lost or restarted.                         *)
THEOREM SummonsInvariance == Spec => []IInv
<1>1. IInv /\ [Next]_vars => IInv'
  <2> SUFFICES ASSUME IInv, [Next]_vars PROVE IInv'
    OBVIOUS
  <2> USE SummonsAssumption
  <2>1. ASSUME NEW s \in Seats, Adapter(s) PROVE IInv'
    BY <2>1, MaybeUnparkKeeps, DetectKeeps, ClearTheHopWallKeeps, SpendBudgetKeeps, ReplyKeeps
       DEF Adapter
  <2>2. ASSUME NEW s \in Seats, Reconnect(s) PROVE IInv'
    BY <2>2, ReconnectKeeps
  <2>3. CASE PersonPosts
    <3>1. PICK mentions \in SUBSET Seats, cites \in BOOLEAN :
             Say([by |-> Human, to |-> mentions, cites |-> cites])
      BY <2>3 DEF PersonPosts
    <3>2. [by |-> Human, to |-> mentions, cites |-> cites] \in Post
      BY DEF Post
    <3> QED
      BY <2>3, <3>1, <3>2, SayKeeps DEF PersonPosts
  <2>4. CASE Midnight
    BY <2>4, MidnightKeeps
  <2>5. CASE UNCHANGED vars
    BY <2>5, StutterKeeps
  <2> QED
    BY <2>1, <2>2, <2>3, <2>4, <2>5 DEF Next
<1> QED
  BY InitIInv, SummonsAssumption, <1>1, PTL DEF Spec

(* Types, and the wall's counts never exceed its caps.                     *)
THEOREM SummonsTypeCorrect == Spec => []TypeOK
<1>1. IInv => TypeOK
  BY DEF IInv
<1> QED
  BY SummonsInvariance, <1>1, PTL

(* A day has at most DailyHopCap hops, whatever people post.               *)
THEOREM DayHasItsCeiling == Spec => []DailyCeiling
<1>1. IInv => DailyCeiling
  <2> SUFFICES ASSUME IInv PROVE DailyCeiling
    OBVIOUS
  <2>1. wall.dayHops \in 0..DailyHopCap /\ DailyHopCap \in Nat
    BY SummonsAssumption DEF IInv, TypeOK, SummonsAssumption
  <2> QED
    BY <2>1 DEF IInv, WallInv, DailyCeiling
<1> QED
  BY SummonsInvariance, <1>1, PTL

(* A seat runs at most BudgetCap sessions a day.                           *)
THEOREM BudgetIsKept == Spec => []BudgetHolds
<1>1. IInv => BudgetHolds
  <2> SUFFICES ASSUME IInv, NEW s \in Seats PROVE sessions.today[s] <= BudgetCap
    BY DEF BudgetHolds
  <2>1. budget[s].count \in 0..BudgetCap /\ BudgetCap \in Nat
    BY SummonsAssumption DEF IInv, TypeOK, SummonsAssumption
  <2> QED
    BY <2>1 DEF IInv, BudgetInv, Used
<1> QED
  BY SummonsInvariance, <1>1, PTL

(* A work item has at most HopCap hops for each look of a person, and      *)
(* HopCap before the first.                                                *)
THEOREM LooksPayForHops == Spec => []HopsPerLook
<1>1. IInv => HopsPerLook
  <2> SUFFICES ASSUME IInv PROVE HopsPerLook
    OBVIOUS
  <2> DEFINE n == Cardinality(Seen)
             m == Cardinality(Looks)
  <2>1. n \in Nat /\ m \in Nat /\ n <= m
    BY LooksAreFinite DEF IInv, TypeOK
  <2>2. wall.hops \in 0..HopCap /\ HopCap \in Nat /\ granted.all \in Nat
    BY SummonsAssumption DEF IInv, TypeOK, SummonsAssumption
  <2>3. granted.all <= HopCap * n + wall.hops
    BY DEF IInv, HopsInv
  <2>4. HopsPerLook <=> granted.all <= HopCap * (1 + m)
    BY DEF HopsPerLook
  <2> HIDE DEF n, m
  <2>5. PICK k \in Nat : m = n + k
    BY <2>1, m - n \in Nat
  <2>6. HopCap * (1 + m) = HopCap + HopCap * n + HopCap * k
    BY <2>1, <2>2, <2>5
  <2>7. HopCap * n \in Nat /\ HopCap * k \in Nat
    BY <2>1, <2>2, <2>5
  <2> QED
    BY <2>2, <2>3, <2>4, <2>6, <2>7
<1> QED
  BY SummonsInvariance, <1>1, PTL

-----------------------------------------------------------------------------
(* What a bot's session is earned by *)

(* Posts of bots that mention a seat, and each mention of them.            *)
BotPosts == {i \in 1..Len(channel) : channel[i].by \in Seats /\ channel[i].to # {}}
Mentions == {m \in (1..Len(channel)) \X Seats :
                channel[m[1]].by \in Seats /\ m[2] \in channel[m[1]].to}

(* A mention is over once it has been handled or its session runs.         *)
Over == {m \in Mentions : \/ m[1] <= pos[m[2]]
                          \/ (m[1] = pos[m[2]] + 1 /\ pc[m[2]] = "session")}

(* The seats whose next reply may mention a bot.                           *)
Speakers == {s \in Seats : chain[s] \/ (pc[s] = "session" /\ At(s).by = Human)}

(* A busy adapter is busy with a mention of its seat, and a chain is what  *)
(* the hop of that mention gave.                                           *)
ChainInv ==
    \A s \in Seats :
       /\ pc[s] \in {"wall", "spend", "session"} => s \in At(s).to
       /\ chain[s] => pc[s] \in {"spend", "session"}

(* Each session of a bot's making stands for a mention that is over, there *)
(* are at most as many mentions as seats to mention, and each such post    *)
(* was paid for by a session of a person's making or by a hop.             *)
EarnInv ==
    /\ ChainInv
    /\ sessions.bot <= Cardinality(Over)
    /\ Cardinality(Mentions) <= (Cardinality(Seats) - 1) * Cardinality(BotPosts)
    /\ Cardinality(BotPosts) + Cardinality(Speakers) <= sessions.human + granted.all

(* All of these sets are finite.                                           *)
LEMMA EarnSetsAreFinite ==
    ASSUME SummonsAssumption, channel \in Seq(Post)
    PROVE  /\ IsFiniteSet(BotPosts) /\ Cardinality(BotPosts) \in Nat
           /\ IsFiniteSet(Mentions) /\ Cardinality(Mentions) \in Nat
           /\ IsFiniteSet(Over) /\ Cardinality(Over) \in Nat
           /\ IsFiniteSet(Speakers) /\ Cardinality(Speakers) \in Nat
           /\ IsFiniteSet(Seats) /\ Cardinality(Seats) \in Nat
           /\ Cardinality(Over) <= Cardinality(Mentions)
<1>1. IsFiniteSet(1..Len(channel)) /\ IsFiniteSet(Seats)
  BY FS_Interval DEF SummonsAssumption
<1>2. IsFiniteSet((1..Len(channel)) \X Seats)
  BY <1>1, FS_Product
<1>3. BotPosts \in SUBSET (1..Len(channel)) /\ Mentions \in SUBSET ((1..Len(channel)) \X Seats)
      /\ Over \in SUBSET Mentions /\ Speakers \in SUBSET Seats
  BY DEF BotPosts, Mentions, Over, Speakers
<1>4. IsFiniteSet(BotPosts) /\ IsFiniteSet(Mentions) /\ IsFiniteSet(Speakers)
  BY <1>1, <1>2, <1>3, FS_Subset
<1>5. IsFiniteSet(Over) /\ Cardinality(Over) <= Cardinality(Mentions)
  BY <1>3, <1>4, FS_Subset
<1> QED
  BY <1>1, <1>4, <1>5, FS_CardinalityType

(* The same with the next state's sets.                                    *)
LEMMA EarnSetsStayFinite ==
    ASSUME SummonsAssumption, channel' \in Seq(Post)
    PROVE  /\ IsFiniteSet(Over') /\ Cardinality(Over') \in Nat
           /\ IsFiniteSet(Speakers') /\ Cardinality(Speakers') \in Nat
<1>1. IsFiniteSet(1..Len(channel')) /\ IsFiniteSet(Seats)
  BY FS_Interval DEF SummonsAssumption
<1>2. IsFiniteSet((1..Len(channel')) \X Seats)
  BY <1>1, FS_Product
<1>3. Over' \in SUBSET ((1..Len(channel')) \X Seats) /\ Speakers' \in SUBSET Seats
  BY DEF Mentions, Over, Speakers
<1>4. IsFiniteSet(Over') /\ IsFiniteSet(Speakers')
  BY <1>1, <1>2, <1>3, FS_Subset
<1> QED
  BY <1>4, FS_CardinalityType

(* Mentions get over and stay so when every adapter moves forward.         *)
LEMMA OverStays ==
    ASSUME IInv, IInv', channel' = channel,
           \A t \in Seats : \/ pos[t] < pos'[t]
                            \/ pos'[t] = pos[t] /\ (pc[t] = "session" => pc'[t] = "session")
    PROVE  Over \in SUBSET Over' /\ Mentions' = Mentions /\ BotPosts' = BotPosts
<1>1. Mentions' = Mentions /\ BotPosts' = BotPosts
  BY DEF Mentions, BotPosts
<1>2. ASSUME NEW m \in Over PROVE m \in Over'
  <2>1. m \in Mentions /\ m[1] \in Nat /\ m[2] \in Seats
    BY DEF Over, Mentions
  <2>2. pos \in [Seats -> 0..MaxPosts] /\ pos' \in [Seats -> 0..MaxPosts]
    BY DEF IInv, TypeOK
  <2>3. pos[m[2]] \in Nat /\ pos'[m[2]] \in Nat
    BY <2>1, <2>2
  <2> QED
    BY <1>1, <2>1, <2>3 DEF Over
<1> QED
  BY <1>1, <1>2

(* A session of a bot's making begins with a mention that was not over.    *)
LEMMA MentionsCoverSessions ==
    ASSUME SummonsAssumption, IInv, IInv', EarnInv, Over \in SUBSET Over', NEW m,
           \/ sessions'.bot = sessions.bot
           \/ sessions'.bot = sessions.bot + 1 /\ m \in Over' /\ m \notin Over
    PROVE  sessions'.bot <= Cardinality(Over')
<1>1. channel \in Seq(Post) /\ channel' \in Seq(Post) /\ sessions.bot \in Nat
  BY DEF IInv, TypeOK
<1>2. /\ IsFiniteSet(Over) /\ Cardinality(Over) \in Nat
      /\ IsFiniteSet(Over') /\ Cardinality(Over') \in Nat
  BY <1>1, EarnSetsAreFinite, EarnSetsStayFinite
<1>3. sessions.bot <= Cardinality(Over)
  BY DEF EarnInv
<1>4. CASE sessions'.bot = sessions.bot
  <2>1. Cardinality(Over) <= Cardinality(Over')
    BY <1>2, FS_Subset
  <2> QED
    BY <1>1, <1>2, <1>3, <1>4, <2>1
<1>5. CASE sessions'.bot = sessions.bot + 1 /\ m \in Over' /\ m \notin Over
  <2>1. Cardinality(Over \cup {m}) = Cardinality(Over) + 1
    BY <1>2, <1>5, FS_AddElement
  <2>2. Over \cup {m} \in SUBSET Over'
    BY <1>5
  <2>3. Cardinality(Over \cup {m}) <= Cardinality(Over')
    BY <1>2, <2>2, FS_Subset
  <2> QED
    BY <1>1, <1>2, <1>3, <1>5, <2>1, <2>3
<1> QED
  BY <1>4, <1>5

(* Both counts are numbers.                                                *)
LEMMA EarnedIsCounted ==
    ASSUME IInv
    PROVE  /\ sessions.human \in Nat /\ granted.all \in Nat
           /\ sessions.human + granted.all \in Nat
           /\ sessions.human + granted.all >= sessions.human + granted.all
<1>1. sessions \in [human : Nat, bot : Nat, today : [Seats -> Nat]]
      /\ granted \in [all : Nat, today : Nat]
  BY DEF IInv, TypeOK
<1>2. sessions.human \in Nat /\ granted.all \in Nat
  BY <1>1
<1> QED
  BY <1>2

(* A seat becomes a speaker by a session of a person's making or by a hop. *)
LEMMA SpeakersArePaid ==
    ASSUME SummonsAssumption, IInv, IInv', EarnInv, BotPosts' = BotPosts, NEW s \in Seats,
           \/ /\ Speakers' \in SUBSET Speakers
              /\ sessions'.human + granted'.all >= sessions.human + granted.all
           \/ /\ Speakers' \in SUBSET (Speakers \cup {s})
              /\ sessions'.human + granted'.all = sessions.human + granted.all + 1
    PROVE  Cardinality(BotPosts') + Cardinality(Speakers') <= sessions'.human + granted'.all
<1> DEFINE earned == sessions.human + granted.all
           earnedThen == sessions'.human + granted'.all
<1>1. channel \in Seq(Post) /\ channel' \in Seq(Post)
  BY DEF IInv, TypeOK
<1>2. earned \in Nat /\ earnedThen \in Nat
  <2>1. /\ sessions \in [human : Nat, bot : Nat, today : [Seats -> Nat]]
        /\ sessions' \in [human : Nat, bot : Nat, today : [Seats -> Nat]]
        /\ granted \in [all : Nat, today : Nat] /\ granted' \in [all : Nat, today : Nat]
    BY DEF IInv, TypeOK
  <2> QED
    BY <2>1
<1>3. /\ IsFiniteSet(Speakers) /\ Cardinality(Speakers) \in Nat
      /\ IsFiniteSet(Speakers') /\ Cardinality(Speakers') \in Nat
      /\ Cardinality(BotPosts) \in Nat
  BY <1>1, EarnSetsAreFinite, EarnSetsStayFinite
<1>4. Cardinality(BotPosts) + Cardinality(Speakers) <= earned
  BY DEF EarnInv
<1>5. CASE Speakers' \in SUBSET Speakers /\ earnedThen >= earned
  <2>1. Cardinality(Speakers') <= Cardinality(Speakers)
    BY <1>3, <1>5, FS_Subset
  <2> HIDE DEF earned, earnedThen
  <2>2. Cardinality(BotPosts) + Cardinality(Speakers') <= earnedThen
    BY <1>2, <1>3, <1>4, <1>5, <2>1
  <2> QED
    BY <2>2 DEF earned, earnedThen
<1>6. CASE Speakers' \in SUBSET (Speakers \cup {s}) /\ earnedThen = earned + 1
  <2>1. /\ IsFiniteSet(Speakers \cup {s})
        /\ Cardinality(Speakers \cup {s}) = IF s \in Speakers THEN Cardinality(Speakers)
                                                              ELSE Cardinality(Speakers) + 1
    BY <1>3, FS_AddElement
  <2>2. Cardinality(Speakers') <= Cardinality(Speakers \cup {s})
    BY <1>6, <2>1, FS_Subset
  <2>3. Cardinality(Speakers') <= Cardinality(Speakers) + 1
    BY <1>3, <2>1, <2>2
  <2> HIDE DEF earned, earnedThen
  <2>4. Cardinality(BotPosts) + Cardinality(Speakers') <= earnedThen
    BY <1>2, <1>3, <1>4, <1>6, <2>3
  <2> QED
    BY <2>4 DEF earned, earnedThen
<1> QED
  BY <1>5, <1>6

(* An adapter that drops or handles a mention outside a session.           *)
LEMMA HandledEarns ==
    ASSUME SummonsAssumption, IInv, IInv', EarnInv, NEW s \in Seats, Handled(s), channel' = channel,
           sessions'.bot = sessions.bot,
           sessions'.human + granted'.all >= sessions.human + granted.all
    PROVE  EarnInv'
<1>1. /\ pos \in [Seats -> 0..MaxPosts] /\ chain \in [Seats -> BOOLEAN]
      /\ pc \in [Seats -> {"idle", "detect", "wall", "spend", "session"}]
  BY DEF IInv, TypeOK
<1>2. \A t \in Seats : /\ pc'[t] = IF t = s THEN "idle" ELSE pc[t]
                       /\ pos'[t] = IF t = s THEN pos[s] + 1 ELSE pos[t]
  BY <1>1 DEF Handled, Goto
<1>3. \A t \in Seats : chain'[t] = IF t = s THEN FALSE ELSE chain[t]
  BY <1>1, Zenon DEF Handled
<1>4. \A t \in Seats : t # s => At(t)' = At(t)
  BY <1>2 DEF At
<1>5. ChainInv'
  BY <1>2, <1>3, <1>4 DEF EarnInv, ChainInv
<1>6. Speakers' \in SUBSET Speakers
  BY <1>2, <1>3, <1>4 DEF Speakers
<1>7. Over \in SUBSET Over' /\ Mentions' = Mentions /\ BotPosts' = BotPosts
  BY <1>1, <1>2, OverStays
<1>8. sessions'.bot <= Cardinality(Over')
  BY <1>7, MentionsCoverSessions
<1>9. Cardinality(BotPosts') + Cardinality(Speakers') <= sessions'.human + granted'.all
  BY <1>6, <1>7, SpeakersArePaid
<1> QED
  BY <1>5, <1>7, <1>8, <1>9 DEF EarnInv

(* Reporting a post to the broker starts nothing.                          *)
LEMMA MaybeUnparkEarns ==
    ASSUME SummonsAssumption, IInv, IInv', EarnInv, NEW s \in Seats, MaybeUnpark(s)
    PROVE  EarnInv'
<1>1. /\ pc \in [Seats -> {"idle", "detect", "wall", "spend", "session"}] /\ pc[s] = "idle"
      /\ UNCHANGED <<channel, pos, chain, granted, sessions>>
  BY DEF IInv, TypeOK, MaybeUnpark, historyVars
<1>2. \A t \in Seats : pc'[t] = IF t = s THEN "detect" ELSE pc[t]
  BY <1>1 DEF MaybeUnpark, Goto
<1>3. \A t \in Seats : At(t)' = At(t)
  BY <1>1 DEF At
<1>4. ChainInv'
  BY <1>1, <1>2, <1>3 DEF EarnInv, ChainInv
<1>5. Speakers' \in SUBSET Speakers
  BY <1>1, <1>2, <1>3 DEF Speakers
<1>6. Over \in SUBSET Over' /\ Mentions' = Mentions /\ BotPosts' = BotPosts
  BY <1>1, <1>2, OverStays
<1>7. sessions'.bot <= Cardinality(Over')
  BY <1>1, <1>6, MentionsCoverSessions
<1>8. Cardinality(BotPosts') + Cardinality(Speakers') <= sessions'.human + granted'.all
  <2>1. sessions'.human + granted'.all >= sessions.human + granted.all
    BY <1>1, EarnedIsCounted
  <2> QED
    BY <1>5, <1>6, <2>1, SpeakersArePaid
<1> QED
  BY <1>4, <1>6, <1>7, <1>8 DEF EarnInv

(* A summon that goes on is a mention of the seat.                         *)
LEMMA DetectEarns ==
    ASSUME SummonsAssumption, IInv, IInv', EarnInv, NEW s \in Seats, Detect(s)
    PROVE  EarnInv'
<1>1. /\ pc \in [Seats -> {"idle", "detect", "wall", "spend", "session"}]
      /\ pc[s] \in {"idle", "detect"} /\ UNCHANGED <<channel, granted, sessions>>
  BY DEF IInv, TypeOK, Detect, historyVars
<1>2. sessions'.human + granted'.all >= sessions.human + granted.all
  BY <1>1, EarnedIsCounted
<1>3. CASE Handled(s)
  BY <1>1, <1>2, <1>3, HandledEarns
<1>4. CASE /\ s \in At(s).to /\ UNCHANGED <<pos, chain>>
           /\ Goto(s, IF At(s).by = Human THEN "spend" ELSE "wall")
  <2>1. \A t \in Seats : t # s => pc'[t] = pc[t]
    BY <1>1, <1>4 DEF Goto
  <2>2. pc'[s] \in {"spend", "wall"} /\ ~chain[s]
    BY <1>1, <1>4 DEF Goto, EarnInv, ChainInv
  <2>3. \A t \in Seats : At(t)' = At(t)
    BY <1>1, <1>4 DEF At
  <2>4. ChainInv'
    BY <1>4, <2>1, <2>2, <2>3 DEF EarnInv, ChainInv
  <2>5. Speakers' \in SUBSET Speakers
    BY <1>4, <2>1, <2>2, <2>3 DEF Speakers
  <2>6. Over \in SUBSET Over' /\ Mentions' = Mentions /\ BotPosts' = BotPosts
    BY <1>1, <1>4, <2>1, OverStays
  <2>7. sessions'.bot <= Cardinality(Over')
    BY <1>1, <2>6, MentionsCoverSessions
  <2>8. Cardinality(BotPosts') + Cardinality(Speakers') <= sessions'.human + granted'.all
    BY <1>2, <2>5, <2>6, SpeakersArePaid
  <2> QED
    BY <2>4, <2>6, <2>7, <2>8 DEF EarnInv
<1> QED
  BY <1>3, <1>4 DEF Detect

(* The hop that lets a reply mention a bot is charged.                     *)
LEMMA ClearTheHopWallEarns ==
    ASSUME SummonsAssumption, IInv, IInv', EarnInv, NEW s \in Seats, ClearTheHopWall(s)
    PROVE  EarnInv'
<1>1. /\ pc \in [Seats -> {"idle", "detect", "wall", "spend", "session"}]
      /\ chain \in [Seats -> BOOLEAN] /\ granted \in [all : Nat, today : Nat]
      /\ sessions.human \in Nat /\ pc[s] = "wall" /\ UNCHANGED <<channel, sessions>>
  BY DEF IInv, TypeOK, ClearTheHopWall
<1>2. CASE Handled(s) /\ UNCHANGED granted
  BY <1>1, <1>2, HandledEarns
<1>3. CASE /\ Goto(s, "spend") /\ UNCHANGED pos
           /\ \/ chain' = chain /\ granted' = granted
              \/ /\ \E answered \in BOOLEAN : chain' = [chain EXCEPT ![s] = answered]
                 /\ granted'.all = granted.all + 1
  <2>1. \A t \in Seats : pc'[t] = IF t = s THEN "spend" ELSE pc[t]
    BY <1>1, <1>3 DEF Goto
  <2>2. \A t \in Seats : t # s => chain'[t] = chain[t]
    BY <1>1, <1>3
  <2>3. \A t \in Seats : At(t)' = At(t)
    BY <1>1, <1>3 DEF At
  <2>4. ChainInv'
    BY <1>1, <2>1, <2>2, <2>3 DEF EarnInv, ChainInv
  <2>5. /\ Speakers' \in SUBSET (Speakers \cup {s})
        /\ chain' = chain => Speakers' \in SUBSET Speakers
    BY <2>1, <2>2, <2>3 DEF Speakers
  <2>6. Over \in SUBSET Over' /\ Mentions' = Mentions /\ BotPosts' = BotPosts
    BY <1>1, <1>3, <2>1, OverStays
  <2>7. sessions'.bot <= Cardinality(Over')
    BY <1>1, <2>6, MentionsCoverSessions
  <2>8. \/ /\ Speakers' \in SUBSET Speakers
           /\ sessions'.human + granted'.all >= sessions.human + granted.all
        \/ /\ Speakers' \in SUBSET (Speakers \cup {s})
           /\ sessions'.human + granted'.all = sessions.human + granted.all + 1
    BY <1>1, <1>3, <2>5
  <2>9. Cardinality(BotPosts') + Cardinality(Speakers') <= sessions'.human + granted'.all
    BY <2>6, <2>8, SpeakersArePaid
  <2> QED
    BY <2>4, <2>6, <2>7, <2>9 DEF EarnInv
<1>4. Charge => granted'.all = granted.all + 1
  BY <1>1 DEF Charge
<1> QED
  BY <1>2, <1>3, <1>4 DEF ClearTheHopWall

(* A session of a bot's making takes a mention, one of a person's making   *)
(* makes a speaker.                                                        *)
LEMMA SpendBudgetEarns ==
    ASSUME SummonsAssumption, IInv, IInv', EarnInv, NEW s \in Seats, SpendBudget(s)
    PROVE  EarnInv'
<1> DEFINE here == <<pos[s] + 1, s>>
<1>1. /\ pc \in [Seats -> {"idle", "detect", "wall", "spend", "session"}] /\ pc[s] = "spend"
      /\ channel \in Seq(Post) /\ pos \in [Seats -> 0..MaxPosts] /\ pos[s] < Len(channel)
      /\ UNCHANGED <<channel, pos, chain, granted>>
  BY DEF IInv, TypeOK, PlaceInv, SpendBudget
<1>2. \A t \in Seats : pc'[t] = IF t = s THEN "session" ELSE pc[t]
  BY <1>1 DEF SpendBudget, Goto
<1>3. \A t \in Seats : At(t)' = At(t)
  BY <1>1 DEF At
<1>4. s \in At(s).to /\ At(s) \in Post
  BY <1>1 DEF EarnInv, ChainInv, At
<1>5. ChainInv'
  BY <1>1, <1>2, <1>3 DEF EarnInv, ChainInv
<1>6. Over \in SUBSET Over' /\ Mentions' = Mentions /\ BotPosts' = BotPosts
  BY <1>1, <1>2, OverStays
<1>7. sessions.human \in Nat /\ sessions.bot \in Nat /\ granted.all \in Nat
  BY DEF IInv, TypeOK
<1>8. CASE At(s).by = Human
  <2>1. sessions'.bot = sessions.bot /\ sessions'.human = sessions.human + 1
    BY <1>7, <1>8 DEF SpendBudget
  <2>2. Speakers' \in SUBSET (Speakers \cup {s})
    BY <1>1, <1>2, <1>3 DEF Speakers
  <2>3. sessions'.human + granted'.all = sessions.human + granted.all + 1
    BY <1>1, <1>7, <2>1
  <2>4. Cardinality(BotPosts') + Cardinality(Speakers') <= sessions'.human + granted'.all
    BY <1>6, <2>2, <2>3, SpeakersArePaid
  <2>5. sessions'.bot <= Cardinality(Over')
    BY <1>6, <2>1, MentionsCoverSessions
  <2> QED
    BY <1>5, <1>6, <2>4, <2>5 DEF EarnInv
<1>9. CASE At(s).by # Human
  <2>1. sessions'.bot = sessions.bot + 1 /\ sessions'.human = sessions.human
    BY <1>7, <1>9 DEF SpendBudget
  <2>2. Speakers' \in SUBSET Speakers
    BY <1>1, <1>2, <1>3, <1>9 DEF Speakers
  <2>3. sessions'.human + granted'.all >= sessions.human + granted.all
    BY <1>1, <1>7, <2>1
  <2>4. Cardinality(BotPosts') + Cardinality(Speakers') <= sessions'.human + granted'.all
    BY <1>6, <2>2, <2>3, SpeakersArePaid
  <2>5. here \in Mentions
    BY <1>1, <1>4, <1>9 DEF Mentions, At, Post
  <2>6. here \notin Over
    BY <1>1 DEF Over
  <2>7. here \in Over'
    BY <1>1, <1>2, <1>6, <2>5 DEF Over
  <2>8. sessions'.bot <= Cardinality(Over')
    BY <1>6, <2>1, <2>6, <2>7, MentionsCoverSessions
  <2> QED
    BY <1>5, <1>6, <2>4, <2>8 DEF EarnInv
<1> QED
  BY <1>8, <1>9

(* A new post leaves the mentions before it what they were.                *)
LEMMA AppendKeepsMentions ==
    ASSUME SummonsAssumption, IInv, NEW p \in Post, channel' = Append(channel, p)
    PROVE  /\ Mentions' = Mentions \cup (IF p.by \in Seats THEN {Len(channel) + 1} \X p.to ELSE {})
           /\ BotPosts' = BotPosts \cup (IF p.by \in Seats /\ p.to # {} THEN {Len(channel) + 1}
                                                                     ELSE {})
           /\ \A t \in Seats : pc[t] # "idle" => channel'[pos[t] + 1] = At(t)
<1>1. channel \in Seq(Post) /\ p.to \in SUBSET Seats
  BY DEF IInv, TypeOK, Post
<1>2. /\ Len(channel) \in Nat /\ Len(channel') = Len(channel) + 1 /\ channel'[Len(channel) + 1] = p
      /\ \A i \in 1..Len(channel) : channel'[i] = channel[i]
      /\ 1..Len(channel') = (1..Len(channel)) \cup {Len(channel) + 1}
  BY <1>1
<1>3. BotPosts' = BotPosts \cup (IF p.by \in Seats /\ p.to # {} THEN {Len(channel) + 1} ELSE {})
  BY <1>2 DEF BotPosts
<1>4. Mentions' = Mentions \cup (IF p.by \in Seats THEN {Len(channel) + 1} \X p.to ELSE {})
  <2>1. ASSUME NEW m \in Mentions'
        PROVE  m \in Mentions \cup (IF p.by \in Seats THEN {Len(channel) + 1} \X p.to ELSE {})
    BY <1>2 DEF Mentions
  <2>2. Mentions \subseteq Mentions'
    BY <1>2 DEF Mentions
  <2>3. ASSUME p.by \in Seats, NEW m \in {Len(channel) + 1} \X p.to PROVE m \in Mentions'
    BY <1>1, <1>2, <2>3 DEF Mentions
  <2> QED
    BY <2>1, <2>2, <2>3
<1>5. ASSUME NEW t \in Seats, pc[t] # "idle" PROVE channel'[pos[t] + 1] = At(t)
  <2>1. pos[t] \in Nat /\ pos[t] < Len(channel)
    BY <1>5 DEF IInv, TypeOK, PlaceInv
  <2> QED
    BY <1>2, <2>1 DEF At
<1> QED
  BY <1>3, <1>4, <1>5

(* A reply that mentions a bot ends its seat's turn to speak.              *)
LEMMA ReplyEarns ==
    ASSUME SummonsAssumption, IInv, IInv', EarnInv, NEW s \in Seats, Reply(s)
    PROVE  EarnInv'
<1>1. /\ pc \in [Seats -> {"idle", "detect", "wall", "spend", "session"}] /\ pc[s] = "session"
      /\ pos \in [Seats -> 0..MaxPosts] /\ pos[s] < Len(channel)
      /\ chain \in [Seats -> BOOLEAN] /\ channel \in Seq(Post) /\ Handled(s)
      /\ UNCHANGED <<granted, sessions>>
  BY DEF IInv, TypeOK, PlaceInv, Reply, historyVars
<1>2. CASE UNCHANGED channel
  <2>1. sessions'.human + granted'.all >= sessions.human + granted.all
    BY <1>1, EarnedIsCounted
  <2> QED
    BY <1>1, <1>2, <2>1, HandledEarns
<1>3. CASE \E mentions \in SUBSET (Seats \ {s}), cites \in BOOLEAN :
             Say([by |-> s, to |-> EndTheChain(s, mentions), cites |-> cites])
  <2>1. PICK mentions \in SUBSET (Seats \ {s}), cites \in BOOLEAN :
             Say([by |-> s, to |-> EndTheChain(s, mentions), cites |-> cites])
    BY <1>3
  <2> DEFINE p == [by |-> s, to |-> EndTheChain(s, mentions), cites |-> cites]
             n == Len(channel) + 1
             seats == Cardinality(Seats) - 1
             posts == Cardinality(BotPosts)
  <2>2. p \in Post /\ p.by = s /\ p.to \in SUBSET (Seats \ {s}) /\ channel' = Append(channel, p)
    BY <2>1 DEF Post, EndTheChain, Say
  <2>3. p.to # {} /\ s \in Speakers
    <3>1. p.to # {}
      BY <2>1 DEF Say, SummonsAssumption
    <3> QED
      BY <1>1, <3>1 DEF EndTheChain, Speakers
  <2>4. /\ Mentions' = Mentions \cup ({n} \X p.to) /\ BotPosts' = BotPosts \cup {n}
        /\ \A t \in Seats : pc[t] # "idle" => channel'[pos[t] + 1] = At(t)
    BY <2>2, <2>3, AppendKeepsMentions
  <2> HIDE DEF p
  <2>5. \A t \in Seats : /\ pc'[t] = IF t = s THEN "idle" ELSE pc[t]
                         /\ pos'[t] = IF t = s THEN pos[s] + 1 ELSE pos[t]
    BY <1>1 DEF Handled, Goto
  <2>6. \A t \in Seats : chain'[t] = IF t = s THEN FALSE ELSE chain[t]
    BY <1>1, Zenon DEF Handled
  <2>7. \A t \in Seats : t # s /\ pc[t] # "idle" => At(t)' = At(t)
    BY <2>4, <2>5 DEF At
  <2>8. ChainInv'
    BY <2>5, <2>6, <2>7 DEF EarnInv, ChainInv
  <2>9. /\ IsFiniteSet(BotPosts) /\ posts \in Nat /\ IsFiniteSet(Mentions)
        /\ Cardinality(Mentions) \in Nat /\ IsFiniteSet(Speakers) /\ Cardinality(Speakers) \in Nat
        /\ IsFiniteSet(Seats) /\ Cardinality(Seats) \in Nat
        /\ IsFiniteSet(Speakers') /\ Cardinality(Speakers') \in Nat
    BY <1>1, EarnSetsAreFinite, EarnSetsStayFinite DEF IInv, TypeOK
  <2>10. Cardinality(BotPosts') = posts + 1
    <3>1. n \notin BotPosts
      BY <1>1 DEF BotPosts
    <3> QED
      BY <2>4, <2>9, <3>1, FS_AddElement
  <2>11. Cardinality(Speakers') + 1 <= Cardinality(Speakers)
    <3>1. Speakers' \in SUBSET (Speakers \ {s})
      BY <1>1, <2>5, <2>6, <2>7 DEF Speakers
    <3>2. IsFiniteSet(Speakers \ {s}) /\ Cardinality(Speakers \ {s}) = Cardinality(Speakers) - 1
      BY <2>3, <2>9, FS_RemoveElement
    <3>3. Cardinality(Speakers') <= Cardinality(Speakers \ {s})
      BY <3>1, <3>2, FS_Subset
    <3> QED
      BY <2>9, <3>2, <3>3
  <2>12. seats \in Nat /\ IsFiniteSet(p.to) /\ Cardinality(p.to) \in Nat /\ Cardinality(p.to) <= seats
    <3>1. IsFiniteSet(Seats \ {s}) /\ Cardinality(Seats \ {s}) = seats
      BY <2>9, FS_RemoveElement
    <3>2. seats \in Nat
      BY <3>1, FS_CardinalityType
    <3>3. IsFiniteSet(p.to) /\ Cardinality(p.to) <= seats
      BY <2>2, <3>1, FS_Subset
    <3> QED
      BY <3>2, <3>3, FS_CardinalityType
  <2>13. Cardinality(Mentions') <= Cardinality(Mentions) + Cardinality(p.to)
    <3>1. IsFiniteSet({n}) /\ Cardinality({n}) = 1
      BY FS_Singleton
    <3>2. IsFiniteSet({n} \X p.to) /\ Cardinality({n} \X p.to) = 1 * Cardinality(p.to)
      BY <2>12, <3>1, FS_Product
    <3>3. /\ IsFiniteSet(Mentions \cap ({n} \X p.to))
          /\ Cardinality(Mentions') = Cardinality(Mentions) + Cardinality({n} \X p.to)
                                          - Cardinality(Mentions \cap ({n} \X p.to))
      BY <2>4, <2>9, <3>2, FS_Union, FS_Intersection
    <3>4. Cardinality(Mentions \cap ({n} \X p.to)) \in Nat
      BY <3>3, FS_CardinalityType
    <3> QED
      BY <2>9, <2>12, <3>2, <3>3, <3>4
  <2>14. Cardinality(Mentions') <= seats * Cardinality(BotPosts')
    <3>1. Cardinality(Mentions) <= seats * posts
      BY DEF EarnInv
    <3>2. Cardinality(Mentions') \in Nat
      BY <2>4, <2>9, <2>12, FS_Singleton, FS_Product, FS_Union, FS_CardinalityType
    <3> HIDE DEF seats, posts
    <3>3. seats * (posts + 1) = seats * posts + seats /\ seats * posts \in Nat
      BY <2>9, <2>12
    <3> QED
      BY <2>9, <2>10, <2>12, <2>13, <3>1, <3>2, <3>3
  <2>15. Cardinality(BotPosts') + Cardinality(Speakers') <= sessions'.human + granted'.all
    <3>1. posts + Cardinality(Speakers) <= sessions.human + granted.all
      BY DEF EarnInv
    <3>2. sessions.human + granted.all \in Nat
      BY EarnedIsCounted
    <3>3. sessions'.human + granted'.all = sessions.human + granted.all
      BY <1>1
    <3> HIDE DEF posts
    <3> QED
      BY <2>9, <2>10, <2>11, <3>1, <3>2, <3>3
  <2>16. Over \in SUBSET Over'
    <3> SUFFICES ASSUME NEW m \in Over PROVE m \in Over'
      OBVIOUS
    <3>1. m \in Mentions /\ m[1] \in Nat /\ m[2] \in Seats /\ m \in Mentions'
      BY <2>4 DEF Over, Mentions
    <3>2. pos[m[2]] \in Nat
      BY <1>1, <3>1
    <3> QED
      BY <1>1, <2>5, <3>1, <3>2 DEF Over
  <2>17. sessions'.bot <= Cardinality(Over')
    BY <1>1, <2>16, MentionsCoverSessions
  <2> QED
    BY <2>8, <2>14, <2>15, <2>17 DEF EarnInv
<1> QED
  BY <1>2, <1>3 DEF Reply

(* Mentions that are skipped are over, and the seat no longer speaks.      *)
LEMMA ReconnectEarns ==
    ASSUME SummonsAssumption, IInv, IInv', EarnInv, NEW s \in Seats, Reconnect(s)
    PROVE  EarnInv'
<1>1. /\ pc \in [Seats -> {"idle", "detect", "wall", "spend", "session"}]
      /\ pos \in [Seats -> 0..MaxPosts] /\ chain \in [Seats -> BOOLEAN]
      /\ channel \in Seq(Post) /\ UNCHANGED <<channel, granted, sessions>>
      /\ pos[s] <= Len(channel) /\ (pc[s] # "idle" => pos[s] < Len(channel))
  BY DEF IInv, TypeOK, PlaceInv, Reconnect, historyVars
<1>2. \A t \in Seats : /\ pc'[t] = IF t = s THEN "idle" ELSE pc[t]
                       /\ pos'[t] = IF t = s THEN Len(channel) ELSE pos[t]
  BY <1>1 DEF Reconnect, Goto
<1>3. \A t \in Seats : chain'[t] = IF t = s THEN FALSE ELSE chain[t]
  BY <1>1, Zenon DEF Reconnect
<1>4. \A t \in Seats : t # s => At(t)' = At(t)
  BY <1>1, <1>2 DEF At
<1>5. ChainInv'
  BY <1>2, <1>3, <1>4 DEF EarnInv, ChainInv
<1>6. Speakers' \in SUBSET Speakers
  BY <1>2, <1>3, <1>4 DEF Speakers
<1>7. pos[s] < Len(channel) \/ (pos[s] = Len(channel) /\ pc[s] = "idle")
  BY <1>1
<1>8. Over \in SUBSET Over' /\ Mentions' = Mentions /\ BotPosts' = BotPosts
  BY <1>1, <1>2, <1>7, OverStays
<1>9. sessions'.bot <= Cardinality(Over')
  BY <1>1, <1>8, MentionsCoverSessions
<1>10. Cardinality(BotPosts') + Cardinality(Speakers') <= sessions'.human + granted'.all
  <2>1. sessions'.human + granted'.all >= sessions.human + granted.all
    BY <1>1, EarnedIsCounted
  <2> QED
    BY <1>6, <1>8, <2>1, SpeakersArePaid
<1> QED
  BY <1>5, <1>8, <1>9, <1>10 DEF EarnInv

(* A person's post is no mention by a bot.                                 *)
LEMMA PersonPostsEarns ==
    ASSUME SummonsAssumption, IInv, IInv', EarnInv, PersonPosts
    PROVE  EarnInv'
<1>1. PICK p \in Post : p.by = Human /\ channel' = Append(channel, p)
  BY DEF PersonPosts, Say, Post
<1>2. UNCHANGED <<pos, pc, chain, granted, sessions>>
  BY DEF PersonPosts, adapterVars, historyVars
<1>3. /\ Mentions' = Mentions /\ BotPosts' = BotPosts
      /\ \A t \in Seats : pc[t] # "idle" => At(t)' = At(t)
  BY <1>1, <1>2, AppendKeepsMentions DEF At, SummonsAssumption
<1>4. ChainInv'
  BY <1>2, <1>3 DEF EarnInv, ChainInv
<1>5. Over' = Over
  BY <1>2, <1>3 DEF Over
<1>6. Speakers' = Speakers
  BY <1>2, <1>3 DEF Speakers, EarnInv, ChainInv
<1> QED
  BY <1>2, <1>3, <1>4, <1>5, <1>6 DEF EarnInv

(* Midnight earns and costs nothing.                                       *)
LEMMA MidnightEarns ==
    ASSUME SummonsAssumption, IInv, IInv', EarnInv, Midnight
    PROVE  EarnInv'
<1>1. /\ sessions \in [human : Nat, bot : Nat, today : [Seats -> Nat]]
      /\ granted \in [all : Nat, today : Nat]
  BY DEF IInv, TypeOK
<1>2. /\ UNCHANGED <<channel, pos, pc, chain>>
      /\ sessions'.bot = sessions.bot /\ sessions'.human = sessions.human
      /\ granted'.all = granted.all
  BY <1>1 DEF Midnight, adapterVars
<1> QED
  BY <1>2 DEF EarnInv, ChainInv, Over, Mentions, BotPosts, Speakers, At

(* Before the first post nothing has to be earned.                         *)
LEMMA InitEarns == ASSUME SummonsAssumption, Init PROVE EarnInv
<1>1. /\ channel = <<>> /\ Len(channel) = 0 /\ channel \in Seq(Post)
      /\ \A s \in Seats : pc[s] = "idle" /\ ~chain[s]
      /\ sessions.human = 0 /\ sessions.bot = 0 /\ granted.all \in Nat
  BY DEF Init, SummonsAssumption
<1>2. BotPosts = {} /\ Mentions = {} /\ Over = {} /\ Speakers = {}
  BY <1>1 DEF BotPosts, Mentions, Over, Speakers
<1>3. Cardinality({}) = 0
  BY FS_EmptySet
<1>4. Cardinality(Seats) \in Nat
  BY FS_CardinalityType DEF SummonsAssumption
<1> QED
  BY <1>1, <1>2, <1>3, <1>4 DEF EarnInv, ChainInv

(* Bots cannot keep each other busy, whatever is posted, lost, restarted   *)
(* or unparked: each session a bot started stands for one a person started *)
(* or for a hop, times the seats a reply can mention.                      *)
THEOREM BotsDoNotFeedThemselves == Spec => []BotSessionsAreEarned
<1> USE SummonsAssumption
<1>1. Init => EarnInv
  BY InitEarns
<1>2. IInv /\ IInv' /\ EarnInv /\ [Next]_vars => EarnInv'
  <2> SUFFICES ASSUME IInv, IInv', EarnInv, [Next]_vars PROVE EarnInv'
    OBVIOUS
  <2>1. ASSUME NEW s \in Seats, Adapter(s) PROVE EarnInv'
    BY <2>1, MaybeUnparkEarns, DetectEarns, ClearTheHopWallEarns, SpendBudgetEarns, ReplyEarns
       DEF Adapter
  <2>2. ASSUME NEW s \in Seats, Reconnect(s) PROVE EarnInv'
    BY <2>2, ReconnectEarns
  <2>3. CASE UNCHANGED vars
    BY <2>3 DEF EarnInv, ChainInv, Over, Mentions, BotPosts, Speakers, At, vars, adapterVars,
                historyVars
  <2> QED
    BY <2>1, <2>2, <2>3, PersonPostsEarns, MidnightEarns DEF Next
<1>3. IInv /\ EarnInv => BotSessionsAreEarned
  <2> SUFFICES ASSUME IInv, EarnInv PROVE BotSessionsAreEarned
    OBVIOUS
  <2> DEFINE posts == Cardinality(BotPosts)
             earned == sessions.human + granted.all
  <2>1. /\ posts \in Nat /\ Cardinality(Speakers) \in Nat /\ earned \in Nat
        /\ Cardinality(Over) \in Nat /\ Cardinality(Mentions) \in Nat /\ IsFiniteSet(Seats)
        /\ Cardinality(Seats) \in Nat /\ Cardinality(Over) <= Cardinality(Mentions)
        /\ sessions.bot \in Nat
    BY EarnSetsAreFinite, EarnedIsCounted DEF IInv, TypeOK
  <2>2. /\ sessions.bot <= Cardinality(Over) /\ Cardinality(Mentions) <= (Cardinality(Seats) - 1) * posts
        /\ posts + Cardinality(Speakers) <= earned
    BY DEF EarnInv
  <2> DEFINE seats == Cardinality(Seats) - 1
  <2>3. seats \in Nat
    BY <2>1, FS_EmptySet DEF SummonsAssumption
  <2>4. Cardinality(Mentions) <= seats * posts
    BY <2>2
  <2>5. BotSessionsAreEarned <=> sessions.bot <= seats * earned
    BY DEF BotSessionsAreEarned
  <2> HIDE DEF posts, earned, seats
  <2>6. PICK k \in Nat : earned = posts + k
    BY <2>1, <2>2, earned - posts \in Nat
  <2>7. seats * earned = seats * posts + seats * k
    BY <2>1, <2>3, <2>6
  <2>8. seats * posts \in Nat
    BY <2>1, <2>3
  <2>9. seats * k \in Nat
    BY <2>3, <2>6
  <2> QED
    BY <2>1, <2>2, <2>4, <2>5, <2>7, <2>8, <2>9
<1> QED
  BY <1>1, <1>2, <1>3, SummonsInvariance, PTL DEF Spec
=============================================================================
