------------------------------ MODULE Summons -------------------------------
(***************************************************************************)
(* Bots that summon bots in #custodian: one summon adapter per seat        *)
(* (harness/residency/adapter.py, detector.py, hops.py, budget.py) and the *)
(* hop wall the seats share in the broker (HopLedger of                    *)
(* harness/broker/broker_wake.py), on one work item.                       *)
(*                                                                         *)
(* An adapter takes the posts of the channel one at a time; a human post   *)
(* that cites the work item is reported to the broker, a mention may       *)
(* become a session, and the reply of a session is a post again.  Replies  *)
(* may mention the other seat: what ends such a chain is the wall.         *)
(*                                                                         *)
(* Refusals, audit lines and the model gate post text that mentions no     *)
(* one, and are left out with the typing keepalive.                        *)
(***************************************************************************)
EXTENDS Naturals, Sequences, FiniteSets

CONSTANTS
    Seats,       \* the residents with an adapter, peers of one another
    Human,       \* a person
    HopCap, DailyHopCap, \* of the hop wall
    BudgetCap,   \* daily_session_cap
    MaxPosts,    \* bound: posts in the channel
    MaxHuman,    \* bound: posts of people
    MaxDay,      \* bound: midnights
    MaxCrashes   \* bound: restarts and lost connections of adapters

ASSUME SummonsAssumption ==
    /\ IsFiniteSet(Seats) /\ Seats # {} /\ Human \notin Seats
    /\ {HopCap, DailyHopCap, BudgetCap, MaxPosts, MaxHuman, MaxDay, MaxCrashes} \subseteq Nat

VARIABLES
    channel,  \* the posts, oldest first
    day,
    wall,     \* the record of the work item in the ledger
    budget,   \* the state file of each seat
    pos,      \* posts each adapter has handled
    pc,       \* where it is with the next: idle, detect, wall, spend or session
    chain,    \* trigger.chain: the reply may mention a bot
    crashes,
    granted,  \* history: hops charged, since the last look before and today
    sessions  \* history: sessions by the author of the post that summoned them

adapterVars == <<pos, pc, chain>>
historyVars == <<granted, sessions>>
vars == <<channel, day, wall, budget, adapterVars, crashes, historyVars>>

Post == [by : Seats \cup {Human}, to : SUBSET Seats, cites : BOOLEAN]

(* The ledger may hold anything of earlier today; seqs count from there.   *)
Init ==
    /\ channel = <<>>
    /\ day = 0
    /\ \E hops \in 0..HopCap, dayHops \in 0..DailyHopCap :
          /\ wall = [day |-> 0, hops |-> hops, dayHops |-> dayHops, unparkSeq |-> 0]
          /\ granted = [all |-> hops, today |-> dayHops]
    /\ budget = [s \in Seats |-> [day |-> 0, count |-> 0]]
    /\ pos = [s \in Seats |-> 0]
    /\ pc = [s \in Seats |-> "idle"]
    /\ chain = [s \in Seats |-> FALSE]
    /\ crashes = 0
    /\ sessions = [human |-> 0, bot |-> 0, today |-> [s \in Seats |-> 0]]

-----------------------------------------------------------------------------
(* HopLedger *)

(* _record: midnight clears the count of the day and nothing else.         *)
Record == IF wall.day = day THEN wall ELSE [wall EXCEPT !.day = day, !.dayHops = 0]

MaySpend == Record.dayHops < DailyHopCap /\ Record.hops < HopCap

Charge ==
    /\ wall' = [Record EXCEPT !.hops = @ + 1, !.dayHops = @ + 1]
    /\ granted' = [all |-> granted.all + 1, today |-> granted.today + 1]

Unpark_EveryReport(seq) == wall' = [Record EXCEPT !.hops = 0, !.unparkSeq = seq]

(* Both adapters report the same post: it resets the counter once.         *)
Unpark(seq) ==
    wall' = IF seq <= wall.unparkSeq THEN wall
            ELSE [Record EXCEPT !.hops = 0, !.unparkSeq = seq]

-----------------------------------------------------------------------------
(* BudgetLedger *)

Used(s) == IF budget[s].day = day THEN budget[s].count ELSE 0

Spend_KeepsDate(s) == budget' = [budget EXCEPT ![s].count = Used(s) + 1]

Spend(s) == budget' = [budget EXCEPT ![s] = [day |-> day, count |-> Used(s) + 1]]

-----------------------------------------------------------------------------
(* The adapter of seat s *)

At(s) == channel[pos[s] + 1]
Goto(s, where) == pc' = [pc EXCEPT ![s] = where]
Handled(s) ==
    /\ Goto(s, "idle")
    /\ pos' = [pos EXCEPT ![s] = @ + 1]
    /\ chain' = [chain EXCEPT ![s] = FALSE]

Reportable(s) == At(s).by = Human /\ At(s).cites

(* _maybe_unpark; the broker looks the post up itself, and the call may    *)
(* fail.                                                                   *)
MaybeUnpark(s) ==
    /\ pc[s] = "idle"
    /\ pos[s] < Len(channel)
    /\ Reportable(s)
    /\ Goto(s, "detect")
    /\ Unpark(pos[s] + 1) \/ UNCHANGED wall
    /\ UNCHANGED <<channel, day, budget, pos, chain, crashes, historyVars>>

(* detect, and can_spend for a summon.                                     *)
Detect(s) ==
    /\ pos[s] < Len(channel)
    /\ pc[s] = "detect" \/ (pc[s] = "idle" /\ ~Reportable(s))
    /\ IF s \in At(s).to /\ At(s).by # s /\ Used(s) < BudgetCap
       THEN /\ Goto(s, IF At(s).by = Human THEN "spend" ELSE "wall")
            /\ UNCHANGED <<pos, chain>>
       ELSE Handled(s)
    /\ UNCHANGED <<channel, day, wall, budget, crashes, historyVars>>

(* hops.spend on a post that cites a card in Review: refused, granted, or  *)
(* granted with the answer lost.  Everything else (no citation, no card in *)
(* Review, no broker) is served at depth 1.                                *)
ClearTheHopWall(s) ==
    /\ pc[s] = "wall"
    /\ \/ /\ At(s).cites /\ ~MaySpend
          /\ Handled(s)
          /\ UNCHANGED <<wall, granted>>
       \/ /\ At(s).cites /\ MaySpend
          /\ Charge
          /\ \E answered \in BOOLEAN : chain' = [chain EXCEPT ![s] = answered]
          /\ Goto(s, "spend")
          /\ UNCHANGED pos
       \/ /\ Goto(s, "spend")
          /\ UNCHANGED <<wall, granted, pos, chain>>
    /\ UNCHANGED <<channel, day, budget, crashes, sessions>>

SpendBudget(s) ==
    /\ pc[s] = "spend"
    /\ Spend(s)
    /\ Goto(s, "session")
    /\ sessions' = [human |-> sessions.human + (IF At(s).by = Human THEN 1 ELSE 0),
                    bot |-> sessions.bot + (IF At(s).by = Human THEN 0 ELSE 1),
                    today |-> [sessions.today EXCEPT ![s] = @ + 1]]
    /\ UNCHANGED <<channel, day, wall, pos, chain, crashes, granted>>

EndTheChain_ByCitation(s, mentions) ==
    IF At(s).by # Human /\ ~At(s).cites THEN {} ELSE mentions

(* _end_the_chain: what is left of the mentions of a reply.                *)
EndTheChain(s, mentions) ==
    IF At(s).by # Human /\ ~chain[s] THEN {} ELSE mentions

(* A post that concerns no adapter stands for no post.                     *)
Say(post) ==
    /\ post.to # {} \/ (post.by = Human /\ post.cites)
    /\ Len(channel) < MaxPosts
    /\ channel' = Append(channel, post)

(* The session ends and its reply is posted, or lost.                      *)
Reply(s) ==
    /\ pc[s] = "session"
    /\ \/ \E mentions \in SUBSET (Seats \ {s}), cites \in BOOLEAN :
             Say([by |-> s, to |-> EndTheChain(s, mentions), cites |-> cites])
       \/ UNCHANGED channel
    /\ Handled(s)
    /\ UNCHANGED <<day, wall, budget, crashes, historyVars>>

(* A restart, or a lost connection: what was posted meanwhile comes back   *)
(* as backfill, which neither summons nor unparks.                         *)
Reconnect(s) ==
    /\ crashes < MaxCrashes
    /\ crashes' = crashes + 1
    /\ Goto(s, "idle")
    /\ pos' = [pos EXCEPT ![s] = Len(channel)]
    /\ chain' = [chain EXCEPT ![s] = FALSE]
    /\ UNCHANGED <<channel, day, wall, budget, historyVars>>

HumanPosts == {i \in 1..Len(channel) : channel[i].by = Human}

PersonPosts ==
    /\ Cardinality(HumanPosts) < MaxHuman
    /\ \E mentions \in SUBSET Seats, cites \in BOOLEAN :
          Say([by |-> Human, to |-> mentions, cites |-> cites])
    /\ UNCHANGED <<day, wall, budget, adapterVars, crashes, historyVars>>

Midnight ==
    /\ day < MaxDay
    /\ day' = day + 1
    /\ granted' = [granted EXCEPT !.today = 0]
    /\ sessions' = [sessions EXCEPT !.today = [s \in Seats |-> 0]]
    /\ UNCHANGED <<channel, wall, budget, adapterVars, crashes>>

Adapter(s) ==
    \/ MaybeUnpark(s)
    \/ Detect(s)
    \/ ClearTheHopWall(s)
    \/ SpendBudget(s)
    \/ Reply(s)

Next ==
    \/ \E s \in Seats : Adapter(s) \/ Reconnect(s)
    \/ PersonPosts
    \/ Midnight

Spec == Init /\ [][Next]_vars

-----------------------------------------------------------------------------
(* Properties *)

(* Every variable has its type, and the wall never counts past its caps.    *)
TypeOK ==
    /\ channel \in Seq(Post)
    /\ day \in 0..MaxDay
    /\ wall \in [day : 0..MaxDay, hops : 0..HopCap, dayHops : 0..DailyHopCap,
                 unparkSeq : 0..MaxPosts]
    /\ budget \in [Seats -> [day : 0..MaxDay, count : 0..BudgetCap]]
    /\ pos \in [Seats -> 0..MaxPosts]
    /\ pc \in [Seats -> {"idle", "detect", "wall", "spend", "session"}]
    /\ chain \in [Seats -> BOOLEAN]
    /\ crashes \in 0..MaxCrashes
    /\ granted \in [all : Nat, today : Nat]
    /\ sessions \in [human : Nat, bot : Nat, today : [Seats -> Nat]]

Looks == {i \in HumanPosts : channel[i].cites}

(* A work item gets HopCap hops, and HopCap more for each time a person    *)
(* posted on it: not for each adapter that saw the post, not for midnight. *)
HopsPerLook == granted.all <= HopCap * (1 + Cardinality(Looks))

(* Whatever people post, a day has at most DailyHopCap hops.               *)
DailyCeiling == granted.today <= DailyHopCap

(* A seat runs no more sessions a day than its budget, across restarts.    *)
BudgetHolds == \A s \in Seats : sessions.today[s] <= BudgetCap

(* Bots cannot keep each other busy: each session a bot started stands for *)
(* a session a person started or for a hop the wall granted.               *)
BotSessionsAreEarned ==
    sessions.bot <= (Cardinality(Seats) - 1) * (sessions.human + granted.all)

=============================================================================
