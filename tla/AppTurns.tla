------------------------------ MODULE AppTurns -------------------------------
(***************************************************************************)
(* The turns of an app's build session: the broker hands a prompt to the   *)
(* builder seat (harness/broker/broker_apps.py), the unit works and writes *)
(* its record (harness/cc/apps/run-apps.sh), a reaper posts the record to  *)
(* the server, logs what it cost and lets go of the app; the server keeps  *)
(* the session (server/app/routers/apps.py) and the owner stops a turn or  *)
(* ends the session.  One app with one session.                            *)
(*                                                                         *)
(* A launch is one call of apps-build, with the thread that reaps it, in   *)
(* this process or, through its ticket, in the next.  Turn numbers come    *)
(* from the session as the call read it, so two launches may share one.    *)
(* Every record a unit writes costs one token, and a halt after the        *)
(* scaffold is posted to the same effect as a finished turn.  The events   *)
(* that only move the progress bar (scaffolded, deployed) are left out.    *)
(***************************************************************************)
EXTENDS Naturals, FiniteSets

CONSTANTS
    Ceiling,    \* build_token_ceiling
    MaxLaunches, MaxTroubles \* bounds

ASSUME AppTurnsAssumption ==
    {Ceiling, MaxLaunches, MaxTroubles} \subseteq Nat

Launches == 1..MaxLaunches
Turns == 1..MaxLaunches
Nobody == 0

VARIABLES
    row,        \* the session: ended, stop requested, turns, tokens; from its
                \* events: the turn that runs, the turns whose tokens counted
    press,      \* a press of the stop button that has read the session
    call,       \* each launch: where its thread is and what it holds
    active,     \* _active_apps: the launch that has the app
    up, todo,   \* the broker serves; tickets an adoption has not looked at
    ticket,     \* the sidecar of each turn number, and its launch
    marked,     \* launches whose sidecar says their halt was synthesized
    unit,       \* the launch that runs in the unit of each turn number
    result,     \* result.json of each turn number
    ledger,     \* the highest tokens_after logged
    troubles,   \* posts lost, restarts, presses of stop and of end
    wrote,      \* history: launches whose unit wrote its record
    logged,     \* history: launches whose record reached the ledger
    announced, heard, \* history: turns told an open session that they began,
                \* turns told that they ended
    unheard,    \* history: ends lost in both attempts to tell, and turns that
                \* another call's terminal post came across
    forsaken,   \* history: launches whose thread or ticket was lost, or whose
                \* reaper gave up over a live unit
    crossed,    \* history: launches claimed on a view older than a turn's end or
                \* without the ledger, or whose ticket or record met another call's
    unsaid      \* history: turns of whose end the server failed to post the line

books == <<wrote, logged, announced, heard, unheard, forsaken, crossed, unsaid>>
disk == <<ticket, marked, result, ledger>>
vars == <<row, press, call, active, up, todo, disk, unit, troubles, books>>

NoResult == [of |-> Nobody, how |-> "none"]
At(l, where) == call[l].pc = where
Goto(l, where) == call' = [call EXCEPT ![l].pc = where]
Turn(l) == call[l].turn

Idle == [pc |-> "free", turn |-> 0, before |-> 0, ev |-> "none", try |-> 1,
         from |-> Nobody, begun |-> FALSE, closed |-> FALSE, sent |-> FALSE,
         adopted |-> FALSE, saw |-> {}, sawLogged |-> 0]
Refuse(l) == call' = [call EXCEPT ![l] = [Idle EXCEPT !.pc = "over"]]
Rest(l, where) == [call[l] EXCEPT !.pc = where, !.ev = "none", !.try = 1]
Close(l) == call' = [call EXCEPT ![l] = [Rest(l, "over") EXCEPT !.closed = TRUE, !.from = Nobody]]
Larger(a, b) == IF a > b THEN a ELSE b

Init ==
    /\ row = [ended |-> FALSE, stop |-> FALSE, turns |-> 0, tokens |-> 0,
              running |-> 0, charged |-> {}]
    /\ press = "none"
    /\ call = [l \in Launches |-> Idle]
    /\ active = Nobody /\ up = TRUE /\ todo = {}
    /\ ticket = [n \in Turns |-> Nobody] /\ marked = {}
    /\ unit = [n \in Turns |-> Nobody] /\ result = [n \in Turns |-> NoResult]
    /\ ledger = 0
    /\ troubles = 0
    /\ wrote = {} /\ logged = {} /\ announced = {} /\ heard = {} /\ unheard = {}
    /\ forsaken = {} /\ crossed = {} /\ unsaid = {}

Trouble == troubles < MaxTroubles /\ troubles' = troubles + 1

-----------------------------------------------------------------------------
(* apps-build, up to the launch.                                           *)

(* The session as the server knows it, read before anything is claimed.    *)
View(l) ==
    /\ up /\ At(l, "free") /\ \A o \in Launches : o < l => ~At(o, "free")
    /\ ~row.ended
    /\ call' = [call EXCEPT ![l] =
                 [@ EXCEPT !.pc = "sweep", !.turn = row.turns + 1, !.before = row.tokens,
                           !.saw = {o \in Launches : call[o].closed},
                           !.sawLogged = Cardinality(logged)]]
    /\ UNCHANGED <<row, press, active, up, todo, disk, unit, troubles, books>>

(* A ticket whose halt was synthesized goes before the app's next turn.    *)
Sweep(l, n) ==
    /\ At(l, "sweep") /\ ticket[n] \in marked
    /\ call' = [call EXCEPT ![l].pc = "resolve", ![l].from = ticket[n]]
    /\ UNCHANGED <<row, press, active, up, todo, disk, unit, troubles, books>>

(* A ledger that cannot be written stays as it is, and nobody is told.     *)
WriteLedger(tokens, of) ==
    \/ /\ ledger' = Larger(ledger, tokens)
       /\ logged' = logged \cup of
       /\ UNCHANGED troubles
    \/ Trouble /\ UNCHANGED <<ledger, logged>>

(* What a turn spent after it was given up is logged late; its ticket goes *)
(* by its name.                                                            *)
DropTicket(n, mine) ==
    /\ ticket' = [ticket EXCEPT ![n] = Nobody]
    /\ forsaken' = forsaken \cup ({ticket[n]} \ {mine, Nobody})

(* A ticket may be resolved by two calls, each after its own sweep.         *)
LogLate(l) ==
    /\ crossed' = IF ticket[Turn(l)] = l /\ result[Turn(l)].of \in {Nobody, l} THEN crossed
                  ELSE crossed \cup {l}
    /\ IF result[Turn(l)] = NoResult THEN UNCHANGED <<ledger, logged, troubles>>
       ELSE WriteLedger(call[l].before + 1, {result[Turn(l)].of})

Resolve(l) ==
    /\ At(l, "resolve")
    /\ LogLate(call[l].from)
    /\ DropTicket(Turn(call[l].from), call[l].from)
    /\ Goto(l, "sweep")
    /\ UNCHANGED <<row, press, active, up, todo, marked, unit, result,
                   wrote, announced, heard, unheard, unsaid>>

Post(l, ev) == [call[l] EXCEPT !.pc = "gate", !.ev = ev, !.try = 1]

Spent_ServerOnly(l) == call[l].before

(* The larger of what the server was told and what this house logged; a    *)
(* ledger that cannot be read has logged nothing.                          *)
Spent(l) == Larger(call[l].before, ledger)
SpentAs(l, read) == IF read THEN Spent(l) ELSE call[l].before

CheckCeiling(l) ==
    /\ At(l, "sweep") /\ \A n \in Turns : ticket[n] \notin marked \cap call[l].saw
    /\ \E read \in BOOLEAN :
          /\ call' = [call EXCEPT ![l] =
                         [IF SpentAs(l, read) >= Ceiling THEN Post(l, "ceiling")
                          ELSE [call[l] EXCEPT !.pc = "claim"]
                          EXCEPT !.before = SpentAs(l, read)]]
          /\ \/ read /\ UNCHANGED <<troubles, crossed>>
             \/ ~read /\ Trouble /\ crossed' = crossed \cup {l}
    /\ UNCHANGED <<row, press, active, up, todo, disk, unit, wrote, logged,
                   announced, heard, unheard, forsaken, unsaid>>

(* One turn at a time per app.                                             *)
Claim(l) ==
    /\ At(l, "claim")
    /\ IF active = Nobody
       THEN /\ active' = l
            /\ call' = [call EXCEPT ![l].pc = "ticket", ![l].begun = TRUE]
            /\ crossed' = IF \E o \in Launches \ call[l].saw : call[o].begun
                          THEN crossed \cup {l} ELSE crossed
       ELSE Refuse(l) /\ UNCHANGED <<active, crossed>>
    /\ UNCHANGED <<row, press, up, todo, disk, unit, troubles, wrote, logged,
                   announced, heard, unheard, forsaken, unsaid>>

(* The sidecar before the launch; the prompt or the file may be refused.   *)
WriteTicket(l) ==
    /\ At(l, "ticket")
    /\ \/ /\ ticket' = [ticket EXCEPT ![Turn(l)] = l]
          /\ forsaken' = forsaken \cup ({ticket[Turn(l)]} \ {Nobody})
          /\ Goto(l, "spawn")
       \/ Goto(l, "undo") /\ UNCHANGED <<ticket, forsaken>>
    /\ UNCHANGED <<row, press, active, up, todo, marked, unit, result, ledger, troubles, wrote, logged,
                   announced, heard, unheard, crossed, unsaid>>

(* systemd takes one unit of a name; the launcher may refuse besides.      *)
Spawn(l) ==
    /\ At(l, "spawn")
    /\ \/ /\ unit[Turn(l)] = Nobody
          /\ unit' = [unit EXCEPT ![Turn(l)] = l]
          /\ call' = [call EXCEPT ![l] = Post(l, "scoped")]
       \/ Goto(l, "undo") /\ UNCHANGED unit
    /\ UNCHANGED <<row, press, active, up, todo, disk, troubles, books>>

(* _apps_early_refusal: a client that is gone with an error within a       *)
(* second, before the turn is announced, was refused.                      *)
EarlyRefusal(l) ==
    /\ At(l, "gate") /\ call[l].ev = "scoped" /\ call[l].try = 1
    /\ unit[Turn(l)] # l
    /\ call' = [call EXCEPT ![l] = Rest(l, "undo")]
    /\ UNCHANGED <<row, press, active, up, todo, disk, unit, troubles, books>>

Release(l) == active' = Nobody

Undo_KeepsClaim(l) ==
    /\ At(l, "undo") /\ Goto(l, "remove")
    /\ UNCHANGED <<row, press, active, up, todo, disk, unit, troubles, books>>

Undo(l) ==
    /\ At(l, "undo")
    /\ Release(l)
    /\ Goto(l, "remove")
    /\ UNCHANGED <<row, press, up, todo, disk, unit, troubles, books>>

RemoveTicket(l) ==
    /\ At(l, "remove")
    /\ DropTicket(Turn(l), l)
    /\ Close(l)
    /\ UNCHANGED <<row, press, active, up, todo, marked, unit, result, ledger, troubles,
                   wrote, logged, announced, heard, unheard, crossed, unsaid>>

-----------------------------------------------------------------------------
(* publish_stage, and _apps_post_stage with its second attempt.            *)

Terminal(ev) == ev # "scoped"
Ending(ev) == Terminal(ev) /\ ev # "ceiling"
Metered(ev) == ev \in {"written", "haltedScoped", "secret"}

(* Once the session has ended only the turn it stopped gets through.       *)
Admitted(n) == ~row.ended \/ (row.stop /\ row.running = n)

AfterPost(ev) == CASE ev = "scoped"  -> "watch"
                   [] ev = "ceiling" -> "note"
                   [] Metered(ev)    -> "finish"
                   [] OTHER          -> "giveUp"

GoOn(l) == call' = [call EXCEPT ![l] = Rest(l, AfterPost(call[l].ev))]

Gate(l) ==
    /\ At(l, "gate")
    /\ IF Admitted(Turn(l)) THEN Goto(l, "commit") ELSE GoOn(l)
    /\ UNCHANGED <<row, press, active, up, todo, disk, unit, troubles, books>>

(* _running_turn: the latest scoped event that started something, unless a *)
(* terminal event follows it.  A halt before the scaffold is itself posted *)
(* as a scoped event, so nothing follows it.                               *)
RunningAfter(ev, n) == IF ev \in {"scoped", "haltedScoped", "gaveUpScoped"} THEN n ELSE 0

Charge_EveryPost(ev, n) == row.tokens + (IF Metered(ev) THEN 1 ELSE 0)

(* Tokens count once per turn number, whatever is posted again.            *)
Charge(ev, n) == row.tokens + (IF Metered(ev) /\ n \notin row.charged THEN 1 ELSE 0)

Running == {l \in Launches \ heard : call[l].begun /\ Turn(l) = row.running}

(* The line that tells the room of an end follows the transaction; when it *)
(* fails, the post has landed all the same.                                *)
Land(l, said) ==
    LET ev == call[l].ev n == Turn(l) IN
    /\ row' = [ended   |-> row.ended \/ ev = "secret",
               stop    |-> row.stop /\ ev \in {"scoped", "ceiling"},
               turns   |-> IF ev = "ceiling" THEN row.turns ELSE Larger(row.turns, n),
               tokens  |-> Charge(ev, n),
               running |-> RunningAfter(ev, n),
               charged |-> IF Metered(ev) THEN row.charged \cup {n} ELSE row.charged]
    /\ announced' = IF ev = "scoped" /\ ~row.ended THEN announced \cup {l} ELSE announced
    /\ heard' = IF Ending(ev) /\ said THEN heard \cup {l} ELSE heard
    /\ unsaid' = IF Ending(ev) /\ ~said THEN unsaid \cup {l} ELSE unsaid
    /\ unheard' = IF Terminal(ev) THEN unheard \cup (Running \ {l}) ELSE unheard

Commit(l) ==
    /\ At(l, "commit")
    /\ \/ Land(l, TRUE) /\ UNCHANGED troubles
       \/ Land(l, FALSE) /\ Trouble
    /\ GoOn(l)
    /\ UNCHANGED <<press, active, up, todo, disk, unit, wrote, logged, forsaken, crossed>>

(* A post fails on its way there, or its answer on the way back (and the   *)
(* server, perhaps, before the line).  The house's own error for that is   *)
(* tried again, once; any other error is not.                              *)
LosePost(l) ==
    /\ Trouble
    /\ \E again \in BOOLEAN :
          /\ again => call[l].try = 1
          /\ \/ /\ At(l, "gate")
                /\ unheard' = IF again \/ ~Ending(call[l].ev) THEN unheard
                              ELSE unheard \cup ({l} \ heard)
                /\ UNCHANGED <<row, announced, heard, unsaid>>
             \/ At(l, "commit") /\ \E said \in BOOLEAN : Land(l, said)
          /\ IF again THEN call' = [call EXCEPT ![l].pc = "gate", ![l].try = 2]
             ELSE GoOn(l)
    /\ UNCHANGED <<press, active, up, todo, disk, unit, wrote, logged, forsaken, crossed>>

(* A refusal at the ceiling is logged and nothing was spawned.             *)
NoteCeiling(l) ==
    /\ At(l, "note")
    /\ WriteLedger(call[l].before, {})
    /\ Refuse(l)
    /\ UNCHANGED <<row, press, active, up, todo, ticket, marked, result, unit, wrote,
                   announced, heard, unheard, forsaken, crossed, unsaid>>

-----------------------------------------------------------------------------
(* The unit.                                                               *)

(* What an earlier turn of this number left is cleared first.              *)
UnitStarts(n) ==
    /\ unit[n] # Nobody /\ result[n].of \notin {Nobody, unit[n]}
    /\ result' = [result EXCEPT ![n] = NoResult]
    /\ UNCHANGED <<row, press, call, active, up, todo, ticket, marked, ledger, unit, troubles, books>>

UnitWrites(n) ==
    /\ unit[n] # Nobody /\ unit[n] \notin wrote /\ result[n] = NoResult
    /\ \E how \in {"written", "haltedScoped", "secret"} :
          result' = [result EXCEPT ![n] = [of |-> unit[n], how |-> how]]
    /\ wrote' = wrote \cup {unit[n]}
    /\ UNCHANGED <<row, press, call, active, up, todo, ticket, marked, ledger, unit, troubles, logged,
                   announced, heard, unheard, forsaken, crossed, unsaid>>

(* With its record written or, when the harvest failed, without.           *)
UnitEnds(n) ==
    /\ unit[n] # Nobody /\ result[n].of \in {Nobody, unit[n]}
    /\ unit' = [unit EXCEPT ![n] = Nobody]
    /\ UNCHANGED <<row, press, call, active, up, todo, disk, troubles, books>>

-----------------------------------------------------------------------------
(* _reap_apps.                                                             *)

Alive(l) == IF call[l].adopted THEN unit[Turn(l)] # Nobody ELSE unit[Turn(l)] = l

(* A record with the turn's label, whoever wrote it, ends the watch.       *)
FindResult(l) ==
    /\ At(l, "watch") /\ result[Turn(l)] # NoResult
    /\ call' = [call EXCEPT ![l] = [Post(l, result[Turn(l)].how) EXCEPT !.from = result[Turn(l)].of]]
    /\ forsaken' = IF result[Turn(l)].of = l THEN forsaken ELSE forsaken \cup {l}
    /\ crossed' = IF result[Turn(l)].of = l THEN crossed ELSE crossed \cup {l}
    /\ UNCHANGED <<row, press, active, up, todo, disk, unit, troubles, wrote, logged,
                   announced, heard, unheard, unsaid>>

(* The owner's stop, sent once, and noted on the ticket; a ticket that     *)
(* cannot be written kills the reaper, which gives the app back.           *)
PollStop(l) ==
    /\ At(l, "watch") /\ Alive(l) /\ ~call[l].sent /\ row.stop
    /\ \E sent \in BOOLEAN :
          \/ /\ ticket' = [ticket EXCEPT ![Turn(l)] = l]
             /\ forsaken' = forsaken \cup ({ticket[Turn(l)]} \ {l, Nobody})
             /\ call' = [call EXCEPT ![l].sent = sent]
          \/ /\ forsaken' = forsaken \cup {l}
             /\ Goto(l, "undo")
             /\ UNCHANGED ticket
    /\ UNCHANGED <<row, press, active, up, todo, marked, result, ledger, unit, troubles, wrote, logged,
                   announced, heard, unheard, crossed, unsaid>>

(* The absence branch: the unit is gone and left no record, or is taken to *)
(* be gone (an adopted unit systemd says nothing of), or outlives the      *)
(* deadline and its stop.                                                  *)
Synthesize(l) ==
    /\ At(l, "watch") /\ result[Turn(l)] = NoResult
    /\ \E ev \in {"gaveUp", "gaveUpScoped"} : call' = [call EXCEPT ![l] = Post(l, ev)]
    /\ forsaken' = IF Alive(l) THEN forsaken \cup {l} ELSE forsaken
    /\ UNCHANGED <<row, press, active, up, todo, disk, unit, troubles, wrote, logged,
                   announced, heard, unheard, crossed, unsaid>>

Finish(l) ==
    /\ At(l, "finish")
    /\ WriteLedger(call[l].before + 1, {call[l].from})
    /\ Release(l)
    /\ Goto(l, "remove")
    /\ UNCHANGED <<row, press, up, todo, ticket, marked, result, unit,
                   wrote, announced, heard, unheard, forsaken, crossed, unsaid>>

GiveUp(l) ==
    /\ At(l, "giveUp")
    /\ WriteLedger(call[l].before, {})
    /\ Release(l)
    /\ Goto(l, "mark")
    /\ UNCHANGED <<row, press, up, todo, ticket, marked, result, unit, wrote,
                   announced, heard, unheard, forsaken, crossed, unsaid>>

(* The ticket stays, marked, for a record that comes late.                 *)
MarkTicket(l) ==
    /\ At(l, "mark")
    /\ \/ /\ ticket' = [ticket EXCEPT ![Turn(l)] = l]
          /\ marked' = marked \cup {l}
          /\ forsaken' = forsaken \cup ({ticket[Turn(l)]} \ {l, Nobody})
       \/ DropTicket(Turn(l), l) /\ UNCHANGED marked
    /\ Close(l)
    /\ UNCHANGED <<row, press, active, up, todo, result, ledger, unit, troubles,
                   wrote, logged, announced, heard, unheard, crossed, unsaid>>

-----------------------------------------------------------------------------
(* The owner.                                                              *)

(* stop_turn reads the session, then asks in a transaction of its own.     *)
ReadStop ==
    /\ press = "none" /\ troubles < MaxTroubles /\ ~row.ended
    /\ press' = IF row.stop THEN "again" ELSE "first"
    /\ troubles' = troubles + 1
    /\ UNCHANGED <<row, call, active, up, todo, disk, unit, books>>

RequestStop ==
    /\ press # "none"
    /\ press' = "none"
    /\ IF row.running = 0 \/ press = "again" THEN UNCHANGED row
       ELSE row' = [row EXCEPT !.stop = TRUE]
    /\ UNCHANGED <<call, active, up, todo, disk, unit, troubles, books>>

EndSession_NoStop ==
    /\ ~row.ended /\ troubles < MaxTroubles
    /\ troubles' = troubles + 1
    /\ row' = [row EXCEPT !.ended = TRUE]
    /\ UNCHANGED <<press, call, active, up, todo, disk, unit, books>>

(* Ending stops the turn first, in one transaction.                        *)
EndSession ==
    /\ ~row.ended /\ troubles < MaxTroubles
    /\ troubles' = troubles + 1
    /\ row' = [row EXCEPT !.ended = TRUE, !.stop = @ \/ row.running # 0]
    /\ UNCHANGED <<press, call, active, up, todo, disk, unit, books>>

-----------------------------------------------------------------------------
(* A restart of the broker: threads and claims are gone, units are not.    *)

Crash ==
    /\ troubles < MaxTroubles
    /\ troubles' = troubles + 1
    /\ up' = FALSE /\ todo' = {n \in Turns : ticket[n] # Nobody} /\ active' = Nobody
    /\ call' = [l \in Launches |->
                  IF At(l, "free") THEN call[l]
                  ELSE IF ~call[l].begun THEN [Idle EXCEPT !.pc = "over"]
                  ELSE [Rest(l, "over") EXCEPT !.closed = @ \/ ticket[Turn(l)] # l, !.from = Nobody]]
    /\ UNCHANGED <<row, press, disk, unit, books>>

Adopt_Unclaimed(n) ==
    /\ ~up /\ n \in todo /\ \A m \in todo : n <= m
    /\ todo' = todo \ {n}
    /\ IF ticket[n] \in marked THEN UNCHANGED call
       ELSE call' = [call EXCEPT ![ticket[n]].pc = "watch", ![ticket[n]].adopted = TRUE]
    /\ UNCHANGED <<row, press, active, up, disk, unit, troubles, books>>

(* adopt_inflight_apps, a ticket at a time: a marked one is resolved, one  *)
(* of an app that has its turn is left, the rest are watched again.        *)
Adopt(n) ==
    LET l == ticket[n] IN
    /\ ~up /\ n \in todo /\ \A m \in todo : n <= m
    /\ todo' = todo \ {n}
    /\ \/ /\ l \in marked
          /\ LogLate(l)
          /\ DropTicket(n, l)
          /\ UNCHANGED <<call, active>>
       \/ /\ l \notin marked /\ active # Nobody
          /\ forsaken' = forsaken \cup {l}
          /\ UNCHANGED <<call, active, ticket, ledger, logged, troubles, crossed>>
       \/ /\ l \notin marked /\ active = Nobody
          /\ active' = l
          /\ call' = [call EXCEPT ![l].pc = "watch", ![l].adopted = TRUE]
          /\ UNCHANGED <<ticket, ledger, logged, troubles, forsaken, crossed>>
    /\ UNCHANGED <<row, press, up, marked, result, unit,
                   wrote, announced, heard, unheard, unsaid>>

Serve ==
    /\ ~up /\ todo = {}
    /\ up' = TRUE
    /\ UNCHANGED <<row, press, call, active, todo, disk, unit, troubles, books>>

-----------------------------------------------------------------------------
Handoff(l) == \/ View(l) \/ Resolve(l) \/ CheckCeiling(l) \/ NoteCeiling(l) \/ Claim(l)
              \/ WriteTicket(l) \/ Spawn(l) \/ EarlyRefusal(l) \/ Undo(l) \/ RemoveTicket(l)
Publish(l) == Gate(l) \/ Commit(l) \/ LosePost(l)
Reap(l) == FindResult(l) \/ PollStop(l) \/ Synthesize(l) \/ Finish(l) \/ GiveUp(l) \/ MarkTicket(l)
Unit(n) == UnitStarts(n) \/ UnitWrites(n) \/ UnitEnds(n)
Restart == Serve \/ \E n \in Turns : Adopt(n)

Next ==
    \/ \E l \in Launches : Handoff(l) \/ Publish(l) \/ Reap(l)
    \/ \E l \in Launches, n \in Turns : Sweep(l, n)
    \/ \E n \in Turns : Unit(n)
    \/ ReadStop \/ RequestStop \/ EndSession
    \/ Crash \/ Restart

Spec == Init /\ [][Next]_vars

-----------------------------------------------------------------------------
(* The shape of the state; the one who has the app has claimed it, and a   *)
(* ticket or a unit belongs to a launch of its turn number.                *)
TypeOK ==
    /\ row.turns \in 0..MaxLaunches /\ row.tokens \in Nat
    /\ row.running \in 0..MaxLaunches /\ row.charged \subseteq Turns
    /\ press \in {"none", "first", "again"}
    /\ active \in Launches \cup {Nobody} /\ (active # Nobody => call[active].begun)
    /\ todo \subseteq Turns /\ (todo # {} => ~up) /\ marked \subseteq Launches
    /\ \A n \in Turns : /\ \A l \in {ticket[n], unit[n], result[n].of} \ {Nobody} :
                              l \in Launches /\ Turn(l) = n
                        /\ result[n].how \in {"none", "written", "haltedScoped", "secret"}

(* Two turns never write one app's tree at a time (check 4 of apps-build), *)
(* but for units the broker has let go of.                                 *)
Working == {n \in Turns : unit[n] \notin wrote \cup forsaken \cup {Nobody}}
OneWriter == Cardinality(Working) <= 1

(* A post that is tried again, by this broker or the next, never charges   *)
(* its turn twice: the session pays for records that were written.         *)
NeverOvercharged == row.tokens <= Cardinality(wrote)

(* Tokens the house has logged count against the ceiling, even when the    *)
(* server never heard of them or the record came late: a turn launched on  *)
(* a view of everything that had ended then, and with a ledger that could  *)
(* be read, was still under the ceiling.                                   *)
CeilingHolds ==
    crossed = {} => \A l \in Launches : call[l].begun => call[l].sawLogged < Ceiling

(* The room hears how a turn ended that an open session was told of, also  *)
(* when the session was ended in the middle of it or the broker restarted: *)
(* once no thread of a serving broker is left, nothing is left untold, if  *)
(* no ticket was lost and no unit outlived the broker's patience, but for  *)
(* the ends whose posts were lost and those whose line the server could    *)
(* not post.                                                               *)
AtRest == up /\ \A l \in Launches : call[l].pc \in {"free", "over"}
EveryTurnIsTold == AtRest /\ forsaken = {} => announced \subseteq heard \cup unheard \cup unsaid

(* The app does not stay claimed when the last thread has gone.            *)
ClaimComesBack == AtRest => active = Nobody

(* "the next turn of this session starts unasked" (publish_stage): the     *)
(* owner's stop was consumed by the end of the turn it was for, and none   *)
(* is taken while no turn runs, when nothing was lost and no call          *)
(* overlapped another turn's end.                                          *)
NothingLost == unheard = {} /\ forsaken = {} /\ crossed = {}
TurnsStartUnasked ==
    [][row'.running \notin {0, row.running} /\ ~row.ended /\ NothingLost => ~row'.stop]_vars
=============================================================================
