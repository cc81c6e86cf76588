----------------------------- MODULE Publishing ------------------------------
(***************************************************************************)
(* The served trees of one app: the owner's Live and Revert                *)
(* (server/app/routers/apps.py), the units that move the directories       *)
(* (harness/cc/apps/disjorn-apps-launch), and the harvest of a turn that   *)
(* renews the preview they copy from (harness/cc/apps/apps_harvest.py).    *)
(*                                                                         *)
(* A request checks, claims its session, and waits for a unit of its own   *)
(* that checks again and renames.  A unit is alone under its name, which   *)
(* is made of the mode and the app, and goes on when the server dies.      *)
(* Trees are known by the turn that made them.  What a turn does before    *)
(* its harvest and how its end is told are in AppTurns; here its posts     *)
(* arrive.  A heartbeat only puts off the lapse of a lock.                 *)
(***************************************************************************)
EXTENDS Naturals, FiniteSets

CONSTANTS
    Sessions,    \* the app's build sessions, open together or one by one
    MaxRequests, MaxTurns, MaxFaults \* bounds

ASSUME PublishingAssumption ==
    /\ Sessions # {}
    /\ {MaxRequests, MaxFaults} \subseteq Nat
    /\ MaxTurns \in Nat /\ MaxTurns >= 2

Requests == 1..MaxRequests
Nobody == 0
None == 0             \* no tree at a path
Torn == MaxTurns + 1  \* half of one
Trees == None..Torn

VARIABLES
    session,  \* each session: where it is, a turn runs, something was deployed, the
              \* claim of a publish (live_publishing_at)
    status,   \* apps.status
    turn,     \* the turn in progress: its session, its number, where it is
    op,       \* each press: what it asks for and how far it is
    disk,     \* the tree at each path
    told,     \* what the outcomes of the operations say is at live and live.prev
    happened, \* history: what excuses a broken promise
    faults

vars == <<session, status, turn, op, disk, told, happened, faults>>

Idle(pc) == [kind |-> "none", of |-> Nobody, pc |-> pc, tree |-> None, had |-> FALSE, heard |-> TRUE]
Free == Idle("free")
Opened == [is |-> "none", running |-> FALSE, deployed |-> FALSE, publishing |-> Nobody]
NoTurn == [of |-> Nobody, n |-> 0, at |-> "none", scoped |-> FALSE, made |-> FALSE]
NoTrees == [preview |-> None, old |-> None, live |-> None, prev |-> None, swap |-> None]

(* An app with two turns behind it, never published or published after     *)
(* each, and the session that built it.                                    *)
Init ==
    /\ op = [r \in Requests |-> Free]
    /\ LET first == CHOOSE s \in Sessions : TRUE
       IN  session = [[s \in Sessions |-> Opened] EXCEPT ![first].is = "open",
                                                        ![first].deployed = TRUE]
    /\ turn = [NoTurn EXCEPT !.n = 2]
    /\ \/ status = "draft" /\ disk = [NoTrees EXCEPT !.preview = 2]
       \/ status = "live" /\ disk = [NoTrees EXCEPT !.preview = 2, !.live = 2, !.prev = 1]
    /\ told = [live |-> disk.live, prev |-> disk.prev]
    /\ happened = {} /\ faults = 0

At(r, where) == op[r].pc = where
Goto(r, where) == op' = [op EXCEPT ![r].pc = where]
Over(r) == op' = [op EXCEPT ![r] = Idle("over")]
Fault == faults < MaxFaults /\ faults' = faults + 1
NoFault == UNCHANGED faults
Note(what) == happened' = happened \cup {what}

(* What a unit leaves that ends where it is, killed or because a call      *)
(* raised: half of the live.prev it was removing; the tree that was live   *)
(* at live.prev or, of a swap, in the staging directory.                   *)
LeftAside(r) == At(r, "swapIn") \/ (At(r, "place") /\ op[r].had)
Leaves(r) ==
    /\ told' = CASE At(r, "clearing") -> [told EXCEPT !.prev = Torn]
                 [] At(r, "place") -> [live |-> None, prev |-> told.live]
                 [] At(r, "swapIn") -> [told EXCEPT !.live = None]
                 [] At(r, "swapBack") -> [told EXCEPT !.prev = None]
                 [] OTHER -> told
    /\ happened' = happened \cup (IF At(r, "clearing") THEN {"half"} ELSE {})
                            \cup (IF LeftAside(r) /\ disk.live = None THEN {"dark"} ELSE {})

(* os.rename onto a name that is taken fails, and so does one from a name  *)
(* that is not there.                                                      *)
CanMove(from, to) == disk[from] # None /\ disk[to] = None
Moved(from, to) == [disk EXCEPT ![from] = None, ![to] = disk[from]]

-----------------------------------------------------------------------------
(* Sessions and turns *)

(* create_session looks for an open session, then inserts its own.         *)
AskSession(s) ==
    /\ session[s].is = "none"
    /\ \A o \in Sessions : session[o].is # "open"
    /\ session' = [session EXCEPT ![s].is = "asked"]
    /\ UNCHANGED <<status, turn, op, disk, told, happened, faults>>

InsertSession(s) ==
    /\ session[s].is = "asked"
    /\ session' = [session EXCEPT ![s].is = "open"]
    /\ UNCHANGED <<status, turn, op, disk, told, happened, faults>>

(* The lock runs out, or the owner ends the session.                       *)
CloseSession(s) ==
    /\ \/ session[s].is = "open" /\ session' = [session EXCEPT ![s].is = "lapsed"]
       \/ /\ session[s].is \in {"open", "lapsed"}
          /\ session' = [session EXCEPT ![s].is = "ended"]
    /\ UNCHANGED <<status, turn, op, disk, told, happened, faults>>

Begun(s) == session[s].is \in {"open", "lapsed"}
UnitRuns == turn.at \in {"works", "aside"}

(* A publish that has asked about turns does not ask again.                *)
TurnStarts(s) ==
    /\ turn.at = "none" /\ turn.n < MaxTurns /\ Begun(s)
    /\ turn' = [of |-> s, n |-> turn.n + 1, at |-> "works", scoped |-> FALSE, made |-> FALSE]
    /\ IF \E r \in Requests : op[r].pc \in {"start", "copying"} /\ op[r].kind = "publish"
       THEN Note("late") ELSE UNCHANGED happened
    /\ UNCHANGED <<session, status, op, disk, told, faults>>

(* The scoped event comes when the unit is already there.                  *)
TurnScoped ==
    /\ turn.at # "none" /\ ~turn.scoped
    /\ turn' = [turn EXCEPT !.scoped = TRUE]
    /\ session' = [session EXCEPT ![turn.of].running = Begun(turn.of)]
    /\ UNCHANGED <<status, op, disk, told, happened, faults>>

(* copy_preview: the superseded preview steps aside, the new one takes its *)
(* name, the old one is removed.                                           *)
HarvestAside ==
    /\ turn.at = "works"
    /\ disk' = [disk EXCEPT !.preview = None, !.old = disk.preview]
    /\ turn' = [turn EXCEPT !.at = "aside"]
    /\ UNCHANGED <<session, status, op, told, happened, faults>>

HarvestPlace ==
    /\ turn.at = "aside"
    /\ \/ /\ disk' = [disk EXCEPT !.preview = turn.n, !.old = None]
          /\ turn' = [turn EXCEPT !.at = "over", !.made = TRUE]
          /\ NoFault
       \/ /\ Fault
          /\ disk' = [disk EXCEPT !.preview = disk.old, !.old = None]
          /\ turn' = [turn EXCEPT !.at = "over"]
    /\ UNCHANGED <<session, status, op, told, happened>>

(* The unit leaves the preview alone, or dies over it.                     *)
TurnOver ==
    /\ \/ turn.at = "works" /\ NoFault
       \/ turn.at = "aside" /\ Fault
    /\ turn' = [turn EXCEPT !.at = "over"]
    /\ UNCHANGED <<session, status, op, disk, told, happened>>

(* A turn that halted before its scaffold is posted as a scoped event, and *)
(* goes on counting as the running one.                                    *)
TurnTold ==
    /\ turn.at = "over"
    /\ turn' = [NoTurn EXCEPT !.n = turn.n]
    /\ \/ /\ turn.scoped
          /\ session' = [session EXCEPT ![turn.of].running = FALSE,
                                        ![turn.of].deployed = @ \/ turn.made]
       \/ /\ ~turn.scoped /\ ~turn.made
          /\ session' = [session EXCEPT ![turn.of].running = Begun(turn.of)]
    /\ UNCHANGED <<status, op, disk, told, happened, faults>>

-----------------------------------------------------------------------------
(* Publishing *)

Kin(r) == {q \in Requests \ {r} : op[q].kind = op[r].kind}
Rotating == {"copying", "clear", "clearing", "look", "aside", "place", "done"}
Swapping == {"swapOut", "swapIn", "swapBack"}
InUnit(r) == op[r].pc \in Rotating \cup Swapping /\ op[r].pc # "done"

(* publish_live: not ended, no turn runs, something was deployed.  The     *)
(* presses come in the order of their numbers.                             *)
Ready(r) == At(r, "free") /\ \A q \in Requests : q < r => ~At(q, "free")

Press(r, s) ==
    /\ Ready(r)
    /\ Begun(s) /\ ~session[s].running /\ session[s].deployed
    /\ op' = [op EXCEPT ![r] = [@ EXCEPT !.kind = "publish", !.of = s, !.pc = "claim"]]
    /\ UNCHANGED <<session, status, turn, disk, told, happened, faults>>

(* The conditional write decides which press of a session wins.            *)
Claim(r) ==
    /\ At(r, "claim")
    /\ IF session[op[r].of].publishing = Nobody
       THEN session' = [session EXCEPT ![op[r].of].publishing = r] /\ Goto(r, "preflight")
       ELSE UNCHANGED session /\ Over(r)
    /\ UNCHANGED <<status, turn, disk, told, happened, faults>>

Preflight_NeverAsks(r) ==
    /\ At(r, "preflight")
    /\ Goto(r, IF disk.preview # None THEN "start" ELSE "release")
    /\ UNCHANGED <<session, status, turn, disk, told, happened, faults>>
Preflight_KeepsClaim(r) ==
    /\ At(r, "preflight")
    /\ IF disk.preview # None /\ ~UnitRuns THEN Goto(r, "start") ELSE Over(r)
    /\ UNCHANGED <<session, status, turn, disk, told, happened, faults>>

(* preflight_publish: systemd that does not answer is no evidence of a     *)
(* running turn.                                                           *)
Preflight(r) ==
    /\ At(r, "preflight")
    /\ \/ /\ disk.preview # None /\ ~UnitRuns
          /\ Goto(r, "start") /\ NoFault /\ UNCHANGED happened
       \/ /\ disk.preview # None /\ UnitRuns /\ Fault
          /\ Goto(r, "start") /\ Note("blind")
       \/ /\ disk.preview = None \/ UnitRuns
          /\ Goto(r, "release") /\ NoFault /\ UNCHANGED happened
    /\ UNCHANGED <<session, status, turn, disk, told>>

(* systemd-run refuses a name that is in use; a publish and a revert have  *)
(* different names.  The unit looks for the preview again.                 *)
NameIsFree_Always(r) == TRUE
NameIsFree(r) == \A q \in Kin(r) : ~InUnit(q)
Overlap(r) == \E q \in Requests \ Kin(r) : q # r /\ InUnit(q)
Enter(r, where, tree) ==
    /\ op' = [op EXCEPT ![r] = [@ EXCEPT !.pc = where, !.tree = tree]]
    /\ IF Overlap(r) THEN Note("overlap") ELSE UNCHANGED happened

Start(r) ==
    /\ At(r, "start")
    /\ IF NameIsFree(r) /\ disk.preview # None THEN Enter(r, "copying", disk.preview)
       ELSE Goto(r, "release") /\ UNCHANGED happened
    /\ UNCHANGED <<session, status, turn, disk, told, faults>>

(* The copy ends: of a tree that a harvest moved away meanwhile it has a   *)
(* part, or rsync noticed.                                                 *)
Copy(r) ==
    /\ At(r, "copying")
    /\ \/ disk.preview = op[r].tree /\ Goto(r, "clear") /\ NoFault
       \/ /\ disk.preview # op[r].tree /\ NoFault
          /\ op' = [op EXCEPT ![r].pc = "clear", ![r].tree = Torn]
       \/ disk.preview # op[r].tree /\ Goto(r, "release") /\ NoFault
       \/ Fault /\ Goto(r, "release")
    /\ UNCHANGED <<session, status, turn, disk, told, happened>>

(* live.prev, two deploys old by then, is removed file by file.  The first *)
(* file that does not go ends the unit.                                    *)
Clear(r) ==
    /\ At(r, "clear")
    /\ \/ disk.prev = None /\ Goto(r, "look") /\ UNCHANGED disk /\ NoFault
       \/ /\ disk.prev # None /\ NoFault
          /\ Goto(r, "clearing") /\ disk' = [disk EXCEPT !.prev = Torn]
       \/ disk.prev # None /\ Fault /\ Goto(r, "release") /\ UNCHANGED disk
    /\ UNCHANGED <<session, status, turn, told, happened>>

Cleared(r) ==
    /\ At(r, "clearing")
    /\ \/ /\ disk.prev = Torn /\ NoFault
          /\ disk' = [disk EXCEPT !.prev = None]
          /\ told' = [told EXCEPT !.prev = None]
          /\ Goto(r, "look") /\ UNCHANGED happened
       \/ /\ disk.prev # Torn /\ NoFault
          /\ Goto(r, "release") /\ UNCHANGED <<disk, told, happened>>
       \/ /\ Fault
          /\ Goto(r, "release") /\ Leaves(r) /\ UNCHANGED disk
    /\ UNCHANGED <<session, status, turn>>

Look(r) ==
    /\ At(r, "look")
    /\ op' = [op EXCEPT ![r] = [@ EXCEPT !.had = disk.live # None,
                                         !.pc = IF disk.live # None THEN "aside" ELSE "place"]]
    /\ UNCHANGED <<session, status, turn, disk, told, happened, faults>>

(* A rename that fails ends the unit, and the request with it.             *)
Aside(r) ==
    /\ At(r, "aside")
    /\ \/ CanMove("live", "prev") /\ disk' = Moved("live", "prev") /\ Goto(r, "place") /\ NoFault
       \/ ~CanMove("live", "prev") /\ UNCHANGED disk /\ Goto(r, "release") /\ NoFault
       \/ Fault /\ UNCHANGED disk /\ Goto(r, "release")
    /\ UNCHANGED <<session, status, turn, told, happened>>

(* What was live is put back when the staged tree cannot take its name,    *)
(* unless whatever kept the one rename from happening keeps the other from *)
(* it too.                                                                 *)
PutBack_Never(r) == disk
PutBack(r) == IF op[r].had /\ CanMove("prev", "live") THEN Moved("prev", "live") ELSE disk

Serve(tree, before) == told' = [live |-> tree, prev |-> before]

Place(r) ==
    /\ At(r, "place")
    /\ \/ /\ disk.live = None /\ NoFault
          /\ disk' = [disk EXCEPT !.live = op[r].tree]
          /\ Serve(op[r].tree, told.live)
          /\ Goto(r, "done")
          /\ UNCHANGED happened
       \/ /\ IF disk.live = None THEN Fault ELSE NoFault
          /\ disk' = PutBack(r)
          /\ Goto(r, "release") /\ UNCHANGED <<told, happened>>
       \/ /\ disk.live = None /\ op[r].had /\ Fault
          /\ Goto(r, "release") /\ Leaves(r) /\ UNCHANGED disk
    /\ UNCHANGED <<session, status, turn>>

(* The live event also makes the app live, in one transaction, which may   *)
(* fail.                                                                   *)
Done(r) ==
    /\ At(r, "done")
    /\ \/ op[r].heard /\ status' = "live" /\ Goto(r, "release") /\ NoFault
       \/ op[r].heard /\ UNCHANGED status /\ Goto(r, "release") /\ Fault
       \/ ~op[r].heard /\ UNCHANGED status /\ Over(r) /\ NoFault
    /\ UNCHANGED <<session, turn, disk, told, happened>>

Release(r) ==
    /\ At(r, "release")
    /\ IF op[r].heard THEN session' = [session EXCEPT ![op[r].of].publishing = Nobody]
       ELSE UNCHANGED session
    /\ Over(r)
    /\ UNCHANGED <<status, turn, disk, told, happened, faults>>

Publish(r) ==
    \/ Claim(r) \/ Preflight(r) \/ Start(r) \/ Copy(r) \/ Clear(r) \/ Cleared(r)
    \/ Look(r) \/ Aside(r) \/ Place(r) \/ Done(r) \/ Release(r)

-----------------------------------------------------------------------------
(* Reverting *)

PressRevert(r) ==
    /\ Ready(r) /\ status = "live"
    /\ op' = [op EXCEPT ![r] = [@ EXCEPT !.kind = "revert", !.pc = "check"]]
    /\ UNCHANGED <<session, status, turn, disk, told, happened, faults>>

Both == disk.live # None /\ disk.prev # None

PreflightRevert(r) ==
    /\ At(r, "check")
    /\ IF Both THEN Goto(r, "begin") ELSE Over(r)
    /\ UNCHANGED <<session, status, turn, disk, told, happened, faults>>

StartRevert(r) ==
    /\ At(r, "begin")
    /\ IF NameIsFree(r) /\ Both THEN Enter(r, "swapOut", None)
       ELSE Over(r) /\ UNCHANGED happened
    /\ UNCHANGED <<session, status, turn, disk, told, faults>>

SwapOut(r) ==
    /\ At(r, "swapOut")
    /\ \/ disk.live # None /\ disk' = Moved("live", "swap") /\ Goto(r, "swapIn") /\ NoFault
       \/ disk.live = None /\ UNCHANGED disk /\ Over(r) /\ NoFault
       \/ Fault /\ UNCHANGED disk /\ Over(r)
    /\ UNCHANGED <<session, status, turn, told, happened>>

(* If live.prev cannot take the name, what was live takes it again; if     *)
(* that fails too it is left in the staging directory.                     *)
SwapIn(r) ==
    /\ At(r, "swapIn")
    /\ \/ /\ CanMove("prev", "live") /\ NoFault
          /\ disk' = Moved("prev", "live")
          /\ Serve(told.prev, told.live)
          /\ Goto(r, "swapBack") /\ UNCHANGED happened
       \/ /\ IF CanMove("prev", "live") THEN Fault ELSE NoFault
          /\ disk' = IF disk.live = None THEN Moved("swap", "live")
                     ELSE [disk EXCEPT !.swap = None]
          /\ Over(r) /\ UNCHANGED <<told, happened>>
       \/ /\ disk.live = None /\ Fault
          /\ disk' = [disk EXCEPT !.swap = None]
          /\ Over(r) /\ Leaves(r)
    /\ UNCHANGED <<session, status, turn>>

(* The far side of the swap may be lost with a warning.                    *)
SwapBack(r) ==
    /\ At(r, "swapBack")
    /\ \/ disk.prev = None /\ disk' = Moved("swap", "prev") /\ NoFault /\ UNCHANGED told
       \/ /\ IF disk.prev = None THEN Fault ELSE NoFault
          /\ disk' = [disk EXCEPT !.swap = None]
          /\ told' = [told EXCEPT !.prev = None]
    /\ Over(r)
    /\ UNCHANGED <<session, status, turn, happened>>

Revert(r) ==
    PreflightRevert(r) \/ StartRevert(r) \/ SwapOut(r) \/ SwapIn(r) \/ SwapBack(r)

-----------------------------------------------------------------------------
(* Faults *)

(* A unit runs out of its time or its memory, wherever it is; the far side *)
(* of a swap is then in the staging directory, as if it had failed.        *)
Kill(r) ==
    /\ InUnit(r) /\ Fault
    /\ IF op[r].kind = "publish" THEN Goto(r, "release") ELSE Over(r)
    /\ disk' = [disk EXCEPT !.swap = IF op[r].pc \in Swapping THEN None ELSE @]
    /\ Leaves(r)
    /\ UNCHANGED <<session, status, turn>>

(* The server dies: its requests are gone, with what is claimed left       *)
(* claimed, and the units go on with nobody to hear them.                  *)
ServerCrash ==
    /\ Fault
    /\ op' = [r \in Requests |->
                 CASE InUnit(r) -> [op[r] EXCEPT !.heard = FALSE]
                   [] ~InUnit(r) /\ ~At(r, "free") -> Idle("over")
                   [] OTHER -> op[r]]
    /\ Note("crash")
    /\ UNCHANGED <<session, status, turn, disk, told>>

-----------------------------------------------------------------------------
Next ==
    \/ \E s \in Sessions : AskSession(s) \/ InsertSession(s) \/ CloseSession(s) \/ TurnStarts(s)
    \/ TurnScoped \/ HarvestAside \/ HarvestPlace \/ TurnOver \/ TurnTold
    \/ \E r \in Requests, s \in Sessions : Press(r, s)
    \/ \E r \in Requests : Publish(r) \/ PressRevert(r) \/ Revert(r) \/ Kill(r)
    \/ ServerCrash

Spec == Init /\ [][Next]_vars

(* A unit has RuntimeMaxSec, and the server goes on with a request whose   *)
(* helper has returned.                                                    *)
FairSpec == Spec /\ \A r \in Requests : WF_vars(Publish(r))

-----------------------------------------------------------------------------
SessionRecords == [is : {"none", "asked", "open", "lapsed", "ended"}, running : BOOLEAN,
                   deployed : BOOLEAN, publishing : Requests \cup {Nobody}]
TurnRecords == [of : Sessions \cup {Nobody}, n : 0..MaxTurns,
                at : {"none", "works", "aside", "over"}, scoped : BOOLEAN, made : BOOLEAN]
Places == Rotating \cup Swapping \cup
          {"free", "claim", "preflight", "start", "release", "check", "begin", "over"}
OpRecords == [kind : {"none", "publish", "revert"}, of : Sessions \cup {Nobody},
              pc : Places, tree : Trees, had : BOOLEAN, heard : BOOLEAN]

TypeOK ==
    /\ session \in [Sessions -> SessionRecords]
    /\ status \in {"draft", "live"}
    /\ turn \in TurnRecords
    /\ op \in [Requests -> OpRecords]
    /\ disk \in [{"preview", "old", "live", "prev", "swap"} -> Trees]
    /\ told \in [live : Trees, prev : Trees]
    /\ happened \subseteq {"late", "blind", "overlap", "half", "dark", "crash"}
    /\ faults \in 0..MaxFaults

(* An app that went live is served: but for the instant between the two    *)
(* renames of a rotate or a swap there is a tree at live, whatever failed  *)
(* once.  Only a unit that is killed in that instant, or whose rename back *)
(* fails like the rename it undoes, leaves none (dark).                    *)
LiveIsServed ==
    status = "live" /\ disk.live = None =>
        \/ "dark" \in happened
        \/ \E r \in Requests : op[r].pc \in {"place", "swapIn"}

(* What is served, or would be by Revert, is a whole tree: nobody copies a *)
(* preview that a harvest is replacing or serves a tree that is being      *)
(* removed, whichever unit failed or was killed where.  A turn that starts *)
(* after the publish asked, systemd that does not answer, a publish and a  *)
(* revert at once, and a removal of live.prev that stops half way are the  *)
(* ways in which it can be half of one.                                    *)
LiveIsWhole ==
    LET torn == happened \cap {"late", "blind", "overlap", "half"} # {}
    IN  /\ disk.live = Torn => torn
        /\ disk.prev = Torn => torn \/ \E r \in Requests : At(r, "clearing")

(* Between operations Revert finds what their outcomes say, however many   *)
(* sessions of the app publish, which no claim of a session excludes, and  *)
(* wherever a unit fails or is killed: after a success the tree that was   *)
(* served before, after a failure what was there or what Leaves says.  Two *)
(* publishes at once would make live.prev a copy of live or remove it; a   *)
(* publish that meets a revert, whose unit has another name, does lose a   *)
(* tree (overlap).                                                         *)
RevertReachesBack ==
    (\A r \in Requests : ~InUnit(r)) /\ "overlap" \notin happened =>
        disk.live = told.live /\ disk.prev = told.prev

(* A claim of a publish is given back, whatever the helper answers, unless *)
(* the server died: then it stays.                                         *)
ClaimIsReleased ==
    \A s \in Sessions :
        session[s].publishing # Nobody ~> \/ session[s].publishing = Nobody
                                          \/ "crash" \in happened

=============================================================================
