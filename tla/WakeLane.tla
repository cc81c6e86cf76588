------------------------------ MODULE WakeLane ------------------------------
(***************************************************************************)
(* The wake lane of one seat.  The broker (harness/broker/broker_wake.py)  *)
(* answers wake calls on its own threads: it counts the day's records and  *)
(* writes one more into a spool.  The seat's runner (harness/residency/    *)
(* wake.py), a daemon of its own, polls the spool, claims each record in a *)
(* file before it does anything about it, and then runs a session or       *)
(* reports the wake as missed.  The runner may die at any step and comes   *)
(* back with what its file holds.                                          *)
(*                                                                         *)
(* Times are ticks, a record of another seat is never looked at, and the   *)
(* text of posts, the gatehouse snapshot and the model gate are left out:  *)
(* they choose between posts, not whether there is one.                    *)
(***************************************************************************)
EXTENDS Naturals, Sequences, FiniteSets

CONSTANTS
    Wakes,      \* wake calls
    Nothing,    \* no wake
    Day,        \* ticks of a UTC day
    Cap, Grace, \* session_cap_sec and grace_sec of every record
    Retention,  \* WAKE_RETENTION_SEC
    DailyCap,   \* daily_wake_cap
    MaxServed,  \* MAX_SERVED_IDS
    MaxWait,    \* bound: ticks a call waits for the lock and its write
    MaxTime,    \* bound: the clock
    MaxCrashes  \* bound: deaths of the runner

ASSUME WakeLaneAssumption ==
    /\ Nothing \notin Wakes
    /\ IsFiniteSet(Wakes)
    /\ Day \in Nat \ {0}
    /\ Cap \in Nat \ {0}
    /\ Grace \in Nat
    /\ Retention \in Nat
    /\ MaxWait \in Nat
    /\ Retention > Day + MaxWait
    /\ DailyCap \in Nat
    /\ MaxServed \in Nat
    /\ MaxTime \in Nat
    /\ MaxCrashes \in Nat

VARIABLES
    now,
    call,      \* new, asked, counted, written, done or refused
    at,        \* requested_at of each call
    spool,     \* records on disk
    pc,        \* the runner: down, idle, batch, missed, launch or session
    served,    \* _served, the claims in the runner's memory
    file,      \* the claims at state_path
    due, missed, \* what is left of the last poll
    current,   \* the record in hand
    began,     \* when its session was launched
    sessions,  \* sessions launched for each wake
    reported,  \* wakes reported as missed
    unsaved,   \* history: claims made since a save last went well
    forgotten, \* history: claims of a runner that its successor may not know
    crashes

brokerVars == <<call, at, spool>>
runnerVars == <<pc, served, file, due, missed, current, began>>
outcomeVars == <<sessions, reported>>
historyVars == <<unsaved, forgotten>>
laneVars == <<now, brokerVars, runnerVars, outcomeVars, historyVars, crashes>>

LaneInit ==
    /\ now = 0
    /\ call = [w \in Wakes |-> "new"]
    /\ at = [w \in Wakes |-> 0]
    /\ spool = {}
    /\ pc = "idle"
    /\ served = <<>>
    /\ file = <<>>
    /\ due = {}
    /\ missed = {}
    /\ current = Nothing
    /\ began = 0
    /\ sessions = [w \in Wakes |-> 0]
    /\ reported = {}
    /\ unsaved = {}
    /\ forgotten = {}
    /\ crashes = 0

Ids(list) == {list[i] : i \in 1..Len(list)}
DayOf(time) == time \div Day
WindowEnds(w) == at[w] + Cap + Grace

-----------------------------------------------------------------------------
(* The broker: _verb_wake, one call per thread *)

(* _wake_spend_today, for the day the call came in.                        *)
SpentToday(w) == Cardinality({r \in spool : DayOf(at[r]) = DayOf(at[w])})

(* requested_at is taken before the lock is.                               *)
Ask(w) ==
    /\ call[w] = "new"
    /\ call' = [call EXCEPT ![w] = "asked"]
    /\ at' = [at EXCEPT ![w] = now]
    /\ UNCHANGED <<now, spool, runnerVars, outcomeVars, historyVars, crashes>>

(* The lock is held from the count to the write.                           *)
Count(w) ==
    /\ call[w] = "asked"
    /\ \A other \in Wakes : call[other] # "counted"
    /\ call' = [call EXCEPT ![w] = IF SpentToday(w) >= DailyCap THEN "refused"
                                   ELSE "counted"]
    /\ UNCHANGED <<now, at, spool, runnerVars, outcomeVars, historyVars,
                   crashes>>

(* An OSError refuses the call.                                            *)
Write(w) ==
    /\ call[w] = "counted"
    /\ \/ /\ spool' = spool \cup {w}
          /\ call' = [call EXCEPT ![w] = "written"]
       \/ /\ UNCHANGED spool
          /\ call' = [call EXCEPT ![w] = "refused"]
    /\ UNCHANGED <<now, at, runnerVars, outcomeVars, historyVars, crashes>>

Prune_PastTheWindow(w) ==
    /\ call[w] = "written"
    /\ call' = [call EXCEPT ![w] = "done"]
    /\ spool' = {r \in spool : WindowEnds(r) > now}
    /\ UNCHANGED <<now, at, runnerVars, outcomeVars, historyVars, crashes>>

(* Outside the lock.                                                       *)
Prune(w) ==
    /\ call[w] = "written"
    /\ call' = [call EXCEPT ![w] = "done"]
    /\ spool' = {r \in spool : at[r] + Retention > now}
    /\ UNCHANGED <<now, at, runnerVars, outcomeVars, historyVars, crashes>>

(* Every call that had no answer yet is over.                              *)
BrokerRestart ==
    /\ \E w \in Wakes : call[w] \in {"asked", "counted", "written"}
    /\ call' = [w \in Wakes |->
                   CASE call[w] \in {"asked", "counted"} -> "refused"
                     [] call[w] = "written" -> "done"
                     [] OTHER -> call[w]]
    /\ UNCHANGED <<now, at, spool, runnerVars, outcomeVars, historyVars,
                   crashes>>

-----------------------------------------------------------------------------
(* The runner *)

Expired(w) == now > WindowEnds(w)

Poll_SkipsMissed ==
    /\ pc = "idle"
    /\ due' = {w \in spool : w \notin Ids(served) /\ ~Expired(w)}
    /\ missed' = {}
    /\ pc' = "batch"
    /\ UNCHANGED <<now, brokerVars, served, file, current, began,
                   outcomeVars, historyVars, crashes>>

(* The clock is read once, for the whole batch.                            *)
Poll ==
    /\ pc = "idle"
    /\ due' = {w \in spool : w \notin Ids(served) /\ ~Expired(w)}
    /\ missed' = {w \in spool : w \notin Ids(served) /\ Expired(w)}
    /\ pc' = "batch"
    /\ UNCHANGED <<now, brokerVars, served, file, current, began,
                   outcomeVars, historyVars, crashes>>

Oldest(w, set) == w \in set /\ \A other \in set : at[w] <= at[other]

(* The last MAX_SERVED_IDS of a list.                                      *)
Newest(list) ==
    LET extra == Len(list) - MaxServed
    IN  IF Len(list) > MaxServed THEN SubSeq(list, extra + 1, Len(list)) ELSE list

(* The claims of a list that have MAX_SERVED_IDS later ones.               *)
Dropped(list) == {list[i] : i \in {j \in 1..Len(list) : j + MaxServed <= Len(list)}}

Saved(claims) == file' = claims /\ unsaved' = {}

(* mark_served: _save writes the whole list, or fails with a warning.      *)
MarkServed(w) ==
    /\ served' = Append(served, w)
    /\ \/ Saved(Newest(served'))
       \/ unsaved' = unsaved \cup {w} /\ UNCHANGED file
    /\ UNCHANGED forgotten

(* report_missed: all of the missed come before any of the due.            *)
TakeMissed(w) ==
    /\ pc = "batch"
    /\ Oldest(w, missed)
    /\ MarkServed(w)
    /\ missed' = missed \ {w}
    /\ current' = w
    /\ pc' = "missed"
    /\ UNCHANGED <<now, brokerVars, due, began, outcomeVars, crashes>>

(* Whether the post gets through or not (_safe_send).                      *)
ReportMissed ==
    /\ pc = "missed"
    /\ reported' = reported \cup {current}
    /\ current' = Nothing
    /\ pc' = "batch"
    /\ UNCHANGED <<now, brokerVars, served, file, due, missed, began, sessions,
                   historyVars, crashes>>

TakeDue_NoClaim(w) ==
    /\ pc = "batch"
    /\ missed = {}
    /\ Oldest(w, due)
    /\ due' = due \ {w}
    /\ current' = w
    /\ pc' = "launch"
    /\ UNCHANGED <<now, brokerVars, served, file, missed, began, outcomeVars,
                   historyVars, crashes>>

(* serve, up to the launch: the claim comes first.                         *)
TakeDue(w) ==
    /\ pc = "batch"
    /\ missed = {}
    /\ Oldest(w, due)
    /\ MarkServed(w)
    /\ due' = due \ {w}
    /\ current' = w
    /\ pc' = "launch"
    /\ UNCHANGED <<now, brokerVars, missed, began, outcomeVars, crashes>>

Launch ==
    /\ pc = "launch"
    /\ sessions' = [sessions EXCEPT ![current] = @ + 1]
    /\ began' = now
    /\ pc' = "session"
    /\ UNCHANGED <<now, brokerVars, served, file, due, missed, current,
                   reported,
                   historyVars, crashes>>

(* The session exits, fails or is killed at its cap, and _finish posts the *)
(* result.                                                                 *)
SessionEnds ==
    /\ pc = "session"
    /\ pc' = "batch"
    /\ current' = Nothing
    /\ began' = 0
    /\ UNCHANGED <<now, brokerVars, served, file, due, missed, outcomeVars,
                   historyVars, crashes>>

BatchDone ==
    /\ pc = "batch"
    /\ due = {}
    /\ missed = {}
    /\ pc' = "idle"
    /\ UNCHANGED <<now, brokerVars, served, file, due, missed, current, began,
                   outcomeVars, historyVars, crashes>>

(* The session goes with the runner (the container's watchdog).            *)
Crash ==
    /\ pc # "down"
    /\ crashes < MaxCrashes
    /\ crashes' = crashes + 1
    /\ pc' = "down"
    /\ served' = <<>>
    /\ due' = {}
    /\ missed' = {}
    /\ current' = Nothing
    /\ began' = 0
    /\ forgotten' = forgotten \cup unsaved \cup Dropped(served)
    /\ unsaved' = {}
    /\ UNCHANGED <<now, brokerVars, file, sessions, reported>>

(* systemd: Restart=on-failure.  A file that cannot be read is no claim at *)
(* all (_load).                                                            *)
Restart ==
    /\ pc = "down"
    /\ pc' = "idle"
    /\ \/ served' = file /\ UNCHANGED forgotten
       \/ served' = <<>> /\ forgotten' = forgotten \cup Ids(file)
    /\ UNCHANGED <<now, brokerVars, file, due, missed, current, began,
                   outcomeVars, unsaved, crashes>>

(* The launcher kills a session at its cap.                                *)
Tick ==
    /\ now < MaxTime
    /\ pc = "session" => now < began + Cap
    /\ \A w \in Wakes :
          call[w] \in {"asked", "counted"} => now < at[w] + MaxWait
    /\ now' = now + 1
    /\ UNCHANGED <<brokerVars, runnerVars, outcomeVars, historyVars, crashes>>

Broker == \E w \in Wakes : Ask(w) \/ Count(w) \/ Write(w) \/ Prune(w)

Runner ==
    \/ Poll
    \/ \E w \in Wakes : TakeMissed(w) \/ TakeDue(w)
    \/ ReportMissed
    \/ Launch
    \/ SessionEnds
    \/ BatchDone

LaneNext == Broker \/ BrokerRestart \/ Runner \/ Crash \/ Restart \/ Tick

LaneSpec == LaneInit /\ [][LaneNext]_laneVars

(* The runner's loop goes on and systemd starts it again.                  *)
FairLaneSpec == LaneSpec /\ WF_laneVars(Runner) /\ WF_laneVars(Restart)

-----------------------------------------------------------------------------
(* Properties *)

(* Every variable has its type, and no wake is claimed twice.              *)
LaneTypeOK ==
    /\ now \in 0..MaxTime
    /\ call \in [Wakes ->
                   {"new", "asked", "counted", "written", "done", "refused"}]
    /\ at \in [Wakes -> 0..MaxTime]
    /\ spool \subseteq Wakes
    /\ pc \in {"down", "idle", "batch", "missed", "launch", "session"}
    /\ served \in Seq(Wakes)
    /\ \A i, j \in 1..Len(served) : served[i] = served[j] => i = j
    /\ file \in Seq(Wakes) /\ Len(file) <= MaxServed
    /\ due \subseteq Wakes
    /\ missed \subseteq Wakes
    /\ current \in Wakes \cup {Nothing}
    /\ began \in 0..MaxTime
    /\ sessions \in [Wakes -> Nat]
    /\ reported \subseteq Wakes
    /\ unsaved \subseteq Wakes
    /\ forgotten \subseteq Wakes
    /\ crashes \in 0..MaxCrashes

Granted == {w \in Wakes : call[w] \in {"written", "done"}}

(* The seat is granted at most DailyCap wakes of one UTC day, by any       *)
(* number of calls at once, across midnight, and whatever is pruned.       *)
DailyCapHolds ==
    \A w \in Granted :
        Cardinality({r \in Granted : DayOf(at[r]) = DayOf(at[w])}) <= DailyCap

(* A wake is one session: a runner that dies at any step never starts it   *)
(* over, unless the file did not give the claim back: its save had failed, *)
(* MaxServed later claims had pushed it out, or the file was unreadable.   *)
ServedOnce == \A w \in Wakes : sessions[w] <= 1 \/ w \in forgotten

(* A wake has one ending: it is not run and also reported as never run.    *)
OneEnding == \A w \in reported : sessions[w] = 0 \/ w \in forgotten

Claimed == Ids(served) \cup Ids(file)

(* Every granted wake is taken up, run or reported, as long as its record  *)
(* is kept: none is overlooked for good.                                   *)
EveryWakeIsTaken ==
    \A w \in Wakes : (w \in spool) ~> (w \in Claimed \/ w \notin spool)

=============================================================================
