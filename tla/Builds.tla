------------------------------- MODULE Builds --------------------------------
(***************************************************************************)
(* Detached builds of the broker (harness/broker/broker_build.py and the   *)
(* reservation and reaper in brokerd.py): reserve a slot and the slug,     *)
(* spool files, a ticket on disk, the unit, a reaper thread that narrates  *)
(* the outcome and tidies up, and the adoption of what is still there when *)
(* the broker comes back.  One caller asks for every build; the unit runs  *)
(* outside the broker and outlives it.                                     *)
(*                                                                         *)
(* A build is a number.  The clock moves by midnights only; a stamp of the *)
(* spec's Status line may fail, and the build goes on without it.          *)
(***************************************************************************)
EXTENDS Naturals, FiniteSets

CONSTANTS
    Slugs,      \* the specs, and the branches and units named after them
    Cap,        \* daily build budget of the caller
    MaxBuilds, MaxDay, MaxCrashes \* bounds

ASSUME BuildsAssumption == {Cap, MaxBuilds, MaxDay, MaxCrashes} \subseteq Nat

Builds == 1..MaxBuilds
Nothing == 0

VARIABLES
    day,
    up,         \* the broker serves; when it does not, it is adopting
    todo,       \* slugs whose ticket the adoption has not looked at
    spec,       \* Status: confirmed, building or ended (built@ or failed)
    ticket,     \* the sidecar of a slug, and the build it was written for
    logs,       \* builds whose spool files exist
    unit,       \* the build that runs in the slug's transient unit
    exit,       \* how a build's unit ended: ok or refused by the preflight
    active,     \* _active_builds
    count,      \* _builds: the day it is for and the reservations
    audited,    \* the day of each build's audit line, or none
    build,      \* where the thread that has a build is, and what it is for;
                \* kept: its reaper gave up; left: a broker lost sight of it
    crashes,
    told,       \* history: terminal narrations of a build
    robbed,     \* history: builds whose ticket a refused build's reaper took
    cut,        \* history: builds narrated, and not tidied when the broker died
    misrefunds  \* history: slots given back to a day that had not lent them

disk == <<spec, ticket, logs>>
memory == <<active, count>>
history == <<told, robbed, cut, misrefunds>>
vars == <<day, up, todo, disk, unit, exit, memory, audited, build, crashes, history>>

At(b, where) == build[b].pc = where
Slug(b) == build[b].slug
Goto(b, where) == build' = [build EXCEPT ![b].pc = where]
NoDay == MaxDay + 1

Init ==
    /\ day = 0 /\ up = TRUE /\ todo = {}
    /\ spec = [s \in Slugs |-> "confirmed"]
    /\ ticket = [s \in Slugs |-> Nothing]
    /\ logs = {}
    /\ unit = [s \in Slugs |-> Nothing]
    /\ exit = [b \in Builds |-> "none"]
    /\ active = {} /\ count = [day |-> NoDay, n |-> 0]
    /\ audited = [b \in Builds |-> NoDay]
    /\ build = [b \in Builds |-> [pc |-> "free"]]
    /\ crashes = 0
    /\ told = [b \in Builds |-> 0] /\ robbed = {} /\ cut = {} /\ misrefunds = 0

-----------------------------------------------------------------------------
(* start-build: the confirm gate, the reservation, files, ticket, unit.    *)

(* The spec is read before anything is reserved.                           *)
ReadSpec(b, s) ==
    /\ up /\ At(b, "free") /\ \A c \in Builds : c < b => ~At(c, "free")
    /\ spec[s] = "confirmed"
    /\ build' = [build EXCEPT ![b] = [pc |-> "reserve", slug |-> s, day |-> NoDay,
                                       verb |-> "waits", refund |-> FALSE]]
    /\ UNCHANGED <<day, up, todo, disk, unit, exit, memory, audited, crashes, history>>

CountToday_MemoryOnly == IF count.day = day THEN count.n ELSE 0

(* The count of the day: kept in memory, and read off the audit lines on   *)
(* the first build of a day and after a restart.                           *)
CountToday == IF count.day = day THEN count.n
              ELSE Cardinality({b \in Builds : audited[b] = day})

Deny(b) == /\ Goto(b, "over")
           /\ UNCHANGED <<day, up, todo, disk, unit, exit, memory, audited, crashes, history>>

Reserve(b) ==
    /\ At(b, "reserve")
    /\ IF Slug(b) \in active \/ CountToday >= Cap
       THEN Deny(b)
       ELSE /\ count' = [day |-> day, n |-> CountToday + 1]
            /\ active' = active \cup {Slug(b)}
            /\ build' = [build EXCEPT ![b] = [@ EXCEPT !.pc = "logs", !.day = day]]
            /\ UNCHANGED <<day, up, todo, disk, unit, exit, audited, crashes, history>>

(* A build that has given its slug back, or lost it, may take what a later *)
(* build of the slug holds when it tidies up by name.                      *)
Claimants(s) == {b \in Builds : build[b].pc \notin {"free", "reserve", "over", "left"} /\ Slug(b) = s}
LeavesOthers(b) == robbed' = IF build[b].refund \/ b \in robbed
                             THEN robbed \cup (Claimants(Slug(b)) \ {b}) ELSE robbed

(* The refund goes to whatever day the count is for.                       *)
Refund(b) ==
    /\ count' = [count EXCEPT !.n = IF @ > 0 THEN @ - 1 ELSE 0]
    /\ misrefunds' = misrefunds + (IF count.n > 0 /\ count.day # build[b].day THEN 1 ELSE 0)
    /\ active' = active \ {Slug(b)}
    /\ LeavesOthers(b)

OpenLogs(b) ==
    /\ At(b, "logs")
    /\ \/ /\ logs' = logs \cup {b}
          /\ Goto(b, "ticket")
          /\ UNCHANGED <<memory, misrefunds, robbed>>
       \/ /\ Refund(b)
          /\ Goto(b, "over")
          /\ UNCHANGED logs
    /\ UNCHANGED <<day, up, todo, spec, ticket, unit, exit, audited, crashes, told, cut>>

WriteTicket(b) ==
    /\ At(b, "ticket")
    /\ \/ /\ ticket' = [ticket EXCEPT ![Slug(b)] = b]
          /\ robbed' = robbed \cup ({ticket[Slug(b)]} \ {Nothing})
          /\ Goto(b, "announce")
          /\ UNCHANGED <<logs, memory, misrefunds>>
       \/ /\ Refund(b)
          /\ logs' = logs \ {b}
          /\ Goto(b, "over")
          /\ UNCHANGED ticket
    /\ UNCHANGED <<day, up, todo, spec, unit, exit, audited, crashes, told, cut>>

Stamp(s, from, status) ==
    spec' \in {spec, IF spec[s] = from THEN [spec EXCEPT ![s] = status] ELSE spec}

Announce(b) ==
    /\ At(b, "announce")
    /\ Stamp(Slug(b), "confirmed", "building")
    /\ Goto(b, "spawn")
    /\ UNCHANGED <<day, up, todo, ticket, logs, unit, exit, memory, audited, crashes, history>>

(* systemd takes one unit of a name: a second one never runs, and its      *)
(* client exits with an error like any build that failed.                  *)
Spawn(b) ==
    /\ At(b, "spawn")
    /\ \/ /\ IF unit[Slug(b)] = Nothing
             THEN unit' = [unit EXCEPT ![Slug(b)] = b] /\ UNCHANGED exit
             ELSE exit' = [exit EXCEPT ![b] = "ok"] /\ UNCHANGED unit
          /\ build' = [build EXCEPT ![b] = [@ EXCEPT !.pc = "watch", !.verb = "returns"]]
          /\ UNCHANGED <<spec, ticket, logs, memory, misrefunds, robbed>>
       \/ /\ Refund(b)
          /\ logs' = logs \ {b}
          /\ ticket' = [ticket EXCEPT ![Slug(b)] = Nothing]
          /\ Stamp(Slug(b), "building", "confirmed")
          /\ Goto(b, "over")
          /\ UNCHANGED <<unit, exit>>
    /\ UNCHANGED <<day, up, todo, audited, crashes, told, cut>>

(* dispatch writes the line of a started build when the verb returns.      *)
Audit(b) ==
    /\ ~At(b, "free") /\ build[b].verb = "returns"
    /\ audited' = [audited EXCEPT ![b] = day]
    /\ build' = [build EXCEPT ![b].verb = "audited"]
    /\ UNCHANGED <<day, up, todo, disk, unit, exit, memory, crashes, history>>

-----------------------------------------------------------------------------
(* The unit, and the end of a build.                                       *)

UnitEnds(s) ==
    /\ unit[s] # Nothing
    /\ \E how \in {"ok", "refused"} : exit' = [exit EXCEPT ![unit[s]] = how]
    /\ unit' = [unit EXCEPT ![s] = Nothing]
    /\ UNCHANGED <<day, up, todo, disk, memory, audited, build, crashes, history>>

Narrate(b) == told' = [told EXCEPT ![b] = @ + 1]

(* Stopping the unit of that name, which may fail.                         *)
StopUnit(s) ==
    \/ UNCHANGED <<unit, exit>>
    \/ /\ unit[s] # Nothing
       /\ exit' = [exit EXCEPT ![unit[s]] = "ok"]
       /\ unit' = [unit EXCEPT ![s] = Nothing]

(* _reap_build: an ended build is stamped and narrated, and so is one past *)
(* its deadline, after its unit was stopped.                               *)
Reap(b) ==
    /\ At(b, "watch") /\ exit[b] # "refused"
    /\ IF exit[b] = "none" THEN StopUnit(Slug(b)) ELSE UNCHANGED <<unit, exit>>
    /\ Stamp(Slug(b), "building", "ended")
    /\ Narrate(b)
    /\ Goto(b, "tidy")
    /\ UNCHANGED <<day, up, todo, ticket, logs, memory, audited, crashes, robbed, cut, misrefunds>>

(* A preflight refusal gives slot and slug back first, then the word.      *)
RefusedRelease(b) ==
    /\ At(b, "watch") /\ exit[b] = "refused"
    /\ Refund(b)
    /\ build' = [build EXCEPT ![b] = [@ EXCEPT !.pc = "restamp", !.refund = TRUE]]
    /\ UNCHANGED <<day, up, todo, disk, unit, exit, audited, crashes, told, cut>>

RefusedRestamp(b) ==
    /\ At(b, "restamp")
    /\ Stamp(Slug(b), "building", "confirmed")
    /\ Goto(b, "refused")
    /\ UNCHANGED <<day, up, todo, ticket, logs, unit, exit, memory, audited, crashes, history>>

RefusedNarrate(b) ==
    /\ At(b, "refused")
    /\ Narrate(b)
    /\ Goto(b, "tidy")
    /\ UNCHANGED <<day, up, todo, disk, unit, exit, memory, audited, crashes, robbed, cut, misrefunds>>

(* finally: files, ticket, claim, each by its name.                        *)
Unlink(b) ==
    /\ At(b, "tidy")
    /\ logs' = logs \ {b}
    /\ Goto(b, "logsGone")
    /\ UNCHANGED <<day, up, todo, spec, ticket, unit, exit, memory, audited, crashes, history>>

RemoveTicket_Forgets(b) ==
    /\ At(b, "logsGone") /\ Goto(b, "ticketGone")
    /\ UNCHANGED <<day, up, todo, disk, unit, exit, memory, audited, crashes, history>>

RemoveTicket(b) ==
    /\ At(b, "logsGone")
    /\ ticket' = [ticket EXCEPT ![Slug(b)] = Nothing]
    /\ LeavesOthers(b)
    /\ Goto(b, "ticketGone")
    /\ UNCHANGED <<day, up, todo, spec, logs, unit, exit, memory, audited, crashes, told, cut, misrefunds>>

FinishBuild(b) ==
    /\ At(b, "ticketGone")
    /\ active' = active \ {Slug(b)}
    /\ LeavesOthers(b)
    /\ Goto(b, "over")
    /\ UNCHANGED <<day, up, todo, disk, unit, exit, count, audited, crashes, told, cut, misrefunds>>

-----------------------------------------------------------------------------
(* A restart of the broker: threads and memory are gone, units are not.    *)

Crash ==
    /\ crashes < MaxCrashes
    /\ crashes' = crashes + 1
    /\ up' = FALSE /\ todo' = Slugs
    /\ active' = {} /\ count' = [day |-> NoDay, n |-> 0]
    /\ cut' = cut \cup {b \in Builds : build[b].pc \in {"tidy", "logsGone", "tidyUnclaimed"}}
    /\ build' = [b \in Builds |->
                   IF At(b, "free") THEN build[b]
                   ELSE [build[b] EXCEPT !.pc = IF @ \in {"kept", "left"} THEN "left" ELSE "over",
                                         !.verb = IF @ = "returns" THEN "lost" ELSE @]]
    /\ UNCHANGED <<day, disk, unit, exit, audited, told, robbed, misrefunds>>

Adopt_Unclaimed(s) ==
    /\ ~up /\ s \in todo
    /\ todo' = todo \ {s}
    /\ IF ticket[s] = Nothing \/ unit[s] = Nothing THEN UNCHANGED build ELSE Goto(ticket[s], "poll")
    /\ UNCHANGED <<day, up, disk, unit, exit, memory, audited, crashes, history>>

Adopt_RunningOnly(s) ==
    /\ ~up /\ s \in todo
    /\ todo' = todo \ {s}
    /\ IF ticket[s] = Nothing \/ unit[s] = Nothing THEN UNCHANGED <<active, build>>
       ELSE active' = active \cup {s} /\ Goto(ticket[s], "poll")
    /\ UNCHANGED <<day, up, disk, unit, exit, count, audited, crashes, history>>

(* The directory of the tickets cannot be listed: nothing is adopted, and  *)
(* nothing swept.                                                          *)
AdoptNone ==
    /\ ~up /\ todo = Slugs
    /\ todo' = {} /\ up' = TRUE
    /\ build' = [b \in Builds |-> IF \E s \in Slugs : ticket[s] = b
                                 THEN [build[b] EXCEPT !.pc = "left"] ELSE build[b]]
    /\ UNCHANGED <<day, disk, unit, exit, memory, audited, crashes, history>>

(* adopt_inflight_builds, a ticket at a time, before anything is served.   *)
(* systemctl may not answer: that is not "active".  A ticket that cannot   *)
(* be read is garbage and goes, whatever its unit does.                    *)
Adopt(s) ==
    /\ ~up /\ s \in todo
    /\ todo' = todo \ {s}
    /\ IF ticket[s] = Nothing
       THEN UNCHANGED <<active, build, told, spec, ticket>>
       ELSE \/ /\ unit[s] # Nothing
               /\ active' = active \cup {s}
               /\ Goto(ticket[s], "poll")
               /\ UNCHANGED <<told, spec, ticket>>
            \/ /\ Narrate(ticket[s])
               /\ Stamp(s, "building", "ended")
               /\ Goto(ticket[s], "tidyUnclaimed")
               /\ UNCHANGED <<active, ticket>>
            \/ /\ ticket' = [ticket EXCEPT ![s] = Nothing]
               /\ Goto(ticket[s], "left")
               /\ UNCHANGED <<active, told, spec>>
    /\ UNCHANGED <<day, up, logs, unit, exit, count, audited, crashes, robbed, cut, misrefunds>>

TidyAdopted(b) ==
    /\ At(b, "tidyUnclaimed")
    /\ logs' = logs \ {b}
    /\ ticket' = [ticket EXCEPT ![Slug(b)] = Nothing]
    /\ Goto(b, "over")
    /\ UNCHANGED <<day, up, todo, spec, unit, exit, memory, audited, crashes, history>>

Serve_SweepsAll ==
    /\ ~up /\ todo = {}
    /\ \A b \in Builds : ~At(b, "tidyUnclaimed")
    /\ logs' = {} /\ up' = TRUE
    /\ UNCHANGED <<day, todo, spec, ticket, unit, exit, memory, audited, build, crashes, history>>

(* The janitor sweeps the files no ticket names, and the doors open.       *)
Serve ==
    /\ ~up /\ todo = {}
    /\ \A b \in Builds : ~At(b, "tidyUnclaimed")
    /\ logs' = logs \cap {ticket[s] : s \in Slugs}
    /\ up' = TRUE
    /\ UNCHANGED <<day, todo, spec, ticket, unit, exit, memory, audited, build, crashes, history>>

(* _reap_adopted_build: until the unit is seen not to run, or cannot be    *)
(* asked about, or the deadline on the ticket has passed.  A reaper that   *)
(* raises before it has narrated gives up, and keeps ticket and claim.     *)
Poll(b) ==
    /\ At(b, "poll")
    /\ StopUnit(Slug(b))
    /\ Stamp(Slug(b), "building", "ended")
    /\ \/ Narrate(b) /\ Goto(b, "tidy")
       \/ Goto(b, "kept") /\ UNCHANGED told
    /\ UNCHANGED <<day, up, todo, ticket, logs, memory, audited, crashes, robbed, cut, misrefunds>>

-----------------------------------------------------------------------------
Midnight == /\ day < MaxDay
            /\ day' = day + 1
            /\ UNCHANGED <<up, todo, disk, unit, exit, memory, audited, build, crashes, history>>

(* A person sets a failed spec back to confirmed.                          *)
Confirm(s) ==
    /\ spec[s] = "ended"
    /\ spec' = [spec EXCEPT ![s] = "confirmed"]
    /\ UNCHANGED <<day, up, todo, ticket, logs, unit, exit, memory, audited, build, crashes, history>>

Thread(b) == \/ Reserve(b) \/ OpenLogs(b) \/ WriteTicket(b) \/ Announce(b) \/ Spawn(b)
             \/ Reap(b) \/ RefusedRelease(b) \/ RefusedRestamp(b) \/ RefusedNarrate(b)
             \/ Unlink(b) \/ RemoveTicket(b) \/ FinishBuild(b)
             \/ TidyAdopted(b) \/ Poll(b)

Restart == Serve \/ AdoptNone \/ \E s \in Slugs : Adopt(s)

Next ==
    \/ \E b \in Builds, s \in Slugs : ReadSpec(b, s)
    \/ \E b \in Builds : Thread(b) \/ Audit(b)
    \/ \E s \in Slugs : UnitEnds(s) \/ Confirm(s)
    \/ Restart \/ Crash \/ Midnight

(* Threads go on (every call has a timeout, the reaper its deadline) and   *)
(* systemd restarts the broker, which adopts before it serves.             *)
Spec == Init /\ [][Next]_vars /\ WF_vars(Restart) /\ \A b \in Builds : WF_vars(Thread(b))

-----------------------------------------------------------------------------
(* The shape of the state; every build that has a thread names a slug, and *)
(* a ticket names a build of its slug.                                     *)
TypeOK ==
    /\ day \in 0..MaxDay /\ todo \subseteq Slugs /\ (todo # {} => ~up)
    /\ \A s \in Slugs : /\ spec[s] \in {"confirmed", "building", "ended"}
                        /\ \A b \in {ticket[s], unit[s]} \ {Nothing} : b \in Builds /\ Slug(b) = s
    /\ logs \subseteq Builds /\ active \subseteq Slugs
    /\ count.n \in 0..Cap /\ misrefunds \in Nat
    /\ \A b \in Builds : exit[b] \in {"none", "ok", "refused"} /\ told[b] \in Nat

(* A build's end is narrated once, unless the broker died between the      *)
(* narration and the removal of the ticket (_narrate_adopted_outcome).     *)
ToldOnce == \A b \in Builds : told[b] <= 1 \/ (b \in cut /\ told[b] <= 1 + crashes)

(* The ticket and the claim of a build stay its own until it is narrated   *)
(* and tidied, so that the next broker can finish its story                *)
(* (_write_build_sidecar), also when its reaper gives up before that; the  *)
(* reaper of a refused build is the exception.                             *)
TicketStays ==
    \A b \in Builds :
        (/\ build[b].pc \in {"announce", "spawn", "watch", "poll", "kept", "tidy"}
         /\ b \notin robbed)
        => \/ build[b].refund
           \/ ticket[Slug(b)] = b /\ Slug(b) \in active

(* H13-D4: builds that ran never exceed the day's cap, but for those whose *)
(* audit line a crash took and for slots refunded to the wrong day.        *)
Lost == {b \in Builds : ~At(b, "free") /\ build[b].verb = "lost"}
Ran(d) == {b \in Builds : /\ ~At(b, "free") /\ build[b].day = d
                          /\ build[b].verb # "waits" /\ ~build[b].refund}
BudgetHolds ==
    \A d \in 0..MaxDay : Cardinality(Ran(d)) <= Cap + Cardinality(Lost) + misrefunds

(* The files of a build are there when its outcome is read out of them.    *)
HarvestHasItsFiles ==
    \A b \in Builds : build[b].pc \in {"spawn", "watch", "poll"} => b \in logs \cup robbed \cup cut

(* Whatever dies, a build that started is narrated, if its ticket was not  *)
(* taken by the reaper of a refused build, was there to be read when a     *)
(* broker came back, and the reaper of that broker did not give up.        *)
EveryBuildIsTold ==
    \A b \in Builds : (~At(b, "free") /\ build[b].verb # "waits")
                         ~> (told[b] > 0 \/ b \in robbed \/ build[b].pc \in {"left", "kept"})

(* "a broker that dies mid-spawn still leaves a trail for the next process *)
(* to adopt": a running build nobody has narrated has its ticket.  The     *)
(* code does not keep this (README, section 5), so no run checks it.       *)
RunningBuildsHaveTickets ==
    \A s \in Slugs : unit[s] # Nothing /\ told[unit[s]] = 0 => ticket[s] = unit[s]
=============================================================================
