---------------------------- MODULE MergePipeline ----------------------------
(***************************************************************************)
(* How loop/<slug> gets onto the gatehouse's main: the merge verb of the   *)
(* broker (harness/broker/broker_merge.py), asked for by a person's /merge *)
(* or by the end of a build, while seats push their branches, reviewers    *)
(* post a PASS and the keyboard pushes to main.                            *)
(*                                                                         *)
(* A run claims its slug, folds main into the branch when it has to, pins  *)
(* main and the tip, has the branch gated and classified BY NAME, checks   *)
(* the PASS of a Tier 2, and under the one merge lock clones, merges,      *)
(* looks again and pushes.  Every git call is a step.  Time is counted in  *)
(* PASS posts: a commit is dated by the posts that are older.              *)
(***************************************************************************)
EXTENDS Naturals, Sequences, FiniteSets

CONSTANTS
    Slugs, Runs,   \* branches, and threads that merge them
    Tiers,         \* what the classifier may say of one change when it is green
    Budget,        \* daily_auto_apply_budget
    MaxChanges, MaxPasses, MaxAsks, MaxCrashes \* bounds

ASSUME MergeAssumption ==
    /\ Tiers \subseteq 0..2 /\ Tiers # {}
    /\ {Budget, MaxChanges, MaxPasses, MaxAsks, MaxCrashes} \subseteq Nat
    /\ IsFiniteSet(Slugs)

VARIABLES
    commits,    \* every commit pushed: what it reaches, if it is a change, its tier and date
    main, tip,  \* the refs of the gatehouse
    passes,     \* the PASS posts: the slug they name and (history) the tip the reviewer saw
    claims,     \* _gate_runs
    lock,       \* _merge_lock is held
    ledgered,   \* self-merge lines on today's ledger
    run,        \* where each thread is, and what it knows
    asks, crashes, \* bounds
    gatedTrees, greens, \* history: trees that were gated, and that were green
    landed,     \* history: what runs have pushed to main
    unledgered, \* history: self-merges that left no line
    blind,      \* history: self-merges let through by a full ledger nobody could read
    late        \* history: commits dated before a PASS they were pushed after

gatehouse == <<commits, main, tip>>
history == <<gatedTrees, greens, landed, unledgered, blind, late>>
vars == <<gatehouse, passes, claims, lock, ledgered, run, asks, crashes, history>>

Commit == 1..Len(commits)
Reach(c) == commits[c].reach
Tree(c) == {d \in Reach(c) : commits[d].change}
TreeOf(S) == {d \in S : commits[d].change}

Idle == [pc |-> "idle"]
Done(s) == [pc |-> "done", slug |-> s]
At(r, where) == run[r].pc = where
Goto(r, where) == run' = [run EXCEPT ![r].pc = where]

(* Every slug has a build on its branch, one change on top of main.        *)
Init ==
    /\ \E tier \in [2..Cardinality(Slugs) + 1 -> Tiers] :
          commits = [c \in 1..Cardinality(Slugs) + 1 |->
                       IF c = 1 THEN [reach |-> {1}, change |-> FALSE, tier |-> 0, date |-> 0]
                       ELSE [reach |-> {1, c}, change |-> TRUE, tier |-> tier[c], date |-> 0]]
    /\ main = 1
    /\ tip = CHOOSE f \in [Slugs -> 2..Cardinality(Slugs) + 1] :
                \A s, t \in Slugs : f[s] = f[t] => s = t
    /\ passes = <<>>
    /\ claims = {} /\ lock = FALSE /\ ledgered = 0
    /\ run = [r \in Runs |-> Idle]
    /\ asks = 0 /\ crashes = 0
    /\ gatedTrees = {} /\ greens = {} /\ landed = {} /\ unledgered = 0 /\ blind = 0
    /\ late = {}

-----------------------------------------------------------------------------
(* The people and programs around the pipeline.                            *)

NewCommit(reach, change, tier, date) ==
    /\ commits' = Append(commits, [reach |-> reach \cup {Len(commits) + 1},
                                   change |-> change, tier |-> tier, date |-> date])
    /\ late' = IF date < Len(passes) THEN late \cup {Len(commits) + 1} ELSE late

(* A seat pushes its branch, never forced; the commit may be older.        *)
PushBranch(s) ==
    \E tier \in Tiers, date \in commits[tip[s]].date..Len(passes) :
        /\ Cardinality(TreeOf(Commit)) < MaxChanges
        /\ NewCommit(Reach(tip[s]), TRUE, tier, date)
        /\ tip' = [tip EXCEPT ![s] = Len(commits) + 1]
        /\ UNCHANGED <<main, passes, claims, lock, ledgered, run, asks, crashes,
                       gatedTrees, greens, landed, unledgered, blind>>

KeyboardPush ==
    /\ Cardinality(TreeOf(Commit)) < MaxChanges
    /\ NewCommit(Reach(main), TRUE, 0, Len(passes))
    /\ main' = Len(commits) + 1
    /\ UNCHANGED <<tip, passes, claims, lock, ledgered, run, asks, crashes,
                   gatedTrees, greens, landed, unledgered, blind>>

PostPass(s) ==
    /\ Len(passes) < MaxPasses
    /\ passes' = Append(passes, [slug |-> s, saw |-> tip[s]])
    /\ UNCHANGED <<gatehouse, claims, lock, ledgered, run, asks, crashes, history>>

-----------------------------------------------------------------------------
(* Taking the slug.                                                        *)

(* The PASS is for this slug and newer than the branch's tip, by its date. *)
PassHolds(p, s) == passes[p].slug = s /\ p > commits[tip[s]].date

Claim(r, s, self, p) ==
    /\ At(r, "idle") /\ asks < MaxAsks
    /\ s \notin claims
    /\ claims' = claims \cup {s}
    /\ asks' = asks + 1
    /\ run' = [run EXCEPT ![r] =
                 [pc |-> "main", slug |-> s, self |-> self, pass |-> p, tried |-> FALSE,
                  mainSha |-> 0, tipSha |-> 0, base |-> 0, other |-> 0, date |-> 0,
                  green |-> FALSE]]
    /\ UNCHANGED <<gatehouse, passes, lock, ledgered, crashes, history>>

(* /merge <slug> [pass <seq>]: a PASS that does not hold gives the slug     *)
(* back at once, and a slug somebody is gating is busy.                    *)
AskMerge(r, s) ==
    \E p \in 0..Len(passes) :
        /\ p # 0 => PassHolds(p, s)
        /\ Claim(r, s, FALSE, p)

(* A build from chat has published loop/<slug>: its own seq authorizes it. *)
BuildEnds(r, s) == Claim(r, s, TRUE, 0)

InLock(r) == run[r].pc \in {"clone", "fetch", "assertMain", "assertTip", "push", "ledger"}

(* Every refusal: out of the lock, if it was in it, and to the last post.  *)
Refuse(r) == /\ run' = [run EXCEPT ![r] = Done(run[r].slug)]
             /\ lock' = (lock /\ ~InLock(r))
             /\ UNCHANGED <<gatehouse, passes, claims, ledgered, asks, crashes, history>>

Know(r, new) == /\ run' = [run EXCEPT ![r] = new]
                /\ UNCHANGED <<gatehouse, passes, claims, lock, ledgered, asks, crashes, history>>

-----------------------------------------------------------------------------
(* The first check: main in the branch, by a fold if it must be.           *)

ReadMain(r) == /\ At(r, "main")
               /\ Know(r, [run[r] EXCEPT !.pc = "ancestor", !.mainSha = main])

Ancestor(r) ==
    /\ At(r, "ancestor")
    /\ IF main \in Reach(tip[run[r].slug])
       THEN Know(r, [run[r] EXCEPT !.pc = "tip"])
       ELSE IF run[r].tried THEN Refuse(r)
       ELSE Know(r, [run[r] EXCEPT !.pc = "foldClone"])

FoldClone(r) ==
    /\ At(r, "foldClone")
    /\ Know(r, [run[r] EXCEPT !.pc = "foldMerge", !.base = tip[run[r].slug], !.tried = TRUE])

(* git merge in the clone, dated now: a conflict is for the keyboard.      *)
FoldMerge(r) ==
    /\ At(r, "foldMerge")
    /\ \/ Refuse(r)
       \/ /\ main \in Reach(run[r].base)
          /\ Know(r, [run[r] EXCEPT !.pc = "main", !.base = 0])
       \/ /\ main \notin Reach(run[r].base)
          /\ Know(r, [run[r] EXCEPT !.pc = "foldPush", !.other = main, !.date = Len(passes)])

(* A branch with nothing of its own fast-forwards; a push over a branch    *)
(* that has moved is refused by git.                                       *)
FoldPush(r) ==
    LET s == run[r].slug
        folded == Reach(run[r].base) \cup Reach(run[r].other)
    IN /\ At(r, "foldPush")
       /\ \/ Refuse(r)
          \/ /\ tip[s] \in folded
             /\ IF run[r].base \in Reach(run[r].other)
                THEN /\ tip' = [tip EXCEPT ![s] = run[r].other]
                     /\ UNCHANGED <<commits, late>>
                ELSE /\ NewCommit(folded, FALSE, 0, run[r].date)
                     /\ tip' = [tip EXCEPT ![s] = Len(commits) + 1]
             /\ run' = [run EXCEPT ![r] = [@ EXCEPT !.pc = "main", !.base = 0, !.other = 0, !.date = 0]]
             /\ UNCHANGED <<main, passes, claims, lock, ledgered, asks, crashes,
                            gatedTrees, greens, landed, unledgered, blind>>

(* The tip everything after this point is pinned to.                       *)
ReadTip(r) ==
    LET seen == tip[run[r].slug]
    IN /\ At(r, "tip")
       /\ IF seen \in Reach(main)
          THEN Refuse(r)
          ELSE Know(r, [run[r] EXCEPT !.pc = "gate", !.tipSha = seen, !.tried = FALSE])

-----------------------------------------------------------------------------
(* The gates and the classifier, over whatever the branch is by then.      *)

Gate(r) ==
    /\ At(r, "gate")
    /\ \/ Refuse(r)  \* not started, or misconfigured
       \/ \E green \in BOOLEAN :
             LET tree == Tree(tip[run[r].slug])
             IN /\ gatedTrees' = gatedTrees \cup {tree}
                /\ greens' = IF green THEN greens \cup {tree} ELSE greens
                /\ run' = [run EXCEPT ![r].pc = "classify", ![r].green = green]
                /\ UNCHANGED <<gatehouse, passes, claims, lock, ledgered, asks, crashes,
                               landed, unledgered, blind, late>>

TierOf(changes) == IF changes = {} THEN 0
                   ELSE CHOOSE t \in {commits[c].tier : c \in changes} :
                            \A c \in changes : commits[c].tier <= t

Classify_TrustsTheTier(r) ==
    LET diff == Tree(tip[run[r].slug]) \ Tree(main)
        tier == TierOf(diff)
    IN /\ At(r, "classify")
       /\ IF (run[r].self /\ tier # 0) \/ (~run[r].self /\ tier = 2 /\ run[r].pass = 0)
          THEN Refuse(r)
          ELSE Know(r, [run[r] EXCEPT !.green = FALSE,
                                      !.pass = IF tier = 2 THEN @ ELSE 0,
                                      !.pc = IF tier = 2 THEN "pass" ELSE "lock"])

Classify(r) ==
    LET diff == Tree(tip[run[r].slug]) \ Tree(main)
        tier == IF run[r].green THEN TierOf(diff) ELSE 2
    IN /\ At(r, "classify")
       /\ IF \/ run[r].self /\ (~run[r].green \/ tier # 0)
             \/ ~run[r].self /\ tier = 2 /\ run[r].pass = 0
          THEN Refuse(r)
          ELSE Know(r, [run[r] EXCEPT !.green = FALSE,
                                       !.pass = IF tier = 2 THEN @ ELSE 0,
                                       !.pc = IF tier = 2 THEN "pass" ELSE "lock"])

PassAgain_OnceIsEnough(r) == At(r, "pass") /\ Know(r, [run[r] EXCEPT !.pc = "lock"])

PassAgain(r) ==
    /\ At(r, "pass")
    /\ IF PassHolds(run[r].pass, run[r].slug) THEN Know(r, [run[r] EXCEPT !.pc = "lock"])
                                              ELSE Refuse(r)

-----------------------------------------------------------------------------
(* One merge at a time: budget, clone, merge, second look, push, ledger.   *)

TakeLock_NoLock(r) ==
    /\ At(r, "lock")
    /\ IF run[r].self /\ ledgered >= Budget
       THEN Refuse(r)
       ELSE /\ lock' = TRUE
            /\ Goto(r, "clone")
            /\ UNCHANGED <<gatehouse, passes, claims, ledgered, asks, crashes, history>>

(* _auto_merges_today: a ledger that cannot be read counts nothing.        *)
TakeLock(r) ==
    /\ At(r, "lock") /\ ~lock
    /\ \E today \in {ledgered, 0} :
          IF run[r].self /\ today >= Budget
          THEN Refuse(r)
          ELSE /\ lock' = TRUE
               /\ Goto(r, "clone")
               /\ blind' = blind + (IF run[r].self /\ ledgered >= Budget THEN 1 ELSE 0)
               /\ UNCHANGED <<gatehouse, passes, claims, ledgered, asks, crashes,
                              gatedTrees, greens, landed, unledgered, late>>

CloneMain(r) == /\ At(r, "clone")
                /\ Know(r, [run[r] EXCEPT !.pc = "fetch", !.base = main])

FetchAndMerge_FetchHead(r) ==
    /\ At(r, "fetch")
    /\ Know(r, [run[r] EXCEPT !.pc = "assertMain", !.tipSha = tip[run[r].slug]])

(* Fetch the branch and merge the pinned tip into the clone, which can     *)
(* only conflict when main has gone on.                                    *)
FetchAndMerge(r) ==
    /\ At(r, "fetch")
    /\ \/ tip[run[r].slug] # run[r].tipSha /\ Refuse(r)
       \/ run[r].base \notin Reach(run[r].tipSha) /\ Refuse(r)
       \/ /\ tip[run[r].slug] = run[r].tipSha
          /\ Know(r, [run[r] EXCEPT !.pc = "assertMain"])

AssertMainUnmoved(r) ==
    /\ At(r, "assertMain")
    /\ IF main = run[r].mainSha /\ main \in Reach(tip[run[r].slug])
       THEN Know(r, [run[r] EXCEPT !.pc = "assertTip"])
       ELSE Refuse(r)

AssertTipUnmoved(r) ==
    /\ At(r, "assertTip")
    /\ IF tip[run[r].slug] = run[r].tipSha
       THEN Know(r, [run[r] EXCEPT !.pc = "push"])
       ELSE Refuse(r)

(* Not forced: git takes it only from a main the clone has; the hook may   *)
(* refuse as well.                                                         *)
PushMain(r) ==
    LET reach == Reach(run[r].base) \cup Reach(run[r].tipSha)
    IN /\ At(r, "push")
       /\ \/ Refuse(r)
          \/ /\ main \in reach
             /\ NewCommit(reach, FALSE, 0, Len(passes))
             /\ main' = Len(commits) + 1
             /\ landed' = landed \cup
                  {[tree |-> TreeOf(reach), new |-> TreeOf(reach) \ Tree(main),
                    tip |-> run[r].tipSha, self |-> run[r].self,
                    pass |-> run[r].pass]}
             /\ run' = [run EXCEPT ![r] = [@ EXCEPT !.pc = "ledger", !.pass = 0, !.base = 0,
                                                     !.mainSha = 0, !.tipSha = 0]]
             /\ UNCHANGED <<tip, passes, claims, lock, ledgered, asks, crashes,
                            gatedTrees, greens, unledgered, blind>>

(* A line that cannot be written is audited and forgotten.                 *)
WriteLedger(r) ==
    /\ At(r, "ledger")
    /\ \/ /\ ledgered' = ledgered + (IF run[r].self THEN 1 ELSE 0)
          /\ UNCHANGED unledgered
       \/ /\ unledgered' = unledgered + (IF run[r].self THEN 1 ELSE 0)
          /\ UNCHANGED ledgered
    /\ lock' = FALSE
    /\ run' = [run EXCEPT ![r] = Done(run[r].slug)]
    /\ UNCHANGED <<gatehouse, passes, claims, asks, crashes, gatedTrees, greens, landed, blind, late>>

(* The one post the room is left with, and the slug given back.            *)
Finish(r) ==
    /\ At(r, "done")
    /\ claims' = claims \ {run[r].slug}
    /\ run' = [run EXCEPT ![r] = Idle]
    /\ UNCHANGED <<gatehouse, passes, lock, ledgered, asks, crashes, history>>

(* The broker restarts: its threads, claims and lock are gone.             *)
Crash ==
    /\ crashes < MaxCrashes
    /\ crashes' = crashes + 1
    /\ claims' = {} /\ lock' = FALSE
    /\ run' = [r \in Runs |-> Idle]
    /\ unledgered' = unledgered + Cardinality({r \in Runs : At(r, "ledger") /\ run[r].self})
    /\ UNCHANGED <<gatehouse, passes, ledgered, asks, gatedTrees, greens, landed, blind, late>>

-----------------------------------------------------------------------------
Step(r) == \/ ReadMain(r) \/ Ancestor(r) \/ FoldClone(r) \/ FoldMerge(r) \/ FoldPush(r)
           \/ ReadTip(r) \/ Gate(r) \/ Classify(r) \/ PassAgain(r)
           \/ TakeLock(r) \/ CloneMain(r) \/ FetchAndMerge(r) \/ AssertMainUnmoved(r)
           \/ AssertTipUnmoved(r) \/ PushMain(r) \/ WriteLedger(r) \/ Finish(r)

Next ==
    \/ \E s \in Slugs : PushBranch(s) \/ PostPass(s)
    \/ KeyboardPush
    \/ \E r \in Runs, s \in Slugs : AskMerge(r, s) \/ BuildEnds(r, s)
    \/ \E r \in Runs : Step(r)
    \/ Crash

Spec == Init /\ [][Next]_vars

-----------------------------------------------------------------------------
(* Refs name commits, claims are the slugs of the threads that work, and   *)
(* the lock is held exactly while one of them merges.                      *)
TypeOK ==
    /\ main \in Commit /\ tip \in [Slugs -> Commit]
    /\ \A c \in Commit : Reach(c) \subseteq 1..c /\ c \in Reach(c)
    /\ \A p \in DOMAIN passes : passes[p].slug \in Slugs /\ passes[p].saw \in Commit
    /\ claims = {run[r].slug : r \in {q \in Runs : ~At(q, "idle")}}
    /\ Cardinality(claims) = Cardinality({r \in Runs : ~At(r, "idle")})
    /\ lock = (\E r \in Runs : InLock(r))
    /\ {ledgered, unledgered, blind} \subseteq Nat

(* A merge no person asked for (_build_end_banner) lands a tree the gates  *)
(* found green, and none of the changes it brings is above Tier 0.         *)
SelfMergesAreGreenTierZero ==
    \A m \in landed : m.self => m.tree \in greens /\ TierOf(m.new) = 0

(* _merge_now: however merges overlap, self-merges stay within the day's   *)
(* budget, but for those whose ledger line was lost to a crash or an       *)
(* unwritable ledger, and those that found a full ledger unreadable.       *)
BudgetHolds == Cardinality({m \in landed : m.self}) <= Budget + unledgered + blind

(* A merge without a PASS landed a green tree below Tier 2; one with a     *)
(* PASS landed the very tree its reviewer saw, unless the tip was pushed   *)
(* after the PASS with an older date (PROTOCOL.md: commit time counts).    *)
ReviewedOrHarmless ==
    \A m \in landed :
        IF m.pass = 0 THEN m.tree \in greens /\ TierOf(m.new) < 2
        ELSE passes[m.pass].saw = m.tip \/ m.tip \in late

(* "A PASS posted before the fold no longer names the gated tree": a PASS  *)
(* that was accepted was posted by somebody who could see the landed tip.  *)
(* The code does not keep this (README, section 5), so no run checks it.   *)
PassSawTheTree ==
    \A m \in landed : m.pass # 0 => passes[m.pass].saw = m.tip

(* Main only grows, and the broker only ever makes it a tree it gated.     *)
Promise == INSTANCE GatedMain WITH mainTree <- Tree(main), landings <- {m.tree : m \in landed}
GatedAsItLands == Promise!Spec
=============================================================================
