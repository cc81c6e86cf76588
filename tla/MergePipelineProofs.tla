------------------------- MODULE MergePipelineProofs -------------------------
(***************************************************************************)
(* Proofs about MergePipeline, for any branches, threads, tiers, budget    *)
(* and pushes.                                                             *)
(*                                                                         *)
(* The gates work on the branch by its name, so what they saw need not be  *)
(* what was pinned.  It is when the second look finds the branch where the *)
(* pin is: a ref never goes back, so it was there all along.  The same     *)
(* holds of main and of the clone the merge is made in.                    *)
(***************************************************************************)
EXTENDS MergePipeline, FiniteSetTheorems, FunctionTheorems, TLAPS

LockPlaces == {"clone", "fetch", "assertMain", "assertTip", "push", "ledger"}
Pinned == {"gate", "classify", "pass", "lock", "clone", "fetch", "assertMain"}
Busy == {"main", "ancestor", "foldClone", "foldMerge", "foldPush", "tip"} \cup Pinned \cup LockPlaces

CommitRecords == [reach : SUBSET Nat, change : BOOLEAN, tier : 0..2, date : Nat]
PassRecords == [slug : Slugs, saw : Nat]
LandRecords == [tree : SUBSET Nat, new : SUBSET Nat, tip : Nat, self : BOOLEAN, pass : Nat]
WorkRecords == [pc : Busy, slug : Slugs, self : BOOLEAN, pass : Nat, tried : BOOLEAN,
                mainSha : Nat, tipSha : Nat, base : Nat, other : Nat, date : Nat, green : BOOLEAN]
Resting == {Idle} \cup {Done(s) : s \in Slugs}

Typed ==
    /\ commits \in Seq(CommitRecords)
    /\ passes \in Seq(PassRecords)
    /\ main \in Commit /\ tip \in [Slugs -> Commit]
    /\ run \in [Runs -> WorkRecords \cup Resting]
    /\ landed \in SUBSET LandRecords /\ IsFiniteSet(landed)
    /\ ledgered \in Nat /\ unledgered \in Nat /\ blind \in Nat

(* The commits are a history: each reaches itself and older ones, and all  *)
(* that those reach.                                                       *)
History ==
    \A c \in Commit : /\ c \in Reach(c) /\ Reach(c) \subseteq 1..c
                      /\ \A d \in Reach(c) : Reach(d) \subseteq Reach(c)

(* A PASS newer than the date of a tip saw that tip, unless the tip was    *)
(* pushed with an older date or is on main already.                        *)
PassesSaw ==
    \A s \in Slugs, p \in 1..Len(passes) :
        passes[p].slug = s /\ p > commits[tip[s]].date =>
            passes[p].saw = tip[s] \/ tip[s] \in late \/ tip[s] \in Reach(main)

(* What a thread knows, by its place; much of it only as long as the       *)
(* branch is where it was pinned (AtPin).                                  *)
AtPin(x) == tip[x.slug] = x.tipSha
Approved(x) ==
    x.pass = 0 => /\ Tree(x.tipSha) \in greens
                  /\ \A c \in Tree(x.tipSha) \ Tree(main) :
                        commits[c].tier < 2 /\ (x.self => commits[c].tier = 0)
Reviewed(x) == x.pass # 0 => passes[x.pass].saw = x.tipSha \/ x.tipSha \in late

MainKnown(x) ==
    /\ x.pc \in {"ancestor", "foldClone", "foldMerge", "foldPush", "tip"} \cup Pinned =>
          x.mainSha \in Reach(main)
    /\ x.pc \in {"foldMerge", "foldPush"} => x.base \in Commit
    /\ x.pc = "foldPush" => x.other \in Reach(main) /\ x.date <= Len(passes)
TipKnown(x) ==
    /\ x.pc \in Pinned \cup {"assertTip", "push"} => x.tipSha \in Commit
    /\ x.pc \in Pinned => x.tipSha \notin Reach(x.mainSha)
    /\ x.pc \in Pinned \cup {"assertTip"} => x.tipSha \in Reach(tip[x.slug])
GateKnown(x) ==
    /\ x.pc \in {"classify", "pass", "lock", "clone", "fetch", "assertMain", "assertTip"} /\ AtPin(x) =>
          Tree(x.tipSha) \in gatedTrees
    /\ x.pc = "push" => Tree(x.tipSha) \in gatedTrees
    /\ x.pc = "classify" /\ x.green /\ AtPin(x) => Tree(x.tipSha) \in greens
BaseKnown(x) ==
    /\ x.pc \in {"fetch", "assertMain", "assertTip", "push"} => x.base \in Reach(main)
    /\ x.pc \in {"fetch", "assertMain"} => x.mainSha \in Reach(x.base)
    /\ x.pc = "assertTip" /\ AtPin(x) => x.base \in Reach(x.tipSha)
    /\ x.pc = "push" => x.base \in Reach(x.tipSha)
PassKnown(x) ==
    /\ x.pass \in 0..Len(passes)
    /\ x.self => x.pass = 0
    /\ x.pc = "pass" => x.pass # 0
    /\ x.pc \in {"lock", "clone", "fetch", "assertMain", "assertTip"} /\ AtPin(x) => Approved(x)
    /\ x.pc \in {"lock", "clone", "fetch", "assertMain"} /\ AtPin(x) /\ x.pass # 0 =>
          passes[x.pass].slug = x.slug /\ x.pass > commits[x.tipSha].date
    /\ x.pc = "assertTip" /\ AtPin(x) => Reviewed(x)
    /\ x.pc = "push" => Approved(x) /\ Reviewed(x)

Knows(x) == MainKnown(x) /\ TipKnown(x) /\ GateKnown(x) /\ BaseKnown(x) /\ PassKnown(x)
Works(r) == run[r].pc \in Busy
ThreadsKnow == \A r \in Runs : \A x \in WorkRecords : run[r] = x => Knows(x)

LandedFine(m) ==
    /\ m.new \subseteq Commit
    /\ m.self => m.pass = 0
    /\ m.pass = 0 => /\ m.tree \in greens
                     /\ \A c \in m.new : commits[c].tier < 2 /\ (m.self => commits[c].tier = 0)
    /\ m.pass # 0 => /\ m.pass \in 1..Len(passes)
                     /\ passes[m.pass].saw = m.tip \/ m.tip \in late
LandedWell == \A m \in landed : LandedFine(m)

(* One thread merges, and a self-merge has been counted, or lost its line, *)
(* or is about to be.                                                      *)
OneMerges ==
    /\ \A r \in Runs : run[r].pc \in LockPlaces => lock
    /\ \A r, q \in Runs : run[r].pc \in LockPlaces /\ run[q].pc \in LockPlaces => r = q
SelfMerges == {m \in landed : m.self}
Uncounted == {r \in Runs : At(r, "ledger") /\ run[r].self}
Counted ==
    /\ Cardinality(SelfMerges) <= ledgered + unledgered + Cardinality(Uncounted)
    /\ ledgered <= Budget + blind
    /\ \A r \in Runs : run[r].pc \in LockPlaces /\ run[r].self => ledgered < Budget + blind

IInv == Typed /\ History /\ PassesSaw /\ ThreadsKnow /\ LandedWell /\ OneMerges /\ Counted

-----------------------------------------------------------------------------
(* Records *)

LEMMA Constants ==
    ASSUME MergeAssumption
    PROVE  /\ Budget \in Nat /\ Tiers \subseteq 0..2 /\ IsFiniteSet(Slugs)
           /\ \A x \in Resting : x.pc \in {"idle", "done"}
           /\ \A x \in Resting : x.pc \notin Busy
           /\ \A x \in WorkRecords : x.pc \notin {"idle", "done"}
<1>1. \A x \in Resting : x.pc \in {"idle", "done"}
  BY DEF Resting, Idle, Done
<1> QED BY <1>1 DEF MergeAssumption, WorkRecords, Busy, Pinned, LockPlaces

LEMMA WorkingRecord ==
    ASSUME MergeAssumption, Typed, NEW r \in Runs, Works(r)
    PROVE  run[r] \in WorkRecords /\ run[r].slug \in Slugs
<1>1. run[r] \in WorkRecords
  BY Constants DEF Typed, Works
<1> QED BY <1>1 DEF WorkRecords

(* Every step of a thread puts one record in its place.                    *)
Puts(r, x) == run' = [run EXCEPT ![r] = x]

LEMMA PutsIsTyped ==
    ASSUME Typed, NEW r \in Runs, NEW x \in WorkRecords \cup Resting, Puts(r, x)
    PROVE  /\ run' \in [Runs -> WorkRecords \cup Resting]
           /\ run'[r] = x /\ \A q \in Runs \ {r} : run'[q] = run[q]
<1> QED BY DEF Typed, Puts

LEMMA RefuseRests ==
    ASSUME MergeAssumption, Typed, NEW r \in Runs, Works(r), Refuse(r)
    PROVE  /\ run' \in [Runs -> WorkRecords \cup Resting]
           /\ run'[r] = Done(run[r].slug) /\ run'[r].pc = "done"
           /\ \A q \in Runs \ {r} : run'[q] = run[q]
           /\ UNCHANGED <<commits, main, tip, passes, landed, gatedTrees, greens, late, ledgered, unledgered, blind>>
<1>1. Puts(r, Done(run[r].slug))
  BY DEF Refuse, Puts
<1>2. Done(run[r].slug) \in Resting
  BY WorkingRecord DEF Resting
<1> QED BY <1>1, <1>2, PutsIsTyped DEF Refuse, Done, gatehouse, history

-----------------------------------------------------------------------------
(* Commits *)

(* A commit on top of a closed set of commits extends the history.         *)
LEMMA AddsCommit ==
    ASSUME Typed, History, NEW reach \in SUBSET Commit, \A d \in reach : Reach(d) \subseteq reach,
           NEW change \in BOOLEAN, NEW tier \in 0..2, NEW date \in Nat,
           NewCommit(reach, change, tier, date)
    PROVE  /\ commits' \in Seq(CommitRecords) /\ Len(commits') = Len(commits) + 1
           /\ \A c \in Commit : commits'[c] = commits[c]
           /\ commits'[Len(commits) + 1].reach = reach \cup {Len(commits) + 1}
           /\ commits'[Len(commits) + 1].change = change
           /\ commits'[Len(commits) + 1].tier = tier
           /\ commits'[Len(commits) + 1].date = date
           /\ History'
           /\ late \subseteq late' /\ (date < Len(passes) => Len(commits) + 1 \in late')
<1> DEFINE n == Len(commits) + 1
           c0 == [reach |-> reach \cup {n}, change |-> change, tier |-> tier, date |-> date]
<1>1. commits' = Append(commits, c0) /\ Len(commits) \in Nat /\ commits \in Seq(CommitRecords)
  BY DEF NewCommit, Typed
<1>2. c0 \in CommitRecords
  <2>1. n \in Nat /\ \A d \in reach : d \in Nat
    BY <1>1 DEF Commit
  <2>2. reach \cup {n} \in SUBSET Nat
    BY <2>1
  <2> QED BY <2>2 DEF CommitRecords
<1>3. /\ commits' \in Seq(CommitRecords) /\ Len(commits') = n
      /\ \A c \in Commit : commits'[c] = commits[c]
      /\ commits'[n] = c0
  BY <1>1, <1>2 DEF Commit
<1>4. History'
  <2> SUFFICES ASSUME NEW c \in 1..n
               PROVE  /\ c \in commits'[c].reach /\ commits'[c].reach \subseteq 1..c
                      /\ \A d \in commits'[c].reach : commits'[d].reach \subseteq commits'[c].reach
    BY <1>3 DEF History, Commit, Reach
  <2>1. CASE c = n
    <3>1. commits'[c].reach = reach \cup {n}
      BY <1>3, <2>1
    <3>2. \A d \in reach : commits'[d].reach = Reach(d) /\ d \in 1..n
      BY <1>1, <1>3 DEF Reach, Commit
    <3> QED BY <1>1, <2>1, <3>1, <3>2
  <2>2. CASE c # n
    <3>1. c \in Commit
      BY <1>1, <2>2 DEF Commit
    <3>2. commits'[c].reach = Reach(c) /\ Reach(c) \subseteq Commit
      BY <1>1, <1>3, <3>1 DEF Reach, History, Commit
    <3>3. \A d \in Reach(c) : commits'[d].reach = Reach(d)
      BY <1>3, <3>2 DEF Reach
    <3> QED BY <3>1, <3>2, <3>3 DEF History
  <2> QED BY <2>1, <2>2
<1>5. late \subseteq late' /\ (date < Len(passes) => n \in late')
  BY DEF NewCommit
<1> HIDE DEF c0
<1>6. commits'[n].reach = reach \cup {n} /\ commits'[n].change = change
      /\ commits'[n].tier = tier /\ commits'[n].date = date
  BY <1>3 DEF c0
<1> QED BY <1>3, <1>4, <1>5, <1>6

LEMMA ReachIsClosed ==
    ASSUME Typed, History, NEW c \in Commit
    PROVE  Reach(c) \in SUBSET Commit /\ c \in Reach(c) /\ \A d \in Reach(c) : Reach(d) \subseteq Reach(c)
<1> QED BY DEF History, Typed, Commit

(* What every step does to the gatehouse and to what is remembered of it:  *)
(* commits and posts are added, and a ref moves to what reaches it.        *)
Grows ==
    /\ Len(commits) <= Len(commits')
    /\ \A c \in Commit : commits'[c] = commits[c]
    /\ main \in commits'[main'].reach
    /\ \A s \in Slugs : tip[s] \in commits'[tip'[s]].reach
    /\ Len(passes) <= Len(passes')
    /\ \A p \in 1..Len(passes) : passes'[p] = passes[p]
    /\ gatedTrees \subseteq gatedTrees' /\ greens \subseteq greens' /\ late \subseteq late'

(* So a branch that is where it was pinned has not moved.                  *)
LEMMA RefsAscend ==
    ASSUME Typed, History, Typed', History', Grows
    PROVE  /\ \A c \in Commit : c \in 1..Len(commits') /\ commits'[c] = commits[c]
           /\ \A c \in Reach(main) : c \in commits'[main'].reach
           /\ \A s \in Slugs : \A c \in Reach(tip[s]) : c \in commits'[tip'[s]].reach
           /\ \A s \in Slugs : tip'[s] \in Reach(tip[s]) => tip'[s] = tip[s]
<1>1. /\ \A c \in Commit : c \in 1..Len(commits') /\ commits'[c] = commits[c]
      /\ Len(commits) \in Nat /\ Len(commits') \in Nat
  BY DEF Grows, Typed, Commit
<1>2. \A c \in 1..Len(commits') : \A d \in commits'[c].reach : commits'[d].reach \subseteq commits'[c].reach
  BY DEF History, Commit, Reach
<1>3. main' \in 1..Len(commits') /\ main \in Commit /\ \A s \in Slugs : tip'[s] \in 1..Len(commits') /\ tip[s] \in Commit
  BY DEF Typed, Commit
<1>4. \A c \in Reach(main) : c \in commits'[main'].reach
  BY <1>1, <1>2, <1>3 DEF Grows, Reach
<1>5. \A s \in Slugs : \A c \in Reach(tip[s]) : c \in commits'[tip'[s]].reach
  BY <1>1, <1>2, <1>3 DEF Grows, Reach
<1>6. ASSUME NEW s \in Slugs, tip'[s] \in Reach(tip[s]) PROVE tip'[s] = tip[s]
  <2>1. tip'[s] \in 1..tip[s]
    BY <1>3, <1>6 DEF History
  <2>2. tip[s] \in 1..tip'[s]
    BY <1>3 DEF History, Commit, Reach, Grows
  <2> QED BY <2>1, <2>2, <1>3 DEF Commit
<1> QED BY <1>1, <1>4, <1>5, <1>6

LEMMA TreesStay ==
    ASSUME Typed, History, Grows, NEW c \in Commit
    PROVE  Tree(c)' = Tree(c) /\ Reach(c)' = Reach(c)
<1>1. Reach(c)' = Reach(c) /\ Reach(c) \subseteq Commit
  BY ReachIsClosed DEF Grows, Reach
<1> QED BY <1>1 DEF Grows, Tree

-----------------------------------------------------------------------------
(* What a thread knows stays true while others move.                       *)

LEMMA MainStays ==
    ASSUME Typed, History, Typed', History', Grows, NEW x \in WorkRecords, MainKnown(x)
    PROVE  MainKnown(x)'
<1>1. Len(passes) \in Nat /\ Len(passes') \in Nat /\ Len(passes) <= Len(passes') /\ x.date \in Nat
  BY DEF Typed, Grows, WorkRecords
<1> QED BY <1>1, RefsAscend DEF MainKnown, Reach, Commit

LEMMA TipStays ==
    ASSUME Typed, History, Typed', History', Grows, NEW x \in WorkRecords, MainKnown(x), TipKnown(x)
    PROVE  TipKnown(x)'
<1>1. x.slug \in Slugs
  BY DEF WorkRecords
<1>2. x.pc \in Pinned => x.mainSha \in Commit
  BY ReachIsClosed DEF MainKnown, Typed
<1> QED BY <1>1, <1>2, RefsAscend DEF TipKnown, Reach, Commit

LEMMA PinStays ==
    ASSUME Typed, History, Typed', History', Grows, NEW x \in WorkRecords, TipKnown(x),
           x.pc \in Pinned \cup {"assertTip"}, AtPin(x)'
    PROVE  AtPin(x)
<1>1. x.slug \in Slugs /\ tip'[x.slug] = x.tipSha /\ x.tipSha \in Reach(tip[x.slug])
  BY DEF WorkRecords, AtPin, TipKnown
<1> QED BY <1>1, RefsAscend DEF AtPin

LEMMA GateStays ==
    ASSUME Typed, History, Typed', History', Grows, NEW x \in WorkRecords, TipKnown(x), GateKnown(x)
    PROVE  GateKnown(x)'
<1>1. x.pc \in Pinned \cup {"assertTip", "push"} => Tree(x.tipSha)' = Tree(x.tipSha)
  BY TreesStay DEF TipKnown
<1>2. x.pc \in Pinned \cup {"assertTip"} /\ AtPin(x)' => AtPin(x)
  BY PinStays
<1>3. gatedTrees \subseteq gatedTrees' /\ greens \subseteq greens'
  BY DEF Grows
<1> QED BY <1>1, <1>2, <1>3 DEF GateKnown, Pinned

LEMMA BaseStays ==
    ASSUME Typed, History, Typed', History', Grows, NEW x \in WorkRecords, TipKnown(x), BaseKnown(x)
    PROVE  BaseKnown(x)'
<1>1. x.pc \in {"assertTip", "push"} => Reach(x.tipSha)' = Reach(x.tipSha)
  BY TreesStay DEF TipKnown
<1>2. x.pc = "assertTip" /\ AtPin(x)' => AtPin(x)
  BY PinStays
<1>3. x.pc \in {"fetch", "assertMain"} => Reach(x.base)' = Reach(x.base)
  BY TreesStay, ReachIsClosed DEF BaseKnown, Typed
<1>4. x.base \in Reach(main) => x.base \in Reach(main)'
  BY RefsAscend DEF Reach
<1> QED BY <1>1, <1>2, <1>3, <1>4 DEF BaseKnown

LEMMA ApprovalStays ==
    ASSUME Typed, History, Typed', History', Grows, NEW x \in WorkRecords, x.tipSha \in Commit
    PROVE  Approved(x) => Approved(x)'
<1>1. Tree(x.tipSha)' = Tree(x.tipSha) /\ Tree(x.tipSha) \subseteq Commit
  BY TreesStay, ReachIsClosed DEF Tree
<1>2. \A c \in Commit : commits'[c] = commits[c]
  BY DEF Grows
<1>3. Tree(main) \subseteq Tree(main)'
  <2>1. Reach(main) \subseteq Commit /\ \A c \in Reach(main) : c \in commits'[main'].reach
    BY ReachIsClosed, RefsAscend DEF Typed
  <2> QED BY <2>1, <1>2 DEF Tree, Reach
<1>4. greens \subseteq greens'
  BY DEF Grows
<1> QED BY <1>1, <1>2, <1>3, <1>4 DEF Approved

LEMMA PassStays ==
    ASSUME Typed, History, Typed', History', Grows, NEW x \in WorkRecords, TipKnown(x), PassKnown(x)
    PROVE  PassKnown(x)'
<1>1. /\ Len(passes) \in Nat /\ Len(passes') \in Nat /\ Len(passes) <= Len(passes') /\ x.pass \in 0..Len(passes)
      /\ \A p \in 1..Len(passes) : passes'[p] = passes[p]
      /\ late \subseteq late'
  BY DEF Typed, Grows, PassKnown
<1>2. x.pc \in Pinned \cup {"assertTip"} /\ AtPin(x)' => AtPin(x)
  BY PinStays
<1>3. x.pc \in Pinned \cup {"assertTip", "push"} => x.tipSha \in Commit /\ commits'[x.tipSha] = commits[x.tipSha]
  BY DEF TipKnown, Grows
<1>4. x.pc \in Pinned \cup {"assertTip", "push"} /\ Approved(x) => Approved(x)'
  BY <1>3, ApprovalStays
<1>5. Reviewed(x) => Reviewed(x)'
  BY <1>1 DEF Reviewed
<1>6. x.pass \in 0..Len(passes')
  BY <1>1
<1> QED BY <1>1, <1>2, <1>3, <1>4, <1>5, <1>6 DEF PassKnown, Pinned

LEMMA KnowledgeStays ==
    ASSUME Typed, History, Typed', History', Grows, NEW x \in WorkRecords, Knows(x)
    PROVE  Knows(x)'
<1> QED BY MainStays, TipStays, GateStays, BaseStays, PassStays DEF Knows

LEMMA ThreadsStay ==
    ASSUME Typed, History, Typed', History', Grows, ThreadsKnow,
           NEW S \in SUBSET Runs, \A q \in Runs \ S : run'[q] = run[q],
           \A r \in S : \A x \in WorkRecords : run'[r] = x => Knows(x)'
    PROVE  ThreadsKnow'
<1>1. ASSUME NEW q \in Runs, NEW x \in WorkRecords, run'[q] = x PROVE Knows(x)'
  <2>1. CASE q \in S
    BY <1>1, <2>1
  <2>2. CASE q \notin S
    BY <1>1, <2>2, KnowledgeStays DEF ThreadsKnow
  <2> QED BY <2>1, <2>2
<1> QED BY <1>1 DEF ThreadsKnow

LEMMA LandedStays ==
    ASSUME Typed, Grows, LandedWell
    PROVE  \A m \in landed : LandedFine(m)'
<1>1. /\ \A p \in 1..Len(passes) : passes'[p] = passes[p] /\ p \in 1..Len(passes')
      /\ \A c \in Commit : commits'[c] = commits[c] /\ c \in Commit'
      /\ greens \subseteq greens' /\ late \subseteq late'
  BY DEF Typed, Grows, Commit
<1>2. ASSUME NEW m \in landed PROVE LandedFine(m)'
  <2>1. LandedFine(m)
    BY DEF LandedWell
  <2> QED BY <1>1, <2>1 DEF LandedFine
<1> QED BY <1>2

LEMMA LandedWellStays ==
    ASSUME Typed, Grows, LandedWell, landed' = landed
    PROVE  LandedWell'
<1> QED BY LandedStays DEF LandedWell

-----------------------------------------------------------------------------
(* Steps that only look *)

Still == UNCHANGED <<commits, main, tip, passes, landed, gatedTrees, greens, late, ledgered, unledgered>>
Looks == UNCHANGED <<commits, main, tip, passes, gatedTrees, greens, late>>

LEMMA LooksGrows ==
    ASSUME Typed, History, Looks
    PROVE  Grows /\ History'
<1>1. main \in Commit /\ \A s \in Slugs : tip[s] \in Commit
  BY DEF Typed
<1>2. Len(commits) \in Nat /\ Len(passes) \in Nat
  BY DEF Typed
<1> QED BY <1>1, <1>2 DEF Looks, Grows, History, Commit, Reach

LEMMA LooksKnows ==
    ASSUME Looks, NEW x, Knows(x)
    PROVE  Knows(x)'
<1> QED BY DEF Looks, Knows, MainKnown, TipKnown, GateKnown, BaseKnown, PassKnown, Approved, Reviewed,
               AtPin, Tree, Reach, Commit

LEMMA LooksPasses ==
    ASSUME PassesSaw, Looks
    PROVE  PassesSaw'
<1> QED BY DEF Looks, PassesSaw, Reach

(* One record changes, and what it says is known.                          *)
LEMMA LookOnly ==
    ASSUME MergeAssumption, Typed, History, PassesSaw, ThreadsKnow, LandedWell, Looks,
           landed' = landed, ledgered' \in Nat, unledgered' \in Nat, blind' \in Nat,
           NEW r \in Runs, NEW y \in WorkRecords \cup Resting, Puts(r, y), y \in WorkRecords => Knows(y)
    PROVE  Typed' /\ History' /\ PassesSaw' /\ ThreadsKnow' /\ LandedWell' /\ Grows
<1>1. run' \in [Runs -> WorkRecords \cup Resting] /\ run'[r] = y /\ \A q \in Runs \ {r} : run'[q] = run[q]
  BY PutsIsTyped
<1>2. Typed'
  BY <1>1 DEF Typed, Looks, Commit
<1>3. Grows /\ History' /\ PassesSaw' /\ LandedWell'
  BY LooksGrows, LooksPasses, LandedWellStays
<1>4. ThreadsKnow'
  <2>1. \A x \in WorkRecords : run'[r] = x => Knows(x)'
    BY <1>1, LooksKnows
  <2>2. {r} \in SUBSET Runs /\ \A q \in Runs \ {r} : run'[q] = run[q]
    BY <1>1
  <2>3. \A q \in {r} : \A x \in WorkRecords : run'[q] = x => Knows(x)'
    BY <2>1
  <2> QED BY <1>2, <1>3, <2>2, <2>3, ThreadsStay
<1> QED BY <1>2, <1>3, <1>4

LEMMA LookKeeps ==
    ASSUME MergeAssumption, Typed, History, PassesSaw, ThreadsKnow, LandedWell, Looks,
           UNCHANGED <<landed, ledgered, unledgered, blind>>,
           NEW r \in Runs, NEW y \in WorkRecords \cup Resting, Puts(r, y), y \in WorkRecords => Knows(y)
    PROVE  Typed' /\ History' /\ PassesSaw' /\ ThreadsKnow' /\ LandedWell' /\ Grows
<1>1. ledgered' \in Nat /\ unledgered' \in Nat /\ blind' \in Nat
  BY DEF Typed
<1> QED BY <1>1, LookOnly

LEMMA LooksAtLock ==
    ASSUME OneMerges, Counted, UNCHANGED <<landed, ledgered, unledgered, blind>>,
           NEW r \in Runs, \A q \in Runs \ {r} : run'[q] = run[q],
           run'[r].pc \in LockPlaces => run[r].pc \in LockPlaces /\ run'[r].self = run[r].self,
           run'[r].pc = "ledger" <=> run[r].pc = "ledger",
           \A q \in Runs : run'[q].pc \in LockPlaces => lock'
    PROVE  OneMerges' /\ Counted'
<1>1. Uncounted' = Uncounted
  BY DEF Uncounted, At, LockPlaces
<1>2. OneMerges'
  BY DEF OneMerges
<1>3. Counted'
  BY <1>1 DEF Counted, SelfMerges
<1> QED BY <1>2, <1>3

-----------------------------------------------------------------------------
(* What the steps of a working thread keep *)

LEMMA WorkerKnows ==
    ASSUME MergeAssumption, IInv, NEW r \in Runs, run[r].pc \in Busy
    PROVE  Works(r) /\ run[r] \in WorkRecords /\ run[r].slug \in Slugs /\ Knows(run[r])
<1>1. run[r] \in WorkRecords /\ run[r].slug \in Slugs /\ Works(r)
  BY WorkingRecord DEF IInv, Works
<1> QED BY <1>1 DEF IInv, ThreadsKnow

LEMMA KnowKeeps ==
    ASSUME MergeAssumption, IInv, NEW r \in Runs, Works(r), NEW y \in WorkRecords, Know(r, y), Knows(y),
           y.pc \in LockPlaces => run[r].pc \in LockPlaces, y.self = run[r].self,
           y.pc # "ledger", run[r].pc # "ledger"
    PROVE  IInv' /\ Still
<1>1. Looks /\ UNCHANGED <<landed, ledgered, unledgered, blind>> /\ lock' = lock /\ Puts(r, y)
  BY DEF Know, Looks, Puts, gatehouse, history
<1>2. Typed' /\ History' /\ PassesSaw' /\ ThreadsKnow' /\ LandedWell' /\ Grows
  BY <1>1, LookKeeps DEF IInv
<1>3. run'[r] = y /\ \A q \in Runs \ {r} : run'[q] = run[q]
  BY <1>1, PutsIsTyped DEF IInv
<1>4. OneMerges' /\ Counted'
  <2>1. \A q \in Runs : run'[q].pc \in LockPlaces => lock'
    BY <1>1, <1>3 DEF IInv, OneMerges
  <2> QED BY <1>1, <1>3, <2>1, LooksAtLock DEF IInv
<1> QED BY <1>1, <1>2, <1>4 DEF IInv, Still, Looks

LEMMA RefuseKeeps ==
    ASSUME MergeAssumption, IInv, NEW r \in Runs, Works(r), Refuse(r), run[r].pc # "ledger"
    PROVE  IInv' /\ Still
<1> DEFINE y == Done(run[r].slug)
<1>1. Looks /\ UNCHANGED <<landed, ledgered, unledgered, blind>> /\ Puts(r, y)
  BY DEF Refuse, Looks, Puts, gatehouse, history
<1>2. y \in Resting /\ y \notin WorkRecords /\ y.pc = "done"
  BY WorkingRecord, Constants DEF IInv, Resting, Done
<1>3. run'[r] = y /\ \A q \in Runs \ {r} : run'[q] = run[q]
  BY <1>1, <1>2, PutsIsTyped DEF IInv
<1>4. Typed' /\ History' /\ PassesSaw' /\ ThreadsKnow' /\ LandedWell' /\ Grows
  BY <1>1, <1>2, LookKeeps DEF IInv
<1>5. OneMerges' /\ Counted'
  <2>1. \A q \in Runs : run'[q].pc \in LockPlaces => lock'
    BY <1>2, <1>3 DEF IInv, OneMerges, Refuse, InLock, LockPlaces
  <2> QED BY <1>1, <1>2, <1>3, <2>1, LooksAtLock DEF IInv, LockPlaces
<1> QED BY <1>1, <1>4, <1>5 DEF IInv, Still, Looks

LEMMA RefsAreCommits ==
    ASSUME IInv
    PROVE  /\ main \in Commit /\ main \in Reach(main) /\ main \in Nat
           /\ \A s \in Slugs : tip[s] \in Commit /\ tip[s] \in Reach(tip[s]) /\ tip[s] \in Nat
           /\ \A c, d \in Commit : c \in Reach(d) => Reach(c) \subseteq Reach(d)
           /\ Reach(main) \subseteq Commit /\ Len(passes) \in Nat
<1>1. main \in Commit /\ Len(passes) \in Nat /\ Len(commits) \in Nat /\ \A s \in Slugs : tip[s] \in Commit
  BY DEF IInv, Typed
<1> QED BY <1>1, ReachIsClosed DEF IInv, History, Commit

LEMMA ReadMainKeeps ==
    ASSUME MergeAssumption, IInv, NEW r \in Runs, ReadMain(r)
    PROVE  IInv' /\ Still
<1>1. Works(r) /\ run[r] \in WorkRecords /\ run[r].slug \in Slugs /\ Knows(run[r]) /\ run[r].pc # "ledger"
  BY WorkerKnows DEF ReadMain, At, Busy, Pinned, LockPlaces
<1>2. /\ main \in Commit /\ main \in Reach(main) /\ main \in Nat
      /\ \A s \in Slugs : tip[s] \in Commit /\ tip[s] \in Reach(tip[s]) /\ tip[s] \in Nat
      /\ \A c, d \in Commit : c \in Reach(d) => Reach(c) \subseteq Reach(d)
      /\ Reach(main) \subseteq Commit /\ Len(passes) \in Nat
  BY RefsAreCommits DEF IInv
<1>3. ASSUME Know(r, [run[r] EXCEPT !.pc = "ancestor", !.mainSha = main]) PROVE IInv' /\ Still
  <2> DEFINE y == [run[r] EXCEPT !.pc = "ancestor", !.mainSha = main]
  <2>1. /\ y \in WorkRecords
        /\ y.pc \in LockPlaces => run[r].pc \in LockPlaces
        /\ y.self = run[r].self /\ y.pc # "ledger"
    BY <1>1, <1>2, <1>3 DEF ReadMain, At, WorkRecords, Busy, Pinned, LockPlaces
  <2>2. Knows(y)
    <3>1. MainKnown(y)
      BY <1>1, <1>2, <1>3 DEF ReadMain, At, Knows, MainKnown, TipKnown, MainKnown, AtPin, Pinned, WorkRecords
    <3>2. TipKnown(y)
      BY <1>1, <1>2, <1>3 DEF ReadMain, At, Knows, MainKnown, TipKnown, TipKnown, AtPin, Pinned, WorkRecords
    <3>3. GateKnown(y)
      BY <1>1, <1>2, <1>3 DEF ReadMain, At, Knows, MainKnown, TipKnown, GateKnown, AtPin, Pinned, WorkRecords
    <3>4. BaseKnown(y)
      BY <1>1, <1>2, <1>3 DEF ReadMain, At, Knows, MainKnown, TipKnown, BaseKnown, AtPin, Pinned, WorkRecords
    <3>5. PassKnown(y)
      BY <1>1, <1>2, <1>3 DEF ReadMain, At, Knows, MainKnown, TipKnown, PassKnown, AtPin, Pinned, WorkRecords, Approved, Reviewed
    <3> QED BY <3>1, <3>2, <3>3, <3>4, <3>5 DEF Knows
  <2> HIDE DEF y
  <2>3. Know(r, y)
    BY <1>3 DEF y
  <2> QED BY <1>1, <2>1, <2>2, <2>3, KnowKeeps
<1> QED BY <1>3 DEF ReadMain

LEMMA AncestorKeeps ==
    ASSUME MergeAssumption, IInv, NEW r \in Runs, Ancestor(r)
    PROVE  IInv' /\ Still
<1>1. Works(r) /\ run[r] \in WorkRecords /\ run[r].slug \in Slugs /\ Knows(run[r]) /\ run[r].pc # "ledger"
  BY WorkerKnows DEF Ancestor, At, Busy, Pinned, LockPlaces
<1>2. /\ main \in Commit /\ main \in Reach(main) /\ main \in Nat
      /\ \A s \in Slugs : tip[s] \in Commit /\ tip[s] \in Reach(tip[s]) /\ tip[s] \in Nat
      /\ \A c, d \in Commit : c \in Reach(d) => Reach(c) \subseteq Reach(d)
      /\ Reach(main) \subseteq Commit /\ Len(passes) \in Nat
  BY RefsAreCommits DEF IInv
<1>3. ASSUME Know(r, [run[r] EXCEPT !.pc = "tip"]) PROVE IInv' /\ Still
  <2> DEFINE y == [run[r] EXCEPT !.pc = "tip"]
  <2>1. /\ y \in WorkRecords
        /\ y.pc \in LockPlaces => run[r].pc \in LockPlaces
        /\ y.self = run[r].self /\ y.pc # "ledger"
    BY <1>1, <1>2, <1>3 DEF Ancestor, At, WorkRecords, Busy, Pinned, LockPlaces
  <2>2. Knows(y)
    <3>1. MainKnown(y)
      BY <1>1, <1>2, <1>3 DEF Ancestor, At, Knows, MainKnown, TipKnown, MainKnown, AtPin, Pinned, WorkRecords
    <3>2. TipKnown(y)
      BY <1>1, <1>2, <1>3 DEF Ancestor, At, Knows, MainKnown, TipKnown, TipKnown, AtPin, Pinned, WorkRecords
    <3>3. GateKnown(y)
      BY <1>1, <1>2, <1>3 DEF Ancestor, At, Knows, MainKnown, TipKnown, GateKnown, AtPin, Pinned, WorkRecords
    <3>4. BaseKnown(y)
      BY <1>1, <1>2, <1>3 DEF Ancestor, At, Knows, MainKnown, TipKnown, BaseKnown, AtPin, Pinned, WorkRecords
    <3>5. PassKnown(y)
      BY <1>1, <1>2, <1>3 DEF Ancestor, At, Knows, MainKnown, TipKnown, PassKnown, AtPin, Pinned, WorkRecords, Approved, Reviewed
    <3> QED BY <3>1, <3>2, <3>3, <3>4, <3>5 DEF Knows
  <2> HIDE DEF y
  <2>3. Know(r, y)
    BY <1>3 DEF y
  <2> QED BY <1>1, <2>1, <2>2, <2>3, KnowKeeps
<1>4. ASSUME Know(r, [run[r] EXCEPT !.pc = "foldClone"]) PROVE IInv' /\ Still
  <2> DEFINE y == [run[r] EXCEPT !.pc = "foldClone"]
  <2>1. /\ y \in WorkRecords
        /\ y.pc \in LockPlaces => run[r].pc \in LockPlaces
        /\ y.self = run[r].self /\ y.pc # "ledger"
    BY <1>1, <1>2, <1>4 DEF Ancestor, At, WorkRecords, Busy, Pinned, LockPlaces
  <2>2. Knows(y)
    <3>1. MainKnown(y)
      BY <1>1, <1>2, <1>4 DEF Ancestor, At, Knows, MainKnown, TipKnown, MainKnown, AtPin, Pinned, WorkRecords
    <3>2. TipKnown(y)
      BY <1>1, <1>2, <1>4 DEF Ancestor, At, Knows, MainKnown, TipKnown, TipKnown, AtPin, Pinned, WorkRecords
    <3>3. GateKnown(y)
      BY <1>1, <1>2, <1>4 DEF Ancestor, At, Knows, MainKnown, TipKnown, GateKnown, AtPin, Pinned, WorkRecords
    <3>4. BaseKnown(y)
      BY <1>1, <1>2, <1>4 DEF Ancestor, At, Knows, MainKnown, TipKnown, BaseKnown, AtPin, Pinned, WorkRecords
    <3>5. PassKnown(y)
      BY <1>1, <1>2, <1>4 DEF Ancestor, At, Knows, MainKnown, TipKnown, PassKnown, AtPin, Pinned, WorkRecords, Approved, Reviewed
    <3> QED BY <3>1, <3>2, <3>3, <3>4, <3>5 DEF Knows
  <2> HIDE DEF y
  <2>3. Know(r, y)
    BY <1>4 DEF y
  <2> QED BY <1>1, <2>1, <2>2, <2>3, KnowKeeps
<1>5. ASSUME Refuse(r) PROVE IInv' /\ Still
  BY <1>1, <1>5, RefuseKeeps
<1> QED BY <1>3, <1>4, <1>5 DEF Ancestor

LEMMA FoldCloneKeeps ==
    ASSUME MergeAssumption, IInv, NEW r \in Runs, FoldClone(r)
    PROVE  IInv' /\ Still
<1>1. Works(r) /\ run[r] \in WorkRecords /\ run[r].slug \in Slugs /\ Knows(run[r]) /\ run[r].pc # "ledger"
  BY WorkerKnows DEF FoldClone, At, Busy, Pinned, LockPlaces
<1>2. /\ main \in Commit /\ main \in Reach(main) /\ main \in Nat
      /\ \A s \in Slugs : tip[s] \in Commit /\ tip[s] \in Reach(tip[s]) /\ tip[s] \in Nat
      /\ \A c, d \in Commit : c \in Reach(d) => Reach(c) \subseteq Reach(d)
      /\ Reach(main) \subseteq Commit /\ Len(passes) \in Nat
  BY RefsAreCommits DEF IInv
<1>3. ASSUME Know(r, [run[r] EXCEPT !.pc = "foldMerge", !.base = tip[run[r].slug], !.tried = TRUE]) PROVE IInv' /\ Still
  <2> DEFINE y == [run[r] EXCEPT !.pc = "foldMerge", !.base = tip[run[r].slug], !.tried = TRUE]
  <2>1. /\ y \in WorkRecords
        /\ y.pc \in LockPlaces => run[r].pc \in LockPlaces
        /\ y.self = run[r].self /\ y.pc # "ledger"
    BY <1>1, <1>2, <1>3 DEF FoldClone, At, WorkRecords, Busy, Pinned, LockPlaces
  <2>2. Knows(y)
    <3>1. MainKnown(y)
      BY <1>1, <1>2, <1>3 DEF FoldClone, At, Knows, MainKnown, TipKnown, MainKnown, AtPin, Pinned, WorkRecords
    <3>2. TipKnown(y)
      BY <1>1, <1>2, <1>3 DEF FoldClone, At, Knows, MainKnown, TipKnown, TipKnown, AtPin, Pinned, WorkRecords
    <3>3. GateKnown(y)
      BY <1>1, <1>2, <1>3 DEF FoldClone, At, Knows, MainKnown, TipKnown, GateKnown, AtPin, Pinned, WorkRecords
    <3>4. BaseKnown(y)
      BY <1>1, <1>2, <1>3 DEF FoldClone, At, Knows, MainKnown, TipKnown, BaseKnown, AtPin, Pinned, WorkRecords
    <3>5. PassKnown(y)
      BY <1>1, <1>2, <1>3 DEF FoldClone, At, Knows, MainKnown, TipKnown, PassKnown, AtPin, Pinned, WorkRecords, Approved, Reviewed
    <3> QED BY <3>1, <3>2, <3>3, <3>4, <3>5 DEF Knows
  <2> HIDE DEF y
  <2>3. Know(r, y)
    BY <1>3 DEF y
  <2> QED BY <1>1, <2>1, <2>2, <2>3, KnowKeeps
<1> QED BY <1>3 DEF FoldClone

LEMMA FoldMergeKeeps ==
    ASSUME MergeAssumption, IInv, NEW r \in Runs, FoldMerge(r)
    PROVE  IInv' /\ Still
<1>1. Works(r) /\ run[r] \in WorkRecords /\ run[r].slug \in Slugs /\ Knows(run[r]) /\ run[r].pc # "ledger"
  BY WorkerKnows DEF FoldMerge, At, Busy, Pinned, LockPlaces
<1>2. /\ main \in Commit /\ main \in Reach(main) /\ main \in Nat
      /\ \A s \in Slugs : tip[s] \in Commit /\ tip[s] \in Reach(tip[s]) /\ tip[s] \in Nat
      /\ \A c, d \in Commit : c \in Reach(d) => Reach(c) \subseteq Reach(d)
      /\ Reach(main) \subseteq Commit /\ Len(passes) \in Nat
  BY RefsAreCommits DEF IInv
<1>3. ASSUME Know(r, [run[r] EXCEPT !.pc = "main", !.base = 0]) PROVE IInv' /\ Still
  <2> DEFINE y == [run[r] EXCEPT !.pc = "main", !.base = 0]
  <2>1. /\ y \in WorkRecords
        /\ y.pc \in LockPlaces => run[r].pc \in LockPlaces
        /\ y.self = run[r].self /\ y.pc # "ledger"
    BY <1>1, <1>2, <1>3 DEF FoldMerge, At, WorkRecords, Busy, Pinned, LockPlaces
  <2>2. Knows(y)
    <3>1. MainKnown(y)
      BY <1>1, <1>2, <1>3 DEF FoldMerge, At, Knows, MainKnown, TipKnown, MainKnown, AtPin, Pinned, WorkRecords
    <3>2. TipKnown(y)
      BY <1>1, <1>2, <1>3 DEF FoldMerge, At, Knows, MainKnown, TipKnown, TipKnown, AtPin, Pinned, WorkRecords
    <3>3. GateKnown(y)
      BY <1>1, <1>2, <1>3 DEF FoldMerge, At, Knows, MainKnown, TipKnown, GateKnown, AtPin, Pinned, WorkRecords
    <3>4. BaseKnown(y)
      BY <1>1, <1>2, <1>3 DEF FoldMerge, At, Knows, MainKnown, TipKnown, BaseKnown, AtPin, Pinned, WorkRecords
    <3>5. PassKnown(y)
      BY <1>1, <1>2, <1>3 DEF FoldMerge, At, Knows, MainKnown, TipKnown, PassKnown, AtPin, Pinned, WorkRecords, Approved, Reviewed
    <3> QED BY <3>1, <3>2, <3>3, <3>4, <3>5 DEF Knows
  <2> HIDE DEF y
  <2>3. Know(r, y)
    BY <1>3 DEF y
  <2> QED BY <1>1, <2>1, <2>2, <2>3, KnowKeeps
<1>4. ASSUME Know(r, [run[r] EXCEPT !.pc = "foldPush", !.other = main, !.date = Len(passes)]) PROVE IInv' /\ Still
  <2> DEFINE y == [run[r] EXCEPT !.pc = "foldPush", !.other = main, !.date = Len(passes)]
  <2>1. /\ y \in WorkRecords
        /\ y.pc \in LockPlaces => run[r].pc \in LockPlaces
        /\ y.self = run[r].self /\ y.pc # "ledger"
    BY <1>1, <1>2, <1>4 DEF FoldMerge, At, WorkRecords, Busy, Pinned, LockPlaces
  <2>2. Knows(y)
    <3>1. MainKnown(y)
      BY <1>1, <1>2, <1>4 DEF FoldMerge, At, Knows, MainKnown, TipKnown, MainKnown, AtPin, Pinned, WorkRecords
    <3>2. TipKnown(y)
      BY <1>1, <1>2, <1>4 DEF FoldMerge, At, Knows, MainKnown, TipKnown, TipKnown, AtPin, Pinned, WorkRecords
    <3>3. GateKnown(y)
      BY <1>1, <1>2, <1>4 DEF FoldMerge, At, Knows, MainKnown, TipKnown, GateKnown, AtPin, Pinned, WorkRecords
    <3>4. BaseKnown(y)
      BY <1>1, <1>2, <1>4 DEF FoldMerge, At, Knows, MainKnown, TipKnown, BaseKnown, AtPin, Pinned, WorkRecords
    <3>5. PassKnown(y)
      BY <1>1, <1>2, <1>4 DEF FoldMerge, At, Knows, MainKnown, TipKnown, PassKnown, AtPin, Pinned, WorkRecords, Approved, Reviewed
    <3> QED BY <3>1, <3>2, <3>3, <3>4, <3>5 DEF Knows
  <2> HIDE DEF y
  <2>3. Know(r, y)
    BY <1>4 DEF y
  <2> QED BY <1>1, <2>1, <2>2, <2>3, KnowKeeps
<1>5. ASSUME Refuse(r) PROVE IInv' /\ Still
  BY <1>1, <1>5, RefuseKeeps
<1> QED BY <1>3, <1>4, <1>5 DEF FoldMerge

LEMMA ReadTipKeeps ==
    ASSUME MergeAssumption, IInv, NEW r \in Runs, ReadTip(r)
    PROVE  IInv' /\ Still
<1>1. Works(r) /\ run[r] \in WorkRecords /\ run[r].slug \in Slugs /\ Knows(run[r]) /\ run[r].pc # "ledger"
  BY WorkerKnows DEF ReadTip, At, Busy, Pinned, LockPlaces
<1>2. /\ main \in Commit /\ main \in Reach(main) /\ main \in Nat
      /\ \A s \in Slugs : tip[s] \in Commit /\ tip[s] \in Reach(tip[s]) /\ tip[s] \in Nat
      /\ \A c, d \in Commit : c \in Reach(d) => Reach(c) \subseteq Reach(d)
      /\ Reach(main) \subseteq Commit /\ Len(passes) \in Nat
  BY RefsAreCommits DEF IInv
<1>3. ASSUME Know(r, [run[r] EXCEPT !.pc = "gate", !.tipSha = tip[run[r].slug], !.tried = FALSE]), tip[run[r].slug] \notin Reach(main) PROVE IInv' /\ Still
  <2> DEFINE y == [run[r] EXCEPT !.pc = "gate", !.tipSha = tip[run[r].slug], !.tried = FALSE]
  <2>1. /\ y \in WorkRecords
        /\ y.pc \in LockPlaces => run[r].pc \in LockPlaces
        /\ y.self = run[r].self /\ y.pc # "ledger"
    BY <1>1, <1>2, <1>3 DEF ReadTip, At, WorkRecords, Busy, Pinned, LockPlaces
  <2>2. Knows(y)
    <3>1. MainKnown(y)
      BY <1>1, <1>2, <1>3 DEF ReadTip, At, Knows, MainKnown, TipKnown, MainKnown, AtPin, Pinned, WorkRecords
    <3>2. TipKnown(y)
      BY <1>1, <1>2, <1>3 DEF ReadTip, At, Knows, MainKnown, TipKnown, TipKnown, AtPin, Pinned, WorkRecords
    <3>3. GateKnown(y)
      BY <1>1, <1>2, <1>3 DEF ReadTip, At, Knows, MainKnown, TipKnown, GateKnown, AtPin, Pinned, WorkRecords
    <3>4. BaseKnown(y)
      BY <1>1, <1>2, <1>3 DEF ReadTip, At, Knows, MainKnown, TipKnown, BaseKnown, AtPin, Pinned, WorkRecords
    <3>5. PassKnown(y)
      BY <1>1, <1>2, <1>3 DEF ReadTip, At, Knows, MainKnown, TipKnown, PassKnown, AtPin, Pinned, WorkRecords, Approved, Reviewed
    <3> QED BY <3>1, <3>2, <3>3, <3>4, <3>5 DEF Knows
  <2> HIDE DEF y
  <2>3. Know(r, y)
    BY <1>3 DEF y
  <2> QED BY <1>1, <2>1, <2>2, <2>3, KnowKeeps
<1>4. ASSUME Refuse(r) PROVE IInv' /\ Still
  BY <1>1, <1>4, RefuseKeeps
<1> QED BY <1>3, <1>4 DEF ReadTip

LEMMA PassAgainKeeps ==
    ASSUME MergeAssumption, IInv, NEW r \in Runs, PassAgain(r)
    PROVE  IInv' /\ Still
<1>1. Works(r) /\ run[r] \in WorkRecords /\ run[r].slug \in Slugs /\ Knows(run[r]) /\ run[r].pc # "ledger"
  BY WorkerKnows DEF PassAgain, At, Busy, Pinned, LockPlaces
<1>2. /\ main \in Commit /\ main \in Reach(main) /\ main \in Nat
      /\ \A s \in Slugs : tip[s] \in Commit /\ tip[s] \in Reach(tip[s]) /\ tip[s] \in Nat
      /\ \A c, d \in Commit : c \in Reach(d) => Reach(c) \subseteq Reach(d)
      /\ Reach(main) \subseteq Commit /\ Len(passes) \in Nat
  BY RefsAreCommits DEF IInv
<1>3. ASSUME Know(r, [run[r] EXCEPT !.pc = "lock"]), PassHolds(run[r].pass, run[r].slug) PROVE IInv' /\ Still
  <2> DEFINE y == [run[r] EXCEPT !.pc = "lock"]
  <2>1. /\ y \in WorkRecords
        /\ y.pc \in LockPlaces => run[r].pc \in LockPlaces
        /\ y.self = run[r].self /\ y.pc # "ledger"
    BY <1>1, <1>2, <1>3 DEF PassAgain, At, WorkRecords, Busy, Pinned, LockPlaces
  <2>2. Knows(y)
    <3>1. MainKnown(y)
      BY <1>1, <1>2, <1>3 DEF PassAgain, At, Knows, MainKnown, TipKnown, MainKnown, AtPin, Pinned, WorkRecords
    <3>2. TipKnown(y)
      BY <1>1, <1>2, <1>3 DEF PassAgain, At, Knows, MainKnown, TipKnown, TipKnown, AtPin, Pinned, WorkRecords
    <3>3. GateKnown(y)
      BY <1>1, <1>2, <1>3 DEF PassAgain, At, Knows, MainKnown, TipKnown, GateKnown, AtPin, Pinned, WorkRecords, PassHolds
    <3>4. BaseKnown(y)
      BY <1>1, <1>2, <1>3 DEF PassAgain, At, Knows, MainKnown, TipKnown, BaseKnown, AtPin, Pinned, WorkRecords, PassHolds
    <3>5. PassKnown(y)
      BY <1>1, <1>2, <1>3 DEF PassAgain, At, Knows, MainKnown, TipKnown, PassKnown, AtPin, Pinned, WorkRecords, Approved, Reviewed, PassHolds
    <3> QED BY <3>1, <3>2, <3>3, <3>4, <3>5 DEF Knows
  <2> HIDE DEF y
  <2>3. Know(r, y)
    BY <1>3 DEF y
  <2> QED BY <1>1, <2>1, <2>2, <2>3, KnowKeeps
<1>4. ASSUME Refuse(r) PROVE IInv' /\ Still
  BY <1>1, <1>4, RefuseKeeps
<1> QED BY <1>3, <1>4 DEF PassAgain

LEMMA CloneMainKeeps ==
    ASSUME MergeAssumption, IInv, NEW r \in Runs, CloneMain(r)
    PROVE  IInv' /\ Still
<1>1. Works(r) /\ run[r] \in WorkRecords /\ run[r].slug \in Slugs /\ Knows(run[r]) /\ run[r].pc # "ledger"
  BY WorkerKnows DEF CloneMain, At, Busy, Pinned, LockPlaces
<1>2. /\ main \in Commit /\ main \in Reach(main) /\ main \in Nat
      /\ \A s \in Slugs : tip[s] \in Commit /\ tip[s] \in Reach(tip[s]) /\ tip[s] \in Nat
      /\ \A c, d \in Commit : c \in Reach(d) => Reach(c) \subseteq Reach(d)
      /\ Reach(main) \subseteq Commit /\ Len(passes) \in Nat
  BY RefsAreCommits DEF IInv
<1>3. ASSUME Know(r, [run[r] EXCEPT !.pc = "fetch", !.base = main]) PROVE IInv' /\ Still
  <2> DEFINE y == [run[r] EXCEPT !.pc = "fetch", !.base = main]
  <2>1. /\ y \in WorkRecords
        /\ y.pc \in LockPlaces => run[r].pc \in LockPlaces
        /\ y.self = run[r].self /\ y.pc # "ledger"
    BY <1>1, <1>2, <1>3 DEF CloneMain, At, WorkRecords, Busy, Pinned, LockPlaces
  <2>2. Knows(y)
    <3>1. MainKnown(y)
      BY <1>1, <1>2, <1>3 DEF CloneMain, At, Knows, MainKnown, TipKnown, MainKnown, AtPin, Pinned, WorkRecords
    <3>2. TipKnown(y)
      BY <1>1, <1>2, <1>3 DEF CloneMain, At, Knows, MainKnown, TipKnown, TipKnown, AtPin, Pinned, WorkRecords
    <3>3. GateKnown(y)
      BY <1>1, <1>2, <1>3 DEF CloneMain, At, Knows, MainKnown, TipKnown, GateKnown, AtPin, Pinned, WorkRecords
    <3>4. BaseKnown(y)
      BY <1>1, <1>2, <1>3 DEF CloneMain, At, Knows, MainKnown, TipKnown, BaseKnown, AtPin, Pinned, WorkRecords
    <3>5. PassKnown(y)
      BY <1>1, <1>2, <1>3 DEF CloneMain, At, Knows, MainKnown, TipKnown, PassKnown, AtPin, Pinned, WorkRecords, Approved, Reviewed
    <3> QED BY <3>1, <3>2, <3>3, <3>4, <3>5 DEF Knows
  <2> HIDE DEF y
  <2>3. Know(r, y)
    BY <1>3 DEF y
  <2> QED BY <1>1, <2>1, <2>2, <2>3, KnowKeeps
<1> QED BY <1>3 DEF CloneMain

LEMMA FetchAndMergeKeeps ==
    ASSUME MergeAssumption, IInv, NEW r \in Runs, FetchAndMerge(r)
    PROVE  IInv' /\ Still
<1>1. Works(r) /\ run[r] \in WorkRecords /\ run[r].slug \in Slugs /\ Knows(run[r]) /\ run[r].pc # "ledger"
  BY WorkerKnows DEF FetchAndMerge, At, Busy, Pinned, LockPlaces
<1>2. /\ main \in Commit /\ main \in Reach(main) /\ main \in Nat
      /\ \A s \in Slugs : tip[s] \in Commit /\ tip[s] \in Reach(tip[s]) /\ tip[s] \in Nat
      /\ \A c, d \in Commit : c \in Reach(d) => Reach(c) \subseteq Reach(d)
      /\ Reach(main) \subseteq Commit /\ Len(passes) \in Nat
  BY RefsAreCommits DEF IInv
<1>3. ASSUME Know(r, [run[r] EXCEPT !.pc = "assertMain"]) PROVE IInv' /\ Still
  <2> DEFINE y == [run[r] EXCEPT !.pc = "assertMain"]
  <2>1. /\ y \in WorkRecords
        /\ y.pc \in LockPlaces => run[r].pc \in LockPlaces
        /\ y.self = run[r].self /\ y.pc # "ledger"
    BY <1>1, <1>2, <1>3 DEF FetchAndMerge, At, WorkRecords, Busy, Pinned, LockPlaces
  <2>2. Knows(y)
    <3>1. MainKnown(y)
      BY <1>1, <1>2, <1>3 DEF FetchAndMerge, At, Knows, MainKnown, TipKnown, MainKnown, AtPin, Pinned, WorkRecords
    <3>2. TipKnown(y)
      BY <1>1, <1>2, <1>3 DEF FetchAndMerge, At, Knows, MainKnown, TipKnown, TipKnown, AtPin, Pinned, WorkRecords
    <3>3. GateKnown(y)
      BY <1>1, <1>2, <1>3 DEF FetchAndMerge, At, Knows, MainKnown, TipKnown, GateKnown, AtPin, Pinned, WorkRecords
    <3>4. BaseKnown(y)
      BY <1>1, <1>2, <1>3 DEF FetchAndMerge, At, Knows, MainKnown, TipKnown, BaseKnown, AtPin, Pinned, WorkRecords
    <3>5. PassKnown(y)
      BY <1>1, <1>2, <1>3 DEF FetchAndMerge, At, Knows, MainKnown, TipKnown, PassKnown, AtPin, Pinned, WorkRecords, Approved, Reviewed
    <3> QED BY <3>1, <3>2, <3>3, <3>4, <3>5 DEF Knows
  <2> HIDE DEF y
  <2>3. Know(r, y)
    BY <1>3 DEF y
  <2> QED BY <1>1, <2>1, <2>2, <2>3, KnowKeeps
<1>4. ASSUME Refuse(r) PROVE IInv' /\ Still
  BY <1>1, <1>4, RefuseKeeps
<1> QED BY <1>3, <1>4 DEF FetchAndMerge

LEMMA AssertTipUnmovedKeeps ==
    ASSUME MergeAssumption, IInv, NEW r \in Runs, AssertTipUnmoved(r)
    PROVE  IInv' /\ Still
<1>1. Works(r) /\ run[r] \in WorkRecords /\ run[r].slug \in Slugs /\ Knows(run[r]) /\ run[r].pc # "ledger"
  BY WorkerKnows DEF AssertTipUnmoved, At, Busy, Pinned, LockPlaces
<1>2. /\ main \in Commit /\ main \in Reach(main) /\ main \in Nat
      /\ \A s \in Slugs : tip[s] \in Commit /\ tip[s] \in Reach(tip[s]) /\ tip[s] \in Nat
      /\ \A c, d \in Commit : c \in Reach(d) => Reach(c) \subseteq Reach(d)
      /\ Reach(main) \subseteq Commit /\ Len(passes) \in Nat
  BY RefsAreCommits DEF IInv
<1>3. ASSUME Know(r, [run[r] EXCEPT !.pc = "push"]), tip[run[r].slug] = run[r].tipSha PROVE IInv' /\ Still
  <2> DEFINE y == [run[r] EXCEPT !.pc = "push"]
  <2>1. /\ y \in WorkRecords
        /\ y.pc \in LockPlaces => run[r].pc \in LockPlaces
        /\ y.self = run[r].self /\ y.pc # "ledger"
    BY <1>1, <1>2, <1>3 DEF AssertTipUnmoved, At, WorkRecords, Busy, Pinned, LockPlaces
  <2>2. Knows(y)
    <3>1. MainKnown(y)
      BY <1>1, <1>2, <1>3 DEF AssertTipUnmoved, At, Knows, MainKnown, TipKnown, MainKnown, AtPin, Pinned, WorkRecords
    <3>2. TipKnown(y)
      BY <1>1, <1>2, <1>3 DEF AssertTipUnmoved, At, Knows, MainKnown, TipKnown, TipKnown, AtPin, Pinned, WorkRecords
    <3>3. GateKnown(y)
      BY <1>1, <1>2, <1>3 DEF AssertTipUnmoved, At, Knows, MainKnown, TipKnown, GateKnown, AtPin, Pinned, WorkRecords
    <3>4. BaseKnown(y)
      BY <1>1, <1>2, <1>3 DEF AssertTipUnmoved, At, Knows, MainKnown, TipKnown, BaseKnown, AtPin, Pinned, WorkRecords
    <3>5. PassKnown(y)
      BY <1>1, <1>2, <1>3 DEF AssertTipUnmoved, At, Knows, MainKnown, TipKnown, PassKnown, AtPin, Pinned, WorkRecords, Approved, Reviewed
    <3> QED BY <3>1, <3>2, <3>3, <3>4, <3>5 DEF Knows
  <2> HIDE DEF y
  <2>3. Know(r, y)
    BY <1>3 DEF y
  <2> QED BY <1>1, <2>1, <2>2, <2>3, KnowKeeps
<1>4. ASSUME Refuse(r) PROVE IInv' /\ Still
  BY <1>1, <1>4, RefuseKeeps
<1> QED BY <1>3, <1>4 DEF AssertTipUnmoved

-----------------------------------------------------------------------------
(* The tier of a set of changes *)

LEMMA TierIsOfOne ==
    ASSUME Typed, NEW S \in SUBSET Commit, S # {}
    PROVE  /\ {commits[c].tier : c \in S} \subseteq 0..2
           /\ \E t \in {commits[c].tier : c \in S} : \A c \in S : commits[c].tier <= t
<1> DEFINE T == {commits[c].tier : c \in S}
<1>1. T \subseteq 0..2 /\ T # {}
  <2>1. \A c \in S : commits[c] \in CommitRecords
    BY DEF Typed, Commit
  <2>2. \A c \in S : commits[c].tier \in 0..2
    BY <2>1 DEF CommitRecords
  <2> QED BY <2>2
<1>2. \A c \in S : commits[c].tier \in T
  OBVIOUS
<1>3. \E t \in T : \A u \in T : u <= t
  <2> HIDE DEF T
  <2>1. \A u \in T : u \in {0, 1, 2}
    BY <1>1
  <2>2. CASE 2 \in T
    BY <2>1, <2>2
  <2>3. CASE 2 \notin T /\ 1 \in T
    BY <2>1, <2>3
  <2>4. CASE 2 \notin T /\ 1 \notin T
    <3>1. T = {0}
      BY <1>1, <2>1, <2>4
    <3> QED BY <3>1
  <2> QED BY <2>2, <2>3, <2>4
<1> QED BY <1>1, <1>2, <1>3

LEMMA TierBounds ==
    ASSUME Typed, NEW S \in SUBSET Commit
    PROVE  TierOf(S) \in 0..2 /\ \A c \in S : commits[c].tier <= TierOf(S)
<1>1. CASE S = {}
  BY <1>1 DEF TierOf
<1>2. CASE S # {}
  <2> DEFINE T == {commits[c].tier : c \in S}
  <2>1. T \subseteq 0..2 /\ \E u \in T : \A c \in S : commits[c].tier <= u
    BY <1>2, TierIsOfOne
  <2>2. TierOf(S) = CHOOSE u \in T : \A c \in S : commits[c].tier <= u
    BY <1>2 DEF TierOf
  <2> HIDE DEF T
  <2>3. TierOf(S) \in T /\ \A c \in S : commits[c].tier <= TierOf(S)
    BY <2>1, <2>2
  <2> QED BY <2>1, <2>3
<1> QED BY <1>1, <1>2

-----------------------------------------------------------------------------
(* The classifier and the second look *)

LEMMA ClassifyKeeps ==
    ASSUME MergeAssumption, IInv, NEW r \in Runs, Classify(r)
    PROVE  IInv' /\ Still
<1> DEFINE x == run[r]
           diff == Tree(tip[x.slug]) \ Tree(main)
           tier == IF x.green THEN TierOf(diff) ELSE 2
           y == [x EXCEPT !.green = FALSE, !.pass = IF tier = 2 THEN @ ELSE 0,
                          !.pc = IF tier = 2 THEN "pass" ELSE "lock"]
<1>1. Works(r) /\ x \in WorkRecords /\ x.slug \in Slugs /\ Knows(x) /\ x.pc = "classify"
  BY WorkerKnows DEF Classify, At, Busy, Pinned
<1>2. diff \in SUBSET Commit
  BY <1>1, ReachIsClosed DEF IInv, Typed, Tree
<1>3. TierOf(diff) \in 0..2 /\ \A c \in diff : commits[c].tier <= TierOf(diff) /\ commits[c].tier \in Nat
  <2>1. \A c \in Commit : commits[c] \in CommitRecords
    BY DEF IInv, Typed, Commit
  <2> QED BY <1>2, <2>1, TierBounds DEF IInv, CommitRecords
<1>4. CASE ~(\/ x.self /\ (~x.green \/ tier # 0)
             \/ ~x.self /\ tier = 2 /\ x.pass = 0)
  <2>1. Know(r, y)
    BY <1>4 DEF Classify
  <2>2. /\ y \in WorkRecords /\ y.pc \notin LockPlaces /\ y.self = x.self /\ y.pc # "ledger"
        /\ y.slug = x.slug /\ y.tipSha = x.tipSha /\ y.mainSha = x.mainSha /\ y.pc \in {"pass", "lock"}
        /\ y.pc = "pass" => tier = 2 /\ y.pass = x.pass
        /\ y.pc = "lock" => tier # 2 /\ y.pass = 0
    BY <1>1 DEF WorkRecords, Busy, Pinned, LockPlaces
  <2>3. y.pc = "lock" /\ AtPin(y) => Approved(y)
    <3> SUFFICES ASSUME y.pc = "lock", AtPin(y) PROVE Approved(y)
      OBVIOUS
    <3>1. x.green /\ TierOf(diff) < 2 /\ (x.self => TierOf(diff) = 0)
      BY <1>3, <1>4, <2>2
    <3>2. tip[x.slug] = x.tipSha /\ AtPin(x)
      BY <2>2 DEF AtPin
    <3>3. Tree(x.tipSha) \in greens
      BY <1>1, <3>1, <3>2 DEF Knows, GateKnown
    <3>4. ASSUME NEW c \in diff PROVE commits[c].tier < 2 /\ (x.self => commits[c].tier = 0)
      <4>1. commits[c].tier \in Nat /\ TierOf(diff) \in 0..2 /\ commits[c].tier <= TierOf(diff)
        BY <1>3
      <4> HIDE DEF diff
      <4> QED BY <3>1, <4>1
    <3> HIDE DEF y
    <3> QED BY <2>2, <3>2, <3>3, <3>4 DEF Approved
  <2> HIDE DEF y
  <2>4. MainKnown(y) /\ TipKnown(y) /\ BaseKnown(y)
    BY <1>1, <2>2 DEF Knows, MainKnown, TipKnown, BaseKnown, AtPin, Pinned
  <2>5. GateKnown(y)
    BY <1>1, <2>2 DEF Knows, GateKnown, AtPin
  <2>6. PassKnown(y)
    <3>1. x.pass \in 0..Len(passes) /\ (x.self => x.pass = 0) /\ 0 \in 0..Len(passes)
      BY <1>1 DEF Knows, PassKnown, IInv, Typed
    <3>2. y.pc = "pass" => y.pass # 0
      BY <1>4, <2>2, <3>1
    <3> QED BY <2>2, <2>3, <3>1, <3>2 DEF PassKnown
  <2>7. Know(r, y)
    BY <2>1 DEF y
  <2> QED BY <1>1, <2>2, <2>4, <2>5, <2>6, <2>7, KnowKeeps DEF Knows
<1>5. CASE \/ x.self /\ (~x.green \/ tier # 0)
           \/ ~x.self /\ tier = 2 /\ x.pass = 0
  <2>1. Refuse(r)
    BY <1>5 DEF Classify
  <2> QED BY <1>1, <2>1, RefuseKeeps
<1> QED BY <1>4, <1>5

(* Main is where it was pinned, so a tip that is not in it is not one that *)
(* landed under the same PASS.                                             *)
LEMMA AssertMainUnmovedKeeps ==
    ASSUME MergeAssumption, IInv, NEW r \in Runs, AssertMainUnmoved(r)
    PROVE  IInv' /\ Still
<1> DEFINE x == run[r]
           y == [x EXCEPT !.pc = "assertTip"]
<1>1. Works(r) /\ x \in WorkRecords /\ x.slug \in Slugs /\ Knows(x) /\ x.pc = "assertMain"
  BY WorkerKnows DEF AssertMainUnmoved, At, Busy, Pinned
<1>2. CASE main = x.mainSha /\ main \in Reach(tip[x.slug])
  <2>1. Know(r, y)
    BY <1>2 DEF AssertMainUnmoved
  <2>2. /\ y \in WorkRecords /\ y.self = x.self /\ y.pc = "assertTip" /\ y.pass = x.pass
        /\ y.slug = x.slug /\ y.tipSha = x.tipSha /\ y.mainSha = x.mainSha /\ y.base = x.base
    BY <1>1 DEF WorkRecords, Busy, LockPlaces
  <2>3. AtPin(x) => Reviewed(x)
    <3> SUFFICES ASSUME AtPin(x), x.pass # 0 PROVE passes[x.pass].saw = x.tipSha \/ x.tipSha \in late
      BY DEF Reviewed
    <3>1. /\ passes[x.pass].slug = x.slug /\ x.pass > commits[x.tipSha].date /\ x.pass \in 1..Len(passes)
          /\ tip[x.slug] = x.tipSha
      BY <1>1 DEF Knows, PassKnown, AtPin, IInv, Typed
    <3>2. passes[x.pass].saw = x.tipSha \/ x.tipSha \in late \/ x.tipSha \in Reach(main)
      BY <1>1, <3>1 DEF IInv, PassesSaw
    <3>3. x.tipSha \notin Reach(main)
      BY <1>1, <1>2 DEF Knows, TipKnown, Pinned
    <3> QED BY <3>2, <3>3
  <2>4. AtPin(x) => x.base \in Reach(x.tipSha)
    <3> SUFFICES ASSUME AtPin(x) PROVE x.base \in Reach(x.tipSha)
      OBVIOUS
    <3>1. x.base \in Reach(main) /\ main \in Reach(x.tipSha) /\ x.tipSha \in Commit
      BY <1>1, <1>2 DEF Knows, BaseKnown, TipKnown, Pinned, AtPin
    <3> QED BY <3>1, ReachIsClosed DEF IInv
  <2> HIDE DEF y
  <2>5. MainKnown(y) /\ TipKnown(y) /\ GateKnown(y)
    BY <1>1, <2>2 DEF Knows, MainKnown, TipKnown, GateKnown, AtPin, Pinned
  <2>6. BaseKnown(y)
    BY <1>1, <2>2, <2>4 DEF Knows, BaseKnown, AtPin
  <2>7. PassKnown(y)
    BY <1>1, <2>2, <2>3 DEF Knows, PassKnown, AtPin, Reviewed, Approved
  <2>8. Know(r, y)
    BY <2>1 DEF y
  <2>9. x.pc \in LockPlaces /\ x.pc # "ledger"
    BY <1>1 DEF LockPlaces
  <2> QED BY <1>1, <2>2, <2>5, <2>6, <2>7, <2>8, <2>9, KnowKeeps DEF Knows
<1>3. CASE ~(main = x.mainSha /\ main \in Reach(tip[x.slug]))
  <2>1. Refuse(r)
    BY <1>3 DEF AssertMainUnmoved
  <2> QED BY <1>1, <2>1, RefuseKeeps
<1> QED BY <1>2, <1>3

-----------------------------------------------------------------------------
(* People and programs around the pipeline *)

TreeStays == Tree(main)' = Tree(main) /\ UNCHANGED <<gatedTrees, landed>>

LEMMA NobodyMoves ==
    ASSUME IInv, Typed', History', Grows, PassesSaw', UNCHANGED <<run, lock, landed, ledgered, unledgered, blind>>
    PROVE  IInv'
<1>1. ThreadsKnow'
  <2>1. {} \in SUBSET Runs /\ \A q \in Runs \ {} : run'[q] = run[q]
    OBVIOUS
  <2>2. \A r \in {} : \A x \in WorkRecords : run'[r] = x => Knows(x)'
    OBVIOUS
  <2> QED BY <2>1, <2>2, ThreadsStay DEF IInv
<1>2. LandedWell'
  BY LandedWellStays DEF IInv
<1>3. OneMerges' /\ Counted'
  BY DEF IInv, OneMerges, Counted, SelfMerges, Uncounted, At
<1> QED BY <1>1, <1>2, <1>3 DEF IInv

LEMMA DatesAreNat ==
    ASSUME IInv
    PROVE  /\ \A c \in Commit : commits[c].date \in Nat /\ commits[c].tier \in 0..2 /\ commits[c].change \in BOOLEAN
           /\ Len(commits) \in Nat /\ Len(passes) \in Nat
<1>1. \A c \in Commit : commits[c] \in CommitRecords
  BY DEF IInv, Typed, Commit
<1> QED BY <1>1 DEF CommitRecords, IInv, Typed

LEMMA PushBranchKeeps ==
    ASSUME MergeAssumption, IInv, NEW s \in Slugs, PushBranch(s)
    PROVE  IInv' /\ TreeStays
<1> DEFINE n == Len(commits) + 1
<1>1. PICK tier \in Tiers, date \in commits[tip[s]].date..Len(passes) :
        /\ NewCommit(Reach(tip[s]), TRUE, tier, date)
        /\ tip' = [tip EXCEPT ![s] = n]
        /\ UNCHANGED <<main, passes, claims, lock, ledgered, run, asks, crashes,
                       gatedTrees, greens, landed, unledgered, blind>>
  BY DEF PushBranch
<1>2. /\ tier \in 0..2 /\ date \in Nat /\ date <= Len(passes)
      /\ main \in Commit /\ n \in Nat /\ n \notin Commit /\ \A t \in Slugs : tip[t] \in Commit
      /\ Len(passes) \in Nat
  <2>1. /\ main \in Commit /\ \A t \in Slugs : tip[t] \in Commit
        /\ n \in Nat /\ n \notin Commit /\ Len(passes) \in Nat
    BY DatesAreNat DEF IInv, Typed, Commit
  <2>2. commits[tip[s]].date \in Nat
    BY <2>1, DatesAreNat
  <2> QED BY <1>1, <2>1, <2>2, Constants
<1>3. Reach(tip[s]) \in SUBSET Commit /\ \A d \in Reach(tip[s]) : Reach(d) \subseteq Reach(tip[s])
  BY <1>2, ReachIsClosed DEF IInv
<1>4. /\ commits' \in Seq(CommitRecords) /\ Len(commits') = n
      /\ \A c \in Commit : commits'[c] = commits[c]
      /\ commits'[n].reach = Reach(tip[s]) \cup {n} /\ commits'[n].date = date
      /\ History' /\ late \subseteq late' /\ (date < Len(passes) => n \in late')
  BY <1>1, <1>2, <1>3, AddsCommit DEF IInv
<1>5. \A t \in Slugs : tip'[t] = IF t = s THEN n ELSE tip[t]
  BY <1>1 DEF IInv, Typed
<1>6. Typed'
  <2>1. tip' \in [Slugs -> 1..n]
    BY <1>1, <1>2 DEF IInv, Typed, Commit
  <2> QED BY <1>1, <1>2, <1>4, <2>1 DEF IInv, Typed, Commit
<1>7. Grows
  <2>1. main \in Reach(main) /\ \A t \in Slugs : tip[t] \in Reach(tip[t])
    BY RefsAreCommits
  <2>2. ASSUME NEW t \in Slugs PROVE tip[t] \in commits'[tip'[t]].reach
    BY <1>2, <1>4, <1>5, <2>1 DEF Reach
  <2> QED BY <1>1, <1>2, <1>4, <2>1, <2>2 DEF Grows, Reach
<1>8. PassesSaw'
  <2> SUFFICES ASSUME NEW t \in Slugs, NEW p \in 1..Len(passes), passes[p].slug = t, p > commits'[tip'[t]].date
               PROVE  passes[p].saw = tip'[t] \/ tip'[t] \in late' \/ tip'[t] \in commits'[main].reach
    BY <1>1 DEF PassesSaw, Reach
  <2>1. CASE t = s
    BY <1>2, <1>4, <1>5, <2>1
  <2>2. CASE t # s
    BY <1>2, <1>4, <1>5, <2>2 DEF IInv, PassesSaw, Reach
  <2> QED BY <2>1, <2>2
<1>9. TreeStays
  BY <1>1, <1>2, <1>7, TreesStay DEF IInv, TreeStays, Tree, Reach
<1> QED BY <1>1, <1>4, <1>6, <1>7, <1>8, <1>9, NobodyMoves

KeyboardStep ==
    /\ Len(commits) + 1 \notin Tree(main)
    /\ Tree(main)' = Tree(main) \cup {Len(commits) + 1}
    /\ UNCHANGED <<gatedTrees, landed>>

LEMMA KeyboardPushKeeps ==
    ASSUME MergeAssumption, IInv, KeyboardPush
    PROVE  IInv' /\ KeyboardStep
<1> DEFINE n == Len(commits) + 1
<1>1. /\ NewCommit(Reach(main), TRUE, 0, Len(passes))
      /\ main' = n
      /\ UNCHANGED <<tip, passes, claims, lock, ledgered, run, asks, crashes,
                     gatedTrees, greens, landed, unledgered, blind>>
  BY DEF KeyboardPush
<1>2. /\ main \in Commit /\ n \in Nat /\ n \notin Commit /\ \A t \in Slugs : tip[t] \in Commit
      /\ Len(passes) \in Nat /\ 0 \in 0..2 /\ Len(passes) <= Len(passes)
  BY DatesAreNat DEF IInv, Typed, Commit
<1>3. Reach(main) \in SUBSET Commit /\ \A d \in Reach(main) : Reach(d) \subseteq Reach(main)
  BY <1>2, ReachIsClosed DEF IInv
<1>4. /\ commits' \in Seq(CommitRecords) /\ Len(commits') = n
      /\ \A c \in Commit : commits'[c] = commits[c]
      /\ commits'[n].reach = Reach(main) \cup {n} /\ commits'[n].change = TRUE
      /\ History' /\ late \subseteq late'
  BY <1>1, <1>2, <1>3, AddsCommit DEF IInv
<1>5. Typed'
  <2>1. tip' \in [Slugs -> 1..n] /\ main' \in 1..n
    BY <1>1, <1>2 DEF IInv, Typed, Commit
  <2> QED BY <1>1, <1>2, <1>4, <2>1 DEF IInv, Typed, Commit
<1>6. Grows
  <2>1. main \in Reach(main) /\ \A t \in Slugs : tip[t] \in Reach(tip[t])
    BY RefsAreCommits
  <2> QED BY <1>1, <1>2, <1>4, <2>1 DEF Grows, Reach
<1>7. PassesSaw'
  BY <1>1, <1>2, <1>4 DEF IInv, PassesSaw, Reach
<1>8. KeyboardStep
  <2>1. Tree(main) = {d \in Reach(main) : commits[d].change} /\ n \notin Tree(main)
    BY <1>2, <1>3 DEF Tree
  <2>2. Tree(main)' = {d \in Reach(main) \cup {n} : commits'[d].change}
    BY <1>1, <1>4 DEF Tree, Reach
  <2> QED BY <1>1, <1>3, <1>4, <2>1, <2>2 DEF KeyboardStep
<1> QED BY <1>1, <1>4, <1>5, <1>6, <1>7, <1>8, NobodyMoves

LEMMA PostPassKeeps ==
    ASSUME MergeAssumption, IInv, NEW s \in Slugs, PostPass(s)
    PROVE  IInv' /\ TreeStays
<1> DEFINE n == Len(passes) + 1
           post == [slug |-> s, saw |-> tip[s]]
<1>1. /\ passes' = Append(passes, post)
      /\ UNCHANGED <<commits, main, tip, claims, lock, ledgered, run, asks, crashes, gatedTrees, greens, landed,
                     unledgered, blind, late>>
  BY DEF PostPass, gatehouse, history
<1>2. passes \in Seq(PassRecords) /\ post \in PassRecords /\ n \in Nat
  <2>1. tip[s] \in Nat
    BY RefsAreCommits
  <2> QED BY <2>1 DEF IInv, Typed, PassRecords
<1>3. /\ passes' \in Seq(PassRecords) /\ Len(passes') = n /\ passes'[n] = post
      /\ \A p \in 1..Len(passes) : passes'[p] = passes[p]
  BY <1>1, <1>2
<1>4. Typed' /\ History'
  BY <1>1, <1>3 DEF IInv, Typed, History, Commit, Reach
<1>5. Grows
  <2>1. main \in Reach(main) /\ \A t \in Slugs : tip[t] \in Reach(tip[t]) /\ Len(commits) \in Nat
    BY RefsAreCommits, DatesAreNat
  <2> QED BY <1>1, <1>2, <1>3, <2>1 DEF Grows, Reach
<1>6. PassesSaw'
  <2> SUFFICES ASSUME NEW t \in Slugs, NEW p \in 1..n, passes'[p].slug = t, p > commits[tip[t]].date
               PROVE  passes'[p].saw = tip[t] \/ tip[t] \in late \/ tip[t] \in Reach(main)
    BY <1>1, <1>3 DEF PassesSaw, Reach
  <2>1. CASE p = n
    BY <1>3, <2>1
  <2>2. CASE p # n
    BY <1>2, <1>3, <2>2 DEF IInv, PassesSaw
  <2> QED BY <2>1, <2>2
<1>7. TreeStays
  BY <1>1 DEF TreeStays, Tree, Reach
<1> QED BY <1>1, <1>4, <1>5, <1>6, <1>7, NobodyMoves

-----------------------------------------------------------------------------
(* A thread begins, gates, takes the lock and ends *)

LEMMA ClaimKeeps ==
    ASSUME MergeAssumption, IInv, NEW r \in Runs, NEW s \in Slugs, NEW self \in BOOLEAN, NEW p \in 0..Len(passes),
           self => p = 0, Claim(r, s, self, p)
    PROVE  IInv' /\ Still
<1> DEFINE y == [pc |-> "main", slug |-> s, self |-> self, pass |-> p, tried |-> FALSE,
                 mainSha |-> 0, tipSha |-> 0, base |-> 0, other |-> 0, date |-> 0, green |-> FALSE]
<1>1. /\ Looks /\ UNCHANGED <<landed, ledgered, unledgered, blind>> /\ lock' = lock /\ Puts(r, y)
      /\ run[r].pc = "idle"
  BY DEF Claim, Looks, Puts, gatehouse, history, At
<1>2. y \in WorkRecords /\ y.pc = "main" /\ y.self = self /\ y.pass = p
  <2>1. p \in Nat
    BY DEF IInv, Typed
  <2> QED BY <2>1 DEF WorkRecords, Busy
<1> HIDE DEF y
<1>3. Knows(y)
  BY <1>2 DEF Knows, MainKnown, TipKnown, GateKnown, BaseKnown, PassKnown, Pinned
<1>4. Typed' /\ History' /\ PassesSaw' /\ ThreadsKnow' /\ LandedWell' /\ Grows
  BY <1>1, <1>2, <1>3, LookKeeps DEF IInv
<1>5. run'[r] = y /\ \A q \in Runs \ {r} : run'[q] = run[q]
  BY <1>1, <1>2, PutsIsTyped DEF IInv
<1>6. OneMerges' /\ Counted'
  <2>1. \A q \in Runs : run'[q].pc \in LockPlaces => lock'
    BY <1>1, <1>2, <1>5 DEF IInv, OneMerges, LockPlaces
  <2> QED BY <1>1, <1>2, <1>5, <2>1, LooksAtLock DEF IInv, LockPlaces
<1> QED BY <1>1, <1>4, <1>6 DEF IInv, Still, Looks

LEMMA FinishKeeps ==
    ASSUME MergeAssumption, IInv, NEW r \in Runs, Finish(r)
    PROVE  IInv' /\ Still
<1>1. /\ Looks /\ UNCHANGED <<landed, ledgered, unledgered, blind>> /\ lock' = lock /\ Puts(r, Idle)
      /\ run[r].pc = "done"
  BY DEF Finish, Looks, Puts, gatehouse, history, At
<1>2. Idle \in Resting /\ Idle \notin WorkRecords /\ Idle.pc = "idle"
  BY Constants DEF Resting, Idle
<1>3. Typed' /\ History' /\ PassesSaw' /\ ThreadsKnow' /\ LandedWell' /\ Grows
  BY <1>1, <1>2, LookKeeps DEF IInv
<1>4. run'[r] = Idle /\ \A q \in Runs \ {r} : run'[q] = run[q]
  BY <1>1, <1>2, PutsIsTyped DEF IInv
<1>5. OneMerges' /\ Counted'
  <2>1. \A q \in Runs : run'[q].pc \in LockPlaces => lock'
    BY <1>1, <1>2, <1>4 DEF IInv, OneMerges, LockPlaces
  <2> QED BY <1>1, <1>2, <1>4, <2>1, LooksAtLock DEF IInv, LockPlaces
<1> QED BY <1>1, <1>3, <1>5 DEF IInv, Still, Looks

LEMMA TakeLockKeeps ==
    ASSUME MergeAssumption, IInv, NEW r \in Runs, TakeLock(r)
    PROVE  IInv' /\ Still
<1> DEFINE x == run[r]
           y == [x EXCEPT !.pc = "clone"]
           over == IF x.self /\ ledgered >= Budget THEN 1 ELSE 0
<1>1. Works(r) /\ x \in WorkRecords /\ x.slug \in Slugs /\ Knows(x) /\ x.pc = "lock" /\ ~lock
  BY WorkerKnows DEF TakeLock, At, Busy, Pinned
<1>2. CASE ~Refuse(r)
  <2>1. /\ Looks /\ UNCHANGED <<landed, ledgered, unledgered>> /\ lock' = TRUE /\ Puts(r, y)
        /\ blind' = blind + over
    BY <1>2 DEF TakeLock, Looks, Puts, Goto, gatehouse
  <2>2. /\ y \in WorkRecords /\ y.pc = "clone" /\ y.self = x.self /\ y.pass = x.pass
        /\ y.slug = x.slug /\ y.tipSha = x.tipSha /\ y.mainSha = x.mainSha /\ y.base = x.base
    BY <1>1 DEF WorkRecords, Busy, LockPlaces
  <2> HIDE DEF y
  <2>3. Knows(y)
    <3>1. MainKnown(y) /\ TipKnown(y) /\ GateKnown(y)
      BY <1>1, <2>2 DEF Knows, MainKnown, TipKnown, GateKnown, AtPin, Pinned
    <3>2. BaseKnown(y)
      BY <1>1, <2>2 DEF Knows, BaseKnown, AtPin
    <3>3. PassKnown(y)
      BY <1>1, <2>2 DEF Knows, PassKnown, AtPin, Approved
    <3> QED BY <3>1, <3>2, <3>3 DEF Knows
  <2>4. Typed' /\ History' /\ PassesSaw' /\ ThreadsKnow' /\ LandedWell' /\ Grows
    <3>1. ledgered' \in Nat /\ unledgered' \in Nat /\ blind' \in Nat
      BY <2>1 DEF IInv, Typed
    <3> QED BY <2>1, <2>2, <2>3, <3>1, LookOnly DEF IInv
  <2>5. run'[r] = y /\ \A q \in Runs \ {r} : run'[q] = run[q]
    BY <2>1, <2>2, PutsIsTyped DEF IInv
  <2>6. \A q \in Runs : run[q].pc \notin LockPlaces
    BY <1>1 DEF IInv, OneMerges
  <2>7. OneMerges'
    BY <2>1, <2>5, <2>6 DEF OneMerges
  <2>8. Counted'
    <3>1. Uncounted' = Uncounted
      BY <2>2, <2>5, <1>1 DEF Uncounted, At
    <3>2. /\ ledgered' <= Budget + blind'
          /\ x.self => ledgered' < Budget + blind'
      BY <2>1, Constants DEF IInv, Typed, Counted
    <3> QED BY <2>1, <2>2, <2>5, <2>6, <3>1, <3>2 DEF IInv, Counted, SelfMerges
  <2> QED BY <2>1, <2>4, <2>7, <2>8 DEF IInv, Still, Looks
<1>3. CASE Refuse(r)
  BY <1>1, <1>3, RefuseKeeps
<1> QED BY <1>2, <1>3

(* What is gated is the branch by its name; as long as it is where it was  *)
(* pinned, that is the pinned tree.                                        *)
GateStep == /\ Tree(main)' = Tree(main) /\ landed' = landed
            /\ \E tree : gatedTrees' = gatedTrees \cup {tree}

LEMMA GateKeeps ==
    ASSUME MergeAssumption, IInv, NEW r \in Runs, Gate(r)
    PROVE  IInv' /\ (Still \/ GateStep)
<1> DEFINE x == run[r]
           tree == Tree(tip[x.slug])
<1>1. Works(r) /\ x \in WorkRecords /\ x.slug \in Slugs /\ Knows(x) /\ x.pc = "gate"
  BY WorkerKnows DEF Gate, At, Busy, Pinned
<1>2. CASE Refuse(r)
  BY <1>1, <1>2, RefuseKeeps
<1>3. ASSUME NEW green \in BOOLEAN,
             gatedTrees' = gatedTrees \cup {tree},
             greens' = IF green THEN greens \cup {tree} ELSE greens,
             run' = [run EXCEPT ![r].pc = "classify", ![r].green = green],
             UNCHANGED <<gatehouse, passes, claims, lock, ledgered, asks, crashes, landed, unledgered, blind, late>>
      PROVE  IInv' /\ GateStep
  <2> DEFINE y == [x EXCEPT !.pc = "classify", !.green = green]
  <2>1. UNCHANGED <<commits, main, tip, passes, lock, landed, ledgered, unledgered, blind, late>> /\ Puts(r, y)
    BY <1>3 DEF gatehouse, Puts
  <2>2. /\ y \in WorkRecords /\ y.pc = "classify" /\ y.self = x.self /\ y.pass = x.pass /\ y.green = green
        /\ y.slug = x.slug /\ y.tipSha = x.tipSha /\ y.mainSha = x.mainSha /\ y.base = x.base
    BY <1>1 DEF WorkRecords, Busy, Pinned
  <2> HIDE DEF y
  <2>3. run' \in [Runs -> WorkRecords \cup Resting] /\ run'[r] = y /\ \A q \in Runs \ {r} : run'[q] = run[q]
    BY <2>1, <2>2, PutsIsTyped DEF IInv
  <2>4. Typed' /\ History' /\ PassesSaw'
    BY <2>1, <2>3 DEF IInv, Typed, History, PassesSaw, Commit, Reach
  <2>5. Grows
    <3>1. main \in Reach(main) /\ \A t \in Slugs : tip[t] \in Reach(tip[t])
      BY RefsAreCommits
    <3>2. Len(commits) \in Nat /\ Len(passes) \in Nat
      BY DatesAreNat
    <3> QED BY <1>3, <2>1, <3>1, <3>2 DEF Grows, Reach
  <2>6. ASSUME NEW z \in WorkRecords, z = y PROVE Knows(z)'
    <3>1. MainKnown(z)' /\ TipKnown(z)' /\ BaseKnown(z)'
      BY <1>1, <2>1, <2>2, <2>6 DEF Knows, MainKnown, TipKnown, BaseKnown, AtPin, Pinned, Reach, Commit
    <3>2. AtPin(z)' => Tree(z.tipSha)' = tree
      BY <2>1, <2>2, <2>6 DEF AtPin, Tree, Reach
    <3>3. GateKnown(z)'
      BY <1>3, <2>2, <2>6, <3>2 DEF GateKnown
    <3>4. PassKnown(z)'
      BY <1>1, <2>1, <2>2, <2>6 DEF Knows, PassKnown
    <3> QED BY <3>1, <3>3, <3>4 DEF Knows
  <2>7. ThreadsKnow'
    <3>1. {r} \in SUBSET Runs /\ \A q \in Runs \ {r} : run'[q] = run[q]
      BY <2>3
    <3>2. \A q \in {r} : \A z \in WorkRecords : run'[q] = z => Knows(z)'
      BY <2>3, <2>6
    <3> QED BY <2>4, <2>5, <3>1, <3>2, ThreadsStay DEF IInv
  <2>8. LandedWell'
    BY <2>1, <2>5, LandedWellStays DEF IInv
  <2>9. OneMerges' /\ Counted'
    <3>1. \A q \in Runs : run'[q].pc \in LockPlaces => lock'
      BY <2>1, <2>2, <2>3 DEF IInv, OneMerges, LockPlaces
    <3> QED BY <1>1, <2>1, <2>2, <2>3, <3>1, LooksAtLock DEF IInv, LockPlaces
  <2>10. GateStep
    BY <1>3, <2>1 DEF GateStep, Tree, Reach
  <2> QED BY <2>4, <2>7, <2>8, <2>9, <2>10 DEF IInv
<1> QED BY <1>2, <1>3 DEF Gate

-----------------------------------------------------------------------------
(* A thread pushes, and writes its line *)

LEMMA FoldPushKeeps ==
    ASSUME MergeAssumption, IInv, NEW r \in Runs, FoldPush(r)
    PROVE  IInv' /\ TreeStays
<1> DEFINE x == run[r]
           s == x.slug
           n == Len(commits) + 1
           folded == Reach(x.base) \cup Reach(x.other)
           y == [x EXCEPT !.pc = "main", !.base = 0, !.other = 0, !.date = 0]
<1>1. Works(r) /\ x \in WorkRecords /\ s \in Slugs /\ Knows(x) /\ x.pc = "foldPush" /\ x.pc # "ledger"
  BY WorkerKnows DEF FoldPush, At, Busy
<1>2. CASE Refuse(r)
  <2>1. IInv' /\ Still
    BY <1>1, <1>2, RefuseKeeps
  <2> QED BY <2>1 DEF Still, TreeStays, Tree, Reach
<1>3. ASSUME tip[s] \in folded,
             IF x.base \in Reach(x.other)
             THEN tip' = [tip EXCEPT ![s] = x.other] /\ UNCHANGED <<commits, late>>
             ELSE NewCommit(folded, FALSE, 0, x.date) /\ tip' = [tip EXCEPT ![s] = n],
             run' = [run EXCEPT ![r] = y],
             UNCHANGED <<main, passes, claims, lock, ledgered, asks, crashes, gatedTrees, greens, landed, unledgered, blind>>
      PROVE  IInv' /\ TreeStays
  <2>1. /\ x.base \in Commit /\ x.other \in Reach(main) /\ x.other \in Commit
        /\ x.date \in Nat /\ x.date <= Len(passes) /\ main \in Commit
        /\ n \in Nat /\ n \notin Commit /\ Len(passes) \in Nat /\ 0 \in 0..2
        /\ \A t \in Slugs : tip[t] \in Commit
    BY <1>1, RefsAreCommits, DatesAreNat DEF Knows, MainKnown, WorkRecords, Commit
  <2>2. folded \in SUBSET Commit /\ \A d \in folded : Reach(d) \subseteq folded
    BY <2>1, ReachIsClosed DEF IInv
  <2>3. /\ y \in WorkRecords /\ y.pc = "main" /\ y.self = x.self /\ y.pass = x.pass
    BY <1>1 DEF WorkRecords, Busy
  <2> HIDE DEF y
  <2>4. run' \in [Runs -> WorkRecords \cup Resting] /\ run'[r] = y /\ \A q \in Runs \ {r} : run'[q] = run[q]
    <3>1. Puts(r, y)
      BY <1>3 DEF Puts
    <3> QED BY <2>3, <3>1, PutsIsTyped DEF IInv
  <2>5. main \in Reach(main) /\ \A t \in Slugs : tip[t] \in Reach(tip[t])
    BY RefsAreCommits
  <2>6. /\ Typed' /\ History' /\ Grows /\ PassesSaw'
    <3>1. CASE x.base \in Reach(x.other)
      <4>1. /\ tip' = [tip EXCEPT ![s] = x.other] /\ tip' \in [Slugs -> Commit]
            /\ \A t \in Slugs : tip'[t] = IF t = s THEN x.other ELSE tip[t]
            /\ UNCHANGED <<commits, late, main, passes, landed, ledgered, unledgered, blind, gatedTrees, greens>>
        BY <1>1, <1>3, <2>1, <3>1 DEF IInv, Typed
      <4>2. Typed' /\ History'
        BY <2>4, <4>1 DEF IInv, Typed, History, Commit, Reach
      <4>3. tip[s] \in Reach(x.other)
        BY <1>3, <2>1, <3>1, ReachIsClosed DEF IInv
      <4>4. Grows
        <5>1. ASSUME NEW t \in Slugs PROVE tip[t] \in commits[tip'[t]].reach
          BY <2>5, <4>1, <4>3 DEF Reach
        <5> QED BY <2>1, <2>5, <4>1, <5>1, DatesAreNat DEF Grows, Reach
      <4>5. PassesSaw'
        BY <2>1, <4>1 DEF IInv, PassesSaw, Reach
      <4> QED BY <4>2, <4>4, <4>5
    <3>2. CASE x.base \notin Reach(x.other)
      <4>1. NewCommit(folded, FALSE, 0, x.date) /\ tip' = [tip EXCEPT ![s] = n]
        BY <1>3, <3>2
      <4> HIDE DEF folded
      <4>2. /\ commits' \in Seq(CommitRecords) /\ Len(commits') = n
            /\ \A c \in Commit : commits'[c] = commits[c]
            /\ commits'[n].reach = folded \cup {n} /\ commits'[n].date = x.date
            /\ History' /\ late \subseteq late' /\ (x.date < Len(passes) => n \in late')
        BY <2>1, <2>2, <4>1, AddsCommit DEF IInv
      <4>3. \A t \in Slugs : tip'[t] = IF t = s THEN n ELSE tip[t]
        BY <4>1 DEF IInv, Typed
      <4>4. Typed'
        <5>1. tip' \in [Slugs -> 1..n]
          <6>1. n \in 1..n /\ tip \in [Slugs -> 1..n]
            BY DatesAreNat DEF IInv, Typed, Commit
          <6> QED BY <4>1, <6>1
        <5>2. UNCHANGED <<main, passes, landed, ledgered, unledgered, blind>>
          BY <1>3
        <5> QED BY <2>1, <2>4, <4>2, <5>1, <5>2 DEF IInv, Typed, Commit
      <4>5. Grows
        <5>1. ASSUME NEW t \in Slugs PROVE tip[t] \in commits'[tip'[t]].reach
          BY <1>3, <2>1, <2>5, <4>2, <4>3 DEF Reach
        <5>2. UNCHANGED <<main, passes, gatedTrees, greens>>
          BY <1>3
        <5> QED BY <2>1, <2>5, <4>2, <5>1, <5>2 DEF Grows, Reach
      <4>6. PassesSaw'
        <5>1. UNCHANGED <<main, passes>>
          BY <1>3
        <5> SUFFICES ASSUME NEW t \in Slugs, NEW p \in 1..Len(passes), passes[p].slug = t, p > commits'[tip'[t]].date
                     PROVE  passes[p].saw = tip'[t] \/ tip'[t] \in late' \/ tip'[t] \in commits'[main].reach
          BY <5>1 DEF PassesSaw, Reach
        <5>2. CASE t = s
          BY <2>1, <4>2, <4>3, <5>2
        <5>3. CASE t # s
          BY <2>1, <4>2, <4>3, <5>3 DEF IInv, PassesSaw, Reach
        <5> QED BY <5>2, <5>3
      <4> QED BY <4>2, <4>4, <4>5, <4>6
    <3> QED BY <3>1, <3>2
  <2>7. ThreadsKnow'
    <3>1. ASSUME NEW z \in WorkRecords, z = y PROVE Knows(z)'
      <4>1. z.pc = "main" /\ (z.self => z.pass = 0) /\ z.pass \in 0..Len(passes) /\ passes' = passes
        BY <1>1, <1>3, <2>3, <3>1 DEF Knows, PassKnown
      <4> QED BY <4>1 DEF Knows, MainKnown, TipKnown, GateKnown, BaseKnown, PassKnown, Pinned
    <3>2. {r} \in SUBSET Runs /\ \A q \in Runs \ {r} : run'[q] = run[q]
      BY <2>4
    <3>3. \A q \in {r} : \A z \in WorkRecords : run'[q] = z => Knows(z)'
      BY <2>4, <3>1
    <3> QED BY <2>6, <3>2, <3>3, ThreadsStay DEF IInv
  <2>8. LandedWell'
    BY <1>3, <2>6, LandedWellStays DEF IInv
  <2>9. OneMerges' /\ Counted'
    <3>1. \A q \in Runs : run'[q].pc \in LockPlaces => lock'
      BY <1>3, <2>3, <2>4 DEF IInv, OneMerges, LockPlaces
    <3> QED BY <1>1, <1>3, <2>3, <2>4, <3>1, LooksAtLock DEF IInv, LockPlaces
  <2>10. TreeStays
    <3>1. Tree(main)' = Tree(main)
      <4>1. main' = main /\ Tree(main) = {d \in Reach(main) : commits[d].change} /\ Reach(main) \subseteq Commit
        BY <1>3, RefsAreCommits DEF Tree
      <4>2. \A c \in Commit : commits'[c] = commits[c]
        BY <2>6 DEF Grows
      <4>3. Tree(main)' = {d \in commits'[main].reach : commits'[d].change}
        BY <4>1 DEF Tree, Reach
      <4> QED BY <2>1, <4>1, <4>2, <4>3 DEF Reach
    <3> QED BY <1>3, <3>1 DEF TreeStays
  <2> QED BY <2>6, <2>7, <2>8, <2>9, <2>10 DEF IInv
<1> QED BY <1>2, <1>3 DEF FoldPush

(* Whose self-merge has no line yet.                                       *)
LEMMA AtMostOneUncounted ==
    ASSUME OneMerges
    PROVE  /\ IsFiniteSet(Uncounted) /\ Cardinality(Uncounted) \in {0, 1}
           /\ \A r \in Runs : run[r].pc \in LockPlaces =>
                 Uncounted = IF run[r].pc = "ledger" /\ run[r].self THEN {r} ELSE {}
<1>1. \A r \in Runs : run[r].pc \in LockPlaces =>
         Uncounted = IF run[r].pc = "ledger" /\ run[r].self THEN {r} ELSE {}
  BY DEF OneMerges, Uncounted, At, LockPlaces
<1>2. Uncounted = {} \/ \E r \in Runs : Uncounted = {r}
  BY <1>1 DEF Uncounted, At, LockPlaces
<1>3. CASE Uncounted = {}
  BY <1>1, <1>3, FS_EmptySet
<1>4. CASE \E r \in Runs : Uncounted = {r}
  BY <1>1, <1>4, FS_Singleton
<1> QED BY <1>2, <1>3, <1>4

LEMMA WriteLedgerKeeps ==
    ASSUME MergeAssumption, IInv, NEW r \in Runs, WriteLedger(r)
    PROVE  IInv' /\ TreeStays
<1> DEFINE x == run[r]
           y == Done(x.slug)
           one == IF x.self THEN 1 ELSE 0
<1>1. Works(r) /\ x \in WorkRecords /\ x.slug \in Slugs /\ x.pc = "ledger" /\ x.pc \in LockPlaces
  BY WorkerKnows DEF WriteLedger, At, Busy, LockPlaces
<1>2. /\ Looks /\ landed' = landed /\ lock' = FALSE /\ Puts(r, y)
      /\ blind' = blind
      /\ \/ ledgered' = ledgered + one /\ unledgered' = unledgered
         \/ unledgered' = unledgered + one /\ ledgered' = ledgered
  BY DEF WriteLedger, Looks, Puts, gatehouse
<1>3. y \in Resting /\ y \notin WorkRecords /\ y.pc = "done"
  BY <1>1, Constants DEF Resting, Done
<1>4. one \in {0, 1} /\ ledgered \in Nat /\ unledgered \in Nat /\ ledgered' \in Nat /\ unledgered' \in Nat
      /\ blind \in Nat /\ blind' \in Nat
  BY <1>2 DEF IInv, Typed
<1> HIDE DEF y
<1>5. Typed' /\ History' /\ PassesSaw' /\ ThreadsKnow' /\ LandedWell' /\ Grows
  BY <1>2, <1>3, <1>4, LookOnly DEF IInv
<1>6. run'[r] = y /\ \A q \in Runs \ {r} : run'[q] = run[q]
  BY <1>2, <1>3, PutsIsTyped DEF IInv
<1>7. \A q \in Runs : run'[q].pc \notin LockPlaces
  BY <1>1, <1>3, <1>6 DEF IInv, OneMerges, LockPlaces
<1>8. OneMerges'
  BY <1>7 DEF OneMerges
<1>9. Counted'
  <2>1. Uncounted' = {} /\ Cardinality(Uncounted') = 0
    BY <1>7, FS_EmptySet DEF Uncounted, At, LockPlaces
  <2>2. Cardinality(Uncounted) = one
    BY <1>1, AtMostOneUncounted, FS_EmptySet, FS_Singleton DEF IInv
  <2>3. SelfMerges' = SelfMerges /\ Cardinality(SelfMerges) \in Nat
    BY <1>2, FS_Subset, FS_CardinalityType DEF SelfMerges, IInv, Typed
  <2>4. Cardinality(SelfMerges') <= ledgered' + unledgered' + Cardinality(Uncounted')
    BY <1>2, <1>4, <2>1, <2>2, <2>3 DEF IInv, Counted
  <2>5. ledgered' <= Budget + blind'
    BY <1>1, <1>2, <1>4, Constants DEF IInv, Counted
  <2> QED BY <1>7, <2>4, <2>5 DEF Counted
<1>10. TreeStays
  BY <1>2 DEF Looks, TreeStays, Tree, Reach
<1> QED BY <1>5, <1>8, <1>9, <1>10 DEF IInv

LEMMA CrashKeeps ==
    ASSUME MergeAssumption, IInv, Crash
    PROVE  IInv' /\ TreeStays
<1>1. /\ Looks /\ landed' = landed /\ lock' = FALSE /\ ledgered' = ledgered
      /\ run' = [r \in Runs |-> Idle]
      /\ unledgered' = unledgered + Cardinality(Uncounted) /\ blind' = blind
  BY DEF Crash, Looks, gatehouse, Uncounted
<1>2. Idle \in Resting /\ Idle \notin WorkRecords /\ Idle.pc = "idle"
  BY Constants DEF Resting, Idle
<1>3. Cardinality(Uncounted) \in {0, 1} /\ ledgered \in Nat /\ unledgered \in Nat /\ unledgered' \in Nat
  BY <1>1, AtMostOneUncounted DEF IInv, Typed
<1>4. Grows /\ History' /\ PassesSaw'
  BY <1>1, LooksGrows, LooksPasses DEF IInv
<1>5. Typed'
  BY <1>1, <1>2, <1>3 DEF IInv, Typed, Looks, Commit
<1>6. ThreadsKnow'
  BY <1>1, <1>2 DEF ThreadsKnow
<1>7. LandedWell'
  BY <1>1, <1>4, LandedWellStays DEF IInv
<1>8. \A q \in Runs : run'[q].pc \notin LockPlaces
  BY <1>1, <1>2 DEF LockPlaces
<1>9. OneMerges' /\ Counted'
  <2>1. Uncounted' = {} /\ Cardinality(Uncounted') = 0
    BY <1>8, FS_EmptySet DEF Uncounted, At, LockPlaces
  <2>2. SelfMerges' = SelfMerges /\ Cardinality(SelfMerges) \in Nat
    BY <1>1, FS_Subset, FS_CardinalityType DEF SelfMerges, IInv, Typed
  <2> QED BY <1>1, <1>3, <1>8, <2>1, <2>2 DEF IInv, Counted, OneMerges
<1>10. TreeStays
  BY <1>1 DEF Looks, TreeStays, Tree, Reach
<1> QED BY <1>4, <1>5, <1>6, <1>7, <1>9, <1>10 DEF IInv

(* The push makes main the gated tree and nothing else.                    *)
LandStep ==
    /\ Tree(main)' \in gatedTrees
    /\ Tree(main) \subseteq Tree(main)'
    /\ gatedTrees' = gatedTrees
    /\ \E m \in LandRecords : landed' = landed \cup {m} /\ m.tree = Tree(main)'

LEMMA PushMainKeeps ==
    ASSUME MergeAssumption, IInv, NEW r \in Runs, PushMain(r)
    PROVE  IInv' /\ (TreeStays \/ LandStep)
<1> DEFINE x == run[r]
           n == Len(commits) + 1
           reach == Reach(x.base) \cup Reach(x.tipSha)
           m == [tree |-> TreeOf(reach), new |-> TreeOf(reach) \ Tree(main),
                 tip |-> x.tipSha, self |-> x.self, pass |-> x.pass]
           y == [x EXCEPT !.pc = "ledger", !.pass = 0, !.base = 0, !.mainSha = 0, !.tipSha = 0]
<1>1. Works(r) /\ x \in WorkRecords /\ x.slug \in Slugs /\ Knows(x) /\ x.pc = "push" /\ x.pc # "ledger"
      /\ x.pc \in LockPlaces
  BY WorkerKnows DEF PushMain, At, Busy, LockPlaces
<1>2. CASE Refuse(r)
  <2>1. IInv' /\ Still
    BY <1>1, <1>2, RefuseKeeps
  <2> QED BY <2>1 DEF Still, TreeStays, Tree, Reach
<1>3. ASSUME main \in reach, NewCommit(reach, FALSE, 0, Len(passes)), main' = n,
             landed' = landed \cup {m}, run' = [run EXCEPT ![r] = y],
             UNCHANGED <<tip, passes, claims, lock, ledgered, asks, crashes, gatedTrees, greens, unledgered, blind>>
      PROVE  IInv' /\ LandStep
  <2>1. /\ x.tipSha \in Commit /\ x.base \in Reach(x.tipSha) /\ main \in Commit
        /\ n \in Nat /\ n \notin Commit /\ Len(passes) \in Nat /\ 0 \in 0..2 /\ n \in 1..n
        /\ \A t \in Slugs : tip[t] \in Commit
    BY <1>1, RefsAreCommits, DatesAreNat DEF Knows, TipKnown, BaseKnown, Commit
  <2>2. reach = Reach(x.tipSha) /\ reach \in SUBSET Commit /\ \A d \in reach : Reach(d) \subseteq reach
    BY <2>1, ReachIsClosed DEF IInv
  <2>3. Reach(main) \subseteq reach
    BY <1>3, <2>2
  <2>4. TreeOf(reach) = Tree(x.tipSha) /\ TreeOf(reach) \subseteq Commit /\ Tree(main) \subseteq TreeOf(reach)
    BY <2>2, <2>3 DEF TreeOf, Tree
  <2>5. /\ y \in WorkRecords /\ y.pc = "ledger" /\ y.self = x.self /\ y.pass = 0
    BY <1>1 DEF WorkRecords, Busy, LockPlaces
  <2>6. m \in LandRecords /\ m.tree = TreeOf(reach) /\ m.new = Tree(x.tipSha) \ Tree(main)
        /\ m.tip = x.tipSha /\ m.self = x.self /\ m.pass = x.pass
    <3>1. TreeOf(reach) \in SUBSET Nat /\ TreeOf(reach) \ Tree(main) \in SUBSET Nat
      <4>1. Commit \subseteq Nat
        BY DatesAreNat DEF Commit
      <4> QED BY <2>4, <4>1
    <3>2. x.tipSha \in Nat /\ x.self \in BOOLEAN /\ x.pass \in Nat
      BY <1>1 DEF WorkRecords
    <3> QED BY <2>4, <3>1, <3>2 DEF LandRecords
  <2> HIDE DEF y, m, reach
  <2>7. run' \in [Runs -> WorkRecords \cup Resting] /\ run'[r] = y /\ \A q \in Runs \ {r} : run'[q] = run[q]
    <3>1. Puts(r, y)
      BY <1>3 DEF Puts
    <3> QED BY <2>5, <3>1, PutsIsTyped DEF IInv
  <2>8. /\ commits' \in Seq(CommitRecords) /\ Len(commits') = n
        /\ \A c \in Commit : commits'[c] = commits[c]
        /\ commits'[n].reach = reach \cup {n} /\ commits'[n].change = FALSE
        /\ History' /\ late \subseteq late'
    BY <1>3, <2>1, <2>2, AddsCommit DEF IInv
  <2>9. Typed'
    <3>1. tip' \in [Slugs -> 1..n] /\ main' \in 1..n
      BY <1>3, <2>1 DEF IInv, Typed, Commit
    <3>2. landed' \in SUBSET LandRecords /\ IsFiniteSet(landed')
      BY <1>3, <2>6, FS_AddElement DEF IInv, Typed
    <3>3. UNCHANGED <<passes, ledgered, unledgered, blind>>
      BY <1>3
    <3> QED BY <2>7, <2>8, <3>1, <3>2, <3>3 DEF IInv, Typed, Commit
  <2>10. Grows
    <3>1. \A t \in Slugs : tip[t] \in Reach(tip[t])
      BY RefsAreCommits
    <3>2. UNCHANGED <<tip, passes, gatedTrees, greens>>
      BY <1>3
    <3> QED BY <1>3, <2>1, <2>8, <3>1, <3>2 DEF Grows, Reach
  <2>11. PassesSaw'
    <3>1. UNCHANGED <<tip, passes>> /\ main' = n
      BY <1>3
    <3>2. \A d \in Reach(main) : d \in commits'[n].reach
      BY <2>3, <2>8
    <3> QED BY <2>1, <2>8, <3>1, <3>2 DEF IInv, PassesSaw, Reach
  <2>12. ThreadsKnow'
    <3>1. ASSUME NEW z \in WorkRecords, z = y PROVE Knows(z)'
      <4>1. z.pc = "ledger" /\ z.pass = 0 /\ Len(passes') \in Nat
        BY <1>3, <2>1, <2>5, <3>1
      <4> QED BY <4>1 DEF Knows, MainKnown, TipKnown, GateKnown, BaseKnown, PassKnown, Pinned
    <3>2. {r} \in SUBSET Runs /\ \A q \in Runs \ {r} : run'[q] = run[q]
      BY <2>7
    <3>3. \A q \in {r} : \A z \in WorkRecords : run'[q] = z => Knows(z)'
      BY <2>7, <3>1
    <3> QED BY <2>8, <2>9, <2>10, <3>2, <3>3, ThreadsStay DEF IInv
  <2>13. LandedWell'
    <3>1. LandedFine(m)
      <4>1. Approved(x) /\ Reviewed(x) /\ x.pass \in 0..Len(passes) /\ (x.self => x.pass = 0)
        BY <1>1 DEF Knows, PassKnown
      <4>2. m.tree = Tree(x.tipSha) /\ m.new \subseteq Commit
        BY <2>4, <2>6
      <4>3. x.pass # 0 => x.pass \in 1..Len(passes)
        BY <2>1, <4>1
      <4> QED BY <2>6, <4>1, <4>2, <4>3 DEF LandedFine, Approved, Reviewed
    <3>2. ASSUME NEW k \in landed' PROVE LandedFine(k)'
      <4>1. CASE k \in landed
        BY <2>10, <4>1, LandedStays DEF IInv
      <4>2. CASE k = m
        <5>1. LandedFine(k)
          BY <3>1, <4>2
        <5>2. /\ UNCHANGED <<passes, greens>> /\ late \subseteq late'
              /\ \A c \in Commit : commits'[c] = commits[c] /\ c \in Commit'
          BY <1>3, <2>1, <2>8 DEF Commit
        <5> QED BY <5>1, <5>2 DEF LandedFine
      <4> QED BY <1>3, <4>1, <4>2
    <3> QED BY <3>2 DEF LandedWell
  <2>14. OneMerges'
    BY <1>1, <1>3, <2>5, <2>7 DEF IInv, OneMerges
  <2>15. Counted'
    <3>1. IsFiniteSet(SelfMerges) /\ Cardinality(SelfMerges) \in Nat
      BY FS_Subset, FS_CardinalityType DEF SelfMerges, IInv, Typed
    <3>2. Uncounted = {} /\ Cardinality(Uncounted) = 0
      BY <1>1, AtMostOneUncounted, FS_EmptySet DEF IInv
    <3>3. Uncounted' = IF x.self THEN {r} ELSE {}
      BY <2>5, <2>7, <2>14 DEF OneMerges, Uncounted, At, LockPlaces
    <3>4. Cardinality(SelfMerges') <= ledgered + unledgered + Cardinality(Uncounted')
      <4>1. CASE x.self
        <5>1. SelfMerges' = SelfMerges \cup {m}
          BY <1>3, <2>6, <4>1 DEF SelfMerges
        <5>2. Cardinality(SelfMerges') <= Cardinality(SelfMerges) + 1
          <6>1. Cardinality(SelfMerges \cup {m}) = IF m \in SelfMerges THEN Cardinality(SelfMerges)
                                                                       ELSE Cardinality(SelfMerges) + 1
            BY <3>1, FS_AddElement
          <6> QED BY <3>1, <5>1, <6>1
        <5>3. Cardinality(Uncounted') = 1
          BY <3>3, <4>1, FS_Singleton
        <5>4. Cardinality(SelfMerges') \in Nat
          BY <3>1, <5>1, FS_AddElement, FS_CardinalityType
        <5> QED BY <3>1, <3>2, <5>2, <5>3, <5>4 DEF IInv, Counted, Typed
      <4>2. CASE ~x.self
        <5>1. SelfMerges' = SelfMerges
          BY <1>3, <2>6, <4>2 DEF SelfMerges
        <5>2. Cardinality(Uncounted') = 0
          BY <3>3, <4>2, FS_EmptySet
        <5> QED BY <3>1, <3>2, <5>1, <5>2 DEF IInv, Counted, Typed
      <4> QED BY <4>1, <4>2
    <3>5. \A q \in Runs : run'[q].pc \in LockPlaces /\ run'[q].self => ledgered < Budget + blind
      BY <1>1, <2>5, <2>7 DEF IInv, Counted
    <3> QED BY <1>3, <3>4, <3>5 DEF IInv, Counted
  <2>16. LandStep
    <3>1. Tree(main)' = {d \in reach \cup {n} : commits'[d].change}
      BY <1>3, <2>8 DEF Tree, Reach
    <3>2. Tree(main)' = TreeOf(reach)
      BY <2>1, <2>2, <2>8, <3>1 DEF TreeOf
    <3>3. TreeOf(reach) \in gatedTrees
      BY <1>1, <2>4 DEF Knows, GateKnown
    <3> QED BY <1>3, <2>4, <2>6, <3>2, <3>3 DEF LandStep
  <2> QED BY <2>8, <2>9, <2>11, <2>12, <2>13, <2>14, <2>15, <2>16 DEF IInv
<1> QED BY <1>2, <1>3 DEF PushMain

-----------------------------------------------------------------------------
(* The beginning *)

(* Branches are finitely many, so each can be given a commit of its own.   *)
LEMMA TipsExist ==
    ASSUME MergeAssumption
    PROVE  \E f \in [Slugs -> 2..Cardinality(Slugs) + 1] : \A s, t \in Slugs : f[s] = f[t] => s = t
<1>1. Cardinality(Slugs) \in Nat /\ ExistsBijection(Slugs, 1..Cardinality(Slugs))
  BY Constants, FS_CardinalityType, Fun_ExistsBijSymmetric
<1>2. PICK g \in [Slugs -> 1..Cardinality(Slugs)] : \A s, t \in Slugs : g[s] = g[t] => s = t
  BY <1>1 DEF ExistsBijection, Bijection, Injection, IsInjective
<1> DEFINE f == [s \in Slugs |-> g[s] + 1]
<1>3. f \in [Slugs -> 2..Cardinality(Slugs) + 1]
  BY <1>1
<1>4. \A s, t \in Slugs : f[s] = f[t] => s = t
  <2> SUFFICES ASSUME NEW s \in Slugs, NEW t \in Slugs, f[s] = f[t] PROVE g[s] = g[t]
    BY <1>2
  <2>1. g[s] \in Nat /\ g[t] \in Nat /\ f[s] = g[s] + 1 /\ f[t] = g[t] + 1
    BY <1>1
  <2> QED BY <2>1
<1> QED BY <1>3, <1>4

LEMMA InitKeeps ==
    ASSUME MergeAssumption, Init
    PROVE  IInv
<1> DEFINE n == Cardinality(Slugs)
<1>1. n \in Nat
  BY Constants, FS_CardinalityType
<1>2. PICK tier \in [2..n + 1 -> Tiers] :
        commits = [c \in 1..n + 1 |->
                     IF c = 1 THEN [reach |-> {1}, change |-> FALSE, tier |-> 0, date |-> 0]
                     ELSE [reach |-> {1, c}, change |-> TRUE, tier |-> tier[c], date |-> 0]]
  BY DEF Init
<1> HIDE DEF n
<1>3. /\ commits \in Seq(CommitRecords) /\ Len(commits) = n + 1
      /\ commits[1].reach = {1} /\ \A c \in 2..n + 1 : commits[c].reach = {1, c}
  <2>1. \A c \in 2..n + 1 : tier[c] \in 0..2
    BY <1>2, Constants
  <2>2. ASSUME NEW c \in 1..n + 1 PROVE commits[c] \in CommitRecords
    <3>1. {1} \in SUBSET Nat /\ {1, c} \in SUBSET Nat
      BY <1>1
    <3> QED BY <1>1, <1>2, <2>1, <3>1 DEF CommitRecords
  <2>3. commits \in [1..n + 1 -> CommitRecords]
    BY <1>2, <2>2
  <2>4. commits \in Seq(CommitRecords) /\ Len(commits) = n + 1
    BY <1>1, <2>3
  <2> QED BY <1>1, <1>2, <2>4
<1>4. tip \in [Slugs -> 2..n + 1]
  BY TipsExist DEF Init, n
<1>5. /\ main = 1 /\ passes = <<>> /\ lock = FALSE /\ ledgered = 0 /\ unledgered = 0 /\ blind = 0 /\ landed = {}
      /\ run = [r \in Runs |-> Idle]
  BY DEF Init
<1>6. Idle \in Resting /\ Idle \notin WorkRecords /\ Idle.pc = "idle"
  BY Constants DEF Resting, Idle
<1>7. Typed
  <2>1. main \in Commit /\ tip \in [Slugs -> Commit]
    BY <1>1, <1>3, <1>4, <1>5 DEF Commit
  <2> QED BY <1>3, <1>5, <1>6, <2>1, FS_EmptySet DEF Typed
<1>8. History
  BY <1>1, <1>3 DEF History, Commit, Reach
<1>9. PassesSaw /\ ThreadsKnow /\ LandedWell
  BY <1>5, <1>6 DEF PassesSaw, ThreadsKnow, LandedWell
<1>10. \A r \in Runs : run[r].pc \notin LockPlaces
  BY <1>5, <1>6 DEF LockPlaces
<1>11. OneMerges /\ Counted
  <2>1. Uncounted = {} /\ SelfMerges = {}
    BY <1>5, <1>10 DEF Uncounted, SelfMerges, At, LockPlaces
  <2> QED BY <1>5, <1>10, <2>1, FS_EmptySet, Constants DEF OneMerges, Counted
<1> QED BY <1>7, <1>8, <1>9, <1>11 DEF IInv

-----------------------------------------------------------------------------
(* All steps *)

Moves == TreeStays \/ GateStep \/ LandStep \/ KeyboardStep

LEMMA AskKeeps ==
    ASSUME MergeAssumption, IInv, NEW r \in Runs, NEW s \in Slugs, AskMerge(r, s) \/ BuildEnds(r, s)
    PROVE  IInv' /\ Still
<1>1. TRUE \in BOOLEAN /\ FALSE \in BOOLEAN /\ 0 \in 0..Len(passes)
  BY DatesAreNat
<1>2. CASE AskMerge(r, s)
  <2>1. PICK p \in 0..Len(passes) : Claim(r, s, FALSE, p)
    BY <1>2 DEF AskMerge
  <2> QED BY <1>1, <2>1, ClaimKeeps
<1>3. CASE BuildEnds(r, s)
  <2>1. Claim(r, s, TRUE, 0)
    BY <1>3 DEF BuildEnds
  <2> QED BY <1>1, <2>1, ClaimKeeps
<1> QED BY <1>2, <1>3

LEMMA StepKeeps ==
    ASSUME MergeAssumption, IInv, NEW r \in Runs, Step(r)
    PROVE  IInv' /\ (Still \/ GateStep \/ TreeStays \/ LandStep)
<1>1. CASE ReadMain(r)  BY <1>1, ReadMainKeeps
<1>2. CASE Ancestor(r)  BY <1>2, AncestorKeeps
<1>3. CASE FoldClone(r)  BY <1>3, FoldCloneKeeps
<1>4. CASE FoldMerge(r)  BY <1>4, FoldMergeKeeps
<1>5. CASE FoldPush(r)  BY <1>5, FoldPushKeeps
<1>6. CASE ReadTip(r)  BY <1>6, ReadTipKeeps
<1>7. CASE Gate(r)  BY <1>7, GateKeeps
<1>8. CASE Classify(r)  BY <1>8, ClassifyKeeps
<1>9. CASE PassAgain(r)  BY <1>9, PassAgainKeeps
<1>10. CASE TakeLock(r)  BY <1>10, TakeLockKeeps
<1>11. CASE CloneMain(r)  BY <1>11, CloneMainKeeps
<1>12. CASE FetchAndMerge(r)  BY <1>12, FetchAndMergeKeeps
<1>13. CASE AssertMainUnmoved(r)  BY <1>13, AssertMainUnmovedKeeps
<1>14. CASE AssertTipUnmoved(r)  BY <1>14, AssertTipUnmovedKeeps
<1>15. CASE PushMain(r)  BY <1>15, PushMainKeeps
<1>16. CASE WriteLedger(r)  BY <1>16, WriteLedgerKeeps
<1>17. CASE Finish(r)  BY <1>17, FinishKeeps
<1> QED BY <1>1, <1>2, <1>3, <1>4, <1>5, <1>6, <1>7, <1>8, <1>9, <1>10, <1>11, <1>12, <1>13, <1>14, <1>15,
           <1>16, <1>17 DEF Step

LEMMA NextKeeps ==
    ASSUME MergeAssumption, IInv, [Next]_vars
    PROVE  IInv' /\ Moves
<1>1. Still => TreeStays
  BY DEF Still, TreeStays, Tree, Reach
<1>2. CASE UNCHANGED vars
  <2>1. UNCHANGED <<commits, main, tip, passes, lock, ledgered, run, gatedTrees, greens, landed, unledgered, blind, late>>
    BY <1>2 DEF vars, gatehouse, history
  <2>2. Typed' /\ Looks
    BY <2>1 DEF IInv, Typed, Commit, Looks
  <2>3. IInv'
    BY <2>1, <2>2, LooksGrows, LooksPasses, NobodyMoves DEF IInv
  <2>4. TreeStays
    BY <2>1 DEF TreeStays, Tree, Reach
  <2> QED BY <2>3, <2>4 DEF Moves
<1>3. ASSUME NEW s \in Slugs, PushBranch(s) \/ PostPass(s) PROVE IInv' /\ Moves
  BY <1>3, PushBranchKeeps, PostPassKeeps DEF Moves
<1>4. CASE KeyboardPush
  BY <1>4, KeyboardPushKeeps DEF Moves
<1>5. ASSUME NEW r \in Runs, NEW s \in Slugs, AskMerge(r, s) \/ BuildEnds(r, s) PROVE IInv' /\ Moves
  BY <1>1, <1>5, AskKeeps DEF Moves
<1>6. ASSUME NEW r \in Runs, Step(r) PROVE IInv' /\ Moves
  BY <1>1, <1>6, StepKeeps DEF Moves
<1>7. CASE Crash
  BY <1>7, CrashKeeps DEF Moves
<1> QED BY <1>2, <1>3, <1>4, <1>5, <1>6, <1>7 DEF Next

(* The invariant of the merge pipeline, for any number of branches,        *)
(* threads, pushes and restarts of the broker.                             *)
THEOREM PipelineInvariance == Spec => []IInv
<1>1. MergeAssumption
  BY MergeAssumption
<1>2. Init => IInv
  BY <1>1, InitKeeps
<1>3. IInv /\ [Next]_vars => IInv'
  BY <1>1, NextKeeps
<1> QED BY <1>2, <1>3, PTL DEF Spec

LEMMA TierOfMeans ==
    ASSUME IInv, NEW m \in landed, NEW k \in 0..1, \A c \in m.new : commits[c].tier <= k
    PROVE  TierOf(m.new) <= k
<1>1. m.new \in SUBSET Commit
  BY DEF IInv, LandedWell, LandedFine
<1>2. CASE m.new = {}
  BY <1>2 DEF TierOf
<1>3. CASE m.new # {}
  <2>1. \E t \in {commits[c].tier : c \in m.new} : \A c \in m.new : commits[c].tier <= t
    BY <1>1, <1>3, TierIsOfOne DEF IInv
  <2>2. TierOf(m.new) \in {commits[c].tier : c \in m.new}
    BY <1>3, <2>1 DEF TierOf
  <2> QED BY <2>2
<1> QED BY <1>2, <1>3

(* A merge no person asked for lands a green tree, and nothing it brings   *)
(* is above Tier 0, whatever is pushed while it runs.                      *)
THEOREM UnaskedMergesAreHarmless == Spec => []SelfMergesAreGreenTierZero
<1>1. ASSUME IInv PROVE SelfMergesAreGreenTierZero
  <2> SUFFICES ASSUME NEW m \in landed, m.self PROVE m.tree \in greens /\ TierOf(m.new) = 0
    BY DEF SelfMergesAreGreenTierZero
  <2>1. LandedFine(m) /\ m.new \in SUBSET Commit
    BY <1>1 DEF IInv, LandedWell, LandedFine
  <2>2. m.tree \in greens /\ \A c \in m.new : commits[c].tier <= 0
    BY <2>1 DEF LandedFine
  <2>3. TierOf(m.new) <= 0 /\ TierOf(m.new) \in 0..2
    BY <1>1, <2>1, <2>2, TierOfMeans, TierBounds DEF IInv
  <2> QED BY <2>2, <2>3
<1> QED BY <1>1, PipelineInvariance, PTL

(* A merge without a PASS landed a green tree below Tier 2, and one with   *)
(* it landed what the reviewer saw, or a tip dated before the PASS.        *)
THEOREM MergesAreReviewedOrHarmless == Spec => []ReviewedOrHarmless
<1>1. ASSUME IInv PROVE ReviewedOrHarmless
  <2> SUFFICES ASSUME NEW m \in landed
               PROVE  IF m.pass = 0 THEN m.tree \in greens /\ TierOf(m.new) < 2
                      ELSE passes[m.pass].saw = m.tip \/ m.tip \in late
    BY DEF ReviewedOrHarmless
  <2>1. LandedFine(m) /\ m.new \in SUBSET Commit
    BY <1>1 DEF IInv, LandedWell, LandedFine
  <2>2. CASE m.pass = 0
    <3>1. m.tree \in greens /\ \A c \in m.new : commits[c].tier <= 1
      <4>1. \A c \in m.new : commits[c].tier \in 0..2 /\ commits[c].tier < 2
        BY <1>1, <2>1, <2>2, DatesAreNat DEF LandedFine
      <4> QED BY <2>1, <2>2, <4>1 DEF LandedFine
    <3>2. TierOf(m.new) <= 1 /\ TierOf(m.new) \in 0..2
      BY <1>1, <2>1, <3>1, TierOfMeans, TierBounds DEF IInv
    <3> QED BY <2>2, <3>1, <3>2
  <2>3. CASE m.pass # 0
    BY <2>1, <2>3 DEF LandedFine
  <2> QED BY <2>2, <2>3
<1> QED BY <1>1, PipelineInvariance, PTL

(* However merges overlap and the broker restarts, self-merges are within  *)
(* the budget but for those whose line was lost and those a full ledger    *)
(* nobody could read let through.                                          *)
THEOREM DayHasItsBudget == Spec => []BudgetHolds
<1>1. ASSUME IInv PROVE BudgetHolds
  <2>1. ledgered \in Nat /\ unledgered \in Nat /\ blind \in Nat /\ Budget \in Nat /\ ledgered <= Budget + blind
        /\ Cardinality(SelfMerges) \in Nat
    BY <1>1, MergeAssumption, Constants, FS_Subset, FS_CardinalityType DEF IInv, Typed, Counted, SelfMerges
  <2>2. Cardinality(SelfMerges) <= ledgered + unledgered + Cardinality(Uncounted)
    BY <1>1 DEF IInv, Counted
  <2>3. CASE Uncounted = {}
    BY <2>1, <2>2, <2>3, FS_EmptySet DEF BudgetHolds, SelfMerges
  <2>4. CASE Uncounted # {}
    <3>1. PICK r \in Runs : run[r].pc = "ledger" /\ run[r].self
      BY <2>4 DEF Uncounted, At
    <3>2. ledgered < Budget + blind
      BY <1>1, <3>1 DEF IInv, Counted, LockPlaces
    <3>3. Cardinality(Uncounted) \in {0, 1}
      BY <1>1, AtMostOneUncounted DEF IInv
    <3> QED BY <2>1, <2>2, <3>2, <3>3 DEF BudgetHolds, SelfMerges
  <2> QED BY <2>3, <2>4
<1> QED BY <1>1, PipelineInvariance, PTL

-----------------------------------------------------------------------------
(* The pipeline keeps its promise                                          *)

LEMMA BeginsAsPromised ==
    ASSUME MergeAssumption, Init
    PROVE  Promise!Init
<1>1. Len(commits) = Cardinality(Slugs) + 1 /\ commits[1].reach = {1} /\ commits[1].change = FALSE
  <2>1. Cardinality(Slugs) \in Nat
    BY Constants, FS_CardinalityType
  <2> QED BY <2>1 DEF Init
<1>2. Tree(main) = {}
  BY <1>1 DEF Init, Tree, Reach
<1> QED BY <1>2 DEF Init, Promise!Init

LEMMA MovesAsPromised ==
    ASSUME Moves
    PROVE  [Promise!Next]_(Promise!vars)
<1> DEFINE landings == {m.tree : m \in landed}
<1>1. CASE TreeStays
  BY <1>1 DEF TreeStays, Promise!vars
<1>2. CASE GateStep
  <2>1. landings' = landings
    BY <1>2 DEF GateStep
  <2>2. Promise!Gate
    BY <1>2, <2>1 DEF GateStep, Promise!Gate
  <2> QED BY <2>2 DEF Promise!Next
<1>3. CASE LandStep
  <2>1. landings' = landings \cup {Tree(main)'}
    BY <1>3 DEF LandStep
  <2>2. Promise!Land
    BY <1>3, <2>1 DEF LandStep, Promise!Land
  <2> QED BY <2>2 DEF Promise!Next
<1>4. CASE KeyboardStep
  <2>1. landings' = landings
    BY <1>4 DEF KeyboardStep
  <2>2. \E change \in Tree(main)' \ Tree(main) : Tree(main)' = Tree(main) \cup {change}
    BY <1>4 DEF KeyboardStep
  <2>3. gatedTrees' = gatedTrees
    BY <1>4 DEF KeyboardStep
  <2> HIDE DEF landings
  <2>4. <<gatedTrees, landings>>' = <<gatedTrees, landings>>
    BY <2>1, <2>3
  <2> USE DEF landings
  <2>5. Promise!Keyboard
    BY <2>2, <2>4 DEF Promise!Keyboard
  <2> QED BY <2>5 DEF Promise!Next
<1> QED BY <1>1, <1>2, <1>3, <1>4 DEF Moves

(* Main only grows, and what the broker lands was gated as it lands.       *)
THEOREM WhatLandsWasGated == Spec => GatedAsItLands
<1>1. MergeAssumption
  BY MergeAssumption
<1>2. Init => Promise!Init
  BY <1>1, BeginsAsPromised
<1>3. IInv /\ [Next]_vars => [Promise!Next]_(Promise!vars)
  BY <1>1, NextKeeps, MovesAsPromised
<1> QED BY <1>2, <1>3, PipelineInvariance, PTL DEF Spec, GatedAsItLands, Promise!Spec

-----------------------------------------------------------------------------
(* Claims, the lock, and what TypeOK says of them                          *)

(* A slug is claimed by one thread that works on it, the lock is some      *)
(* thread's, and a PASS saw a commit.                                      *)
ClaimInv ==
    /\ \A r \in Runs : ~At(r, "idle") => run[r].slug \in claims
    /\ \A s \in claims : \E r \in Runs : ~At(r, "idle") /\ run[r].slug = s
    /\ \A r, q \in Runs : ~At(r, "idle") /\ ~At(q, "idle") /\ run[r].slug = run[q].slug => r = q
    /\ lock => \E r \in Runs : InLock(r)
    /\ \A p \in 1..Len(passes) : passes[p].saw \in Commit

(* What a thread does between its claim and its last post.                 *)
GoesOn(r) ==
    /\ claims' = claims /\ passes' = passes /\ Len(commits) <= Len(commits')
    /\ \A q \in Runs \ {r} : run'[q] = run[q]
    /\ ~At(r, "idle") /\ ~At(r, "idle")' /\ run'[r].slug = run[r].slug
    /\ lock' => InLock(r)' \/ (lock /\ ~InLock(r))

(* A working thread that puts a record with its slug in its place goes on. *)
LEMMA PutGoesOn ==
    ASSUME MergeAssumption, IInv, NEW r \in Runs, Works(r), NEW y, Puts(r, y), y.pc # "idle", y.slug = run[r].slug, UNCHANGED <<claims, passes>>, Len(commits) <= Len(commits'),
           lock' => y.pc \in LockPlaces \/ (lock /\ ~InLock(r))
    PROVE  GoesOn(r)
<1>1. run'[r] = y /\ \A q \in Runs \ {r} : run'[q] = run[q]
  BY DEF IInv, Typed, Puts
<1>2. ~At(r, "idle")
  BY DEF Works, At, Busy, Pinned, LockPlaces
<1> QED BY <1>1, <1>2 DEF GoesOn, At, InLock, LockPlaces

LEMMA RefuseGoesOn ==
    ASSUME MergeAssumption, IInv, NEW r \in Runs, Works(r), Refuse(r)
    PROVE  GoesOn(r)
<1>1. Len(commits) \in Nat
  BY DEF IInv, Typed
<1>2. Puts(r, Done(run[r].slug)) /\ UNCHANGED <<claims, passes, commits>>
  BY DEF Refuse, Puts, gatehouse
<1>3. lock' => lock /\ ~InLock(r)
  BY DEF Refuse
<1>4. Done(run[r].slug).pc # "idle" /\ Done(run[r].slug).slug = run[r].slug
  BY DEF Done
<1> HIDE DEF Done
<1> QED BY <1>1, <1>2, <1>3, <1>4, PutGoesOn

LEMMA KnowGoesOn ==
    ASSUME MergeAssumption, IInv, NEW r \in Runs, Works(r), NEW y, Know(r, y), y.slug = run[r].slug, y.pc # "idle",
           y.pc \in LockPlaces \/ run[r].pc \notin LockPlaces
    PROVE  GoesOn(r)
<1>1. Len(commits) \in Nat
  BY DEF IInv, Typed
<1>2. Puts(r, y) /\ UNCHANGED <<claims, passes, commits, lock>>
  BY DEF Know, Puts, gatehouse
<1>3. lock' => y.pc \in LockPlaces \/ (lock /\ ~InLock(r))
  BY <1>2 DEF InLock, LockPlaces
<1> QED BY <1>1, <1>2, <1>3, PutGoesOn

(* And a thread that goes on leaves claims and lock as they should be.     *)
LEMMA ClaimStays ==
    ASSUME IInv, ClaimInv, NEW r \in Runs, GoesOn(r)
    PROVE  ClaimInv'
<1>1. Commit \subseteq Commit'
  BY DEF GoesOn, Commit, IInv, Typed
<1>2. \A q \in Runs : (~At(q, "idle") <=> ~At(q, "idle")') /\ (~At(q, "idle") => run'[q].slug = run[q].slug)
  BY DEF GoesOn, At
<1>3. lock' => \E q \in Runs : InLock(q)'
  <2>1. CASE InLock(r)'
    BY <2>1
  <2>2. CASE lock /\ ~InLock(r)
    <3>1. PICK q \in Runs : InLock(q)
      BY <2>2 DEF ClaimInv
    <3> QED BY <2>2, <3>1 DEF GoesOn, InLock
  <2> QED BY <2>1, <2>2 DEF GoesOn
<1> QED BY <1>1, <1>2, <1>3 DEF ClaimInv, GoesOn

(* So does every step of it but the last.                                  *)
LEMMA StepGoesOn ==
    ASSUME MergeAssumption, IInv, NEW r \in Runs, Step(r), ~Finish(r)
    PROVE  GoesOn(r)
<1>1. Len(commits) \in Nat
  BY DEF IInv, Typed
<1>2. ASSUME run[r].pc \in Busy PROVE Works(r) /\ run[r] \in WorkRecords /\ run[r].pc # "idle"
  BY <1>2, WorkerKnows, Constants
<1>3. CASE ReadMain(r) \/ Ancestor(r) \/ FoldClone(r) \/ FoldMerge(r)
  <2>1. Works(r) /\ run[r] \in WorkRecords /\ run[r].pc \notin LockPlaces
    BY <1>2, <1>3 DEF ReadMain, Ancestor, FoldClone, FoldMerge, At, Busy, LockPlaces
  <2> QED BY <1>3, <2>1, KnowGoesOn, RefuseGoesOn DEF ReadMain, Ancestor, FoldClone, FoldMerge, WorkRecords
<1>4. CASE ReadTip(r) \/ PassAgain(r)
  <2>1. Works(r) /\ run[r] \in WorkRecords /\ run[r].pc \notin LockPlaces
    BY <1>2, <1>4 DEF ReadTip, PassAgain, At, Busy, Pinned, LockPlaces
  <2> QED BY <1>4, <2>1, KnowGoesOn, RefuseGoesOn DEF ReadTip, PassAgain, WorkRecords
<1>5. CASE Classify(r)
  <2>1. Works(r) /\ run[r] \in WorkRecords /\ run[r].pc \notin LockPlaces
    BY <1>2, <1>5 DEF Classify, At, Busy, Pinned, LockPlaces
  <2> DEFINE tier == IF run[r].green THEN TierOf(Tree(tip[run[r].slug]) \ Tree(main)) ELSE 2
             y == [run[r] EXCEPT !.green = FALSE, !.pass = IF tier = 2 THEN @ ELSE 0,
                                 !.pc = IF tier = 2 THEN "pass" ELSE "lock"]
  <2>2. Refuse(r) \/ Know(r, y)
    BY <1>5 DEF Classify
  <2> HIDE DEF tier
  <2>3. y.slug = run[r].slug /\ y.pc # "idle"
    BY <2>1 DEF WorkRecords
  <2> HIDE DEF y
  <2> QED BY <2>1, <2>2, <2>3, KnowGoesOn, RefuseGoesOn
<1>6. CASE CloneMain(r) \/ FetchAndMerge(r) \/ AssertMainUnmoved(r) \/ AssertTipUnmoved(r)
  <2>1. Works(r) /\ run[r] \in WorkRecords
    BY <1>2, <1>6 DEF CloneMain, FetchAndMerge, AssertMainUnmoved, AssertTipUnmoved, At, Busy, LockPlaces
  <2> QED BY <1>6, <2>1, KnowGoesOn, RefuseGoesOn
         DEF CloneMain, FetchAndMerge, AssertMainUnmoved, AssertTipUnmoved, WorkRecords, LockPlaces
<1>7. CASE FoldPush(r) /\ ~Refuse(r)
  <2>1. Works(r) /\ run[r] \in WorkRecords /\ run[r].pc \notin LockPlaces
    BY <1>2, <1>7 DEF FoldPush, At, Busy, LockPlaces
  <2>2. Len(commits) <= Len(commits')
    BY <1>1, <1>7 DEF FoldPush, NewCommit, IInv, Typed
  <2>3. /\ Puts(r, [run[r] EXCEPT !.pc = "main", !.base = 0, !.other = 0, !.date = 0])
        /\ UNCHANGED <<claims, passes, lock>>
    BY <1>7 DEF FoldPush, Puts, IInv, Typed
  <2> QED BY <2>1, <2>2, <2>3, PutGoesOn DEF WorkRecords, InLock, LockPlaces
<1>8. CASE Gate(r) /\ ~Refuse(r)
  <2>1. Works(r) /\ run[r] \in WorkRecords /\ run[r].pc \notin LockPlaces
    BY <1>2, <1>8 DEF Gate, At, Busy, Pinned, LockPlaces
  <2>2. PICK green \in BOOLEAN : /\ run' = [run EXCEPT ![r].pc = "classify", ![r].green = green]
                                /\ UNCHANGED <<claims, passes, lock, commits>>
    BY <1>8 DEF Gate, gatehouse
  <2> DEFINE y == [run[r] EXCEPT !.pc = "classify", !.green = green]
  <2>3. Puts(r, y) /\ y.slug = run[r].slug /\ y.pc # "idle"
    BY <2>1, <2>2 DEF Puts, IInv, Typed, WorkRecords
  <2>4. ~InLock(r)
    BY <2>1 DEF InLock, LockPlaces
  <2> HIDE DEF y
  <2> QED BY <1>1, <2>1, <2>2, <2>3, <2>4, PutGoesOn
<1>9. CASE TakeLock(r) /\ ~Refuse(r)
  <2>1. Works(r) /\ run[r] \in WorkRecords
    BY <1>2, <1>9 DEF TakeLock, At, Busy, Pinned
  <2>2. Puts(r, [run[r] EXCEPT !.pc = "clone"]) /\ UNCHANGED <<claims, passes, commits>>
    BY <1>9 DEF TakeLock, Goto, Puts, IInv, Typed, gatehouse
  <2> QED BY <1>1, <2>1, <2>2, PutGoesOn DEF WorkRecords, LockPlaces
<1>10. CASE PushMain(r) /\ ~Refuse(r)
  <2>1. Works(r) /\ run[r] \in WorkRecords
    BY <1>2, <1>10 DEF PushMain, At, Busy, LockPlaces
  <2>2. Len(commits) <= Len(commits')
    BY <1>1, <1>10 DEF PushMain, NewCommit, IInv, Typed
  <2>3. /\ Puts(r, [run[r] EXCEPT !.pc = "ledger", !.pass = 0, !.base = 0, !.mainSha = 0, !.tipSha = 0])
        /\ UNCHANGED <<claims, passes, lock>>
    BY <1>10 DEF PushMain, Puts, IInv, Typed
  <2> QED BY <2>1, <2>2, <2>3, PutGoesOn DEF WorkRecords, LockPlaces
<1>11. CASE WriteLedger(r)
  <2>1. Works(r)
    BY <1>2, <1>11 DEF WriteLedger, At, Busy, LockPlaces
  <2>2. Puts(r, Done(run[r].slug)) /\ UNCHANGED <<claims, passes, commits>> /\ lock' = FALSE
    BY <1>11 DEF WriteLedger, Puts, gatehouse
  <2>3. Done(run[r].slug).pc # "idle" /\ Done(run[r].slug).slug = run[r].slug
    BY DEF Done
  <2> HIDE DEF Done
  <2> QED BY <1>1, <2>1, <2>2, <2>3, PutGoesOn
<1>12. CASE Refuse(r) /\ run[r].pc \in Busy
  BY <1>2, <1>12, RefuseGoesOn
<1>13. FoldPush(r) \/ Gate(r) \/ TakeLock(r) \/ PushMain(r) => run[r].pc \in Busy
  BY DEF FoldPush, Gate, TakeLock, PushMain, At, Busy, Pinned, LockPlaces
<1> QED BY <1>3, <1>4, <1>5, <1>6, <1>7, <1>8, <1>9, <1>10, <1>11, <1>12, <1>13 DEF Step

(* A thread that claims a slug finds it with nobody, one that ends gives   *)
(* up its own.                                                             *)
LEMMA ClaimEnters ==
    ASSUME IInv, ClaimInv, NEW r \in Runs, NEW s \in Slugs, NEW self, NEW p, Claim(r, s, self, p)
    PROVE  ClaimInv'
<1>1. At(r, "idle") /\ ~At(r, "idle")' /\ run'[r].slug = s /\ s \notin claims /\ claims' = claims \cup {s}
  BY DEF Claim, At, IInv, Typed
<1>2. \A q \in Runs \ {r} : run'[q] = run[q]
  BY DEF Claim, IInv, Typed
<1>3. UNCHANGED <<lock, passes, commits>>
  BY DEF Claim, gatehouse
<1>4. ~InLock(r)
  BY <1>1 DEF InLock, At
<1>5. \A q \in Runs \ {r} : (~At(q, "idle"))' <=> ~At(q, "idle")
  BY <1>2 DEF At
<1>6. lock' => \E q \in Runs : InLock(q)'
  BY <1>2, <1>3, <1>4 DEF ClaimInv, InLock
<1>7. (\A q \in Runs : ~At(q, "idle") => run[q].slug \in claims)'
  BY <1>1, <1>2, <1>5 DEF ClaimInv
<1>8. (\A t \in claims : \E q \in Runs : ~At(q, "idle") /\ run[q].slug = t)'
  <2> SUFFICES ASSUME NEW t \in claims' PROVE \E q \in Runs : ~At(q, "idle")' /\ run'[q].slug = t
    OBVIOUS
  <2>1. CASE t \in claims
    <3>1. PICK q \in Runs : ~At(q, "idle") /\ run[q].slug = t
      BY <2>1 DEF ClaimInv
    <3> QED BY <1>1, <1>2, <1>5, <3>1
  <2>2. CASE t = s
    BY <1>1, <2>2
  <2> QED BY <1>1, <2>1, <2>2
<1>9. (\A q, u \in Runs : ~At(q, "idle") /\ ~At(u, "idle") /\ run[q].slug = run[u].slug => q = u)'
  <2> SUFFICES ASSUME NEW q \in Runs, NEW u \in Runs, ~At(q, "idle")', ~At(u, "idle")', run'[q].slug = run'[u].slug
               PROVE  q = u
    OBVIOUS
  <2>1. CASE q # r /\ u # r
    BY <1>2, <1>5, <2>1 DEF ClaimInv
  <2>2. ASSUME NEW v \in Runs \ {r}, ~At(v, "idle")' PROVE run'[v].slug # s
    BY <1>1, <1>2, <1>5, <2>2 DEF ClaimInv
  <2> QED BY <1>1, <2>1, <2>2
<1>10. (\A q \in 1..Len(passes) : passes[q].saw \in Commit)'
  BY <1>3 DEF ClaimInv, Commit
<1> QED BY <1>6, <1>7, <1>8, <1>9, <1>10 DEF ClaimInv

LEMMA ClaimLeaves ==
    ASSUME IInv, ClaimInv, NEW r \in Runs, Finish(r)
    PROVE  ClaimInv'
<1>1. At(r, "done") /\ At(r, "idle")' /\ claims' = claims \ {run[r].slug}
  BY DEF Finish, At, Idle, IInv, Typed
<1>2. \A q \in Runs \ {r} : run'[q] = run[q]
  BY DEF Finish, IInv, Typed
<1>3. UNCHANGED <<lock, passes, commits>>
  BY DEF Finish, gatehouse
<1>4. ~InLock(r) /\ ~At(r, "idle")
  BY <1>1 DEF InLock, At
<1>5. \A q \in Runs \ {r} : (~At(q, "idle"))' <=> ~At(q, "idle")
  BY <1>2 DEF At
<1>6. lock' => \E q \in Runs : InLock(q)'
  BY <1>2, <1>3, <1>4 DEF ClaimInv, InLock
<1>7. (\A q \in Runs : ~At(q, "idle") => run[q].slug \in claims)'
  <2> SUFFICES ASSUME NEW q \in Runs, ~At(q, "idle")' PROVE run'[q].slug \in claims'
    OBVIOUS
  <2>1. q # r /\ ~At(q, "idle") /\ run'[q] = run[q]
    BY <1>1, <1>2, <1>5
  <2>2. run[q].slug \in claims /\ run[q].slug # run[r].slug
    BY <1>4, <2>1 DEF ClaimInv
  <2> QED BY <1>1, <2>1, <2>2
<1>8. (\A t \in claims : \E q \in Runs : ~At(q, "idle") /\ run[q].slug = t)'
  <2> SUFFICES ASSUME NEW t \in claims' PROVE \E q \in Runs : ~At(q, "idle")' /\ run'[q].slug = t
    OBVIOUS
  <2>1. PICK q \in Runs : ~At(q, "idle") /\ run[q].slug = t
    BY <1>1 DEF ClaimInv
  <2>2. q # r
    BY <1>1, <2>1
  <2> QED BY <1>2, <1>5, <2>1, <2>2
<1>9. (\A q, u \in Runs : ~At(q, "idle") /\ ~At(u, "idle") /\ run[q].slug = run[u].slug => q = u)'
  BY <1>1, <1>2, <1>5 DEF ClaimInv
<1>10. (\A q \in 1..Len(passes) : passes[q].saw \in Commit)'
  BY <1>3 DEF ClaimInv, Commit
<1> QED BY <1>6, <1>7, <1>8, <1>9, <1>10 DEF ClaimInv

LEMMA ClaimNext ==
    ASSUME IInv, ClaimInv, [Next]_vars
    PROVE  ClaimInv'
<1>0. MergeAssumption /\ IInv'
  BY MergeAssumption, NextKeeps
<1>1. ASSUME UNCHANGED <<run, claims, lock>>, Len(commits) <= Len(commits'),
             \A p \in 1..Len(passes') : passes'[p].saw \in Commit'
      PROVE  ClaimInv'
  BY <1>1 DEF ClaimInv, At, InLock
<1>2. CASE UNCHANGED vars
  BY <1>2 DEF vars, gatehouse, ClaimInv, At, InLock, Commit
<1>3. Len(commits) \in Nat /\ Len(passes) \in Nat
  BY DEF IInv, Typed
<1>4. ASSUME NEW s \in Slugs, PushBranch(s) PROVE ClaimInv'
  <2>1. UNCHANGED <<run, claims, lock, passes>> /\ Len(commits') = Len(commits) + 1
    BY <1>4 DEF PushBranch, NewCommit, IInv, Typed
  <2> QED BY <1>1, <1>3, <2>1 DEF ClaimInv, Commit
<1>5. CASE KeyboardPush
  <2>1. UNCHANGED <<run, claims, lock, passes>> /\ Len(commits') = Len(commits) + 1
    BY <1>5 DEF KeyboardPush, NewCommit, IInv, Typed
  <2> QED BY <1>1, <1>3, <2>1 DEF ClaimInv, Commit
<1>6. ASSUME NEW s \in Slugs, PostPass(s) PROVE ClaimInv'
  <2>1. UNCHANGED <<run, claims, lock, commits>> /\ passes' = Append(passes, [slug |-> s, saw |-> tip[s]])
    BY <1>6 DEF PostPass, gatehouse
  <2>2. Len(passes') = Len(passes) + 1 /\ \A p \in 1..Len(passes) : passes'[p] = passes[p]
    BY <2>1 DEF IInv, Typed
  <2>3. passes'[Len(passes) + 1].saw = tip[s] /\ tip[s] \in Commit
    BY <2>1 DEF IInv, Typed
  <2> QED BY <1>1, <1>3, <2>1, <2>2, <2>3 DEF ClaimInv, Commit
<1>7. ASSUME NEW r \in Runs, NEW s \in Slugs, AskMerge(r, s) \/ BuildEnds(r, s) PROVE ClaimInv'
  BY <1>7, ClaimEnters DEF AskMerge, BuildEnds
<1>8. ASSUME NEW r \in Runs, Step(r) PROVE ClaimInv'
  BY <1>0, <1>8, StepGoesOn, ClaimStays, ClaimLeaves
<1>9. CASE Crash
  <2>1. claims' = {} /\ lock' = FALSE /\ UNCHANGED <<commits, passes>> /\ \A r \in Runs : At(r, "idle")'
    BY <1>9 DEF Crash, At, Idle, gatehouse
  <2> QED BY <2>1 DEF ClaimInv, Commit
<1> QED BY <1>2, <1>4, <1>5, <1>6, <1>7, <1>8, <1>9 DEF Next

LEMMA ClaimBegins ==
    ASSUME Init
    PROVE  ClaimInv
BY DEF Init, ClaimInv, At, Idle

LEMMA LockIsHeldOrNot ==
    ASSUME lock \in BOOLEAN, [Next]_vars
    PROVE  lock' \in BOOLEAN
<1>1. CASE UNCHANGED vars
  BY <1>1 DEF vars
<1>2. CASE \E s \in Slugs : PushBranch(s) \/ PostPass(s)
  BY <1>2 DEF PushBranch, PostPass
<1>3. CASE KeyboardPush \/ Crash
  BY <1>3 DEF KeyboardPush, Crash
<1>4. CASE \E r \in Runs, s \in Slugs : AskMerge(r, s) \/ BuildEnds(r, s)
  BY <1>4 DEF AskMerge, BuildEnds, Claim
<1>5. ASSUME NEW r \in Runs, Step(r) PROVE lock' \in BOOLEAN
  <2>1. CASE Refuse(r)
    BY <2>1 DEF Refuse
  <2>2. ASSUME NEW y, Know(r, y) PROVE lock' \in BOOLEAN
    BY <2>2 DEF Know
  <2>3. CASE ReadMain(r) \/ Ancestor(r) \/ FoldClone(r) \/ FoldMerge(r) \/ ReadTip(r)
    BY <2>1, <2>2, <2>3 DEF ReadMain, Ancestor, FoldClone, FoldMerge, ReadTip
  <2>4. CASE Classify(r)
    BY <2>1, <2>2, <2>4 DEF Classify
  <2>5. CASE PassAgain(r) \/ CloneMain(r) \/ FetchAndMerge(r) \/ AssertMainUnmoved(r) \/ AssertTipUnmoved(r)
    BY <2>1, <2>2, <2>5 DEF PassAgain, CloneMain, FetchAndMerge, AssertMainUnmoved, AssertTipUnmoved
  <2>6. CASE FoldPush(r) \/ Gate(r) \/ TakeLock(r) \/ PushMain(r)
    BY <2>1, <2>6 DEF FoldPush, Gate, TakeLock, PushMain
  <2>7. CASE WriteLedger(r) \/ Finish(r)
    BY <2>7 DEF WriteLedger, Finish
  <2> QED BY <1>5, <2>3, <2>4, <2>5, <2>6, <2>7 DEF Step
<1> QED BY <1>1, <1>2, <1>3, <1>4, <1>5 DEF Next

(* Claims and working threads are one to one, so there are as many.        *)
LEMMA TypesFollow ==
    ASSUME IInv, ClaimInv, lock \in BOOLEAN
    PROVE  TypeOK
<1> DEFINE working == {r \in Runs : ~At(r, "idle")}
           f == [r \in working |-> run[r].slug]
<1>1. MergeAssumption
  BY MergeAssumption
<1>2. claims = {run[r].slug : r \in working}
  BY DEF ClaimInv
<1>3. \A r \in working : run[r].slug \in Slugs
  <2> SUFFICES ASSUME NEW r \in working PROVE run[r].slug \in Slugs
    OBVIOUS
  <2>1. run[r] \in WorkRecords \cup Resting /\ run[r] # Idle
    BY DEF IInv, Typed, At, Idle
  <2> QED BY <2>1 DEF WorkRecords, Resting, Done
<1>4. f \in Bijection(working, claims)
  <2>1. f \in [working -> claims]
    BY <1>2
  <2>2. \A r, q \in working : f[r] = f[q] => r = q
    BY DEF ClaimInv
  <2>3. \A s \in claims : \E r \in working : f[r] = s
    BY <1>2
  <2> HIDE DEF f
  <2> QED BY <2>1, <2>2, <2>3 DEF Bijection, Injection, Surjection, IsInjective
<1>5. IsFiniteSet(claims)
  <2>1. claims \subseteq Slugs
    BY <1>2, <1>3
  <2> QED BY <1>1, <2>1, FS_Subset DEF MergeAssumption
<1>6. Cardinality(claims) = Cardinality(working)
  <2>1. ExistsBijection(claims, working)
    BY <1>4, Fun_ExistsBijSymmetric DEF ExistsBijection
  <2> QED BY <1>5, <2>1, FS_Bijection
<1>7. lock = (\E r \in Runs : InLock(r))
  <2>1. (\E r \in Runs : InLock(r)) => lock
    BY DEF IInv, OneMerges, InLock, LockPlaces
  <2> QED BY <2>1 DEF ClaimInv
<1>8. \A p \in DOMAIN passes : passes[p].slug \in Slugs /\ passes[p].saw \in Commit
  <2>1. DOMAIN passes = 1..Len(passes) /\ passes \in Seq(PassRecords)
    BY DEF IInv, Typed
  <2>2. \A p \in 1..Len(passes) : passes[p] \in PassRecords
    BY <2>1
  <2>3. \A p \in 1..Len(passes) : passes[p].slug \in Slugs
    BY <2>2 DEF PassRecords
  <2> QED BY <2>1, <2>3 DEF ClaimInv
<1>9. /\ main \in Commit /\ tip \in [Slugs -> Commit] /\ {ledgered, unledgered, blind} \subseteq Nat
      /\ \A c \in Commit : Reach(c) \subseteq 1..c /\ c \in Reach(c)
  BY DEF IInv, Typed, History
<1> QED BY <1>2, <1>6, <1>7, <1>8, <1>9 DEF TypeOK

(* The pipeline's book-keeping is exact: a slug is claimed as long as one  *)
(* thread works on it and by that thread alone, the merge lock is held     *)
(* exactly while a thread merges, and refs and PASS posts name commits,    *)
(* through every refusal and restart (_gate_runs and _merge_lock of        *)
(* broker_merge.py).                                                       *)
THEOREM PipelineTypeCorrect == Spec => []TypeOK
<1>1. Init => ClaimInv /\ lock \in BOOLEAN
  BY ClaimBegins DEF Init
<1>2. IInv /\ ClaimInv /\ lock \in BOOLEAN /\ [Next]_vars => ClaimInv' /\ (lock \in BOOLEAN)'
  BY ClaimNext, LockIsHeldOrNot
<1>3. IInv /\ ClaimInv /\ lock \in BOOLEAN => TypeOK
  BY TypesFollow
<1> QED BY <1>1, <1>2, <1>3, PipelineInvariance, PTL DEF Spec

=============================================================================
