------------------------------ MODULE WriteLock ------------------------------
(***************************************************************************)
(* server/app/db.py: every request of the server shares one SQLite         *)
(* connection, hence one transaction state machine, and the write lock     *)
(* keeps their writes apart.                                               *)
(*                                                                         *)
(* A task is an asyncio task.  A unit is one attempt to make writes        *)
(* durable: an autocommit execute() or a transaction() block.  A write is  *)
(* a pair <<unit, n>>: the n-th statement run on behalf of the unit.  The  *)
(* ContextVar of the code is ctx, and a _WriteBlock is a unit whose        *)
(* .active flag is membership of active.  The worker thread of aiosqlite   *)
(* runs the statements in the order they were submitted, one at a time,    *)
(* so each statement is one step.                                          *)
(***************************************************************************)
EXTENDS Naturals, Sequences

CONSTANTS Tasks, Units, MaxStmts, NoTask, NoUnit

ASSUME WriteLockAssumption ==
    /\ NoTask \notin Tasks
    /\ NoUnit \notin Units
    /\ MaxStmts \in Nat \ {0}

VARIABLES
    holder,   \* the task that holds _write_lock, or NoTask
    waiters,  \* asyncio.Lock's FIFO of waiting tasks
    step,       \* where in execute() or transaction() each task is
    unit,     \* the unit each task is carrying out, or NoUnit
    ctx,      \* the ContextVar db_write_block as each task sees it
    token,    \* the value reset(token) will put back into ctx
    active,   \* the blocks whose _WriteBlock.active is still True
    status,   \* fresh, running, committed, rolledback or failed, per unit
    issued,   \* how many statements have run on behalf of each unit
    inTxn,    \* sqlite3_get_autocommit() = 0: a transaction is open
    pending,  \* writes of the open transaction
    durable,  \* committed writes
    stray     \* writes that joined a block whose transaction was already over

lockVars == <<holder, waiters>>
taskVars == <<step, unit, ctx, token>>
unitVars == <<active, status, issued>>
connVars == <<inTxn, pending, durable, stray>>
allVars == <<holder, waiters, step, unit, ctx, token, active, status, issued,
             inTxn, pending, durable, stray>>

Writes == Units \X (1..MaxStmts)
Waiting == {"waitAuto", "waitBlock"}
Holding == {"execute", "commit", "begin", "body", "closing"}

LockInit ==
    /\ holder = NoTask
    /\ waiters = <<>>
    /\ step = [t \in Tasks |-> "idle"]
    /\ unit = [t \in Tasks |-> NoUnit]
    /\ ctx = [t \in Tasks |-> NoUnit]
    /\ token = [t \in Tasks |-> NoUnit]
    /\ active = {}
    /\ status = [u \in Units |-> "fresh"]
    /\ issued = [u \in Units |-> 0]
    /\ inTxn = FALSE
    /\ pending = {}
    /\ durable = {}
    /\ stray = {}

-----------------------------------------------------------------------------
(* The write lock: FIFO, not reentrant, and a newcomer never overtakes.    *)

Enqueue(t, u, wait) ==
    /\ step[t] = "idle"
    /\ status[u] = "fresh"
    /\ step' = [step EXCEPT ![t] = wait]
    /\ unit' = [unit EXCEPT ![t] = u]
    /\ status' = [status EXCEPT ![u] = "running"]
    /\ waiters' = Append(waiters, t)
    /\ UNCHANGED <<holder, ctx, token, active, issued, connVars>>

(* t lets go of the lock and is done with its unit, which ends as s.       *)
EndUnit(t, s) ==
    /\ holder' = NoTask
    /\ step' = [step EXCEPT ![t] = "idle"]
    /\ unit' = [unit EXCEPT ![t] = NoUnit]
    /\ status' = [status EXCEPT ![unit[t]] = s]
    /\ UNCHANGED waiters

InLiveBlock(t) == ctx[t] \in active

(* A statement run for unit u: Python's sqlite3 opens a transaction before *)
(* a write when none is open.                                              *)
RunStatement(u) ==
    /\ issued[u] < MaxStmts
    /\ issued' = [issued EXCEPT ![u] = @ + 1]
    /\ inTxn' = TRUE
    /\ pending' = pending \cup {<<u, issued[u] + 1>>}
    /\ UNCHANGED durable

-----------------------------------------------------------------------------
(* execute(sql), commit=True                                               *)

(* Outside a live block: queue for the lock.                               *)
ExecuteAutocommit(t, u) ==
    /\ ~InLiveBlock(t)
    /\ Enqueue(t, u, "waitAuto")

(* Inside a live block of this context: join it, no lock and no commit.    *)
(* Only an inherited context gets here (the block's own task writes with   *)
(* BodyWrite); when the block's transaction is already over but active is  *)
(* not yet cleared, the statement opens a transaction nobody owns.         *)
ExecuteJoins(t) ==
    /\ step[t] = "idle"
    /\ InLiveBlock(t)
    /\ RunStatement(ctx[t])
    /\ stray' = IF status[ctx[t]] = "running" THEN stray
                ELSE stray \cup {<<ctx[t], issued[ctx[t]] + 1>>}
    /\ UNCHANGED <<lockVars, taskVars, active, status>>

AcquireAuto_Unlocked(t) ==
    /\ step[t] = "waitAuto"
    /\ waiters # <<>>
    /\ Head(waiters) = t
    /\ waiters' = Tail(waiters)
    /\ step' = [step EXCEPT ![t] = "execute"]
    /\ UNCHANGED <<holder, unit, ctx, token, unitVars, connVars>>

AcquireAuto(t) ==
    /\ step[t] = "waitAuto"
    /\ holder = NoTask
    /\ waiters # <<>>
    /\ Head(waiters) = t
    /\ holder' = t
    /\ waiters' = Tail(waiters)
    /\ step' = [step EXCEPT ![t] = "execute"]
    /\ UNCHANGED <<unit, ctx, token, unitVars, connVars>>

AutoExecute(t) ==
    /\ step[t] = "execute"
    /\ RunStatement(unit[t])
    /\ step' = [step EXCEPT ![t] = "commit"]
    /\ UNCHANGED <<lockVars, unit, ctx, token, active, status, stray>>

AutoExecuteRaises_KeepsLock(t) ==
    /\ step[t] = "execute"
    /\ inTxn' = TRUE
    /\ step' = [step EXCEPT ![t] = "idle"]
    /\ UNCHANGED <<lockVars, unit, ctx, token, unitVars, pending, durable, stray>>

(* The statement raises (a constraint): `async with` gives the lock back,  *)
(* and nothing rolls back the transaction sqlite3 opened for it.           *)
AutoExecuteRaises(t) ==
    /\ step[t] = "execute"
    /\ inTxn' = TRUE
    /\ EndUnit(t, "failed")
    /\ UNCHANGED <<ctx, token, active, issued, pending, durable, stray>>

AutoCommit(t) ==
    /\ step[t] = "commit"
    /\ durable' = durable \cup pending
    /\ pending' = {}
    /\ inTxn' = FALSE
    /\ EndUnit(t, "committed")
    /\ UNCHANGED <<ctx, token, active, issued, stray>>

-----------------------------------------------------------------------------
(* async with transaction()                                                *)

(* Nothing looks at the marker: a task that inherited a live block queues  *)
(* like any other.  (A body that opened a block of its own would wait for  *)
(* itself for ever; no caller does.)                                       *)
OpenTransaction(t, u) == Enqueue(t, u, "waitBlock")

(* The lock, a new _WriteBlock and _write_block.set(block): no await.      *)
AcquireBlock(t) ==
    /\ step[t] = "waitBlock"
    /\ holder = NoTask
    /\ waiters # <<>>
    /\ Head(waiters) = t
    /\ holder' = t
    /\ waiters' = Tail(waiters)
    /\ step' = [step EXCEPT ![t] = "begin"]
    /\ token' = [token EXCEPT ![t] = ctx[t]]
    /\ ctx' = [ctx EXCEPT ![t] = unit[t]]
    /\ active' = active \cup {unit[t]}
    /\ UNCHANGED <<unit, status, issued, connVars>>

CloseBlock_BoolMarker(t, s) ==
    /\ ctx' = [ctx EXCEPT ![t] = token[t]]
    /\ token' = [token EXCEPT ![t] = NoUnit]
    /\ EndUnit(t, s)
    /\ UNCHANGED <<active, issued, connVars>>

(* The `finally` of transaction(), then the lock is released.              *)
CloseBlock(t, s) ==
    /\ active' = active \ {unit[t]}
    /\ ctx' = [ctx EXCEPT ![t] = token[t]]
    /\ token' = [token EXCEPT ![t] = NoUnit]
    /\ EndUnit(t, s)
    /\ UNCHANGED <<issued, connVars>>

BeginImmediate(t) ==
    /\ step[t] = "begin"
    /\ ~inTxn
    /\ inTxn' = TRUE
    /\ step' = [step EXCEPT ![t] = "body"]
    /\ UNCHANGED <<lockVars, unit, ctx, token, unitVars, pending, durable, stray>>

(* "cannot start a transaction within a transaction": BEGIN is outside the *)
(* inner try, so there is no rollback.                                     *)
BeginRaises(t) ==
    /\ step[t] = "begin"
    /\ inTxn
    /\ CloseBlock(t, "failed")

BodyWrite(t) ==
    /\ step[t] = "body"
    /\ RunStatement(unit[t])
    /\ UNCHANGED <<lockVars, taskVars, active, status, stray>>

BodyReturns(t) ==
    /\ step[t] = "body"
    /\ durable' = durable \cup pending
    /\ pending' = {}
    /\ inTxn' = FALSE
    /\ status' = [status EXCEPT ![unit[t]] = "committed"]
    /\ step' = [step EXCEPT ![t] = "closing"]
    /\ UNCHANGED <<lockVars, unit, ctx, token, active, issued, stray>>

BodyRaises_NoRollback(t) ==
    /\ step[t] = "body"
    /\ status' = [status EXCEPT ![unit[t]] = "rolledback"]
    /\ step' = [step EXCEPT ![t] = "closing"]
    /\ UNCHANGED <<lockVars, unit, ctx, token, active, issued, connVars>>

BodyRaises(t) ==
    /\ step[t] = "body"
    /\ pending' = {}
    /\ inTxn' = FALSE
    /\ status' = [status EXCEPT ![unit[t]] = "rolledback"]
    /\ step' = [step EXCEPT ![t] = "closing"]
    /\ UNCHANGED <<lockVars, unit, ctx, token, active, issued, durable, stray>>

LeaveBlock(t) ==
    /\ step[t] = "closing"
    /\ CloseBlock(t, status[unit[t]])

-----------------------------------------------------------------------------
(* A task created inside a block copies the creator's context, so it holds *)
(* the same _WriteBlock reference; c is a slot for a task not yet created. *)
SpawnChild(t, c) ==
    /\ step[t] = "body"
    /\ step[c] = "idle"
    /\ ctx[c] = NoUnit
    /\ ctx' = [ctx EXCEPT ![c] = ctx[t]]
    /\ UNCHANGED <<lockVars, step, unit, token, unitVars, connVars>>

TaskEnds(t) ==
    /\ step[t] = "idle"
    /\ ctx[t] # NoUnit
    /\ ctx' = [ctx EXCEPT ![t] = NoUnit]
    /\ UNCHANGED <<lockVars, step, unit, token, unitVars, connVars>>

(* The process dies and connect() builds a new connection and a new lock:  *)
(* only what was committed is still there.                                 *)
CrashAndConnect ==
    /\ holder' = NoTask
    /\ waiters' = <<>>
    /\ step' = [t \in Tasks |-> "idle"]
    /\ unit' = [t \in Tasks |-> NoUnit]
    /\ ctx' = [t \in Tasks |-> NoUnit]
    /\ token' = [t \in Tasks |-> NoUnit]
    /\ active' = {}
    /\ status' = [u \in Units |-> IF status[u] = "running" THEN "failed" ELSE status[u]]
    /\ inTxn' = FALSE
    /\ pending' = {}
    /\ UNCHANGED <<issued, durable, stray>>

TaskStep(t) ==
    \/ AcquireAuto(t) \/ AutoExecute(t) \/ AutoExecuteRaises(t) \/ AutoCommit(t)
    \/ AcquireBlock(t) \/ BeginImmediate(t) \/ BeginRaises(t)
    \/ BodyReturns(t) \/ BodyRaises(t) \/ LeaveBlock(t)

TaskRequest(t) ==
    \/ \E u \in Units : ExecuteAutocommit(t, u) \/ OpenTransaction(t, u)
    \/ ExecuteJoins(t)
    \/ BodyWrite(t)
    \/ \E c \in Tasks : SpawnChild(t, c)
    \/ TaskEnds(t)

LockNext ==
    \/ \E t \in Tasks : TaskStep(t) \/ TaskRequest(t)
    \/ CrashAndConnect

LockSpec == LockInit /\ [][LockNext]_allVars

(* The event loop runs every task that can run, and a block's body ends:   *)
(* the handlers do no unbounded work inside transaction().                 *)
FairLockSpec == LockSpec /\ \A t \in Tasks : WF_allVars(TaskStep(t))

-----------------------------------------------------------------------------
(* Properties *)

(* Every variable has its type: the lock is a task's or nobody's.           *)
LockTypeOK ==
    /\ holder \in Tasks \cup {NoTask}
    /\ waiters \in Seq(Tasks)
    /\ step \in [Tasks -> {"idle"} \cup Waiting \cup Holding]
    /\ unit \in [Tasks -> Units \cup {NoUnit}]
    /\ ctx \in [Tasks -> Units \cup {NoUnit}]
    /\ token \in [Tasks -> Units \cup {NoUnit}]
    /\ active \subseteq Units
    /\ status \in [Units -> {"fresh", "running", "committed", "rolledback", "failed"}]
    /\ issued \in [Units -> 0..MaxStmts]
    /\ inTxn \in BOOLEAN
    /\ pending \subseteq Writes
    /\ durable \subseteq Writes
    /\ stray \subseteq Writes

IssuedBy(u) == {u} \X (1..issued[u])

(* What a unit wrote while its transaction was open becomes durable with   *)
(* all the rest of the unit or not at all, at every instant and so also    *)
(* after a crash: no other task's commit publishes half of a block, and    *)
(* nothing of a failed or rolled back unit is left behind.                 *)
AllOrNothing ==
    \A u \in Units :
        (durable \cap IssuedBy(u)) \ stray =
            IF status[u] = "committed" THEN IssuedBy(u) \ stray ELSE {}

(* The inductive strengthening of AllOrNothing.  The lock has one holder.  *)
HolderInv == \A t \in Tasks : step[t] \in Holding <=> holder = t

(* Every unit under way belongs to one task, and a unit has run nothing    *)
(* before its turn.                                                        *)
UnitInv ==
    /\ \A t \in Tasks : step[t] = "idle" <=> unit[t] = NoUnit
    /\ \A t1, t2 \in Tasks : unit[t1] = unit[t2] /\ unit[t1] # NoUnit => t1 = t2
    /\ \A t \in Tasks : step[t] \notin {"idle", "closing"} => status[unit[t]] = "running"
    /\ \A t \in Tasks : step[t] = "closing" => status[unit[t]] \in {"committed", "rolledback"}
    /\ \A t \in Tasks : step[t] \in Waiting \cup {"execute", "begin"} => issued[unit[t]] = 0
    /\ \A u \in Units : status[u] = "fresh" => issued[u] = 0

(* Only the holder's block is live, and nobody has inherited a block whose *)
(* body has not started.                                                   *)
ContextInv ==
    /\ \A u \in active : /\ holder # NoTask
                         /\ unit[holder] = u
                         /\ step[holder] \in {"begin", "body", "closing"}
    /\ \A t \in Tasks : /\ ctx[t] \in Units => status[ctx[t]] # "fresh"
                        /\ token[t] \in Units => status[token[t]] # "fresh"
    /\ \A t, c \in Tasks :
          step[t] \notin {"idle", "body", "closing"} /\ c # t
            => ctx[c] # unit[t] /\ token[c] # unit[t]

(* What is uncommitted is the holder's and is all of the holder's.         *)
PendingInv ==
    /\ \A w \in pending \cup durable \cup stray : w[2] <= issued[w[1]]
    /\ \A w \in stray : status[w[1]] \notin {"fresh", "running"}
    /\ \A w \in pending \ stray :
          /\ holder # NoTask
          /\ w[1] = unit[holder]
          /\ step[holder] \in {"commit", "body"}
    /\ \A t \in Tasks :
          step[t] \in {"commit", "body"} => IssuedBy(unit[t]) \ stray \subseteq pending

LockInv == LockTypeOK /\ HolderInv /\ UnitInv /\ ContextInv /\ PendingInv /\ AllOrNothing

(* A commit publishes the work of the task that holds the lock, and of no  *)
(* other task (execute(): "the commit can only ever publish this           *)
(* statement", and not a concurrent block's half-finished work).           *)
CommitsOwnWork ==
    [][\A w \in (durable' \ durable) \ stray :
            holder # NoTask /\ w[1] = unit[holder]]_allVars

(* A task that inherited a block's context stops joining the block as soon *)
(* as the block is left: a write joins a finished block only between its   *)
(* commit or rollback and the clearing of active.                          *)
InheritedBlockDies ==
    [][stray' # stray => \E t \in Tasks : step[t] = "closing"]_allVars

(* Every task that queues for the lock gets it, or the process dies.       *)
WaitersAreServed ==
    \A t \in Tasks : step[t] \in Waiting ~> step[t] \notin Waiting

(* "BEGIN IMMEDIATE transaction; commits on success, rolls back on error": *)
(* a block that has the lock finds no transaction open on the connection.  *)
BeginFindsNoTransaction ==
    \A t \in Tasks : step[t] = "begin" => ~inTxn

=============================================================================
