---------------------------- MODULE TaskScheduler ----------------------------
(***************************************************************************)
(* One scheduled task of backend/services/scheduler.js: its record         *)
(* tasks/<id>, which all nodes share, the lock withLock takes around a run *)
(* and the runs of runTask that the 60 s interval, the trigger route and   *)
(* the toggle route start (backend/routes/tasks.js). One action is one     *)
(* etcd operation; what is read before an await is carried in "got".       *)
(***************************************************************************)
EXTENDS Naturals

CONSTANTS
    Node,
    Interval,    \* runs that setInterval starts: nothing stops them overlapping
    Request,     \* API requests that run or list the task
    Scope,       \* the task's scope: "node" or "cluster"
    MaxFaults,   \* bound: crashes, lapsed leases and failed etcd calls
    MaxToggles   \* bound: requests to enable or disable the task

Run == Interval \cup Request

\* withLock's key: one per node for a task of scope node, else one for all.
LockKey(n) == IF Scope = "node" THEN n ELSE "global"
Key == Node \cup {"global"}

ASSUME SchedulerAssumption ==
    /\ Interval \cap Request = {}
    /\ {"free", "orphan"} \cap Run = {} /\ "none" \notin Node
    /\ Scope \in {"node", "cluster"}
    /\ MaxFaults \in Nat /\ MaxToggles \in Nat

VARIABLES
    task,      \* the etcd record of the task
    lock,      \* lock[k]: the run that holds the lock key k
    running,   \* running[n]: startScheduler has run on n and its process lives
    run,       \* run[r]: a call of runTask, or of getAllTasks
    toggle,    \* the toggle request in flight
    toggles,   \* toggle requests so far, at most MaxToggles
    faults     \* faults so far, at most MaxFaults

vars == <<task, lock, running, run, toggle, toggles, faults>>

\* due: nextRun is not in the future. done: the last run's success or failure.
Task == [here : BOOLEAN, status : {"idle", "running", "done"}, enabled : BOOLEAN, due : BOOLEAN]
NoTask == [here |-> FALSE, status |-> "idle", enabled |-> FALSE, due |-> FALSE]
DefaultTask == [here |-> TRUE, status |-> "idle", enabled |-> TRUE, due |-> TRUE]

Pc == {"idle", "get", "create", "lock", "markGet", "markPut", "exec", "doneGet", "donePut",
       "unlock"}
RunType == [pc : Pc, kind : {"interval", "trigger", "list"},
            at : Node \cup {"none"}, got : Task, caught : BOOLEAN, lapsed : BOOLEAN]
NoRun == [pc |-> "idle", kind |-> "list", at |-> "none", got |-> NoTask,
          caught |-> FALSE, lapsed |-> FALSE]
ToggleType == [pc : {"idle", "get", "create", "put"}, to : BOOLEAN, got : Task]
NoToggle == [pc |-> "idle", to |-> FALSE, got |-> NoTask]

\* In the callback of withLock.
Holding(r) == run[r].pc \in {"markGet", "markPut", "exec", "doneGet", "donePut", "unlock"}

TypeOK ==
    /\ task \in Task
    /\ lock \in [Key -> Run \cup {"free", "orphan"}]
    /\ running \in [Node -> BOOLEAN]
    /\ run \in [Run -> RunType]
    /\ toggle \in ToggleType
    /\ toggles \in 0 .. MaxToggles
    /\ faults \in 0 .. MaxFaults

\* A cluster whose services have just started: nobody has read the task yet.
Init ==
    /\ task = NoTask
    /\ lock = [k \in Key |-> "free"]
    /\ running = [n \in Node |-> TRUE]
    /\ run = [r \in Run |-> NoRun]
    /\ toggle = NoToggle
    /\ toggles = 0
    /\ faults = 0

Fault == faults < MaxFaults /\ faults' = faults + 1

\* A run goes on at pc; with other data in hand; or the call returns.
GoTo(r, pc) == run' = [run EXCEPT ![r] = [@ EXCEPT !.pc = pc]]
Carry(r, pc, t) == run' = [run EXCEPT ![r] = [@ EXCEPT !.pc = pc, !.got = t]]
Report(r, threw) ==
    run' = [run EXCEPT ![r] = [@ EXCEPT !.pc = "doneGet", !.caught = threw, !.got = NoTask]]
Return(r) == run' = [run EXCEPT ![r] = NoRun]

-----------------------------------------------------------------------------
(* runTask, up to the lock.                                                *)

\* The interval fires on a node, or a request to trigger or to list arrives.
Begin(r, n, kind) ==
    /\ run[r].pc = "idle" /\ running[n]
    /\ kind \in IF r \in Interval THEN {"interval"} ELSE {"trigger", "list"}
    /\ run' = [run EXCEPT ![r] = [NoRun EXCEPT !.pc = "get", !.kind = kind, !.at = n]]
    /\ UNCHANGED <<task, lock, running, toggle, toggles, faults>>

\* The early return of runTask; force skips the look at nextRun.
Runs(kind, t) ==
    /\ kind # "list" /\ t.enabled /\ t.status # "running"
    /\ kind = "trigger" \/ t.due

\* getTask: a record that is missing is created from the defaults, in a put of
\* its own.
GetTask(r) ==
    /\ run[r].pc = "get"
    /\ IF ~task.here THEN GoTo(r, "create")
       ELSE IF Runs(run[r].kind, task) THEN GoTo(r, "lock")
       ELSE Return(r)
    /\ UNCHANGED <<task, lock, running, toggle, toggles, faults>>

CreateTask(r) ==
    /\ run[r].pc = "create"
    /\ task' = DefaultTask
    /\ IF run[r].kind = "list" THEN Return(r) ELSE GoTo(r, "lock")
    /\ UNCHANGED <<lock, running, toggle, toggles, faults>>

-----------------------------------------------------------------------------
(* withLock and its callback.                                              *)

KeyOf(r) == LockKey(run[r].at)

\* Mutant of Acquire: get, then put, instead of the compare-and-swap.
AcquireBlind(r) ==
    /\ run[r].pc = "lock"
    /\ lock' = [lock EXCEPT ![KeyOf(r)] = r]
    /\ GoTo(r, "markGet")
    /\ UNCHANGED <<task, running, toggle, toggles, faults>>

\* A compare-and-swap on the lock key; a run that loses it ends silently. The
\* record is not read again: what was read before the lock decided.
Acquire(r) ==
    /\ run[r].pc = "lock"
    /\ IF lock[KeyOf(r)] = "free"
       THEN lock' = [lock EXCEPT ![KeyOf(r)] = r] /\ GoTo(r, "markGet")
       ELSE UNCHANGED lock /\ Return(r)
    /\ UNCHANGED <<task, running, toggle, toggles, faults>>

\* updateTask reads the record and writes all of it back, changed: first with
\* status "running" ...
MarkGet(r) ==
    /\ run[r].pc = "markGet"
    /\ Carry(r, "markPut", task)
    /\ UNCHANGED <<task, lock, running, toggle, toggles, faults>>

\* Mutant of MarkPut: only the update is written, not the record with it.
MarkPutBare(r) ==
    /\ run[r].pc = "markPut"
    /\ task' = [status |-> "running"]
    /\ Carry(r, "exec", NoTask)
    /\ UNCHANGED <<lock, running, toggle, toggles, faults>>

MarkPut(r) ==
    /\ run[r].pc = "markPut"
    /\ task' = [run[r].got EXCEPT !.status = "running"]
    /\ Carry(r, "exec", NoTask)
    /\ UNCHANGED <<lock, running, toggle, toggles, faults>>

\* The work itself; when it throws, the catch block reports instead.
Exec(r) ==
    /\ run[r].pc = "exec"
    /\ \E threw \in BOOLEAN : Report(r, threw)
    /\ UNCHANGED <<task, lock, running, toggle, toggles, faults>>

\* ... then with the outcome and the next nextRun.
DoneGet(r) ==
    /\ run[r].pc = "doneGet"
    /\ Carry(r, "donePut", task)
    /\ UNCHANGED <<task, lock, running, toggle, toggles, faults>>

\* Mutant of DonePut: the outcome is written only when the run succeeded.
DonePutOnSuccess(r) ==
    /\ run[r].pc = "donePut"
    /\ task' = IF run[r].caught THEN task
               ELSE [run[r].got EXCEPT !.status = "done", !.due = FALSE]
    /\ Carry(r, "unlock", NoTask)
    /\ UNCHANGED <<lock, running, toggle, toggles, faults>>

DonePut(r) ==
    /\ run[r].pc = "donePut"
    /\ task' = [run[r].got EXCEPT !.status = "done", !.due = FALSE]
    /\ Carry(r, "unlock", NoTask)
    /\ UNCHANGED <<lock, running, toggle, toggles, faults>>

\* Mutant of Unlock: no revoke in the finally block.
UnlockForgotten(r) ==
    /\ run[r].pc = "unlock"
    /\ Return(r)
    /\ UNCHANGED <<lock, task, running, toggle, toggles, faults>>

\* finally: the lease is revoked and the key goes with it; a revocation that
\* fails is swallowed and leaves the key until the lease expires.
Unlock(r) ==
    /\ run[r].pc = "unlock"
    /\ \E left \in {"free", "orphan"} :
         lock' = [lock EXCEPT ![KeyOf(r)] = IF @ = r THEN left ELSE @]
    /\ Return(r)
    /\ UNCHANGED <<task, running, toggle, toggles, faults>>

-----------------------------------------------------------------------------
(* PUT of the enabled flag: updateTask again, under no lock.               *)

ToggleRequest ==
    /\ toggle.pc = "idle" /\ toggles < MaxToggles
    /\ \E to \in BOOLEAN : toggle' = [NoToggle EXCEPT !.pc = "get", !.to = to]
    /\ toggles' = toggles + 1
    /\ UNCHANGED <<task, lock, running, run, faults>>

ToggleGet ==
    /\ toggle.pc = "get"
    /\ toggle' = IF task.here THEN [toggle EXCEPT !.pc = "put", !.got = task]
                 ELSE [toggle EXCEPT !.pc = "create"]
    /\ UNCHANGED <<task, lock, running, run, toggles, faults>>

ToggleCreate ==
    /\ toggle.pc = "create"
    /\ task' = DefaultTask
    /\ toggle' = [toggle EXCEPT !.pc = "put", !.got = DefaultTask]
    /\ UNCHANGED <<lock, running, run, toggles, faults>>

TogglePut ==
    /\ toggle.pc = "put"
    /\ task' = [toggle.got EXCEPT !.enabled = toggle.to]
    /\ toggle' = NoToggle
    /\ UNCHANGED <<lock, running, run, toggles, faults>>

-----------------------------------------------------------------------------
(* Time and failures.                                                      *)

\* A copy of the record after time has passed.
Aged(t) == [t EXCEPT !.due = t.due \/ t.here]

\* nextRun passes, for the record and for every copy in flight: an interval is
\* far longer than a call to etcd.
TimePasses ==
    /\ task.here /\ ~task.due
    /\ task' = Aged(task)
    /\ run' = [r \in Run |-> [run[r] EXCEPT !.got = Aged(run[r].got)]]
    /\ toggle' = [toggle EXCEPT !.got = Aged(toggle.got)]
    /\ UNCHANGED <<lock, running, toggles, faults>>

\* A call to etcd fails. Before the lock the call is over, marking the task as
\* running leads to the finally block, and of two attempts to write the outcome
\* the second is the catch block's.
CallFails(r) ==
    /\ Fault
    /\ \/ /\ run[r].pc \in {"get", "create", "lock"}
          /\ Return(r)
       \/ /\ \/ run[r].pc \in {"markGet", "markPut"}
             \/ run[r].pc \in {"doneGet", "donePut"} /\ run[r].caught
          /\ Carry(r, "unlock", NoTask)
       \/ /\ run[r].pc \in {"doneGet", "donePut"} /\ ~run[r].caught
          /\ Report(r, TRUE)
    /\ UNCHANGED <<task, lock, running, toggle, toggles>>

\* The lease lapses under a run that stalled; the callback goes on.
Lapse(r) ==
    /\ Holding(r) /\ lock[KeyOf(r)] = r /\ Fault
    /\ lock' = [lock EXCEPT ![KeyOf(r)] = "free"]
    /\ run' = [run EXCEPT ![r] = [@ EXCEPT !.lapsed = TRUE]]
    /\ UNCHANGED <<task, running, toggle, toggles>>

\* etcd expires the lease of a lock whose run is gone.
Expire(k) ==
    /\ lock[k] = "orphan"
    /\ lock' = [lock EXCEPT ![k] = "free"]
    /\ UNCHANGED <<task, running, run, toggle, toggles, faults>>

\* The backend of n dies with its runs. The record stays as it is.
Crash(n) ==
    /\ running[n] /\ Fault
    /\ running' = [running EXCEPT ![n] = FALSE]
    /\ lock' = [k \in Key |->
                  IF lock[k] \in Run /\ run[lock[k]].at = n THEN "orphan" ELSE lock[k]]
    /\ run' = [r \in Run |-> IF run[r].at = n THEN NoRun ELSE run[r]]
    /\ UNCHANGED <<task, toggle, toggles>>

\* startScheduler, after the node was started and unsealed again.
Restart(n) ==
    /\ ~running[n]
    /\ running' = [running EXCEPT ![n] = TRUE]
    /\ UNCHANGED <<task, lock, run, toggle, toggles, faults>>

-----------------------------------------------------------------------------
Step(r) ==
    \/ GetTask(r) \/ CreateTask(r) \/ Acquire(r) \/ MarkGet(r) \/ MarkPut(r)
    \/ Exec(r) \/ DoneGet(r) \/ DonePut(r) \/ Unlock(r)

Toggle == ToggleRequest \/ ToggleGet \/ ToggleCreate \/ TogglePut

Next ==
    \/ \E r \in Run : Step(r) \/ CallFails(r) \/ Lapse(r)
    \/ \E r \in Run, n \in Node, kind \in {"interval", "trigger", "list"} : Begin(r, n, kind)
    \/ \E k \in Key : Expire(k)
    \/ \E n \in Node : Crash(n) \/ Restart(n)
    \/ Toggle \/ TimePasses

Safety == Init /\ [][Next]_vars

\* The interval fires, calls return, time passes and etcd expires abandoned
\* leases. Nobody has to trigger, list, toggle or restart anything.
Fairness ==
    /\ \A r \in Run : WF_vars(Step(r))
    /\ \A r \in Interval : WF_vars(\E n \in Node : Begin(r, n, "interval"))
    /\ \A k \in Key : WF_vars(Expire(k))
    /\ WF_vars(TimePasses)

Spec == Safety /\ Fairness
-----------------------------------------------------------------------------
(* Properties.                                                             *)

\* Two runs work under one lock key only when the lease of one has lapsed: an
\* overlapping interval, a trigger or (in scope cluster) another node is kept out.
OneRunPerKey ==
    \A r, s \in Run :
        r # s /\ Holding(r) /\ Holding(s) /\ KeyOf(r) = KeyOf(s)
          => run[r].lapsed \/ run[s].lapsed

\* withLock keeps the promise of LeaseLock, whatever fails, crashes or lapses.
Abstract == INSTANCE LeaseLock WITH
    Client <- Run, NoKey <- "none", owner <- lock,
    inside <- [r \in Run |-> IF Holding(r) THEN KeyOf(r) ELSE "none"]
LocksRefine == Abstract!LockSpec

\* A run that will still report an outcome.
Reports(r) == run[r].pc \in {"exec", "doneGet", "donePut"}

\* As long as nothing fails and nobody toggles, "running" is true: some run is
\* under way and will overwrite it, whatever stale records are written back.
RunningMeansRunning ==
    task.status = "running" /\ faults = 0 /\ toggles = 0 => \E r \in Run : Reports(r)

\* A task is never lost in any other way than by a "running" nobody will
\* overwrite: while that is not the case, it stays enabled and some node's
\* scheduler runs, the task is executed again and again, whatever lapses,
\* fails or overlaps.
Abandoned == task.status = "running" /\ \A r \in Run : run[r].pc \notin {"exec", "doneGet", "donePut"}
NotLostRuns ==
    /\ <>[](task.here => task.enabled /\ ~Abandoned)
    /\ \E n \in Node : <>[]running[n]
    => []<>(\E r \in Run : run[r].pc = "exec")

\* README.md:32: a snapshot every day, so that an enabled task of a node whose
\* scheduler runs is executed again and again.
EnabledTaskRuns ==
    /\ <>[](task.here => task.enabled)
    /\ \E n \in Node : <>[]running[n]
    => []<>(\E r \in Run : run[r].pc = "exec")
=============================================================================
