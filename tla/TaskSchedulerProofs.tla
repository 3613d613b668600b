------------------------- MODULE TaskSchedulerProofs -------------------------
(***************************************************************************)
(* Theorems about TaskScheduler, for any nodes, runs, scope and bounds.    *)
(***************************************************************************)
EXTENDS TaskScheduler, TLAPS

\* A run under way is on a node, and in the critical section it holds the lock
\* of that node unless its lease has lapsed.
HoldsItsLock(r) ==
    /\ run[r].pc # "idle" => run[r].at \in Node
    /\ Holding(r) => run[r].lapsed \/ lock[KeyOf(r)] = r

\* A toggle in flight has been counted.
ToggleCounted == toggle.pc # "idle" => toggles > 0

IInv ==
    /\ TypeOK
    /\ \A r \in Run : HoldsItsLock(r)
    /\ ToggleCounted
    /\ RunningMeansRunning

-----------------------------------------------------------------------------
(* The updates of a run.                                                   *)

LEMMA Constants ==
    /\ NoTask \in Task /\ DefaultTask \in Task /\ NoRun \in RunType /\ NoToggle \in ToggleType
    /\ NoTask.status = "idle" /\ DefaultTask.status = "idle"
    /\ NoRun.pc = "idle" /\ NoToggle.pc = "idle"
  BY DEF NoTask, DefaultTask, Task, NoRun, RunType, Pc, NoToggle, ToggleType

\* What the others are at is left alone by every update of run r.
Others(r) == \A s \in Run : s # r => run'[s] = run[s]

LEMMA GoToFacts ==
    ASSUME run \in [Run -> RunType], NEW r \in Run, NEW pc \in Pc, GoTo(r, pc)
    PROVE  /\ run' \in [Run -> RunType]
           /\ run'[r].pc = pc /\ run'[r].at = run[r].at /\ run'[r].lapsed = run[r].lapsed
           /\ Others(r)
  <1>1. [run[r] EXCEPT !.pc = pc] \in RunType
    BY DEF RunType
  <1>2. run' = [run EXCEPT ![r] = [run[r] EXCEPT !.pc = pc]]
    BY DEF GoTo
  <1>3. run' \in [Run -> RunType] /\ Others(r)
    BY <1>1, <1>2 DEF Others
  <1>4. run'[r] = [run[r] EXCEPT !.pc = pc] /\ run[r] \in RunType
    BY <1>2
  <1> QED
    BY <1>3, <1>4 DEF RunType

LEMMA CarryFacts ==
    ASSUME run \in [Run -> RunType], NEW r \in Run, NEW pc \in Pc, NEW t \in Task, Carry(r, pc, t)
    PROVE  /\ run' \in [Run -> RunType]
           /\ run'[r].pc = pc /\ run'[r].at = run[r].at /\ run'[r].lapsed = run[r].lapsed
           /\ Others(r)
  <1>1. [run[r] EXCEPT !.pc = pc, !.got = t] \in RunType
    BY DEF RunType
  <1>2. run' = [run EXCEPT ![r] = [run[r] EXCEPT !.pc = pc, !.got = t]]
    BY DEF Carry
  <1>3. run' \in [Run -> RunType] /\ Others(r)
    BY <1>1, <1>2 DEF Others
  <1>4. run'[r] = [run[r] EXCEPT !.pc = pc, !.got = t] /\ run[r] \in RunType
    BY <1>2
  <1> QED
    BY <1>3, <1>4 DEF RunType

LEMMA ReportFacts ==
    ASSUME run \in [Run -> RunType], NEW r \in Run, NEW threw \in BOOLEAN, Report(r, threw)
    PROVE  /\ run' \in [Run -> RunType]
           /\ run'[r].pc = "doneGet" /\ run'[r].at = run[r].at /\ run'[r].lapsed = run[r].lapsed
           /\ Others(r)
  <1>1. [run[r] EXCEPT !.pc = "doneGet", !.caught = threw, !.got = NoTask] \in RunType
    BY Constants DEF RunType, Pc
  <1>2. run' = [run EXCEPT ![r] = [run[r] EXCEPT !.pc = "doneGet", !.caught = threw, !.got = NoTask]]
    BY DEF Report
  <1>3. run' \in [Run -> RunType] /\ Others(r)
    BY <1>1, <1>2 DEF Others
  <1>4. run'[r] = [run[r] EXCEPT !.pc = "doneGet", !.caught = threw, !.got = NoTask] /\ run[r] \in RunType
    BY <1>2
  <1> QED
    BY <1>3, <1>4 DEF RunType

LEMMA ReturnFacts ==
    ASSUME run \in [Run -> RunType], NEW r \in Run, Return(r)
    PROVE  run' \in [Run -> RunType] /\ run'[r].pc = "idle" /\ Others(r)
  BY Constants DEF Return, Others

\* A record read by a run, or changed in one field, is a record.
LEMMA TaskEdits ==
    ASSUME NEW t \in Task, NEW b \in BOOLEAN
    PROVE  /\ [t EXCEPT !.status = "running"] \in Task
           /\ [t EXCEPT !.status = "done", !.due = FALSE] \in Task
           /\ [t EXCEPT !.status = "done", !.due = FALSE].status = "done"
           /\ [t EXCEPT !.enabled = b] \in Task
           /\ Aged(t) \in Task /\ Aged(t).status = t.status
  BY DEF Task, Aged

LEMMA InitInv == Init => IInv
  <1> SUFFICES ASSUME Init PROVE IInv
    OBVIOUS
  <1>1. TypeOK
    BY Constants, SchedulerAssumption DEF Init, TypeOK, Key
  <1> QED
    BY <1>1, Constants
    DEF Init, IInv, HoldsItsLock, Holding, ToggleCounted, RunningMeansRunning

-----------------------------------------------------------------------------
(* Every step.                                                             *)

LEMMA NextInv == ASSUME IInv, [Next]_vars PROVE IInv'
  <1> USE SchedulerAssumption
  <1>1. ASSUME NEW r \in Run, GetTask(r) PROVE IInv'
    <2>1. /\ run' \in [Run -> RunType] /\ Others(r)
          /\ \/ run'[r].pc \in {"create", "lock"} /\ run'[r].at = run[r].at
             \/ run'[r].pc = "idle"
      BY <1>1, GoToFacts, ReturnFacts, Constants DEF GetTask, IInv, TypeOK, Pc
    <2>2. TypeOK'
      BY <1>1, <2>1, Constants DEF GetTask, IInv, TypeOK
    <2>3. ASSUME NEW s \in Run PROVE HoldsItsLock(s)'
      BY <1>1, <2>1
      DEF GetTask, IInv, TypeOK, HoldsItsLock, Holding, Others, KeyOf, LockKey, Key
    <2>4. ToggleCounted' /\ RunningMeansRunning'
      BY <1>1, <2>1, Constants
      DEF GetTask, IInv, TypeOK, ToggleCounted, RunningMeansRunning, Reports, Others
    <2> QED
      BY <2>2, <2>3, <2>4 DEF IInv
  <1>2. ASSUME NEW r \in Run, CreateTask(r) PROVE IInv'
    <2>1. /\ run' \in [Run -> RunType] /\ Others(r)
          /\ \/ run'[r].pc = "lock" /\ run'[r].at = run[r].at
             \/ run'[r].pc = "idle"
      BY <1>2, GoToFacts, ReturnFacts, Constants DEF CreateTask, IInv, TypeOK, Pc
    <2>2. TypeOK'
      BY <1>2, <2>1, Constants DEF CreateTask, IInv, TypeOK
    <2>3. ASSUME NEW s \in Run PROVE HoldsItsLock(s)'
      BY <1>2, <2>1
      DEF CreateTask, IInv, TypeOK, HoldsItsLock, Holding, Others, KeyOf, LockKey, Key
    <2>4. ToggleCounted' /\ RunningMeansRunning'
      BY <1>2, <2>1, Constants
      DEF CreateTask, IInv, TypeOK, ToggleCounted, RunningMeansRunning, Reports, Others
    <2> QED
      BY <2>2, <2>3, <2>4 DEF IInv
  <1>3. ASSUME NEW r \in Run, Acquire(r) PROVE IInv'
    <2>1. /\ run' \in [Run -> RunType] /\ Others(r)
          /\ \/ /\ lock[KeyOf(r)] = "free" /\ lock' = [lock EXCEPT ![KeyOf(r)] = r]
                /\ run'[r].pc = "markGet" /\ run'[r].at = run[r].at
             \/ run'[r].pc = "idle" /\ lock' = lock
      BY <1>3, GoToFacts, ReturnFacts, Constants DEF Acquire, IInv, TypeOK, Pc
    <2>2. TypeOK'
      BY <1>3, <2>1, Constants DEF Acquire, IInv, TypeOK
    <2>3. ASSUME NEW s \in Run PROVE HoldsItsLock(s)'
      BY <1>3, <2>1
      DEF Acquire, IInv, TypeOK, HoldsItsLock, Holding, Others, KeyOf, LockKey, Key
    <2>4. ToggleCounted' /\ RunningMeansRunning'
      BY <1>3, <2>1, Constants
      DEF Acquire, IInv, TypeOK, ToggleCounted, RunningMeansRunning, Reports, Others
    <2> QED
      BY <2>2, <2>3, <2>4 DEF IInv
  <1>4. ASSUME NEW r \in Run, MarkGet(r) PROVE IInv'
    <2>1. /\ run' \in [Run -> RunType] /\ Others(r) /\ run'[r].pc = "markPut"
          /\ run'[r].at = run[r].at /\ run'[r].lapsed = run[r].lapsed
      BY <1>4, CarryFacts, Constants DEF MarkGet, IInv, TypeOK, Pc
    <2>2. TypeOK'
      BY <1>4, <2>1, Constants DEF MarkGet, IInv, TypeOK
    <2>3. ASSUME NEW s \in Run PROVE HoldsItsLock(s)'
      BY <1>4, <2>1
      DEF MarkGet, IInv, TypeOK, HoldsItsLock, Holding, Others, KeyOf, LockKey, Key
    <2>4. ToggleCounted' /\ RunningMeansRunning'
      BY <1>4, <2>1, Constants
      DEF MarkGet, IInv, TypeOK, ToggleCounted, RunningMeansRunning, Reports, Others
    <2> QED
      BY <2>2, <2>3, <2>4 DEF IInv
  <1>5. ASSUME NEW r \in Run, MarkPut(r) PROVE IInv'
    <2>1. /\ run' \in [Run -> RunType] /\ Others(r) /\ run'[r].pc = "exec"
          /\ run'[r].at = run[r].at /\ run'[r].lapsed = run[r].lapsed
      BY <1>5, CarryFacts, Constants DEF MarkPut, IInv, TypeOK, Pc
    <2>2. run[r].got \in Task
      BY DEF IInv, TypeOK, RunType
    <2>3. task' \in Task /\ task'.status = "running"
      BY <1>5, <2>2, TaskEdits DEF MarkPut, Task
    <2>4. TypeOK'
      BY <1>5, <2>1, <2>3 DEF MarkPut, IInv, TypeOK
    <2>5. ASSUME NEW s \in Run PROVE HoldsItsLock(s)'
      BY <1>5, <2>1
      DEF MarkPut, IInv, TypeOK, HoldsItsLock, Holding, Others, KeyOf, LockKey, Key
    <2>6. ToggleCounted' /\ RunningMeansRunning'
      BY <1>5, <2>1, <2>3
      DEF MarkPut, IInv, TypeOK, ToggleCounted, RunningMeansRunning, Reports, Others
    <2> QED
      BY <2>4, <2>5, <2>6 DEF IInv
  <1>6. ASSUME NEW r \in Run, DoneGet(r) PROVE IInv'
    <2>1. /\ run' \in [Run -> RunType] /\ Others(r) /\ run'[r].pc = "donePut"
          /\ run'[r].at = run[r].at /\ run'[r].lapsed = run[r].lapsed
      BY <1>6, CarryFacts, Constants DEF DoneGet, IInv, TypeOK, Pc
    <2>2. TypeOK'
      BY <1>6, <2>1, Constants DEF DoneGet, IInv, TypeOK
    <2>3. ASSUME NEW s \in Run PROVE HoldsItsLock(s)'
      BY <1>6, <2>1
      DEF DoneGet, IInv, TypeOK, HoldsItsLock, Holding, Others, KeyOf, LockKey, Key
    <2>4. ToggleCounted' /\ RunningMeansRunning'
      BY <1>6, <2>1, Constants
      DEF DoneGet, IInv, TypeOK, ToggleCounted, RunningMeansRunning, Reports, Others
    <2> QED
      BY <2>2, <2>3, <2>4 DEF IInv
  <1>7. ASSUME NEW r \in Run, DonePut(r) PROVE IInv'
    <2>1. /\ run' \in [Run -> RunType] /\ Others(r) /\ run'[r].pc = "unlock"
          /\ run'[r].at = run[r].at /\ run'[r].lapsed = run[r].lapsed
      BY <1>7, CarryFacts, Constants DEF DonePut, IInv, TypeOK, Pc
    <2>2. run[r].got \in Task
      BY DEF IInv, TypeOK, RunType
    <2>3. task' \in Task /\ task'.status = "done"
      BY <1>7, <2>2, TaskEdits DEF DonePut, Task
    <2>4. TypeOK'
      BY <1>7, <2>1, <2>3 DEF DonePut, IInv, TypeOK
    <2>5. ASSUME NEW s \in Run PROVE HoldsItsLock(s)'
      BY <1>7, <2>1
      DEF DonePut, IInv, TypeOK, HoldsItsLock, Holding, Others, KeyOf, LockKey, Key
    <2>6. ToggleCounted' /\ RunningMeansRunning'
      BY <1>7, <2>1, <2>3
      DEF DonePut, IInv, TypeOK, ToggleCounted, RunningMeansRunning, Reports, Others
    <2> QED
      BY <2>4, <2>5, <2>6 DEF IInv
  <1>8. ASSUME NEW r \in Run, Exec(r) PROVE IInv'
    <2>1. /\ run' \in [Run -> RunType] /\ Others(r) /\ run'[r].pc = "doneGet"
          /\ run'[r].at = run[r].at /\ run'[r].lapsed = run[r].lapsed
      BY <1>8, ReportFacts DEF Exec, IInv, TypeOK
    <2>2. TypeOK'
      BY <1>8, <2>1, Constants DEF Exec, IInv, TypeOK
    <2>3. ASSUME NEW s \in Run PROVE HoldsItsLock(s)'
      BY <1>8, <2>1
      DEF Exec, IInv, TypeOK, HoldsItsLock, Holding, Others, KeyOf, LockKey, Key
    <2>4. ToggleCounted' /\ RunningMeansRunning'
      BY <1>8, <2>1, Constants
      DEF Exec, IInv, TypeOK, ToggleCounted, RunningMeansRunning, Reports, Others
    <2> QED
      BY <2>2, <2>3, <2>4 DEF IInv
  <1>9. ASSUME NEW r \in Run, Unlock(r) PROVE IInv'
    <2>1. run' \in [Run -> RunType] /\ run'[r].pc = "idle" /\ Others(r)
      BY <1>9, ReturnFacts, Constants DEF Unlock, IInv, TypeOK, Pc
    <2>2. TypeOK'
      BY <1>9, <2>1, Constants DEF Unlock, IInv, TypeOK
    <2>3. ASSUME NEW s \in Run PROVE HoldsItsLock(s)'
      BY <1>9, <2>1
      DEF Unlock, IInv, TypeOK, HoldsItsLock, Holding, Others, KeyOf, LockKey, Key
    <2>4. ToggleCounted' /\ RunningMeansRunning'
      BY <1>9, <2>1, Constants
      DEF Unlock, IInv, TypeOK, ToggleCounted, RunningMeansRunning, Reports, Others
    <2> QED
      BY <2>2, <2>3, <2>4 DEF IInv
  <1>10. ASSUME NEW r \in Run, NEW n \in Node, NEW kind \in {"interval", "trigger", "list"}, Begin(r, n, kind) PROVE IInv'
    <2>1. /\ run' \in [Run -> RunType] /\ Others(r)
          /\ run'[r].pc = "get" /\ run'[r].at = n
      BY <1>10, SchedulerAssumption, Constants
      DEF Begin, RunType, NoRun, Others, IInv, TypeOK, Pc
    <2>2. TypeOK'
      BY <1>10, <2>1, Constants DEF Begin, RunType, NoRun, Others, IInv, TypeOK
    <2>3. ASSUME NEW s \in Run PROVE HoldsItsLock(s)'
      BY <1>10, <2>1
      DEF Begin, RunType, NoRun, Others, IInv, TypeOK, HoldsItsLock, Holding, Others, KeyOf,
          LockKey, Key
    <2>4. ToggleCounted' /\ RunningMeansRunning'
      BY <1>10, <2>1, Constants
      DEF Begin, RunType, NoRun, Others, IInv, TypeOK, ToggleCounted, RunningMeansRunning,
          Reports, Others
    <2> QED
      BY <2>2, <2>3, <2>4 DEF IInv
  <1>11. ASSUME NEW r \in Run, CallFails(r) PROVE IInv'
    <2>1. /\ run' \in [Run -> RunType] /\ Others(r)
          /\ \/ /\ run'[r].pc \in {"doneGet", "unlock"} /\ Holding(r)
                /\ run'[r].at = run[r].at /\ run'[r].lapsed = run[r].lapsed
             \/ run'[r].pc = "idle"
      <3>1. CASE Return(r)
        BY <3>1, ReturnFacts DEF IInv, TypeOK
      <3>2. CASE Carry(r, "unlock", NoTask) /\ Holding(r)
        BY <3>2, CarryFacts, Constants DEF IInv, TypeOK, Pc
      <3>3. CASE Report(r, TRUE) /\ Holding(r)
        BY <3>3, ReportFacts DEF IInv, TypeOK
      <3> QED
        BY <1>11, <3>1, <3>2, <3>3 DEF CallFails, Holding
    <2>2. TypeOK'
      BY <1>11, <2>1, Constants DEF CallFails, Fault, Holding, IInv, TypeOK
    <2>3. ASSUME NEW s \in Run PROVE HoldsItsLock(s)'
      BY <1>11, <2>1
      DEF CallFails, Fault, Holding, IInv, TypeOK, HoldsItsLock, Holding, Others, KeyOf,
          LockKey, Key
    <2>4. ToggleCounted' /\ RunningMeansRunning'
      BY <1>11, <2>1, Constants
      DEF CallFails, Fault, Holding, IInv, TypeOK, ToggleCounted, RunningMeansRunning,
          Reports, Others
    <2> QED
      BY <2>2, <2>3, <2>4 DEF IInv
  <1>12. ASSUME NEW r \in Run, Lapse(r) PROVE IInv'
    <2>1. /\ run' \in [Run -> RunType] /\ Others(r)
          /\ run'[r].pc = run[r].pc /\ run'[r].at = run[r].at /\ run'[r].lapsed = TRUE
      BY <1>12, SchedulerAssumption, Constants
      DEF Lapse, Fault, RunType, Others, IInv, TypeOK, Pc
    <2>2. lock' \in [Key -> Run \cup {"free", "orphan"}]
      BY <1>12 DEF Lapse, IInv, TypeOK
    <2>3. faults' \in 0 .. MaxFaults
      BY <1>12 DEF Lapse, Fault, IInv, TypeOK
    <2>4. TypeOK'
      BY <1>12, <2>1, <2>2, <2>3 DEF Lapse, IInv, TypeOK
    <2>5. ASSUME NEW s \in Run PROVE HoldsItsLock(s)'
      BY <1>12, <2>1
      DEF Lapse, Fault, RunType, Others, IInv, TypeOK, HoldsItsLock, Holding, Others, KeyOf,
          LockKey, Key
    <2>6. ToggleCounted' /\ RunningMeansRunning'
      BY <1>12, <2>1, Constants
      DEF Lapse, Fault, RunType, Others, IInv, TypeOK, ToggleCounted, RunningMeansRunning,
          Reports, Others
    <2> QED
      BY <2>4, <2>5, <2>6 DEF IInv
  <1>13. ASSUME NEW k \in Key, Expire(k) PROVE IInv'
    <2>1. TypeOK'
      BY <1>13, Constants DEF Expire, IInv, TypeOK
    <2>2. ASSUME NEW s \in Run PROVE HoldsItsLock(s)'
      BY <1>13, Constants
      DEF Expire, IInv, TypeOK, HoldsItsLock, Holding, KeyOf, LockKey, Key
    <2>3. ToggleCounted' /\ RunningMeansRunning'
      BY <1>13 DEF Expire, IInv, TypeOK, ToggleCounted, RunningMeansRunning, Reports
    <2> QED
      BY <2>1, <2>2, <2>3 DEF IInv
  <1>14. ASSUME NEW n \in Node, Crash(n) PROVE IInv'
    <2>1. TypeOK'
      BY <1>14, Constants DEF Crash, Fault, IInv, TypeOK
    <2>2. ASSUME NEW s \in Run PROVE HoldsItsLock(s)'
      BY <1>14, Constants
      DEF Crash, Fault, IInv, TypeOK, HoldsItsLock, Holding, KeyOf, LockKey, Key
    <2>3. ToggleCounted' /\ RunningMeansRunning'
      BY <1>14 DEF Crash, Fault, IInv, TypeOK, ToggleCounted, RunningMeansRunning, Reports
    <2> QED
      BY <2>1, <2>2, <2>3 DEF IInv
  <1>15. ASSUME NEW n \in Node, Restart(n) PROVE IInv'
    <2>1. TypeOK'
      BY <1>15, Constants DEF Restart, IInv, TypeOK
    <2>2. ASSUME NEW s \in Run PROVE HoldsItsLock(s)'
      BY <1>15, Constants
      DEF Restart, IInv, TypeOK, HoldsItsLock, Holding, KeyOf, LockKey, Key
    <2>3. ToggleCounted' /\ RunningMeansRunning'
      BY <1>15 DEF Restart, IInv, TypeOK, ToggleCounted, RunningMeansRunning, Reports
    <2> QED
      BY <2>1, <2>2, <2>3 DEF IInv
  <1>16. CASE ToggleRequest
    <2>1. PICK to \in BOOLEAN : toggle' = [NoToggle EXCEPT !.pc = "get", !.to = to]
      BY <1>16 DEF ToggleRequest
    <2>2. toggle' \in ToggleType
      BY <2>1, Constants DEF ToggleType
    <2>3. toggles \in Nat /\ toggles' = toggles + 1 /\ toggles' \in 0 .. MaxToggles
      BY <1>16 DEF ToggleRequest, IInv, TypeOK
    <2>4. TypeOK'
      BY <1>16, <2>2, <2>3 DEF ToggleRequest, IInv, TypeOK
    <2>5. ASSUME NEW s \in Run PROVE HoldsItsLock(s)'
      BY <1>16 DEF ToggleRequest, IInv, HoldsItsLock, Holding, KeyOf
    <2>6. ToggleCounted' /\ RunningMeansRunning'
      BY <1>16, <2>3 DEF ToggleRequest, ToggleCounted, RunningMeansRunning
    <2> QED
      BY <2>4, <2>5, <2>6 DEF IInv
  <1>17. CASE ToggleGet
    <2>1. TypeOK'
      BY <1>17, Constants, TaskEdits DEF ToggleGet, IInv, TypeOK, ToggleType, NoToggle
    <2>2. ASSUME NEW s \in Run PROVE HoldsItsLock(s)'
      BY <1>17 DEF ToggleGet, IInv, HoldsItsLock, Holding, KeyOf
    <2>3. ToggleCounted' /\ RunningMeansRunning'
      BY <1>17, Constants, TaskEdits
      DEF ToggleGet, IInv, TypeOK, ToggleType, ToggleCounted, RunningMeansRunning, Reports
    <2> QED
      BY <2>1, <2>2, <2>3 DEF IInv
  <1>18. CASE ToggleCreate
    <2>1. TypeOK'
      BY <1>18, Constants, TaskEdits DEF ToggleCreate, IInv, TypeOK, ToggleType, NoToggle
    <2>2. ASSUME NEW s \in Run PROVE HoldsItsLock(s)'
      BY <1>18 DEF ToggleCreate, IInv, HoldsItsLock, Holding, KeyOf
    <2>3. ToggleCounted' /\ RunningMeansRunning'
      BY <1>18, Constants, TaskEdits
      DEF ToggleCreate, IInv, TypeOK, ToggleType, ToggleCounted, RunningMeansRunning,
          Reports
    <2> QED
      BY <2>1, <2>2, <2>3 DEF IInv
  <1>19. CASE TogglePut
    <2>1. TypeOK'
      BY <1>19, Constants, TaskEdits DEF TogglePut, IInv, TypeOK, ToggleType, NoToggle
    <2>2. ASSUME NEW s \in Run PROVE HoldsItsLock(s)'
      BY <1>19 DEF TogglePut, IInv, HoldsItsLock, Holding, KeyOf
    <2>3. ToggleCounted' /\ RunningMeansRunning'
      BY <1>19, Constants DEF TogglePut, IInv, TypeOK, ToggleCounted, RunningMeansRunning
    <2> QED
      BY <2>1, <2>2, <2>3 DEF IInv
  <1>20. CASE TimePasses
    <2>1. /\ run' \in [Run -> RunType]
          /\ \A r \in Run : /\ run'[r].pc = run[r].pc /\ run'[r].at = run[r].at
                            /\ run'[r].lapsed = run[r].lapsed
      <3>1. run \in [Run -> RunType] /\ run' = [r \in Run |-> [run[r] EXCEPT !.got = Aged(run[r].got)]]
        BY <1>20 DEF TimePasses, IInv, TypeOK
      <3>2. ASSUME NEW r \in Run
            PROVE  /\ [run[r] EXCEPT !.got = Aged(run[r].got)] \in RunType
                   /\ run'[r].pc = run[r].pc /\ run'[r].at = run[r].at
                   /\ run'[r].lapsed = run[r].lapsed
        <4>1. run[r].got \in Task
          BY <3>1 DEF RunType
        <4>2. Aged(run[r].got) \in Task
          BY <4>1, TaskEdits
        <4> QED
          BY <3>1, <4>2 DEF RunType
      <3> QED
        BY <3>1, <3>2
    <2>2. TypeOK'
      <3>1. task' \in Task /\ task'.status = task.status
        BY <1>20, TaskEdits DEF TimePasses, IInv, TypeOK
      <3>2. toggle' \in ToggleType
        <4>1. Aged(toggle.got) \in Task
          BY TaskEdits DEF IInv, TypeOK, ToggleType
        <4> QED
          BY <1>20, <4>1 DEF TimePasses, IInv, TypeOK, ToggleType
      <3> QED
        BY <1>20, <2>1, <3>1, <3>2 DEF TimePasses, IInv, TypeOK
    <2>3. ASSUME NEW s \in Run PROVE HoldsItsLock(s)'
      BY <1>20, <2>1 DEF TimePasses, IInv, HoldsItsLock, Holding, KeyOf
    <2>4. ToggleCounted' /\ RunningMeansRunning'
      BY <1>20, <2>1, TaskEdits
      DEF TimePasses, IInv, TypeOK, ToggleType, ToggleCounted, RunningMeansRunning, Reports
    <2> QED
      BY <2>2, <2>3, <2>4 DEF IInv
  <1>21. CASE UNCHANGED vars
    BY <1>21
    DEF vars, IInv, TypeOK, HoldsItsLock, Holding, KeyOf, ToggleCounted,
        RunningMeansRunning, Reports
  <1> QED
    BY <1>1, <1>2, <1>3, <1>4, <1>5, <1>6, <1>7, <1>8, <1>9, <1>10, <1>11, <1>12, <1>13,
       <1>14, <1>15, <1>16, <1>17, <1>18, <1>19, <1>20, <1>21
    DEF Next, Step, Toggle

LEMMA IInvAlways == Safety => []IInv
  BY InitInv, NextInv, PTL DEF Safety

\* Stale records that are written back whole are still records.
THEOREM TypeCorrect == Safety => []TypeOK
  <1>1. IInv => TypeOK
    BY DEF IInv
  <1> QED
    BY <1>1, IInvAlways, PTL

\* withLock (scheduler.js) keeps overlapping runs of a task apart, per node or
\* for the whole cluster, until a lease lapses.
THEOREM LockIsExclusive == Safety => []OneRunPerKey
  <1>1. IInv => OneRunPerKey
    BY DEF IInv, HoldsItsLock, OneRunPerKey
  <1> QED
    BY <1>1, IInvAlways, PTL

\* In a cluster where nothing fails and nobody toggles the task, its status is
\* never left at "running": the last writer is always a run that reports.
THEOREM RunningIsReported == Safety => []RunningMeansRunning
  <1>1. IInv => RunningMeansRunning
    BY DEF IInv
  <1> QED
    BY <1>1, IInvAlways, PTL

-----------------------------------------------------------------------------
(* withLock implements LeaseLock.                                          *)

\* A lock key names a run that is in the callback under that key.
OwnersHold == \A k \in Key : lock[k] \in Run => Holding(lock[k]) /\ KeyOf(lock[k]) = k

LInv == IInv /\ OwnersHold

\* Which callback every run is in: what inside stands for.
InsideOf == [r \in Run |-> IF Holding(r) THEN KeyOf(r) ELSE "none"]

\* A step that neither enters nor leaves a callback, nor touches a lock key.
Unmoved ==
    /\ lock' = lock
    /\ \A r \in Run : /\ Holding(r)' <=> Holding(r)
                      /\ Holding(r) => KeyOf(r)' = KeyOf(r)

LEMMA KeysAreKeys == ASSUME IInv, NEW r \in Run, Holding(r)
                     PROVE  KeyOf(r) \in Key /\ KeyOf(r) # "none"
  BY SchedulerAssumption DEF IInv, TypeOK, HoldsItsLock, Holding, KeyOf, LockKey, Key, RunType

LEMMA UnmovedStutters == ASSUME Unmoved, OwnersHold PROVE InsideOf' = InsideOf /\ OwnersHold'
  BY DEF Unmoved, OwnersHold, InsideOf

\* A run that goes on within its callback, or outside of it.
LEMMA SamePlace ==
    ASSUME IInv, NEW r \in Run, Others(r), lock' = lock,
           Holding(r)' <=> Holding(r), Holding(r) => run'[r].at = run[r].at
    PROVE  Unmoved
  BY DEF Unmoved, Others, Holding, KeyOf

LEMMA AcquireTakes == ASSUME LInv, NEW r \in Run, Acquire(r)
                      PROVE  Unmoved \/ (Abstract!Take(r, KeyOf(r)) /\ KeyOf(r) \in Key /\ OwnersHold')
  <1> USE SchedulerAssumption
  <1>1. CASE lock[KeyOf(r)] = "free"
    <2>1. run' \in [Run -> RunType] /\ run'[r].pc = "markGet" /\ run'[r].at = run[r].at /\ Others(r)
      BY <1>1, GoToFacts DEF Acquire, LInv, IInv, TypeOK, Pc
    <2>2. KeyOf(r) \in Key /\ ~Holding(r) /\ Holding(r)' /\ KeyOf(r)' = KeyOf(r)
      BY <2>1 DEF Acquire, LInv, IInv, HoldsItsLock, Holding, KeyOf, LockKey, Key
    <2>3. lock' = [lock EXCEPT ![KeyOf(r)] = r]
      BY <1>1 DEF Acquire
    <2>4. InsideOf' = [InsideOf EXCEPT ![r] = KeyOf(r)]
      BY <2>1, <2>2 DEF InsideOf, Others, Holding, KeyOf
    <2>5. OwnersHold'
      BY <2>1, <2>2, <2>3 DEF LInv, IInv, TypeOK, OwnersHold, Others, Holding, KeyOf
    <2>6. InsideOf[r] = "none"
      BY <2>2 DEF InsideOf
    <2> QED
      BY <1>1, <2>2, <2>3, <2>4, <2>5, <2>6 DEF Abstract!Take, InsideOf
  <1>2. CASE lock[KeyOf(r)] # "free"
    <2>1. Return(r) /\ lock' = lock /\ run[r].pc = "lock"
      BY <1>2 DEF Acquire
    <2>2. run'[r].pc = "idle" /\ Others(r)
      BY <2>1, ReturnFacts DEF LInv, IInv, TypeOK
    <2> QED
      BY <2>1, <2>2, SamePlace DEF Holding, LInv
  <1> QED
    BY <1>1, <1>2

LEMMA UnlockLeaves == ASSUME LInv, NEW r \in Run, Unlock(r)
                      PROVE  Abstract!Leave(r) /\ OwnersHold'
  <1> USE SchedulerAssumption
  <1>1. Holding(r) /\ KeyOf(r) \in Key /\ KeyOf(r) # "none"
    BY KeysAreKeys DEF Unlock, Holding, LInv
  <1>2. run'[r].pc = "idle" /\ Others(r)
    BY ReturnFacts DEF Unlock, LInv, IInv, TypeOK
  <1>3. PICK left \in {"free", "orphan"} :
            lock' = [lock EXCEPT ![KeyOf(r)] = IF lock[KeyOf(r)] = r THEN left ELSE lock[KeyOf(r)]]
    BY DEF Unlock
  <1>4. \A k \in Key : lock[k] = r => k = KeyOf(r)
    BY DEF LInv, OwnersHold
  <1>5. lock' = [k \in Key |-> IF lock[k] = r THEN left ELSE lock[k]]
    BY <1>1, <1>3, <1>4 DEF LInv, IInv, TypeOK
  <1>6. InsideOf' = [InsideOf EXCEPT ![r] = "none"] /\ InsideOf[r] = KeyOf(r)
    BY <1>1, <1>2 DEF InsideOf, Others, Holding, KeyOf
  <1>7. OwnersHold'
    BY <1>2, <1>5 DEF LInv, OwnersHold, Others, Holding, KeyOf
  <1> QED
    BY <1>1, <1>5, <1>6, <1>7 DEF Abstract!Leave, InsideOf

LEMMA CrashKills == ASSUME LInv, NEW n \in Node, Crash(n)
                    PROVE  (\E dead \in SUBSET Run : Abstract!Die(dead)) /\ OwnersHold'
  <1> DEFINE dead == {r \in Run : run[r].at = n}
  <1> USE SchedulerAssumption
  <1>1. lock' = [k \in Key |-> IF lock[k] \in dead THEN "orphan" ELSE lock[k]]
    BY DEF Crash
  <1>2. \A r \in Run : (r \in dead => ~Holding(r)') /\ (r \notin dead => run'[r] = run[r])
    BY Constants DEF Crash, Holding
  <1>3. InsideOf' = [r \in Run |-> IF r \in dead THEN "none" ELSE InsideOf[r]]
    BY <1>2 DEF InsideOf, Holding, KeyOf
  <1>4. OwnersHold'
    BY <1>1, <1>2 DEF LInv, OwnersHold, Holding, KeyOf
  <1>5. Abstract!Die(dead)
    BY <1>1, <1>3 DEF Abstract!Die, InsideOf
  <1> QED
    BY <1>4, <1>5

LEMMA LapseLapses == ASSUME LInv, NEW r \in Run, Lapse(r)
                     PROVE  Abstract!LapseUnder(KeyOf(r)) /\ KeyOf(r) \in Key /\ OwnersHold'
  <1> USE SchedulerAssumption
  <1>1. Holding(r) /\ KeyOf(r) \in Key /\ lock[KeyOf(r)] = r
    BY KeysAreKeys DEF Lapse, LInv
  <1>2. lock' = [lock EXCEPT ![KeyOf(r)] = "free"]
    BY DEF Lapse
  <1>3. \A s \in Run : run'[s].pc = run[s].pc /\ run'[s].at = run[s].at
    BY DEF Lapse, LInv, IInv, TypeOK, RunType
  <1>4. InsideOf' = InsideOf
    BY <1>3 DEF InsideOf, Holding, KeyOf
  <1>5. OwnersHold'
    BY <1>1, <1>2, <1>3 DEF LInv, IInv, TypeOK, OwnersHold, Holding, KeyOf
  <1> QED
    BY <1>1, <1>2, <1>4, <1>5 DEF Abstract!LapseUnder, InsideOf

LEMMA ExpireFrees == ASSUME LInv, NEW k \in Key, Expire(k)
                     PROVE  Abstract!ExpireKey(k) /\ OwnersHold'
  <1> USE SchedulerAssumption
  <1>1. lock[k] = "orphan" /\ lock' = [lock EXCEPT ![k] = "free"] /\ run' = run
    BY DEF Expire
  <1>2. InsideOf' = InsideOf
    BY <1>1 DEF InsideOf, Holding, KeyOf
  <1>3. OwnersHold'
    BY <1>1 DEF LInv, IInv, TypeOK, OwnersHold, Holding, KeyOf
  <1> QED
    BY <1>1, <1>2, <1>3 DEF Abstract!ExpireKey, InsideOf

\* The other steps of a run stay on the side of the lock they are on.
LEMMA StepsStay == ASSUME LInv, NEW r \in Run,
                          \/ GetTask(r) \/ CreateTask(r) \/ MarkGet(r) \/ MarkPut(r)
                          \/ Exec(r) \/ DoneGet(r) \/ DonePut(r)
                   PROVE  Unmoved
  <1>1. run \in [Run -> RunType] /\ task \in Task /\ IInv
    BY DEF LInv, IInv, TypeOK
  <1>2. CASE GetTask(r)
    <2>1. Others(r) /\ run'[r].pc \in {"idle", "create", "lock"} /\ run[r].pc = "get" /\ lock' = lock
      BY <1>1, <1>2, GoToFacts, ReturnFacts DEF GetTask, Pc
    <2> QED
      BY <1>1, <2>1, SamePlace DEF Holding
  <1>3. CASE CreateTask(r)
    <2>1. Others(r) /\ run'[r].pc \in {"idle", "lock"} /\ run[r].pc = "create" /\ lock' = lock
      BY <1>1, <1>3, GoToFacts, ReturnFacts DEF CreateTask, Pc
    <2> QED
      BY <1>1, <2>1, SamePlace DEF Holding
  <1>4. CASE MarkGet(r) \/ MarkPut(r) \/ DoneGet(r) \/ DonePut(r)
    <2>1. /\ Others(r) /\ lock' = lock /\ run'[r].at = run[r].at
          /\ run'[r].pc \in {"markPut", "exec", "donePut", "unlock"} /\ Holding(r)
      BY <1>1, <1>4, CarryFacts, Constants
      DEF MarkGet, MarkPut, DoneGet, DonePut, Pc, Holding
    <2> QED
      BY <1>1, <2>1, SamePlace DEF Holding
  <1>5. CASE Exec(r)
    <2>1. /\ Others(r) /\ lock' = lock /\ run'[r].at = run[r].at
          /\ run'[r].pc = "doneGet" /\ run[r].pc = "exec"
      BY <1>1, <1>5, ReportFacts DEF Exec
    <2> QED
      BY <1>1, <2>1, SamePlace DEF Holding
  <1> QED
    BY <1>2, <1>3, <1>4, <1>5

LEMMA FailuresStay == ASSUME LInv, NEW r \in Run, CallFails(r) PROVE Unmoved
  <1>1. run \in [Run -> RunType] /\ IInv /\ lock' = lock
    BY DEF LInv, IInv, TypeOK, CallFails
  <1>2. CASE run[r].pc \in {"get", "create", "lock"} /\ Return(r)
    BY <1>1, <1>2, ReturnFacts, SamePlace DEF Holding
  <1>3. CASE run[r].pc \in {"markGet", "markPut", "doneGet", "donePut"} /\ Carry(r, "unlock", NoTask)
    <2>1. Others(r) /\ run'[r].at = run[r].at /\ run'[r].pc = "unlock"
      BY <1>1, <1>3, CarryFacts, Constants DEF Pc
    <2> QED
      BY <1>1, <1>3, <2>1, SamePlace DEF Holding
  <1>4. CASE run[r].pc \in {"doneGet", "donePut"} /\ Report(r, TRUE)
    <2>1. Others(r) /\ run'[r].at = run[r].at /\ run'[r].pc = "doneGet"
      BY <1>1, <1>4, ReportFacts
    <2> QED
      BY <1>1, <1>4, <2>1, SamePlace DEF Holding
  <1> QED
    BY <1>2, <1>3, <1>4 DEF CallFails

LEMMA BeginningsStay ==
    ASSUME LInv, NEW r \in Run, NEW n \in Node, NEW kind \in {"interval", "trigger", "list"},
           Begin(r, n, kind)
    PROVE  Unmoved
  <1>1. run \in [Run -> RunType] /\ IInv /\ lock' = lock /\ run[r].pc = "idle"
    BY DEF LInv, IInv, TypeOK, Begin
  <1>2. [NoRun EXCEPT !.pc = "get", !.kind = kind, !.at = n].pc = "get"
    BY DEF NoRun
  <1>3. run'[r].pc = "get" /\ Others(r)
    BY <1>1, <1>2 DEF Begin, Others
  <1> QED
    BY <1>1, <1>3, SamePlace DEF Holding

LEMMA RestStays == ASSUME LInv, \/ Toggle \/ TimePasses \/ UNCHANGED vars
                                \/ \E n \in Node : Restart(n)
                   PROVE  Unmoved
  <1>1. CASE TimePasses
    <2>1. \A r \in Run : run'[r].pc = run[r].pc /\ run'[r].at = run[r].at
      BY <1>1 DEF TimePasses, LInv, IInv, TypeOK, RunType
    <2> QED
      BY <1>1, <2>1 DEF TimePasses, Unmoved, Holding, KeyOf
  <1>2. CASE run' = run /\ lock' = lock
    BY <1>2 DEF Unmoved, Holding, KeyOf
  <1> QED
    BY <1>1, <1>2
    DEF Toggle, ToggleRequest, ToggleGet, ToggleCreate, TogglePut, Restart, vars

LEMMA LockStep == ASSUME LInv, [Next]_vars
                  PROVE  [Abstract!LockNext]_(Abstract!lockVars) /\ OwnersHold'
  <1>1. CASE Unmoved
    <2>1. InsideOf' = InsideOf /\ lock' = lock /\ OwnersHold'
      BY <1>1, UnmovedStutters DEF LInv, Unmoved
    <2> QED
      BY <2>1 DEF Abstract!lockVars, InsideOf
  <1>2. ASSUME NEW r \in Run, Step(r) PROVE [Abstract!LockNext]_(Abstract!lockVars) /\ OwnersHold'
    BY <1>1, <1>2, StepsStay, AcquireTakes, UnlockLeaves DEF Step, Abstract!LockNext
  <1>3. ASSUME NEW r \in Run, Lapse(r) PROVE [Abstract!LockNext]_(Abstract!lockVars) /\ OwnersHold'
    BY <1>3, LapseLapses DEF Abstract!LockNext
  <1>4. ASSUME NEW k \in Key, Expire(k) PROVE [Abstract!LockNext]_(Abstract!lockVars) /\ OwnersHold'
    BY <1>4, ExpireFrees DEF Abstract!LockNext
  <1>5. ASSUME NEW n \in Node, Crash(n) PROVE [Abstract!LockNext]_(Abstract!lockVars) /\ OwnersHold'
    BY <1>5, CrashKills DEF Abstract!LockNext
  <1> QED
    BY <1>1, <1>2, <1>3, <1>4, <1>5, FailuresStay, BeginningsStay, RestStays DEF Next

\* withLock keeps the promise of a lock in etcd: it enters its callback only by
\* creating a key that did not exist, it frees no key but its own, and a key
\* changes hands in no other way, whatever fails, crashes or lapses.
THEOREM ImplementsLock == Safety => LocksRefine
  <1>1. Init => LInv /\ Abstract!LockInit
    <2>1. Init => OwnersHold
      BY SchedulerAssumption DEF Init, OwnersHold
    <2>2. Init => Abstract!LockInit
      BY Constants DEF Init, Abstract!LockInit, Holding
    <2> QED
      BY <2>1, <2>2, InitInv DEF LInv
  <1>2. LInv /\ [Next]_vars => LInv' /\ [Abstract!LockNext]_(Abstract!lockVars)
    BY LockStep, NextInv DEF LInv
  <1> QED
    BY <1>1, <1>2, PTL DEF Safety, LocksRefine, Abstract!LockSpec
=============================================================================
