---------------------------- MODULE EphemeralTask ----------------------------
(***************************************************************************)
(* runEphemeralTask of backend/services/ephemeral-tasks.js: a container    *)
(* that runs one command, with its secrets in files on the host that are   *)
(* mounted into it. Two runs may be under way, and each has a directory of *)
(* its own.                                                                *)
(***************************************************************************)
EXTENDS Naturals, FiniteSets

CONSTANTS
    TaskRun,      \* runs, which happen once each
    Secret,       \* the secrets of a run
    TMaxFaults    \* bound: calls that fail and crashes of the backend

ASSUME EphemeralTaskAssumption == IsFiniteSet(Secret) /\ TMaxFaults \in Nat

VARIABLES
    xPc,         \* xPc[r]: where the run r is
    xFiles,      \* xFiles[r]: its secret files on the host
    xListed,     \* xListed[r]: secretCleanups has its directory
    xCtr,        \* xCtr[r]: its container
    xCut,        \* xCut[r]: it was left half way by a crash, or in the middle of its secrets
    xStray,      \* xStray[r]: its container could not be removed
    xFaults

taskVars == <<xPc, xFiles, xListed, xCtr, xCut, xStray, xFaults>>

TaskTypeOK ==
    /\ xPc \in [TaskRun -> {"new", "pull", "write", "create", "start", "wait", "remove",
                            "clean", "throw", "done", "failed", "dead"}]
    /\ xFiles \in [TaskRun -> SUBSET Secret] /\ xListed \in [TaskRun -> BOOLEAN]
    /\ xCtr \in [TaskRun -> {"none", "created", "running", "exited"}]
    /\ xCut \in [TaskRun -> BOOLEAN] /\ xStray \in [TaskRun -> BOOLEAN]
    /\ xFaults \in 0 .. TMaxFaults

TaskInit ==
    /\ xPc = [r \in TaskRun |-> "new"]
    /\ xFiles = [r \in TaskRun |-> {}] /\ xListed = [r \in TaskRun |-> FALSE]
    /\ xCtr = [r \in TaskRun |-> "none"]
    /\ xCut = [r \in TaskRun |-> FALSE] /\ xStray = [r \in TaskRun |-> FALSE]
    /\ xFaults = 0

TaskFault == xFaults < TMaxFaults /\ xFaults' = xFaults + 1
TaskWorks == UNCHANGED xFaults
TaskGo(r, pc) == xPc' = [xPc EXCEPT ![r] = pc]

-----------------------------------------------------------------------------
Begin(r) ==
    /\ xPc[r] = "new" /\ TaskGo(r, "pull")
    /\ UNCHANGED <<xFiles, xListed, xCtr, xCut, xStray, xFaults>>

Pull(r) ==
    /\ xPc[r] = "pull"
    /\ (TaskWorks /\ TaskGo(r, "write")) \/ (TaskFault /\ TaskGo(r, "throw"))
    /\ UNCHANGED <<xFiles, xListed, xCtr, xCut, xStray>>

\* Every secret in a file of its own, without a pause. The directory is noted
\* for the clean-up after the last one: an error before that leaves the files.
WriteSecrets(r) ==
    /\ xPc[r] = "write"
    /\ \/ /\ TaskWorks /\ TaskGo(r, "create")
          /\ xFiles' = [xFiles EXCEPT ![r] = Secret]
          /\ xListed' = [xListed EXCEPT ![r] = TRUE] /\ UNCHANGED xCut
       \/ /\ TaskFault /\ TaskGo(r, "throw")
          /\ \E S \in SUBSET Secret : S # Secret /\ xFiles' = [xFiles EXCEPT ![r] = S]
          /\ xCut' = [xCut EXCEPT ![r] = TRUE] /\ UNCHANGED xListed
    /\ UNCHANGED <<xCtr, xStray>>

\* Docker may have created the container though the answer is an error.
CreateTask(r) ==
    /\ xPc[r] = "create"
    /\ \/ /\ TaskWorks /\ TaskGo(r, "start") /\ xCtr' = [xCtr EXCEPT ![r] = "created"]
          /\ UNCHANGED xStray
       \/ /\ TaskFault /\ TaskGo(r, "throw")
          /\ xCtr' \in {xCtr, [xCtr EXCEPT ![r] = "created"]}
          /\ xStray' = [xStray EXCEPT ![r] = xCtr'[r] # "none"]
    /\ UNCHANGED <<xFiles, xListed, xCut>>

\* From here on "finally" removes the container and the secrets.
StartTask(r) ==
    /\ xPc[r] = "start"
    /\ \/ TaskWorks /\ TaskGo(r, "wait") /\ xCtr' = [xCtr EXCEPT ![r] = "running"]
       \/ TaskFault /\ TaskGo(r, "remove") /\ UNCHANGED xCtr
    /\ UNCHANGED <<xFiles, xListed, xCut, xStray>>

\* The command ends; wait and logs return, or fail while it runs on.
WaitTask(r) ==
    /\ xPc[r] = "wait" /\ TaskGo(r, "remove")
    /\ \/ TaskWorks /\ xCtr' = [xCtr EXCEPT ![r] = "exited"]
       \/ TaskFault /\ UNCHANGED xCtr
    /\ UNCHANGED <<xFiles, xListed, xCut, xStray>>

\* Docker does not remove a container that runs; a failure is logged.
RemoveTask(r) ==
    /\ xPc[r] = "remove" /\ TaskGo(r, "clean")
    /\ \/ /\ TaskWorks /\ xCtr[r] # "running"
          /\ xCtr' = [xCtr EXCEPT ![r] = "none"] /\ UNCHANGED xStray
       \/ /\ (TaskWorks /\ xCtr[r] = "running") \/ TaskFault
          /\ xStray' = [xStray EXCEPT ![r] = TRUE] /\ UNCHANGED xCtr
    /\ UNCHANGED <<xFiles, xListed, xCut>>

\* Mutant of CleanUp: the error path has no clean-up of its own.
CleanUpInFinally(r) ==
    /\ xPc[r] \in {"clean", "throw"}
    /\ TaskGo(r, IF xPc[r] = "clean" THEN "done" ELSE "failed")
    /\ xFiles' = IF xPc[r] = "clean" THEN [xFiles EXCEPT ![r] = {}] ELSE xFiles
    /\ UNCHANGED <<xListed, xCtr, xCut, xStray, xFaults>>

\* Mutant of CleanUp: the runs share one directory.
CleanUpAll(r) ==
    /\ xPc[r] \in {"clean", "throw"}
    /\ TaskGo(r, IF xPc[r] = "clean" THEN "done" ELSE "failed")
    /\ xFiles' = IF xListed[r] THEN [q \in TaskRun |-> {}] ELSE xFiles
    /\ UNCHANGED <<xListed, xCtr, xCut, xStray, xFaults>>

CleanUp(r) ==
    /\ xPc[r] \in {"clean", "throw"}
    /\ TaskGo(r, IF xPc[r] = "clean" THEN "done" ELSE "failed")
    /\ xFiles' = IF xListed[r] THEN [xFiles EXCEPT ![r] = {}] ELSE xFiles
    /\ UNCHANGED <<xListed, xCtr, xCut, xStray, xFaults>>

\* The backend dies: its runs are nobody's, and a command that runs goes on.
TaskBackendDies ==
    /\ TaskFault
    /\ LET half == {r \in TaskRun : xPc[r] \notin {"new", "done", "failed", "dead"}}
       IN  /\ xPc' = [r \in TaskRun |-> IF r \in half THEN "dead" ELSE xPc[r]]
           /\ xCut' = [r \in TaskRun |-> xCut[r] \/ r \in half]
    /\ UNCHANGED <<xFiles, xListed, xCtr, xStray>>

-----------------------------------------------------------------------------
TaskStep(r) ==
    \/ Pull(r) \/ WriteSecrets(r) \/ CreateTask(r) \/ StartTask(r) \/ WaitTask(r)
    \/ RemoveTask(r) \/ CleanUp(r)
TaskNext == (\E r \in TaskRun : Begin(r) \/ TaskStep(r)) \/ TaskBackendDies

TaskSpec == TaskInit /\ [][TaskNext]_taskVars

-----------------------------------------------------------------------------
(* Properties.                                                             *)

\* When a run is over its secrets are off the host and its container is gone,
\* whichever of its calls failed, but for an error in the middle of the secrets,
\* a container Docker would not remove and a crash: nothing looks for those.
NothingStays ==
    \A r \in TaskRun : xPc[r] \in {"done", "failed"} =>
        (xCut[r] \/ xFiles[r] = {}) /\ (xStray[r] \/ xCtr[r] = "none")

\* The files are there as long as the command may read them.
SecretsStay == \A r \in TaskRun : xPc[r] \in {"start", "wait"} => xFiles[r] = Secret
=============================================================================
