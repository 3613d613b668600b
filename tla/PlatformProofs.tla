--------------------------- MODULE PlatformProofs ---------------------------
(***************************************************************************)
(* The parts of one node, for any numbers of browsers, containers, nodes,  *)
(* runs and faults, and from those and the proofs of the other parts what  *)
(* the whole platform keeps.                                               *)
(***************************************************************************)
EXTENDS MCPlatform, SessionsProofs, ClusterProofs, FiniteSetTheorems, TLAPS

-----------------------------------------------------------------------------
(* Ephemeral tasks (EphemeralTask).                                       *)

\* What holds between the calls of one run: its secrets are listed as soon as
\* they are there, and from then on nothing but the clean-up touches them.
BetweenCalls(r) ==
    /\ xPc[r] \in {"new", "pull", "write"} => xFiles[r] = {} /\ xCtr[r] = "none"
    /\ xPc[r] = "create" => xFiles[r] = Secret /\ xListed[r] /\ xCtr[r] = "none"
    /\ xPc[r] \in {"start", "wait", "remove", "clean"} => xFiles[r] = Secret /\ xListed[r]
    /\ xPc[r] = "throw" => xCut[r] \/ xListed[r] \/ xFiles[r] = {}
    /\ xPc[r] \in {"clean", "throw", "done", "failed"} => xStray[r] \/ xCtr[r] = "none"
    /\ xPc[r] \in {"done", "failed"} => xCut[r] \/ xFiles[r] = {}

TaskInv == TaskTypeOK /\ \A r \in TaskRun : BetweenCalls(r)

-----------------------------------------------------------------------------
LEMMA TaskInitHolds == TaskInit => TaskInv
BY EphemeralTaskAssumption DEF TaskInit, TaskInv, TaskTypeOK, BetweenCalls

LEMMA TaskFaultsCounted ==
    ASSUME xFaults \in 0 .. TMaxFaults, TaskWorks \/ TaskFault
    PROVE  xFaults' \in 0 .. TMaxFaults
BY EphemeralTaskAssumption DEF TaskWorks, TaskFault

LEMMA TaskStepHolds == TaskInv /\ [TaskNext]_taskVars => TaskInv'
<1> SUFFICES ASSUME TaskInv, [TaskNext]_taskVars PROVE TaskInv'
    OBVIOUS
<1> USE DEF TaskInv, TaskTypeOK, BetweenCalls, TaskGo
<1>1. ASSUME NEW r \in TaskRun, Begin(r) PROVE TaskInv'
    BY <1>1 DEF Begin
<1>2. ASSUME NEW r \in TaskRun, Pull(r) PROVE TaskInv'
    BY <1>2, TaskFaultsCounted DEF Pull
<1>3. ASSUME NEW r \in TaskRun, WriteSecrets(r) PROVE TaskInv'
  <2>1. CASE TaskWorks /\ TaskGo(r, "create") /\ xFiles' = [xFiles EXCEPT ![r] = Secret]
              /\ xListed' = [xListed EXCEPT ![r] = TRUE] /\ UNCHANGED xCut
    <3>1. TaskTypeOK'
        BY <1>3, <2>1, TaskFaultsCounted DEF WriteSecrets
    <3>2. ASSUME NEW q \in TaskRun PROVE BetweenCalls(q)'
        BY <1>3, <2>1 DEF WriteSecrets
    <3> QED
        BY <3>1, <3>2
  <2>2. ASSUME NEW S \in SUBSET Secret, TaskFault, TaskGo(r, "throw"),
               xFiles' = [xFiles EXCEPT ![r] = S], xCut' = [xCut EXCEPT ![r] = TRUE],
               UNCHANGED xListed
        PROVE  TaskInv'
    <3>1. TaskTypeOK'
        BY <1>3, <2>2, TaskFaultsCounted DEF WriteSecrets
    <3>2. ASSUME NEW q \in TaskRun PROVE BetweenCalls(q)'
        BY <1>3, <2>2 DEF WriteSecrets
    <3> QED
        BY <3>1, <3>2
  <2> QED
    BY <1>3, <2>1, <2>2 DEF WriteSecrets
<1>4. ASSUME NEW r \in TaskRun, CreateTask(r) PROVE TaskInv'
    BY <1>4, TaskFaultsCounted DEF CreateTask
<1>5. ASSUME NEW r \in TaskRun, StartTask(r) PROVE TaskInv'
    BY <1>5, TaskFaultsCounted DEF StartTask
<1>6. ASSUME NEW r \in TaskRun, WaitTask(r) PROVE TaskInv'
    BY <1>6, TaskFaultsCounted DEF WaitTask
<1>7. ASSUME NEW r \in TaskRun, RemoveTask(r) PROVE TaskInv'
    BY <1>7, TaskFaultsCounted DEF RemoveTask
<1>8. ASSUME NEW r \in TaskRun, CleanUp(r) PROVE TaskInv'
    BY <1>8 DEF CleanUp
<1>9. ASSUME TaskBackendDies PROVE TaskInv'
    BY <1>9, TaskFaultsCounted DEF TaskBackendDies
<1>10. CASE UNCHANGED taskVars
    BY <1>10 DEF taskVars
<1> QED
    BY <1>1, <1>2, <1>3, <1>4, <1>5, <1>6, <1>7, <1>8, <1>9, <1>10 DEF TaskNext, TaskStep

LEMMA TaskInvariance == TaskSpec => []TaskInv
BY TaskInitHolds, TaskStepHolds, PTL DEF TaskSpec

-----------------------------------------------------------------------------
\* Every variable of the runs stays in its type.
THEOREM TaskTypeCorrect == TaskSpec => []TaskTypeOK
<1>1. TaskInv => TaskTypeOK
    BY DEF TaskInv
<1> QED
    BY <1>1, TaskInvariance, PTL

\* The secrets of a run are in its files for as long as its command may read
\* them: neither another run nor an error takes them away before.
THEOREM SecretsAreThere == TaskSpec => []SecretsStay
<1>1. TaskInv => SecretsStay
    BY DEF TaskInv, BetweenCalls, SecretsStay
<1> QED
    BY <1>1, TaskInvariance, PTL

\* A run that is over, well or not, leaves neither secrets nor a container, but
\* for an error in the middle of writing the secrets and a container Docker
\* would not remove.
THEOREM TasksCleanUp == TaskSpec => []NothingStays
<1>1. TaskInv => NothingStays
    BY DEF TaskInv, BetweenCalls, NothingStays
<1> QED
    BY <1>1, TaskInvariance, PTL

-----------------------------------------------------------------------------
(* Event streams (EventStream).                                           *)

Open == {b \in Browser : ePc[b] \in {"waiting", "live", "deaf"}}

\* The stats of a connection nobody hurried: one answer is due at most, on a
\* connection that is there and has no stream yet.
StatsInOrder(b) ==
    ~eStat[b].hurried =>
        /\ ~eStat[b].loose /\ (ePc[b] # "live" => ~eStat[b].mapped)
        /\ eStat[b].asked > 0 => eStat[b].asked = 1 /\ ~eStat[b].mapped /\ ePc[b] = "live"

\* The variables in their types; what bounds eMissed is the count of the slots.
EvTypes ==
    /\ ePc \in [Browser -> {"idle", "waiting", "live", "deaf", "gone"}]
    /\ eFetch \in [Browser -> {"none", "nodes", "fetch"}]
    /\ eStat \in [Browser -> StatType]
    /\ rPc \in {"idle", "waiting", "live", "deaf", "stuck"}
    /\ rProxy \in BOOLEAN /\ rOwner \in Browser \cup {Nobody, Ghost}
    /\ eFaults \in 0 .. EvMaxFaults

SlotsCounted ==
    /\ IsFiniteSet(Open) /\ eMissed \in Nat
    /\ eSlots = Cardinality(Open) + eMissed /\ eSlots <= MaxPerIp

EvInv == EvTypes /\ SlotsCounted /\ \A b \in Browser : StatsInOrder(b)

\* The slots after a step that opens b, closes it, or neither.
LEMMA SlotsMove ==
    ASSUME SlotsCounted, NEW b \in Browser,
           \/ /\ b \notin Open /\ Open' = Open \cup {b} /\ eMissed' = eMissed
              /\ eSlots < MaxPerIp /\ eSlots' = eSlots + 1
           \/ /\ b \in Open /\ Open' = Open \ {b}
              /\ \/ eMissed' = eMissed /\ eSlots' = eSlots - 1
                 \/ eMissed' = eMissed + 1 /\ eSlots' = eSlots
           \/ Open' = Open /\ eMissed' = eMissed /\ eSlots' = eSlots
    PROVE  SlotsCounted'
<1>1. IsFiniteSet(Open) /\ Cardinality(Open) \in Nat /\ eMissed \in Nat /\ MaxPerIp \in Nat
    BY FS_CardinalityType, EventStreamAssumption DEF SlotsCounted
<1>2. CASE /\ b \notin Open /\ Open' = Open \cup {b} /\ eMissed' = eMissed
           /\ eSlots < MaxPerIp /\ eSlots' = eSlots + 1
    <2>1. IsFiniteSet(Open') /\ Cardinality(Open') = Cardinality(Open) + 1
        BY <1>1, <1>2, FS_AddElement
    <2> QED
        BY <1>1, <1>2, <2>1 DEF SlotsCounted
<1>3. CASE /\ b \in Open /\ Open' = Open \ {b}
           /\ \/ eMissed' = eMissed /\ eSlots' = eSlots - 1
              \/ eMissed' = eMissed + 1 /\ eSlots' = eSlots
    <2>1. IsFiniteSet(Open') /\ Cardinality(Open') = Cardinality(Open) - 1
        BY <1>1, <1>3, FS_RemoveElement
    <2> QED
        BY <1>1, <1>3, <2>1 DEF SlotsCounted
<1>4. CASE Open' = Open /\ eMissed' = eMissed /\ eSlots' = eSlots
    BY <1>4 DEF SlotsCounted
<1> QED
    BY <1>2, <1>3, <1>4

LEMMA EvFaultsCounted ==
    ASSUME eFaults \in 0 .. EvMaxFaults, EvWorks \/ EvFault
    PROVE  eFaults' \in 0 .. EvMaxFaults
BY EventStreamAssumption DEF EvWorks, EvFault

\* What one browser's step leaves of the others.
LEMMA StatsOfOthers ==
    ASSUME \A c \in Browser : StatsInOrder(c), NEW b \in Browser,
           \A c \in Browser \ {b} : ePc'[c] = ePc[c] /\ eStat'[c] = eStat[c],
           StatsInOrder(b)'
    PROVE  \A c \in Browser : StatsInOrder(c)'
BY DEF StatsInOrder

LEMMA EvOpenHolds ==
    ASSUME EvInv, NEW b \in Browser, EvOpen(b)
    PROVE  EvInv'
<1>1. EvTypes'
    <2>1. NoStat \in StatType
        BY DEF NoStat, StatType
    <2> QED
        BY <2>1 DEF EvInv, EvTypes, EvOpen
<1>2. SlotsCounted'
    <2>1. b \notin Open /\ Open' = Open \cup {b}
        BY DEF EvInv, EvTypes, EvOpen, Open
    <2> QED
        BY <2>1, SlotsMove DEF EvInv, EvOpen
<1>3. \A c \in Browser : StatsInOrder(c)'
    <2>1. StatsInOrder(b)'
        BY DEF EvInv, EvTypes, EvOpen, StatsInOrder, NoStat
    <2> QED
        BY <2>1, StatsOfOthers DEF EvInv, EvTypes, EvOpen
<1> QED
    BY <1>1, <1>2, <1>3 DEF EvInv

LEMMA EvAnswerHolds ==
    ASSUME EvInv, NEW b \in Browser, EvAnswer(b)
    PROVE  EvInv'
<1>1. EvTypes'
    BY EvFaultsCounted DEF EvInv, EvTypes, EvAnswer
<1>2. SlotsCounted'
    <2>1. Open' = Open
        BY DEF EvInv, EvTypes, EvAnswer, Open
    <2> QED
        BY <2>1, SlotsMove DEF EvInv, EvAnswer
<1>3. \A c \in Browser : StatsInOrder(c)'
    <2>1. StatsInOrder(b) /\ eStat' = eStat /\ ePc[b] # "live"
        BY DEF EvInv, EvAnswer
    <2>2. StatsInOrder(b)'
        BY <2>1 DEF EvInv, EvTypes, StatType, StatsInOrder
    <2> QED
        BY <2>2, StatsOfOthers DEF EvInv, EvTypes, EvAnswer
<1> QED
    BY <1>1, <1>2, <1>3 DEF EvInv

LEMMA EvLeaveHolds ==
    ASSUME EvInv, NEW b \in Browser, EvLeave(b)
    PROVE  EvInv'
<1>1. eStat[b] \in StatType /\ StatsInOrder(b) /\ EvTypes
    BY DEF EvInv, EvTypes
<1>2. /\ eStat'[b] = [eStat[b] EXCEPT !.mapped = FALSE, !.hurried = @ \/ eStat[b].asked > 0]
      /\ \A c \in Browser \ {b} : ePc'[c] = ePc[c] /\ eStat'[c] = eStat[c]
      /\ eStat' = [eStat EXCEPT ![b] = eStat'[b]] /\ ePc'[b] = "idle"
    BY <1>1 DEF EvTypes, EvLeave
<1>3. /\ eStat'[b] \in StatType /\ eStat'[b].asked = eStat[b].asked /\ eStat'[b].mapped = FALSE
      /\ eStat'[b].loose = eStat[b].loose
      /\ eStat'[b].hurried = (eStat[b].hurried \/ eStat[b].asked > 0)
    BY <1>1, <1>2 DEF StatType
<1>4. EvTypes'
    BY <1>1, <1>2, <1>3 DEF EvTypes, EvLeave
<1>5. SlotsCounted'
    <2>1. b \in Open /\ Open' = Open \ {b}
        BY DEF EvInv, EvTypes, EvLeave, Open
    <2> QED
        BY <2>1, SlotsMove DEF EvInv, EvLeave
<1>6. StatsInOrder(b)'
    BY <1>1, <1>2, <1>3 DEF StatsInOrder
<1> QED
    BY <1>2, <1>4, <1>5, <1>6, StatsOfOthers DEF EvInv

LEMMA EvLeaveEarlyHolds ==
    ASSUME EvInv, NEW b \in Browser, EvLeaveEarly(b)
    PROVE  EvInv'
<1>1. EvTypes'
    BY DEF EvInv, EvTypes, EvLeaveEarly
<1>2. SlotsCounted'
    <2>1. b \in Open /\ Open' = Open \ {b}
        BY DEF EvInv, EvTypes, EvLeaveEarly, Open
    <2> QED
        BY <2>1, SlotsMove DEF EvInv, EvLeaveEarly
<1>3. \A c \in Browser : StatsInOrder(c)'
    <2>1. StatsInOrder(b) /\ eStat' = eStat /\ ePc[b] # "live" /\ eStat[b].asked \in Nat
        BY DEF EvInv, EvTypes, StatType, EvLeaveEarly
    <2>2. StatsInOrder(b)'
        BY <2>1 DEF StatsInOrder
    <2> QED
        BY <2>2, StatsOfOthers DEF EvInv, EvTypes, EvLeaveEarly
<1> QED
    BY <1>1, <1>2, <1>3 DEF EvInv

\* A step that changes the stats of b and nothing else.
LEMMA StatMoves ==
    ASSUME EvInv, NEW b \in Browser, EvWorks \/ EvFault,
           NEW s \in StatType, eStat' = [eStat EXCEPT ![b] = s], StatsInOrder(b)',
           UNCHANGED <<ePc, eSlots, eMissed, eFetch, rPc, rProxy, rOwner>>
    PROVE  EvInv'
<1>1. EvTypes'
    BY EvFaultsCounted DEF EvInv, EvTypes
<1>2. SlotsCounted'
    <2>1. Open' = Open
        BY DEF Open
    <2> QED
        BY <2>1, SlotsMove DEF EvInv
<1>3. \A c \in Browser : StatsInOrder(c)'
    BY StatsOfOthers DEF EvInv, EvTypes
<1> QED
    BY <1>1, <1>2, <1>3 DEF EvInv

LEMMA StatFields ==
    ASSUME NEW s \in StatType, NEW k \in 0 .. 2, NEW m \in BOOLEAN, NEW l \in BOOLEAN, NEW h \in BOOLEAN
    PROVE  /\ s.asked \in 0 .. 2 /\ s.mapped \in BOOLEAN /\ s.loose \in BOOLEAN /\ s.hurried \in BOOLEAN
           /\ [s EXCEPT !.asked = k, !.hurried = h] \in StatType
           /\ [s EXCEPT !.asked = k, !.mapped = m, !.loose = l] \in StatType
           /\ [s EXCEPT !.asked = k] \in StatType
BY DEF StatType

LEMMA StatStartHolds ==
    ASSUME EvInv, NEW b \in Browser, StatStart(b)
    PROVE  EvInv'
<1> DEFINE k == eStat[b].asked + 1
           h == eStat[b].hurried \/ eStat[b].asked > 0
           s == [eStat[b] EXCEPT !.asked = k, !.hurried = h]
<1>1. /\ eStat[b] \in StatType /\ StatsInOrder(b) /\ ePc[b] = "live" /\ ~eStat[b].mapped
      /\ eStat[b].asked < 2 /\ ~eStat[b].loose
    BY DEF EvInv, EvTypes, StatStart
<1>2. eStat[b].asked \in 0 .. 2 /\ k \in 0 .. 2 /\ h \in BOOLEAN
    BY <1>1 DEF StatType
<1>3. s \in StatType
    BY <1>1, <1>2, StatFields
<1>4. eStat' = [eStat EXCEPT ![b] = s] /\ ePc' = ePc
    BY DEF StatStart
<1>5. eStat'[b] = s
    BY <1>4 DEF EvInv, EvTypes
<1>6. s.asked = k /\ s.mapped = eStat[b].mapped /\ s.loose = eStat[b].loose /\ s.hurried = h
    BY <1>1 DEF StatType
<1> HIDE DEF s
<1>7. StatsInOrder(b)'
    <2> SUFFICES ASSUME ~eStat'[b].hurried
                 PROVE  ~eStat'[b].loose /\ eStat'[b].asked = 1 /\ ~eStat'[b].mapped
        BY <1>1, <1>4 DEF StatsInOrder
    <2>1. ~eStat[b].hurried /\ ~(eStat[b].asked > 0)
        BY <1>5, <1>6
    <2>2. eStat[b].asked = 0
        BY <1>2, <2>1
    <2> QED
        BY <1>1, <1>5, <1>6, <2>2
<1> QED
    BY <1>3, <1>4, <1>7, StatMoves DEF StatStart, EvWorks

LEMMA StatAnswerHolds ==
    ASSUME EvInv, NEW b \in Browser, StatAnswer(b)
    PROVE  EvInv'
<1> DEFINE k == eStat[b].asked - 1
<1>1. eStat[b] \in StatType /\ StatsInOrder(b) /\ eStat[b].asked > 0 /\ ePc' = ePc
    BY DEF EvInv, EvTypes, StatAnswer
<1>2. eStat[b].asked \in 0 .. 2 /\ k \in 0 .. 2
    BY <1>1 DEF StatType
<1>3. CASE EvWorks /\ eStat' = [eStat EXCEPT ![b].asked = @ - 1, ![b].mapped = TRUE,
                                              ![b].loose = @ \/ eStat[b].mapped]
    <2> DEFINE l == eStat[b].loose \/ eStat[b].mapped
               s == [eStat[b] EXCEPT !.asked = k, !.mapped = TRUE, !.loose = l]
    <2>1. s \in StatType
        BY <1>1, <1>2, StatFields
    <2>2. eStat' = [eStat EXCEPT ![b] = s]
        BY <1>3
    <2>3. eStat'[b] = s
        BY <2>2 DEF EvInv, EvTypes
    <2>4. s.asked = k /\ s.mapped = TRUE /\ s.loose = l /\ s.hurried = eStat[b].hurried
        BY <1>1 DEF StatType
    <2> HIDE DEF s
    <2>5. StatsInOrder(b)'
        <3>1. eStat'[b].asked = k /\ eStat'[b].loose = l /\ eStat'[b].hurried = eStat[b].hurried
            BY <2>3, <2>4
        <3>2. ASSUME ~eStat[b].hurried PROVE ~l /\ k = 0 /\ ePc'[b] = "live"
            BY <1>1, <1>2, <3>2 DEF StatsInOrder
        <3>3. ASSUME ~eStat'[b].hurried
              PROVE  ~eStat'[b].loose /\ ~(eStat'[b].asked > 0) /\ ePc'[b] = "live"
            <4>1. ~l /\ k = 0 /\ ePc'[b] = "live"
                BY <3>1, <3>2, <3>3
            <4>2. ~eStat'[b].loose
                BY <3>1, <4>1, Zenon
            <4>3. ~(eStat'[b].asked > 0)
                BY <3>1, <4>1
            <4> QED
                BY <4>1, <4>2, <4>3
        <3> QED
            BY <3>3 DEF StatsInOrder
    <2> QED
        BY <1>3, <2>1, <2>2, <2>5, StatMoves DEF StatAnswer
<1>4. CASE EvFault /\ eStat' = [eStat EXCEPT ![b].asked = @ - 1]
    <2> DEFINE s == [eStat[b] EXCEPT !.asked = k]
    <2>1. s \in StatType
        BY <1>1, <1>2, StatFields
    <2>2. eStat' = [eStat EXCEPT ![b] = s]
        BY <1>4
    <2>3. eStat'[b] = s
        BY <2>2 DEF EvInv, EvTypes
    <2>4. /\ s.asked = k /\ s.mapped = eStat[b].mapped /\ s.loose = eStat[b].loose
          /\ s.hurried = eStat[b].hurried
        BY <1>1 DEF StatType
    <2> HIDE DEF s
    <2>5. StatsInOrder(b)'
        BY <1>1, <1>2, <2>3, <2>4 DEF StatsInOrder
    <2> QED
        BY <1>4, <2>1, <2>2, <2>5, StatMoves DEF StatAnswer
<1> QED
    BY <1>3, <1>4 DEF StatAnswer

LEMMA StatStopHolds ==
    ASSUME EvInv, NEW b \in Browser, StatStop(b)
    PROVE  EvInv'
<1> DEFINE s == [eStat[b] EXCEPT !.mapped = FALSE]
<1>1. eStat[b] \in StatType /\ StatsInOrder(b) /\ ePc[b] = "live" /\ ePc' = ePc
    BY DEF EvInv, EvTypes, StatStop
<1>2. /\ s \in StatType /\ s.asked = eStat[b].asked /\ s.mapped = FALSE
      /\ s.loose = eStat[b].loose /\ s.hurried = eStat[b].hurried
    BY <1>1 DEF StatType
<1>3. eStat' = [eStat EXCEPT ![b] = s]
    BY DEF StatStop
<1>4. eStat'[b] = s
    BY <1>3 DEF EvInv, EvTypes
<1> HIDE DEF s
<1>5. StatsInOrder(b)'
    BY <1>1, <1>2, <1>4 DEF StatsInOrder
<1> QED
    BY <1>2, <1>3, <1>5, StatMoves DEF StatStop, EvWorks

\* The connection to the peer has no part in the slots of this node.
LEMMA PeerHolds ==
    ASSUME EvInv, UNCHANGED <<ePc, eSlots, eMissed, eStat>>,
           \/ \E b \in Browser : EvNodes(b) \/ EvFetch(b)
           \/ PeerStep
           \/ UNCHANGED evVars
    PROVE  EvInv'
<1>1. EvTypes'
    BY EvFaultsCounted DEF EvInv, EvTypes, EvNodes, EvFetch, PeerStep, PeerAnswer, PeerClose, evVars
<1>2. SlotsCounted'
    BY DEF EvInv, SlotsCounted, Open
<1>3. \A c \in Browser : StatsInOrder(c)'
    BY DEF EvInv, StatsInOrder
<1> QED
    BY <1>1, <1>2, <1>3 DEF EvInv

\* All is gone, whether the node starts for the first time or again.
LEMMA NothingHeld ==
    ASSUME ePc = [b \in Browser |-> "idle"], eSlots = 0, eMissed = 0,
           eStat = [b \in Browser |-> NoStat]
    PROVE  SlotsCounted /\ eStat \in [Browser -> StatType] /\ \A b \in Browser : StatsInOrder(b)
<1>1. Open = {}
    BY DEF Open
<1>2. SlotsCounted
    BY <1>1, FS_EmptySet, EventStreamAssumption DEF SlotsCounted
<1> QED
    BY <1>2 DEF NoStat, StatType, StatsInOrder

LEMMA EvRestartHolds ==
    ASSUME EvInv, EvRestart
    PROVE  EvInv'
<1>1. (SlotsCounted /\ eStat \in [Browser -> StatType] /\ \A b \in Browser : StatsInOrder(b))'
    <2>1. /\ ePc' = [b \in Browser |-> "idle"] /\ eSlots' = 0 /\ eMissed' = 0
          /\ eStat' = [b \in Browser |-> NoStat]
        BY DEF EvRestart
    <2>2. Open' = {}
        BY <2>1 DEF Open
    <2>3. SlotsCounted'
        BY <2>1, <2>2, FS_EmptySet, EventStreamAssumption DEF SlotsCounted
    <2> QED
        BY <2>1, <2>3 DEF NoStat, StatType, StatsInOrder
<1>2. EvTypes'
    BY <1>1, EvFaultsCounted DEF EvInv, EvTypes, EvRestart
<1> QED
    BY <1>1, <1>2 DEF EvInv

LEMMA EvInvariance ==
    EvSpec => []EvInv
<1>1. EvInit => EvInv
    <2> SUFFICES ASSUME EvInit PROVE EvInv
        OBVIOUS
    <2>1. SlotsCounted /\ eStat \in [Browser -> StatType] /\ \A b \in Browser : StatsInOrder(b)
        BY NothingHeld DEF EvInit
    <2>2. eFaults \in 0 .. EvMaxFaults
        BY EventStreamAssumption DEF EvInit
    <2>3. EvTypes
        BY <2>1, <2>2 DEF EvInit, EvTypes
    <2> QED
        BY <2>1, <2>3 DEF EvInv
<1>2. EvInv /\ [EvNext]_evVars => EvInv'
    <2> SUFFICES ASSUME EvInv, [EvNext]_evVars PROVE EvInv'
        OBVIOUS
    <2>1. CASE UNCHANGED evVars
        BY <2>1, PeerHolds DEF evVars
    <2>2. ASSUME NEW b \in Browser, EvStep(b) PROVE EvInv'
        <3>1. CASE EvNodes(b) \/ EvFetch(b)
            BY <3>1, PeerHolds DEF EvNodes, EvFetch
        <3> QED
            BY <2>2, <3>1, EvAnswerHolds, StatAnswerHolds DEF EvStep
    <2>3. CASE PeerStep
        BY <2>3, PeerHolds DEF PeerStep, PeerAnswer, PeerClose
    <2> QED
        BY <2>1, <2>2, <2>3, EvOpenHolds, EvLeaveHolds, EvLeaveEarlyHolds, StatStartHolds,
           StatStopHolds, EvRestartHolds DEF EvNext
<1> QED
    BY <1>1, <1>2, PTL DEF EvSpec

LEMMA EvInvImplies ==
    ASSUME EvInv
    PROVE  EvTypeOK /\ NothingLeaks
<1>1. SlotsFollowConnections
    BY DEF EvInv, SlotsCounted, SlotsFollowConnections, Open
<1>2. StatsAreKnown
    BY DEF EvInv, StatsInOrder, StatsAreKnown
<1>3. eSlots \in 0 .. MaxPerIp /\ eMissed \in 0 .. MaxPerIp
    BY FS_CardinalityType, EventStreamAssumption DEF EvInv, SlotsCounted
<1> QED
    BY <1>1, <1>2, <1>3 DEF EvInv, EvTypes, EvTypeOK, NothingLeaks

\* Every variable of the streams stays in its type.
THEOREM EventTypeCorrect == EvSpec => []EvTypeOK
BY EvInvariance, EvInvImplies, PTL

\* Each slot of an address is that of an open connection or of an end nobody
\* heard of, and no stream of stats outlives its connection unless the
\* connection was used or ended before the answer.
THEOREM SlotsAndStreamsKept == EvSpec => []NothingLeaks
BY EvInvariance, EvInvImplies, PTL

-----------------------------------------------------------------------------
(* The networks of a node (Networks).                                     *)

\* A caller that connects a container, or the proxy to it, has one.
Placed == {r \in ActType : r.pc \in {"own", "proxy"} => r.ctr \in Ctr}
NetInv == NetTypeOK /\ nAct \in [Caller -> Placed]

LEMMA PlacedTyped == [Caller -> Placed] \subseteq [Caller -> ActType]
BY DEF Placed

LEMMA CallerMoves ==
    ASSUME NetInv, NEW a \in Caller, NEW rec \in Placed
    PROVE  [nAct EXCEPT ![a] = rec] \in [Caller -> Placed]
BY DEF NetInv, NetTypeOK

LEMMA NoActTyped == NoAct \in Placed
BY DEF NoAct, ActType, Placed, Flag

LEMMA NetFaultCounted ==
    ASSUME NetInv, NetWorks \/ NetFault
    PROVE  nFaults' \in 0 .. NMaxFaults
BY NetworksAssumption DEF NetInv, NetTypeOK, NetWorks, NetFault

\* The next place of a caller is one of its places.
LEMMA GoTyped ==
    ASSUME NetInv, NEW a \in Caller, NEW pc \in {"idle", "own", "proxy", "group", "look",
               "remove", "create", "join", "last", "save", "unnet", "unsave"}, NetGo(a, pc),
           pc \in {"own", "proxy"} => nAct[a].ctr \in Ctr
    PROVE  nAct' \in [Caller -> Placed]
BY DEF NetInv, NetTypeOK, NetGo, Placed, ActType

LEMMA NextTyped ==
    ASSUME NetInv, NEW a \in Caller, NextCtr(a)
    PROVE  nAct' \in [Caller -> Placed]
<1> DEFINE act == nAct[a]
           c == CHOOSE d \in act.todo : TRUE
           took == [act EXCEPT !.pc = "own", !.ctr = c, !.todo = act.todo \ {c}]
           next == IF a # "round" \/ act.ctr = NoCtr THEN NoAct
                   ELSE IF act.todo = {} THEN [NoAct EXCEPT !.pc = "last"]
                   ELSE took
<1>1. act \in Placed
    BY DEF NetInv, NetTypeOK
<1>2. [NoAct EXCEPT !.pc = "last"] \in Placed
    BY NoActTyped DEF ActType, Placed
<1>3. ASSUME act.todo # {} PROVE took \in Placed
  <2>1. c \in act.todo
      BY <1>3
  <2>2. c \in Ctr
      BY <2>1, <1>1 DEF ActType, Placed
  <2> QED
      BY <2>2, <1>1 DEF ActType, Placed
<1>4. next \in Placed
    BY <1>2, <1>3, NoActTyped
<1>5. nAct' = [nAct EXCEPT ![a] = next]
    BY Zenon DEF NextCtr
<1> HIDE DEF next
<1> QED
    BY <1>4, <1>5, CallerMoves

LEMMA DoneTyped ==
    ASSUME NetInv, NEW a \in Caller, NetDone(a)
    PROVE  nAct' \in [Caller -> Placed]
BY NextTyped, GoTyped DEF NetDone

LEMMA CutTyped ==
    ASSUME NetInv, NEW a \in Caller, Cut(a)
    PROVE  nAct' \in [Caller -> Placed] /\ nCut' \subseteq Ctr
<1>1. nAct' \in [Caller -> Placed]
    BY NextTyped DEF Cut
<1>2. nAct[a].ctr \in Ctr \cup {NoCtr}
    BY DEF NetInv, NetTypeOK, ActType, Placed
<1> QED
    BY <1>1, <1>2 DEF Cut, NetInv, NetTypeOK

LEMMA EnsureTyped ==
    ASSUME NetInv, NEW a \in Caller, Ensure(a)
    PROVE  NetInv'
<1>0. nAct[a].ctr \in Ctr \cup {NoCtr} /\ nAct[a].want \in Flag
    BY DEF NetInv, NetTypeOK, ActType, Placed
<1>1. CASE Connect(a)
    BY <1>1, NetFaultCounted, PlacedTyped, NextTyped, GoTyped DEF Connect, NetInv, NetTypeOK
<1>2. CASE ConnectProxy(a)
  <2>1. nAct[a].ctr \in Ctr
      BY <1>2 DEF ConnectProxy, NetInv, Placed
  <2> QED
    BY <1>0, <2>1, <1>2, NetFaultCounted, PlacedTyped, GoTyped DEF ConnectProxy, NetInv, NetTypeOK
<1>3. CASE ReadGroup(a)
    BY <1>0, <1>3, NetFaultCounted, PlacedTyped, CutTyped DEF ReadGroup, NetInv, NetTypeOK, ActType, Placed, Flag
<1>4. CASE Join(a)
    BY <1>0, <1>4, NetFaultCounted, PlacedTyped, CutTyped, NextTyped DEF Join, NetInv, NetTypeOK
<1>5. CASE LookAtNet(a)
    BY <1>0, <1>5, NetFaultCounted, PlacedTyped, CutTyped, DoneTyped, GoTyped DEF LookAtNet, NetInv, NetTypeOK
<1>6. CASE RemoveNet(a)
    BY <1>0, <1>6, NetFaultCounted, PlacedTyped, DoneTyped, GoTyped DEF RemoveNet, NetInv, NetTypeOK
<1>7. CASE CreateNet(a)
    BY <1>0, <1>7, NetFaultCounted, PlacedTyped, CutTyped, DoneTyped DEF CreateNet, NetInv, NetTypeOK
<1> QED
    BY <1>1, <1>2, <1>3, <1>4, <1>5, <1>6, <1>7 DEF Ensure

LEMMA RoundTyped == NetInv /\ (Round \/ RoundGroup) => NetInv'
<1> SUFFICES ASSUME NetInv, Round \/ RoundGroup PROVE NetInv'
    OBVIOUS
<1>0. "round" \in Caller
    BY DEF Caller
<1>1. CASE Round
  <2> DEFINE c == CHOOSE d \in nOn : TRUE
             first == [NoAct EXCEPT !.pc = "own", !.ctr = c, !.todo = nOn \ {c}]
  <2>1. nAct' \in [Caller -> Placed]
    <3>1. CASE nOn # {} /\ nAct' = [nAct EXCEPT !["round"] = first]
      <4>1. c \in nOn
          BY <3>1
      <4>2. first \in Placed
          BY <4>1, NoActTyped DEF ActType, Placed, NetInv, NetTypeOK
      <4> HIDE DEF first
      <4> QED
          BY <3>1, <4>2, <1>0, CallerMoves
    <3>2. CASE NetGo("round", "last")
        BY <3>2, <1>0, GoTyped
    <3> QED
        BY <1>1, <3>1, <3>2 DEF Round
  <2> QED
      BY <1>1, <2>1, NetFaultCounted, PlacedTyped DEF Round, NetInv, NetTypeOK
<1>2. CASE RoundGroup
  <2>1. ASSUME nGroup # "none" PROVE [NoAct EXCEPT !.pc = "look", !.want = nGroup] \in Placed
      BY <2>1, NoActTyped DEF ActType, Placed, NetInv, NetTypeOK
  <2>2. nAct' \in [Caller -> Placed]
      BY <1>0, <1>2, <2>1, NoActTyped, CallerMoves DEF RoundGroup
  <2> QED
      BY <1>2, <2>2, NetFaultCounted, PlacedTyped DEF RoundGroup, NetInv, NetTypeOK
<1> QED
    BY <1>1, <1>2

LEMMA RouteTyped == NetInv /\ RouteStep => NetInv'
<1> SUFFICES ASSUME NetInv, RouteStep PROVE NetInv'
    OBVIOUS
<1>0. "route" \in Caller /\ nAct["route"].want \in Flag
    BY DEF Caller, NetInv, ActType, Placed
<1>1. CASE SaveGroup
    BY <1>0, <1>1, NetFaultCounted, PlacedTyped, NextTyped, GoTyped DEF SaveGroup, NetInv, NetTypeOK
<1>2. CASE RemoveGroupNet
    BY <1>0, <1>2, NetFaultCounted, PlacedTyped, GoTyped DEF RemoveGroupNet, NetInv, NetTypeOK
<1>3. CASE DeleteGroup
    BY <1>0, <1>3, NetFaultCounted, PlacedTyped, NextTyped DEF DeleteGroup, NetInv, NetTypeOK
<1> QED
    BY <1>1, <1>2, <1>3 DEF RouteStep

LEMMA RequestTyped ==
    ASSUME NetInv, NEW pc \in {"save", "unnet"}, NEW flag \in Flag, EditGroup(pc, flag)
    PROVE  NetInv'
<1>1. [NoAct EXCEPT !.pc = pc, !.want = flag] \in Placed
    BY NoActTyped DEF ActType, Placed
<1>2. nAct' \in [Caller -> Placed]
    BY <1>1, CallerMoves DEF EditGroup, Caller
<1>3. nEdits' \in 0 .. NMaxEdits
    BY NetworksAssumption DEF EditGroup, NetInv, NetTypeOK
<1> QED
    BY <1>2, <1>3, PlacedTyped DEF EditGroup, NetInv, NetTypeOK

LEMMA ContainerTyped ==
    ASSUME NetInv, NEW c \in Ctr, StartCtr(c) \/ RemoveCtr(c)
    PROVE  NetInv'
<1>1. [NoAct EXCEPT !.pc = "own", !.ctr = c] \in Placed
    BY NoActTyped DEF ActType, Placed
<1>2. nAct' \in [Caller -> Placed]
    BY <1>1, CallerMoves DEF StartCtr, RemoveCtr, Caller, NetInv, NetTypeOK
<1> QED
    BY <1>2, PlacedTyped DEF StartCtr, RemoveCtr, NetInv, NetTypeOK

LEMMA RestartTyped == NetInv /\ NetRestart => NetInv'
<1> SUFFICES ASSUME NetInv, NetRestart PROVE NetInv'
    OBVIOUS
<1>1. {nAct[a].ctr : a \in Caller} \ {NoCtr} \subseteq Ctr
    BY DEF NetInv, NetTypeOK, ActType, Placed
<1>2. [a \in Caller |-> NoAct] \in [Caller -> Placed]
    BY NoActTyped
<1> QED
    BY <1>1, <1>2, NetFaultCounted, PlacedTyped DEF NetRestart, NetInv, NetTypeOK

LEMMA NetTyped == NetInv /\ [NetNext]_netVars => NetInv'
<1> SUFFICES ASSUME NetInv, [NetNext]_netVars PROVE NetInv'
    OBVIOUS
<1>1. ASSUME NEW a \in Caller, NetStep(a) PROVE NetInv'
    BY <1>1, EnsureTyped, RoundTyped, RouteTyped DEF NetStep
<1>2. CASE UNCHANGED netVars
    BY <1>2 DEF netVars, NetInv, NetTypeOK
<1>3. "closed" \in Flag
    BY DEF Flag
<1> QED
    BY <1>1, <1>2, <1>3, ContainerTyped, RequestTyped, RestartTyped DEF NetNext

LEMMA NetStarts == NetInit => NetInv
BY NoActTyped, PlacedTyped, NetworksAssumption DEF NetInit, NetInv, NetTypeOK


\* Every variable of the networks stays in its type, and whoever connects a
\* container has one to connect.
THEOREM NetworkTypeCorrect == NetSpec => []NetTypeOK
<1>1. NetInv => NetTypeOK
    BY DEF NetInv
<1> QED
    BY <1>1, NetStarts, NetTyped, PTL DEF NetSpec

-----------------------------------------------------------------------------
(* DNS (DnsVip).                                                          *)

\* Few nodes come before one that has a place.
LEMMA PlaceTyped ==
    ASSUME NEW list \in SUBSET VNode
    PROVE  RankIn(list) \in 0 .. Out
<1> DEFINE before == {n \in list : n < Self}
<1>1. IsFiniteSet(before)
    BY DnsVipAssumption, FS_Subset
<1>2. Cardinality(before) \in Nat
    BY <1>1, FS_CardinalityType
<1> HIDE DEF before
<1>3. RankIn(list) = IF Self \in list /\ Cardinality(before) < VipNodes
                     THEN Cardinality(before) ELSE Out
    BY DEF RankIn, before
<1> QED
    BY <1>2, <1>3, DnsVipAssumption DEF Out

LEMMA DnsFaultCounted ==
    ASSUME DnsTypeOK, DnsWorks \/ DnsFault
    PROVE  vFaults' \in 0 .. VMaxFaults
BY DnsVipAssumption DEF DnsTypeOK, DnsWorks, DnsFault

LEMMA DnsTyped == DnsTypeOK /\ [DnsNext]_dnsVars => DnsTypeOK'
<1> SUFFICES ASSUME DnsTypeOK, [DnsNext]_dnsVars PROVE DnsTypeOK'
    OBVIOUS
<1> USE DEF DnsTypeOK, vCoreVars, vVipVars
<1>0. NoConf \in [rank : 0 .. Out, pass : BOOLEAN]
    BY DnsVipAssumption DEF NoConf, Out
<1>1. CASE ReadNodes
  <2>0. \A b \in BOOLEAN : [nodes |-> vList, settings |-> b] \in Corefile
      BY DEF Corefile
  <2>1. vSeen' \in Corefile
      BY <1>1, <2>0 DEF ReadNodes
  <2> QED
      BY <1>1, <2>1, DnsFaultCounted DEF ReadNodes
<1>2. CASE WriteCorefile
    BY <1>2 DEF WriteCorefile
<1>3. CASE LookAtCore
    BY <1>3, DnsFaultCounted DEF LookAtCore
<1>4. CASE Reload
  <2>1. vMissed' \in BOOLEAN
      BY <1>4, Zenon DEF Reload
  <2> QED
      BY <1>4, <2>1, DnsFaultCounted DEF Reload
<1>5. CASE ReadRank
    BY <1>5, DnsFaultCounted, PlaceTyped DEF ReadRank
<1>6. CASE Drop
    BY <1>0, <1>6, DnsFaultCounted DEF Drop
<1>7. CASE ReadPassword
    BY <1>7, DnsFaultCounted DEF ReadPassword
<1>8. CASE StartKeepalived
    BY <1>8, DnsFaultCounted DEF StartKeepalived
<1>9. CASE Configure
    BY <1>9, DnsFaultCounted DEF Configure
<1>10. CASE KeepaliveInstalled
    BY <1>10 DEF KeepaliveInstalled
<1>11. ASSUME NEW n \in VNode, ListChanges(n) PROVE DnsTypeOK'
    BY <1>11, DnsVipAssumption DEF ListChanges
<1>12. CASE Unsealed
    BY <1>12 DEF Unsealed
<1>13. CASE DnsDown
  <2>1. vMissed' \in BOOLEAN
      BY <1>13, Zenon DEF DnsDown
  <2> QED
      BY <1>0, <1>13, <2>1, DnsFaultCounted DEF DnsDown
<1>14. CASE UNCHANGED dnsVars
    BY <1>14 DEF dnsVars
<1> QED
    BY <1>1, <1>2, <1>3, <1>4, <1>5, <1>6, <1>7, <1>8, <1>9, <1>10, <1>11, <1>12, <1>13, <1>14
       DEF DnsNext, DnsRound

LEMMA DnsStarts == DnsInit => DnsTypeOK
<1>1. NoFile \in Corefile
    BY DEF NoFile, Corefile
<1>2. NoConf \in [rank : 0 .. Out, pass : BOOLEAN]
    BY DnsVipAssumption DEF NoConf, Out
<1>3. {Self} \subseteq VNode /\ Out \in 0 .. Out /\ 0 \in 0 .. MaxChanges /\ 0 \in 0 .. VMaxFaults
    BY DnsVipAssumption DEF Out
<1> QED
    BY <1>1, <1>2, <1>3 DEF DnsInit, DnsTypeOK

\* Every variable of the DNS stays in its type: the place of a node among those
\* that run keepalived is one they have.
THEOREM DnsTypeCorrect == DnsSpec => []DnsTypeOK
BY DnsStarts, DnsTyped, PTL DEF DnsSpec

-----------------------------------------------------------------------------
(* The platform (MCPlatform).                                             *)

\* A step of the platform is a step of one part, and none of the others.
LEMMA OnePartMoves ==
    [PlatformNext]_PlatformVars =>
           /\ [MemNext]_memVars /\ [SessNext]_sessVars /\ [EvNext]_evVars /\ [DnsNext]_dnsVars
           /\ [NetNext]_netVars /\ [BootNext]_bootVars /\ [TaskNext]_taskVars
           /\ part' = part
<1> SUFFICES ASSUME [PlatformNext]_PlatformVars
             PROVE  /\ [MemNext]_memVars /\ [SessNext]_sessVars /\ [EvNext]_evVars
                    /\ [DnsNext]_dnsVars /\ [NetNext]_netVars /\ [BootNext]_bootVars
                    /\ [TaskNext]_taskVars /\ part' = part
    OBVIOUS
<1>1. CASE UNCHANGED PlatformVars
    BY <1>1 DEF PlatformVars
<1>2. ASSUME NEW p \in Parts, Alone(p)
      PROVE  /\ part' = part
             /\ p # "members" => UNCHANGED memVars
             /\ p # "sessions" => UNCHANGED sessVars
             /\ p # "events" => UNCHANGED evVars
             /\ p # "dns" => UNCHANGED dnsVars
             /\ p # "networks" => UNCHANGED netVars
             /\ p # "boot" => UNCHANGED bootVars
             /\ p # "task" => UNCHANGED taskVars
    BY <1>2 DEF Alone, StandStill, Parts
<1>3. CASE PlatformNext
    BY <1>2, <1>3 DEF PlatformNext, Parts
<1> QED
    BY <1>1, <1>3

\* Every part behaves in the platform as it does on its own: the others neither
\* hinder nor help it.
THEOREM PartsAreTheirOwn ==
    Platform => /\ MemSpec /\ SessSpec /\ EvSpec /\ DnsSpec /\ NetSpec /\ BootSpec /\ TaskSpec
                /\ [](part \in Parts)
<1>1. PlatformInit => /\ MemInit /\ SessInit /\ EvInit /\ DnsInit /\ NetInit /\ BootInit
                      /\ TaskInit /\ part \in Parts
    BY DEF PlatformInit
<1>2. part \in Parts /\ [PlatformNext]_PlatformVars => (part \in Parts)'
    BY OnePartMoves
<1>3. Platform => PlatformInit /\ [][PlatformNext]_PlatformVars
    BY PTL DEF Platform
<1>4. Platform => MemSpec
    BY <1>1, <1>3, OnePartMoves, PTL DEF MemSpec
<1>5. Platform => SessSpec
    BY <1>1, <1>3, OnePartMoves, PTL DEF SessSpec
<1>6. Platform => EvSpec
    BY <1>1, <1>3, OnePartMoves, PTL DEF EvSpec
<1>7. Platform => DnsSpec
    BY <1>1, <1>3, OnePartMoves, PTL DEF DnsSpec
<1>8. Platform => NetSpec
    BY <1>1, <1>3, OnePartMoves, PTL DEF NetSpec
<1>9. Platform => BootSpec
    BY <1>1, <1>3, OnePartMoves, PTL DEF BootSpec
<1>10. Platform => TaskSpec
    BY <1>1, <1>3, OnePartMoves, PTL DEF TaskSpec
<1>11. Platform => [](part \in Parts)
    BY <1>1, <1>2, <1>3, PTL
<1> QED
    BY <1>4, <1>5, <1>6, <1>7, <1>8, <1>9, <1>10, <1>11, PTL

\* Every variable of every part stays in its type.
THEOREM PlatformTypeCorrect == Platform => []PlatformTypeOK
<1>1. /\ part \in Parts /\ MemTypeOK /\ SessTypeOK /\ EvTypeOK /\ DnsTypeOK /\ NetTypeOK
      /\ BootTypeOK /\ TaskTypeOK
      => PlatformTypeOK
    BY DEF PlatformTypeOK
<1> QED
    BY <1>1, PartsAreTheirOwn, MembershipTypeCorrect, SessionTypeCorrect, EventTypeCorrect,
       DnsTypeCorrect, NetworkTypeCorrect, BootTypeCorrect, TaskTypeCorrect, PTL

\* All that the parts promise, the platform keeps: the quorum and the data of
\* etcd, the tokens of sessions, the slots of streams, migrations, and what runs
\* of tasks leave behind.
THEOREM PlatformIsSafe ==
    Platform => /\ []JoinKeepsQuorum /\ []DataSurvives
                /\ []OneTokenPerSession /\ []EndedStaysEnded
                /\ []NothingLeaks /\ []MigrationsHold
                /\ []SecretsStay /\ []NothingStays
BY PartsAreTheirOwn, JoinsKeepQuorum, VotersKeepData, RefreshLeavesOneToken,
   ClosedSessionsStayClosed, SlotsAndStreamsKept, MigrationsAreDone, SecretsAreThere,
   TasksCleanUp, PTL
=============================================================================
