----------------------------- MODULE EventStream -----------------------------
(***************************************************************************)
(* The event stream of backend/routes/events.js on two nodes: browsers     *)
(* that share an address connect to this node, and this node holds one     *)
(* connection to its peer for one of them. Both nodes run the same handler:*)
(* a connection takes a slot at once, asks Docker for its events, and only *)
(* the answer to that registers the handler that gives the slot back.      *)
(***************************************************************************)
EXTENDS Naturals, FiniteSets

CONSTANTS
    Browser,       \* browsers, all behind one address
    MaxPerIp,      \* MAX_CONNECTIONS_PER_IP: 5 in the code
    EvMaxFaults    \* bound: calls that fail and restarts of this node

ASSUME EventStreamAssumption == MaxPerIp \in Nat \ {0} /\ EvMaxFaults \in Nat

Nobody == "nobody"   \* the peer's client has gone
Ghost == "ghost"     \* a reader that no browser waits for and nobody cancels

VARIABLES
    ePc,       \* ePc[b]: the connection of b
    eSlots,    \* connectionsByIp: how many responses are tracked
    eMissed,   \* connections that ended before their close handler was there
    eFetch,    \* eFetch[b]: how far the loop over the other nodes is
    eStat,     \* eStat[b]: the stats of one container, on the connection of b
    rPc,       \* the connection of this node to its peer
    rProxy,    \* the peer has this node among its remoteProxyTargets
    rOwner,    \* whose reader it is
    eFaults    \* faults so far

evVars == <<ePc, eSlots, eMissed, eFetch, eStat, rPc, rProxy, rOwner, eFaults>>

\* asked: answers to container.stats that are due. mapped: statsStreams has a
\* stream. loose: a stream is open that it has no more. hurried: a start or the
\* end of the connection came while an answer was due.
StatType == [asked : 0 .. 2, mapped : BOOLEAN, loose : BOOLEAN, hurried : BOOLEAN]
NoStat == [asked |-> 0, mapped |-> FALSE, loose |-> FALSE, hurried |-> FALSE]

EvTypeOK ==
    /\ ePc \in [Browser -> {"idle", "waiting", "live", "deaf", "gone"}]
    /\ eSlots \in 0 .. MaxPerIp /\ eMissed \in 0 .. MaxPerIp
    /\ eFetch \in [Browser -> {"none", "nodes", "fetch"}]
    /\ eStat \in [Browser -> StatType]
    /\ rPc \in {"idle", "waiting", "live", "deaf", "stuck"}
    /\ rProxy \in BOOLEAN /\ rOwner \in Browser \cup {Nobody, Ghost}
    /\ eFaults \in 0 .. EvMaxFaults

EvInit ==
    /\ ePc = [b \in Browser |-> "idle"]
    /\ eSlots = 0 /\ eMissed = 0
    /\ eFetch = [b \in Browser |-> "none"]
    /\ eStat = [b \in Browser |-> NoStat]
    /\ rPc = "idle" /\ rProxy = FALSE /\ rOwner = Nobody
    /\ eFaults = 0

EvFault == eFaults < EvMaxFaults /\ eFaults' = eFaults + 1
EvWorks == UNCHANGED eFaults

-----------------------------------------------------------------------------
(* A browser on this node.                                                 *)

\* Below the limit the response is tracked and Docker asked for its events.
EvOpen(b) ==
    /\ ePc[b] = "idle" /\ eFetch[b] = "none" /\ eStat[b].asked = 0
    /\ eSlots < MaxPerIp
    /\ eSlots' = eSlots + 1
    /\ ePc' = [ePc EXCEPT ![b] = "waiting"]
    /\ eStat' = [eStat EXCEPT ![b] = NoStat]
    /\ UNCHANGED <<eMissed, eFetch, rPc, rProxy, rOwner, eFaults>>

\* Docker answers: the events are forwarded, the close handler is registered and
\* the loop over the other nodes starts, also for a browser that has left. An
\* error returns before all that.
EvAnswer(b) ==
    /\ ePc[b] \in {"waiting", "gone"}
    /\ \/ /\ EvWorks /\ eFetch' = [eFetch EXCEPT ![b] = "nodes"]
          /\ ePc' = [ePc EXCEPT ![b] = IF @ = "waiting" THEN "live" ELSE "idle"]
       \/ /\ EvFault /\ UNCHANGED eFetch
          /\ ePc' = [ePc EXCEPT ![b] = IF @ = "waiting" THEN "deaf" ELSE "idle"]
    /\ UNCHANGED <<eSlots, eMissed, eStat, rPc, rProxy, rOwner>>

\* Mutant of EvLeave: the readers of the other nodes are not cancelled.
EvLeaveReading(b) ==
    /\ ePc[b] = "live"
    /\ ePc' = [ePc EXCEPT ![b] = "idle"]
    /\ eSlots' = eSlots - 1
    /\ eStat' = [eStat EXCEPT ![b].mapped = FALSE, ![b].hurried = @ \/ eStat[b].asked > 0]
    /\ UNCHANGED <<eMissed, eFetch, rPc, rProxy, rOwner, eFaults>>

\* Mutant of EvLeave: the response stays among the connections of its address.
EvLeaveTracked(b) ==
    /\ ePc[b] = "live"
    /\ ePc' = [ePc EXCEPT ![b] = "idle"]
    /\ eStat' = [eStat EXCEPT ![b].mapped = FALSE, ![b].hurried = @ \/ eStat[b].asked > 0]
    /\ rOwner' = IF rOwner = b THEN Nobody ELSE rOwner
    /\ UNCHANGED <<eSlots, eMissed, eFetch, rPc, rProxy, eFaults>>

\* The close handler: streams are destroyed, readers cancelled, the slot is free.
EvLeave(b) ==
    /\ ePc[b] = "live"
    /\ ePc' = [ePc EXCEPT ![b] = "idle"]
    /\ eSlots' = eSlots - 1
    /\ eStat' = [eStat EXCEPT ![b].mapped = FALSE, ![b].hurried = @ \/ eStat[b].asked > 0]
    /\ rOwner' = IF rOwner = b THEN Nobody ELSE rOwner
    /\ UNCHANGED <<eMissed, eFetch, rPc, rProxy, eFaults>>

\* A browser that leaves before the answer, or after an error, keeps its slot.
EvLeaveEarly(b) ==
    /\ ePc[b] \in {"waiting", "deaf"}
    /\ ePc' = [ePc EXCEPT ![b] = IF @ = "waiting" THEN "gone" ELSE "idle"]
    /\ eMissed' = eMissed + 1
    /\ UNCHANGED <<eSlots, eFetch, eStat, rPc, rProxy, rOwner, eFaults>>

-----------------------------------------------------------------------------
(* The stats of a container that starts and stops.                         *)

\* Mutant of StatStart: a stream that is there already is not looked for.
StatStartAgain(b) ==
    /\ ePc[b] = "live" /\ eStat[b].asked < 2 /\ ~eStat[b].loose
    /\ eStat' = [eStat EXCEPT ![b].asked = @ + 1, ![b].hurried = @ \/ eStat[b].asked > 0]
    /\ UNCHANGED <<ePc, eSlots, eMissed, eFetch, rPc, rProxy, rOwner, eFaults>>

StatStart(b) ==
    /\ ePc[b] = "live" /\ ~eStat[b].mapped /\ eStat[b].asked < 2 /\ ~eStat[b].loose
    /\ eStat' = [eStat EXCEPT ![b].asked = @ + 1, ![b].hurried = @ \/ eStat[b].asked > 0]
    /\ UNCHANGED <<ePc, eSlots, eMissed, eFetch, rPc, rProxy, rOwner, eFaults>>

\* The answer sets the map, over a stream that an earlier answer put there.
StatAnswer(b) ==
    /\ eStat[b].asked > 0
    /\ \/ /\ EvWorks
          /\ eStat' = [eStat EXCEPT ![b].asked = @ - 1, ![b].mapped = TRUE,
                                    ![b].loose = @ \/ eStat[b].mapped]
       \/ EvFault /\ eStat' = [eStat EXCEPT ![b].asked = @ - 1]
    /\ UNCHANGED <<ePc, eSlots, eMissed, eFetch, rPc, rProxy, rOwner>>

\* The container stops, or its stream fails.
StatStop(b) ==
    /\ eStat[b].mapped /\ ePc[b] = "live"
    /\ eStat' = [eStat EXCEPT ![b].mapped = FALSE]
    /\ UNCHANGED <<ePc, eSlots, eMissed, eFetch, rPc, rProxy, rOwner, eFaults>>

-----------------------------------------------------------------------------
(* The connection to the peer.                                             *)

\* getNodes; an error ends the loop.
EvNodes(b) ==
    /\ eFetch[b] = "nodes"
    /\ \/ EvWorks /\ eFetch' = [eFetch EXCEPT ![b] = "fetch"]
       \/ EvFault /\ eFetch' = [eFetch EXCEPT ![b] = "none"]
    /\ UNCHANGED <<ePc, eSlots, eMissed, eStat, rPc, rProxy, rOwner>>

\* The peer takes one connection of this node, and answers 429 to the others.
\* The reader is kept for the close handler, which may have run by now.
EvFetch(b) ==
    /\ eFetch[b] = "fetch"
    /\ eFetch' = [eFetch EXCEPT ![b] = "none"]
    /\ \/ /\ EvWorks /\ ~rProxy
          /\ rPc' = "waiting" /\ rProxy' = TRUE
          /\ rOwner' = IF ePc[b] = "live" THEN b ELSE Ghost
       \/ /\ (EvWorks /\ rProxy) \/ EvFault
          /\ UNCHANGED <<rPc, rProxy, rOwner>>
    /\ UNCHANGED <<ePc, eSlots, eMissed, eStat>>

PeerAnswer ==
    /\ rPc = "waiting"
    /\ \/ EvWorks /\ rPc' = IF rOwner = Nobody THEN "stuck" ELSE "live"
       \/ EvFault /\ rPc' = "deaf"
    /\ UNCHANGED <<ePc, eSlots, eMissed, eFetch, eStat, rProxy, rOwner>>

\* Mutant of PeerClose: the node stays among the targets.
PeerCloseKept ==
    /\ rOwner = Nobody /\ rPc \in {"live", "deaf"}
    /\ IF rPc = "live" THEN rPc' = "idle" ELSE rPc' = "stuck"
    /\ UNCHANGED <<ePc, eSlots, eMissed, eFetch, eStat, rProxy, rOwner, eFaults>>

PeerClose ==
    /\ rOwner = Nobody /\ rPc \in {"live", "deaf"}
    /\ IF rPc = "live" THEN rPc' = "idle" /\ rProxy' = FALSE ELSE rPc' = "stuck" /\ UNCHANGED rProxy
    /\ UNCHANGED <<ePc, eSlots, eMissed, eFetch, eStat, rOwner, eFaults>>

\* This node restarts: its maps are empty, and the peer sees its connection end.
EvRestart ==
    /\ EvFault
    /\ ePc' = [b \in Browser |-> "idle"]
    /\ eSlots' = 0 /\ eMissed' = 0
    /\ eFetch' = [b \in Browser |-> "none"]
    /\ eStat' = [b \in Browser |-> NoStat]
    /\ rOwner' = Nobody
    /\ UNCHANGED <<rPc, rProxy>>

-----------------------------------------------------------------------------
EvStep(b) == EvAnswer(b) \/ EvNodes(b) \/ EvFetch(b) \/ StatAnswer(b)
PeerStep == PeerAnswer \/ PeerClose

EvNext ==
    \/ \E b \in Browser : \/ EvStep(b) \/ EvOpen(b) \/ EvLeave(b) \/ EvLeaveEarly(b)
                          \/ StatStart(b) \/ StatStop(b)
    \/ PeerStep \/ EvRestart

EvSpec == EvInit /\ [][EvNext]_evVars

-----------------------------------------------------------------------------
(* Properties.                                                             *)

\* A slot is held by a connection that is open, or was lost by one that ended
\* before Docker had answered it or whose answer was an error.
SlotsFollowConnections ==
    eSlots = Cardinality({b \in Browser : ePc[b] \in {"waiting", "live", "deaf"}}) + eMissed

\* No stream of stats outlives its connection or is forgotten by it, unless a
\* start or the end of the connection overtook an answer.
StatsAreKnown ==
    \A b \in Browser : ~eStat[b].hurried =>
        ~eStat[b].loose /\ (ePc[b] # "live" => ~eStat[b].mapped)

\* What a browser took, its slot and its streams, is accounted for.
NothingLeaks == SlotsFollowConnections /\ StatsAreKnown

\* The one place the peer has for this node comes back, again and again, or is
\* used for a browser that is there; a reader that arrived after the close
\* handler, and a connection the peer gave up before its handler, keep it.
ProxyReturns ==
    []<>(rProxy => \/ rOwner \in Browser /\ ePc[rOwner] = "live"
                   \/ rOwner = Ghost \/ rPc = "stuck")
=============================================================================
