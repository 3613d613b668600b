----------------------------- MODULE MCPlatform -----------------------------
(***************************************************************************)
(* The parts of the platform that share no state with each other: who is a *)
(* member of etcd, sessions, event streams, DNS, networks, the boot and    *)
(* ephemeral tasks. The part a behaviour is about is chosen at the start;  *)
(* the others stand still in it.                                           *)
(***************************************************************************)
EXTENDS EtcdMembership, Sessions, EventStream, DnsVip, Networks, ClusterBoot, EphemeralTask, TLC

VARIABLE part

Parts == {"members", "sessions", "events", "dns", "networks", "boot", "task"}

PlatformInit ==
    /\ part \in Parts
    /\ MemInit /\ SessInit /\ EvInit /\ DnsInit /\ NetInit /\ BootInit /\ TaskInit

\* The part p moves by the action A, the others stand still.
StandStill(Q) ==
    /\ "members" \in Q => UNCHANGED memVars
    /\ "sessions" \in Q => UNCHANGED sessVars
    /\ "events" \in Q => UNCHANGED evVars
    /\ "dns" \in Q => UNCHANGED dnsVars
    /\ "networks" \in Q => UNCHANGED netVars
    /\ "boot" \in Q => UNCHANGED bootVars
    /\ "task" \in Q => UNCHANGED taskVars
Alone(p) == part = p /\ part' = p /\ StandStill(Parts \ {p})

PlatformNext ==
    \/ MemNext /\ Alone("members")
    \/ SessNext /\ Alone("sessions")
    \/ EvNext /\ Alone("events")
    \/ DnsNext /\ Alone("dns")
    \/ NetNext /\ Alone("networks")
    \/ BootNext /\ Alone("boot")
    \/ TaskNext /\ Alone("task")

\* Backends that are down are started again, calls return, timers fire. No
\* request, no fault and no unseal has to happen.
PlatformFair ==
    /\ \A n \in MemNode : WF_memVars(part = "members" /\ MemProgress(n))
    /\ \A b \in Browser : WF_evVars(part = "events" /\ EvStep(b))
    /\ WF_evVars(part = "events" /\ PeerStep)
    /\ WF_dnsVars(part = "dns" /\ DnsRound) /\ WF_dnsVars(part = "dns" /\ KeepaliveInstalled)
    /\ \A a \in Caller : WF_netVars(part = "networks" /\ NetStep(a))
    /\ \A n \in BNode : WF_bootVars(part = "boot" /\ BootStepOf(n))

PlatformVars == <<part, memVars, sessVars, evVars, dnsVars, netVars, bootVars, taskVars>>

Platform == PlatformInit /\ [][PlatformNext]_PlatformVars /\ PlatformFair

\* Every variable of every part stays in its type.
PlatformTypeOK ==
    /\ part \in Parts
    /\ MemTypeOK /\ SessTypeOK /\ EvTypeOK /\ DnsTypeOK /\ NetTypeOK /\ BootTypeOK /\ TaskTypeOK
=============================================================================
