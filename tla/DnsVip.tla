------------------------------- MODULE DnsVip -------------------------------
(***************************************************************************)
(* The DNS of one node: reconcileCoreDNS and reconcileDNSVIP of            *)
(* backend/services/reconciler.js, which run one after the other at boot   *)
(* and then every 120 s. CoreDNS serves the node list; the first three     *)
(* nodes of the list, by id, run keepalived, with a priority by their      *)
(* place, and share the address of the DNS service.                        *)
(***************************************************************************)
EXTENDS Naturals, FiniteSets

CONSTANTS
    VNode,        \* ids of nodes, in their order
    Self,         \* the node this is about
    VipNodes,     \* how many run keepalived: 3 in the code
    MaxChanges,   \* bound: nodes that register or are removed
    VMaxFaults    \* bound: calls that fail and crashes of the backend

ASSUME DnsVipAssumption ==
    /\ VNode \subseteq Nat /\ IsFiniteSet(VNode) /\ Self \in VNode
    /\ VipNodes \in Nat /\ MaxChanges \in Nat /\ VMaxFaults \in Nat

VARIABLES
    vList,      \* the nodes in etcd
    vPc,        \* where the round is; "off" is a backend that is down or sealed
    vSeen,      \* what the round has read for CoreDNS
    vChanged,   \* corefileChanged
    vFile,      \* the Corefile on disk
    vCore,      \* the CoreDNS container
    vServed,    \* the Corefile CoreDNS has loaded
    vMissed,    \* a Corefile was written and CoreDNS not told
    vRank,      \* the place of this node, as the round has read it
    vPass,      \* the round has the password of the cluster, not one of its own
    vKeep,      \* the keepalived container; "fresh" while it installs keepalived
    vConf,      \* keepalived.conf: a rank, and whether the password is right
    vChanges, vFaults

vCoreVars == <<vSeen, vChanged, vFile, vCore, vServed, vMissed>>
vVipVars == <<vRank, vPass, vKeep, vConf>>
dnsVars == <<vList, vPc, vCoreVars, vVipVars, vChanges, vFaults>>

Corefile == [nodes : SUBSET VNode, settings : BOOLEAN]
NoFile == [nodes |-> {}, settings |-> FALSE]
Out == VipNodes                       \* nodeIndex === -1 || nodeIndex >= 3
NoConf == [rank |-> Out, pass |-> FALSE]

\* The place of this node in the list sorted by id.
RankIn(list) ==
    LET before == Cardinality({n \in list : n < Self})
    IN  IF Self \in list /\ before < VipNodes THEN before ELSE Out

DnsTypeOK ==
    /\ vList \subseteq VNode
    /\ vPc \in {"off", "core", "write", "look", "reload", "vip", "drop", "pass", "keep", "conf"}
    /\ vSeen \in Corefile /\ vChanged \in BOOLEAN /\ vFile \in Corefile
    /\ vCore \in {"none", "stopped", "running"} /\ vServed \in Corefile /\ vMissed \in BOOLEAN
    /\ vRank \in 0 .. Out /\ vPass \in BOOLEAN
    /\ vKeep \in {"none", "stopped", "fresh", "running"}
    /\ vConf \in [rank : 0 .. Out, pass : BOOLEAN]
    /\ vChanges \in 0 .. MaxChanges /\ vFaults \in 0 .. VMaxFaults

DnsInit ==
    /\ vList = {Self} /\ vPc = "off"
    /\ vSeen = NoFile /\ vChanged = FALSE /\ vFile = NoFile
    /\ vCore = "none" /\ vServed = NoFile /\ vMissed = FALSE
    /\ vRank = Out /\ vPass = FALSE /\ vKeep = "none" /\ vConf = NoConf
    /\ vChanges = 0 /\ vFaults = 0

DnsFault == vFaults < VMaxFaults /\ vFaults' = vFaults + 1
DnsWorks == UNCHANGED vFaults

-----------------------------------------------------------------------------
(* reconcileCoreDNS.                                                       *)

\* The settings, whose failure is taken for no settings, and the nodes, whose
\* failure ends this part of the round.
ReadNodes ==
    /\ vPc = "core"
    /\ \/ DnsWorks /\ vSeen' = [nodes |-> vList, settings |-> TRUE] /\ vPc' = "write"
       \/ DnsFault /\ vSeen' = [nodes |-> vList, settings |-> FALSE] /\ vPc' = "write"
       \/ DnsFault /\ UNCHANGED vSeen /\ vPc' = "vip"
    /\ vChanged' = FALSE
    /\ UNCHANGED <<vList, vFile, vCore, vServed, vMissed, vVipVars, vChanges>>

\* Mutant of WriteCorefile: the change is not noted.
WriteQuietly ==
    /\ vPc = "write" /\ vPc' = "look"
    /\ vFile' = vSeen
    /\ UNCHANGED <<vList, vSeen, vChanged, vCore, vServed, vMissed, vVipVars, vChanges, vFaults>>

WriteCorefile ==
    /\ vPc = "write" /\ vPc' = "look"
    /\ vFile' = vSeen /\ vChanged' = (vFile # vSeen)
    /\ UNCHANGED <<vList, vSeen, vCore, vServed, vMissed, vVipVars, vChanges, vFaults>>

\* A container that does not run is removed; without one, one is created and
\* started. An inspection that fails is no answer: the round goes on.
LookAtCore ==
    /\ vPc = "look"
    /\ \/ /\ DnsWorks /\ vCore = "running" /\ vPc' = "reload"
          /\ UNCHANGED <<vCore, vServed, vChanged, vMissed>>
       \/ /\ DnsWorks /\ vCore # "running" /\ vPc' = "vip"
          /\ vCore' = "running" /\ vServed' = vFile /\ vChanged' = FALSE /\ vMissed' = FALSE
       \/ /\ DnsFault /\ vCore # "none" /\ vPc' = "reload"
          /\ UNCHANGED <<vCore, vServed, vChanged, vMissed>>
       \/ /\ DnsFault /\ vCore # "running" /\ vPc' = "vip"
          /\ vCore' \in {"none", "stopped"}
          /\ UNCHANGED <<vServed, vChanged, vMissed>>
    /\ UNCHANGED <<vList, vSeen, vFile, vVipVars, vChanges>>

\* SIGHUP for a container that runs, if the file has changed; a start for one
\* that does not, and another container when it cannot be started.
Reload ==
    /\ vPc = "reload" /\ vPc' = "vip"
    /\ \/ /\ DnsWorks /\ (vChanged \/ vCore = "stopped")
          /\ vCore' = "running" /\ vServed' = vFile /\ vMissed' = FALSE
       \/ DnsWorks /\ ~vChanged /\ vCore = "running" /\ UNCHANGED <<vCore, vServed, vMissed>>
       \/ /\ DnsFault
          /\ vCore' \in IF vCore = "running" THEN {"running"} ELSE {"none", "stopped"}
          /\ vMissed' = (vMissed \/ (vChanged /\ vCore = "running")) /\ UNCHANGED vServed
    /\ UNCHANGED <<vList, vSeen, vChanged, vFile, vVipVars, vChanges>>

-----------------------------------------------------------------------------
(* reconcileDNSVIP.                                                        *)

\* Without the settings or the nodes the round is over.
ReadRank ==
    /\ vPc = "vip"
    /\ \/ DnsWorks /\ vRank' = RankIn(vList) /\ vPc' = IF vRank' = Out THEN "drop" ELSE "pass"
       \/ DnsFault /\ UNCHANGED vRank /\ vPc' = "core"
    /\ UNCHANGED <<vList, vCoreVars, vPass, vKeep, vConf, vChanges>>

\* Mutant of Drop: a node that is not among the first leaves keepalived alone.
DropNot ==
    /\ vPc = "drop" /\ vPc' = "core"
    /\ UNCHANGED <<vList, vCoreVars, vVipVars, vChanges, vFaults>>

\* Stop and remove; a stop that fails, also of a container that is stopped, is
\* the end of it.
Drop ==
    /\ vPc = "drop" /\ vPc' = "core"
    /\ \/ /\ DnsWorks /\ vKeep \in {"fresh", "running"} /\ vKeep' = "none" /\ vConf' = NoConf
       \/ DnsWorks /\ vKeep \in {"none", "stopped"} /\ UNCHANGED <<vKeep, vConf>>
       \/ /\ DnsFault /\ vKeep \in {"fresh", "running"} /\ vKeep' \in {vKeep, "stopped"}
          /\ UNCHANGED vConf
    /\ UNCHANGED <<vList, vCoreVars, vRank, vPass, vChanges>>

\* "Generated fallback keepalived password - cluster nodes may not match!"
ReadPassword ==
    /\ vPc = "pass" /\ vPc' = "keep"
    /\ (DnsWorks /\ vPass' = TRUE) \/ (DnsFault /\ vPass' = FALSE)
    /\ UNCHANGED <<vList, vCoreVars, vRank, vKeep, vConf, vChanges>>

\* keepalived is installed when its container first starts.
StartKeepalived ==
    /\ vPc = "keep"
    /\ \/ /\ DnsWorks /\ vPc' = "conf"
          /\ vKeep' \in CASE vKeep = "none" -> {"fresh"} [] vKeep = "stopped" -> {"fresh", "running"}
                        [] OTHER -> {vKeep}
       \/ /\ DnsFault /\ vPc' = "core"
          /\ vKeep' \in {vKeep} \cup (IF vKeep = "none" THEN {"stopped"} ELSE {})
    /\ UNCHANGED <<vList, vCoreVars, vRank, vPass, vConf, vChanges>>

\* The configuration is written and keepalived told. What the shell returns is
\* not looked at: before the package is there it has no directory to write to.
Configure ==
    /\ vPc = "conf" /\ vPc' = "core"
    /\ \/ DnsWorks /\ vKeep # "fresh" /\ vConf' = [rank |-> vRank, pass |-> vPass]
       \/ DnsWorks /\ vKeep = "fresh" /\ UNCHANGED vConf
       \/ DnsFault /\ UNCHANGED vConf
    /\ UNCHANGED <<vList, vCoreVars, vRank, vPass, vKeep, vChanges>>

-----------------------------------------------------------------------------
(* Around it.                                                              *)

KeepaliveInstalled ==
    /\ vKeep = "fresh" /\ vKeep' = "running"
    /\ UNCHANGED <<vList, vPc, vCoreVars, vRank, vPass, vConf, vChanges, vFaults>>

\* A node registers, or is removed.
ListChanges(n) ==
    /\ vChanges < MaxChanges /\ vChanges' = vChanges + 1
    /\ vList' = (vList \cup {n}) \ (vList \cap {n})
    /\ UNCHANGED <<vPc, vCoreVars, vVipVars, vFaults>>

Unsealed ==
    /\ vPc = "off" /\ vPc' = "core"
    /\ UNCHANGED <<vList, vCoreVars, vVipVars, vChanges, vFaults>>

\* A crash leaves the containers, a shutdown removes them. The next round knows
\* of no change.
DnsDown ==
    /\ vPc # "off" /\ vPc' = "off" /\ DnsFault
    /\ \/ /\ vMissed' = (vMissed \/ (vChanged /\ vCore = "running" /\ vPc \in {"look", "reload"}))
          /\ UNCHANGED <<vCore, vServed, vKeep, vConf>>
       \/ /\ vCore' = "none" /\ vKeep' = "none" /\ vConf' = NoConf /\ vMissed' = FALSE
          /\ UNCHANGED vServed
    /\ vChanged' = FALSE
    /\ UNCHANGED <<vList, vSeen, vFile, vRank, vPass, vChanges>>

-----------------------------------------------------------------------------
DnsRound ==
    \/ ReadNodes \/ WriteCorefile \/ LookAtCore \/ Reload
    \/ ReadRank \/ Drop \/ ReadPassword \/ StartKeepalived \/ Configure

DnsNext ==
    \/ DnsRound \/ KeepaliveInstalled \/ Unsealed \/ DnsDown
    \/ \E n \in VNode : ListChanges(n)

DnsSpec == DnsInit /\ [][DnsNext]_dnsVars

-----------------------------------------------------------------------------
(* Properties, once nodes come and go no more and calls return.            *)

\* A backend that runs has CoreDNS serve the nodes there are, or has missed a
\* reload: the next round finds the file as it should be and tells nobody.
DnsServesNodes ==
    <>[](\/ vPc = "off" \/ vMissed
         \/ vCore = "running" /\ vServed = [nodes |-> vList, settings |-> TRUE])

\* The node runs keepalived with the priority of its place and the password of
\* the cluster if it is among the first, and does not run it otherwise: no two
\* nodes claim the address with one priority.
VipSettles ==
    <>[](\/ vPc = "off"
         \/ IF RankIn(vList) = Out THEN vKeep \in {"none", "stopped"}
            ELSE vKeep = "running" /\ vConf = [rank |-> RankIn(vList), pass |-> TRUE])

\* CoreDNS and the address both follow the nodes there are.
DnsSettles == DnsServesNodes /\ VipSettles
=============================================================================
