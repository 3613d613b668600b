------------------------------ MODULE Networks ------------------------------
(***************************************************************************)
(* The Docker networks of one node: backend/services/network-manager.js,   *)
(* called by the routes of groups, by the creation of a container and by   *)
(* the round of the reconciler (reconcileNetworks). A container has a      *)
(* network of its own, which the proxy joins, and the containers of a      *)
(* group share one that is open or closed to the internet. The three       *)
(* callers hold no lock and interleave at every call.                      *)
(***************************************************************************)
EXTENDS Naturals, FiniteSets

CONSTANTS
    Ctr,          \* containers, all of one group
    NoCtr,
    NMaxEdits,    \* bound: requests of groups
    NMaxFaults    \* bound: calls that fail and restarts

ASSUME NetworksAssumption == NoCtr \notin Ctr /\ NMaxEdits \in Nat /\ NMaxFaults \in Nat

\* The callers: the reconciler, a request of the groups, the start of a container.
Caller == {"round", "route", "start"}
Flag == {"open", "closed"}

VARIABLES
    nGroup,    \* the record of the group: its flag, or "none"
    nNet,      \* the network of the group: its flag, or "none"
    nOn,       \* containers whose record places them on this node
    nOwn,      \* containers connected to their own network
    nProxy,    \* containers on whose network the proxy is
    nIn,       \* containers connected to the network of the group
    nCut,      \* containers whose connections stopped half way
    nAct,      \* nAct[a]: where the caller a is
    nEdits, nFaults

netVars == <<nGroup, nNet, nOn, nOwn, nProxy, nIn, nCut, nAct, nEdits, nFaults>>

ActType ==
    [pc : {"idle", "own", "proxy", "group", "look", "remove", "create", "join", "last",
           "save", "unnet", "unsave"},
     ctr : Ctr \cup {NoCtr}, todo : SUBSET Ctr, want : Flag]
NoAct == [pc |-> "idle", ctr |-> NoCtr, todo |-> {}, want |-> "closed"]

NetTypeOK ==
    /\ nGroup \in Flag \cup {"none"} /\ nNet \in Flag \cup {"none"}
    /\ nOn \subseteq Ctr /\ nOwn \subseteq Ctr /\ nProxy \subseteq Ctr /\ nIn \subseteq Ctr
    /\ nCut \subseteq Ctr
    /\ nAct \in [Caller -> ActType]
    /\ nEdits \in 0 .. NMaxEdits /\ nFaults \in 0 .. NMaxFaults

NetInit ==
    /\ nGroup = "none" /\ nNet = "none"
    /\ nOn = {} /\ nOwn = {} /\ nProxy = {} /\ nIn = {} /\ nCut = {}
    /\ nAct = [a \in Caller |-> NoAct]
    /\ nEdits = 0 /\ nFaults = 0

NetFault == nFaults < NMaxFaults /\ nFaults' = nFaults + 1
NetWorks == UNCHANGED nFaults

NetGo(a, pc) == nAct' = [nAct EXCEPT ![a].pc = pc]

\* What a caller does after a container or a group, whether it went well or not:
\* the round takes the next container and then the group, the others are done.
NextCtr(a) ==
    LET act == nAct[a]
        c == CHOOSE d \in act.todo : TRUE
    IN  nAct' = [nAct EXCEPT ![a] =
                   IF a # "round" \/ act.ctr = NoCtr THEN NoAct
                   ELSE IF act.todo = {} THEN [NoAct EXCEPT !.pc = "last"]
                   ELSE [act EXCEPT !.pc = "own", !.ctr = c, !.todo = act.todo \ {c}]]

\* It stops in the middle of a container: the next one to look returns early.
Cut(a) ==
    /\ NextCtr(a)
    /\ nCut' = nCut \cup ({nAct[a].ctr} \ {NoCtr})

-----------------------------------------------------------------------------
(* ensureContainerNetworks.                                                *)

\* Mutant of Connect: it returns when it has connected the container itself.
ConnectAndReturn(a) ==
    /\ nAct[a].pc = "own"
    /\ \/ /\ NetWorks /\ nAct[a].ctr \notin nOwn /\ nAct[a].ctr \in nOn
          /\ nOwn' = nOwn \cup {nAct[a].ctr} /\ NextCtr(a)
       \/ NetWorks /\ nAct[a].ctr \in nOwn /\ UNCHANGED nOwn /\ NextCtr(a)
    /\ UNCHANGED <<nGroup, nNet, nOn, nProxy, nIn, nCut, nEdits>>

\* The network of the container is made, and the container connected. One that
\* was connected before needs no more, as far as the code knows; one that is
\* gone is an error.
Connect(a) ==
    /\ nAct[a].pc = "own"
    /\ \/ /\ NetWorks /\ nAct[a].ctr \notin nOwn /\ nAct[a].ctr \in nOn
          /\ nOwn' = nOwn \cup {nAct[a].ctr} /\ NetGo(a, "proxy")
       \/ /\ (NetWorks /\ (nAct[a].ctr \in nOwn \/ nAct[a].ctr \notin nOn)) \/ NetFault
          /\ UNCHANGED nOwn /\ NextCtr(a)
    /\ UNCHANGED <<nGroup, nNet, nOn, nProxy, nIn, nCut, nEdits>>

\* connectNginxToNetwork logs its errors.
ConnectProxy(a) ==
    /\ nAct[a].pc = "proxy" /\ NetGo(a, "group")
    /\ \/ NetWorks /\ nProxy' = nProxy \cup ({nAct[a].ctr} \cap nOn) /\ UNCHANGED nCut
       \/ NetFault /\ nCut' = nCut \cup {nAct[a].ctr} /\ UNCHANGED nProxy
    /\ UNCHANGED <<nGroup, nNet, nOn, nOwn, nIn, nEdits>>

\* getGroups: a group without a record is closed.
ReadGroup(a) ==
    /\ nAct[a].pc = "group"
    /\ \/ /\ NetWorks /\ UNCHANGED nCut
          /\ nAct' = [nAct EXCEPT ![a].pc = "look",
                                  ![a].want = IF nGroup = "none" THEN "closed" ELSE nGroup]
       \/ NetFault /\ Cut(a)
    /\ UNCHANGED <<nGroup, nNet, nOn, nOwn, nProxy, nIn, nEdits>>

\* The container joins the network of the group, which may be gone again.
Join(a) ==
    /\ nAct[a].pc = "join"
    /\ \/ /\ NetWorks /\ nNet # "none" /\ nAct[a].ctr \in nOn
          /\ nIn' = nIn \cup {nAct[a].ctr} /\ NextCtr(a) /\ UNCHANGED nCut
       \/ /\ (NetWorks /\ (nNet = "none" \/ nAct[a].ctr \notin nOn)) \/ NetFault
          /\ Cut(a) /\ UNCHANGED nIn
    /\ UNCHANGED <<nGroup, nNet, nOn, nOwn, nProxy, nEdits>>

-----------------------------------------------------------------------------
(* ensureGroupNetwork: with the flag of nAct[a].want.                      *)

NetDone(a) == IF nAct[a].ctr = NoCtr THEN NextCtr(a) ELSE NetGo(a, "join")

\* Mutant of LookAtNet: a network that exists is right.
LookWhetherThere(a) ==
    /\ nAct[a].pc = "look"
    /\ NetWorks /\ IF nNet = "none" THEN NetGo(a, "create") ELSE NetDone(a)
    /\ UNCHANGED <<nGroup, nNet, nOn, nOwn, nProxy, nIn, nCut, nEdits>>

LookAtNet(a) ==
    /\ nAct[a].pc = "look"
    /\ \/ /\ NetWorks /\ UNCHANGED nCut
          /\ CASE nNet = "none" -> NetGo(a, "create")
               [] nNet = nAct[a].want -> NetDone(a)
               [] OTHER -> NetGo(a, "remove")
       \/ NetFault /\ Cut(a)
    /\ UNCHANGED <<nGroup, nNet, nOn, nOwn, nProxy, nIn, nEdits>>

\* "Could not remove (containers still attached?)": it stays as it is.
RemoveNet(a) ==
    /\ nAct[a].pc = "remove"
    /\ \/ NetWorks /\ nNet # "none" /\ nIn = {} /\ nNet' = "none" /\ NetGo(a, "create")
       \/ /\ (NetWorks /\ (nNet = "none" \/ nIn # {})) \/ NetFault
          /\ NetDone(a) /\ UNCHANGED nNet
    /\ UNCHANGED <<nGroup, nOn, nOwn, nProxy, nIn, nCut, nEdits>>

\* CheckDuplicate: a network somebody else has made meanwhile is an error.
CreateNet(a) ==
    /\ nAct[a].pc = "create"
    /\ \/ NetWorks /\ nNet = "none" /\ nNet' = nAct[a].want /\ NetDone(a) /\ UNCHANGED nCut
       \/ /\ (NetWorks /\ nNet # "none") \/ NetFault
          /\ Cut(a) /\ UNCHANGED nNet
    /\ UNCHANGED <<nGroup, nOn, nOwn, nProxy, nIn, nEdits>>

-----------------------------------------------------------------------------
(* The callers.                                                            *)

\* reconcileNetworks: getContainers, which answers nothing when it fails.
Round ==
    /\ nAct["round"].pc = "idle"
    /\ \/ /\ NetWorks /\ nOn # {}
          /\ LET c == CHOOSE d \in nOn : TRUE
             IN  nAct' = [nAct EXCEPT !["round"] =
                            [NoAct EXCEPT !.pc = "own", !.ctr = c, !.todo = nOn \ {c}]]
       \/ /\ (NetWorks /\ nOn = {}) \/ NetFault
          /\ NetGo("round", "last")
    /\ UNCHANGED <<nGroup, nNet, nOn, nOwn, nProxy, nIn, nCut, nEdits>>

\* ... and after the containers the groups, as they are by then.
RoundGroup ==
    /\ nAct["round"].pc = "last"
    /\ \/ /\ NetWorks /\ nGroup # "none"
          /\ nAct' = [nAct EXCEPT !["round"] = [NoAct EXCEPT !.pc = "look", !.want = nGroup]]
       \/ /\ (NetWorks /\ nGroup = "none") \/ NetFault
          /\ nAct' = [nAct EXCEPT !["round"] = NoAct]
    /\ UNCHANGED <<nGroup, nNet, nOn, nOwn, nProxy, nIn, nCut, nEdits>>

\* A container of the group is created and started here, or removed.
StartCtr(c) ==
    /\ nAct["start"].pc = "idle" /\ c \notin nOn \cup nOwn \cup nCut
    /\ nOn' = nOn \cup {c}
    /\ nAct' = [nAct EXCEPT !["start"] = [NoAct EXCEPT !.pc = "own", !.ctr = c]]
    /\ UNCHANGED <<nGroup, nNet, nOwn, nProxy, nIn, nCut, nEdits, nFaults>>

RemoveCtr(c) ==
    /\ c \in nOn /\ nAct["start"].pc = "idle"
    /\ nOn' = nOn \ {c} /\ nIn' = nIn \ {c} /\ nProxy' = nProxy \ {c}
    /\ UNCHANGED <<nGroup, nNet, nOwn, nCut, nAct, nEdits, nFaults>>

\* POST and PUT of a group save its record and ensure its network; DELETE
\* removes the network first, and the record whatever became of that.
EditGroup(pc, flag) ==
    /\ nAct["route"].pc = "idle" /\ nEdits < NMaxEdits /\ nEdits' = nEdits + 1
    /\ pc = "unnet" => nGroup # "none"
    /\ nAct' = [nAct EXCEPT !["route"] = [NoAct EXCEPT !.pc = pc, !.want = flag]]
    /\ UNCHANGED <<nGroup, nNet, nOn, nOwn, nProxy, nIn, nCut, nFaults>>

SaveGroup ==
    /\ nAct["route"].pc = "save"
    /\ \/ NetWorks /\ nGroup' = nAct["route"].want /\ NetGo("route", "look")
       \/ NetFault /\ UNCHANGED nGroup /\ NextCtr("route")
    /\ UNCHANGED <<nNet, nOn, nOwn, nProxy, nIn, nCut, nEdits>>

RemoveGroupNet ==
    /\ nAct["route"].pc = "unnet" /\ NetGo("route", "unsave")
    /\ \/ NetWorks /\ nNet' = IF nIn = {} THEN "none" ELSE nNet
       \/ NetFault /\ UNCHANGED nNet
    /\ UNCHANGED <<nGroup, nOn, nOwn, nProxy, nIn, nCut, nEdits>>

DeleteGroup ==
    /\ nAct["route"].pc = "unsave" /\ NextCtr("route")
    /\ (NetWorks /\ nGroup' = "none") \/ (NetFault /\ UNCHANGED nGroup)
    /\ UNCHANGED <<nNet, nOn, nOwn, nProxy, nIn, nCut, nEdits>>

\* The backend restarts. A shutdown removes the proxy and the networks of groups
\* that nobody is on; the new proxy is on no network of a container.
NetRestart ==
    /\ NetFault
    /\ \/ UNCHANGED <<nNet, nProxy>> /\ nCut' = nCut \cup ({nAct[a].ctr : a \in Caller} \ {NoCtr})
       \/ /\ nNet' = IF nIn = {} THEN "none" ELSE nNet
          /\ nProxy' = {} /\ nCut' = nCut \cup nOwn
    /\ nAct' = [a \in Caller |-> NoAct]
    /\ UNCHANGED <<nGroup, nOn, nOwn, nIn, nEdits>>

-----------------------------------------------------------------------------
Ensure(a) ==
    \/ Connect(a) \/ ConnectProxy(a) \/ ReadGroup(a) \/ Join(a)
    \/ LookAtNet(a) \/ RemoveNet(a) \/ CreateNet(a)
RouteStep == SaveGroup \/ RemoveGroupNet \/ DeleteGroup
NetStep(a) ==
    \/ Ensure(a)
    \/ a = "round" /\ (Round \/ RoundGroup)
    \/ a = "route" /\ RouteStep

NetNext ==
    \/ \E a \in Caller : NetStep(a)
    \/ \E c \in Ctr : StartCtr(c) \/ RemoveCtr(c)
    \/ \E flag \in Flag : EditGroup("save", flag)
    \/ EditGroup("unnet", "closed")
    \/ NetRestart

NetSpec == NetInit /\ [][NetNext]_netVars

-----------------------------------------------------------------------------
(* Properties.                                                             *)

\* Once requests end and calls return, the network of a group is as open as its
\* record says, whatever order the route and the reconciler came in. Containers
\* on a network keep it as it is.
GroupNetworkSettles == <>[](nGroup # "none" /\ nIn = {} => nNet = nGroup)

\* A container that runs here is reached by the proxy and by its group, unless a
\* call failed, a restart came or the network of the group went after it was
\* connected to its own network: then nobody completes it.
MembersConnected ==
    <>[](\A c \in nOn \ nCut : c \in nProxy /\ c \in nIn)

\* Both kinds of networks end up as the records and the containers ask for.
NetworksSettle == GroupNetworkSettles /\ MembersConnected
=============================================================================
