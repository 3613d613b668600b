------------------------------ MODULE Failover ------------------------------
(***************************************************************************)
(* High availability of containers: the elected orchestrator that moves    *)
(* the records of orphaned containers (backend/services/orchestrator.js),  *)
(* the container lock it takes (backend/utils/locks.js), the reconciler    *)
(* that starts a node's containers once after it was unsealed              *)
(* (reconcileContainers in backend/services/reconciler.js), the DELETE     *)
(* handler (backend/routes/containers.js), all of them writing the records *)
(* core/containers/<id>, and under them the registry of NodeRegistry.      *)
(***************************************************************************)
EXTENDS NodeRegistry

CONSTANTS
    Container,
    None,        \* JavaScript's null: no node, no Docker id, no group
    Conf, Group, Capacity,  \* the configurations, see Placement
    Tick         \* the runs of runOrchestrationLoop that may be in flight at once

INSTANCE Placement

ASSUME FailoverAssumption ==
    /\ PlacementTypes
    /\ None \notin Container
    /\ {"free", "orphan"} \cap Tick = {}

VARIABLES
    rec,         \* rec[c]: the etcd record of container c
    copy,        \* copy[c]: the nodes whose Docker has a container named like c
    dns,         \* dns[c]: the node the SkyDNS name of c resolves to
    lock,        \* lock[c]: who holds locks/container/<c>
    leader,      \* the node whose campaign key is first in the election
    leading,     \* leading[n]: n has been told it is leader; its interval runs
    tick,        \* tick[t]: a run of runOrchestrationLoop
    boot,        \* boot[n]: the run of reconcileContainers on n
    del          \* del[c]: a DELETE request for c

fvars == <<rec, copy, dns, lock, leader, leading, tick, boot, del>>
vars == <<regvars, fvars>>

\* A record: did stands for docker_id, and names the node that container is on.
Rec == [live : BOOLEAN, node : Node \cup {None}, did : Node \cup {None}]
NoRec == [live |-> FALSE, node |-> None, did |-> None]

\* plan[c]: the node the run is going to move c to, None when it leaves c alone.
TickType == [pc : {"idle", "nodes", "records", "scan", "save", "dns", "unlock"},
             at : Node \cup {None}, alive : SUBSET Node,
             plan : [Container -> Node \cup {None}],
             item : Container \cup {None}, lapsed : BOOLEAN]
NoPlan == [c \in Container |-> None]
NoTick == [pc |-> "idle", at |-> None, alive |-> {}, plan |-> NoPlan,
           item |-> None, lapsed |-> FALSE]

\* on[c]: the record of c as the run has read it; todo: those not looked at yet.
BootType == [pc : {"off", "read", "scan", "put", "done"},
             on : [Container -> Rec], todo : SUBSET Container,
             item : Container \cup {None}, got : Rec]
NoBoot == [pc |-> "off", on |-> [c \in Container |-> NoRec], todo |-> {},
           item |-> None, got |-> NoRec]

\* A DELETE of the container of c on node "of", handled on node "at".
DelType == [pc : {"none", "docker", "record"}, of : Node \cup {None},
            at : Node \cup {None}, found : BOOLEAN]
NoDel == [pc |-> "none", of |-> None, at |-> None, found |-> FALSE]

\* The critical section of withContainerLock.
Holding(t) == tick[t].pc \in {"save", "dns", "unlock"}

TypeOK ==
    /\ RegTypeOK
    /\ rec \in [Container -> Rec]
    /\ copy \in [Container -> SUBSET Node]
    /\ dns \in [Container -> Node \cup {None}]
    /\ lock \in [Container -> Tick \cup {"free", "orphan"}]
    /\ leader \in Node \cup {None}
    /\ leading \in [Node -> BOOLEAN]
    /\ tick \in [Tick -> TickType]
    /\ boot \in [Node -> BootType]
    /\ del \in [Container -> DelType]

\* Containers run where their records say, on a node their allowlists name. The
\* record of a persisted container has no node, and is never HA (containers.js
\* 410, 428).
RunsAt(home) ==
    /\ rec \in [Container -> Rec]
    /\ \A c \in Container :
         /\ home[c] \in Allowed(c)
         /\ rec[c].live /\ rec[c].did = home[c]
         /\ rec[c].node \in IF IsHA(c) THEN {home[c]} ELSE {home[c], None}
    /\ copy = [c \in Container |-> {home[c]}]

Init ==
    /\ RegInit
    /\ \E home \in [Container -> Booted] : RunsAt(home)
    /\ dns = [c \in Container |-> None]
    /\ lock = [c \in Container |-> "free"]
    /\ leader = None
    /\ leading = [n \in Node |-> FALSE]
    /\ tick = [t \in Tick |-> NoTick]
    /\ boot = [n \in Node |-> IF n \in Booted THEN [NoBoot EXCEPT !.pc = "done"] ELSE NoBoot]
    /\ del = [c \in Container |-> NoDel]

-----------------------------------------------------------------------------
(* The election (etcd3's election over leader/orchestrator).               *)

\* startOrchestrator campaigns a minute after the reconciler has run; etcd
\* grants leadership to one campaign at a time, and 'elected' starts the
\* interval.
Elected(n) ==
    /\ boot[n].pc = "done" /\ ~leading[n] /\ leader = None
    /\ leader' = n
    /\ leading' = [leading EXCEPT ![n] = TRUE]
    /\ UNCHANGED <<regvars, rec, copy, dns, lock, tick, boot, del>>

\* The campaign's lease expires in etcd while its node is stalled or cut off.
LoseElection(n) ==
    /\ leader = n /\ FaultElsewhere
    /\ leader' = None
    /\ UNCHANGED <<rec, copy, dns, lock, leading, tick, boot, del>>

\* The 'error' event reaches the node: stopOrchestrator clears the interval and
\* a new campaign begins after 10 s. A loop in flight goes on.
ElectionError(n) ==
    /\ leading[n] /\ leader # n
    /\ leading' = [leading EXCEPT ![n] = FALSE]
    /\ UNCHANGED <<regvars, rec, copy, dns, lock, leader, tick, boot, del>>

-----------------------------------------------------------------------------
(* runOrchestrationLoop. Nothing stops two runs from overlapping.          *)

\* The 5 s interval fires.
Begin(t) ==
    /\ tick[t].pc = "idle"
    /\ \E n \in Node :
         /\ leading[n]
         /\ tick' = [tick EXCEPT ![t] = [@ EXCEPT !.pc = "nodes", !.at = n]]
    /\ UNCHANGED <<regvars, rec, copy, dns, lock, leader, leading, boot, del>>

\* Mutant of ReadNodes: a cached list of all nodes ever seen.
ReadNodesCached(t) ==
    /\ tick[t].pc = "nodes"
    /\ tick' = [tick EXCEPT ![t] = [@ EXCEPT !.pc = "records", !.alive = Node]]
    /\ UNCHANGED <<regvars, rec, copy, dns, lock, leader, leading, boot, del>>

ReadNodes(t) ==
    /\ tick[t].pc = "nodes"
    /\ tick' = [tick EXCEPT ![t] = [@ EXCEPT !.pc = "records", !.alive = VisibleNodes]]
    /\ UNCHANGED <<regvars, rec, copy, dns, lock, leader, leading, boot, del>>

\* A record whose node is not in the registry; no node is not in it either.
Orphans(alive) == {c \in Container : rec[c].live /\ IsHA(c) /\ rec[c].node \notin alive}

Placed == [c \in Container |-> IF rec[c].live THEN rec[c].node ELSE None]

\* getContainers, and with it every choice the run makes: it counts resources
\* on the records it read, never on the moves it makes itself. Orphans without
\* a candidate are skipped.
ReadRecords(t) ==
    /\ tick[t].pc = "records"
    /\ \E plan \in [Container -> Node \cup {None}] :
         /\ \A c \in Container :
              IF c \in Orphans(tick[t].alive) /\ Candidates(c, tick[t].alive) # {}
              THEN plan[c] \in Best(c, tick[t].alive, Placed)
              ELSE plan[c] = None
         /\ tick' = [tick EXCEPT ![t] = [@ EXCEPT !.pc = "scan", !.plan = plan]]
    /\ UNCHANGED <<regvars, rec, copy, dns, lock, leader, leading, boot, del>>

\* Mutant of TryLock: the lock key is written whether it exists or not.
TryLockBlind(t, c) ==
    /\ tick[t].pc = "scan" /\ tick[t].plan[c] # None
    /\ lock' = [lock EXCEPT ![c] = t]
    /\ tick' = [tick EXCEPT ![t] = [@ EXCEPT !.pc = "save", !.item = c, !.lapsed = FALSE]]
    /\ UNCHANGED <<regvars, rec, copy, dns, leader, leading, boot, del>>

\* withContainerLock(container.id): create the lock key if nobody has it.
TryLock(t, c) ==
    /\ tick[t].pc = "scan" /\ tick[t].plan[c] # None
    /\ lock[c] = "free"
    /\ lock' = [lock EXCEPT ![c] = t]
    /\ tick' = [tick EXCEPT ![t] = [@ EXCEPT !.pc = "save", !.item = c, !.lapsed = FALSE]]
    /\ UNCHANGED <<regvars, rec, copy, dns, leader, leading, boot, del>>

\* A held lock throws, out of the for loop: the run is over.
LockBusy(t, c) ==
    /\ tick[t].pc = "scan" /\ tick[t].plan[c] # None
    /\ lock[c] # "free"
    /\ tick' = [tick EXCEPT ![t] = NoTick]
    /\ UNCHANGED <<regvars, rec, copy, dns, lock, leader, leading, boot, del>>

Finish(t) ==
    /\ tick[t].pc = "scan" /\ tick[t].plan = NoPlan
    /\ tick' = [tick EXCEPT ![t] = NoTick]
    /\ UNCHANGED <<regvars, rec, copy, dns, lock, leader, leading, boot, del>>

\* Mutant of Save: the positional arguments of saveContainer are mixed up.
SaveMixedUp(t) ==
    /\ tick[t].pc = "save"
    /\ LET c == tick[t].item IN
         rec' = [rec EXCEPT ![c] = [live |-> TRUE, node |-> c, did |-> None]]
    /\ tick' = [tick EXCEPT ![t] = [@ EXCEPT !.pc = "dns"]]
    /\ UNCHANGED <<regvars, copy, dns, lock, leader, leading, boot, del>>

\* saveContainer with the record as the run read it, the new node and no Docker
\* id: the record is not read again under the lock.
Save(t) ==
    /\ tick[t].pc = "save"
    /\ LET c == tick[t].item IN
         rec' = [rec EXCEPT ![c] = [live |-> TRUE, node |-> tick[t].plan[c], did |-> None]]
    /\ tick' = [tick EXCEPT ![t] = [@ EXCEPT !.pc = "dns"]]
    /\ UNCHANGED <<regvars, copy, dns, lock, leader, leading, boot, del>>

DnsPut(t) ==
    /\ tick[t].pc = "dns"
    /\ LET c == tick[t].item IN dns' = [dns EXCEPT ![c] = tick[t].plan[c]]
    /\ tick' = [tick EXCEPT ![t] = [@ EXCEPT !.pc = "unlock"]]
    /\ UNCHANGED <<regvars, rec, copy, lock, leader, leading, boot, del>>

\* Mutant of Unlock: no finally, the lease lives on.
UnlockForgotten(t) ==
    /\ tick[t].pc = "unlock"
    /\ tick' = [tick EXCEPT ![t] = [@ EXCEPT !.pc = "scan", !.plan[tick[t].item] = None,
                            !.item = None, !.lapsed = FALSE]]
    /\ UNCHANGED <<regvars, rec, copy, dns, lock, leader, leading, boot, del>>

\* finally: revoke the lease, which deletes the key; a failure is swallowed and
\* leaves the key until the abandoned lease expires.
Unlock(t) ==
    /\ tick[t].pc = "unlock"
    /\ LET c == tick[t].item IN
         /\ \E left \in {"free", "orphan"} :
              lock' = [lock EXCEPT ![c] = IF @ = t THEN left ELSE @]
         /\ tick' = [tick EXCEPT ![t] = [@ EXCEPT !.pc = "scan", !.plan[c] = None,
                                 !.item = None, !.lapsed = FALSE]]
    /\ UNCHANGED <<regvars, rec, copy, dns, leader, leading, boot, del>>

\* A call to etcd fails, and the run with it: on its way to a lock at once, inside
\* the critical section by way of the finally block. A record that was saved stays
\* saved, whether its DNS entry was written or not.
TickFails(t) ==
    /\ FaultElsewhere
    /\ \/ /\ tick[t].pc \in {"nodes", "records", "scan"}
          /\ tick' = [tick EXCEPT ![t] = NoTick]
       \/ /\ tick[t].pc \in {"save", "dns"}
          /\ tick' = [tick EXCEPT ![t] = [@ EXCEPT !.pc = "unlock", !.plan = NoPlan]]
    /\ UNCHANGED <<rec, copy, dns, lock, leader, leading, boot, del>>

\* The lock's lease expires under a holder that stalled for two minutes.
LockLapse(t) ==
    /\ Holding(t) /\ lock[tick[t].item] = t /\ FaultElsewhere
    /\ lock' = [lock EXCEPT ![tick[t].item] = "free"]
    /\ tick' = [tick EXCEPT ![t] = [@ EXCEPT !.lapsed = TRUE]]
    /\ UNCHANGED <<rec, copy, dns, leader, leading, boot, del>>

\* etcd expires the lease of a lock nobody keeps alive.
LockExpire(c) ==
    /\ lock[c] = "orphan"
    /\ lock' = [lock EXCEPT ![c] = "free"]
    /\ UNCHANGED <<regvars, rec, copy, dns, leader, leading, tick, boot, del>>

-----------------------------------------------------------------------------
(* reconcileContainers: once per process, after the node was unsealed.     *)

BootRead(n) ==
    /\ boot[n].pc = "read" /\ services[n]
    /\ boot' = [boot EXCEPT ![n] = [@ EXCEPT !.pc = "scan", !.on = rec,
                            !.todo = {c \in Container : rec[c].live}]]
    /\ UNCHANGED <<regvars, rec, copy, dns, lock, leader, leading, tick, del>>

\* A container of another node: left alone while that node is in the registry,
\* else a copy that runs here is stopped and removed, if Docker obliges.
BootForeign(n, c) ==
    /\ boot[n].pc = "scan" /\ c \in boot[n].todo
    /\ boot[n].on[c].node \notin {n, None}
    /\ \/ UNCHANGED copy
       \/ ~Visible(boot[n].on[c].node) /\ copy' = [copy EXCEPT ![c] = @ \ {n}]
    /\ boot' = [boot EXCEPT ![n] = [@ EXCEPT !.todo = boot[n].todo \ {c}]]
    /\ UNCHANGED <<regvars, rec, dns, lock, leader, leading, tick, del>>

\* When getNodes fails, no node is taken to be in the registry.
BootMisjudges(n, c) ==
    /\ boot[n].pc = "scan" /\ c \in boot[n].todo
    /\ boot[n].on[c].node \notin {n, None}
    /\ FaultElsewhere
    /\ copy' = [copy EXCEPT ![c] = @ \ {n}]
    /\ boot' = [boot EXCEPT ![n] = [@ EXCEPT !.todo = boot[n].todo \ {c}]]
    /\ UNCHANGED <<rec, dns, lock, leader, leading, tick, del>>

\* A container of this node, or of none: created when Docker does not have it,
\* and updateContainerDockerId reads the record again. A creation, inspection or
\* read that fails leaves the record out.
BootEnsure(n, c) ==
    /\ boot[n].pc = "scan" /\ c \in boot[n].todo
    /\ boot[n].on[c].node \in {n, None}
    /\ \/ /\ boot' = [boot EXCEPT ![n] = [@ EXCEPT !.todo = boot[n].todo \ {c}]]
          /\ \E started \in {{}, {n}} : copy' = [copy EXCEPT ![c] = @ \cup started]
       \/ /\ copy' = [copy EXCEPT ![c] = @ \cup {n}]
          /\ boot' = [boot EXCEPT ![n] = [@ EXCEPT !.pc = "put", !.todo = boot[n].todo \ {c},
                                  !.item = c, !.got = rec[c]]]
    /\ UNCHANGED <<regvars, rec, dns, lock, leader, leading, tick, del>>

\* Mutant of BootPut: a missing record is not checked for.
BootPutUpsert(n) ==
    /\ boot[n].pc = "put"
    /\ rec' = [rec EXCEPT ![boot[n].item] = [boot[n].got EXCEPT !.live = TRUE, !.did = n]]
    /\ boot' = [boot EXCEPT ![n] = [@ EXCEPT !.pc = "scan", !.item = None, !.got = NoRec]]
    /\ UNCHANGED <<regvars, copy, dns, lock, leader, leading, tick, del>>

\* updateContainerDockerId writes the record it read, if there was one, with
\* the Docker id of the local container. No lock is taken.
BootPut(n) ==
    /\ boot[n].pc = "put"
    /\ rec' = [rec EXCEPT ![boot[n].item] =
                 IF boot[n].got.live THEN [boot[n].got EXCEPT !.did = n] ELSE @]
    /\ boot' = [boot EXCEPT ![n] = [@ EXCEPT !.pc = "scan", !.item = None, !.got = NoRec]]
    /\ UNCHANGED <<regvars, copy, dns, lock, leader, leading, tick, del>>

\* The records cannot be read, or an image cannot be pulled: what is left of them
\* is not reconciled, and the boot goes on without.
BootAborts(n) ==
    /\ boot[n].pc \in {"read", "scan"} /\ FaultElsewhere
    /\ boot' = [boot EXCEPT ![n] = [NoBoot EXCEPT !.pc = "done"]]
    /\ UNCHANGED <<rec, copy, dns, lock, leader, leading, tick, del>>

BootDone(n) ==
    /\ boot[n].pc = "scan" /\ boot[n].todo = {}
    /\ boot' = [boot EXCEPT ![n] = [NoBoot EXCEPT !.pc = "done"]]
    /\ UNCHANGED <<regvars, rec, copy, dns, lock, leader, leading, tick, del>>

-----------------------------------------------------------------------------
(* DELETE /containers/:id, by Docker id: its lock key is the Docker id,     *)
(* another key than the orchestrator's. One DELETE of c at a time.         *)

\* The record is looked up by docker_id, and the request goes to the node the
\* record names, else it is handled where the container is.
DelRequest(c, n) ==
    /\ "delete" \in Writers
    /\ del[c].pc = "none"
    /\ \E found \in BOOLEAN, at \in Node :
         /\ found = (rec[c].live /\ rec[c].did = n)
         /\ at = IF found /\ rec[c].node # None THEN rec[c].node ELSE n
         /\ found \/ n \in copy[c]
         /\ up[at] /\ ~sealed[at]
         /\ del' = [del EXCEPT ![c] = [pc |-> "docker", of |-> n, at |-> at, found |-> found]]
    /\ UNCHANGED <<regvars, rec, copy, dns, lock, leader, leading, tick, boot>>

\* inspect, stop, remove; a container that cannot be inspected on the handling node
\* counts as removed already.
DelDocker(c) ==
    /\ del[c].pc = "docker"
    /\ copy' = [copy EXCEPT ![c] = IF del[c].at = del[c].of THEN @ \ {del[c].of} ELSE @]
    /\ del' = [del EXCEPT ![c] = [@ EXCEPT !.pc = "record"]]
    /\ UNCHANGED <<regvars, rec, dns, lock, leader, leading, tick, boot>>

\* Docker or etcd does not answer in time. A failed inspection leaves the container
\* and deletes its record, a failed stop or removal leaves both, and a failed
\* deletion leaves the record of a container that is gone.
DelFails(c) ==
    /\ FaultElsewhere
    /\ \/ /\ del[c].pc = "docker"
          /\ del' = [del EXCEPT ![c] = [@ EXCEPT !.pc = "record"]]
       \/ /\ del[c].pc # "none"
          /\ del' = [del EXCEPT ![c] = NoDel]
    /\ UNCHANGED <<rec, copy, dns, lock, leader, leading, tick, boot>>

DelRecord(c) ==
    /\ del[c].pc = "record"
    /\ rec' = [rec EXCEPT ![c] = IF del[c].found THEN NoRec ELSE @]
    /\ del' = [del EXCEPT ![c] = NoDel]
    /\ UNCHANGED <<regvars, copy, dns, lock, leader, leading, tick, boot>>

-----------------------------------------------------------------------------
(* The registry's steps.                                                   *)

RegistryOnly(n) == RegistryStep(n) /\ UNCHANGED fvars

\* The unseal route boots the cluster services once registration is done.
UnsealAndBoot(n) ==
    /\ Unseal(n)
    /\ boot' = [boot EXCEPT ![n] = [@ EXCEPT !.pc = "read"]]
    /\ UNCHANGED <<rec, copy, dns, lock, leader, leading, tick, del>>

\* The backend of n dies: its loops, its boot and its requests with it. Their
\* locks stay until they expire, and the containers run on.
CrashAll(n) ==
    /\ Crash(n)
    /\ lock' = [c \in Container |->
                  IF lock[c] \in Tick /\ tick[lock[c]].at = n THEN "orphan" ELSE lock[c]]
    /\ leader' = IF leader = n THEN None ELSE leader
    /\ leading' = [leading EXCEPT ![n] = FALSE]
    /\ tick' = [t \in Tick |-> IF tick[t].at = n THEN NoTick ELSE tick[t]]
    /\ boot' = [boot EXCEPT ![n] = NoBoot]
    /\ del' = [c \in Container |-> IF del[c].at = n THEN NoDel ELSE del[c]]
    /\ UNCHANGED <<rec, copy, dns>>

Orchestrate(t) ==
    \/ Begin(t) \/ ReadNodes(t) \/ ReadRecords(t)
    \/ \E c \in Container : TryLock(t, c) \/ LockBusy(t, c)
    \/ Finish(t) \/ Save(t) \/ DnsPut(t) \/ Unlock(t)

Reconcile(n) ==
    \/ BootRead(n) \/ BootPut(n) \/ BootDone(n)
    \/ \E c \in Container : BootForeign(n, c) \/ BootEnsure(n, c)

Next ==
    \/ \E n \in Node : \/ RegistryOnly(n) \/ UnsealAndBoot(n) \/ CrashAll(n)
                       \/ Elected(n) \/ LoseElection(n) \/ ElectionError(n)
                       \/ Reconcile(n) \/ BootAborts(n)
    \/ \E t \in Tick : Orchestrate(t) \/ TickFails(t) \/ LockLapse(t)
    \/ \E c \in Container : \/ LockExpire(c) \/ DelDocker(c) \/ DelFails(c) \/ DelRecord(c)
                            \/ \E n \in Node : DelRequest(c, n) \/ BootMisjudges(n, c)

Safety == Init /\ [][Next]_vars

\* What runs goes on, the interval keeps firing, etcd expires what nobody keeps
\* alive and elects a leader among the campaigns.
Fairness ==
    /\ \A n \in Node :
         /\ WF_vars(Expire(n) /\ UNCHANGED fvars)
         /\ WF_vars((Reconnect(n) \/ RevokeOld(n) \/ PutEntry(n)) /\ UNCHANGED fvars)
         /\ WF_vars(Publish(n) /\ UNCHANGED fvars)
         /\ WF_vars(Elected(n)) /\ WF_vars(ElectionError(n))
         /\ WF_vars(Reconcile(n))
    /\ \A t \in Tick : WF_vars(Orchestrate(t))
    /\ \A c \in Container : WF_vars(LockExpire(c)) /\ WF_vars(DelDocker(c) \/ DelRecord(c))

Spec == Safety /\ Fairness
-----------------------------------------------------------------------------
(* Properties.                                                             *)

\* withContainerLock excludes: two runs are in the critical section of one
\* container only when the lease of one of them has lapsed under it.
LockExcludes ==
    \A t, u \in Tick :
        t # u /\ Holding(t) /\ Holding(u) /\ tick[t].item = tick[u].item
          => tick[t].lapsed \/ tick[u].lapsed

\* However runs, boots, deletions and crashes interleave, and however stale what
\* they write, a container is recorded, and resolved, only on a node that its
\* own or its group's allowlist names.
AllowedPlacement ==
    \A c \in Container :
        /\ rec[c].live => rec[c].node \in Allowed(c) \cup {None}
        /\ dns[c] \in Allowed(c) \cup {None}

\* Who still carries what it read of the record of c.
StaleReader(c) ==
    \/ \E t \in Tick : tick[t].plan[c] # None
    \/ \E n \in Node : boot[n].item = c /\ boot[n].got.live

\* A deleted record comes back only by the hand of a run that had read it
\* before the deletion; with nothing in flight it is gone for good.
DeletedStaysDeleted ==
    [][\A c \in Container : rec'[c].live /\ ~rec[c].live => StaleReader(c)]_vars

\* A lock never outlives its holder for good: it is free again and again.
LockFreed == \A c \in Container : []<>(lock[c] = "free")

\* The containers of a node that died are moved off it, provided its registry
\* key went with it and some allowed node stays up, unsealed and listed.
DownForGood(n) == ~up[n] /\ (entry[n].att # "none" \/ entry[n] = NoEntry)
Usable(m) == up[m] /\ ~sealed[m] /\ Visible(m)
OffNode(c, n) == ~(rec[c].live /\ rec[c].node = n)
OrphanRescheduled ==
    \A c \in Container, n \in Node :
        IsHA(c) /\ <>[]DownForGood(n) /\ (\E m \in Allowed(c) : <>[]Usable(m))
          => <>[]OffNode(c, n)

-----------------------------------------------------------------------------
(* What README.md and the comments say and the code does not do.            *)

\* README.md:23: orphaned HA containers are rescheduled, whatever else was
\* written to the dead node's key while it lived.
EveryOrphanRescheduled ==
    \A c \in Container, n \in Node :
        IsHA(c) /\ <>[](~up[n]) /\ (\E m \in Allowed(c) : <>[]Usable(m))
          => <>[]OffNode(c, n)

\* README.md:23: rescheduled to a healthy node, where it then runs.
RescheduledRuns ==
    \A c \in Container, n, m \in Node :
        /\ n # m
        /\ <>(rec[c].node = n) /\ <>[](~up[n])
        /\ <>[](rec[c].live /\ rec[c].node = m /\ up[m] /\ ~sealed[m])
        => <>(m \in copy[c])

\* orchestrator.js:139-140: a node that is told it is no longer the leader must
\* stop modifying containers.
OnlyLeaderModifies ==
    [][\A t \in Tick : tick[t].pc = "save" /\ tick'[t].pc = "dns" => leading[tick[t].at]]_vars
=============================================================================
