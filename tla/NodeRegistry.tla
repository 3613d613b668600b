---------------------------- MODULE NodeRegistry ----------------------------
(***************************************************************************)
(* The cluster's membership registry: the etcd keys nodes/<id> and the     *)
(* 30 second leases that are to make a dead node's key disappear           *)
(* (backend/services/db.js), together with every other writer of those     *)
(* keys: the rename route, the join handler and the public-key publication *)
(* of the HA folder sync.                                                  *)
(*                                                                         *)
(* etcd serialises its operations, so one action is one etcd operation (or *)
(* one event of the process); an asynchronous JavaScript function is as    *)
(* many actions as it awaits etcd calls that matter here.                  *)
(***************************************************************************)
EXTENDS Naturals

CONSTANTS
    Node,        \* the nodes, by the id of backend/config.js
    Booted,      \* the nodes that are up, unsealed and registered at the start
    Writers,     \* which of the requests and tasks that write are in use
    MaxFaults    \* bound: crashes, lapsed leases and removals in a behaviour

ASSUME RegistryAssumption ==
    /\ Booted \subseteq Node
    /\ Writers \subseteq {"publish", "rename", "join", "remove", "delete"}
    /\ MaxFaults \in Nat

VARIABLES
    up,        \* up[n]: the backend process of n runs
    sealed,    \* sealed[n]: the process of n has no DEK in memory
    services,  \* services[n]: bootCluster has run: the scheduler and the rest go
    lease,     \* lease[n]: the lease n's process holds (nodeLease) is alive in etcd
    timer,     \* timer[n]: _leaseReconnectTimer is set: n re-registers in 5 s
    reg,       \* reg[n]: where n's registerLocalNode call stands
    publish,   \* publish[n]: what the HA sync of n read before it writes
    renaming,  \* renaming[n]: a rename route has found n and is about to write
    entry,     \* entry[n]: the etcd key nodes/<n>
    dropped,   \* auxiliary: an operator removed n, or a registration of n failed,
               \* since it last registered
    faults     \* faults so far, at most MaxFaults

regvars == <<up, sealed, services, lease, timer, reg, publish, renaming, entry, dropped, faults>>

\* "own": attached to the lease the process keeps alive; "orphan": attached to
\* a lease nobody keeps alive any more; "none": a plain put, no lease at all.
Attachment == {"own", "orphan", "none"}

\* A key's value: "full" when it carries the id and name getNodes asks for,
\* "key" when it carries the node's SSH public key.
Entry == [att : Attachment, full : BOOLEAN, key : BOOLEAN]
NoEntry == [att |-> "none", full |-> FALSE, key |-> FALSE]
Registered == [att |-> "own", full |-> TRUE, key |-> FALSE]

\* Mutant of SavedNode: what saveNode does not know of is dropped.
SavedNodeBare == [full |-> TRUE]

SavedNode == [att |-> "none", full |-> TRUE, key |-> FALSE]

\* What getNodes returns (db.js): entries with an id and a name. It looks at
\* neither the status nor the sealed flag of the entry.
Visible(n) == entry[n].full
VisibleNodes == {n \in Node : Visible(n)}

RegTypeOK ==
    /\ up \in [Node -> BOOLEAN]
    /\ sealed \in [Node -> BOOLEAN]
    /\ services \in [Node -> BOOLEAN]
    /\ lease \in [Node -> BOOLEAN]
    /\ timer \in [Node -> BOOLEAN]
    /\ reg \in [Node -> {"idle", "first", "revoke", "put"}]
    /\ publish \in [Node -> {"idle", "empty", "full"}]
    /\ renaming \in [Node -> BOOLEAN]
    /\ entry \in [Node -> Entry]
    /\ dropped \in [Node -> BOOLEAN]
    /\ faults \in 0 .. MaxFaults

RegInit ==
    /\ up = [n \in Node |-> n \in Booted]
    /\ sealed = [n \in Node |-> n \notin Booted]
    /\ services = [n \in Node |-> n \in Booted]
    /\ lease = [n \in Node |-> n \in Booted]
    /\ timer = [n \in Node |-> FALSE]
    /\ reg = [n \in Node |-> "idle"]
    /\ publish = [n \in Node |-> "idle"]
    /\ renaming = [n \in Node |-> FALSE]
    /\ entry = [n \in Node |-> IF n \in Booted THEN Registered ELSE NoEntry]
    /\ dropped = [n \in Node |-> FALSE]
    /\ faults = 0

Fault == faults < MaxFaults /\ faults' = faults + 1

\* An unsealed process can serve the API.
ApiUp == \E m \in Node : up[m] /\ ~sealed[m]

-----------------------------------------------------------------------------
(* The process and its lease.                                              *)

\* startBackend: the process starts sealed and calls registerLocalNode, which
\* finds no earlier lease to revoke.
Start(n) ==
    /\ ~up[n]
    /\ up' = [up EXCEPT ![n] = TRUE]
    /\ sealed' = [sealed EXCEPT ![n] = TRUE]
    /\ reg' = [reg EXCEPT ![n] = "first"]
    /\ UNCHANGED <<services, lease, timer, publish, renaming, entry, dropped, faults>>

\* The unseal route: the DEK is in memory and the node registers again, so
\* that its entry says so; the old lease goes first. A node whose registration
\* failed, so that its services do not run, may be unsealed once more.
Unseal(n) ==
    /\ up[n] /\ (sealed[n] \/ ~services[n]) /\ reg[n] = "idle"
    /\ sealed' = [sealed EXCEPT ![n] = FALSE]
    /\ reg' = [reg EXCEPT ![n] = "revoke"]
    /\ UNCHANGED <<up, services, lease, timer, publish, renaming, entry, dropped, faults>>

\* Mutant of Crash: the lease of the dead process is kept alive.
CrashKeepsLease(n) ==
    /\ up[n] /\ Fault
    /\ up' = [up EXCEPT ![n] = FALSE]
    /\ sealed' = [sealed EXCEPT ![n] = TRUE]
    /\ services' = [services EXCEPT ![n] = FALSE]
    /\ timer' = [timer EXCEPT ![n] = FALSE]
    /\ reg' = [reg EXCEPT ![n] = "idle"]
    /\ publish' = [publish EXCEPT ![n] = "idle"]
    /\ UNCHANGED <<lease, entry, renaming, dropped>>

\* The process dies, and with it everything it was about to do. Its lease
\* lives on in etcd until the TTL.
Crash(n) ==
    /\ up[n] /\ Fault
    /\ up' = [up EXCEPT ![n] = FALSE]
    /\ sealed' = [sealed EXCEPT ![n] = TRUE]
    /\ services' = [services EXCEPT ![n] = FALSE]
    /\ lease' = [lease EXCEPT ![n] = FALSE]
    /\ timer' = [timer EXCEPT ![n] = FALSE]
    /\ reg' = [reg EXCEPT ![n] = "idle"]
    /\ publish' = [publish EXCEPT ![n] = "idle"]
    /\ entry' = [entry EXCEPT ![n].att = IF @ = "own" THEN "orphan" ELSE @]
    /\ UNCHANGED <<renaming, dropped>>

\* etcd expires a lease nobody keeps alive and deletes the key attached to it.
Expire(n) ==
    /\ entry[n].att = "orphan"
    /\ entry' = [entry EXCEPT ![n] = NoEntry]
    /\ UNCHANGED <<up, sealed, services, lease, timer, reg, publish, renaming, dropped, faults>>

\* Mutant of Lapse: no handler for the 'lost' event.
LapseUnnoticed(n) ==
    /\ lease[n] /\ reg[n] = "idle" /\ Fault
    /\ lease' = [lease EXCEPT ![n] = FALSE]
    /\ entry' = [entry EXCEPT ![n] = IF @.att = "own" THEN NoEntry ELSE @]
    /\ UNCHANGED <<up, sealed, services, timer, reg, publish, renaming, dropped>>

\* The node stalls or is cut off for longer than the TTL: etcd expires the
\* lease, and the client's 'lost' event arms the 5 s timer.
Lapse(n) ==
    /\ lease[n] /\ reg[n] = "idle" /\ Fault
    /\ lease' = [lease EXCEPT ![n] = FALSE]
    /\ timer' = [timer EXCEPT ![n] = TRUE]
    /\ entry' = [entry EXCEPT ![n] = IF @.att = "own" THEN NoEntry ELSE @]
    /\ UNCHANGED <<up, sealed, services, reg, publish, renaming, dropped>>

\* The timer fires: registerLocalNode again.
Reconnect(n) ==
    /\ timer[n] /\ reg[n] = "idle"
    /\ timer' = [timer EXCEPT ![n] = FALSE]
    /\ reg' = [reg EXCEPT ![n] = "revoke"]
    /\ UNCHANGED <<up, sealed, services, lease, publish, renaming, entry, dropped, faults>>

\* Mutant of RevokeOld: a failed revocation is not caught and ends the call.
RevokeOldUncaught(n) ==
    /\ reg[n] = "revoke"
    /\ lease' = [lease EXCEPT ![n] = FALSE]
    /\ \E ok \in BOOLEAN :
         /\ reg' = [reg EXCEPT ![n] = IF ok THEN "put" ELSE "idle"]
         /\ entry' = [entry EXCEPT ![n] =
                     IF @.att # "own" THEN @
                     ELSE IF ok THEN NoEntry ELSE [@ EXCEPT !.att = "orphan"]]
    /\ UNCHANGED <<up, sealed, services, timer, publish, renaming, dropped, faults>>

\* registerLocalNode, first await: revoking the old lease deletes the node's
\* key with it. A revocation that fails is swallowed: the key stays until the
\* abandoned lease expires.
RevokeOld(n) ==
    /\ reg[n] = "revoke"
    /\ reg' = [reg EXCEPT ![n] = "put"]
    /\ lease' = [lease EXCEPT ![n] = FALSE]
    /\ \E ok \in BOOLEAN :
         entry' = [entry EXCEPT ![n] =
                     IF @.att # "own" THEN @
                     ELSE IF ok THEN NoEntry ELSE [@ EXCEPT !.att = "orphan"]]
    /\ UNCHANGED <<up, sealed, services, timer, publish, renaming, dropped, faults>>

\* ... or the lease is not granted, or the put fails. The unseal route answers 400,
\* the timer's call is a rejected promise: nothing registers the node again. At the
\* start the whole bootstrap is repeated instead until it succeeds.
PutFails(n) ==
    /\ reg[n] = "put" /\ Fault
    /\ reg' = [reg EXCEPT ![n] = "idle"]
    /\ \E granted \in BOOLEAN : lease' = [lease EXCEPT ![n] = granted]
    /\ dropped' = [dropped EXCEPT ![n] = TRUE]
    /\ UNCHANGED <<up, sealed, services, timer, publish, renaming, entry>>

\* registerLocalNode, second await: the key under the new lease. It carries no
\* public key: the value is built afresh. On a node that is unsealed bootCluster
\* follows, once per process.
PutEntry(n) ==
    /\ reg[n] \in {"first", "put"}
    /\ reg' = [reg EXCEPT ![n] = "idle"]
    /\ lease' = [lease EXCEPT ![n] = TRUE]
    /\ entry' = [entry EXCEPT ![n] = Registered]
    /\ dropped' = [dropped EXCEPT ![n] = FALSE]
    /\ services' = [services EXCEPT ![n] = @ \/ ~sealed[n]]
    /\ UNCHANGED <<up, sealed, timer, publish, renaming, faults>>
-----------------------------------------------------------------------------
(* The other writers of nodes/<id>. Their puts carry no lease, and a put    *)
(* without a lease detaches the key from the lease it was attached to.      *)

\* performHASync runs only when there is another entry than the node's own; an
\* entry without an id counts as another one.
HasPeers(n) == \E m \in Node : entry[m] # NoEntry /\ (m # n \/ ~entry[m].full)

\* performHASync step 3 reads the node's own key and goes on only when it does
\* not carry the public key yet; a missing key is read as {}.
ReadForPublish(n) ==
    /\ "publish" \in Writers
    /\ services[n] /\ publish[n] = "idle" /\ HasPeers(n)
    /\ ~entry[n].key
    /\ publish' = [publish EXCEPT ![n] = IF entry[n].full THEN "full" ELSE "empty"]
    /\ UNCHANGED <<up, sealed, services, lease, timer, reg, renaming, entry, dropped, faults>>

\* ... and writes what it read back, with the key added and without a lease.
Publish(n) ==
    /\ publish[n] # "idle"
    /\ publish' = [publish EXCEPT ![n] = "idle"]
    /\ entry' = [entry EXCEPT ![n] =
                   [att |-> "none", full |-> publish[n] = "full", key |-> TRUE]]
    /\ UNCHANGED <<up, sealed, services, lease, timer, reg, renaming, dropped, faults>>

\* PUT /nodes/:id/rename: getNodes, find, saveNode.
RenameRead(n) ==
    /\ "rename" \in Writers
    /\ ApiUp /\ Visible(n) /\ ~renaming[n]
    /\ renaming' = [renaming EXCEPT ![n] = TRUE]
    /\ UNCHANGED <<up, sealed, services, lease, timer, reg, publish, entry, dropped, faults>>

RenameSave(n) ==
    /\ renaming[n]
    /\ renaming' = [renaming EXCEPT ![n] = FALSE]
    /\ entry' = [entry EXCEPT ![n] = SavedNode]
    /\ UNCHANGED <<up, sealed, services, lease, timer, reg, publish, dropped, faults>>

\* The join handler of the primary, sealed or not, saves the joining node before
\* that node has started in the cluster; nothing takes the entry back when the
\* join fails.
JoinSave(n) ==
    /\ "join" \in Writers
    /\ \E m \in Node : up[m]
    /\ ~up[n] /\ entry[n] = NoEntry
    /\ entry' = [entry EXCEPT ![n] = SavedNode]
    /\ UNCHANGED <<up, sealed, services, lease, timer, reg, publish, renaming, dropped, faults>>

\* DELETE /nodes/:id removes the key, whether the node runs or not.
Remove(n) ==
    /\ "remove" \in Writers
    /\ ApiUp /\ entry[n] # NoEntry /\ Fault
    /\ entry' = [entry EXCEPT ![n] = NoEntry]
    /\ dropped' = [dropped EXCEPT ![n] = TRUE]
    /\ UNCHANGED <<up, sealed, services, lease, timer, reg, publish, renaming>>

\* A fault of a part the registry does not see counts towards the same bound.
FaultElsewhere ==
    /\ Fault
    /\ UNCHANGED <<up, sealed, services, lease, timer, reg, publish, renaming, entry, dropped>>

-----------------------------------------------------------------------------
\* The steps that touch nothing but the registry, whatever else runs on a node.
RegistryStep(n) ==
    \/ Start(n) \/ Expire(n) \/ Lapse(n) \/ Reconnect(n)
    \/ RevokeOld(n) \/ PutEntry(n) \/ PutFails(n)
    \/ ReadForPublish(n) \/ Publish(n)
    \/ RenameRead(n) \/ RenameSave(n) \/ JoinSave(n) \/ Remove(n)

RegNext ==
    \/ \E n \in Node : RegistryStep(n) \/ Unseal(n) \/ Crash(n)
    \/ FaultElsewhere

RegSafety == RegInit /\ [][RegNext]_regvars

\* etcd expires leases, and a process that runs goes on with what it started.
RegFairness ==
    \A n \in Node : /\ WF_regvars(Expire(n))
                    /\ WF_regvars(Reconnect(n))
                    /\ WF_regvars(RevokeOld(n))
                    /\ WF_regvars(PutEntry(n))
                    /\ WF_regvars(Publish(n))

RegSpec == RegSafety /\ RegFairness
-----------------------------------------------------------------------------
(* Properties.                                                             *)

\* A key attached to a lease that is kept alive belongs to a process that runs,
\* and every other leased key is on its way out: no crash, lapse, failed
\* revocation or overlapping write leaves a leased key nobody will expire.
LeasedIsAlive == \A n \in Node : entry[n].att = "own" => up[n] /\ lease[n]

\* A node whose process holds a live lease and is not re-registering is missing
\* from getNodes only if an operator removed it, a registration failed, or the HA
\* sync wrote back a key it had read as missing: a lapse leads back to a registration.
HiddenOnlyIfTakenAway ==
    \A n \in Node :
        up[n] /\ reg[n] = "idle" /\ ~timer[n] /\ ~Visible(n)
          => dropped[n] \/ (entry[n].key /\ entry[n].att = "none")

\* The registry detects a death: the key of a node that is down for good
\* disappears, unless somebody wrote it without a lease.
DeadNodeForgotten ==
    \A n \in Node : <>[](~up[n]) => <>[](~Visible(n) \/ entry[n].att = "none")

\* A node that stays up, that is not dropped and whose key only registration
\* writes is in the registry for good: re-registration ends.
LiveNodeListed ==
    \A n \in Node :
        <>[](up[n] /\ ~dropped[n] /\ publish[n] = "idle" /\ ~entry[n].key) => <>[]Visible(n)
=============================================================================
