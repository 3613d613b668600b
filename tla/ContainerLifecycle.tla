------------------------- MODULE ContainerLifecycle -------------------------
(***************************************************************************)
(* The container routes of one node, backend/routes/containers.js: create, *)
(* update, persist and delete, with their locks (utils/locks.js), their    *)
(* rollbacks and what is left when a step of theirs fails or the process   *)
(* dies; and the boot that repairs it (reconcileContainers). One action is *)
(* one call to etcd, to Docker or to the reverse proxy.                    *)
(***************************************************************************)
EXTENDS Naturals, FiniteSets

CONSTANTS
    Name,        \* names of containers
    Request,     \* requests in flight at a time
    MaxRequests, \* bound: requests
    MaxDocker,   \* bound: containers and ids of containers at a time
    MaxRecords,  \* bound: records and ids of records at a time
    MaxFaults    \* bound: failing calls, lapsed leases, crashes

DockerId == 1 .. MaxDocker
RecordId == 1 .. MaxRecords
None == 0

\* PUT and DELETE lock the id of the URL, POST the name.
LockKey == Name \cup DockerId

ASSUME LifecycleAssumption ==
    /\ MaxRequests \in Nat /\ MaxDocker \in Nat \ {0} /\ MaxRecords \in Nat /\ MaxFaults \in Nat
    /\ Name \cap (Nat \cup {"none"}) = {}
    /\ {"free", "orphan"} \cap Request = {}

VARIABLES
    dock,     \* dock[d]: the container d of Docker, or Absent
    rec,      \* rec[r]: the record containers/r, or Absent
    routes,   \* names the reverse proxy has a location for
    lock,     \* lock[k]: the request whose lease holds k
    req,      \* req[q]: the handler q is in
    todo,     \* records the boot has read and not ensured yet
    up,       \* the backend runs
    trouble,  \* "raced": handlers met that no lock keeps apart; "crashed"
    begun,    \* requests so far
    faults    \* faults so far

vars == <<dock, rec, routes, lock, req, todo, up, trouble, begun, faults>>

Absent == [name |-> "none", run |-> FALSE, did |-> None]
Container == [name : Name, run : BOOLEAN, did : {None}]
Record == [name : Name, run : {FALSE}, did : DockerId \cup {None}]

\* did: the container of the URL. name, old: the name asked for, the name found.
\* id, copy: the record found. new: the container created. newId: the record's
\* id that will be written. solo: no other handler ran meanwhile. kept: the old
\* container has not been removed.
ReqType == [pc : {"idle", "lookup", "lock", "check", "create", "undo", "inspect", "find", "stop", "drop",
                  "save", "swap", "unroute", "start", "net", "route", "rbRemove", "rbStart", "rbSave",
                  "restart", "remove", "forget", "saveDid", "restore", "unlock"},
            op : {"none", "post", "put", "persist", "delete"},
            did : DockerId \cup {None}, name : Name \cup {"none"}, old : Name \cup {"none"},
            id : RecordId \cup {None}, copy : Record \cup {Absent}, newId : RecordId \cup {None},
            new : DockerId \cup {None}, solo : BOOLEAN, ok : BOOLEAN, kept : BOOLEAN]
Idle == [pc |-> "idle", op |-> "none", did |-> None, name |-> "none", old |-> "none",
         id |-> None, copy |-> Absent, newId |-> None, new |-> None, solo |-> FALSE,
         ok |-> FALSE, kept |-> TRUE]

TypeOK ==
    /\ dock \in [DockerId -> Container \cup {Absent}]
    /\ rec \in [RecordId -> Record \cup {Absent}]
    /\ routes \subseteq Name
    /\ lock \in [LockKey -> Request \cup {"free", "orphan"}]
    /\ req \in [Request -> ReqType]
    /\ todo \subseteq [id : RecordId, name : Name]
    /\ up \in BOOLEAN /\ trouble \subseteq {"raced", "crashed"} /\ begun \in 0 .. MaxRequests /\ faults \in 0 .. MaxFaults

\* One container runs: one of this system's, with its record, or a foreign one.
Init ==
    /\ \E n \in Name, mine \in BOOLEAN :
         /\ dock = [d \in DockerId |-> IF d = 1 THEN [Absent EXCEPT !.name = n, !.run = TRUE] ELSE Absent]
         /\ rec = [r \in RecordId |-> IF r = 1 /\ mine THEN [Absent EXCEPT !.name = n, !.did = 1] ELSE Absent]
         /\ routes \in SUBSET (IF mine THEN {n} ELSE {})
    /\ lock = [k \in LockKey |-> "free"]
    /\ req = [q \in Request |-> Idle]
    /\ todo = {} /\ up = TRUE /\ trouble = {} /\ begun = 0 /\ faults = 0

-----------------------------------------------------------------------------
(* Docker, etcd, and the state of a handler.                               *)

Least(S) == CHOOSE i \in S : \A j \in S : i <= j
FreshDocker ==
    {d \in DockerId : dock[d] = Absent /\ lock[d] = "free" /\ (\A r \in RecordId : rec[r].did # d)
                        /\ \A q \in Request : d \notin {req[q].did, req[q].new, req[q].copy.did}}
FreshRecord ==
    {r \in RecordId : rec[r] = Absent /\ (\A q \in Request : r \notin {req[q].id, req[q].newId})
                        /\ \A t \in todo : t.id # r}

Named(n) == {d \in DockerId : dock[d].name = n}

\* Mutant of Created.
CreatedBare(n) == [name |-> n]

Created(n) == [Absent EXCEPT !.name = n]

Works == UNCHANGED faults
Fault == faults < MaxFaults /\ faults' = faults + 1

\* What the end of the handler no longer needs is dropped.
Answer(q, ok) ==
    req' = [req EXCEPT ![q] = [@ EXCEPT !.pc = "unlock", !.ok = ok, !.copy = Absent,
                                        !.new = None, !.newId = None]]
Go(q, pc) == IF pc = "unlock" THEN Answer(q, FALSE) ELSE req' = [req EXCEPT ![q].pc = pc]
At(q, op, pc) == up /\ req[q].op = op /\ req[q].pc = pc

\* docker.createContainer refuses a name that is taken. A call that times out is
\* carried out all the same, or not.
Create(q, n, next, failed) ==
    \/ /\ Named(n) = {} /\ FreshDocker # {} /\ Works
       /\ dock' = [dock EXCEPT ![Least(FreshDocker)] = Created(n)]
       /\ req' = [req EXCEPT ![q].pc = next, ![q].new = Least(FreshDocker)]
    \/ Named(n) # {} /\ Go(q, failed) /\ Works /\ UNCHANGED dock
    \/ Fault /\ Go(q, failed) /\ UNCHANGED dock
    \/ /\ Named(n) = {} /\ FreshDocker # {} /\ Fault
       /\ dock' = [dock EXCEPT ![Least(FreshDocker)] = Created(n)]
       /\ Go(q, failed)

\* stop, start and remove of a container that is there or not; whether
\* Docker's answer to the stop of a stopped container is an error is its client's
\* choice.
Set(q, d, c, fine, next, failed) ==
    \/ fine /\ Works /\ dock' = [dock EXCEPT ![d] = c] /\ Go(q, next)
    \/ ~fine /\ Works /\ UNCHANGED dock /\ Go(q, failed)
    \/ Fault /\ dock' \in {dock, IF fine THEN [dock EXCEPT ![d] = c] ELSE dock} /\ Go(q, failed)
Stop(q, d, next, failed) ==
    \/ Set(q, d, [dock[d] EXCEPT !.run = FALSE], dock[d].run, next, failed)
    \/ dock[d] # Absent /\ ~dock[d].run /\ Works /\ Go(q, next) /\ UNCHANGED dock
Start(q, d, next, failed) ==
    Set(q, d, [dock[d] EXCEPT !.run = TRUE], dock[d] # Absent, next, failed)
Remove(q, d, next, failed) == Set(q, d, Absent, dock[d] # Absent, next, failed)

\* A put or a delete of a record; when it fails nothing is written.
Put(q, r, c, next, failed) ==
    \/ Works /\ rec' = [rec EXCEPT ![r] = c] /\ Go(q, next)
    \/ Fault /\ UNCHANGED rec /\ Go(q, failed)

\* The key a handler will take: PUT and DELETE the id of the URL, POST the name.
Guard(r) == IF r.op = "post" THEN r.name ELSE r.did

\* Two handlers that no lock keeps from interleaving: persist takes none.
Apart(r, s) ==
    r.pc # "idle" /\ ("persist" \in {r.op, s.op} \/ Guard(r) # Guard(s))

\* A handler begins; it and every handler under way have company from now on.
Begin(q, r) ==
    /\ up /\ req[q].pc = "idle" /\ begun < MaxRequests
    /\ begun' = begun + 1
    /\ trouble' = trouble \cup
         IF todo # {} \/ \E p \in Request \ {q} : Apart(req[p], r) THEN {"raced"} ELSE {}
    /\ req' = [p \in Request |->
                 IF p = q THEN [r EXCEPT !.solo = todo = {} /\ \A s \in Request \ {q} : req[s].pc = "idle"]
                 ELSE [req[p] EXCEPT !.solo = FALSE]]
    /\ UNCHANGED <<dock, rec, routes, lock, todo, up, faults>>

-----------------------------------------------------------------------------
(* withContainerLock.                                                      *)

KeyOf(q) == Guard(req[q])
InCallback(q) == req[q].op \in {"post", "put", "delete"} /\ req[q].pc \notin {"idle", "lookup", "lock"}

\* Mutant of Lock: a get and a put instead of the transaction.
LockBlind(q) ==
    /\ up /\ req[q].pc = "lock"
    /\ Works /\ lock' = [lock EXCEPT ![KeyOf(q)] = q]
    /\ Go(q, IF req[q].op = "post" THEN "check" ELSE "inspect")
    /\ UNCHANGED <<dock, rec, routes, todo, up, trouble, begun>>

\* The transaction creates the key or the request is refused. When its answer is
\* lost, the key stays behind until its lease expires.
Lock(q) ==
    /\ up /\ req[q].pc = "lock"
    /\ \/ /\ lock[KeyOf(q)] = "free" /\ Works
          /\ lock' = [lock EXCEPT ![KeyOf(q)] = q]
          /\ Go(q, IF req[q].op = "post" THEN "check" ELSE "inspect")
       \/ /\ lock[KeyOf(q)] # "free" /\ Works /\ UNCHANGED lock
          /\ req' = [req EXCEPT ![q] = Idle]
       \/ /\ Fault /\ req' = [req EXCEPT ![q] = Idle]
          /\ lock' \in {lock, IF lock[KeyOf(q)] = "free" THEN [lock EXCEPT ![KeyOf(q)] = "orphan"] ELSE lock}
    /\ UNCHANGED <<dock, rec, routes, todo, up, trouble, begun>>

\* finally: the lease is revoked; a revocation that fails is swallowed.
Unlock(q) ==
    /\ up /\ req[q].pc = "unlock"
    /\ \/ Works /\ lock' = [k \in LockKey |-> IF lock[k] = q THEN "free" ELSE lock[k]]
       \/ Fault /\ lock' = [k \in LockKey |-> IF lock[k] = q THEN "orphan" ELSE lock[k]]
    /\ req' = [req EXCEPT ![q] = Idle]
    /\ UNCHANGED <<dock, rec, routes, todo, up, trouble, begun>>

\* The 120 s lease of a handler that stalled lapses; it goes on.
Lapse(k) ==
    /\ lock[k] \in Request /\ Fault
    /\ lock' = [lock EXCEPT ![k] = "free"]
    /\ UNCHANGED <<dock, rec, routes, req, todo, up, trouble, begun>>

Expire(k) ==
    /\ lock[k] = "orphan"
    /\ lock' = [lock EXCEPT ![k] = "free"]
    /\ UNCHANGED <<dock, rec, routes, req, todo, up, trouble, begun, faults>>

-----------------------------------------------------------------------------
(* POST /containers.                                                       *)

Post(q, n) == Begin(q, [Idle EXCEPT !.pc = "lock", !.op = "post", !.name = n])

\* getContainerByName swallows the error of a read that fails, and then finds no
\* record; a container that is privileged or whose image is missing is refused.
PostCheck(q) ==
    /\ At(q, "post", "check")
    /\ \/ Works /\ (\E r \in RecordId : rec[r].name = req[q].name) /\ Answer(q, FALSE)
       \/ Works /\ (\A r \in RecordId : rec[r].name # req[q].name) /\ Go(q, "create")
       \/ Fault /\ (Go(q, "create") \/ Answer(q, FALSE))
    /\ UNCHANGED <<dock, rec, routes, lock, todo, up, trouble, begun>>

PostCreate(q) ==
    /\ At(q, "post", "create")
    /\ Create(q, req[q].name, "undo", "unlock")
    /\ UNCHANGED <<rec, routes, lock, todo, up, trouble, begun>>

\* Mutant of PostUndo: the new container is left.
PostUndoForgotten(q) ==
    /\ At(q, "post", "undo")
    /\ Works /\ Go(q, "unlock")
    /\ UNCHANGED <<dock, rec, routes, lock, todo, up, trouble, begun>>

\* The call to saveContainer names a variable, nodeId, that does not exist: it
\* throws before anything is written, and the container is removed again.
PostUndo(q) ==
    /\ At(q, "post", "undo")
    /\ Remove(q, req[q].new, "unlock", "unlock")
    /\ UNCHANGED <<rec, routes, lock, todo, up, trouble, begun>>

-----------------------------------------------------------------------------
(* PUT /containers/:id.                                                    *)

Update(q, d, n) == Begin(q, [Idle EXCEPT !.pc = "lock", !.op = "put", !.did = d, !.name = n])

PutInspect(q) ==
    /\ At(q, "put", "inspect")
    /\ \/ /\ Works /\ dock[req[q].did] # Absent
          /\ req' = [req EXCEPT ![q].pc = "find", ![q].old = dock[req[q].did].name]
       \/ Works /\ dock[req[q].did] = Absent /\ Answer(q, FALSE)
       \/ Fault /\ Answer(q, FALSE)
    /\ UNCHANGED <<dock, rec, routes, lock, todo, up, trouble, begun>>

\* The record is found by its name, or not when the read fails. A rename gets a
\* record of a new id, as does a container that had none.
PutFind(q) ==
    /\ At(q, "put", "find")
    /\ \/ \E r \in RecordId :
            /\ Works /\ rec[r].name = req[q].old
            /\ req' = [req EXCEPT ![q].pc = "stop", ![q].id = r, ![q].copy = rec[r]]
       \/ /\ (Works /\ \A r \in RecordId : rec[r].name # req[q].old) \/ Fault
          /\ Go(q, "stop")
    /\ UNCHANGED <<dock, rec, routes, lock, todo, up, trouble, begun>>

\* Out of reach of the rollbacks: when it fails, nothing starts the container.
PutStop(q) ==
    /\ At(q, "put", "stop")
    /\ Stop(q, req[q].did, "create", "unlock")
    /\ UNCHANGED <<rec, routes, lock, todo, up, trouble, begun>>

PutCreate(q) ==
    /\ At(q, "put", "create")
    /\ Create(q, req[q].name, "drop", "restart")
    /\ UNCHANGED <<rec, routes, lock, todo, up, trouble, begun>>

Renames(q) == req[q].id # None /\ req[q].old # req[q].name

\* The record of the old name goes first; an error is swallowed.
PutDrop(q) ==
    /\ At(q, "put", "drop")
    /\ IF Renames(q) THEN Put(q, req[q].id, Absent, "save", "save")
       ELSE Works /\ Go(q, "save") /\ UNCHANGED rec
    /\ UNCHANGED <<dock, routes, lock, todo, up, trouble, begun>>

PutSave(q) ==
    /\ At(q, "put", "save")
    /\ \E r \in IF req[q].id = None \/ Renames(q) THEN {r \in FreshRecord : r = Least(FreshRecord)}
                ELSE {req[q].id} :
         \/ /\ Works /\ rec' = [rec EXCEPT ![r] = [Absent EXCEPT !.name = req[q].name, !.did = req[q].new]]
            /\ req' = [req EXCEPT ![q].pc = "swap", ![q].newId = r]
         \/ Fault /\ UNCHANGED rec /\ Go(q, "rbRemove")
    /\ UNCHANGED <<dock, routes, lock, todo, up, trouble, begun>>

\* "Now safe to remove old container"; an error is swallowed.
PutSwap(q) ==
    /\ At(q, "put", "swap")
    /\ \/ /\ Works
          /\ dock' = [dock EXCEPT ![req[q].did] = Absent]
       \/ Fault /\ UNCHANGED dock
    /\ req' = [req EXCEPT ![q].pc = "unroute", ![q].kept = FALSE]
    /\ UNCHANGED <<rec, routes, lock, todo, up, trouble, begun>>

PutUnroute(q) ==
    /\ At(q, "put", "unroute")
    /\ \/ Works /\ routes' = routes \ {req[q].old}
       \/ Fault /\ UNCHANGED routes
    /\ Go(q, "start")
    /\ UNCHANGED <<dock, rec, lock, todo, up, trouble, begun>>

PutStart(q) ==
    /\ At(q, "put", "start")
    /\ Start(q, req[q].new, "net", "rbRemove")
    /\ UNCHANGED <<rec, routes, lock, todo, up, trouble, begun>>

\* The networks, and the route of a container that has one.
PutNet(q) ==
    /\ At(q, "put", "net")
    /\ \/ /\ dock[req[q].new] # Absent /\ Works /\ Answer(q, TRUE)
          /\ routes' \in {routes, routes \cup {req[q].name}}
       \/ dock[req[q].new] = Absent /\ Works /\ Go(q, "rbRemove") /\ UNCHANGED routes
       \/ Fault /\ Go(q, "rbRemove") /\ UNCHANGED routes
    /\ UNCHANGED <<dock, rec, lock, todo, up, trouble, begun>>

\* The inner rollback: the new container goes, the old one starts, its record is
\* written back; each error is swallowed. The new record stays.
RbRemove(q) ==
    /\ At(q, "put", "rbRemove")
    /\ Remove(q, req[q].new, "rbStart", "rbStart")
    /\ UNCHANGED <<rec, routes, lock, todo, up, trouble, begun>>

RbStart(q) ==
    /\ At(q, "put", "rbStart")
    /\ Start(q, req[q].did, "rbSave", "rbSave")
    /\ UNCHANGED <<rec, routes, lock, todo, up, trouble, begun>>

\* Mutant of RbSave: the record is not restored.
RbSaveForgotten(q) ==
    /\ At(q, "put", "rbSave")
    /\ Works /\ Go(q, "restart")
    /\ UNCHANGED <<dock, rec, routes, lock, todo, up, trouble, begun>>

RbSave(q) ==
    /\ At(q, "put", "rbSave")
    /\ IF req[q].id = None THEN Works /\ Go(q, "restart") /\ UNCHANGED rec
       ELSE Put(q, req[q].id, [req[q].copy EXCEPT !.did = req[q].did], "restart", "restart")
    /\ UNCHANGED <<dock, routes, lock, todo, up, trouble, begun>>

\* The outer rollback.
Restart(q) ==
    /\ At(q, "put", "restart")
    /\ Start(q, req[q].did, "unlock", "unlock")
    /\ UNCHANGED <<rec, routes, lock, todo, up, trouble, begun>>

-----------------------------------------------------------------------------
(* POST /containers/:id/persist: adopts a container, under no lock.        *)

Persist(q, d) == Begin(q, [Idle EXCEPT !.pc = "inspect", !.op = "persist", !.did = d])

\* The name of a container never changes, so both reads are one step.
PersistRead(q) ==
    /\ At(q, "persist", "inspect")
    /\ LET n == dock[req[q].did].name IN
       \/ /\ dock[req[q].did] # Absent
          /\ (Works /\ \A r \in RecordId : rec[r].name # n) \/ Fault
          /\ req' = [req EXCEPT ![q].pc = "stop", ![q].old = n, ![q].name = n]
       \/ /\ dock[req[q].did] = Absent \/ \E r \in RecordId : rec[r].name = n
          /\ Works /\ Answer(q, FALSE)
    /\ UNCHANGED <<dock, rec, routes, lock, todo, up, trouble, begun>>

PersistStop(q) ==
    /\ At(q, "persist", "stop")
    /\ Stop(q, req[q].did, "remove", "unlock")
    /\ UNCHANGED <<rec, routes, lock, todo, up, trouble, begun>>

PersistRemove(q) ==
    /\ At(q, "persist", "remove")
    /\ Remove(q, req[q].did, "save", "unlock")
    /\ UNCHANGED <<rec, routes, lock, todo, up, trouble, begun>>

\* The record is saved without a Docker id, the container created, and the
\* record saved again.
PersistSave(q) ==
    /\ At(q, "persist", "save")
    /\ FreshRecord # {}
    /\ \/ /\ Works /\ rec' = [rec EXCEPT ![Least(FreshRecord)] = [Absent EXCEPT !.name = req[q].old]]
          /\ req' = [req EXCEPT ![q].pc = "create", ![q].newId = Least(FreshRecord)]
       \/ Fault /\ UNCHANGED rec /\ Go(q, "restore")
    /\ UNCHANGED <<dock, routes, lock, todo, up, trouble, begun>>

PersistCreate(q) ==
    /\ At(q, "persist", "create")
    /\ Create(q, req[q].old, "saveDid", "restore")
    /\ UNCHANGED <<rec, routes, lock, todo, up, trouble, begun>>

PersistSaveDid(q) ==
    /\ At(q, "persist", "saveDid")
    /\ Put(q, req[q].newId, [Absent EXCEPT !.name = req[q].old, !.did = req[q].new], "start", "undo")
    /\ UNCHANGED <<dock, routes, lock, todo, up, trouble, begun>>

PersistStart(q) ==
    /\ At(q, "persist", "start")
    /\ Start(q, req[q].new, "net", "undo")
    /\ UNCHANGED <<rec, routes, lock, todo, up, trouble, begun>>

PersistNet(q) ==
    /\ At(q, "persist", "net")
    /\ \/ Works /\ dock[req[q].new] # Absent /\ Answer(q, TRUE)
       \/ Works /\ dock[req[q].new] = Absent /\ Go(q, "undo")
       \/ Fault /\ Go(q, "undo")
    /\ UNCHANGED <<dock, rec, routes, lock, todo, up, trouble, begun>>

PersistUndo(q) ==
    /\ At(q, "persist", "undo")
    /\ Remove(q, req[q].new, "restore", "restore")
    /\ UNCHANGED <<rec, routes, lock, todo, up, trouble, begun>>

\* The rollback creates the container anew, without its volumes; the record
\* that was saved stays.
PersistRestore(q) ==
    /\ At(q, "persist", "restore")
    /\ Create(q, req[q].old, "restart", "unlock")
    /\ UNCHANGED <<rec, routes, lock, todo, up, trouble, begun>>

PersistRestart(q) ==
    /\ At(q, "persist", "restart")
    /\ Start(q, req[q].new, "unlock", "unlock")
    /\ UNCHANGED <<rec, routes, lock, todo, up, trouble, begun>>

-----------------------------------------------------------------------------
(* DELETE /containers/:id.                                                 *)

Delete(q, d) == Begin(q, [Idle EXCEPT !.pc = "lookup", !.op = "delete", !.did = d])

\* The record is read before the lock is taken.
DeleteFind(q) ==
    /\ At(q, "delete", "lookup")
    /\ \/ \E r \in RecordId : /\ Works /\ rec[r].did = req[q].did
                              /\ req' = [req EXCEPT ![q].pc = "lock", ![q].id = r]
       \/ /\ (Works /\ \A r \in RecordId : rec[r].did # req[q].did) \/ Fault
          /\ Go(q, "lock")
    /\ UNCHANGED <<dock, rec, routes, lock, todo, up, trouble, begun>>

\* Any error of the inspection is taken for a container that is gone already.
DeleteInspect(q) ==
    /\ At(q, "delete", "inspect")
    /\ \/ /\ Works /\ dock[req[q].did] # Absent
          /\ req' = [req EXCEPT ![q].pc = "stop", ![q].old = dock[req[q].did].name]
       \/ ((Works /\ dock[req[q].did] = Absent) \/ Fault) /\ Go(q, "forget")
    /\ UNCHANGED <<dock, rec, routes, lock, todo, up, trouble, begun>>

DeleteStop(q) ==
    /\ At(q, "delete", "stop")
    /\ Stop(q, req[q].did, "remove", "unlock")
    /\ UNCHANGED <<rec, routes, lock, todo, up, trouble, begun>>

DeleteRemove(q) ==
    /\ At(q, "delete", "remove")
    /\ Remove(q, req[q].did, "forget", "unlock")
    /\ UNCHANGED <<rec, routes, lock, todo, up, trouble, begun>>

\* Mutant of DeleteForget: the record is left.
DeleteForgetNot(q) ==
    /\ At(q, "delete", "forget")
    /\ Works /\ Go(q, "unroute")
    /\ UNCHANGED <<dock, rec, routes, lock, todo, up, trouble, begun>>

DeleteForget(q) ==
    /\ At(q, "delete", "forget")
    /\ IF req[q].id = None THEN Works /\ UNCHANGED rec
       ELSE (Works /\ rec' = [rec EXCEPT ![req[q].id] = Absent]) \/ (Fault /\ UNCHANGED rec)
    /\ Go(q, "unroute")
    /\ UNCHANGED <<dock, routes, lock, todo, up, trouble, begun>>

\* After a failed inspection the name is not known, and the route that is
\* removed is one nobody made.
DeleteUnroute(q) ==
    /\ At(q, "delete", "unroute")
    /\ \/ Works /\ routes' = routes \ {req[q].old}
       \/ Fault /\ UNCHANGED routes
    /\ Answer(q, TRUE)
    /\ UNCHANGED <<dock, rec, lock, todo, up, trouble, begun>>

-----------------------------------------------------------------------------
(* The process dies and boots.                                             *)

Crash ==
    /\ up /\ Fault
    /\ up' = FALSE /\ todo' = {}
    /\ req' = [q \in Request |-> Idle]
    /\ lock' = [k \in LockKey |-> IF lock[k] \in Request THEN "orphan" ELSE lock[k]]
    /\ trouble' = trouble \cup {"crashed"}
    /\ UNCHANGED <<dock, rec, routes, begun>>

\* getContainers: a read that fails returns no records.
Boot ==
    /\ ~up /\ up' = TRUE
    /\ \/ Works /\ todo' = {[id |-> r, name |-> rec[r].name] : r \in {s \in RecordId : rec[s] # Absent}}
       \/ Fault /\ todo' = {}
    /\ UNCHANGED <<dock, rec, routes, lock, req, trouble, begun>>

\* Mutant of BootEnsure: a container that is there is not started.
BootEnsureMissing(t) ==
    /\ up /\ t \in todo /\ todo' = todo \ {t}
    /\ Works /\ UNCHANGED <<dock, rec, routes, lock, req, up, trouble, begun>>

\* The container is looked up by the name that was read, created when it is
\* missing, its id written to the record as it is by now, and started.
BootEnsure(t) ==
    /\ up /\ t \in todo /\ todo' = todo \ {t}
    /\ \/ \E d \in IF Named(t.name) # {} THEN Named(t.name)
                   ELSE {f \in FreshDocker : f = Least(FreshDocker)} :
            /\ Works
            /\ dock' = [dock EXCEPT ![d] = [Created(t.name) EXCEPT !.run = TRUE]]
            /\ rec' = IF rec[t.id] = Absent THEN rec ELSE [rec EXCEPT ![t.id].did = d]
            /\ routes' \in {routes, routes \cup {t.name}}
       \/ Fault /\ UNCHANGED <<dock, rec, routes>>
    /\ UNCHANGED <<lock, req, up, trouble, begun>>

-----------------------------------------------------------------------------
Arrives(q) ==
    \/ \E n \in Name : Post(q, n)
    \/ \E d \in DockerId : /\ dock[d] # Absent
                           /\ Persist(q, d) \/ Delete(q, d) \/ \E n \in Name : Update(q, d, n)

PostStep(q) == PostCheck(q) \/ PostCreate(q) \/ PostUndo(q)
PutStep(q) ==
    \/ PutInspect(q) \/ PutFind(q) \/ PutStop(q) \/ PutCreate(q) \/ PutDrop(q) \/ PutSave(q)
    \/ PutSwap(q) \/ PutUnroute(q) \/ PutStart(q) \/ PutNet(q)
    \/ RbRemove(q) \/ RbStart(q) \/ RbSave(q) \/ Restart(q)
PersistStep(q) ==
    \/ PersistRead(q) \/ PersistStop(q) \/ PersistRemove(q) \/ PersistSave(q) \/ PersistCreate(q)
    \/ PersistSaveDid(q) \/ PersistStart(q) \/ PersistNet(q) \/ PersistUndo(q)
    \/ PersistRestore(q) \/ PersistRestart(q)
DeleteStep(q) ==
    \/ DeleteFind(q) \/ DeleteInspect(q) \/ DeleteStop(q) \/ DeleteRemove(q)
    \/ DeleteForget(q) \/ DeleteUnroute(q)
Step(q) ==
    Lock(q) \/ Unlock(q) \/ PostStep(q) \/ PutStep(q) \/ PersistStep(q) \/ DeleteStep(q)

Next ==
    \/ \E q \in Request : Arrives(q) \/ Step(q)
    \/ \E k \in LockKey : Lapse(k) \/ Expire(k)
    \/ Crash \/ Boot \/ \E t \in todo : BootEnsure(t)

Safety == Init /\ [][Next]_vars
(* Properties.                                                             *)

\* withContainerLock keeps the promise of LeaseLock, whatever fails, crashes or
\* lapses: a key is taken only when it is free, an owner loses it only by
\* leaving, by a lapse or by dying with its process, and nobody frees another's.
Abstract == INSTANCE LeaseLock WITH
    Key <- LockKey, Client <- Request, NoKey <- None, owner <- lock,
    inside <- [q \in Request |-> IF InCallback(q) THEN KeyOf(q) ELSE None]
LocksRefine == Abstract!LockSpec

\* Nothing is under way.
Quiet == up /\ todo = {} /\ \A q \in Request : req[q].pc = "idle"

\* Two requests for one container, in whatever order, and one crash anywhere
\* leave records that agree with Docker: each names a container that exists and
\* bears its name, and no two share a name. Handlers that no lock keeps apart,
\* and calls that fail, are not covered: they do leave records of nothing.
ConsistentAtRest ==
    Quiet /\ "raced" \notin trouble /\ faults = Cardinality(trouble) =>
        \A r \in RecordId : rec[r] # Absent =>
            /\ rec[r].did # None /\ dock[rec[r].did].name = rec[r].name
            /\ \A s \in RecordId \ {r} : rec[s].name # rec[r].name

\* While nothing fails, no interleaving of the handlers leaves a container
\* stopped, though every update, refused or not, stops one first, and every
\* POST creates one it never starts.
RunningAtRest ==
    Quiet /\ faults = 0 => \A d \in DockerId : dock[d] # Absent => dock[d].run

\* An update that fails, alone and by one error, before the old container was
\* removed has not lost it: Docker still has it and, if it had a record, its
\* record has its name again.
UpdateUndone ==
    \A q \in Request :
        /\ req[q].op = "put" /\ req[q].pc = "unlock" /\ req[q].solo
        /\ ~req[q].ok /\ req[q].kept /\ req[q].old # "none" /\ faults <= 1
        => /\ dock[req[q].did].name = req[q].old
           /\ req[q].id # None => rec[req[q].id].name = req[q].old

\* After a crash at any point of a handler, the boot leaves every container
\* that has a record running.
BootRestores ==
    Quiet /\ trouble = {"crashed"} /\ faults = 1 =>
        \A r \in RecordId : rec[r] # Absent => \E d \in Named(rec[r].name) : dock[d].run
=============================================================================
