----------------------- MODULE ContainerLifecycleProofs -----------------------
(***************************************************************************)
(* What the container routes of a node, their rollbacks and the boot after *)
(* a crash leave behind, for any names, any number of requests in flight   *)
(* and of failures.                                                        *)
(***************************************************************************)
EXTENDS ContainerLifecycle, FiniteSetTheorems, WellFoundedInduction, TLAPS

-----------------------------------------------------------------------------
(* What holds always.                                                      *)

\* What a handler has found and made by the call it is at.
Carries(q) ==
    LET r == req[q] IN
    /\ r.pc = "idle" => r = Idle
    /\ r.pc # "idle" => r.op # "none"
    /\ r.op = "post" => /\ r.pc \in {"lock", "check", "create", "undo", "unlock"} /\ r.name \in Name
                        /\ r.pc = "undo" => r.new \in DockerId
    /\ r.op \in {"put", "persist", "delete"} => r.did \in DockerId
    /\ r.op = "put" =>
         /\ r.name \in Name
         /\ r.pc \notin {"lock", "inspect", "unlock"} => r.old \in Name
         /\ r.pc # "unlock" /\ r.id # None => r.copy \in Record /\ r.copy.name = r.old
         /\ r.pc \in {"lock", "inspect", "find"} => r.id = None
         /\ r.pc \in {"drop", "save", "swap", "unroute", "start", "net", "rbRemove"} =>
              r.new \in DockerId \ {r.did}
         /\ r.pc \in {"unroute", "start", "net"} => ~r.kept
    /\ r.op = "persist" =>
         /\ r.pc \notin {"lookup", "lock"}
         /\ r.pc \notin {"inspect", "unlock"} => r.old \in Name
         /\ r.pc \in {"saveDid", "start", "net", "undo", "restart"} => r.new \in DockerId \ {r.did}
         /\ r.pc \in {"create", "saveDid"} => r.newId \in RecordId

\* Nothing is under way in a backend that is down.
DownIsIdle == ~up => todo = {} /\ \A q \in Request : req[q].pc = "idle"

\* Docker gives a name once.
OneOfAName == \A d, e \in DockerId : dock[d] # Absent /\ dock[d].name = dock[e].name => d = e

\* A key is held by the handler whose callback it guards.
OwnersInside == \A k \in LockKey, q \in Request : lock[k] = q => InCallback(q) /\ KeyOf(q) = k

CrashesCounted == "crashed" \in trouble => faults >= 1

WellFormed ==
    /\ TypeOK /\ DownIsIdle /\ OneOfAName /\ OwnersInside /\ CrashesCounted
    /\ \A q \in Request : Carries(q)

-----------------------------------------------------------------------------
(* While nothing fails: who stopped a container, or has not started one yet, *)
(* starts or removes it.                                                   *)

Owes(q, d) ==
    \/ /\ d = req[q].did
       /\ \/ req[q].op = "put" /\ req[q].pc \in {"create", "drop", "save", "swap", "restart"}
          \/ req[q].op \in {"persist", "delete"} /\ req[q].pc = "remove"
    \/ /\ d = req[q].new
       /\ \/ req[q].op = "put" /\ req[q].pc \in {"drop", "save", "swap", "unroute", "start"}
          \/ req[q].op = "persist" /\ req[q].pc \in {"saveDid", "start", "restart"}
          \/ req[q].op = "post" /\ req[q].pc = "undo"

Stopped(d) == dock[d] # Absent /\ ~dock[d].run
Owed(d) == \E q \in Request : Owes(q, d)
DebtsKept == faults = 0 => \A d \in DockerId : Stopped(d) => Owed(d)

-----------------------------------------------------------------------------
(* An update nobody meets.                                                 *)

Alone(q) == todo = {} /\ \A p \in Request \ {q} : req[p].pc = "idle"

\* The old container is there, and what it takes to get its record back: it is
\* written, or about to be, and by a rollback only after an error.
Undoable(q) ==
    req[q].solo /\ req[q].pc # "idle" =>
        /\ Alone(q)
        /\ req[q].op = "put" /\ req[q].kept /\ req[q].old # "none" =>
             /\ dock[req[q].did].name = req[q].old
             /\ req[q].pc \in {"rbRemove", "rbStart", "rbSave"} => faults >= 1
             /\ req[q].id # None =>
                  \/ rec[req[q].id].name = req[q].old \/ faults >= 2
                  \/ req[q].pc \in {"save", "swap", "rbRemove", "rbStart", "rbSave"}

-----------------------------------------------------------------------------
(* Handlers that locks keep apart, and one crash at most.                  *)

Calm == (trouble = {} /\ faults = 0) \/ (trouble = {"crashed"} /\ faults = 1)
Working(q) == InCallback(q) \/ req[q].op = "persist"

\* All handlers want one key, and one has it; the boot meets none.
KeptApart ==
    /\ \A q, p \in Request : q # p /\ req[q].pc # "idle" /\ req[p].pc # "idle" =>
          req[q].op # "persist" /\ KeyOf(q) = KeyOf(p)
    /\ todo # {} => \A q \in Request : req[q].pc = "idle"
    /\ \A q \in Request : InCallback(q) => lock[KeyOf(q)] = q

\* A record names a container that bears its name, or the boot has it on its
\* list, or the handler at work is about to see to it.
Matched(r) == rec[r].did # None /\ dock[rec[r].did].name = rec[r].name
Listed(r) == [id |-> r, name |-> rec[r].name] \in todo
Repairs(q, r) ==
    \/ req[q].op = "delete" /\ req[q].pc = "forget" /\ req[q].id = r
    \/ req[q].op = "persist" /\ req[q].pc \in {"create", "saveDid"} /\ req[q].newId = r

RecordsMatch ==
    /\ \A r, s \in RecordId : rec[r] # Absent /\ rec[r].name = rec[s].name => r = s
    /\ \A r \in RecordId : rec[r] # Absent /\ up =>
          Matched(r) \/ Listed(r) \/ \E q \in Request : Repairs(q, r)
    /\ \A t \in todo : rec[t.id].name = t.name

\* The container of a record runs, or the boot or a handler will start it.
RecordsRun ==
    \A r \in RecordId : rec[r] # Absent /\ up /\ ~Listed(r) =>
        \A d \in DockerId : dock[d].name = rec[r].name /\ Stopped(d) => Owed(d)

Unrecorded(d) == \A r \in RecordId : rec[r].did # d
NoRecordOf(n) == \A r \in RecordId : rec[r].name # n

\* What a handler knows of the records and the containers while it works.
InOrder(q) ==
    LET r == req[q] IN
    /\ r.op = "post" /\ r.pc = "undo" => Unrecorded(r.new)
    /\ r.op = "delete" /\ r.pc \notin {"lookup", "unlock"} =>
         \A s \in RecordId : rec[s].did = r.did => s = r.id
    /\ r.op = "put" =>
         /\ r.pc \notin {"rbRemove", "rbStart", "rbSave"}
         /\ r.pc \in {"find", "stop", "create", "drop", "save"} => dock[r.did].name = r.old
         /\ r.pc \in {"stop", "create", "drop"} =>
              IF r.id = None THEN NoRecordOf(r.old) ELSE rec[r.id].name = r.old
         /\ r.pc \in {"drop", "save", "swap", "unroute", "start", "net"} =>
              dock[r.new].name = r.name
         /\ r.pc \in {"drop", "save"} => Unrecorded(r.new)
         /\ r.pc = "save" => NoRecordOf(r.old)
         /\ r.pc = "swap" => Unrecorded(r.did)
    /\ r.op = "persist" =>
         /\ r.pc \notin {"undo", "restore", "restart"}
         /\ r.pc \in {"stop", "remove"} => dock[r.did].name = r.old
         /\ r.pc \in {"stop", "remove", "save"} => NoRecordOf(r.old)
         /\ r.pc \in {"save", "create"} => Named(r.old) = {}
         /\ r.pc \in {"create", "saveDid"} => rec[r.newId].name = r.old
         /\ r.pc = "saveDid" => Unrecorded(r.new)
         /\ r.pc \in {"saveDid", "start", "net"} => dock[r.new].name = r.old

CalmInv == KeptApart /\ RecordsMatch /\ RecordsRun /\ \A q \in Request : InOrder(q)

IInv ==
    /\ WellFormed /\ DebtsKept
    /\ \A q \in Request : Undoable(q)
    /\ Calm => CalmInv

-----------------------------------------------------------------------------
(* The operators of the model.                                             *)

LEMMA LeastIsOne ==
    ASSUME NEW S \in SUBSET Nat, S # {}
    PROVE  Least(S) \in S
<1>1. PICK i \in S : \A j \in S : ~(<<j, i>> \in OpToRel(<, Nat))
    BY WFMin, NatLessThanWellFounded, Zenon
<1>2. \A j \in S : i <= j
    <2> SUFFICES ASSUME NEW j \in S PROVE i <= j
        OBVIOUS
    <2>1. ~(<<j, i>> \in OpToRel(<, Nat))
        BY <1>1
    <2>2. ~(j < i)
        BY <2>1 DEF OpToRel
    <2> QED
        BY <2>2
<1> QED
    BY <1>2 DEF Least

Places == {"idle", "lookup", "lock", "check", "create", "undo", "inspect", "find", "stop", "drop",
           "save", "swap", "unroute", "start", "net", "route", "rbRemove", "rbStart", "rbSave",
           "restart", "remove", "forget", "saveDid", "restore", "unlock"}

LEMMA Names ==
    /\ \A n \in Name : n \notin DockerId /\ n # "none" /\ n # None /\ n \notin Nat
    /\ Absent \notin Container /\ Absent \notin Record
    /\ Absent.name = "none" /\ Absent.run = FALSE /\ Absent.did = None
    /\ \A d \in DockerId : d # None /\ d \in Nat
    /\ \A r \in RecordId : r # None /\ r \in Nat
    /\ \A r \in Record : r.name \in Name /\ r.did \in DockerId \cup {None} /\ r.run = FALSE
    /\ \A c \in Container : c.name \in Name /\ c.run \in BOOLEAN
<1>1. \A n \in Name : n \notin DockerId /\ n # "none" /\ n # None /\ n \notin Nat
    BY LifecycleAssumption DEF DockerId, None
<1>2. Absent.name = "none" /\ Absent.run = FALSE /\ Absent.did = None
    BY DEF Absent
<1>3. /\ \A r \in Record : r.name \in Name /\ r.did \in DockerId \cup {None} /\ r.run = FALSE
      /\ \A c \in Container : c.name \in Name /\ c.run \in BOOLEAN
    BY DEF Record, Container
<1>4. Absent \notin Container /\ Absent \notin Record
    BY <1>1, <1>2, <1>3
<1>5. (\A d \in DockerId : d # None /\ d \in Nat) /\ \A r \in RecordId : r # None /\ r \in Nat
    BY DEF DockerId, RecordId, None
<1> QED
    BY <1>1, <1>2, <1>3, <1>4, <1>5

LEMMA Made ==
    /\ \A n \in Name : /\ Created(n) \in Container /\ Created(n).name = n /\ Created(n).run = FALSE
                       /\ [Created(n) EXCEPT !.run = TRUE] \in Container
                       /\ [Created(n) EXCEPT !.run = TRUE].name = n
                       /\ [Created(n) EXCEPT !.run = TRUE].run
                       /\ [Absent EXCEPT !.name = n] \in Record
                       /\ [Absent EXCEPT !.name = n].name = n
                       /\ [Absent EXCEPT !.name = n].did = None
    /\ \A n \in Name, d \in DockerId : /\ [Absent EXCEPT !.name = n, !.did = d] \in Record
                                       /\ [Absent EXCEPT !.name = n, !.did = d].name = n
                                       /\ [Absent EXCEPT !.name = n, !.did = d].did = d
    /\ \A c \in Container, b \in BOOLEAN : /\ [c EXCEPT !.run = b] \in Container
                                           /\ [c EXCEPT !.run = b].name = c.name
                                           /\ [c EXCEPT !.run = b].run = b
    /\ \A r \in Record, d \in DockerId : /\ [r EXCEPT !.did = d] \in Record
                                         /\ [r EXCEPT !.did = d].name = r.name
                                         /\ [r EXCEPT !.did = d].did = d
BY DEF Created, Absent, Container, Record, None

\* The states of Docker, the records and the handlers.
Docks == [DockerId -> Container \cup {Absent}]
Recs == [RecordId -> Record \cup {Absent}]

LEMMA Fields ==
    ASSUME WellFormed
    PROVE  /\ dock \in Docks /\ rec \in Recs /\ req \in [Request -> ReqType]
           /\ \A d \in DockerId : /\ dock[d] = Absent \/ dock[d] \in Container
                                  /\ dock[d].name \in Name <=> dock[d] # Absent
                                  /\ dock[d].name \in Name \cup {"none"} /\ dock[d].run \in BOOLEAN
           /\ \A r \in RecordId : /\ rec[r] = Absent \/ rec[r] \in Record
                                  /\ rec[r].name \in Name <=> rec[r] # Absent
                                  /\ rec[r].name \in Name \cup {"none"}
                                  /\ rec[r].did \in DockerId \cup {None}
           /\ \A q \in Request :
                /\ req[q].pc \in Places /\ req[q].op \in {"none", "post", "put", "persist", "delete"}
                /\ req[q].did \in DockerId \cup {None} /\ req[q].name \in Name \cup {"none"}
                /\ req[q].old \in Name \cup {"none"} /\ req[q].id \in RecordId \cup {None}
                /\ req[q].newId \in RecordId \cup {None} /\ req[q].new \in DockerId \cup {None}
                /\ req[q].solo \in BOOLEAN /\ req[q].ok \in BOOLEAN /\ req[q].kept \in BOOLEAN
<1>1. dock \in Docks /\ rec \in Recs /\ req \in [Request -> ReqType]
    BY DEF WellFormed, TypeOK, Docks, Recs
<1>2. ASSUME NEW q \in Request
      PROVE  /\ req[q].pc \in Places /\ req[q].op \in {"none", "post", "put", "persist", "delete"}
             /\ req[q].did \in DockerId \cup {None} /\ req[q].name \in Name \cup {"none"}
             /\ req[q].old \in Name \cup {"none"} /\ req[q].id \in RecordId \cup {None}
             /\ req[q].newId \in RecordId \cup {None} /\ req[q].new \in DockerId \cup {None}
             /\ req[q].solo \in BOOLEAN /\ req[q].ok \in BOOLEAN /\ req[q].kept \in BOOLEAN
    <2>1. req[q] \in ReqType
        BY <1>1
    <2> QED
        BY <2>1 DEF ReqType, Places
<1>3. ASSUME NEW d \in DockerId
      PROVE  /\ dock[d] = Absent \/ dock[d] \in Container
             /\ dock[d].name \in Name <=> dock[d] # Absent
             /\ dock[d].name \in Name \cup {"none"} /\ dock[d].run \in BOOLEAN
    BY <1>1, Names DEF Docks
<1>4. ASSUME NEW r \in RecordId
      PROVE  /\ rec[r] = Absent \/ rec[r] \in Record
             /\ rec[r].name \in Name <=> rec[r] # Absent
             /\ rec[r].name \in Name \cup {"none"} /\ rec[r].did \in DockerId \cup {None}
    BY <1>1, Names DEF Recs
<1> QED
    BY <1>1, <1>2, <1>3, <1>4

\* The handlers but q are where they were.
Others(q) == \A p \in Request \ {q} : req'[p] = req[p]
\* The request of q, and what q has found.
Same(q) ==
    /\ req'[q].op = req[q].op /\ req'[q].did = req[q].did /\ req'[q].name = req[q].name
    /\ req'[q].old = req[q].old /\ req'[q].id = req[q].id
    /\ req'[q].solo = req[q].solo /\ req'[q].kept = req[q].kept
SameFinds(q) ==
    /\ req'[q].copy = req[q].copy /\ req'[q].newId = req[q].newId /\ req'[q].new = req[q].new
    /\ req'[q].ok = req[q].ok
Moves(q, pc) ==
    /\ req' \in [Request -> ReqType] /\ Others(q) /\ Same(q) /\ req'[q].pc = pc
    /\ pc # "unlock" => SameFinds(q)

LEMMA AnswerMoves ==
    ASSUME req \in [Request -> ReqType], NEW q \in Request, NEW ok \in BOOLEAN, Answer(q, ok)
    PROVE  Moves(q, "unlock") /\ req'[q].ok = ok
<1> DEFINE to == [req[q] EXCEPT !.pc = "unlock", !.ok = ok, !.copy = Absent, !.new = None,
                                !.newId = None]
<1>1. req[q] \in ReqType
    OBVIOUS
<1>2. to \in ReqType /\ to.pc = "unlock" /\ to.ok = ok
    <2> DEFINE half == [req[q] EXCEPT !.pc = "unlock", !.ok = ok, !.copy = Absent]
    <2>1. half \in ReqType
        BY <1>1 DEF ReqType
    <2>2. to = [half EXCEPT !.new = None, !.newId = None]
        BY <1>1 DEF ReqType
    <2>3. to.pc = "unlock" /\ to.ok = ok
        BY <1>1 DEF ReqType
    <2> HIDE DEF to, half
    <2> QED
        BY <2>1, <2>2, <2>3 DEF ReqType
<1>3. /\ to.op = req[q].op /\ to.did = req[q].did /\ to.name = req[q].name /\ to.old = req[q].old
      /\ to.id = req[q].id /\ to.solo = req[q].solo /\ to.kept = req[q].kept
    BY <1>1 DEF ReqType
<1>4. req' = [req EXCEPT ![q] = to]
    BY Zenon DEF Answer
<1> HIDE DEF to
<1> QED
    BY <1>2, <1>3, <1>4 DEF Moves, Others, Same

LEMMA GoMoves ==
    ASSUME req \in [Request -> ReqType], NEW q \in Request, NEW pc \in Places, Go(q, pc)
    PROVE  Moves(q, pc) /\ (pc = "unlock" => ~req'[q].ok)
<1>1. CASE pc = "unlock"
    BY <1>1, AnswerMoves DEF Go
<1>2. CASE pc # "unlock"
    <2> DEFINE to == [req[q] EXCEPT !.pc = pc]
    <2>1. req[q] \in ReqType
        OBVIOUS
    <2>2. to \in ReqType /\ to.pc = pc
        BY <2>1 DEF ReqType, Places
    <2>3. /\ to.op = req[q].op /\ to.did = req[q].did /\ to.name = req[q].name
          /\ to.old = req[q].old /\ to.id = req[q].id /\ to.solo = req[q].solo
          /\ to.kept = req[q].kept /\ to.copy = req[q].copy /\ to.newId = req[q].newId
          /\ to.new = req[q].new /\ to.ok = req[q].ok
        BY <2>1 DEF ReqType
    <2>4. req' = [req EXCEPT ![q] = to]
        BY <1>2, Zenon DEF Go
    <2> HIDE DEF to
    <2> QED
        BY <1>2, <2>2, <2>3, <2>4 DEF Moves, Others, Same, SameFinds
<1> QED
    BY <1>1, <1>2

LEMMA FaultsCounted ==
    ASSUME WellFormed, Works \/ Fault
    PROVE  /\ faults' \in 0 .. MaxFaults /\ faults \in Nat /\ faults' \in Nat
           /\ faults' = faults \/ faults' = faults + 1
           /\ Works => faults' = faults
           /\ Fault => faults' = faults + 1
BY LifecycleAssumption DEF WellFormed, TypeOK, Works, Fault

\* One container changes, and keeps its name.
Docked(d) ==
    /\ dock' \in Docks /\ OneOfAName'
    /\ \A e \in DockerId \ {d} : dock'[e] = dock[e]

LEMMA DockSet ==
    ASSUME WellFormed, NEW d \in DockerId, NEW c \in Container \cup {Absent},
           c = Absent \/ c.name = dock[d].name \/ Named(c.name) = {},
           dock' = dock \/ dock' = [dock EXCEPT ![d] = c]
    PROVE  Docked(d) /\ (dock'[d] = dock[d] \/ dock'[d] = c)
<1>1. dock \in Docks /\ OneOfAName
    BY DEF WellFormed, TypeOK, Docks
<1>2. CASE dock' = dock
    BY <1>1, <1>2 DEF Docked, OneOfAName
<1>3. CASE dock' = [dock EXCEPT ![d] = c]
    <2>1. dock' \in Docks /\ dock'[d] = c /\ \A e \in DockerId \ {d} : dock'[e] = dock[e]
        BY <1>1, <1>3 DEF Docks
    <2>2. c = Absent \/ \A e \in DockerId \ {d} : dock[e].name # c.name
        <3>1. CASE c = Absent \/ Named(c.name) = {}
            BY <3>1 DEF Named
        <3>2. CASE c # Absent /\ c.name = dock[d].name
            BY <1>1, <3>2, Names DEF OneOfAName, Docks
        <3> QED
            BY <3>1, <3>2
    <2>3. ASSUME NEW e \in DockerId, NEW f \in DockerId, dock'[e] # Absent,
                 dock'[e].name = dock'[f].name
          PROVE  e = f
        BY <1>1, <2>1, <2>2, <2>3, Names DEF OneOfAName, Docks
    <2> QED
        BY <2>1, <2>3 DEF Docked, OneOfAName
<1> QED
    BY <1>2, <1>3

LEMMA FreshIsFree ==
    ASSUME WellFormed, FreshDocker # {}
    PROVE  /\ Least(FreshDocker) \in DockerId /\ Least(FreshDocker) \in FreshDocker
<1>1. FreshDocker \in SUBSET Nat
    BY DEF FreshDocker, DockerId
<1>2. Least(FreshDocker) \in FreshDocker
    BY <1>1, LeastIsOne
<1> QED
    BY <1>2 DEF FreshDocker

LEMMA FreshIsNew ==
    ASSUME WellFormed, FreshRecord # {}
    PROVE  Least(FreshRecord) \in RecordId /\ Least(FreshRecord) \in FreshRecord
<1>1. FreshRecord \in SUBSET Nat
    BY DEF FreshRecord, RecordId
<1>2. Least(FreshRecord) \in FreshRecord
    BY <1>1, LeastIsOne
<1> QED
    BY <1>2 DEF FreshRecord

-----------------------------------------------------------------------------
(* The calls to Docker and etcd.                                           *)


LEMMA StopDoes ==
    ASSUME WellFormed, NEW q \in Request, NEW d \in DockerId, NEW next \in Places,
           NEW failed \in Places, Stop(q, d, next, failed)
    PROVE  /\ Docked(d) /\ \A e \in DockerId : dock'[e].name = dock[e].name
           /\ faults' \in 0 .. MaxFaults /\ (faults' = faults \/ faults' = faults + 1)
           /\ \/ Moves(q, next) /\ faults' = faults /\ dock[d] # Absent
              \/ /\ Moves(q, failed) /\ (failed = "unlock" => ~req'[q].ok)
                 /\ faults' = faults => dock' = dock
<1> DEFINE c == [dock[d] EXCEPT !.run = FALSE]
<1>1. dock \in Docks /\ req \in [Request -> ReqType]
    BY DEF WellFormed, TypeOK, Docks
<1>2. CASE Set(q, d, c, dock[d].run, next, failed)
    <2>1. dock[d].run => dock[d] # Absent /\ c \in Container /\ c.name = dock[d].name
        <3>1. dock[d].run => dock[d] # Absent
            BY Names
        <3>2. dock[d] # Absent => dock[d] \in Container
            BY <1>1 DEF Docks
        <3> QED
            BY <3>1, <3>2, Made
    <2> HIDE DEF c
    <2>2. ~dock[d].run => dock' = dock
        BY <1>2 DEF Set
    <2>3. dock' = dock \/ (dock[d].run /\ dock' = [dock EXCEPT ![d] = c])
        BY <1>2 DEF Set
    <2>4. Docked(d) /\ (dock'[d] = dock[d] \/ (dock[d].run /\ dock'[d] = c))
        BY <2>1, <2>3, DockSet, <1>1 DEF Docks
    <2>5. \A e \in DockerId : dock'[e].name = dock[e].name
        BY <2>1, <2>4 DEF Docked
    <2>6. CASE dock[d].run /\ Works /\ Go(q, next)
        BY <2>1, <2>4, <2>5, <2>6, GoMoves, FaultsCounted, <1>1
    <2>7. CASE Works /\ ~dock[d].run /\ Go(q, failed)
        BY <2>2, <2>4, <2>5, <2>7, GoMoves, FaultsCounted, <1>1
    <2>8. CASE Fault /\ Go(q, failed)
        BY <2>4, <2>5, <2>8, GoMoves, FaultsCounted, <1>1
    <2> QED
        BY <1>2, <2>6, <2>7, <2>8 DEF Set
<1>3. CASE dock[d] # Absent /\ ~dock[d].run /\ Works /\ Go(q, next) /\ UNCHANGED dock
    BY <1>1, <1>3, GoMoves, FaultsCounted DEF Docked, WellFormed, OneOfAName
<1> QED
    BY <1>2, <1>3 DEF Stop

LEMMA StartDoes ==
    ASSUME WellFormed, NEW q \in Request, NEW d \in DockerId, NEW next \in Places,
           NEW failed \in Places, Start(q, d, next, failed)
    PROVE  /\ Docked(d) /\ \A e \in DockerId : dock'[e].name = dock[e].name
           /\ faults' \in 0 .. MaxFaults /\ (faults' = faults \/ faults' = faults + 1)
           /\ \/ Moves(q, next) /\ faults' = faults /\ dock[d] # Absent /\ dock'[d].run
              \/ /\ Moves(q, failed) /\ (failed = "unlock" => ~req'[q].ok)
                 /\ faults' = faults => dock[d] = Absent /\ dock' = dock
<1> DEFINE c == [dock[d] EXCEPT !.run = TRUE]
<1>1. dock \in Docks /\ req \in [Request -> ReqType]
    BY DEF WellFormed, TypeOK, Docks
<1>2. dock[d] # Absent => c \in Container /\ c.name = dock[d].name /\ c.run
    BY <1>1, Made DEF Docks
<1>3. Set(q, d, c, dock[d] # Absent, next, failed)
    BY DEF Start
<1> HIDE DEF c
<1>4. dock' = dock \/ (dock[d] # Absent /\ dock' = [dock EXCEPT ![d] = c])
    BY <1>3 DEF Set
<1>5. Docked(d) /\ (dock'[d] = dock[d] \/ (dock[d] # Absent /\ dock'[d] = c))
    BY <1>2, <1>4, DockSet, <1>1 DEF Docks
<1>6. \A e \in DockerId : dock'[e].name = dock[e].name
    BY <1>2, <1>5 DEF Docked
<1>7. CASE dock[d] # Absent /\ Works /\ Go(q, next) /\ dock' = [dock EXCEPT ![d] = c]
    <2>1. dock'[d] = c
        BY <1>1, <1>7 DEF Docks
    <2> QED
        BY <1>2, <1>5, <1>6, <1>7, <2>1, GoMoves, FaultsCounted, <1>1
<1>8. CASE Works /\ dock[d] = Absent /\ Go(q, failed) /\ UNCHANGED dock
    BY <1>5, <1>6, <1>8, GoMoves, FaultsCounted, <1>1
<1>9. CASE Fault /\ Go(q, failed)
    BY <1>5, <1>6, <1>9, GoMoves, FaultsCounted, <1>1
<1> QED
    BY <1>3, <1>7, <1>8, <1>9 DEF Set

LEMMA RemoveDoes ==
    ASSUME WellFormed, NEW q \in Request, NEW d \in DockerId, NEW next \in Places,
           NEW failed \in Places, Remove(q, d, next, failed)
    PROVE  /\ Docked(d) /\ (dock'[d] = dock[d] \/ dock'[d] = Absent)
           /\ faults' \in 0 .. MaxFaults /\ (faults' = faults \/ faults' = faults + 1)
           /\ faults' = faults => dock'[d] = Absent
           /\ \/ Moves(q, next) /\ faults' = faults
              \/ /\ Moves(q, failed) /\ (failed = "unlock" => ~req'[q].ok)
                 /\ faults' = faults => dock[d] = Absent
<1>1. dock \in Docks /\ req \in [Request -> ReqType]
    BY DEF WellFormed, TypeOK, Docks
<1>2. Set(q, d, Absent, dock[d] # Absent, next, failed)
    BY DEF Remove
<1>3. dock' = dock \/ dock' = [dock EXCEPT ![d] = Absent]
    BY <1>2 DEF Set
<1>4. Docked(d) /\ (dock'[d] = dock[d] \/ dock'[d] = Absent)
    BY <1>3, DockSet
<1>5. CASE dock[d] # Absent /\ Works /\ Go(q, next) /\ dock' = [dock EXCEPT ![d] = Absent]
    <2>1. dock'[d] = Absent
        BY <1>1, <1>5 DEF Docks
    <2> QED
        BY <1>4, <1>5, <2>1, GoMoves, FaultsCounted, <1>1
<1>6. CASE Works /\ dock[d] = Absent /\ Go(q, failed) /\ UNCHANGED dock
    BY <1>4, <1>6, GoMoves, FaultsCounted, <1>1
<1>7. CASE Fault /\ Go(q, failed)
    BY <1>4, <1>7, GoMoves, FaultsCounted, <1>1
<1> QED
    BY <1>2, <1>5, <1>6, <1>7 DEF Set

\* A new container, with an id nobody knows.
Makes(n, d) ==
    /\ d \in FreshDocker /\ d \in DockerId /\ Named(n) = {}
    /\ dock'[d] = Created(n) /\ Docked(d)

LEMMA CreateDoes ==
    ASSUME WellFormed, NEW q \in Request, NEW n \in Name, NEW next \in Places \ {"unlock"},
           NEW failed \in Places, Create(q, n, next, failed)
    PROVE  /\ faults' \in 0 .. MaxFaults /\ (faults' = faults \/ faults' = faults + 1)
           /\ \/ /\ faults' = faults
                 /\ \E d \in DockerId :
                      /\ Makes(n, d) /\ req' \in [Request -> ReqType] /\ Others(q) /\ Same(q)
                      /\ req'[q].pc = next /\ req'[q].new = d
                      /\ req'[q].copy = req[q].copy /\ req'[q].newId = req[q].newId
              \/ /\ Moves(q, failed) /\ dock' = dock /\ (failed = "unlock" => ~req'[q].ok)
                 /\ faults' = faults => Named(n) # {}
              \/ /\ Moves(q, failed) /\ faults' = faults + 1 /\ (failed = "unlock" => ~req'[q].ok)
                 /\ \E d \in DockerId : Makes(n, d)
<1> DEFINE d == Least(FreshDocker)
<1>1. dock \in Docks /\ req \in [Request -> ReqType]
    BY DEF WellFormed, TypeOK, Docks
<1>2. ASSUME Named(n) = {}, FreshDocker # {}, dock' = [dock EXCEPT ![d] = Created(n)]
      PROVE  Makes(n, d)
    <2>1. d \in FreshDocker /\ d \in DockerId
        BY <1>2, FreshIsFree
    <2>2. Created(n) \in Container /\ Created(n).name = n
        BY Made
    <2> HIDE DEF d
    <2>3. Docked(d)
        BY <1>2, <2>1, <2>2, DockSet
    <2>4. dock'[d] = Created(n)
        BY <1>1, <1>2, <2>1 DEF Docks
    <2> QED
        BY <1>2, <2>1, <2>3, <2>4 DEF Makes
<1>3. CASE /\ Named(n) = {} /\ FreshDocker # {} /\ Works
           /\ dock' = [dock EXCEPT ![d] = Created(n)]
           /\ req' = [req EXCEPT ![q].pc = next, ![q].new = d]
    <2>1. d \in DockerId
        BY <1>3, FreshIsFree
    <2>2. Makes(n, d)
        BY <1>2, <1>3
    <2> HIDE DEF d
    <2> DEFINE to == [req[q] EXCEPT !.pc = next, !.new = d]
    <2>3. req[q] \in ReqType
        BY <1>1
    <2>4. /\ to \in ReqType /\ to.pc = next /\ to.new = d
          /\ to.op = req[q].op /\ to.did = req[q].did /\ to.name = req[q].name
          /\ to.old = req[q].old /\ to.id = req[q].id /\ to.solo = req[q].solo
          /\ to.kept = req[q].kept /\ to.copy = req[q].copy /\ to.newId = req[q].newId
        <3> DEFINE half == [req[q] EXCEPT !.pc = next]
        <3>1. half \in ReqType
            BY <2>3 DEF ReqType, Places
        <3>2. to = [half EXCEPT !.new = d]
            BY <2>3 DEF ReqType
        <3> HIDE DEF half
        <3>3. to \in ReqType
            BY <2>1, <3>1, <3>2 DEF ReqType
        <3> QED
            BY <2>3, <3>3 DEF ReqType
    <2>5. req' = [req EXCEPT ![q] = to]
        BY <1>3, <1>1
    <2> HIDE DEF to
    <2>6. req' \in [Request -> ReqType] /\ Others(q) /\ req'[q] = to
        BY <1>1, <2>4, <2>5 DEF Others
    <2> QED
        BY <1>3, <2>1, <2>2, <2>4, <2>6, FaultsCounted DEF Same
<1>4. CASE Named(n) # {} /\ Go(q, failed) /\ Works /\ UNCHANGED dock
    BY <1>1, <1>4, GoMoves, FaultsCounted
<1>5. CASE Fault /\ Go(q, failed) /\ UNCHANGED dock
    BY <1>1, <1>5, GoMoves, FaultsCounted
<1>6. CASE /\ Named(n) = {} /\ FreshDocker # {} /\ Fault
           /\ dock' = [dock EXCEPT ![d] = Created(n)] /\ Go(q, failed)
    <2>1. d \in DockerId
        BY <1>6, FreshIsFree
    <2> QED
        BY <1>1, <1>2, <1>6, <2>1, GoMoves, FaultsCounted
<1> QED
    BY <1>3, <1>4, <1>5, <1>6 DEF Create

LEMMA PutDoes ==
    ASSUME WellFormed, NEW q \in Request, NEW r \in RecordId, NEW c \in Record \cup {Absent},
           NEW next \in Places, NEW failed \in Places, Put(q, r, c, next, failed)
    PROVE  /\ rec' \in Recs /\ \A s \in RecordId \ {r} : rec'[s] = rec[s]
           /\ faults' \in 0 .. MaxFaults /\ (faults' = faults \/ faults' = faults + 1)
           /\ \/ Moves(q, next) /\ faults' = faults /\ rec'[r] = c
              \/ Moves(q, failed) /\ faults' = faults + 1 /\ rec' = rec
<1>1. rec \in Recs /\ req \in [Request -> ReqType]
    BY DEF WellFormed, TypeOK, Recs
<1>2. CASE Works /\ rec' = [rec EXCEPT ![r] = c] /\ Go(q, next)
    BY <1>1, <1>2, GoMoves, FaultsCounted DEF Recs
<1>3. CASE Fault /\ UNCHANGED rec /\ Go(q, failed)
    BY <1>1, <1>3, GoMoves, FaultsCounted
<1> QED
    BY <1>2, <1>3 DEF Put

-----------------------------------------------------------------------------
(* One handler takes a step, the others wait.                              *)

\* q makes a call of its callback, or persist any call.
Works1(q) ==
    /\ up /\ Working(q) /\ UNCHANGED <<lock, todo, up, trouble, begun>>
    /\ req' \in [Request -> ReqType] /\ Others(q)
    /\ req'[q].op = req[q].op /\ req'[q].solo = req[q].solo
    /\ req'[q].pc \notin {"idle", "lookup", "lock"}
    /\ req[q].op = "persist" \/ KeyOf(q)' = KeyOf(q)
    /\ dock' \in Docks /\ OneOfAName' /\ rec' \in Recs /\ routes' \subseteq Name
    /\ faults' \in 0 .. MaxFaults /\ (faults' = faults \/ faults' = faults + 1)

\* A container that does not run is one that q answers for, or did not before.
DebtStep(q) ==
    \A d \in DockerId : Stopped(d)' =>
        Owes(q, d)' \/ (Stopped(d) /\ ~Owes(q, d) /\ dock'[d].name = dock[d].name)

\* Undoable for q.
UndoStep(q) ==
    req'[q].solo /\ req'[q].op = "put" /\ req'[q].kept /\ req'[q].old # "none" =>
        /\ dock'[req'[q].did].name = req'[q].old
        /\ req'[q].pc \in {"rbRemove", "rbStart", "rbSave"} => faults' >= 1
        /\ req'[q].id # None =>
             \/ rec'[req'[q].id].name = req'[q].old \/ faults' >= 2
             \/ req'[q].pc \in {"save", "swap", "rbRemove", "rbStart", "rbSave"}

\* What q leaves of the records.
CalmStep(q) ==
    /\ \A r, s \in RecordId : rec'[r] # Absent /\ rec'[r].name = rec'[s].name => r = s
    /\ \A r \in RecordId : rec'[r] # Absent => Matched(r)' \/ Repairs(q, r)'
    /\ \A r \in RecordId : rec'[r].did # rec[r].did => rec'[r].did # req[q].did
    /\ \A r \in RecordId : rec'[r] # Absent /\ rec'[r].name # rec[r].name =>
         \A d \in DockerId : Stopped(d)' /\ dock'[d].name = rec'[r].name => Owes(q, d)'
    /\ InOrder(q)'

LEMMA OneWorks ==
    ASSUME WellFormed, KeptApart, NEW q \in Request, Working(q), NEW p \in Request \ {q}
    PROVE  /\ ~Working(p) /\ req[p].pc \in {"idle", "lookup", "lock"}
           /\ todo = {} /\ req[q].pc # "idle"
           /\ req[p].pc # "idle" => req[q].op # "persist" /\ KeyOf(p) = KeyOf(q)
<1>1. req[q].pc # "idle" /\ todo = {}
    BY DEF Working, InCallback, KeptApart, WellFormed, Carries, Idle
<1>2. req[p].pc # "idle" => req[q].op # "persist" /\ req[p].op # "persist" /\ KeyOf(p) = KeyOf(q)
    BY <1>1 DEF KeptApart
<1>3. ~InCallback(p)
    BY <1>1, <1>2 DEF KeptApart, Working, InCallback
<1>4. req[p].op # "persist"
    BY <1>2 DEF WellFormed, Carries, Idle
<1>5. req[p].pc \in {"idle", "lookup", "lock"}
    BY <1>3, <1>4 DEF InCallback, WellFormed, Carries, TypeOK, ReqType
<1> QED
    BY <1>1, <1>2, <1>3, <1>4, <1>5 DEF Working

LEMMA FrameWellFormed ==
    ASSUME WellFormed, NEW q \in Request, Works1(q), Carries(q)'
    PROVE  WellFormed'
<1>1. TypeOK'
    BY DEF WellFormed, TypeOK, Works1, Docks, Recs
<1>2. \A p \in Request : Carries(p)'
    BY DEF WellFormed, Works1, Others, Carries
<1>3. OwnersInside'
    <2> SUFFICES ASSUME NEW k \in LockKey, NEW p \in Request, lock[k] = p
                 PROVE  InCallback(p)' /\ KeyOf(p)' = k
        BY DEF OwnersInside, Works1
    <2>1. InCallback(p) /\ KeyOf(p) = k
        BY DEF WellFormed, OwnersInside
    <2>2. CASE p = q
        BY <2>1, <2>2 DEF Works1, InCallback
    <2>3. CASE p # q
        BY <2>1, <2>3 DEF Works1, Others, InCallback, KeyOf, Guard
    <2> QED
        BY <2>2, <2>3
<1>4. DownIsIdle' /\ CrashesCounted' /\ OneOfAName'
    BY DEF WellFormed, TypeOK, DownIsIdle, CrashesCounted, Works1
<1> QED
    BY <1>1, <1>2, <1>3, <1>4 DEF WellFormed

LEMMA FrameDebts ==
    ASSUME WellFormed, DebtsKept, NEW q \in Request, Works1(q), faults' = faults => DebtStep(q)
    PROVE  DebtsKept'
<1> SUFFICES ASSUME faults' = 0, NEW d \in DockerId, Stopped(d)' PROVE Owed(d)'
    BY DEF DebtsKept
<1>1. faults = 0 /\ faults' = faults
    BY DEF Works1, WellFormed, TypeOK
<1>2. CASE Owes(q, d)'
    BY <1>2 DEF Owed
<1>3. CASE Stopped(d) /\ ~Owes(q, d)
    <2>1. PICK p \in Request : Owes(p, d)
        BY <1>1, <1>3 DEF DebtsKept, Owed
    <2>2. p # q /\ req'[p] = req[p]
        BY <1>3, <2>1 DEF Works1, Others
    <2>3. Owes(p, d)'
        BY <2>1, <2>2 DEF Owes
    <2> QED
        BY <2>3 DEF Owed
<1> QED
    BY <1>1, <1>2, <1>3 DEF DebtStep

LEMMA FrameUndoable ==
    ASSUME WellFormed, \A p \in Request : Undoable(p), NEW q \in Request, Works1(q), UndoStep(q)
    PROVE  \A p \in Request : Undoable(p)'
<1>1. req[q].pc # "idle"
    BY DEF Works1, Working, InCallback, WellFormed, Carries, Idle
<1>2. Undoable(q)'
    <2>1. req[q].solo => Alone(q)
        BY <1>1 DEF Undoable
    <2>2. Alone(q) => Alone(q)'
        BY DEF Alone, Works1, Others
    <2> QED
        BY <2>1, <2>2 DEF Undoable, UndoStep, Works1
<1>3. ASSUME NEW p \in Request \ {q} PROVE Undoable(p)'
    <2>1. ~(req[p].solo /\ req[p].pc # "idle")
        BY <1>1 DEF Undoable, Alone
    <2> QED
        BY <2>1 DEF Undoable, Works1, Others
<1> QED
    BY <1>2, <1>3

LEMMA FrameCalm ==
    ASSUME WellFormed, Calm => CalmInv, NEW q \in Request, Works1(q),
           Calm /\ CalmInv /\ faults' = faults => DebtStep(q) /\ CalmStep(q)
    PROVE  Calm' => CalmInv'
<1> SUFFICES ASSUME Calm' PROVE CalmInv'
    OBVIOUS
<1>1. Calm /\ faults' = faults
    BY DEF Calm, Works1, WellFormed, TypeOK, CrashesCounted
<1>2. CalmInv /\ DebtStep(q) /\ CalmStep(q)
    BY <1>1
<1>3. /\ Working(q) /\ todo = {} /\ todo' = {} /\ up /\ up' /\ req[q].pc # "idle"
      /\ \A p \in Request \ {q} : req'[p] = req[p]
    BY <1>2 DEF Works1, CalmInv, KeptApart, Working, InCallback, WellFormed, Carries, Idle, Others
<1>4. \A p \in Request \ {q} :
         /\ ~Working(p) /\ req[p].pc \in {"idle", "lookup", "lock"}
         /\ req[p].pc # "idle" => req[q].op # "persist" /\ KeyOf(p) = KeyOf(q)
    BY <1>2, <1>3, OneWorks DEF CalmInv
<1>5. KeptApart'
    <2>1. \A p, s \in Request : p # s /\ req'[p].pc # "idle" /\ req'[s].pc # "idle" =>
              req'[p].op # "persist" /\ KeyOf(p)' = KeyOf(s)'
        <3>1. \A p \in Request \ {q} : KeyOf(p)' = KeyOf(p)
            BY <1>3 DEF KeyOf, Guard
        <3> QED
            BY <1>2, <1>3, <3>1 DEF CalmInv, KeptApart, Works1
    <2>2. ASSUME NEW p \in Request, InCallback(p)' PROVE lock'[KeyOf(p)'] = p
        <3>1. p = q
            BY <1>3, <1>4, <2>2 DEF InCallback, Working
        <3>2. InCallback(q) /\ KeyOf(q)' = KeyOf(q)
            BY <2>2, <3>1 DEF Works1, InCallback, Working
        <3> QED
            BY <1>2, <3>1, <3>2 DEF CalmInv, KeptApart, Works1
    <2> QED
        BY <1>3, <2>1, <2>2 DEF KeptApart
<1>6. RecordsMatch'
    BY <1>2, <1>3 DEF CalmStep, RecordsMatch
<1>7. RecordsRun'
    <2> SUFFICES ASSUME NEW r \in RecordId, rec'[r] # Absent, NEW d \in DockerId,
                        dock'[d].name = rec'[r].name, Stopped(d)'
                 PROVE  Owes(q, d)'
        BY DEF RecordsRun, Owed
    <2>1. SUFFICES ASSUME ~Owes(q, d)', rec'[r].name = rec[r].name PROVE FALSE
        BY <1>2 DEF CalmStep
    <2>2. Stopped(d) /\ ~Owes(q, d) /\ dock'[d].name = dock[d].name
        BY <1>2, <2>1 DEF DebtStep
    <2>3. rec[r] # Absent
        BY <2>1, Fields, Names DEF Works1, Recs
    <2>4. PICK p \in Request : Owes(p, d)
        BY <1>2, <1>3, <2>1, <2>2, <2>3 DEF CalmInv, RecordsRun, Listed, Owed
    <2> QED
        BY <1>4, <2>2, <2>4 DEF Owes, Working
<1>8. ASSUME NEW p \in Request PROVE InOrder(p)'
    <2>1. CASE p = q
        BY <1>2, <2>1 DEF CalmStep
    <2>2. CASE p # q
        <3>1. req'[p] = req[p] /\ req[p].pc \in {"idle", "lookup", "lock"} /\ req[p].op # "persist"
            BY <1>3, <1>4, <2>2 DEF Working
        <3>2. ASSUME req[p].op = "delete", req[p].pc = "lock", NEW s \in RecordId,
                     rec'[s].did = req[p].did
              PROVE  s = req[p].id
            <4>1. req[p].did \in DockerId /\ KeyOf(q) = req[p].did
                BY <1>4, <2>2, <3>2 DEF KeyOf, Guard, WellFormed, Carries
            <4>2. req[q].did = req[p].did
                BY <4>1, Names DEF KeyOf, Guard, WellFormed, Carries
            <4>3. rec[s].did = req[p].did
                BY <1>2, <3>2, <4>2 DEF CalmStep
            <4> QED
                BY <1>2, <3>2, <4>3 DEF CalmInv, InOrder
        <3> QED
            BY <3>1, <3>2 DEF InOrder, WellFormed, Carries, Idle
    <2> QED
        BY <2>1, <2>2
<1> QED
    BY <1>5, <1>6, <1>7, <1>8 DEF CalmInv

\* What is left to show of a call.
LEMMA FrameHolds ==
    ASSUME IInv, NEW q \in Request, Works1(q), Carries(q)', UndoStep(q),
           faults' = faults => DebtStep(q),
           Calm /\ CalmInv /\ faults' = faults => CalmStep(q)
    PROVE  IInv'
BY FrameWellFormed, FrameDebts, FrameUndoable, FrameCalm DEF IInv


-----------------------------------------------------------------------------
(* A call of a handler at work: what stays as it was.                      *)

\* No key changes hands, and nobody enters or leaves a callback.
Unmoved ==
    /\ lock' = lock
    /\ \A p \in Request : /\ InCallback(p)' <=> InCallback(p)
                          /\ InCallback(p) => KeyOf(p)' = KeyOf(p)

LEMMA WorksUnmoved ==
    ASSUME NEW q \in Request, Works1(q)
    PROVE  Unmoved
<1>1. ASSUME NEW p \in Request \ {q}
      PROVE  (InCallback(p)' <=> InCallback(p)) /\ KeyOf(p)' = KeyOf(p)
    BY <1>1 DEF Works1, Others, InCallback, KeyOf, Guard
<1>2. (InCallback(q)' <=> InCallback(q)) /\ (InCallback(q) => KeyOf(q)' = KeyOf(q))
    BY DEF Works1, Working, InCallback
<1> QED
    BY <1>1, <1>2 DEF Unmoved, Works1

\* q is at work, and goes on at pc.
Keeps(q, pc) ==
    /\ req' \in [Request -> ReqType] /\ Others(q) /\ req'[q].pc = pc
    /\ req'[q].op = req[q].op /\ req'[q].did = req[q].did /\ req'[q].solo = req[q].solo
    /\ req[q].op = "persist" \/ req'[q].name = req[q].name

LEMMA MovesKeeps ==
    ASSUME NEW q \in Request, NEW pc \in Places, Moves(q, pc)
    PROVE  Keeps(q, pc)
BY DEF Moves, Same, Keeps

LEMMA Untouched ==
    ASSUME WellFormed
    PROVE  /\ dock' = dock => dock' \in Docks /\ OneOfAName'
           /\ rec' = rec => rec' \in Recs
           /\ routes' = routes => routes' \subseteq Name
           /\ \A d \in DockerId : Docked(d) => dock' \in Docks /\ OneOfAName'
BY DEF WellFormed, TypeOK, Docks, Recs, OneOfAName, Docked

LEMMA WorksOne ==
    ASSUME WellFormed, NEW q \in Request, NEW pc \in Places \ {"idle", "lookup", "lock"},
           up, Working(q), Keeps(q, pc), UNCHANGED <<lock, todo, up, trouble, begun>>,
           dock' \in Docks, OneOfAName', rec' \in Recs, routes' \subseteq Name,
           faults' \in 0 .. MaxFaults, faults' = faults \/ faults' = faults + 1
    PROVE  Works1(q)
<1>1. req[q].op = "persist" \/ KeyOf(q)' = KeyOf(q)
    BY DEF Keeps, KeyOf, Guard
<1> QED
    BY <1>1 DEF Works1, Keeps

\* A handler in its callback, or persist, is at work.
LEMMA Under ==
    ASSUME IInv, NEW q \in Request
    PROVE  /\ WellFormed /\ Carries(q) /\ req \in [Request -> ReqType] /\ Undoable(q) /\ faults \in Nat
           /\ \A op \in {"post", "put", "delete"} : \A pc \in Places \ {"idle", "lookup", "lock"} :
                At(q, op, pc) => Working(q) /\ up
           /\ \A pc \in Places : At(q, "persist", pc) => Working(q) /\ up
BY DEF IInv, WellFormed, TypeOK, At, Working, InCallback

\* The records, when a handler at work does not touch them.
LEMMA RecordsStand ==
    ASSUME WellFormed, CalmInv, NEW q \in Request, Working(q), up
    PROVE  \A r \in RecordId : rec[r] # Absent => Matched(r) \/ Repairs(q, r)
<1> SUFFICES ASSUME NEW r \in RecordId, rec[r] # Absent, ~Matched(r) PROVE Repairs(q, r)
    OBVIOUS
<1>2. \A p \in Request : req[p].pc = "idle" => ~Repairs(p, r)
    BY DEF Repairs
<1>3. req[q].pc # "idle" /\ todo = {}
    BY DEF CalmInv, KeptApart, Working, InCallback, WellFormed, Carries, Idle
<1>4. PICK p \in Request : Repairs(p, r)
    BY <1>3 DEF CalmInv, RecordsMatch, Listed
<1>5. req[p].pc \notin {"idle", "lookup", "lock"}
    BY <1>4 DEF Repairs
<1>6. p = q
    BY <1>5, OneWorks DEF CalmInv
<1> QED
    BY <1>4, <1>6

LEMMA CalmNames ==
    ASSUME WellFormed, CalmInv, NEW q \in Request, Working(q), up, rec' = rec,
           \A d \in DockerId : dock'[d].name = dock[d].name,
           \A r \in RecordId : Repairs(q, r) => Repairs(q, r)', InOrder(q)'
    PROVE  CalmStep(q)
<1>1. \A r \in RecordId : rec[r] # Absent => Matched(r) \/ Repairs(q, r)
    BY RecordsStand
<1>2. \A r \in RecordId : rec[r].did # None => rec[r].did \in DockerId
    BY Fields
<1>3. \A r \in RecordId : Matched(r) => Matched(r)'
    BY <1>2 DEF Matched
<1> QED
    BY <1>1, <1>3 DEF CalmStep, CalmInv, RecordsMatch

LEMMA CalmCreates ==
    ASSUME WellFormed, CalmInv, NEW q \in Request, Working(q), up, rec' = rec,
           NEW n \in Name, NEW d \in DockerId, Makes(n, d),
           \A r \in RecordId : Repairs(q, r) => Repairs(q, r)', InOrder(q)'
    PROVE  CalmStep(q)
<1>1. \A r \in RecordId : rec[r] # Absent => Matched(r) \/ Repairs(q, r)
    BY RecordsStand
<1>2. \A r \in RecordId : rec[r].did # None => rec[r].did \in DockerId \ {d}
    BY Fields DEF Makes, FreshDocker
<1>3. \A r \in RecordId : Matched(r) => Matched(r)'
    BY <1>2 DEF Matched, Makes, Docked
<1> QED
    BY <1>1, <1>3 DEF CalmStep, CalmInv, RecordsMatch

LEMMA CalmRemoves ==
    ASSUME WellFormed, CalmInv, NEW q \in Request, Working(q), up, rec' = rec,
           NEW d \in DockerId, Docked(d),
           \A r \in RecordId : rec[r] # Absent /\ rec[r].did = d => Repairs(q, r)',
           \A r \in RecordId : Repairs(q, r) => Repairs(q, r)', InOrder(q)'
    PROVE  CalmStep(q)
<1>1. \A r \in RecordId : rec[r] # Absent => Matched(r) \/ Repairs(q, r)
    BY RecordsStand
<1>2. \A r \in RecordId : rec[r].did # None => rec[r].did \in DockerId
    BY Fields
<1>3. \A r \in RecordId : rec[r] # Absent /\ Matched(r) => Matched(r)' \/ Repairs(q, r)'
    BY <1>2 DEF Matched, Docked
<1> QED
    BY <1>1, <1>3 DEF CalmStep, CalmInv, RecordsMatch

\* What q answers for, when Docker stays as it is.
LEMMA DebtsStand ==
    ASSUME NEW q \in Request, dock' = dock,
           \A d \in DockerId : Stopped(d) /\ Owes(q, d) => Owes(q, d)'
    PROVE  DebtStep(q)
BY DEF DebtStep, Stopped

-----------------------------------------------------------------------------
(* POST.                                                                   *)

LEMMA PostCheckHolds ==
    ASSUME IInv, NEW q \in Request, PostCheck(q)
    PROVE  IInv' /\ Works1(q)
<1>1. WellFormed /\ Carries(q) /\ Working(q) /\ up /\ req \in [Request -> ReqType]
    BY Under DEF PostCheck, Places
<1>2. UNCHANGED <<dock, rec, routes, lock, todo, up, trouble, begun>> /\ At(q, "post", "check")
    BY DEF PostCheck
<1>3. PICK pc \in {"create", "unlock"} : Moves(q, pc)
    BY <1>1, GoMoves, AnswerMoves DEF PostCheck, Places
<1>4. faults' \in 0 .. MaxFaults /\ (faults' = faults \/ faults' = faults + 1)
    BY <1>1, FaultsCounted DEF PostCheck
<1>5. Works1(q)
    BY <1>1, <1>2, <1>3, <1>4, MovesKeeps, WorksOne, Untouched DEF Places
<1>6. Carries(q)' /\ UndoStep(q)
    BY <1>1, <1>2, <1>3 DEF Carries, UndoStep, Moves, Same, At
<1>7. DebtStep(q)
    BY <1>2, DebtsStand DEF Owes, At
<1>8. ASSUME CalmInv PROVE CalmStep(q)
    BY <1>1, <1>2, <1>3, <1>8, CalmNames DEF Repairs, InOrder, At, Moves, Same
<1> QED
    BY <1>5, <1>6, <1>7, <1>8, FrameHolds

LEMMA PostCreateHolds ==
    ASSUME IInv, NEW q \in Request, PostCreate(q)
    PROVE  IInv' /\ Works1(q)
<1>1. /\ WellFormed /\ Carries(q) /\ Working(q) /\ up /\ req \in [Request -> ReqType]
      /\ req[q].name \in Name /\ UNCHANGED <<rec, routes, lock, todo, up, trouble, begun>>
      /\ At(q, "post", "create")
    BY Under DEF PostCreate, At, Carries, Places
<1>2. /\ faults' \in 0 .. MaxFaults /\ (faults' = faults \/ faults' = faults + 1)
      /\ \/ /\ faults' = faults
            /\ \E d \in DockerId :
                 /\ Makes(req[q].name, d) /\ req' \in [Request -> ReqType] /\ Others(q) /\ Same(q)
                 /\ req'[q].pc = "undo" /\ req'[q].new = d
         \/ Moves(q, "unlock") /\ dock' = dock
         \/ /\ Moves(q, "unlock") /\ faults' = faults + 1
            /\ \E d \in DockerId : Makes(req[q].name, d)
    BY <1>1, CreateDoes DEF PostCreate, Places
<1>3. Works1(q)
    <2>1. Keeps(q, "undo") \/ Keeps(q, "unlock")
        BY <1>2 DEF Keeps, Moves, Same
    <2>2. dock' \in Docks /\ OneOfAName'
        BY <1>1, <1>2, Untouched DEF Makes
    <2> QED
        BY <1>1, <1>2, <2>1, <2>2, WorksOne, Untouched DEF Places
<1>4. Carries(q)' /\ UndoStep(q)
    BY <1>1, <1>2 DEF Carries, UndoStep, Moves, Same, At
<1>5. ASSUME faults' = faults PROVE DebtStep(q)
    BY <1>1, <1>2, <1>5, FaultsCounted DEF DebtStep, Owes, At, Makes, Docked, Stopped, Same, WellFormed, TypeOK
<1>6. ASSUME CalmInv, faults' = faults PROVE CalmStep(q)
    <2>1. CASE Moves(q, "unlock") /\ dock' = dock
        BY <1>1, <1>6, <2>1, CalmNames DEF Repairs, InOrder, At, Moves, Same
    <2>2. CASE \E d \in DockerId :
                 /\ Makes(req[q].name, d) /\ req' \in [Request -> ReqType] /\ Others(q) /\ Same(q)
                 /\ req'[q].pc = "undo" /\ req'[q].new = d
        <3>1. PICK d \in DockerId : Makes(req[q].name, d) /\ Same(q) /\ req'[q].pc = "undo" /\ req'[q].new = d
            BY <2>2
        <3>2. InOrder(q)'
            BY <1>1, <3>1 DEF InOrder, Unrecorded, Makes, FreshDocker, At, Same
        <3> QED
            BY <1>1, <1>6, <3>1, <3>2, CalmCreates DEF Repairs, At
    <2> QED
        BY <1>1, <1>2, <1>6, <2>1, <2>2 DEF WellFormed, TypeOK
<1> QED
    BY <1>3, <1>4, <1>5, <1>6, FrameHolds

LEMMA PostUndoHolds ==
    ASSUME IInv, NEW q \in Request, PostUndo(q)
    PROVE  IInv' /\ Works1(q)
<1>1. /\ WellFormed /\ Carries(q) /\ Working(q) /\ up /\ req \in [Request -> ReqType]
      /\ UNCHANGED <<rec, routes, lock, todo, up, trouble, begun>> /\ At(q, "post", "undo")
      /\ req[q].new \in DockerId
    BY Under DEF PostUndo, At, Carries, Places
<1> DEFINE d == req[q].new
<1>2. /\ Docked(d) /\ faults' \in 0 .. MaxFaults /\ (faults' = faults \/ faults' = faults + 1)
      /\ faults' = faults => dock'[d] = Absent
      /\ Moves(q, "unlock")
    BY <1>1, RemoveDoes DEF PostUndo, Places
<1>3. Works1(q)
    BY <1>1, <1>2, MovesKeeps, WorksOne, Untouched DEF Places
<1>4. Carries(q)' /\ UndoStep(q)
    BY <1>1, <1>2 DEF Carries, UndoStep, Moves, Same, At
<1>5. ASSUME faults' = faults PROVE DebtStep(q)
    BY <1>1, <1>2, <1>5 DEF DebtStep, Owes, At, Docked, Stopped
<1>6. ASSUME CalmInv, faults' = faults PROVE CalmStep(q)
    <2>1. Unrecorded(d) /\ d # None
        BY <1>1, <1>6, Names DEF CalmInv, InOrder, At
    <2>2. InOrder(q)'
        BY <1>1, <1>2 DEF InOrder, At, Moves, Same
    <2> QED
        BY <1>1, <1>2, <1>6, <2>1, <2>2, CalmRemoves DEF Repairs, At, Unrecorded
<1> QED
    BY <1>3, <1>4, <1>5, <1>6, FrameHolds

-----------------------------------------------------------------------------
(* What a handler learns on the way.                                       *)

SetsOld(q, pc, n) == req' = [req EXCEPT ![q].pc = pc, ![q].old = n]

LEMMA LearnsOld ==
    ASSUME req \in [Request -> ReqType], NEW q \in Request, NEW pc \in Places,
           NEW n \in Name, SetsOld(q, pc, n)
    PROVE  /\ req' \in [Request -> ReqType] /\ Others(q) /\ req'[q].pc = pc
           /\ req'[q].old = n
           /\ req'[q].op = req[q].op /\ req'[q].did = req[q].did /\ req'[q].name = req[q].name
           /\ req'[q].id = req[q].id /\ req'[q].copy = req[q].copy /\ req'[q].newId = req[q].newId
           /\ req'[q].new = req[q].new /\ req'[q].solo = req[q].solo /\ req'[q].ok = req[q].ok
           /\ req'[q].kept = req[q].kept
<1> DEFINE half == [req[q] EXCEPT !.pc = pc]
           to == [req[q] EXCEPT !.pc = pc, !.old = n]
<1>1. req[q] \in ReqType
    OBVIOUS
<1>2. half \in ReqType
    BY <1>1 DEF ReqType, Places
<1>3. to = [half EXCEPT !.old = n]
    BY <1>1 DEF ReqType
<1>4. /\ to.pc = pc /\ to.old = n
      /\ to.op = req[q].op /\ to.did = req[q].did /\ to.name = req[q].name
      /\ to.id = req[q].id /\ to.copy = req[q].copy /\ to.newId = req[q].newId
      /\ to.new = req[q].new /\ to.solo = req[q].solo /\ to.ok = req[q].ok
      /\ to.kept = req[q].kept
    BY <1>1 DEF ReqType
<1> HIDE DEF half
<1>5. to \in ReqType
    BY <1>2, <1>3 DEF ReqType
<1>6. req' = [req EXCEPT ![q] = to]
    BY DEF SetsOld
<1> HIDE DEF to
<1> QED
    BY <1>4, <1>5, <1>6 DEF Others

SetsName(q, pc, n) == req' = [req EXCEPT ![q].pc = pc, ![q].old = n, ![q].name = n]

LEMMA LearnsName ==
    ASSUME req \in [Request -> ReqType], NEW q \in Request, NEW pc \in Places,
           NEW n \in Name, SetsName(q, pc, n)
    PROVE  /\ req' \in [Request -> ReqType] /\ Others(q) /\ req'[q].pc = pc
           /\ req'[q].old = n /\ req'[q].name = n
           /\ req'[q].op = req[q].op /\ req'[q].did = req[q].did /\ req'[q].id = req[q].id
           /\ req'[q].copy = req[q].copy /\ req'[q].newId = req[q].newId /\ req'[q].new = req[q].new
           /\ req'[q].solo = req[q].solo /\ req'[q].ok = req[q].ok /\ req'[q].kept = req[q].kept
<1> DEFINE half == [req[q] EXCEPT !.pc = pc]
           to == [req[q] EXCEPT !.pc = pc, !.old = n, !.name = n]
<1>1. req[q] \in ReqType
    OBVIOUS
<1>2. half \in ReqType
    BY <1>1 DEF ReqType, Places
<1>3. to = [half EXCEPT !.old = n, !.name = n]
    BY <1>1 DEF ReqType
<1>4. /\ to.pc = pc /\ to.old = n /\ to.name = n
      /\ to.op = req[q].op /\ to.did = req[q].did /\ to.id = req[q].id
      /\ to.copy = req[q].copy /\ to.newId = req[q].newId /\ to.new = req[q].new
      /\ to.solo = req[q].solo /\ to.ok = req[q].ok /\ to.kept = req[q].kept
    BY <1>1 DEF ReqType
<1> HIDE DEF half
<1>5. to \in ReqType
    BY <1>2, <1>3 DEF ReqType
<1>6. req' = [req EXCEPT ![q] = to]
    BY DEF SetsName
<1> HIDE DEF to
<1> QED
    BY <1>4, <1>5, <1>6 DEF Others

SetsRecord(q, pc, r, c) == req' = [req EXCEPT ![q].pc = pc, ![q].id = r, ![q].copy = c]

LEMMA LearnsRecord ==
    ASSUME req \in [Request -> ReqType], NEW q \in Request, NEW pc \in Places,
           NEW r \in RecordId, NEW c \in Record, SetsRecord(q, pc, r, c)
    PROVE  /\ req' \in [Request -> ReqType] /\ Others(q) /\ req'[q].pc = pc
           /\ req'[q].id = r /\ req'[q].copy = c
           /\ req'[q].op = req[q].op /\ req'[q].did = req[q].did /\ req'[q].name = req[q].name
           /\ req'[q].old = req[q].old /\ req'[q].newId = req[q].newId /\ req'[q].new = req[q].new
           /\ req'[q].solo = req[q].solo /\ req'[q].ok = req[q].ok /\ req'[q].kept = req[q].kept
<1> DEFINE half == [req[q] EXCEPT !.pc = pc]
           to == [req[q] EXCEPT !.pc = pc, !.id = r, !.copy = c]
<1>1. req[q] \in ReqType
    OBVIOUS
<1>2. half \in ReqType
    BY <1>1 DEF ReqType, Places
<1>3. to = [half EXCEPT !.id = r, !.copy = c]
    BY <1>1 DEF ReqType
<1>4. /\ to.pc = pc /\ to.id = r /\ to.copy = c
      /\ to.op = req[q].op /\ to.did = req[q].did /\ to.name = req[q].name
      /\ to.old = req[q].old /\ to.newId = req[q].newId /\ to.new = req[q].new
      /\ to.solo = req[q].solo /\ to.ok = req[q].ok /\ to.kept = req[q].kept
    BY <1>1 DEF ReqType
<1> HIDE DEF half
<1>5. to \in ReqType
    BY <1>2, <1>3 DEF ReqType
<1>6. req' = [req EXCEPT ![q] = to]
    BY DEF SetsRecord
<1> HIDE DEF to
<1> QED
    BY <1>4, <1>5, <1>6 DEF Others

SetsId(q, pc, r) == req' = [req EXCEPT ![q].pc = pc, ![q].id = r]

LEMMA LearnsId ==
    ASSUME req \in [Request -> ReqType], NEW q \in Request, NEW pc \in Places,
           NEW r \in RecordId, SetsId(q, pc, r)
    PROVE  /\ req' \in [Request -> ReqType] /\ Others(q) /\ req'[q].pc = pc
           /\ req'[q].id = r
           /\ req'[q].op = req[q].op /\ req'[q].did = req[q].did /\ req'[q].name = req[q].name
           /\ req'[q].old = req[q].old /\ req'[q].copy = req[q].copy /\ req'[q].newId = req[q].newId
           /\ req'[q].new = req[q].new /\ req'[q].solo = req[q].solo /\ req'[q].ok = req[q].ok
           /\ req'[q].kept = req[q].kept
<1> DEFINE half == [req[q] EXCEPT !.pc = pc]
           to == [req[q] EXCEPT !.pc = pc, !.id = r]
<1>1. req[q] \in ReqType
    OBVIOUS
<1>2. half \in ReqType
    BY <1>1 DEF ReqType, Places
<1>3. to = [half EXCEPT !.id = r]
    BY <1>1 DEF ReqType
<1>4. /\ to.pc = pc /\ to.id = r
      /\ to.op = req[q].op /\ to.did = req[q].did /\ to.name = req[q].name
      /\ to.old = req[q].old /\ to.copy = req[q].copy /\ to.newId = req[q].newId
      /\ to.new = req[q].new /\ to.solo = req[q].solo /\ to.ok = req[q].ok
      /\ to.kept = req[q].kept
    BY <1>1 DEF ReqType
<1> HIDE DEF half
<1>5. to \in ReqType
    BY <1>2, <1>3 DEF ReqType
<1>6. req' = [req EXCEPT ![q] = to]
    BY DEF SetsId
<1> HIDE DEF to
<1> QED
    BY <1>4, <1>5, <1>6 DEF Others

SetsNewId(q, pc, r) == req' = [req EXCEPT ![q].pc = pc, ![q].newId = r]

LEMMA LearnsNewId ==
    ASSUME req \in [Request -> ReqType], NEW q \in Request, NEW pc \in Places,
           NEW r \in RecordId, SetsNewId(q, pc, r)
    PROVE  /\ req' \in [Request -> ReqType] /\ Others(q) /\ req'[q].pc = pc
           /\ req'[q].newId = r
           /\ req'[q].op = req[q].op /\ req'[q].did = req[q].did /\ req'[q].name = req[q].name
           /\ req'[q].old = req[q].old /\ req'[q].id = req[q].id /\ req'[q].copy = req[q].copy
           /\ req'[q].new = req[q].new /\ req'[q].solo = req[q].solo /\ req'[q].ok = req[q].ok
           /\ req'[q].kept = req[q].kept
<1> DEFINE half == [req[q] EXCEPT !.pc = pc]
           to == [req[q] EXCEPT !.pc = pc, !.newId = r]
<1>1. req[q] \in ReqType
    OBVIOUS
<1>2. half \in ReqType
    BY <1>1 DEF ReqType, Places
<1>3. to = [half EXCEPT !.newId = r]
    BY <1>1 DEF ReqType
<1>4. /\ to.pc = pc /\ to.newId = r
      /\ to.op = req[q].op /\ to.did = req[q].did /\ to.name = req[q].name
      /\ to.old = req[q].old /\ to.id = req[q].id /\ to.copy = req[q].copy
      /\ to.new = req[q].new /\ to.solo = req[q].solo /\ to.ok = req[q].ok
      /\ to.kept = req[q].kept
    BY <1>1 DEF ReqType
<1> HIDE DEF half
<1>5. to \in ReqType
    BY <1>2, <1>3 DEF ReqType
<1>6. req' = [req EXCEPT ![q] = to]
    BY DEF SetsNewId
<1> HIDE DEF to
<1> QED
    BY <1>4, <1>5, <1>6 DEF Others

SetsKept(q, pc, b) == req' = [req EXCEPT ![q].pc = pc, ![q].kept = b]

LEMMA LetsGo ==
    ASSUME req \in [Request -> ReqType], NEW q \in Request, NEW pc \in Places,
           NEW b \in BOOLEAN, SetsKept(q, pc, b)
    PROVE  /\ req' \in [Request -> ReqType] /\ Others(q) /\ req'[q].pc = pc
           /\ req'[q].kept = b
           /\ req'[q].op = req[q].op /\ req'[q].did = req[q].did /\ req'[q].name = req[q].name
           /\ req'[q].old = req[q].old /\ req'[q].id = req[q].id /\ req'[q].copy = req[q].copy
           /\ req'[q].newId = req[q].newId /\ req'[q].new = req[q].new /\ req'[q].solo = req[q].solo
           /\ req'[q].ok = req[q].ok
<1> DEFINE half == [req[q] EXCEPT !.pc = pc]
           to == [req[q] EXCEPT !.pc = pc, !.kept = b]
<1>1. req[q] \in ReqType
    OBVIOUS
<1>2. half \in ReqType
    BY <1>1 DEF ReqType, Places
<1>3. to = [half EXCEPT !.kept = b]
    BY <1>1 DEF ReqType
<1>4. /\ to.pc = pc /\ to.kept = b
      /\ to.op = req[q].op /\ to.did = req[q].did /\ to.name = req[q].name
      /\ to.old = req[q].old /\ to.id = req[q].id /\ to.copy = req[q].copy
      /\ to.newId = req[q].newId /\ to.new = req[q].new /\ to.solo = req[q].solo
      /\ to.ok = req[q].ok
    BY <1>1 DEF ReqType
<1> HIDE DEF half
<1>5. to \in ReqType
    BY <1>2, <1>3 DEF ReqType
<1>6. req' = [req EXCEPT ![q] = to]
    BY DEF SetsKept
<1> HIDE DEF to
<1> QED
    BY <1>4, <1>5, <1>6 DEF Others

-----------------------------------------------------------------------------
(* PUT.                                                                    *)

LEMMA PutInspectHolds ==
    ASSUME IInv, NEW q \in Request, PutInspect(q)
    PROVE  IInv' /\ Works1(q)
<1>1. /\ WellFormed /\ Carries(q) /\ Undoable(q) /\ Working(q) /\ up /\ req \in [Request -> ReqType]
      /\ faults \in Nat
      /\ UNCHANGED <<dock, rec, routes, lock, todo, up, trouble, begun>> /\ At(q, "put", "inspect")
      /\ req[q].did \in DockerId
    BY Under DEF PutInspect, At, Carries, Places
<1>2. faults' \in 0 .. MaxFaults /\ (faults' = faults \/ faults' = faults + 1)
    BY <1>1, FaultsCounted DEF PutInspect
<1>3. \/ Moves(q, "unlock")
      \/ /\ Keeps(q, "find") /\ req'[q].old = dock[req[q].did].name /\ dock[req[q].did] # Absent
         /\ req'[q].name = req[q].name /\ req'[q].id = req[q].id
    <2>1. CASE Answer(q, FALSE)
        BY <1>1, <2>1, AnswerMoves
    <2>2. CASE /\ dock[req[q].did] # Absent
               /\ req' = [req EXCEPT ![q].pc = "find", ![q].old = dock[req[q].did].name]
        <3>1. dock[req[q].did].name \in Name
            BY <1>1, <2>2, Fields
        <3>2. SetsOld(q, "find", dock[req[q].did].name)
            BY <2>2 DEF SetsOld
        <3>3. /\ req' \in [Request -> ReqType] /\ Others(q) /\ req'[q].pc = "find"
              /\ req'[q].old = dock[req[q].did].name /\ req'[q].id = req[q].id
              /\ req'[q].op = req[q].op /\ req'[q].did = req[q].did /\ req'[q].name = req[q].name
              /\ req'[q].solo = req[q].solo
            BY <1>1, <3>1, <3>2, LearnsOld DEF Places
        <3> QED
            BY <2>2, <3>3 DEF Keeps
    <2> QED
        BY <2>1, <2>2 DEF PutInspect
<1>4. Works1(q)
    BY <1>1, <1>2, <1>3, MovesKeeps, WorksOne, Untouched DEF Places
<1>5. Carries(q)' /\ UndoStep(q)
    BY <1>1, <1>3, Fields DEF Carries, UndoStep, Moves, Same, Keeps, At, Undoable
<1>6. DebtStep(q)
    BY <1>1, DebtsStand DEF Owes, At
<1>7. ASSUME CalmInv PROVE CalmStep(q)
    BY <1>1, <1>3, <1>7, CalmNames DEF Repairs, InOrder, At, Moves, Same, Keeps
<1> QED
    BY <1>4, <1>5, <1>6, <1>7, FrameHolds

LEMMA PutFindHolds ==
    ASSUME IInv, NEW q \in Request, PutFind(q)
    PROVE  IInv' /\ Works1(q)
<1>1. /\ WellFormed /\ Carries(q) /\ Undoable(q) /\ Working(q) /\ up /\ req \in [Request -> ReqType]
      /\ faults \in Nat
      /\ UNCHANGED <<dock, rec, routes, lock, todo, up, trouble, begun>> /\ At(q, "put", "find")
      /\ req[q].did \in DockerId /\ req[q].old \in Name /\ req[q].id = None
    BY Under DEF PutFind, At, Carries, Places
<1>2. faults' \in 0 .. MaxFaults /\ (faults' = faults \/ faults' = faults + 1)
    BY <1>1, FaultsCounted DEF PutFind
<1>3. \/ Moves(q, "stop") /\ (faults' = faults => NoRecordOf(req[q].old))
      \/ /\ Keeps(q, "stop") /\ req'[q].old = req[q].old /\ req'[q].id \in RecordId
         /\ rec[req'[q].id].name = req[q].old /\ req'[q].copy = rec[req'[q].id]
         /\ req'[q].copy \in Record /\ req'[q].name = req[q].name
         /\ req'[q].kept = req[q].kept
    <2>1. CASE /\ (Works /\ \A r \in RecordId : rec[r].name # req[q].old) \/ Fault
               /\ Go(q, "stop")
        BY <1>1, <2>1, GoMoves, FaultsCounted DEF NoRecordOf, Places
    <2>2. ASSUME NEW r \in RecordId, rec[r].name = req[q].old,
                 req' = [req EXCEPT ![q].pc = "stop", ![q].id = r, ![q].copy = rec[r]]
          PROVE  /\ Keeps(q, "stop") /\ req'[q].old = req[q].old /\ req'[q].id = r
                 /\ req'[q].copy = rec[r] /\ rec[r] \in Record /\ req'[q].name = req[q].name
                 /\ req'[q].kept = req[q].kept
        <3>1. rec[r] \in Record
            BY <1>1, <2>2, Fields, Names
        <3>2. /\ req' \in [Request -> ReqType] /\ Others(q) /\ req'[q].pc = "stop"
              /\ req'[q].id = r /\ req'[q].copy = rec[r]
              /\ req'[q].op = req[q].op /\ req'[q].did = req[q].did /\ req'[q].name = req[q].name
              /\ req'[q].old = req[q].old /\ req'[q].solo = req[q].solo /\ req'[q].kept = req[q].kept
            <4>1. SetsRecord(q, "stop", r, rec[r])
                BY <2>2 DEF SetsRecord
            <4> QED
                BY <1>1, <3>1, <4>1, LearnsRecord DEF Places
        <3> QED
            BY <2>2, <3>1, <3>2 DEF Keeps
    <2> QED
        BY <2>1, <2>2 DEF PutFind
<1>4. Works1(q)
    BY <1>1, <1>2, <1>3, MovesKeeps, WorksOne, Untouched DEF Places
<1>5. Carries(q)' /\ req'[q].did = req[q].did
    BY <1>1, <1>3 DEF Carries, Moves, Same, SameFinds, Keeps, At
<1>6. UndoStep(q)
    <2>1. req[q].solo => dock[req[q].did].name = req[q].old \/ ~req[q].kept
        BY <1>1, Names DEF Undoable, At
    <2> QED
        BY <1>1, <1>3, <2>1 DEF UndoStep, Moves, Same, Keeps
<1>7. DebtStep(q)
    BY <1>1, DebtsStand DEF Owes, At
<1>8. ASSUME CalmInv, faults' = faults PROVE CalmStep(q)
    <2>1. InOrder(q)'
        BY <1>1, <1>3, <1>8, Fields DEF CalmInv, InOrder, NoRecordOf, At, Moves, Same, Keeps, RecordId, None
    <2> QED
        BY <1>1, <1>8, <2>1, CalmNames DEF Repairs, At
<1> QED
    BY <1>4, <1>5, <1>6, <1>7, <1>8, FrameHolds

LEMMA PutStopHolds ==
    ASSUME IInv, NEW q \in Request, PutStop(q)
    PROVE  IInv' /\ Works1(q)
<1>1. /\ WellFormed /\ Carries(q) /\ Undoable(q) /\ Working(q) /\ up /\ req \in [Request -> ReqType]
      /\ faults \in Nat
      /\ UNCHANGED <<rec, routes, lock, todo, up, trouble, begun>> /\ At(q, "put", "stop")
      /\ req[q].did \in DockerId /\ req[q].old \in Name
    BY Under DEF PutStop, At, Carries, Places
<1> DEFINE d == req[q].did
<1>2. /\ Docked(d) /\ \A e \in DockerId : dock'[e].name = dock[e].name
      /\ faults' \in 0 .. MaxFaults /\ (faults' = faults \/ faults' = faults + 1)
      /\ \/ Moves(q, "create") /\ faults' = faults
         \/ Moves(q, "unlock") /\ (faults' = faults => dock' = dock)
    BY <1>1, StopDoes DEF PutStop, Places
<1>3. Works1(q)
    BY <1>1, <1>2, MovesKeeps, WorksOne, Untouched DEF Places
<1>4. Carries(q)' /\ UndoStep(q)
    BY <1>1, <1>2, Names DEF Carries, UndoStep, Moves, Same, SameFinds, At, Undoable
<1>5. ASSUME faults' = faults PROVE DebtStep(q)
    BY <1>1, <1>2, <1>5 DEF DebtStep, Owes, At, Docked, Stopped, Moves, Same
<1>6. ASSUME CalmInv PROVE CalmStep(q)
    <2>1. InOrder(q)'
        BY <1>1, <1>2, <1>6 DEF CalmInv, InOrder, NoRecordOf, At, Moves, Same
    <2> QED
        BY <1>1, <1>2, <1>6, <2>1, CalmNames DEF Repairs, At
<1> QED
    BY <1>3, <1>4, <1>5, <1>6, FrameHolds

LEMMA PutCreateHolds ==
    ASSUME IInv, NEW q \in Request, PutCreate(q)
    PROVE  IInv' /\ Works1(q)
<1>1. /\ WellFormed /\ Carries(q) /\ Undoable(q) /\ Working(q) /\ up /\ req \in [Request -> ReqType]
      /\ faults \in Nat
      /\ UNCHANGED <<rec, routes, lock, todo, up, trouble, begun>> /\ At(q, "put", "create")
      /\ req[q].did \in DockerId /\ req[q].old \in Name /\ req[q].name \in Name
    BY Under DEF PutCreate, At, Carries, Places
<1>2. /\ faults' \in 0 .. MaxFaults /\ (faults' = faults \/ faults' = faults + 1)
      /\ \/ /\ faults' = faults
            /\ \E d \in DockerId :
                 /\ Makes(req[q].name, d) /\ req' \in [Request -> ReqType] /\ Others(q) /\ Same(q)
                 /\ req'[q].pc = "drop" /\ req'[q].new = d /\ req'[q].copy = req[q].copy
         \/ Moves(q, "restart") /\ dock' = dock
         \/ /\ Moves(q, "restart") /\ faults' = faults + 1
            /\ \E d \in DockerId : Makes(req[q].name, d)
    BY <1>1, CreateDoes DEF PutCreate, Places
<1>3. Works1(q)
    <2>1. Keeps(q, "drop") \/ Keeps(q, "restart")
        BY <1>2 DEF Keeps, Moves, Same
    <2>2. dock' \in Docks /\ OneOfAName'
        BY <1>1, <1>2, Untouched DEF Makes
    <2> QED
        BY <1>1, <1>2, <2>1, <2>2, WorksOne, Untouched DEF Places
<1>4. \A d \in DockerId : Makes(req[q].name, d) => d # req[q].did
    BY <1>1 DEF Makes, FreshDocker
<1>5. Same(q) /\ dock'[req[q].did] = dock[req[q].did]
    BY <1>1, <1>2, <1>4 DEF Makes, Docked, Moves
<1>6. Carries(q)'
    <2>1. req[q].id # None => req[q].copy \in Record /\ req[q].copy.name = req[q].old
        BY <1>1 DEF Carries, At
    <2> QED
        BY <1>1, <1>2, <1>4, <2>1 DEF Carries, Moves, Same, SameFinds, At
<1>7. UndoStep(q)
    BY <1>1, <1>2, <1>5, Names DEF UndoStep, Moves, Same, At, Undoable
<1>8. ASSUME faults' = faults PROVE DebtStep(q)
    BY <1>1, <1>2, <1>8, FaultsCounted DEF DebtStep, Owes, At, Makes, Docked, Stopped, Same, Moves, WellFormed, TypeOK
<1>9. ASSUME CalmInv, faults' = faults PROVE CalmStep(q)
    <2>1. CASE Moves(q, "restart") /\ dock' = dock
        BY <1>1, <1>9, <2>1, CalmNames DEF Repairs, InOrder, At, Moves, Same
    <2>2. CASE \E d \in DockerId :
                 /\ Makes(req[q].name, d) /\ req' \in [Request -> ReqType] /\ Others(q) /\ Same(q)
                 /\ req'[q].pc = "drop" /\ req'[q].new = d
        <3>1. PICK d \in DockerId : Makes(req[q].name, d) /\ Same(q) /\ req'[q].pc = "drop" /\ req'[q].new = d
            BY <2>2
        <3>2. Unrecorded(d) /\ dock'[d].name = req[q].name
            BY <1>1, <3>1 DEF Makes, FreshDocker, Unrecorded, Created, Absent
        <3>3. InOrder(q)'
            BY <1>1, <1>5, <1>9, <3>1, <3>2 DEF CalmInv, InOrder, Unrecorded, NoRecordOf, At, Same
        <3> QED
            BY <1>1, <1>9, <3>1, <3>3, CalmCreates DEF Repairs, At
    <2> QED
        BY <1>1, <1>2, <1>9, <2>1, <2>2 DEF WellFormed, TypeOK
<1> QED
    BY <1>3, <1>6, <1>7, <1>8, <1>9, FrameHolds

LEMMA PutDropHolds ==
    ASSUME IInv, NEW q \in Request, PutDrop(q)
    PROVE  IInv' /\ Works1(q)
<1>1. /\ WellFormed /\ Carries(q) /\ Undoable(q) /\ Working(q) /\ up /\ req \in [Request -> ReqType]
      /\ faults \in Nat
      /\ UNCHANGED <<dock, routes, lock, todo, up, trouble, begun>> /\ At(q, "put", "drop")
      /\ req[q].did \in DockerId /\ req[q].old \in Name /\ req[q].name \in Name
      /\ req[q].new \in DockerId \ {req[q].did}
    BY Under DEF PutDrop, At, Carries, Places
<1>2. /\ rec' \in Recs /\ faults' \in 0 .. MaxFaults /\ (faults' = faults \/ faults' = faults + 1)
      /\ Moves(q, "save")
      /\ \/ rec' = rec /\ (faults' = faults => ~Renames(q))
         \/ /\ Renames(q) /\ faults' = faults /\ req[q].id \in RecordId /\ rec'[req[q].id] = Absent
            /\ \A s \in RecordId \ {req[q].id} : rec'[s] = rec[s]
    <2>1. CASE Renames(q)
        <3>1. req[q].id \in RecordId
            BY <1>1, <2>1, Fields DEF Renames
        <3>2. Put(q, req[q].id, Absent, "save", "save")
            BY <2>1 DEF PutDrop
        <3> QED
            BY <1>1, <2>1, <3>1, <3>2, PutDoes DEF Places
    <2>2. CASE ~Renames(q)
        BY <1>1, <2>2, GoMoves, FaultsCounted, Untouched DEF PutDrop, Places
    <2> QED
        BY <2>1, <2>2
<1>3. Works1(q)
    BY <1>1, <1>2, MovesKeeps, WorksOne, Untouched DEF Places
<1>4. Carries(q)'
    BY <1>1, <1>2 DEF Carries, Moves, Same, SameFinds, At
<1>5. UndoStep(q)
    BY <1>1, <1>2, Names DEF UndoStep, Moves, Same, At, Undoable
<1>6. DebtStep(q)
    BY <1>1, <1>2, DebtsStand DEF Owes, At, Moves, Same, SameFinds
<1>7. ASSUME CalmInv, faults' = faults PROVE CalmStep(q)
    <2>1. \A r \in RecordId : rec'[r] = rec[r] \/ rec'[r] = Absent
        BY <1>2
    <2>2. \A r \in RecordId : rec[r] # Absent => Matched(r)
        BY <1>1, <1>7, RecordsStand DEF Repairs, At
    <2>3. \A r \in RecordId : rec'[r] # Absent => Matched(r)'
        BY <1>1, <2>1, <2>2 DEF Matched
    <2>4. \A r, s \in RecordId : rec'[r] # Absent /\ rec'[r].name = rec'[s].name => r = s
        BY <1>1, <1>7, <2>1, Fields, Names DEF CalmInv, RecordsMatch
    <2>5. InOrder(q)'
        <3>1. /\ dock[req[q].did].name = req[q].old /\ dock[req[q].new].name = req[q].name
              /\ Unrecorded(req[q].new)
              /\ IF req[q].id = None THEN NoRecordOf(req[q].old) ELSE rec[req[q].id].name = req[q].old
            BY <1>1, <1>7 DEF CalmInv, InOrder, At
        <3>2. req[q].old # req[q].name
            BY <1>1, <3>1, Fields, Names DEF WellFormed, OneOfAName
        <3>3. \A s \in RecordId : rec'[s].name # req[q].old
            <4>1. CASE req[q].id = None
                BY <1>1, <2>1, <3>1, <4>1, Names DEF NoRecordOf
            <4>2. CASE req[q].id # None
                <5>1. req[q].id \in RecordId /\ rec[req[q].id] # Absent
                    BY <1>1, <3>1, <4>2, Fields, Names
                <5>2. \A s \in RecordId \ {req[q].id} : rec[s].name # req[q].old
                    BY <1>7, <3>1, <4>2, <5>1 DEF CalmInv, RecordsMatch
                <5>3. rec'[req[q].id] = Absent
                    BY <1>2, <1>7, <3>2, <4>2 DEF Renames
                <5> QED
                    BY <1>1, <2>1, <5>2, <5>3, Names
            <4> QED
                BY <4>1, <4>2
        <3>4. \A s \in RecordId : rec'[s].did # req[q].new
            BY <1>1, <2>1, <3>1, Names DEF Unrecorded
        <3> QED
            BY <1>1, <1>2, <3>1, <3>3, <3>4 DEF InOrder, NoRecordOf, Unrecorded, At, Moves, Same, SameFinds
    <2> QED
        BY <1>1, <2>1, <2>3, <2>4, <2>5, Names DEF CalmStep
<1> QED
    BY <1>3, <1>4, <1>5, <1>6, <1>7, FrameHolds

LEMMA PutSaveHolds ==
    ASSUME IInv, NEW q \in Request, PutSave(q)
    PROVE  IInv' /\ Works1(q)
<1>1. /\ WellFormed /\ Carries(q) /\ Undoable(q) /\ Working(q) /\ up /\ req \in [Request -> ReqType]
      /\ faults \in Nat
      /\ UNCHANGED <<dock, routes, lock, todo, up, trouble, begun>> /\ At(q, "put", "save")
      /\ req[q].did \in DockerId /\ req[q].old \in Name /\ req[q].name \in Name
      /\ req[q].new \in DockerId \ {req[q].did}
    BY Under DEF PutSave, At, Carries, Places
<1> DEFINE c == [Absent EXCEPT !.name = req[q].name, !.did = req[q].new]
<1>2. c \in Record /\ c.name = req[q].name /\ c.did = req[q].new
    BY <1>1, Made
<1>3. PICK r \in RecordId :
         \/ /\ faults' = faults /\ rec' = [rec EXCEPT ![r] = c] /\ SetsNewId(q, "swap", r)
         \/ Fault /\ UNCHANGED rec /\ Go(q, "rbRemove")
    <2>1. ASSUME NEW r \in {s \in FreshRecord : s = Least(FreshRecord)} PROVE r \in RecordId
        BY DEF FreshRecord
    <2>2. req[q].id # None => req[q].id \in RecordId
        BY <1>1, Fields
    <2> QED
        BY <2>1, <2>2 DEF PutSave, Works, SetsNewId
<1> HIDE DEF c
<1>4. /\ faults' \in 0 .. MaxFaults /\ (faults' = faults \/ faults' = faults + 1)
      /\ rec' \in Recs /\ req'[q].did = req[q].did /\ req'[q].name = req[q].name
      /\ req'[q].op = "put" /\ req'[q].old = req[q].old /\ req'[q].id = req[q].id
      /\ req'[q].new = req[q].new /\ req'[q].copy = req[q].copy
      /\ req'[q].kept = req[q].kept
      /\ \/ /\ faults' = faults /\ Keeps(q, "swap") /\ rec'[r] = c
            /\ \A s \in RecordId \ {r} : rec'[s] = rec[s]
         \/ faults' = faults + 1 /\ Keeps(q, "rbRemove") /\ rec' = rec
    <2>1. CASE Fault /\ UNCHANGED rec /\ Go(q, "rbRemove")
        BY <1>1, <2>1, GoMoves, MovesKeeps, FaultsCounted, Untouched DEF Places, Moves, Same, SameFinds, At
    <2>2. CASE faults' = faults /\ rec' = [rec EXCEPT ![r] = c] /\ SetsNewId(q, "swap", r)
        <3>1. /\ req' \in [Request -> ReqType] /\ Others(q) /\ req'[q].pc = "swap"
              /\ req'[q].op = req[q].op /\ req'[q].did = req[q].did /\ req'[q].name = req[q].name
              /\ req'[q].old = req[q].old /\ req'[q].id = req[q].id /\ req'[q].copy = req[q].copy
              /\ req'[q].new = req[q].new /\ req'[q].solo = req[q].solo
              /\ req'[q].kept = req[q].kept
            BY <1>1, <2>2, LearnsNewId DEF Places
        <3>2. rec' \in Recs /\ rec'[r] = c /\ \A s \in RecordId \ {r} : rec'[s] = rec[s]
            BY <1>1, <1>2, <2>2, Fields DEF Recs
        <3> QED
            BY <1>1, <2>2, <3>1, <3>2, FaultsCounted DEF Keeps, At, Works, WellFormed, TypeOK
    <2> QED
        BY <1>3, <2>1, <2>2
<1>5. Works1(q)
    BY <1>1, <1>4, WorksOne, Untouched DEF Places
<1>6. Carries(q)'
    BY <1>1, <1>4 DEF Carries, Keeps, At
<1>7. UndoStep(q)
    <2>1. req[q].solo /\ req[q].kept => dock[req[q].did].name = req[q].old
        BY <1>1, Names DEF Undoable, At
    <2>2. req'[q].solo = req[q].solo /\ (req'[q].pc = "swap" \/ (req'[q].pc = "rbRemove" /\ faults' >= 1))
        BY <1>1, <1>4 DEF Keeps
    <2> QED
        BY <1>1, <1>4, <2>1, <2>2 DEF UndoStep
<1>8. ASSUME faults' = faults PROVE DebtStep(q)
    BY <1>1, <1>4, <1>8, DebtsStand DEF Owes, At, Keeps
<1>9. ASSUME CalmInv, faults' = faults PROVE CalmStep(q)
    <2>1. Keeps(q, "swap") /\ rec'[r] = c /\ \A s \in RecordId \ {r} : rec'[s] = rec[s]
        BY <1>1, <1>4, <1>9
    <2>2. /\ dock[req[q].did].name = req[q].old /\ dock[req[q].new].name = req[q].name
          /\ Unrecorded(req[q].new) /\ NoRecordOf(req[q].old)
        BY <1>1, <1>9 DEF CalmInv, InOrder, At
    <2>3. \A s \in RecordId : rec[s] # Absent => Matched(s)
        BY <1>1, <1>9, RecordsStand DEF Repairs, At
    <2>4. \A s \in RecordId : rec[s].name # req[q].name
        BY <1>1, <2>2, <2>3, Fields, Names DEF Matched, WellFormed, OneOfAName, Unrecorded
    <2>5. \A s \in RecordId : rec[s].did # req[q].did
        BY <1>1, <2>2, <2>3, Fields, Names DEF Matched, NoRecordOf
    <2>6. \A s, t \in RecordId : rec'[s] # Absent /\ rec'[s].name = rec'[t].name => s = t
        BY <1>2, <1>9, <2>1, <2>4 DEF CalmInv, RecordsMatch
    <2>7. \A s \in RecordId : rec'[s] # Absent => Matched(s)'
        BY <1>1, <1>2, <2>1, <2>2, <2>3, Names DEF Matched
    <2>8. InOrder(q)'
        BY <1>1, <1>2, <1>4, <2>1, <2>2, <2>5 DEF InOrder, Unrecorded, Keeps
    <2>9. \A s \in RecordId : rec'[s].did # rec[s].did => rec'[s].did # req[q].did
        BY <1>1, <1>2, <2>1
    <2>10. ASSUME NEW s \in RecordId, rec'[s] # Absent, rec'[s].name # rec[s].name,
                  NEW d \in DockerId, dock'[d].name = rec'[s].name
           PROVE  Owes(q, d)'
        <3>1. rec'[s].name = req[q].name
            BY <1>2, <2>1, <2>10
        <3>2. d = req[q].new
            BY <1>1, <2>2, <2>10, <3>1, Fields, Names DEF WellFormed, OneOfAName
        <3> QED
            BY <1>4, <2>1, <3>2 DEF Owes, Keeps
    <2> QED
        BY <2>6, <2>7, <2>8, <2>9, <2>10 DEF CalmStep
<1> QED
    BY <1>5, <1>6, <1>7, <1>8, <1>9, FrameHolds

LEMMA PutSwapHolds ==
    ASSUME IInv, NEW q \in Request, PutSwap(q)
    PROVE  IInv' /\ Works1(q)
<1>1. /\ WellFormed /\ Carries(q) /\ Working(q) /\ up /\ req \in [Request -> ReqType]
      /\ UNCHANGED <<rec, routes, lock, todo, up, trouble, begun>> /\ At(q, "put", "swap")
      /\ req[q].did \in DockerId /\ req[q].old \in Name /\ req[q].name \in Name
      /\ req[q].new \in DockerId \ {req[q].did}
    BY Under DEF PutSwap, At, Carries, Places
<1> DEFINE d == req[q].did
<1>2. SetsKept(q, "unroute", FALSE)
    BY DEF PutSwap, SetsKept
<1>3. /\ req' \in [Request -> ReqType] /\ Others(q) /\ req'[q].pc = "unroute" /\ ~req'[q].kept
      /\ req'[q].op = "put" /\ req'[q].did = d /\ req'[q].name = req[q].name
      /\ req'[q].old = req[q].old /\ req'[q].id = req[q].id /\ req'[q].copy = req[q].copy
      /\ req'[q].new = req[q].new /\ req'[q].solo = req[q].solo
    BY <1>1, <1>2, LetsGo DEF Places, At
<1>4. faults' \in 0 .. MaxFaults /\ (faults' = faults \/ faults' = faults + 1)
    BY <1>1, FaultsCounted DEF PutSwap
<1>5. Docked(d) /\ (dock'[d] = dock[d] \/ dock'[d] = Absent)
    BY <1>1, DockSet DEF PutSwap
<1>6. ASSUME faults' = faults PROVE dock'[d] = Absent
    <2>1. dock' = [dock EXCEPT ![d] = Absent]
        BY <1>6, FaultsCounted, <1>1 DEF PutSwap
    <2> QED
        BY <1>1, <2>1, Fields DEF Docks
<1>7. Works1(q)
    BY <1>1, <1>3, <1>4, <1>5, WorksOne, Untouched DEF Places, Keeps, At
<1>8. Carries(q)' /\ UndoStep(q)
    BY <1>1, <1>3 DEF Carries, UndoStep, At
<1>9. ASSUME faults' = faults PROVE DebtStep(q)
    BY <1>1, <1>3, <1>5, <1>6, <1>9 DEF DebtStep, Owes, At, Docked, Stopped
<1>10. ASSUME CalmInv PROVE CalmStep(q)
    <2>1. Unrecorded(d) /\ d # None /\ dock[req[q].new].name = req[q].name
        BY <1>1, <1>10, Names DEF CalmInv, InOrder, At
    <2>2. InOrder(q)'
        BY <1>1, <1>3, <1>5, <2>1 DEF InOrder, Docked
    <2> QED
        BY <1>1, <1>3, <1>5, <1>10, <2>1, <2>2, CalmRemoves DEF Repairs, At, Unrecorded
<1> QED
    BY <1>7, <1>8, <1>9, <1>10, FrameHolds

LEMMA PutUnrouteHolds ==
    ASSUME IInv, NEW q \in Request, PutUnroute(q)
    PROVE  IInv' /\ Works1(q)
<1>1. /\ WellFormed /\ Carries(q) /\ Working(q) /\ up /\ req \in [Request -> ReqType]
      /\ UNCHANGED <<dock, rec, lock, todo, up, trouble, begun>> /\ At(q, "put", "unroute")
      /\ routes' \subseteq routes
    BY Under DEF PutUnroute, At, Places
<1>2. faults' \in 0 .. MaxFaults /\ (faults' = faults \/ faults' = faults + 1) /\ Moves(q, "start")
    BY <1>1, FaultsCounted, GoMoves DEF PutUnroute, Places
<1>3. Works1(q)
    BY <1>1, <1>2, MovesKeeps, WorksOne, Untouched DEF Places, WellFormed, TypeOK
<1>4. Carries(q)' /\ UndoStep(q)
    BY <1>1, <1>2 DEF Carries, UndoStep, Moves, Same, SameFinds, At
<1>5. DebtStep(q)
    BY <1>1, <1>2, DebtsStand DEF Owes, At, Moves, Same, SameFinds
<1>6. ASSUME CalmInv PROVE CalmStep(q)
    BY <1>1, <1>2, <1>6, CalmNames DEF CalmInv, Repairs, InOrder, At, Moves, Same, SameFinds
<1> QED
    BY <1>3, <1>4, <1>5, <1>6, FrameHolds

LEMMA PutStartHolds ==
    ASSUME IInv, NEW q \in Request, PutStart(q)
    PROVE  IInv' /\ Works1(q)
<1>1. /\ WellFormed /\ Carries(q) /\ Working(q) /\ up /\ req \in [Request -> ReqType]
      /\ UNCHANGED <<rec, routes, lock, todo, up, trouble, begun>> /\ At(q, "put", "start")
      /\ req[q].new \in DockerId \ {req[q].did} /\ req[q].name \in Name /\ ~req[q].kept
    BY Under DEF PutStart, At, Carries, Places
<1> DEFINE d == req[q].new
<1>2. /\ Docked(d) /\ \A e \in DockerId : dock'[e].name = dock[e].name
      /\ faults' \in 0 .. MaxFaults /\ (faults' = faults \/ faults' = faults + 1)
      /\ \/ Moves(q, "net") /\ faults' = faults /\ dock'[d].run
         \/ Moves(q, "rbRemove") /\ (faults' = faults => dock[d] = Absent /\ dock' = dock)
    BY <1>1, StartDoes DEF PutStart, Places
<1>3. Works1(q)
    BY <1>1, <1>2, MovesKeeps, WorksOne, Untouched DEF Places
<1>4. Carries(q)' /\ UndoStep(q)
    BY <1>1, <1>2 DEF Carries, UndoStep, Moves, Same, SameFinds, At
<1>5. ASSUME faults' = faults PROVE DebtStep(q)
    BY <1>1, <1>2, <1>5 DEF DebtStep, Owes, At, Docked, Stopped
<1>6. ASSUME CalmInv, faults' = faults PROVE CalmStep(q)
    <2>1. dock[d].name = req[q].name /\ dock[d] # Absent
        BY <1>1, <1>6, Fields DEF CalmInv, InOrder, At
    <2>2. Moves(q, "net")
        BY <1>2, <1>6, <2>1
    <2>3. InOrder(q)'
        BY <1>1, <1>2, <2>1, <2>2 DEF InOrder, At, Moves, Same, SameFinds
    <2> QED
        BY <1>1, <1>2, <1>6, <2>3, CalmNames DEF Repairs, At
<1> QED
    BY <1>3, <1>4, <1>5, <1>6, FrameHolds

LEMMA PutNetHolds ==
    ASSUME IInv, NEW q \in Request, PutNet(q)
    PROVE  IInv' /\ Works1(q)
<1>1. /\ WellFormed /\ Carries(q) /\ Working(q) /\ up /\ req \in [Request -> ReqType]
      /\ UNCHANGED <<dock, rec, lock, todo, up, trouble, begun>> /\ At(q, "put", "net")
      /\ req[q].new \in DockerId \ {req[q].did} /\ req[q].name \in Name /\ ~req[q].kept
    BY Under DEF PutNet, At, Carries, Places
<1>2. /\ faults' \in 0 .. MaxFaults /\ (faults' = faults \/ faults' = faults + 1)
      /\ routes' \subseteq Name
      /\ \/ Moves(q, "unlock")
         \/ Moves(q, "rbRemove") /\ (faults' = faults => dock[req[q].new] = Absent)
    <2>1. faults' \in 0 .. MaxFaults /\ (faults' = faults \/ faults' = faults + 1)
        BY <1>1, FaultsCounted DEF PutNet
    <2>2. routes' \subseteq Name
        BY <1>1 DEF PutNet, WellFormed, TypeOK
    <2>3. CASE Answer(q, TRUE)
        BY <1>1, <2>1, <2>2, <2>3, AnswerMoves
    <2>4. CASE Go(q, "rbRemove") /\ (Fault \/ dock[req[q].new] = Absent)
        BY <1>1, <2>1, <2>2, <2>4, GoMoves, FaultsCounted DEF Places
    <2> QED
        BY <2>3, <2>4 DEF PutNet
<1>3. Works1(q)
    BY <1>1, <1>2, MovesKeeps, WorksOne, Untouched DEF Places
<1>4. Carries(q)' /\ UndoStep(q)
    BY <1>1, <1>2 DEF Carries, UndoStep, Moves, Same, SameFinds, At
<1>5. DebtStep(q)
    BY <1>1, DebtsStand DEF Owes, At
<1>6. ASSUME CalmInv, faults' = faults PROVE CalmStep(q)
    <2>1. dock[req[q].new] # Absent
        BY <1>1, <1>6, Fields DEF CalmInv, InOrder, At
    <2>2. InOrder(q)'
        BY <1>1, <1>2, <1>6, <2>1 DEF InOrder, At, Moves, Same
    <2> QED
        BY <1>1, <1>6, <2>2, CalmNames DEF Repairs, At
<1> QED
    BY <1>3, <1>4, <1>5, <1>6, FrameHolds

\* The rollbacks are met only after an error, so they say nothing of calm.
LEMMA RbRemoveHolds ==
    ASSUME IInv, NEW q \in Request, RbRemove(q)
    PROVE  IInv' /\ Works1(q)
<1>1. /\ WellFormed /\ Carries(q) /\ Undoable(q) /\ Working(q) /\ up /\ req \in [Request -> ReqType]
      /\ faults \in Nat
      /\ UNCHANGED <<rec, routes, lock, todo, up, trouble, begun>> /\ At(q, "put", "rbRemove")
      /\ req[q].did \in DockerId /\ req[q].old \in Name
      /\ req[q].new \in DockerId \ {req[q].did} /\ req[q].name \in Name
    BY Under DEF RbRemove, At, Carries, Places
<1> DEFINE d == req[q].new
<1>2. /\ Docked(d) /\ (dock'[d] = dock[d] \/ dock'[d] = Absent)
      /\ faults' \in 0 .. MaxFaults /\ (faults' = faults \/ faults' = faults + 1)
      /\ Moves(q, "rbStart")
    BY <1>1, RemoveDoes DEF RbRemove, Places
<1>3. Works1(q)
    BY <1>1, <1>2, MovesKeeps, WorksOne, Untouched DEF Places
<1>4. Carries(q)'
    BY <1>1, <1>2 DEF Carries, Moves, Same, SameFinds, At
<1>5. UndoStep(q)
    BY <1>1, <1>2, Names DEF UndoStep, Moves, Same, At, Undoable, Docked
<1>6. DebtStep(q)
    BY <1>1, <1>2 DEF DebtStep, Owes, At, Docked, Stopped, Absent
<1>7. ~CalmInv
    BY <1>1 DEF CalmInv, InOrder, At
<1> QED
    BY <1>3, <1>4, <1>5, <1>6, <1>7, FrameHolds

LEMMA RbStartHolds ==
    ASSUME IInv, NEW q \in Request, RbStart(q)
    PROVE  IInv' /\ Works1(q)
<1>1. /\ WellFormed /\ Carries(q) /\ Undoable(q) /\ Working(q) /\ up /\ req \in [Request -> ReqType]
      /\ faults \in Nat
      /\ UNCHANGED <<rec, routes, lock, todo, up, trouble, begun>> /\ At(q, "put", "rbStart")
      /\ req[q].did \in DockerId /\ req[q].old \in Name /\ req[q].name \in Name
    BY Under DEF RbStart, At, Carries, Places
<1> DEFINE d == req[q].did
<1>2. /\ Docked(d) /\ \A e \in DockerId : dock'[e].name = dock[e].name
      /\ faults' \in 0 .. MaxFaults /\ (faults' = faults \/ faults' = faults + 1)
      /\ Moves(q, "rbSave") /\ (faults' = faults => dock'[d].run \/ dock' = dock)
    BY <1>1, StartDoes DEF RbStart, Places
<1>3. Works1(q)
    BY <1>1, <1>2, MovesKeeps, WorksOne, Untouched DEF Places
<1>4. Carries(q)'
    BY <1>1, <1>2 DEF Carries, Moves, Same, SameFinds, At
<1>5. UndoStep(q)
    BY <1>1, <1>2, Names DEF UndoStep, Moves, Same, At, Undoable
<1>6. ASSUME faults' = faults PROVE DebtStep(q)
    BY <1>1, <1>2, <1>6 DEF DebtStep, Owes, At, Docked, Stopped
<1>7. ~CalmInv
    BY <1>1 DEF CalmInv, InOrder, At
<1> QED
    BY <1>3, <1>4, <1>5, <1>6, <1>7, FrameHolds

LEMMA RbSaveHolds ==
    ASSUME IInv, NEW q \in Request, RbSave(q)
    PROVE  IInv' /\ Works1(q)
<1>1. /\ WellFormed /\ Carries(q) /\ Undoable(q) /\ Working(q) /\ up /\ req \in [Request -> ReqType]
      /\ faults \in Nat
      /\ UNCHANGED <<dock, routes, lock, todo, up, trouble, begun>> /\ At(q, "put", "rbSave")
      /\ req[q].did \in DockerId /\ req[q].old \in Name /\ req[q].name \in Name
      /\ req[q].id # None => req[q].copy \in Record /\ req[q].copy.name = req[q].old
    BY Under DEF RbSave, At, Carries, Places
<1>2. /\ rec' \in Recs /\ faults' \in 0 .. MaxFaults /\ (faults' = faults \/ faults' = faults + 1)
      /\ Moves(q, "restart")
      /\ req[q].id # None => faults' = faults + 1 \/ rec'[req[q].id].name = req[q].old
    <2>1. CASE req[q].id = None
        BY <1>1, <2>1, GoMoves, FaultsCounted, Untouched DEF RbSave, Places
    <2>2. CASE req[q].id # None
        <3> DEFINE c == [req[q].copy EXCEPT !.did = req[q].did]
        <3>1. c \in Record /\ c.name = req[q].old
            BY <1>1, <2>2, Made
        <3>2. Put(q, req[q].id, c, "restart", "restart") /\ req[q].id \in RecordId
            BY <1>1, <2>2, Fields DEF RbSave
        <3> HIDE DEF c
        <3> QED
            BY <1>1, <3>1, <3>2, PutDoes DEF Places
    <2> QED
        BY <2>1, <2>2
<1>3. Works1(q)
    BY <1>1, <1>2, MovesKeeps, WorksOne, Untouched DEF Places
<1>4. Carries(q)'
    BY <1>1, <1>2 DEF Carries, Moves, Same, SameFinds, At
<1>5. UndoStep(q)
    <2>1. req[q].solo /\ req[q].kept => dock[req[q].did].name = req[q].old /\ faults >= 1
        BY <1>1, Names DEF Undoable, At
    <2> QED
        BY <1>1, <1>2, <2>1 DEF UndoStep, Moves, Same
<1>6. DebtStep(q)
    BY <1>1, DebtsStand DEF Owes, At
<1>7. ~CalmInv
    BY <1>1 DEF CalmInv, InOrder, At
<1> QED
    BY <1>3, <1>4, <1>5, <1>6, <1>7, FrameHolds

LEMMA RestartHolds ==
    ASSUME IInv, NEW q \in Request, Restart(q)
    PROVE  IInv' /\ Works1(q)
<1>1. /\ WellFormed /\ Carries(q) /\ Undoable(q) /\ Working(q) /\ up /\ req \in [Request -> ReqType]
      /\ faults \in Nat
      /\ UNCHANGED <<rec, routes, lock, todo, up, trouble, begun>> /\ At(q, "put", "restart")
      /\ req[q].did \in DockerId /\ req[q].old \in Name /\ req[q].name \in Name
    BY Under DEF Restart, At, Carries, Places
<1> DEFINE d == req[q].did
<1>2. /\ Docked(d) /\ \A e \in DockerId : dock'[e].name = dock[e].name
      /\ faults' \in 0 .. MaxFaults /\ (faults' = faults \/ faults' = faults + 1)
      /\ Moves(q, "unlock")
      /\ faults' = faults => dock'[d].run \/ (dock[d] = Absent /\ dock' = dock)
    BY <1>1, StartDoes DEF Restart, Places
<1>3. Works1(q)
    BY <1>1, <1>2, MovesKeeps, WorksOne, Untouched DEF Places
<1>4. Carries(q)'
    BY <1>1, <1>2 DEF Carries, Moves, Same, SameFinds, At
<1>5. UndoStep(q)
    BY <1>1, <1>2, Names DEF UndoStep, Moves, Same, At, Undoable
<1>6. ASSUME faults' = faults PROVE DebtStep(q)
    BY <1>1, <1>2, <1>6 DEF DebtStep, Owes, At, Docked, Stopped
<1>7. ASSUME CalmInv PROVE CalmStep(q)
    <2>1. InOrder(q)'
        BY <1>1, <1>2 DEF InOrder, At, Moves, Same
    <2> QED
        BY <1>1, <1>2, <1>7, <2>1, CalmNames DEF Repairs, At
<1> QED
    BY <1>3, <1>4, <1>5, <1>6, <1>7, FrameHolds

-----------------------------------------------------------------------------
(* DELETE.                                                                 *)

LEMMA DeleteInspectHolds ==
    ASSUME IInv, NEW q \in Request, DeleteInspect(q)
    PROVE  IInv' /\ Works1(q)
<1>1. /\ WellFormed /\ Carries(q) /\ Working(q) /\ up /\ req \in [Request -> ReqType]
      /\ UNCHANGED <<dock, rec, routes, lock, todo, up, trouble, begun>> /\ At(q, "delete", "inspect")
      /\ req[q].did \in DockerId
    BY Under DEF DeleteInspect, At, Carries, Places
<1>2. faults' \in 0 .. MaxFaults /\ (faults' = faults \/ faults' = faults + 1)
    BY <1>1, FaultsCounted DEF DeleteInspect
<1>3. /\ Keeps(q, "stop") \/ Keeps(q, "forget")
      /\ req'[q].id = req[q].id
    <2>1. CASE Go(q, "forget")
        BY <1>1, <2>1, GoMoves, MovesKeeps DEF Places, Moves, Same
    <2>2. CASE /\ dock[req[q].did] # Absent
               /\ req' = [req EXCEPT ![q].pc = "stop", ![q].old = dock[req[q].did].name]
        <3>1. dock[req[q].did].name \in Name
            BY <1>1, <2>2, Fields
        <3>2. SetsOld(q, "stop", dock[req[q].did].name)
            BY <2>2 DEF SetsOld
        <3>3. /\ req' \in [Request -> ReqType] /\ Others(q) /\ req'[q].pc = "stop"
              /\ req'[q].id = req[q].id
              /\ req'[q].op = req[q].op /\ req'[q].did = req[q].did /\ req'[q].name = req[q].name
              /\ req'[q].solo = req[q].solo
            BY <1>1, <3>1, <3>2, LearnsOld DEF Places
        <3> QED
            BY <3>3 DEF Keeps
    <2> QED
        BY <2>1, <2>2 DEF DeleteInspect
<1>4. Works1(q)
    BY <1>1, <1>2, <1>3, WorksOne, Untouched DEF Places
<1>5. Carries(q)' /\ UndoStep(q)
    BY <1>1, <1>3 DEF Carries, UndoStep, Keeps, At
<1>6. DebtStep(q)
    BY <1>1, DebtsStand DEF Owes, At
<1>7. ASSUME CalmInv PROVE CalmStep(q)
    <2>1. InOrder(q)'
        BY <1>1, <1>3, <1>7 DEF CalmInv, InOrder, At, Keeps
    <2> QED
        BY <1>1, <1>7, <2>1, CalmNames DEF Repairs, At
<1> QED
    BY <1>4, <1>5, <1>6, <1>7, FrameHolds

LEMMA DeleteStopHolds ==
    ASSUME IInv, NEW q \in Request, DeleteStop(q)
    PROVE  IInv' /\ Works1(q)
<1>1. /\ WellFormed /\ Carries(q) /\ Working(q) /\ up /\ req \in [Request -> ReqType]
      /\ UNCHANGED <<rec, routes, lock, todo, up, trouble, begun>> /\ At(q, "delete", "stop")
      /\ req[q].did \in DockerId
    BY Under DEF DeleteStop, At, Carries, Places
<1> DEFINE d == req[q].did
<1>2. /\ Docked(d) /\ \A e \in DockerId : dock'[e].name = dock[e].name
      /\ faults' \in 0 .. MaxFaults /\ (faults' = faults \/ faults' = faults + 1)
      /\ \/ Moves(q, "remove") /\ faults' = faults
         \/ Moves(q, "unlock") /\ (faults' = faults => dock' = dock)
    BY <1>1, StopDoes DEF DeleteStop, Places
<1>3. Works1(q)
    BY <1>1, <1>2, MovesKeeps, WorksOne, Untouched DEF Places
<1>4. Carries(q)' /\ UndoStep(q)
    BY <1>1, <1>2 DEF Carries, UndoStep, Moves, Same, At
<1>5. ASSUME faults' = faults PROVE DebtStep(q)
    BY <1>1, <1>2, <1>5 DEF DebtStep, Owes, At, Docked, Stopped, Moves, Same
<1>6. ASSUME CalmInv PROVE CalmStep(q)
    <2>1. InOrder(q)'
        BY <1>1, <1>2, <1>6 DEF CalmInv, InOrder, At, Moves, Same
    <2> QED
        BY <1>1, <1>2, <1>6, <2>1, CalmNames DEF Repairs, At
<1> QED
    BY <1>3, <1>4, <1>5, <1>6, FrameHolds

LEMMA DeleteRemoveHolds ==
    ASSUME IInv, NEW q \in Request, DeleteRemove(q)
    PROVE  IInv' /\ Works1(q)
<1>1. /\ WellFormed /\ Carries(q) /\ Working(q) /\ up /\ req \in [Request -> ReqType]
      /\ UNCHANGED <<rec, routes, lock, todo, up, trouble, begun>> /\ At(q, "delete", "remove")
      /\ req[q].did \in DockerId
    BY Under DEF DeleteRemove, At, Carries, Places
<1> DEFINE d == req[q].did
<1>2. /\ Docked(d)
      /\ faults' \in 0 .. MaxFaults /\ (faults' = faults \/ faults' = faults + 1)
      /\ faults' = faults => dock'[d] = Absent
      /\ \/ Moves(q, "forget")
         \/ Moves(q, "unlock") /\ (faults' = faults => dock[d] = Absent)
    BY <1>1, RemoveDoes DEF DeleteRemove, Places
<1>3. Works1(q)
    BY <1>1, <1>2, MovesKeeps, WorksOne, Untouched DEF Places
<1>4. Carries(q)' /\ UndoStep(q)
    BY <1>1, <1>2 DEF Carries, UndoStep, Moves, Same, At
<1>5. ASSUME faults' = faults PROVE DebtStep(q)
    BY <1>1, <1>2, <1>5 DEF DebtStep, Owes, At, Docked, Stopped, Absent
<1>6. ASSUME CalmInv, faults' = faults PROVE CalmStep(q)
    <2>1. \A r \in RecordId : rec[r].did = d => r = req[q].id
        BY <1>1, <1>6 DEF CalmInv, InOrder, At
    <2>2. \A r \in RecordId : rec[r] # Absent => Matched(r)
        BY <1>1, <1>6, RecordsStand DEF Repairs, At
    <2>3. InOrder(q)'
        BY <1>1, <1>2, <2>1 DEF InOrder, At, Moves, Same
    <2>4. ASSUME NEW r \in RecordId, rec[r] # Absent, rec[r].did = d PROVE Repairs(q, r)'
        <3>1. rec[r].name # "none" /\ dock[d].name = rec[r].name
            BY <1>1, <2>2, <2>4, Fields, Names DEF Matched
        <3>2. dock[d] # Absent
            BY <3>1, Names
        <3> QED
            BY <1>1, <1>2, <1>6, <2>1, <2>4, <3>2 DEF Repairs, Moves, Same, At
    <2> QED
        BY <1>1, <1>2, <1>6, <2>3, <2>4, CalmRemoves DEF Repairs, At
<1> QED
    BY <1>3, <1>4, <1>5, <1>6, FrameHolds

LEMMA DeleteForgetHolds ==
    ASSUME IInv, NEW q \in Request, DeleteForget(q)
    PROVE  IInv' /\ Works1(q)
<1>1. /\ WellFormed /\ Carries(q) /\ Working(q) /\ up /\ req \in [Request -> ReqType]
      /\ UNCHANGED <<dock, routes, lock, todo, up, trouble, begun>> /\ At(q, "delete", "forget")
      /\ req[q].did \in DockerId
    BY Under DEF DeleteForget, At, Carries, Places
<1>2. /\ rec' \in Recs /\ faults' \in 0 .. MaxFaults /\ (faults' = faults \/ faults' = faults + 1)
      /\ Moves(q, "unroute") /\ \A r \in RecordId : rec'[r] = rec[r] \/ rec'[r] = Absent
      /\ faults' = faults /\ req[q].id # None => rec'[req[q].id] = Absent
    <2>1. Moves(q, "unroute")
        BY <1>1, GoMoves DEF DeleteForget, Places
    <2>2. faults' \in 0 .. MaxFaults /\ (faults' = faults \/ faults' = faults + 1)
        BY <1>1, FaultsCounted DEF DeleteForget
    <2>3. rec \in Recs /\ (req[q].id # None => req[q].id \in RecordId)
        BY <1>1, Fields
    <2>4. CASE UNCHANGED rec
        BY <1>1, <2>1, <2>2, <2>3, <2>4, FaultsCounted DEF DeleteForget, Recs
    <2>5. CASE req[q].id # None /\ rec' = [rec EXCEPT ![req[q].id] = Absent]
        BY <2>1, <2>2, <2>3, <2>5 DEF Recs
    <2> QED
        BY <2>4, <2>5 DEF DeleteForget
<1>3. Works1(q)
    BY <1>1, <1>2, MovesKeeps, WorksOne, Untouched DEF Places
<1>4. Carries(q)' /\ UndoStep(q)
    BY <1>1, <1>2 DEF Carries, UndoStep, Moves, Same, At
<1>5. DebtStep(q)
    BY <1>1, DebtsStand DEF Owes, At
<1>6. ASSUME CalmInv, faults' = faults PROVE CalmStep(q)
    <2>1. \A r \in RecordId : rec[r] # Absent => Matched(r) \/ r = req[q].id
        BY <1>1, <1>6, RecordsStand DEF Repairs, At
    <2>2. \A r \in RecordId : rec'[r] # Absent => rec'[r] = rec[r] /\ r # req[q].id
        BY <1>2, <1>6 DEF RecordId, None
    <2>3. \A r \in RecordId : rec'[r] # Absent => Matched(r)'
        BY <1>1, <2>1, <2>2 DEF Matched
    <2>4. \A r, s \in RecordId : rec'[r] # Absent /\ rec'[r].name = rec'[s].name => r = s
        BY <1>1, <1>2, <1>6, <2>2, Fields, Names DEF CalmInv, RecordsMatch
    <2>5. \A r \in RecordId : rec'[r].did # rec[r].did => rec'[r].did = None
        BY <1>2, Names
    <2>6. InOrder(q)'
        BY <1>1, <1>2, <1>6, <2>5, Names DEF CalmInv, InOrder, At, Moves, Same
    <2> QED
        BY <1>1, <2>2, <2>3, <2>4, <2>5, <2>6, Names DEF CalmStep
<1> QED
    BY <1>3, <1>4, <1>5, <1>6, FrameHolds

LEMMA DeleteUnrouteHolds ==
    ASSUME IInv, NEW q \in Request, DeleteUnroute(q)
    PROVE  IInv' /\ Works1(q)
<1>1. /\ WellFormed /\ Carries(q) /\ Working(q) /\ up /\ req \in [Request -> ReqType]
      /\ UNCHANGED <<dock, rec, lock, todo, up, trouble, begun>> /\ At(q, "delete", "unroute")
      /\ routes' \subseteq routes
    BY Under DEF DeleteUnroute, At, Places
<1>2. faults' \in 0 .. MaxFaults /\ (faults' = faults \/ faults' = faults + 1) /\ Moves(q, "unlock")
    BY <1>1, FaultsCounted, AnswerMoves DEF DeleteUnroute, Places
<1>3. Works1(q)
    BY <1>1, <1>2, MovesKeeps, WorksOne, Untouched DEF Places, WellFormed, TypeOK
<1>4. Carries(q)' /\ UndoStep(q)
    BY <1>1, <1>2 DEF Carries, UndoStep, Moves, Same, At
<1>5. DebtStep(q)
    BY <1>1, DebtsStand DEF Owes, At
<1>6. ASSUME CalmInv PROVE CalmStep(q)
    <2>1. InOrder(q)'
        BY <1>1, <1>2 DEF InOrder, At, Moves, Same
    <2> QED
        BY <1>1, <1>6, <2>1, CalmNames DEF Repairs, At
<1> QED
    BY <1>3, <1>4, <1>5, <1>6, FrameHolds

-----------------------------------------------------------------------------
(* POST /persist.                                                          *)

LEMMA PersistReadHolds ==
    ASSUME IInv, NEW q \in Request, PersistRead(q)
    PROVE  IInv' /\ Works1(q)
<1>1. /\ WellFormed /\ Carries(q) /\ Working(q) /\ up /\ req \in [Request -> ReqType]
      /\ UNCHANGED <<dock, rec, routes, lock, todo, up, trouble, begun>> /\ At(q, "persist", "inspect")
      /\ req[q].did \in DockerId
    BY Under DEF PersistRead, At, Carries, Places
<1>2. faults' \in 0 .. MaxFaults /\ (faults' = faults \/ faults' = faults + 1)
    BY <1>1, FaultsCounted DEF PersistRead
<1>3. \/ Moves(q, "unlock")
      \/ /\ Keeps(q, "stop") /\ req'[q].old = dock[req[q].did].name /\ dock[req[q].did].name \in Name
         /\ faults' = faults => NoRecordOf(dock[req[q].did].name)
    <2>1. CASE Answer(q, FALSE)
        BY <1>1, <2>1, AnswerMoves
    <2>2. CASE /\ dock[req[q].did] # Absent
               /\ (Works /\ \A r \in RecordId : rec[r].name # dock[req[q].did].name) \/ Fault
               /\ req' = [req EXCEPT ![q].pc = "stop", ![q].old = dock[req[q].did].name,
                                     ![q].name = dock[req[q].did].name]
        <3>1. dock[req[q].did].name \in Name
            BY <1>1, <2>2, Fields
        <3>2. SetsName(q, "stop", dock[req[q].did].name)
            BY <2>2 DEF SetsName
        <3>3. /\ req' \in [Request -> ReqType] /\ Others(q) /\ req'[q].pc = "stop"
              /\ req'[q].old = dock[req[q].did].name
              /\ req'[q].op = req[q].op /\ req'[q].did = req[q].did /\ req'[q].solo = req[q].solo
            BY <1>1, <3>1, <3>2, LearnsName DEF Places
        <3>4. faults' = faults => NoRecordOf(dock[req[q].did].name)
            BY <1>1, <2>2, FaultsCounted DEF NoRecordOf
        <3> QED
            BY <1>1, <3>1, <3>3, <3>4 DEF Keeps, At
    <2> QED
        BY <2>1, <2>2 DEF PersistRead
<1>4. Works1(q)
    BY <1>1, <1>2, <1>3, MovesKeeps, WorksOne, Untouched DEF Places
<1>5. Carries(q)' /\ UndoStep(q)
    BY <1>1, <1>3 DEF Carries, UndoStep, Moves, Same, Keeps, At
<1>6. DebtStep(q)
    BY <1>1, DebtsStand DEF Owes, At
<1>7. ASSUME CalmInv, faults' = faults PROVE CalmStep(q)
    <2>1. InOrder(q)'
        BY <1>1, <1>3, <1>7 DEF InOrder, NoRecordOf, At, Moves, Same, Keeps
    <2> QED
        BY <1>1, <1>7, <2>1, CalmNames DEF Repairs, At
<1> QED
    BY <1>4, <1>5, <1>6, <1>7, FrameHolds

LEMMA PersistStopHolds ==
    ASSUME IInv, NEW q \in Request, PersistStop(q)
    PROVE  IInv' /\ Works1(q)
<1>1. /\ WellFormed /\ Carries(q) /\ Working(q) /\ up /\ req \in [Request -> ReqType]
      /\ UNCHANGED <<rec, routes, lock, todo, up, trouble, begun>> /\ At(q, "persist", "stop")
      /\ req[q].did \in DockerId /\ req[q].old \in Name
    BY Under DEF PersistStop, At, Carries, Places
<1> DEFINE d == req[q].did
<1>2. /\ Docked(d) /\ \A e \in DockerId : dock'[e].name = dock[e].name
      /\ faults' \in 0 .. MaxFaults /\ (faults' = faults \/ faults' = faults + 1)
      /\ \/ Moves(q, "remove") /\ faults' = faults
         \/ Moves(q, "unlock") /\ (faults' = faults => dock' = dock)
    BY <1>1, StopDoes DEF PersistStop, Places
<1>3. Works1(q)
    BY <1>1, <1>2, MovesKeeps, WorksOne, Untouched DEF Places
<1>4. Carries(q)' /\ UndoStep(q)
    BY <1>1, <1>2 DEF Carries, UndoStep, Moves, Same, At
<1>5. ASSUME faults' = faults PROVE DebtStep(q)
    BY <1>1, <1>2, <1>5 DEF DebtStep, Owes, At, Docked, Stopped, Moves, Same
<1>6. ASSUME CalmInv PROVE CalmStep(q)
    <2>1. InOrder(q)'
        BY <1>1, <1>2, <1>6 DEF CalmInv, InOrder, NoRecordOf, At, Moves, Same
    <2> QED
        BY <1>1, <1>2, <1>6, <2>1, CalmNames DEF Repairs, At
<1> QED
    BY <1>3, <1>4, <1>5, <1>6, FrameHolds

LEMMA PersistRemoveHolds ==
    ASSUME IInv, NEW q \in Request, PersistRemove(q)
    PROVE  IInv' /\ Works1(q)
<1>1. /\ WellFormed /\ Carries(q) /\ Working(q) /\ up /\ req \in [Request -> ReqType]
      /\ UNCHANGED <<rec, routes, lock, todo, up, trouble, begun>> /\ At(q, "persist", "remove")
      /\ req[q].did \in DockerId /\ req[q].old \in Name
    BY Under DEF PersistRemove, At, Carries, Places
<1> DEFINE d == req[q].did
<1>2. /\ Docked(d)
      /\ faults' \in 0 .. MaxFaults /\ (faults' = faults \/ faults' = faults + 1)
      /\ faults' = faults => dock'[d] = Absent
      /\ Moves(q, "save") \/ Moves(q, "unlock")
    BY <1>1, RemoveDoes DEF PersistRemove, Places
<1>3. Works1(q)
    BY <1>1, <1>2, MovesKeeps, WorksOne, Untouched DEF Places
<1>4. Carries(q)' /\ UndoStep(q)
    BY <1>1, <1>2 DEF Carries, UndoStep, Moves, Same, At
<1>5. ASSUME faults' = faults PROVE DebtStep(q)
    BY <1>1, <1>2, <1>5 DEF DebtStep, Owes, At, Docked, Stopped, Absent
<1>6. ASSUME CalmInv, faults' = faults PROVE CalmStep(q)
    <2>1. dock[d].name = req[q].old /\ NoRecordOf(req[q].old)
        BY <1>1, <1>6 DEF CalmInv, InOrder, At
    <2>2. \A r \in RecordId : rec[r] # Absent => rec[r].did # d
        BY <1>1, <1>6, <2>1, RecordsStand DEF Repairs, At, Matched, NoRecordOf
    <2>3. \A e \in DockerId : dock'[e].name # req[q].old
        BY <1>1, <1>2, <1>6, <2>1, Fields, Names DEF Docked, WellFormed, OneOfAName
    <2>4. InOrder(q)'
        BY <1>1, <1>2, <2>1, <2>3 DEF InOrder, NoRecordOf, Named, At, Moves, Same
    <2> QED
        BY <1>1, <1>2, <1>6, <2>2, <2>4, CalmRemoves DEF Repairs, At
<1> QED
    BY <1>3, <1>4, <1>5, <1>6, FrameHolds

LEMMA PersistSaveHolds ==
    ASSUME IInv, NEW q \in Request, PersistSave(q)
    PROVE  IInv' /\ Works1(q)
<1>1. /\ WellFormed /\ Carries(q) /\ Working(q) /\ up /\ req \in [Request -> ReqType]
      /\ UNCHANGED <<dock, routes, lock, todo, up, trouble, begun>> /\ At(q, "persist", "save")
      /\ req[q].did \in DockerId /\ req[q].old \in Name
    BY Under DEF PersistSave, At, Carries, Places
<1> DEFINE c == [Absent EXCEPT !.name = req[q].old]
           r == Least(FreshRecord)
<1>2. c \in Record /\ c.name = req[q].old /\ c.did = None
    BY <1>1, Made
<1>3. r \in RecordId /\ rec[r] = Absent
    BY <1>1, FreshIsNew DEF PersistSave, FreshRecord
<1>4. \/ Fault /\ UNCHANGED rec /\ Go(q, "restore")
      \/ faults' = faults /\ rec' = [rec EXCEPT ![r] = c] /\ SetsNewId(q, "create", r)
    BY DEF PersistSave, Works, SetsNewId
<1> HIDE DEF c, r
<1>5. /\ faults' \in 0 .. MaxFaults /\ (faults' = faults \/ faults' = faults + 1)
      /\ rec' \in Recs /\ req'[q].old = req[q].old
      /\ \/ /\ faults' = faults /\ Keeps(q, "create") /\ req'[q].newId = r /\ rec'[r] = c
            /\ \A s \in RecordId \ {r} : rec'[s] = rec[s]
         \/ faults' = faults + 1 /\ Keeps(q, "restore")
    <2>1. CASE Fault /\ UNCHANGED rec /\ Go(q, "restore")
        BY <1>1, <2>1, GoMoves, MovesKeeps, FaultsCounted, Untouched DEF Places, Moves, Same
    <2>2. CASE faults' = faults /\ rec' = [rec EXCEPT ![r] = c] /\ SetsNewId(q, "create", r)
        <3>1. /\ req' \in [Request -> ReqType] /\ Others(q) /\ req'[q].pc = "create"
              /\ req'[q].op = req[q].op /\ req'[q].did = req[q].did /\ req'[q].name = req[q].name
              /\ req'[q].old = req[q].old /\ req'[q].newId = r /\ req'[q].solo = req[q].solo
            BY <1>1, <1>3, <2>2, LearnsNewId DEF Places
        <3>2. rec' \in Recs /\ rec'[r] = c /\ \A s \in RecordId \ {r} : rec'[s] = rec[s]
            BY <1>1, <1>2, <1>3, <2>2, Fields DEF Recs
        <3> QED
            BY <1>1, <2>2, <3>1, <3>2, FaultsCounted DEF Keeps, At, Works, WellFormed, TypeOK
    <2> QED
        BY <1>4, <2>1, <2>2
<1>6. Works1(q)
    BY <1>1, <1>5, WorksOne, Untouched DEF Places
<1>7. Carries(q)' /\ UndoStep(q)
    BY <1>1, <1>3, <1>5 DEF Carries, UndoStep, Keeps, At
<1>8. DebtStep(q)
    BY <1>1, DebtsStand DEF Owes, At
<1>9. ASSUME CalmInv, faults' = faults PROVE CalmStep(q)
    <2>1. Keeps(q, "create") /\ req'[q].newId = r /\ rec'[r] = c /\ \A s \in RecordId \ {r} : rec'[s] = rec[s]
        BY <1>1, <1>5, <1>9, FaultsCounted DEF WellFormed, TypeOK
    <2>2. NoRecordOf(req[q].old) /\ \A d \in DockerId : dock[d].name # req[q].old
        BY <1>1, <1>9 DEF CalmInv, InOrder, At, Named
    <2>3. \A s \in RecordId : rec[s] # Absent => Matched(s)
        BY <1>1, <1>9, RecordsStand DEF Repairs, At
    <2>4. \A s, t \in RecordId : rec'[s] # Absent /\ rec'[s].name = rec'[t].name => s = t
        BY <1>2, <1>9, <2>1, <2>2 DEF CalmInv, RecordsMatch, NoRecordOf
    <2>5. \A s \in RecordId : rec'[s] # Absent => Matched(s)' \/ Repairs(q, s)'
        BY <1>1, <2>1, <2>3 DEF Matched, Repairs, Keeps, At
    <2>6. \A s \in RecordId : rec'[s].did # rec[s].did => rec'[s].did # req[q].did
        BY <1>1, <1>2, <2>1, Names
    <2>7. \A s \in RecordId : rec'[s].name # rec[s].name => rec'[s].name = req[q].old
        BY <1>2, <2>1
    <2>8. InOrder(q)'
        BY <1>1, <1>2, <1>5, <2>1, <2>2 DEF InOrder, Keeps, At, Named
    <2> QED
        BY <1>1, <2>2, <2>4, <2>5, <2>6, <2>7, <2>8 DEF CalmStep
<1> QED
    BY <1>6, <1>7, <1>8, <1>9, FrameHolds

LEMMA PersistCreateHolds ==
    ASSUME IInv, NEW q \in Request, PersistCreate(q)
    PROVE  IInv' /\ Works1(q)
<1>1. /\ WellFormed /\ Carries(q) /\ Working(q) /\ up /\ req \in [Request -> ReqType]
      /\ UNCHANGED <<rec, routes, lock, todo, up, trouble, begun>> /\ At(q, "persist", "create")
      /\ req[q].did \in DockerId /\ req[q].old \in Name /\ req[q].newId \in RecordId
    BY Under DEF PersistCreate, At, Carries, Places
<1>2. /\ faults' \in 0 .. MaxFaults /\ (faults' = faults \/ faults' = faults + 1)
      /\ \/ /\ faults' = faults
            /\ \E d \in DockerId :
                 /\ Makes(req[q].old, d) /\ req' \in [Request -> ReqType] /\ Others(q) /\ Same(q)
                 /\ req'[q].pc = "saveDid" /\ req'[q].new = d /\ req'[q].newId = req[q].newId
         \/ Moves(q, "restore") /\ dock' = dock /\ (faults' = faults => Named(req[q].old) # {})
         \/ /\ Moves(q, "restore") /\ faults' = faults + 1
            /\ \E d \in DockerId : Makes(req[q].old, d)
    BY <1>1, CreateDoes DEF PersistCreate, Places
<1>3. Works1(q)
    <2>1. Keeps(q, "saveDid") \/ Keeps(q, "restore")
        BY <1>2 DEF Keeps, Moves, Same
    <2>2. dock' \in Docks /\ OneOfAName'
        BY <1>1, <1>2, Untouched DEF Makes
    <2> QED
        BY <1>1, <1>2, <2>1, <2>2, WorksOne, Untouched DEF Places
<1>4. \A d \in DockerId : Makes(req[q].old, d) => d # req[q].did
    BY <1>1 DEF Makes, FreshDocker
<1>5. Carries(q)' /\ UndoStep(q)
    BY <1>1, <1>2, <1>4 DEF Carries, UndoStep, Moves, Same, At
<1>6. ASSUME faults' = faults PROVE DebtStep(q)
    BY <1>1, <1>2, <1>6, FaultsCounted DEF DebtStep, Owes, At, Makes, Docked, Stopped, Same, Moves, WellFormed, TypeOK
<1>7. ASSUME CalmInv, faults' = faults PROVE CalmStep(q)
    <2>1. Named(req[q].old) = {} /\ rec[req[q].newId].name = req[q].old
        BY <1>1, <1>7 DEF CalmInv, InOrder, At
    <2>2. PICK d \in DockerId : Makes(req[q].old, d) /\ Same(q) /\ req'[q].pc = "saveDid" /\ req'[q].new = d
                                /\ req'[q].newId = req[q].newId
        BY <1>1, <1>2, <1>7, <2>1 DEF WellFormed, TypeOK
    <2>3. Unrecorded(d) /\ dock'[d].name = req[q].old
        BY <1>1, <2>2 DEF Makes, FreshDocker, Unrecorded, Created, Absent
    <2>4. InOrder(q)'
        BY <1>1, <2>1, <2>2, <2>3 DEF InOrder, Unrecorded, At, Same
    <2> QED
        BY <1>1, <1>7, <2>2, <2>4, CalmCreates DEF Repairs, At, Same
<1> QED
    BY <1>3, <1>5, <1>6, <1>7, FrameHolds

LEMMA PersistSaveDidHolds ==
    ASSUME IInv, NEW q \in Request, PersistSaveDid(q)
    PROVE  IInv' /\ Works1(q)
<1>1. /\ WellFormed /\ Carries(q) /\ Working(q) /\ up /\ req \in [Request -> ReqType]
      /\ UNCHANGED <<dock, routes, lock, todo, up, trouble, begun>> /\ At(q, "persist", "saveDid")
      /\ req[q].did \in DockerId /\ req[q].old \in Name /\ req[q].newId \in RecordId
      /\ req[q].new \in DockerId \ {req[q].did}
    BY Under DEF PersistSaveDid, At, Carries, Places
<1> DEFINE c == [Absent EXCEPT !.name = req[q].old, !.did = req[q].new]
           r == req[q].newId
<1>2. c \in Record /\ c.name = req[q].old /\ c.did = req[q].new
    BY <1>1, Made
<1>3. Put(q, r, c, "start", "undo")
    BY DEF PersistSaveDid
<1> HIDE DEF c
<1>4. /\ rec' \in Recs /\ \A s \in RecordId \ {r} : rec'[s] = rec[s]
      /\ faults' \in 0 .. MaxFaults /\ (faults' = faults \/ faults' = faults + 1)
      /\ \/ Moves(q, "start") /\ faults' = faults /\ rec'[r] = c
         \/ Moves(q, "undo") /\ faults' = faults + 1
    BY <1>1, <1>2, <1>3, PutDoes DEF Places
<1>5. Works1(q)
    BY <1>1, <1>4, MovesKeeps, WorksOne, Untouched DEF Places
<1>6. Carries(q)' /\ UndoStep(q)
    BY <1>1, <1>4 DEF Carries, UndoStep, Moves, Same, SameFinds, At
<1>7. ASSUME faults' = faults PROVE DebtStep(q)
    BY <1>1, <1>4, <1>7, DebtsStand DEF Owes, At, Moves, Same, SameFinds, WellFormed, TypeOK
<1>8. ASSUME CalmInv, faults' = faults PROVE CalmStep(q)
    <2>1. Moves(q, "start") /\ rec'[r] = c
        BY <1>1, <1>4, <1>8 DEF WellFormed, TypeOK
    <2>2. /\ rec[r].name = req[q].old /\ Unrecorded(req[q].new)
          /\ dock[req[q].new].name = req[q].old
        BY <1>1, <1>8 DEF CalmInv, InOrder, At
    <2>3. \A s \in RecordId : rec[s] # Absent => Matched(s) \/ s = r
        BY <1>1, <1>8, RecordsStand DEF Repairs, At
    <2>4. \A s \in RecordId : rec'[s].name = rec[s].name /\ (rec'[s] # Absent => rec[s] # Absent)
        BY <1>1, <1>2, <1>4, <2>1, <2>2, Names
    <2>5. \A s, t \in RecordId : rec'[s] # Absent /\ rec'[s].name = rec'[t].name => s = t
        BY <1>8, <2>4 DEF CalmInv, RecordsMatch
    <2>6. \A s \in RecordId : rec'[s] # Absent => Matched(s)'
        BY <1>1, <1>2, <1>4, <2>1, <2>2, <2>3, Names DEF Matched
    <2>7. \A s \in RecordId : rec'[s].did # rec[s].did => rec'[s].did # req[q].did
        BY <1>1, <1>2, <1>4, <2>1
    <2>8. InOrder(q)'
        BY <1>1, <2>1, <2>2 DEF InOrder, At, Moves, Same, SameFinds
    <2> QED
        BY <2>4, <2>5, <2>6, <2>7, <2>8 DEF CalmStep
<1> QED
    BY <1>5, <1>6, <1>7, <1>8, FrameHolds

LEMMA PersistStartHolds ==
    ASSUME IInv, NEW q \in Request, PersistStart(q)
    PROVE  IInv' /\ Works1(q)
<1>1. /\ WellFormed /\ Carries(q) /\ Working(q) /\ up /\ req \in [Request -> ReqType]
      /\ UNCHANGED <<rec, routes, lock, todo, up, trouble, begun>> /\ At(q, "persist", "start")
      /\ req[q].new \in DockerId \ {req[q].did} /\ req[q].old \in Name /\ req[q].did \in DockerId
    BY Under DEF PersistStart, At, Carries, Places
<1> DEFINE d == req[q].new
<1>2. /\ Docked(d) /\ \A e \in DockerId : dock'[e].name = dock[e].name
      /\ faults' \in 0 .. MaxFaults /\ (faults' = faults \/ faults' = faults + 1)
      /\ \/ Moves(q, "net") /\ faults' = faults /\ dock'[d].run
         \/ Moves(q, "undo") /\ (faults' = faults => dock[d] = Absent /\ dock' = dock)
    BY <1>1, StartDoes DEF PersistStart, Places
<1>3. Works1(q)
    BY <1>1, <1>2, MovesKeeps, WorksOne, Untouched DEF Places
<1>4. Carries(q)' /\ UndoStep(q)
    BY <1>1, <1>2 DEF Carries, UndoStep, Moves, Same, SameFinds, At
<1>5. ASSUME faults' = faults PROVE DebtStep(q)
    BY <1>1, <1>2, <1>5 DEF DebtStep, Owes, At, Docked, Stopped
<1>6. ASSUME CalmInv, faults' = faults PROVE CalmStep(q)
    <2>1. dock[d].name = req[q].old /\ dock[d] # Absent
        BY <1>1, <1>6, Fields DEF CalmInv, InOrder, At
    <2>2. Moves(q, "net")
        BY <1>2, <1>6, <2>1
    <2>3. InOrder(q)'
        BY <1>1, <1>2, <2>1, <2>2 DEF InOrder, At, Moves, Same, SameFinds
    <2> QED
        BY <1>1, <1>2, <1>6, <2>3, CalmNames DEF Repairs, At
<1> QED
    BY <1>3, <1>4, <1>5, <1>6, FrameHolds

LEMMA PersistNetHolds ==
    ASSUME IInv, NEW q \in Request, PersistNet(q)
    PROVE  IInv' /\ Works1(q)
<1>1. /\ WellFormed /\ Carries(q) /\ Working(q) /\ up /\ req \in [Request -> ReqType]
      /\ UNCHANGED <<dock, rec, routes, lock, todo, up, trouble, begun>> /\ At(q, "persist", "net")
      /\ req[q].new \in DockerId \ {req[q].did} /\ req[q].old \in Name /\ req[q].did \in DockerId
    BY Under DEF PersistNet, At, Carries, Places
<1>2. /\ faults' \in 0 .. MaxFaults /\ (faults' = faults \/ faults' = faults + 1)
      /\ \/ Moves(q, "unlock")
         \/ Moves(q, "undo") /\ (faults' = faults => dock[req[q].new] = Absent)
    <2>1. faults' \in 0 .. MaxFaults /\ (faults' = faults \/ faults' = faults + 1)
        BY <1>1, FaultsCounted DEF PersistNet
    <2>2. CASE Answer(q, TRUE)
        BY <1>1, <2>1, <2>2, AnswerMoves
    <2>3. CASE Go(q, "undo") /\ (Fault \/ dock[req[q].new] = Absent)
        BY <1>1, <2>1, <2>3, GoMoves, FaultsCounted DEF Places
    <2> QED
        BY <2>2, <2>3 DEF PersistNet
<1>3. Works1(q)
    BY <1>1, <1>2, MovesKeeps, WorksOne, Untouched DEF Places
<1>4. Carries(q)' /\ UndoStep(q)
    BY <1>1, <1>2 DEF Carries, UndoStep, Moves, Same, SameFinds, At
<1>5. DebtStep(q)
    BY <1>1, DebtsStand DEF Owes, At
<1>6. ASSUME CalmInv, faults' = faults PROVE CalmStep(q)
    <2>1. dock[req[q].new] # Absent
        BY <1>1, <1>6, Fields DEF CalmInv, InOrder, At
    <2>2. InOrder(q)'
        BY <1>1, <1>2, <1>6, <2>1 DEF InOrder, At, Moves, Same
    <2> QED
        BY <1>1, <1>6, <2>2, CalmNames DEF Repairs, At
<1> QED
    BY <1>3, <1>4, <1>5, <1>6, FrameHolds

LEMMA PersistUndoHolds ==
    ASSUME IInv, NEW q \in Request, PersistUndo(q)
    PROVE  IInv' /\ Works1(q)
<1>1. /\ WellFormed /\ Carries(q) /\ Working(q) /\ up /\ req \in [Request -> ReqType]
      /\ UNCHANGED <<rec, routes, lock, todo, up, trouble, begun>> /\ At(q, "persist", "undo")
      /\ req[q].new \in DockerId \ {req[q].did} /\ req[q].old \in Name /\ req[q].did \in DockerId
    BY Under DEF PersistUndo, At, Carries, Places
<1> DEFINE d == req[q].new
<1>2. /\ Docked(d) /\ (dock'[d] = dock[d] \/ dock'[d] = Absent)
      /\ faults' \in 0 .. MaxFaults /\ (faults' = faults \/ faults' = faults + 1)
      /\ Moves(q, "restore")
    BY <1>1, RemoveDoes DEF PersistUndo, Places
<1>3. Works1(q)
    BY <1>1, <1>2, MovesKeeps, WorksOne, Untouched DEF Places
<1>4. Carries(q)' /\ UndoStep(q)
    BY <1>1, <1>2 DEF Carries, UndoStep, Moves, Same, At
<1>5. DebtStep(q)
    BY <1>1, <1>2 DEF DebtStep, Owes, At, Docked, Stopped, Absent
<1>6. ~CalmInv
    BY <1>1 DEF CalmInv, InOrder, At
<1> QED
    BY <1>3, <1>4, <1>5, <1>6, FrameHolds

LEMMA PersistRestoreHolds ==
    ASSUME IInv, NEW q \in Request, PersistRestore(q)
    PROVE  IInv' /\ Works1(q)
<1>1. /\ WellFormed /\ Carries(q) /\ Working(q) /\ up /\ req \in [Request -> ReqType]
      /\ UNCHANGED <<rec, routes, lock, todo, up, trouble, begun>> /\ At(q, "persist", "restore")
      /\ req[q].did \in DockerId /\ req[q].old \in Name
    BY Under DEF PersistRestore, At, Carries, Places
<1>2. /\ faults' \in 0 .. MaxFaults /\ (faults' = faults \/ faults' = faults + 1)
      /\ \/ /\ faults' = faults
            /\ \E d \in DockerId :
                 /\ Makes(req[q].old, d) /\ req' \in [Request -> ReqType] /\ Others(q) /\ Same(q)
                 /\ req'[q].pc = "restart" /\ req'[q].new = d
         \/ Moves(q, "unlock") /\ dock' = dock
         \/ /\ Moves(q, "unlock") /\ faults' = faults + 1
            /\ \E d \in DockerId : Makes(req[q].old, d)
    BY <1>1, CreateDoes DEF PersistRestore, Places
<1>3. Works1(q)
    <2>1. Keeps(q, "restart") \/ Keeps(q, "unlock")
        BY <1>2 DEF Keeps, Moves, Same
    <2>2. dock' \in Docks /\ OneOfAName'
        BY <1>1, <1>2, Untouched DEF Makes
    <2> QED
        BY <1>1, <1>2, <2>1, <2>2, WorksOne, Untouched DEF Places
<1>4. \A d \in DockerId : Makes(req[q].old, d) => d # req[q].did
    BY <1>1 DEF Makes, FreshDocker
<1>5. Carries(q)' /\ UndoStep(q)
    BY <1>1, <1>2, <1>4 DEF Carries, UndoStep, Moves, Same, At
<1>6. ASSUME faults' = faults PROVE DebtStep(q)
    BY <1>1, <1>2, <1>6, FaultsCounted DEF DebtStep, Owes, At, Makes, Docked, Stopped, Same, Moves, WellFormed, TypeOK
<1>7. ~CalmInv
    BY <1>1 DEF CalmInv, InOrder, At
<1> QED
    BY <1>3, <1>5, <1>6, <1>7, FrameHolds

LEMMA PersistRestartHolds ==
    ASSUME IInv, NEW q \in Request, PersistRestart(q)
    PROVE  IInv' /\ Works1(q)
<1>1. /\ WellFormed /\ Carries(q) /\ Working(q) /\ up /\ req \in [Request -> ReqType]
      /\ UNCHANGED <<rec, routes, lock, todo, up, trouble, begun>> /\ At(q, "persist", "restart")
      /\ req[q].new \in DockerId \ {req[q].did} /\ req[q].old \in Name /\ req[q].did \in DockerId
    BY Under DEF PersistRestart, At, Carries, Places
<1> DEFINE d == req[q].new
<1>2. /\ Docked(d) /\ \A e \in DockerId : dock'[e].name = dock[e].name
      /\ faults' \in 0 .. MaxFaults /\ (faults' = faults \/ faults' = faults + 1)
      /\ Moves(q, "unlock")
      /\ faults' = faults => dock'[d].run \/ (dock[d] = Absent /\ dock' = dock)
    BY <1>1, StartDoes DEF PersistRestart, Places
<1>3. Works1(q)
    BY <1>1, <1>2, MovesKeeps, WorksOne, Untouched DEF Places
<1>4. Carries(q)' /\ UndoStep(q)
    BY <1>1, <1>2 DEF Carries, UndoStep, Moves, Same, At
<1>5. ASSUME faults' = faults PROVE DebtStep(q)
    BY <1>1, <1>2, <1>5 DEF DebtStep, Owes, At, Docked, Stopped
<1>6. ~CalmInv
    BY <1>1 DEF CalmInv, InOrder, At
<1> QED
    BY <1>3, <1>4, <1>5, <1>6, FrameHolds

-----------------------------------------------------------------------------
(* A handler begins, takes its lock, reads before it, and ends.            *)

\* A fault that is no crash ends the calm.
LEMMA FaultsEndCalm ==
    ASSUME WellFormed, Fault, trouble' = trouble
    PROVE  ~Calm' /\ faults' # 0 /\ faults \in Nat /\ faults' = faults + 1 /\ faults' \in 0 .. MaxFaults
BY LifecycleAssumption DEF WellFormed, TypeOK, Fault, Calm, CrashesCounted

\* What a request comes with.
Comes(r) ==
    /\ r \in ReqType /\ r.old = "none" /\ r.id = None /\ r.kept
    /\ \/ r.op = "post" /\ r.pc = "lock" /\ r.name \in Name
       \/ r.op = "put" /\ r.pc = "lock" /\ r.name \in Name /\ r.did \in DockerId
       \/ r.op = "persist" /\ r.pc = "inspect" /\ r.did \in DockerId
       \/ r.op = "delete" /\ r.pc = "lookup" /\ r.did \in DockerId

LEMMA IdleTyped ==
    /\ Idle \in ReqType /\ Idle.pc = "idle" /\ Idle.op = "none" /\ Idle.solo = FALSE
    /\ Idle.old = "none" /\ Idle.id = None /\ Idle.kept
BY DEF Idle, ReqType, Absent, None

LEMMA ArrivesComes ==
    ASSUME NEW q \in Request, Arrives(q)
    PROVE  \E r \in ReqType : Comes(r) /\ Begin(q, r)
<1>1. ASSUME NEW n \in Name, Post(q, n) PROVE \E r \in ReqType : Comes(r) /\ Begin(q, r)
    <2> DEFINE r == [Idle EXCEPT !.pc = "lock", !.op = "post", !.name = n]
    <2>1. r \in ReqType /\ Comes(r)
        BY DEF Comes, Idle, ReqType, Absent, None
    <2> HIDE DEF r
    <2> QED
        BY <1>1, <2>1 DEF Post, r
<1>2. ASSUME NEW d \in DockerId, NEW n \in Name, Update(q, d, n)
      PROVE  \E r \in ReqType : Comes(r) /\ Begin(q, r)
    <2> DEFINE r == [Idle EXCEPT !.pc = "lock", !.op = "put", !.did = d, !.name = n]
    <2>1. r \in ReqType /\ Comes(r)
        BY DEF Comes, Idle, ReqType, Absent, None
    <2> HIDE DEF r
    <2> QED
        BY <1>2, <2>1 DEF Update, r
<1>3. ASSUME NEW d \in DockerId, Persist(q, d) PROVE \E r \in ReqType : Comes(r) /\ Begin(q, r)
    <2> DEFINE r == [Idle EXCEPT !.pc = "inspect", !.op = "persist", !.did = d]
    <2>1. r \in ReqType /\ Comes(r)
        BY DEF Comes, Idle, ReqType, Absent, None
    <2> HIDE DEF r
    <2> QED
        BY <1>3, <2>1 DEF Persist, r
<1>4. ASSUME NEW d \in DockerId, Delete(q, d) PROVE \E r \in ReqType : Comes(r) /\ Begin(q, r)
    <2> DEFINE r == [Idle EXCEPT !.pc = "lookup", !.op = "delete", !.did = d]
    <2>1. r \in ReqType /\ Comes(r)
        BY DEF Comes, Idle, ReqType, Absent, None
    <2> HIDE DEF r
    <2> QED
        BY <1>4, <2>1 DEF Delete, r
<1> QED
    BY <1>1, <1>2, <1>3, <1>4 DEF Arrives

\* r and s are at the same call with the same findings.
Alike(r, s) ==
    /\ r.pc = s.pc /\ r.op = s.op /\ r.did = s.did /\ r.name = s.name /\ r.old = s.old
    /\ r.id = s.id /\ r.copy = s.copy /\ r.newId = s.newId /\ r.new = s.new
    /\ r.ok = s.ok /\ r.kept = s.kept

LEMMA SoloSet ==
    ASSUME NEW r \in ReqType, NEW b \in BOOLEAN
    PROVE  /\ [r EXCEPT !.solo = b] \in ReqType /\ Alike([r EXCEPT !.solo = b], r)
           /\ [r EXCEPT !.solo = b].solo = b
           /\ r.solo = b => [r EXCEPT !.solo = b] = r
BY DEF ReqType, Alike

LEMMA BeginHolds ==
    ASSUME IInv, NEW q \in Request, NEW r \in ReqType, Comes(r), Begin(q, r)
    PROVE  IInv' /\ Unmoved
<1> DEFINE alone == todo = {} /\ \A s \in Request \ {q} : req[s].pc = "idle"
<1>1. /\ WellFormed /\ up /\ req[q].pc = "idle" /\ req[q] = Idle /\ req \in [Request -> ReqType]
      /\ UNCHANGED <<dock, rec, routes, lock, todo, up, faults>>
    BY DEF IInv, WellFormed, TypeOK, Begin, Carries
<1>2. alone \in BOOLEAN
    OBVIOUS
<1>3. req' = [p \in Request |-> IF p = q THEN [r EXCEPT !.solo = alone]
                                ELSE [req[p] EXCEPT !.solo = FALSE]]
    BY Zenon DEF Begin
<1> HIDE DEF alone
<1>4. req'[q] = [r EXCEPT !.solo = alone]
    BY <1>3
<1>5. \A p \in Request \ {q} : req'[p] = [req[p] EXCEPT !.solo = FALSE]
    BY <1>3
<1>6. req'[q] \in ReqType /\ Alike(req'[q], r) /\ req'[q].solo = alone
    BY <1>2, <1>4, SoloSet
<1>7. \A p \in Request \ {q} : /\ req'[p] \in ReqType /\ Alike(req'[p], req[p]) /\ ~req'[p].solo
                               /\ req[p].pc = "idle" => req'[p] = Idle
    <2> SUFFICES ASSUME NEW p \in Request \ {q}
                 PROVE  /\ req'[p] \in ReqType /\ Alike(req'[p], req[p]) /\ ~req'[p].solo
                        /\ req[p].pc = "idle" => req'[p] = Idle
        OBVIOUS
    <2>1. req[p] \in ReqType /\ (req[p].pc = "idle" => req[p] = Idle)
        BY <1>1 DEF WellFormed, Carries
    <2>2. req'[p] = [req[p] EXCEPT !.solo = FALSE]
        BY <1>5
    <2>3. req[p].pc = "idle" => req[p].solo = FALSE
        BY <2>1, IdleTyped
    <2>4. /\ [req[p] EXCEPT !.solo = FALSE] \in ReqType /\ Alike([req[p] EXCEPT !.solo = FALSE], req[p])
          /\ [req[p] EXCEPT !.solo = FALSE].solo = FALSE
          /\ req[p].solo = FALSE => [req[p] EXCEPT !.solo = FALSE] = req[p]
        BY <2>1, SoloSet
    <2>5. req[p].pc = "idle" => req'[p] = req[p]
        BY <2>2, <2>3, <2>4, Zenon
    <2>6. req'[p] \in ReqType /\ Alike(req'[p], req[p]) /\ ~req'[p].solo
        BY <2>2, <2>4, Zenon
    <2> QED
        BY <2>1, <2>5, <2>6
<1>8. \A p \in Request : req'[p] \in ReqType
    BY <1>6, <1>7
<1>9. req' \in [Request -> ReqType]
    <2>1. req' = [p \in Request |-> req'[p]]
        BY <1>3
    <2> QED
        BY <1>8, <2>1
<1>10. begun' \in 0 .. MaxRequests /\ trouble' \subseteq {"raced", "crashed"}
       /\ ("crashed" \in trouble' => "crashed" \in trouble)
    BY <1>1, LifecycleAssumption DEF Begin, WellFormed, TypeOK
<1>11. TypeOK'
    BY <1>1, <1>9, <1>10 DEF WellFormed, TypeOK
<1>12. \A p \in Request \ {q} : InCallback(p)' = InCallback(p) /\ KeyOf(p)' = KeyOf(p)
    BY <1>7 DEF Alike, InCallback, KeyOf, Guard
<1>14. ~InCallback(q) /\ ~InCallback(q)'
    BY <1>1, <1>6 DEF InCallback, Alike, Comes
<1>15. OwnersInside'
    BY <1>1, <1>12, <1>14 DEF WellFormed, OwnersInside
<1>16. ASSUME NEW p \in Request PROVE Carries(p)'
    <2>1. CASE p = q
        BY <1>6, <2>1 DEF Carries, Comes, Alike
    <2>2. CASE p # q
        BY <1>1, <1>7, <2>2 DEF Carries, Alike, WellFormed
    <2> QED
        BY <2>1, <2>2
<1>17. WellFormed'
    <2>1. DownIsIdle' /\ OneOfAName' /\ CrashesCounted'
        BY <1>1, <1>10 DEF WellFormed, DownIsIdle, OneOfAName, CrashesCounted
    <2> QED
        BY <1>11, <1>15, <1>16, <2>1 DEF WellFormed
<1>18. \A d \in DockerId : Stopped(d)' = Stopped(d) /\ (Owed(d) => Owed(d)')
    <2>1. \A d \in DockerId : ~Owes(q, d)
        BY <1>1, IdleTyped DEF Owes
    <2>2. \A p \in Request \ {q}, d \in DockerId : Owes(p, d)' = Owes(p, d)
        BY <1>7 DEF Owes, Alike
    <2>3. \A d \in DockerId : Stopped(d)' = Stopped(d)
        BY <1>1 DEF Stopped
    <2> QED
        BY <2>1, <2>2, <2>3 DEF Owed
<1>19. DebtsKept'
    BY <1>1, <1>18 DEF IInv, DebtsKept
<1>20. ASSUME NEW p \in Request PROVE Undoable(p)'
    <2>1. CASE p = q
        <3>1. alone => Alone(q)'
            BY <1>1, <1>7, IdleTyped DEF alone, Alone
        <3> QED
            BY <1>6, <2>1, <3>1 DEF Undoable, Comes, Alike
    <2>2. CASE p # q
        BY <1>7, <2>2 DEF Undoable
    <2> QED
        BY <2>1, <2>2
<1>21. ASSUME Calm' PROVE CalmInv'
    <2>1. trouble' = trouble /\ todo = {} /\ \A p \in Request \ {q} : ~Apart(req[p], r)
        BY <1>21 DEF Calm, Begin
    <2>2. CalmInv
        BY <1>1, <1>21, <2>1 DEF IInv, Calm
    <2>3. \A p \in Request \ {q} : req'[p].pc # "idle" => /\ req'[p].op # "persist" /\ r.op # "persist"
                                                         /\ KeyOf(p)' = Guard(r)
        BY <1>7, <1>12, <2>1 DEF Apart, Alike, KeyOf
    <2>4. KeyOf(q)' = Guard(r) /\ req'[q].op = r.op
        BY <1>6 DEF KeyOf, Guard, Alike
    <2>5. KeptApart'
        <3>1. \A p, s \in Request : p # s /\ req'[p].pc # "idle" /\ req'[s].pc # "idle" =>
                  req'[p].op # "persist" /\ KeyOf(p)' = KeyOf(s)'
            BY <2>3, <2>4
        <3>2. \A p \in Request : InCallback(p)' => lock'[KeyOf(p)'] = p
            BY <1>1, <1>12, <1>14, <2>2 DEF CalmInv, KeptApart
        <3> QED
            BY <1>1, <2>1, <3>1, <3>2 DEF KeptApart
    <2>6. \A p \in Request, s \in RecordId : Repairs(p, s) => Repairs(p, s)'
        BY <1>1, <1>7, IdleTyped DEF Repairs, Alike
    <2>7. RecordsMatch'
        BY <1>1, <2>2, <2>6 DEF CalmInv, RecordsMatch, Matched, Listed
    <2>8. RecordsRun'
        BY <1>1, <1>18, <2>2 DEF CalmInv, RecordsRun, Listed
    <2>9. ASSUME NEW p \in Request PROVE InOrder(p)'
        <3>1. CASE p = q
            BY <1>6, <3>1 DEF InOrder, Comes, Alike
        <3>2. CASE p # q
            <4>1. InOrder(p)
                BY <2>2 DEF CalmInv
            <4> QED
                BY <1>1, <1>7, <3>2, <4>1 DEF InOrder, Alike, Unrecorded, NoRecordOf, Named
        <3> QED
            BY <3>1, <3>2
    <2> QED
        BY <2>5, <2>7, <2>8, <2>9 DEF CalmInv
<1>22. Unmoved
    BY <1>1, <1>12, <1>14 DEF Unmoved
<1> QED
    BY <1>17, <1>19, <1>20, <1>21, <1>22 DEF IInv

\* q, at its lock, waiting for it, or with nothing left to do, goes home.
LEMMA Leaves ==
    ASSUME IInv, NEW q \in Request, req[q].pc \in {"lock", "unlock"},
           req' = [req EXCEPT ![q] = Idle],
           UNCHANGED <<dock, rec, routes, todo, up, trouble, begun>>,
           lock' \in [LockKey -> Request \cup {"free", "orphan"}],
           \A k \in LockKey, p \in Request : lock'[k] = p <=> lock[k] = p /\ p # q,
           faults' \in 0 .. MaxFaults, faults' = faults \/ faults' = faults + 1
    PROVE  IInv'
<1>1. WellFormed /\ req \in [Request -> ReqType] /\ faults \in Nat
    BY DEF IInv, WellFormed, TypeOK
<1>2. /\ req' \in [Request -> ReqType] /\ req'[q] = Idle
      /\ \A p \in Request \ {q} : req'[p] = req[p]
    BY <1>1, IdleTyped
<1>3. TypeOK'
    BY <1>1, <1>2 DEF WellFormed, TypeOK
<1>4. \A p \in Request : Carries(p)'
    BY <1>1, <1>2, IdleTyped DEF WellFormed, Carries
<1>5. OwnersInside'
    BY <1>1, <1>2 DEF WellFormed, OwnersInside, InCallback, KeyOf, Guard
<1>6. DownIsIdle' /\ OneOfAName' /\ CrashesCounted'
    BY <1>1, <1>2, IdleTyped DEF WellFormed, DownIsIdle, OneOfAName, CrashesCounted, TypeOK
<1>7. WellFormed'
    BY <1>3, <1>4, <1>5, <1>6 DEF WellFormed
<1>8. \A d \in DockerId : Stopped(d)' = Stopped(d) /\ (Owed(d) => Owed(d)')
    BY <1>2 DEF Stopped, Owed, Owes
<1>9. DebtsKept'
    BY <1>1, <1>8 DEF IInv, DebtsKept
<1>10. ASSUME NEW p \in Request PROVE Undoable(p)'
    BY <1>2, IdleTyped DEF IInv, Undoable, Alone
<1>11. ASSUME Calm' PROVE CalmInv'
    <2>1. CalmInv
        BY <1>1, <1>11 DEF IInv, Calm, WellFormed, CrashesCounted
    <2>2. KeptApart'
        <3>1. \A p \in Request \ {q} : InCallback(p)' = InCallback(p) /\ KeyOf(p)' = KeyOf(p)
            BY <1>2 DEF InCallback, KeyOf, Guard
        <3>2. ~InCallback(q)' /\ req'[q].pc = "idle"
            BY <1>2, IdleTyped DEF InCallback
        <3>3. \A p \in Request : InCallback(p) => KeyOf(p) \in LockKey
            BY <1>1 DEF InCallback, KeyOf, Guard, WellFormed, Carries, LockKey
        <3>4. \A p \in Request : InCallback(p)' => lock'[KeyOf(p)'] = p
            BY <2>1, <3>1, <3>2, <3>3 DEF CalmInv, KeptApart
        <3>5. /\ \A p, s \in Request : p # s /\ req'[p].pc # "idle" /\ req'[s].pc # "idle" =>
                    req'[p].op # "persist" /\ KeyOf(p)' = KeyOf(s)'
              /\ todo' # {} => \A p \in Request : req'[p].pc = "idle"
            BY <1>2, <2>1, <3>1, <3>2 DEF CalmInv, KeptApart
        <3> QED
            BY <3>4, <3>5 DEF KeptApart
    <2>3. \A p \in Request, s \in RecordId : Repairs(p, s) => Repairs(p, s)'
        BY <1>2 DEF Repairs
    <2>4. RecordsMatch'
        BY <2>1, <2>3 DEF CalmInv, RecordsMatch, Matched, Listed
    <2>5. RecordsRun'
        BY <1>8, <2>1 DEF CalmInv, RecordsRun, Listed
    <2>6. ASSUME NEW p \in Request PROVE InOrder(p)'
        <3>1. CASE p = q
            BY <1>2, <3>1, IdleTyped DEF InOrder
        <3>2. CASE p # q
            <4>1. InOrder(p)
                BY <2>1 DEF CalmInv
            <4> QED
                BY <1>2, <3>2, <4>1 DEF InOrder, Unrecorded, NoRecordOf, Named
        <3> QED
            BY <3>1, <3>2
    <2> QED
        BY <2>2, <2>4, <2>5, <2>6 DEF CalmInv
<1> QED
    BY <1>7, <1>9, <1>10, <1>11 DEF IInv

LEMMA UnlockHolds ==
    ASSUME IInv, NEW q \in Request, Unlock(q)
    PROVE  IInv'
<1>1. WellFormed /\ lock \in [LockKey -> Request \cup {"free", "orphan"}]
    BY DEF IInv, WellFormed, TypeOK
<1>2. faults' \in 0 .. MaxFaults /\ (faults' = faults \/ faults' = faults + 1)
    BY <1>1, FaultsCounted DEF Unlock
<1>3. PICK left \in {"free", "orphan"} : lock' = [k \in LockKey |-> IF lock[k] = q THEN left ELSE lock[k]]
    BY DEF Unlock
<1>4. lock' \in [LockKey -> Request \cup {"free", "orphan"}]
    BY <1>1, <1>3
<1>5. \A k \in LockKey, p \in Request : lock'[k] = p <=> lock[k] = p /\ p # q
    BY <1>1, <1>3, LifecycleAssumption
<1> QED
    BY <1>2, <1>4, <1>5, Leaves DEF Unlock

\* The key a handler wants is one.
LEMMA KeyWanted ==
    ASSUME WellFormed, NEW q \in Request, req[q].pc \notin {"idle"}
    PROVE  /\ KeyOf(q) \in LockKey
           /\ req[q].pc \in {"lookup", "lock"} => req[q].op \in {"post", "put", "delete"} /\ ~InCallback(q)
BY Fields DEF WellFormed, Carries, KeyOf, Guard, LockKey, InCallback

LEMMA LockHolds ==
    ASSUME IInv, NEW q \in Request, Lock(q)
    PROVE  IInv'
<1> DEFINE key == KeyOf(q)
           pc == IF req[q].op = "post" THEN "check" ELSE "inspect"
<1>1. /\ WellFormed /\ Carries(q) /\ Undoable(q) /\ req \in [Request -> ReqType] /\ up /\ req[q].pc = "lock"
      /\ lock \in [LockKey -> Request \cup {"free", "orphan"}]
      /\ UNCHANGED <<dock, rec, routes, todo, up, trouble, begun>>
      /\ faults \in Nat /\ pc \in {"check", "inspect"}
    BY DEF IInv, WellFormed, TypeOK, Lock
<1>2. key \in LockKey /\ req[q].op \in {"post", "put", "delete"} /\ ~InCallback(q)
    BY <1>1, KeyWanted
<1>3. \A k \in LockKey : lock[k] # q
    BY <1>1, <1>2 DEF WellFormed, OwnersInside
<1>4. CASE /\ req' = [req EXCEPT ![q] = Idle]
           /\ faults' = faults \/ Fault
           /\ lock' \in {lock, IF lock[key] = "free" THEN [lock EXCEPT ![key] = "orphan"] ELSE lock}
    <2>1. faults' \in 0 .. MaxFaults /\ (faults' = faults \/ faults' = faults + 1)
        BY <1>1, <1>4, FaultsCounted DEF Works
    <2>2. lock' \in [LockKey -> Request \cup {"free", "orphan"}]
        BY <1>1, <1>2, <1>4
    <2>3. \A k \in LockKey, p \in Request : lock'[k] = p <=> lock[k] = p /\ p # q
        BY <1>1, <1>2, <1>3, <1>4, LifecycleAssumption
    <2> QED
        BY <1>1, <1>4, <2>1, <2>2, <2>3, Leaves
<1>5. CASE /\ lock[key] = "free" /\ faults' = faults
           /\ lock' = [lock EXCEPT ![key] = q] /\ Go(q, pc)
    <2> HIDE DEF pc
    <2>1. Moves(q, pc)
        BY <1>1, <1>5, GoMoves DEF Places
    <2>2. /\ req' \in [Request -> ReqType] /\ Others(q) /\ Same(q) /\ SameFinds(q) /\ req'[q].pc = pc
        BY <1>1, <2>1 DEF Moves
    <2>3. TypeOK'
        BY <1>1, <1>2, <1>5, <2>2 DEF WellFormed, TypeOK
    <2>4. Carries(q)' /\ \A p \in Request \ {q} : Carries(p)'
        <3>1. req[q].op = "post" => pc = "check"
            BY DEF pc
        <3>2. req[q].op # "post" => pc = "inspect"
            BY DEF pc
        <3> QED
            BY <1>1, <1>2, <2>2, <3>1, <3>2 DEF WellFormed, Carries, Same, SameFinds, Others
    <2>5. /\ KeyOf(q)' = key /\ InCallback(q)'
          /\ \A p \in Request \ {q} : KeyOf(p)' = KeyOf(p) /\ InCallback(p)' = InCallback(p)
        BY <1>1, <1>2, <2>2 DEF KeyOf, Guard, InCallback, Same, Others
    <2>6. OwnersInside'
        BY <1>1, <1>2, <1>3, <1>5, <2>5 DEF WellFormed, OwnersInside
    <2>7. WellFormed'
        <3>1. DownIsIdle' /\ OneOfAName' /\ CrashesCounted'
            BY <1>1, <1>5 DEF WellFormed, DownIsIdle, OneOfAName, CrashesCounted
        <3> QED
            BY <2>3, <2>4, <2>6, <3>1 DEF WellFormed
    <2>8. \A d \in DockerId, p \in Request : Owes(p, d) => Owes(p, d)'
        BY <1>1, <2>2 DEF Owes, Others
    <2>9. DebtsKept'
        BY <1>1, <1>5, <2>8 DEF IInv, DebtsKept, Stopped, Owed
    <2>10. ASSUME NEW p \in Request PROVE Undoable(p)'
        <3>1. Undoable(p)
            BY DEF IInv
        <3>2. CASE p = q
            BY <1>1, <1>5, <2>2, <3>1, <3>2 DEF Undoable, Alone, Same, Others
        <3>3. CASE p # q
            BY <1>1, <2>2, <3>1, <3>3 DEF Undoable, Alone, Others
        <3> QED
            BY <3>2, <3>3
    <2>11. ASSUME Calm' PROVE CalmInv'
        <3>1. CalmInv
            BY <1>1, <1>5, <2>11 DEF IInv, Calm
        <3>2. \A p \in Request \ {q} : ~InCallback(p)
            BY <1>1, <1>5, <3>1, LifecycleAssumption DEF CalmInv, KeptApart, InCallback
        <3>3. KeptApart'
            <4>1. \A p, s \in Request : p # s /\ req'[p].pc # "idle" /\ req'[s].pc # "idle" =>
                      req'[p].op # "persist" /\ KeyOf(p)' = KeyOf(s)'
                BY <1>1, <2>2, <2>5, <3>1 DEF CalmInv, KeptApart, Same, Others
            <4>2. todo' = {}
                BY <1>1, <3>1 DEF CalmInv, KeptApart
            <4>3. lock'[key] = q
                BY <1>1, <1>2, <1>5
            <4>4. \A p \in Request : InCallback(p)' => lock'[KeyOf(p)'] = p
                BY <2>5, <3>2, <4>3
            <4> QED
                BY <4>1, <4>2, <4>4 DEF KeptApart
        <3>4. \A p \in Request, s \in RecordId : Repairs(p, s) => Repairs(p, s)'
            BY <1>1, <2>2 DEF Repairs, Others
        <3>5. RecordsMatch'
            BY <1>1, <3>1, <3>4 DEF CalmInv, RecordsMatch, Matched, Listed
        <3>6. RecordsRun'
            BY <1>1, <2>8, <3>1 DEF CalmInv, RecordsRun, Listed, Stopped, Owed
        <3>7. ASSUME NEW p \in Request PROVE InOrder(p)'
            <4>1. InOrder(p)
                BY <3>1 DEF CalmInv
            <4>2. CASE p = q
                BY <1>1, <1>2, <2>2, <4>1, <4>2 DEF InOrder, Same
            <4>3. CASE p # q
                BY <1>1, <2>2, <4>1, <4>3 DEF InOrder, Unrecorded, NoRecordOf, Named, Others
            <4> QED
                BY <4>2, <4>3
        <3> QED
            BY <3>3, <3>5, <3>6, <3>7 DEF CalmInv
    <2> QED
        BY <2>7, <2>9, <2>10, <2>11 DEF IInv
<1> QED
    BY <1>4, <1>5 DEF Lock, Works

\* While nobody fails, the record DELETE finds is the only one of its container.
LEMMA OneRecord ==
    ASSUME WellFormed, CalmInv, up, NEW q \in Request, req[q].op = "delete", req[q].pc = "lookup",
           NEW r \in RecordId, NEW s \in RecordId, rec[r].did = req[q].did, rec[s].did = req[q].did
    PROVE  r = s
<1>1. req[q].did \in DockerId /\ rec[r] # Absent /\ rec[s] # Absent /\ todo = {}
    BY Names DEF WellFormed, Carries, CalmInv, KeptApart
<1>2. ASSUME NEW p \in Request, NEW t \in RecordId, Repairs(p, t) PROVE r = s
    <2>1. p # q /\ req[p].pc # "idle" /\ req[q].pc # "idle"
        BY <1>2 DEF Repairs
    <2>2. req[p].op # "persist" /\ KeyOf(p) = KeyOf(q)
        BY <2>1 DEF CalmInv, KeptApart
    <2>3. req[p].op = "delete" /\ req[p].pc = "forget" /\ req[p].did = req[q].did
        BY <1>2, <2>2 DEF Repairs, KeyOf, Guard
    <2> QED
        BY <2>3 DEF CalmInv, InOrder
<1>3. CASE Matched(r) /\ Matched(s)
    BY <1>1, <1>3 DEF Matched, CalmInv, RecordsMatch
<1> QED
    BY <1>1, <1>2, <1>3 DEF CalmInv, RecordsMatch, Listed

LEMMA DeleteFindHolds ==
    ASSUME IInv, NEW q \in Request, DeleteFind(q)
    PROVE  IInv' /\ Unmoved
<1>1. /\ WellFormed /\ Carries(q) /\ Undoable(q) /\ req \in [Request -> ReqType] /\ At(q, "delete", "lookup") /\ up
      /\ UNCHANGED <<dock, rec, routes, lock, todo, up, trouble, begun>> /\ faults \in Nat
      /\ req[q].did \in DockerId
    BY DEF IInv, WellFormed, TypeOK, DeleteFind, At, Carries
<1>2. faults' \in 0 .. MaxFaults /\ (faults' = faults \/ faults' = faults + 1)
    BY <1>1, FaultsCounted DEF DeleteFind
<1>3. /\ Keeps(q, "lock")
      /\ faults' = faults => \/ \A r \in RecordId : rec[r].did # req[q].did
                             \/ req'[q].id \in RecordId /\ rec[req'[q].id].did = req[q].did
    <2>1. CASE ((Works /\ \A r \in RecordId : rec[r].did # req[q].did) \/ Fault) /\ Go(q, "lock")
        BY <1>1, <2>1, GoMoves, MovesKeeps, FaultsCounted DEF Places
    <2>2. ASSUME NEW r \in RecordId, rec[r].did = req[q].did,
                 req' = [req EXCEPT ![q].pc = "lock", ![q].id = r]
          PROVE  Keeps(q, "lock") /\ req'[q].id = r
        <3>1. SetsId(q, "lock", r)
            BY <2>2 DEF SetsId
        <3>2. /\ req' \in [Request -> ReqType] /\ Others(q) /\ req'[q].pc = "lock" /\ req'[q].id = r
              /\ req'[q].op = req[q].op /\ req'[q].did = req[q].did /\ req'[q].name = req[q].name
              /\ req'[q].solo = req[q].solo
            BY <1>1, <3>1, LearnsId DEF Places
        <3> QED
            BY <3>2 DEF Keeps
    <2> QED
        BY <2>1, <2>2 DEF DeleteFind
<1>4. /\ req' \in [Request -> ReqType] /\ req'[q].pc = "lock" /\ req'[q].op = "delete"
      /\ req'[q].did = req[q].did /\ req'[q].name = req[q].name
      /\ \A p \in Request \ {q} : req'[p] = req[p]
    BY <1>1, <1>3 DEF Keeps, Others, At
<1>5. TypeOK'
    BY <1>1, <1>2, <1>4 DEF WellFormed, TypeOK
<1>6. \A p \in Request : Carries(p)'
    BY <1>1, <1>4 DEF WellFormed, Carries
<1>7. /\ KeyOf(q)' = KeyOf(q) /\ ~InCallback(q)' /\ ~InCallback(q)
      /\ \A p \in Request \ {q} : KeyOf(p)' = KeyOf(p) /\ InCallback(p)' = InCallback(p)
    BY <1>1, <1>4 DEF KeyOf, Guard, InCallback, At
<1>8. OwnersInside'
    BY <1>1, <1>7 DEF WellFormed, OwnersInside
<1>9. WellFormed'
    BY <1>1, <1>2, <1>5, <1>6, <1>8 DEF WellFormed, DownIsIdle, OneOfAName, CrashesCounted, TypeOK
<1>10. \A d \in DockerId, p \in Request : Owes(p, d) => Owes(p, d)'
    BY <1>1, <1>4 DEF Owes, At
<1>11. DebtsKept'
    BY <1>1, <1>2, <1>10 DEF IInv, DebtsKept, Stopped, Owed
<1>12. ASSUME NEW p \in Request PROVE Undoable(p)'
    <2>1. Undoable(p)
        BY DEF IInv
    <2>2. CASE p = q
        BY <1>1, <1>3, <1>4, <2>1, <2>2 DEF Undoable, Alone, Keeps, At
    <2>3. CASE p # q
        BY <1>1, <1>4, <2>1, <2>3 DEF Undoable, Alone, At
    <2> QED
        BY <2>2, <2>3
<1>13. ASSUME Calm' PROVE CalmInv'
    <2>1. CalmInv /\ faults' = faults
        BY <1>1, <1>2, <1>13 DEF IInv, Calm, WellFormed, CrashesCounted
    <2>2. KeptApart'
        BY <1>1, <1>4, <1>7, <2>1 DEF CalmInv, KeptApart, At
    <2>3. \A p \in Request, s \in RecordId : Repairs(p, s) => Repairs(p, s)'
        BY <1>1, <1>4 DEF Repairs, At
    <2>4. RecordsMatch'
        BY <1>1, <2>1, <2>3 DEF CalmInv, RecordsMatch, Matched, Listed
    <2>5. RecordsRun'
        BY <1>1, <1>10, <2>1 DEF CalmInv, RecordsRun, Listed, Stopped, Owed
    <2>6. ASSUME NEW p \in Request PROVE InOrder(p)'
        <3>1. InOrder(p)
            BY <2>1 DEF CalmInv
        <3>2. CASE p = q
            <4>1. \A s \in RecordId : rec[s].did = req[q].did => s = req'[q].id
                BY <1>1, <1>3, <2>1, OneRecord DEF At
            <4> QED
                BY <1>1, <1>4, <3>2, <4>1 DEF InOrder
        <3>3. CASE p # q
            BY <1>1, <1>4, <3>1, <3>3 DEF InOrder, Unrecorded, NoRecordOf, Named
        <3> QED
            BY <3>2, <3>3
    <2> QED
        BY <2>2, <2>4, <2>5, <2>6 DEF CalmInv
<1>14. Unmoved
    BY <1>1, <1>7 DEF Unmoved
<1> QED
    BY <1>9, <1>11, <1>12, <1>13, <1>14 DEF IInv

-----------------------------------------------------------------------------
(* Leases end, the process dies and boots.                                 *)

\* Only the locks change, and no callback gets one it had not.
LEMMA LocksChange ==
    ASSUME IInv, UNCHANGED <<dock, rec, routes, req, todo, up, trouble, begun>>,
           lock' \in [LockKey -> Request \cup {"free", "orphan"}],
           \A k \in LockKey, p \in Request : lock'[k] = p => lock[k] = p,
           \/ faults' = faults /\ \A k \in LockKey, p \in Request : lock[k] = p => lock'[k] = p
           \/ Fault
    PROVE  IInv'
<1>1. WellFormed /\ faults' \in 0 .. MaxFaults
    BY FaultsCounted DEF IInv, WellFormed, TypeOK, Works
<1>2. \A p \in Request : Carries(p)' = Carries(p) /\ InCallback(p)' = InCallback(p) /\ KeyOf(p)' = KeyOf(p)
    BY DEF Carries, InCallback, KeyOf, Guard
<1>3. WellFormed'
    <2>1. TypeOK'
        BY <1>1 DEF WellFormed, TypeOK
    <2>2. OwnersInside'
        BY <1>1, <1>2 DEF WellFormed, OwnersInside
    <2>3. DownIsIdle' /\ OneOfAName' /\ CrashesCounted'
        BY <1>1, FaultsEndCalm DEF WellFormed, DownIsIdle, OneOfAName, CrashesCounted
    <2> QED
        BY <1>1, <1>2, <2>1, <2>2, <2>3 DEF WellFormed
<1>4. DebtsKept'
    BY <1>1, FaultsEndCalm DEF IInv, DebtsKept, Stopped, Owed, Owes
<1>5. ASSUME NEW p \in Request PROVE Undoable(p)'
    <2>1. faults' >= faults /\ faults \in Nat
        BY <1>1, FaultsEndCalm DEF WellFormed, TypeOK
    <2>2. Undoable(p)
        BY DEF IInv
    <2>3. faults' \in Nat
        BY <1>1
    <2> QED
        BY <2>1, <2>2, <2>3 DEF Undoable, Alone
<1>6. ASSUME Calm' PROVE CalmInv'
    <2>1. faults' = faults /\ \A k \in LockKey, p \in Request : lock[k] = p => lock'[k] = p
        BY <1>1, <1>6, FaultsEndCalm
    <2>2. CalmInv
        BY <1>6, <2>1 DEF IInv, Calm
    <2>3. \A p \in Request : InCallback(p) => KeyOf(p) \in LockKey
        BY <1>1, KeyWanted DEF InCallback
    <2>4. KeptApart'
        BY <1>2, <2>1, <2>2, <2>3 DEF CalmInv, KeptApart
    <2>5. RecordsMatch' /\ RecordsRun'
        BY <2>2 DEF CalmInv, RecordsMatch, RecordsRun, Matched, Listed, Repairs, Stopped, Owed, Owes
    <2>6. \A p \in Request : InOrder(p)'
        BY <2>2 DEF CalmInv, InOrder, Unrecorded, NoRecordOf, Named
    <2> QED
        BY <2>4, <2>5, <2>6 DEF CalmInv
<1> QED
    BY <1>3, <1>4, <1>5, <1>6 DEF IInv

LEMMA LapseHolds ==
    ASSUME IInv, NEW k \in LockKey, Lapse(k)
    PROVE  IInv'
<1>1. lock \in [LockKey -> Request \cup {"free", "orphan"}]
    BY DEF IInv, WellFormed, TypeOK
<1>2. /\ lock' \in [LockKey -> Request \cup {"free", "orphan"}]
      /\ \A j \in LockKey, p \in Request : lock'[j] = p => lock[j] = p
    BY <1>1, LifecycleAssumption DEF Lapse
<1> QED
    BY <1>2, LocksChange DEF Lapse

LEMMA ExpireHolds ==
    ASSUME IInv, NEW k \in LockKey, Expire(k)
    PROVE  IInv'
<1>1. lock \in [LockKey -> Request \cup {"free", "orphan"}]
    BY DEF IInv, WellFormed, TypeOK
<1>2. /\ lock' \in [LockKey -> Request \cup {"free", "orphan"}]
      /\ \A j \in LockKey, p \in Request : lock'[j] = p <=> lock[j] = p
    BY <1>1, LifecycleAssumption DEF Expire
<1> QED
    BY <1>2, LocksChange DEF Expire

LEMMA CrashHolds ==
    ASSUME IInv, Crash
    PROVE  IInv'
<1>1. /\ WellFormed /\ faults' = faults + 1 /\ faults \in Nat /\ faults' \in 0 .. MaxFaults
      /\ UNCHANGED <<dock, rec, routes, begun>> /\ up' = FALSE /\ todo' = {}
      /\ trouble' = trouble \cup {"crashed"}
    BY FaultsCounted DEF IInv, Crash, WellFormed, TypeOK
<1>2. req' \in [Request -> ReqType] /\ \A q \in Request : req'[q] = Idle
    BY IdleTyped DEF Crash
<1>3. /\ lock' \in [LockKey -> Request \cup {"free", "orphan"}]
      /\ \A k \in LockKey : lock'[k] \notin Request
    BY <1>1, LifecycleAssumption DEF WellFormed, TypeOK, Crash
<1>4. WellFormed'
    <2>1. TypeOK'
        BY <1>1, <1>2, <1>3 DEF WellFormed, TypeOK
    <2>2. \A q \in Request : Carries(q)'
        BY <1>2, IdleTyped DEF Carries
    <2>3. DownIsIdle' /\ OneOfAName' /\ CrashesCounted' /\ OwnersInside'
        BY <1>1, <1>2, <1>3, IdleTyped DEF WellFormed, DownIsIdle, OneOfAName, CrashesCounted, OwnersInside
    <2> QED
        BY <2>1, <2>2, <2>3 DEF WellFormed
<1>5. DebtsKept' /\ \A q \in Request : Undoable(q)'
    BY <1>1, <1>2, IdleTyped DEF DebtsKept, Undoable
<1>6. ASSUME Calm' PROVE CalmInv'
    <2>1. CalmInv
        BY <1>1, <1>6 DEF IInv, Calm, WellFormed, CrashesCounted, TypeOK
    <2>2. KeptApart'
        BY <1>1, <1>2, IdleTyped DEF KeptApart, InCallback
    <2>3. RecordsMatch' /\ RecordsRun'
        BY <1>1, <2>1 DEF CalmInv, RecordsMatch, RecordsRun
    <2>4. \A q \in Request : InOrder(q)'
        BY <1>2, IdleTyped DEF InOrder
    <2> QED
        BY <2>2, <2>3, <2>4 DEF CalmInv
<1> QED
    BY <1>4, <1>5, <1>6 DEF IInv

\* A fault of the boot: nothing but its list changes.
LEMMA BootFails ==
    ASSUME IInv, Fault, up', todo' \subseteq todo, UNCHANGED <<dock, rec, routes, lock, req, trouble, begun>>
    PROVE  IInv'
<1>1. /\ WellFormed /\ ~Calm' /\ faults' # 0 /\ faults \in Nat /\ faults' = faults + 1
      /\ faults' \in 0 .. MaxFaults
    BY FaultsEndCalm DEF IInv
<1>2. WellFormed'
    <2>1. TypeOK'
        BY <1>1 DEF WellFormed, TypeOK
    <2>2. OwnersInside' /\ DownIsIdle' /\ OneOfAName' /\ CrashesCounted'
        BY <1>1 DEF WellFormed, DownIsIdle, OneOfAName, CrashesCounted, OwnersInside, InCallback, KeyOf, Guard
    <2> QED
        BY <1>1, <2>1, <2>2 DEF WellFormed, Carries
<1>3. DebtsKept' /\ \A q \in Request : Undoable(q)'
    BY <1>1 DEF IInv, DebtsKept, Undoable, Alone
<1> QED
    BY <1>1, <1>2, <1>3 DEF IInv

LEMMA BootHolds ==
    ASSUME IInv, Boot
    PROVE  IInv'
<1>1. /\ WellFormed /\ todo = {} /\ up' /\ UNCHANGED <<dock, rec, routes, lock, req, trouble, begun>>
      /\ \A q \in Request : req[q].pc = "idle" /\ req'[q] = Idle
    BY DEF IInv, WellFormed, DownIsIdle, Carries, Boot
<1>2. CASE Fault /\ todo' = {}
    BY <1>1, <1>2, BootFails
<1>3. CASE /\ Works
           /\ todo' = {[id |-> r, name |-> rec[r].name] : r \in {s \in RecordId : rec[s] # Absent}}
    <2>1. TypeOK'
        <3>1. todo' \subseteq [id : RecordId, name : Name]
            BY <1>1, <1>3, Fields
        <3> QED
            BY <1>1, <1>3, <3>1 DEF WellFormed, TypeOK, Works
    <2>2. OwnersInside' /\ DownIsIdle' /\ OneOfAName' /\ CrashesCounted'
        BY <1>1, <1>3 DEF WellFormed, DownIsIdle, OneOfAName, CrashesCounted, OwnersInside, InCallback, KeyOf, Guard, Works
    <2>3. WellFormed'
        BY <1>1, <2>1, <2>2 DEF WellFormed, Carries
    <2>4. DebtsKept' /\ \A q \in Request : Undoable(q)'
        BY <1>1, <1>3, IdleTyped DEF IInv, DebtsKept, Stopped, Owed, Owes, Undoable, Works
    <2>5. ASSUME Calm' PROVE CalmInv'
        <3>1. CalmInv
            BY <1>1, <1>3, <2>5 DEF IInv, Calm, Works
        <3>2. KeptApart'
            BY <1>1, IdleTyped DEF KeptApart, InCallback
        <3>3. \A r \in RecordId : rec[r] # Absent => Listed(r)'
            BY <1>1, <1>3 DEF Listed
        <3>4. \A t \in todo' : rec[t.id].name = t.name
            BY <1>3
        <3>5. RecordsMatch' /\ RecordsRun'
            BY <1>1, <3>1, <3>3, <3>4 DEF CalmInv, RecordsMatch, RecordsRun
        <3>6. \A q \in Request : InOrder(q)'
            BY <1>1, IdleTyped DEF InOrder
        <3> QED
            BY <3>2, <3>5, <3>6 DEF CalmInv
    <2> QED
        BY <2>3, <2>4, <2>5 DEF IInv
<1> QED
    BY <1>2, <1>3 DEF Boot

\* The boot makes the container d of the record t run.
Ensures(t, d) ==
    /\ dock' = [dock EXCEPT ![d] = [Created(t.name) EXCEPT !.run = TRUE]]
    /\ rec' = IF rec[t.id] = Absent THEN rec ELSE [rec EXCEPT ![t.id].did = d]

LEMMA EnsureDoes ==
    ASSUME WellFormed, NEW t \in todo, NEW d \in DockerId, Ensures(t, d),
           d \in Named(t.name) \/ (Named(t.name) = {} /\ d \in FreshDocker)
    PROVE  /\ Docked(d) /\ dock'[d].name = t.name /\ dock'[d].run /\ t.id \in RecordId /\ t.name \in Name
           /\ rec' \in Recs /\ \A s \in RecordId \ {t.id} : rec'[s] = rec[s]
           /\ rec'[t.id].name = rec[t.id].name
           /\ rec[t.id] # Absent => rec'[t.id].did = d
           /\ rec[t.id] = Absent => rec'[t.id] = Absent
<1>1. t.id \in RecordId /\ t.name \in Name /\ dock \in Docks /\ rec \in Recs
    BY DEF WellFormed, TypeOK, Docks, Recs
<1> DEFINE c == [Created(t.name) EXCEPT !.run = TRUE]
<1>2. c \in Container /\ c.name = t.name /\ c.run
    BY <1>1, Made
<1>3. dock' = [dock EXCEPT ![d] = c]
    BY DEF Ensures
<1> HIDE DEF c
<1>4. Docked(d) /\ dock'[d] = c
    <2>1. c.name = dock[d].name \/ Named(c.name) = {}
        BY <1>2 DEF Named
    <2>2. dock'[d] = c
        BY <1>1, <1>3 DEF Docks
    <2> QED
        BY <1>2, <1>3, <2>1, <2>2, DockSet
<1>5. CASE rec[t.id] = Absent
    BY <1>1, <1>2, <1>4, <1>5 DEF Ensures
<1>6. CASE rec[t.id] # Absent
    <2> DEFINE e == [rec[t.id] EXCEPT !.did = d]
    <2>1. e \in Record /\ e.name = rec[t.id].name /\ e.did = d
        <3>1. rec[t.id] \in Record
            BY <1>1, <1>6 DEF Recs
        <3> QED
            BY <3>1, Made
    <2>2. rec' = [rec EXCEPT ![t.id] = e]
        BY <1>6 DEF Ensures
    <2> HIDE DEF e
    <2> QED
        BY <1>1, <1>2, <1>4, <1>6, <2>1, <2>2 DEF Recs
<1> QED
    BY <1>5, <1>6

LEMMA BootEnsureHolds ==
    ASSUME IInv, NEW t \in todo, BootEnsure(t)
    PROVE  IInv'
<1>1. /\ WellFormed /\ up /\ up' /\ todo' = todo \ {t} /\ UNCHANGED <<lock, req, trouble, begun>>
      /\ t.id \in RecordId /\ t.name \in Name
    BY DEF IInv, WellFormed, TypeOK, BootEnsure
<1>2. CASE Fault /\ UNCHANGED <<dock, rec, routes>>
    BY <1>1, <1>2, BootFails
<1>3. CASE /\ faults' = faults /\ routes' \in {routes, routes \cup {t.name}}
           /\ \E d \in IF Named(t.name) # {} THEN Named(t.name)
                       ELSE {f \in FreshDocker : f = Least(FreshDocker)} : Ensures(t, d)
    <2>1. PICK d \in DockerId : /\ Ensures(t, d)
                                /\ d \in Named(t.name) \/ (Named(t.name) = {} /\ d \in FreshDocker)
        BY <1>3 DEF Named, FreshDocker
    <2>2. /\ Docked(d) /\ dock'[d].name = t.name /\ dock'[d].run
          /\ rec' \in Recs /\ \A s \in RecordId \ {t.id} : rec'[s] = rec[s]
          /\ rec'[t.id].name = rec[t.id].name
          /\ rec[t.id] # Absent => rec'[t.id].did = d
          /\ rec[t.id] = Absent => rec'[t.id] = Absent
        BY <1>1, <2>1, EnsureDoes
    <2>3. WellFormed'
        <3>1. TypeOK'
            BY <1>1, <1>3, <2>2 DEF WellFormed, TypeOK, Docked, Docks, Recs
        <3>2. OwnersInside' /\ DownIsIdle' /\ OneOfAName' /\ CrashesCounted'
            BY <1>1, <1>3, <2>2 DEF WellFormed, DownIsIdle, CrashesCounted, OwnersInside, InCallback, KeyOf, Guard, Docked
        <3> QED
            BY <1>1, <3>1, <3>2 DEF WellFormed, Carries
    <2>4. \A e \in DockerId : Stopped(e)' => Stopped(e) /\ e # d /\ dock'[e] = dock[e]
        BY <2>2 DEF Stopped, Docked
    <2>5. DebtsKept'
        BY <1>1, <1>3, <2>4 DEF IInv, DebtsKept, Owed, Owes
    <2>6. \A q \in Request : Undoable(q)'
        BY <1>1 DEF IInv, Undoable, Alone
    <2>7. ASSUME Calm' PROVE CalmInv'
        <3>1. CalmInv
            BY <1>1, <1>3, <2>7 DEF IInv, Calm
        <3>2. \A q \in Request : req[q].pc = "idle" /\ req[q] = Idle
            BY <1>1, <3>1 DEF CalmInv, KeptApart, WellFormed, Carries
        <3>3. KeptApart' /\ \A q \in Request : InOrder(q)'
            BY <1>1, <3>2, IdleTyped DEF KeptApart, InCallback, InOrder
        <3>4. \A r \in RecordId : rec'[r].name = rec[r].name /\ (rec'[r] # Absent => rec[r] # Absent)
            BY <2>2
        <3>5. rec[t.id].name = t.name /\ rec[t.id] # Absent
            BY <1>1, <3>1, Names DEF CalmInv, RecordsMatch
        <3>6. \A r \in RecordId \ {t.id} : Listed(r) => Listed(r)'
            BY <1>1, <2>2 DEF Listed
        <3>7. \A q \in Request : (\A r \in RecordId : ~Repairs(q, r)) /\ \A e \in DockerId : ~Owes(q, e)
            BY <3>2, IdleTyped DEF Repairs, Owes
        <3>8. ASSUME NEW r \in RecordId, rec'[r] # Absent PROVE Matched(r)' \/ Listed(r)'
            <4>1. CASE r = t.id
                BY <2>2, <3>5, <4>1, Names DEF Matched
            <4>2. CASE r # t.id
                <5>1. SUFFICES ASSUME Matched(r) PROVE Matched(r)'
                    BY <1>1, <3>1, <3>4, <3>6, <3>7, <3>8, <4>2 DEF CalmInv, RecordsMatch
                <5>2. rec[r] # Absent /\ rec[r].name # t.name /\ rec[r].did \in DockerId
                    BY <1>1, <3>1, <3>4, <3>5, <3>8, <4>2, <5>1, Fields DEF CalmInv, RecordsMatch, Matched
                <5>3. rec[r].did # d
                    BY <1>1, <2>1, <5>1, <5>2 DEF Named, FreshDocker, Matched
                <5> QED
                    BY <2>2, <4>2, <5>1, <5>2, <5>3 DEF Matched, Docked
            <4> QED
                BY <4>1, <4>2
        <3>9. RecordsMatch'
            <4>1. \A r, s \in RecordId : rec'[r] # Absent /\ rec'[r].name = rec'[s].name => r = s
                BY <3>1, <3>4 DEF CalmInv, RecordsMatch
            <4>2. \A u \in todo' : rec'[u.id].name = u.name
                <5>1. \A u \in todo : u.id \in RecordId /\ rec[u.id].name = u.name
                    BY <1>1, <3>1 DEF CalmInv, RecordsMatch, WellFormed, TypeOK
                <5> QED
                    BY <1>1, <3>4, <5>1
            <4> QED
                BY <3>8, <4>1, <4>2 DEF RecordsMatch
        <3>10. RecordsRun'
            <4> SUFFICES ASSUME NEW r \in RecordId, rec'[r] # Absent, ~Listed(r)',
                                NEW e \in DockerId, dock'[e].name = rec'[r].name, Stopped(e)'
                         PROVE  FALSE
                BY DEF RecordsRun
            <4>1. Stopped(e) /\ e # d /\ dock'[e] = dock[e]
                BY <2>4
            <4>2. r # t.id
                BY <1>1, <2>2, <3>4, <3>5, <4>1, Fields, Names, <2>3 DEF Docked, OneOfAName, WellFormed, Stopped
            <4>3. ~Listed(r) /\ rec[r] # Absent /\ dock[e].name = rec[r].name
                BY <3>4, <3>6, <4>1, <4>2
            <4> QED
                BY <1>1, <3>1, <3>7, <4>1, <4>3 DEF CalmInv, RecordsRun, Owed
        <3> QED
            BY <3>3, <3>9, <3>10 DEF CalmInv
    <2> QED
        BY <2>3, <2>5, <2>6, <2>7 DEF IInv
<1> QED
    BY <1>2, <1>3, Zenon DEF BootEnsure, Ensures, Works

-----------------------------------------------------------------------------
(* The invariant, and what it says of a backend at rest.                   *)

LEMMA InitHolds == Init => IInv
<1> SUFFICES ASSUME Init PROVE IInv
    OBVIOUS
<1>1. PICK n \in Name, mine \in BOOLEAN :
         /\ dock = [d \in DockerId |-> IF d = 1 THEN [Absent EXCEPT !.name = n, !.run = TRUE] ELSE Absent]
         /\ rec = [r \in RecordId |-> IF r = 1 /\ mine THEN [Absent EXCEPT !.name = n, !.did = 1] ELSE Absent]
         /\ routes \in SUBSET (IF mine THEN {n} ELSE {})
    BY DEF Init
<1>2. /\ lock = [k \in LockKey |-> "free"] /\ req = [q \in Request |-> Idle]
      /\ todo = {} /\ up = TRUE /\ trouble = {} /\ begun = 0 /\ faults = 0
    BY DEF Init
<1>3. 1 \in DockerId
    BY LifecycleAssumption DEF DockerId
<1>4. \A d \in DockerId : dock[d] = IF d = 1 THEN [Created(n) EXCEPT !.run = TRUE] ELSE Absent
    <2>1. [Created(n) EXCEPT !.run = TRUE] = [Absent EXCEPT !.name = n, !.run = TRUE]
        BY DEF Created, Absent
    <2> QED
        BY <1>1, <2>1
<1>5. \A d \in DockerId : /\ dock[d] \in Container \cup {Absent} /\ (dock[d] # Absent => d = 1)
                          /\ ~Stopped(d)
    BY <1>4, Made DEF Stopped
<1>6. dock[1].name = n
    BY <1>3, <1>4, Made
<1>7. \A r \in RecordId : /\ rec[r] \in Record \cup {Absent}
                          /\ rec[r] # Absent => r = 1 /\ rec[r].name = n /\ rec[r].did = 1
    BY <1>1, <1>3, Made
<1>8. \A q \in Request : req[q] = Idle
    BY <1>2
<1>9. TypeOK
    <2>1. dock \in [DockerId -> Container \cup {Absent}]
        BY <1>1, <1>5, Zenon
    <2>2. rec \in [RecordId -> Record \cup {Absent}]
        BY <1>1, <1>7, Zenon
    <2>3. req \in [Request -> ReqType] /\ lock \in [LockKey -> Request \cup {"free", "orphan"}]
        BY <1>2, IdleTyped
    <2> QED
        BY <1>1, <1>2, <2>1, <2>2, <2>3, LifecycleAssumption DEF TypeOK
<1>10. WellFormed
    <2>1. \A q \in Request : Carries(q)
        BY <1>8, IdleTyped DEF Carries
    <2>2. OwnersInside
        BY <1>2, LifecycleAssumption DEF OwnersInside
    <2>3. OneOfAName
        BY <1>5, Names DEF OneOfAName
    <2> QED
        BY <1>2, <1>9, <2>1, <2>2, <2>3 DEF WellFormed, DownIsIdle, CrashesCounted
<1>11. DebtsKept /\ \A q \in Request : Undoable(q)
    BY <1>5, <1>8, IdleTyped DEF DebtsKept, Undoable
<1>12. CalmInv
    <2>1. KeptApart /\ \A q \in Request : InOrder(q)
        BY <1>2, <1>8, IdleTyped DEF KeptApart, InCallback, InOrder
    <2>2. RecordsMatch
        BY <1>2, <1>3, <1>6, <1>7, Names DEF RecordsMatch, Matched
    <2>3. RecordsRun
        BY <1>5 DEF RecordsRun
    <2> QED
        BY <2>1, <2>2, <2>3 DEF CalmInv
<1> QED
    BY <1>10, <1>11, <1>12 DEF IInv

LEMMA StutterHolds ==
    ASSUME IInv, UNCHANGED vars
    PROVE  IInv'
<1>1. /\ dock' = dock /\ rec' = rec /\ routes' = routes /\ lock' = lock /\ req' = req
      /\ todo' = todo /\ up' = up /\ trouble' = trouble /\ begun' = begun /\ faults' = faults
    BY DEF vars
<1>2. lock' \in [LockKey -> Request \cup {"free", "orphan"}]
    BY <1>1 DEF IInv, WellFormed, TypeOK
<1> QED
    BY <1>1, <1>2, LocksChange

\* A handler step other than the two of withContainerLock.
Handles(q) == PostStep(q) \/ PutStep(q) \/ PersistStep(q) \/ DeleteStep(q)

LEMMA HandlesHolds ==
    ASSUME IInv, NEW q \in Request, Handles(q)
    PROVE  IInv' /\ Unmoved
<1>1. CASE PostStep(q)
    BY <1>1, PostCheckHolds, PostCreateHolds, PostUndoHolds, WorksUnmoved DEF PostStep
<1>2. CASE PutStep(q)
    BY <1>2, PutInspectHolds, PutFindHolds, PutStopHolds, PutCreateHolds, PutDropHolds, PutSaveHolds,
       PutSwapHolds, PutUnrouteHolds, PutStartHolds, PutNetHolds, RbRemoveHolds, RbStartHolds,
       RbSaveHolds, RestartHolds, WorksUnmoved DEF PutStep
<1>3. CASE PersistStep(q)
    BY <1>3, PersistReadHolds, PersistStopHolds, PersistRemoveHolds, PersistSaveHolds,
       PersistCreateHolds, PersistSaveDidHolds, PersistStartHolds, PersistNetHolds,
       PersistUndoHolds, PersistRestoreHolds, PersistRestartHolds, WorksUnmoved DEF PersistStep
<1>4. CASE DeleteStep(q)
    BY <1>4, DeleteFindHolds, DeleteInspectHolds, DeleteStopHolds, DeleteRemoveHolds,
       DeleteForgetHolds, DeleteUnrouteHolds, WorksUnmoved DEF DeleteStep
<1> QED
    BY <1>1, <1>2, <1>3, <1>4 DEF Handles

LEMMA ArrivesHolds ==
    ASSUME IInv, NEW q \in Request, Arrives(q)
    PROVE  IInv' /\ Unmoved
BY ArrivesComes, BeginHolds

LEMMA NextHolds == IInv /\ [Next]_vars => IInv'
<1> SUFFICES ASSUME IInv, [Next]_vars PROVE IInv'
    OBVIOUS
<1>1. ASSUME NEW q \in Request, Step(q) PROVE IInv'
    BY <1>1, HandlesHolds, LockHolds, UnlockHolds DEF Step, Handles
<1> QED
    BY <1>1, ArrivesHolds, LapseHolds, ExpireHolds, CrashHolds, BootHolds, BootEnsureHolds, StutterHolds
    DEF Next

LEMMA IInvHolds == Safety => []IInv
BY InitHolds, NextHolds, PTL DEF Safety

\* Containers, records, locks and handlers keep their form, through every
\* rollback, crash and boot.
THEOREM TypeCorrect == Safety => []TypeOK
<1>1. IInv => TypeOK
    BY DEF IInv, WellFormed
<1> QED
    BY <1>1, IInvHolds, PTL

LEMMA RestIsCalm ==
    ASSUME IInv, "raced" \notin trouble, faults = Cardinality(trouble)
    PROVE  Calm
<1>1. trouble = {} \/ trouble = {"crashed"}
    BY DEF IInv, WellFormed, TypeOK
<1>2. Cardinality({}) = 0 /\ Cardinality({"crashed"}) = 1
    BY FS_EmptySet, FS_Singleton
<1> QED
    BY <1>1, <1>2 DEF Calm

\* At rest nothing is owed, repaired or listed.
LEMMA RestIsDone ==
    ASSUME IInv, Quiet
    PROVE  /\ \A d \in DockerId : ~Owed(d)
           /\ \A r \in RecordId : ~Listed(r) /\ \A q \in Request : ~Repairs(q, r)
<1>1. \A q \in Request : req[q] = Idle
    BY DEF Quiet, IInv, WellFormed, Carries
<1> QED
    BY <1>1, IdleTyped DEF Quiet, Owed, Owes, Listed, Repairs

\* Requests for one container and a crash anywhere leave records that name
\* containers that exist and bear their names, and no two records share one.
THEOREM RecordsAgreeAtRest == Safety => []ConsistentAtRest
<1>1. IInv => ConsistentAtRest
    <2> SUFFICES ASSUME IInv, Quiet, "raced" \notin trouble, faults = Cardinality(trouble),
                        NEW r \in RecordId, rec[r] # Absent
                 PROVE  /\ rec[r].did # None /\ dock[rec[r].did].name = rec[r].name
                        /\ \A s \in RecordId \ {r} : rec[s].name # rec[r].name
        BY DEF ConsistentAtRest
    <2>1. RecordsMatch /\ up
        BY RestIsCalm DEF IInv, CalmInv, Quiet
    <2> QED
        BY <2>1, RestIsDone DEF RecordsMatch, Matched
<1> QED
    BY <1>1, IInvHolds, PTL

\* While nothing fails, no handler leaves a container stopped, whatever it meets.
THEOREM NothingStaysStopped == Safety => []RunningAtRest
<1>1. IInv => RunningAtRest
    BY RestIsDone DEF IInv, DebtsKept, RunningAtRest, Stopped
<1> QED
    BY <1>1, IInvHolds, PTL

\* An update that one error stops before the old container was removed leaves
\* that container and the name in its record.
THEOREM FailedUpdateIsUndone == Safety => []UpdateUndone
<1>1. IInv => UpdateUndone
    <2> SUFFICES ASSUME IInv, NEW q \in Request, req[q].op = "put", req[q].pc = "unlock",
                        req[q].solo, ~req[q].ok, req[q].kept, req[q].old # "none", faults <= 1
                 PROVE  /\ dock[req[q].did].name = req[q].old
                        /\ req[q].id # None => rec[req[q].id].name = req[q].old
        BY DEF UpdateUndone
    <2>1. Undoable(q) /\ faults \in Nat
        BY DEF IInv, WellFormed, TypeOK
    <2> QED
        BY <2>1 DEF Undoable
<1> QED
    BY <1>1, IInvHolds, PTL

\* After a crash of the backend at any point, its boot leaves every container
\* that has a record running.
THEOREM BootStartsRecorded == Safety => []BootRestores
<1>1. IInv => BootRestores
    <2> SUFFICES ASSUME IInv, Quiet, trouble = {"crashed"}, faults = 1,
                        NEW r \in RecordId, rec[r] # Absent
                 PROVE  \E d \in Named(rec[r].name) : dock[d].run
        BY DEF BootRestores
    <2>1. CalmInv /\ up /\ WellFormed
        BY DEF IInv, Calm, Quiet
    <2>2. Matched(r)
        BY <2>1, RestIsDone DEF CalmInv, RecordsMatch
    <2>3. rec[r].did \in DockerId /\ dock[rec[r].did] # Absent
        BY <2>1, <2>2, Fields DEF Matched
    <2>4. ~Stopped(rec[r].did)
        BY <2>1, <2>2, <2>3, RestIsDone DEF CalmInv, RecordsRun, Matched
    <2> QED
        BY <2>2, <2>3, <2>4 DEF Named, Matched, Stopped
<1> QED
    BY <1>1, IInvHolds, PTL

-----------------------------------------------------------------------------
(* withContainerLock implements the lock.                                  *)

InsideOf == [q \in Request |-> IF InCallback(q) THEN KeyOf(q) ELSE None]

LEMMA UnmovedStutters ==
    ASSUME Unmoved
    PROVE  lock' = lock /\ InsideOf' = InsideOf
BY DEF Unmoved, InsideOf

\* Only q enters or leaves a callback.
LEMMA OthersInside ==
    ASSUME NEW q \in Request, \A p \in Request \ {q} : req'[p] = req[p]
    PROVE  \A p \in Request \ {q} : InsideOf'[p] = InsideOf[p]
BY DEF InsideOf, InCallback, KeyOf, Guard

LEMMA LockTakes ==
    ASSUME IInv, NEW q \in Request, Lock(q)
    PROVE  \/ Abstract!Take(q, KeyOf(q)) /\ KeyOf(q) \in LockKey
           \/ Abstract!TakeUnaware(KeyOf(q)) /\ KeyOf(q) \in LockKey
           \/ Unmoved
<1>1. WellFormed /\ req \in [Request -> ReqType] /\ req[q].pc = "lock"
    BY DEF IInv, WellFormed, TypeOK, Lock
<1>2. KeyOf(q) \in LockKey /\ req[q].op \in {"post", "put", "delete"} /\ ~InCallback(q)
    BY <1>1, KeyWanted
<1>3. CASE /\ req' = [req EXCEPT ![q] = Idle]
           /\ lock' \in {lock, IF lock[KeyOf(q)] = "free" THEN [lock EXCEPT ![KeyOf(q)] = "orphan"]
                             ELSE lock}
    <2>1. req'[q] = Idle /\ \A p \in Request \ {q} : req'[p] = req[p]
        BY <1>1, <1>3
    <2>2. ~InCallback(q)'
        BY <2>1, IdleTyped DEF InCallback
    <2>3. \A p \in Request \ {q} : /\ InCallback(p)' <=> InCallback(p)
                                   /\ KeyOf(p)' = KeyOf(p)
        BY <2>1 DEF InCallback, KeyOf, Guard
    <2>4. lock' = lock => Unmoved
        BY <1>2, <2>2, <2>3 DEF Unmoved
    <2>5. InsideOf' = InsideOf
        BY <1>2, <2>2, <2>3 DEF InsideOf
    <2>6. CASE lock[KeyOf(q)] = "free" /\ lock' = [lock EXCEPT ![KeyOf(q)] = "orphan"]
        BY <1>2, <2>5, <2>6 DEF Abstract!TakeUnaware, InsideOf
    <2>7. CASE lock' = lock
        BY <2>4, <2>7
    <2> QED
        BY <1>2, <1>3, <2>6, <2>7
<1>4. CASE /\ lock[KeyOf(q)] = "free" /\ lock' = [lock EXCEPT ![KeyOf(q)] = q]
           /\ Go(q, IF req[q].op = "post" THEN "check" ELSE "inspect")
    <2> DEFINE pc == IF req[q].op = "post" THEN "check" ELSE "inspect"
    <2>1. pc \in Places \ {"idle", "lookup", "lock", "unlock"}
        BY DEF Places
    <2> HIDE DEF pc
    <2>2. Moves(q, pc)
        BY <1>1, <1>4, <2>1, GoMoves DEF pc
    <2>3. /\ InCallback(q)' /\ KeyOf(q)' = KeyOf(q)
          /\ \A p \in Request \ {q} : req'[p] = req[p]
        BY <1>2, <2>1, <2>2 DEF InCallback, Moves, Same, Others, KeyOf, Guard
    <2>4. InsideOf[q] = None /\ InsideOf'[q] = KeyOf(q)
        BY <1>2, <2>3 DEF InsideOf
    <2>5. InsideOf' = [InsideOf EXCEPT ![q] = KeyOf(q)]
        BY <2>3, <2>4, OthersInside DEF InsideOf
    <2> QED
        BY <1>2, <1>4, <2>4, <2>5 DEF Abstract!Take, InsideOf
<1> QED
    BY <1>3, <1>4 DEF Lock

LEMMA UnlockLeaves ==
    ASSUME IInv, NEW q \in Request, Unlock(q)
    PROVE  Abstract!Leave(q) \/ Unmoved
<1>1. /\ WellFormed /\ req \in [Request -> ReqType] /\ req[q].pc = "unlock"
      /\ lock \in [LockKey -> Request \cup {"free", "orphan"}]
    BY DEF IInv, WellFormed, TypeOK, Unlock
<1>2. PICK left \in {"free", "orphan"} : lock' = [k \in LockKey |-> IF lock[k] = q THEN left ELSE lock[k]]
    BY DEF Unlock
<1>3. req'[q] = Idle /\ \A p \in Request \ {q} : req'[p] = req[p]
    BY <1>1 DEF Unlock
<1>4. ~InCallback(q)'
    BY <1>3, IdleTyped DEF InCallback
<1>5. CASE InCallback(q)
    <2>1. KeyOf(q) # None
        BY <1>1, Names, KeyWanted DEF LockKey
    <2>2. InsideOf[q] # None /\ InsideOf'[q] = None
        BY <1>4, <1>5, <2>1 DEF InsideOf
    <2>3. InsideOf' = [InsideOf EXCEPT ![q] = None]
        BY <1>3, <2>2, OthersInside DEF InsideOf
    <2> QED
        BY <1>2, <2>2, <2>3 DEF Abstract!Leave, InsideOf
<1>6. CASE ~InCallback(q)
    <2>1. \A k \in LockKey : lock[k] # q
        BY <1>1, <1>6 DEF WellFormed, OwnersInside
    <2>2. lock' = lock
        BY <1>1, <1>2, <2>1
    <2>3. \A p \in Request \ {q} : /\ InCallback(p)' <=> InCallback(p)
                                   /\ KeyOf(p)' = KeyOf(p)
        BY <1>3 DEF InCallback, KeyOf, Guard
    <2> QED
        BY <1>4, <1>6, <2>2, <2>3 DEF Unmoved
<1> QED
    BY <1>5, <1>6

LEMMA CrashKills ==
    ASSUME IInv, Crash
    PROVE  Abstract!Die(Request)
<1>1. \A q \in Request : req'[q] = Idle
    BY DEF Crash
<1>2. InsideOf' = [q \in Request |-> None]
    BY <1>1, IdleTyped DEF InsideOf, InCallback
<1> QED
    BY <1>2 DEF Crash, Abstract!Die, InsideOf

LEMMA LockStep ==
    ASSUME IInv, [Next]_vars
    PROVE  [Abstract!LockNext]_(Abstract!lockVars)
<1>1. CASE Unmoved
    BY <1>1, UnmovedStutters DEF Abstract!lockVars, InsideOf
<1>2. CASE lock' = lock /\ req' = req
    BY <1>1, <1>2 DEF Unmoved, InCallback, KeyOf, Guard
<1>3. ASSUME NEW q \in Request, Step(q) PROVE [Abstract!LockNext]_(Abstract!lockVars)
    BY <1>1, <1>3, HandlesHolds, LockTakes, UnlockLeaves DEF Step, Handles, Abstract!LockNext
<1>4. ASSUME NEW k \in LockKey, Lapse(k) PROVE [Abstract!LockNext]_(Abstract!lockVars)
    BY <1>4 DEF Lapse, Abstract!LockNext, Abstract!LapseUnder, InCallback, KeyOf, Guard
<1>5. ASSUME NEW k \in LockKey, Expire(k) PROVE [Abstract!LockNext]_(Abstract!lockVars)
    BY <1>5 DEF Expire, Abstract!LockNext, Abstract!ExpireKey, InCallback, KeyOf, Guard
<1>6. CASE Crash
    BY <1>6, CrashKills DEF Abstract!LockNext
<1>7. CASE Boot \/ (\E t \in todo : BootEnsure(t)) \/ UNCHANGED vars
    BY <1>2, <1>7 DEF Boot, BootEnsure, vars
<1> QED
    BY <1>1, <1>3, <1>4, <1>5, <1>6, <1>7, ArrivesHolds DEF Next

\* withContainerLock keeps the promise of a lock in etcd: a handler enters its
\* callback only by creating a key that did not exist, it frees no key but its
\* own, and a key changes hands in no other way, whatever fails, crashes or lapses.
THEOREM ImplementsLock == Safety => LocksRefine
<1>1. Init => Abstract!LockInit
    BY IdleTyped DEF Init, Abstract!LockInit, InCallback
<1>2. IInv /\ [Next]_vars => [Abstract!LockNext]_(Abstract!lockVars)
    BY LockStep
<1> QED
    BY <1>1, <1>2, InitHolds, NextHolds, PTL DEF Safety, LocksRefine, Abstract!LockSpec
=============================================================================
