--------------------------- MODULE FailoverProofs ---------------------------
(***************************************************************************)
(* Theorems about Failover, for any nodes, containers, configurations,     *)
(* overlapping orchestrator runs and number of faults.                     *)
(*                                                                         *)
(* Failover implements NodeRegistry, so the theorems of NodeRegistryProofs *)
(* hold of it. Its own invariant says of every run what it carries: the    *)
(* lock of the item it works on unless that lock lapsed, and a plan that   *)
(* only names nodes its containers allow.                                  *)
(***************************************************************************)
EXTENDS Failover, NodeRegistryProofs

FailoverTypes ==
    /\ rec \in [Container -> Rec]
    /\ copy \in [Container -> SUBSET Node]
    /\ dns \in [Container -> Node \cup {None}]
    /\ lock \in [Container -> Tick \cup {"free", "orphan"}]
    /\ leader \in Node \cup {None}
    /\ leading \in [Node -> BOOLEAN]
    /\ tick \in [Tick -> TickType]
    /\ boot \in [Node -> BootType]
    /\ del \in [Container -> DelType]

\* A run in the critical section works on a container, one it plans to move when it
\* is about to save, and holds that container's lock unless its lease lapsed.
HoldsItsLock(t) ==
    Holding(t) =>
        /\ tick[t].item \in Container
        /\ tick[t].pc = "save" => tick[t].plan[tick[t].item] # None
        /\ tick[t].lapsed \/ lock[tick[t].item] = t

\* A boot about to write has a container in hand.
PutsAnItem(n) == boot[n].pc = "put" => boot[n].item \in Container

LockInv == (\A t \in Tick : HoldsItsLock(t)) /\ (\A n \in Node : PutsAnItem(n))

\* Wherever a record of c is, in etcd or in a process, its node is one c allows.
RecordAllowed(c) == rec[c].live => rec[c].node \in Allowed(c) \cup {None}
DnsAllowed(c) == dns[c] \in Allowed(c) \cup {None}
PlanAllowed(t, c) == tick[t].plan[c] \in Allowed(c) \cup {None}
GotAllowed(n, c) ==
    boot[n].item = c /\ boot[n].got.live => boot[n].got.node \in Allowed(c) \cup {None}

PlaceInv ==
    \A c \in Container :
        /\ RecordAllowed(c) /\ DnsAllowed(c)
        /\ \A t \in Tick : PlanAllowed(t, c)
        /\ \A n \in Node : GotAllowed(n, c)

IInv == RegInv /\ FailoverTypes /\ LockInv /\ PlaceInv

-----------------------------------------------------------------------------
(* The values processes start from.                                        *)

LEMMA FailoverConstants ==
    /\ NoRec \in Rec /\ NoRec.live = FALSE
    /\ NoTick \in TickType /\ NoTick.pc = "idle" /\ NoTick.item = None
    /\ \A c \in Container : NoTick.plan[c] = None
    /\ NoBoot \in BootType /\ NoBoot.pc = "off" /\ NoBoot.item = None
    /\ NoBoot.got.live = FALSE
    /\ NoDel \in DelType
  BY DEF NoRec, Rec, NoTick, TickType, NoPlan, NoBoot, BootType, NoDel, DelType

\* A candidate is alive and allowed, and so is the best of them.
LEMMA BestIsCandidate ==
    ASSUME NEW c \in Container, NEW alive, NEW on
    PROVE  Best(c, alive, on) \subseteq alive \cap Allowed(c)
  BY DEF Best, Candidates

LEMMA InitInv == Init => IInv
  <1> SUFFICES ASSUME Init PROVE IInv
    OBVIOUS
  <1> USE FailoverConstants
  <1>1. RegInv
    BY RegInitInv DEF Init
  <1>2. PICK home \in [Container -> Booted] : RunsAt(home)
    BY DEF Init
  <1>3. FailoverTypes
    <2>1. rec \in [Container -> Rec]
      BY <1>2 DEF RunsAt
    <2>2. copy \in [Container -> SUBSET Node]
      BY <1>2, RegistryAssumption DEF RunsAt
    <2>3. boot \in [Node -> BootType]
      BY DEF Init, BootType
    <2> QED
      BY <2>1, <2>2, <2>3 DEF Init, FailoverTypes
  <1>4. LockInv
    BY DEF Init, LockInv, HoldsItsLock, PutsAnItem, Holding
  <1>5. PlaceInv
    <2> SUFFICES ASSUME NEW c \in Container
                 PROVE  /\ RecordAllowed(c) /\ DnsAllowed(c)
                        /\ \A t \in Tick : PlanAllowed(t, c)
                        /\ \A n \in Node : GotAllowed(n, c)
      BY DEF PlaceInv
    <2>1. RecordAllowed(c)
      BY <1>2 DEF RunsAt, RecordAllowed
    <2>2. \A n \in Node : GotAllowed(n, c)
      BY DEF Init, GotAllowed
    <2> QED
      BY <2>1, <2>2 DEF Init, DnsAllowed, PlanAllowed
  <1> QED
    BY <1>1, <1>3, <1>4, <1>5 DEF IInv

-----------------------------------------------------------------------------
(* Every step.                                                             *)

LEMMA NextInv == ASSUME IInv, [Next]_vars PROVE IInv'
  <1> USE FailoverAssumption
  <1>1. ASSUME NEW n \in Node, Elected(n) PROVE IInv'
    <2>1. RegInv'
      BY <1>1, RegNextInv DEF Elected, IInv
    <2>2. FailoverTypes'
      BY <1>1 DEF Elected, IInv, FailoverTypes
    <2>3. LockInv'
      BY <1>1, FailoverConstants
      DEF Elected, IInv, FailoverTypes, TickType, BootType, LockInv, HoldsItsLock,
          PutsAnItem, Holding
    <2>4. PlaceInv'
      BY <1>1, FailoverConstants
      DEF Elected, IInv, FailoverTypes, TickType, BootType, LockInv, HoldsItsLock, Holding,
          PlaceInv, RecordAllowed, DnsAllowed, PlanAllowed, GotAllowed
    <2> QED
      BY <2>1, <2>2, <2>3, <2>4 DEF IInv
  <1>2. ASSUME NEW n \in Node, ElectionError(n) PROVE IInv'
    <2>1. RegInv'
      BY <1>2, RegNextInv DEF ElectionError, IInv
    <2>2. FailoverTypes'
      BY <1>2 DEF ElectionError, IInv, FailoverTypes
    <2>3. LockInv'
      BY <1>2, FailoverConstants
      DEF ElectionError, IInv, FailoverTypes, TickType, BootType, LockInv, HoldsItsLock,
          PutsAnItem, Holding
    <2>4. PlaceInv'
      BY <1>2, FailoverConstants
      DEF ElectionError, IInv, FailoverTypes, TickType, BootType, LockInv, HoldsItsLock,
          Holding, PlaceInv, RecordAllowed, DnsAllowed, PlanAllowed, GotAllowed
    <2> QED
      BY <2>1, <2>2, <2>3, <2>4 DEF IInv
  <1>3. ASSUME NEW t \in Tick, Begin(t) PROVE IInv'
    <2>1. RegInv'
      BY <1>3, RegNextInv DEF Begin, IInv
    <2>2. FailoverTypes'
      <3>1. tick \in [Tick -> TickType]
        BY DEF IInv, FailoverTypes
      <3>2. PICK n \in Node : tick' = [tick EXCEPT ![t] = [@ EXCEPT !.pc = "nodes", !.at = n]]
        BY <1>3 DEF Begin
      <3>3. [tick[t] EXCEPT !.pc = "nodes", !.at = n] \in TickType
        BY <1>3, <3>1, <3>2 DEF TickType
      <3>4. tick' \in [Tick -> TickType]
        BY <1>3, <3>1, <3>2, <3>3 DEF Begin
      <3> QED
        BY <1>3, <3>4 DEF Begin, IInv, FailoverTypes
    <2>3. LockInv'
      BY <1>3, FailoverConstants
      DEF Begin, IInv, FailoverTypes, TickType, BootType, LockInv, HoldsItsLock, PutsAnItem,
          Holding
    <2>4. PlaceInv'
      BY <1>3, FailoverConstants
      DEF Begin, IInv, FailoverTypes, TickType, BootType, LockInv, HoldsItsLock, Holding,
          PlaceInv, RecordAllowed, DnsAllowed, PlanAllowed, GotAllowed
    <2> QED
      BY <2>1, <2>2, <2>3, <2>4 DEF IInv
  <1>4. ASSUME NEW t \in Tick, ReadNodes(t) PROVE IInv'
    <2>1. RegInv'
      BY <1>4, RegNextInv DEF ReadNodes, IInv
    <2>2. FailoverTypes'
      <3>1. tick \in [Tick -> TickType]
        BY DEF IInv, FailoverTypes
      <3>2. [tick[t] EXCEPT !.pc = "records", !.alive = VisibleNodes] \in TickType
        BY <1>4, <3>1 DEF TickType, VisibleNodes
      <3>3. tick' \in [Tick -> TickType]
        BY <1>4, <3>1, <3>2 DEF ReadNodes
      <3> QED
        BY <1>4, <3>3 DEF ReadNodes, IInv, FailoverTypes
    <2>3. LockInv'
      BY <1>4, FailoverConstants
      DEF ReadNodes, IInv, FailoverTypes, TickType, BootType, LockInv, HoldsItsLock,
          PutsAnItem, Holding
    <2>4. PlaceInv'
      BY <1>4, FailoverConstants
      DEF ReadNodes, IInv, FailoverTypes, TickType, BootType, LockInv, HoldsItsLock,
          Holding, PlaceInv, RecordAllowed, DnsAllowed, PlanAllowed, GotAllowed
    <2> QED
      BY <2>1, <2>2, <2>3, <2>4 DEF IInv
  <1>5. ASSUME NEW t \in Tick, ReadRecords(t) PROVE IInv'
    <2>1. RegInv'
      BY <1>5, RegNextInv DEF ReadRecords, IInv
    <2>2. FailoverTypes'
      <3>1. tick \in [Tick -> TickType]
        BY DEF IInv, FailoverTypes
      <3>2. PICK plan \in [Container -> Node \cup {None}] :
              tick' = [tick EXCEPT ![t] = [@ EXCEPT !.pc = "scan", !.plan = plan]]
        BY <1>5 DEF ReadRecords
      <3>3. [tick[t] EXCEPT !.pc = "scan", !.plan = plan] \in TickType
        BY <1>5, <3>1, <3>2 DEF TickType
      <3>4. tick' \in [Tick -> TickType]
        BY <1>5, <3>1, <3>2, <3>3 DEF ReadRecords
      <3> QED
        BY <1>5, <3>4 DEF ReadRecords, IInv, FailoverTypes
    <2>3. LockInv'
      BY <1>5, FailoverConstants
      DEF ReadRecords, IInv, FailoverTypes, TickType, BootType, LockInv, HoldsItsLock,
          PutsAnItem, Holding
    <2>4. PlaceInv'
      <3>1. PICK plan \in [Container -> Node \cup {None}] :
              /\ \A c \in Container :
                   IF c \in Orphans(tick[t].alive) /\ Candidates(c, tick[t].alive) # {}
                   THEN plan[c] \in Best(c, tick[t].alive, Placed)
                   ELSE plan[c] = None
              /\ tick' = [tick EXCEPT ![t] = [@ EXCEPT !.pc = "scan", !.plan = plan]]
        BY <1>5 DEF ReadRecords
      <3>2. \A c \in Container : plan[c] \in Allowed(c) \cup {None}
        BY <3>1, BestIsCandidate
      <3>3. ASSUME NEW c \in Container, NEW u \in Tick PROVE PlanAllowed(u, c)'
        BY <3>1, <3>2 DEF IInv, PlaceInv, PlanAllowed, FailoverTypes, TickType
      <3> QED
        BY <1>5, <3>3 DEF ReadRecords, IInv, PlaceInv, RecordAllowed, DnsAllowed, GotAllowed
    <2> QED
      BY <2>1, <2>2, <2>3, <2>4 DEF IInv
  <1>6. ASSUME NEW t \in Tick, NEW c \in Container, TryLock(t, c) PROVE IInv'
    <2>1. RegInv'
      BY <1>6, RegNextInv DEF TryLock, IInv
    <2>2. FailoverTypes'
      <3>1. tick \in [Tick -> TickType]
        BY DEF IInv, FailoverTypes
      <3>2. [tick[t] EXCEPT !.pc = "save", !.item = c, !.lapsed = FALSE] \in TickType
        BY <1>6, <3>1 DEF TickType
      <3>3. tick' \in [Tick -> TickType]
        BY <1>6, <3>1, <3>2 DEF TryLock
      <3>4. lock' \in [Container -> Tick \cup {"free", "orphan"}]
        BY <1>6 DEF TryLock, IInv, FailoverTypes
      <3> QED
        BY <1>6, <3>3, <3>4 DEF TryLock, IInv, FailoverTypes
    <2>3. LockInv'
      BY <1>6, FailoverConstants
      DEF TryLock, IInv, FailoverTypes, TickType, BootType, LockInv, HoldsItsLock,
          PutsAnItem, Holding
    <2>4. PlaceInv'
      BY <1>6, FailoverConstants
      DEF TryLock, IInv, FailoverTypes, TickType, BootType, LockInv, HoldsItsLock, Holding,
          PlaceInv, RecordAllowed, DnsAllowed, PlanAllowed, GotAllowed
    <2> QED
      BY <2>1, <2>2, <2>3, <2>4 DEF IInv
  <1>7. ASSUME NEW t \in Tick, NEW c \in Container, LockBusy(t, c) PROVE IInv'
    <2>1. RegInv'
      BY <1>7, RegNextInv DEF LockBusy, IInv
    <2>2. FailoverTypes'
      <3>1. tick' \in [Tick -> TickType]
        BY <1>7, FailoverConstants DEF LockBusy, IInv, FailoverTypes
      <3> QED
        BY <1>7, <3>1 DEF LockBusy, IInv, FailoverTypes
    <2>3. LockInv'
      BY <1>7, FailoverConstants
      DEF LockBusy, IInv, FailoverTypes, TickType, BootType, LockInv, HoldsItsLock,
          PutsAnItem, Holding
    <2>4. PlaceInv'
      BY <1>7, FailoverConstants
      DEF LockBusy, IInv, FailoverTypes, TickType, BootType, LockInv, HoldsItsLock, Holding,
          PlaceInv, RecordAllowed, DnsAllowed, PlanAllowed, GotAllowed
    <2> QED
      BY <2>1, <2>2, <2>3, <2>4 DEF IInv
  <1>8. ASSUME NEW t \in Tick, Finish(t) PROVE IInv'
    <2>1. RegInv'
      BY <1>8, RegNextInv DEF Finish, IInv
    <2>2. FailoverTypes'
      <3>1. tick' \in [Tick -> TickType]
        BY <1>8, FailoverConstants DEF Finish, IInv, FailoverTypes
      <3> QED
        BY <1>8, <3>1 DEF Finish, IInv, FailoverTypes
    <2>3. LockInv'
      BY <1>8, FailoverConstants
      DEF Finish, IInv, FailoverTypes, TickType, BootType, LockInv, HoldsItsLock,
          PutsAnItem, Holding
    <2>4. PlaceInv'
      BY <1>8, FailoverConstants
      DEF Finish, IInv, FailoverTypes, TickType, BootType, LockInv, HoldsItsLock, Holding,
          PlaceInv, RecordAllowed, DnsAllowed, PlanAllowed, GotAllowed
    <2> QED
      BY <2>1, <2>2, <2>3, <2>4 DEF IInv
  <1>9. ASSUME NEW t \in Tick, Save(t) PROVE IInv'
    <2>1. RegInv'
      BY <1>9, RegNextInv DEF Save, IInv
    <2>2. FailoverTypes'
      <3>1. tick \in [Tick -> TickType]
        BY DEF IInv, FailoverTypes
      <3>2. [tick[t] EXCEPT !.pc = "dns"] \in TickType
        BY <1>9, <3>1 DEF TickType
      <3>3. tick' \in [Tick -> TickType]
        BY <1>9, <3>1, <3>2 DEF Save
      <3>4. rec' \in [Container -> Rec]
        <4>1. tick[t].plan[tick[t].item] \in Node \cup {None}
          BY <1>9, <3>1 DEF Save, TickType, IInv, LockInv, HoldsItsLock, Holding
        <4> QED
          BY <1>9, <4>1 DEF Save, IInv, FailoverTypes, Rec
      <3> QED
        BY <1>9, <3>3, <3>4 DEF Save, IInv, FailoverTypes
    <2>3. LockInv'
      BY <1>9, FailoverConstants
      DEF Save, IInv, FailoverTypes, TickType, BootType, LockInv, HoldsItsLock, PutsAnItem,
          Holding
    <2>4. PlaceInv'
      BY <1>9, FailoverConstants
      DEF Save, IInv, FailoverTypes, TickType, BootType, LockInv, HoldsItsLock, Holding,
          PlaceInv, RecordAllowed, DnsAllowed, PlanAllowed, GotAllowed
    <2> QED
      BY <2>1, <2>2, <2>3, <2>4 DEF IInv
  <1>10. ASSUME NEW t \in Tick, DnsPut(t) PROVE IInv'
    <2>1. RegInv'
      BY <1>10, RegNextInv DEF DnsPut, IInv
    <2>2. FailoverTypes'
      <3>1. tick \in [Tick -> TickType]
        BY DEF IInv, FailoverTypes
      <3>2. [tick[t] EXCEPT !.pc = "unlock"] \in TickType
        BY <1>10, <3>1 DEF TickType
      <3>3. tick' \in [Tick -> TickType]
        BY <1>10, <3>1, <3>2 DEF DnsPut
      <3>4. dns' \in [Container -> Node \cup {None}]
        <4>1. tick[t].plan[tick[t].item] \in Node \cup {None}
          BY <1>10, <3>1 DEF DnsPut, TickType, IInv, LockInv, HoldsItsLock, Holding
        <4> QED
          BY <1>10, <4>1 DEF DnsPut, IInv, FailoverTypes
      <3> QED
        BY <1>10, <3>3, <3>4 DEF DnsPut, IInv, FailoverTypes
    <2>3. LockInv'
      BY <1>10, FailoverConstants
      DEF DnsPut, IInv, FailoverTypes, TickType, BootType, LockInv, HoldsItsLock,
          PutsAnItem, Holding
    <2>4. PlaceInv'
      BY <1>10, FailoverConstants
      DEF DnsPut, IInv, FailoverTypes, TickType, BootType, LockInv, HoldsItsLock, Holding,
          PlaceInv, RecordAllowed, DnsAllowed, PlanAllowed, GotAllowed
    <2> QED
      BY <2>1, <2>2, <2>3, <2>4 DEF IInv
  <1>11. ASSUME NEW t \in Tick, Unlock(t) PROVE IInv'
    <2>1. RegInv'
      BY <1>11, RegNextInv DEF Unlock, IInv
    <2>2. FailoverTypes'
      <3>1. tick \in [Tick -> TickType]
        BY DEF IInv, FailoverTypes
      <3>2. tick[t].item \in Container
        BY <1>11 DEF Unlock, IInv, LockInv, HoldsItsLock, Holding
      <3>3. [tick[t] EXCEPT !.pc = "scan", !.plan[tick[t].item] = None, !.item = None,
                            !.lapsed = FALSE] \in TickType
        BY <1>11, <3>1, <3>2 DEF TickType
      <3>4. tick' \in [Tick -> TickType]
        BY <1>11, <3>1, <3>2, <3>3 DEF Unlock
      <3>5. lock' \in [Container -> Tick \cup {"free", "orphan"}]
        BY <1>11 DEF Unlock, IInv, FailoverTypes
      <3> QED
        BY <1>11, <3>4, <3>5 DEF Unlock, IInv, FailoverTypes
    <2>3. LockInv'
      BY <1>11, FailoverConstants
      DEF Unlock, IInv, FailoverTypes, TickType, BootType, LockInv, HoldsItsLock,
          PutsAnItem, Holding
    <2>4. PlaceInv'
      BY <1>11, FailoverConstants
      DEF Unlock, IInv, FailoverTypes, TickType, BootType, LockInv, HoldsItsLock, Holding,
          PlaceInv, RecordAllowed, DnsAllowed, PlanAllowed, GotAllowed
    <2> QED
      BY <2>1, <2>2, <2>3, <2>4 DEF IInv
  <1>12. ASSUME NEW c \in Container, LockExpire(c) PROVE IInv'
    <2>1. RegInv'
      BY <1>12, RegNextInv DEF LockExpire, IInv
    <2>2. FailoverTypes'
      BY <1>12 DEF LockExpire, IInv, FailoverTypes
    <2>3. LockInv'
      BY <1>12, FailoverConstants
      DEF LockExpire, IInv, FailoverTypes, TickType, BootType, LockInv, HoldsItsLock,
          PutsAnItem, Holding
    <2>4. PlaceInv'
      BY <1>12, FailoverConstants
      DEF LockExpire, IInv, FailoverTypes, TickType, BootType, LockInv, HoldsItsLock,
          Holding, PlaceInv, RecordAllowed, DnsAllowed, PlanAllowed, GotAllowed
    <2> QED
      BY <2>1, <2>2, <2>3, <2>4 DEF IInv
  <1>13. ASSUME NEW n \in Node, BootRead(n) PROVE IInv'
    <2>1. RegInv'
      BY <1>13, RegNextInv DEF BootRead, IInv
    <2>2. FailoverTypes'
      <3>1. boot \in [Node -> BootType] /\ rec \in [Container -> Rec]
        BY DEF IInv, FailoverTypes
      <3>2. [boot[n] EXCEPT !.pc = "scan", !.on = rec,
                            !.todo = {c \in Container : rec[c].live}] \in BootType
        BY <1>13, <3>1, FailoverConstants DEF BootType
      <3>3. boot' \in [Node -> BootType]
        BY <1>13, <3>1, <3>2 DEF BootRead
      <3> QED
        BY <1>13, <3>3 DEF BootRead, IInv, FailoverTypes
    <2>3. LockInv'
      BY <1>13, FailoverConstants
      DEF BootRead, IInv, FailoverTypes, TickType, BootType, LockInv, HoldsItsLock,
          PutsAnItem, Holding
    <2>4. PlaceInv'
      BY <1>13, FailoverConstants
      DEF BootRead, IInv, FailoverTypes, TickType, BootType, LockInv, HoldsItsLock, Holding,
          PlaceInv, RecordAllowed, DnsAllowed, PlanAllowed, GotAllowed
    <2> QED
      BY <2>1, <2>2, <2>3, <2>4 DEF IInv
  <1>14. ASSUME NEW n \in Node, NEW c \in Container, BootForeign(n, c) PROVE IInv'
    <2>1. RegInv'
      BY <1>14, RegNextInv DEF BootForeign, IInv
    <2>2. FailoverTypes'
      <3>1. boot \in [Node -> BootType] /\ rec \in [Container -> Rec]
        BY DEF IInv, FailoverTypes
      <3>2. [boot[n] EXCEPT !.todo = boot[n].todo \ {c}] \in BootType
        BY <1>14, <3>1, FailoverConstants DEF BootType
      <3>3. boot' \in [Node -> BootType]
        BY <1>14, <3>1, <3>2 DEF BootForeign
      <3>4. copy' \in [Container -> SUBSET Node]
        BY <1>14 DEF BootForeign, IInv, FailoverTypes
      <3> QED
        BY <1>14, <3>3, <3>4 DEF BootForeign, IInv, FailoverTypes
    <2>3. LockInv'
      BY <1>14, FailoverConstants
      DEF BootForeign, IInv, FailoverTypes, TickType, BootType, LockInv, HoldsItsLock,
          PutsAnItem, Holding
    <2>4. PlaceInv'
      BY <1>14, FailoverConstants
      DEF BootForeign, IInv, FailoverTypes, TickType, BootType, LockInv, HoldsItsLock,
          Holding, PlaceInv, RecordAllowed, DnsAllowed, PlanAllowed, GotAllowed
    <2> QED
      BY <2>1, <2>2, <2>3, <2>4 DEF IInv
  <1>15. ASSUME NEW n \in Node, NEW c \in Container, BootEnsure(n, c) PROVE IInv'
    <2>1. RegInv'
      BY <1>15, RegNextInv DEF BootEnsure, IInv
    <2>2. FailoverTypes'
      <3>1. boot \in [Node -> BootType] /\ rec \in [Container -> Rec]
        BY DEF IInv, FailoverTypes
      <3>2. [boot[n] EXCEPT !.todo = boot[n].todo \ {c}] \in BootType
        BY <1>15, <3>1, FailoverConstants DEF BootType
      <3>3. [boot[n] EXCEPT !.pc = "put", !.todo = boot[n].todo \ {c}, !.item = c, !.got = rec[c]] \in BootType
        BY <1>15, <3>1, FailoverConstants DEF BootType
      <3>4. boot' \in [Node -> BootType]
        <4>1. CASE boot' = [boot EXCEPT ![n] = [@ EXCEPT !.todo = boot[n].todo \ {c}]]
          BY <3>1, <3>2, <4>1
        <4>2. CASE boot' = [boot EXCEPT ![n] = [@ EXCEPT !.pc = "put", !.todo = boot[n].todo \ {c},
                                                         !.item = c, !.got = rec[c]]]
          BY <3>1, <3>3, <4>2
        <4> QED
          BY <1>15, <4>1, <4>2 DEF BootEnsure
      <3>5. copy' \in [Container -> SUBSET Node]
        BY <1>15 DEF BootEnsure, IInv, FailoverTypes
      <3> QED
        BY <1>15, <3>4, <3>5 DEF BootEnsure, IInv, FailoverTypes
    <2>3. LockInv'
      <3>1. ASSUME NEW m \in Node PROVE PutsAnItem(m)'
        <4>1. CASE m = n /\ boot' = [boot EXCEPT ![n] = [@ EXCEPT !.pc = "put", !.todo = boot[n].todo \ {c},
                                                                  !.item = c, !.got = rec[c]]]
          BY <4>1 DEF IInv, FailoverTypes, BootType, PutsAnItem
        <4>2. CASE boot'[m].pc = boot[m].pc /\ boot'[m].item = boot[m].item
          BY <4>2 DEF IInv, LockInv, PutsAnItem
        <4> QED
          BY <1>15, <4>1, <4>2 DEF BootEnsure, IInv, FailoverTypes, BootType
      <3> QED
        BY <1>15, <3>1 DEF BootEnsure, IInv, LockInv, HoldsItsLock, Holding
    <2>4. PlaceInv'
      <3>1. ASSUME NEW d \in Container, NEW m \in Node PROVE GotAllowed(m, d)'
        <4>1. CASE m = n /\ boot' = [boot EXCEPT ![n] = [@ EXCEPT !.pc = "put", !.todo = boot[n].todo \ {c},
                                                                  !.item = c, !.got = rec[c]]]
          BY <1>15, <4>1
          DEF IInv, PlaceInv, RecordAllowed, GotAllowed, FailoverTypes, BootType
        <4>2. CASE boot'[m].item = boot[m].item /\ boot'[m].got = boot[m].got
          BY <1>15, <4>2 DEF IInv, PlaceInv, GotAllowed
        <4> QED
          BY <1>15, <4>1, <4>2 DEF BootEnsure, IInv, FailoverTypes, BootType
      <3> QED
        BY <1>15, <3>1
        DEF BootEnsure, IInv, PlaceInv, RecordAllowed, DnsAllowed, PlanAllowed
    <2> QED
      BY <2>1, <2>2, <2>3, <2>4 DEF IInv
  <1>16. ASSUME NEW n \in Node, BootPut(n) PROVE IInv'
    <2>1. RegInv'
      BY <1>16, RegNextInv DEF BootPut, IInv
    <2>2. FailoverTypes'
      <3>1. boot \in [Node -> BootType] /\ rec \in [Container -> Rec]
        BY DEF IInv, FailoverTypes
      <3>2. [boot[n] EXCEPT !.pc = "scan", !.item = None, !.got = NoRec] \in BootType
        BY <1>16, <3>1, FailoverConstants DEF BootType
      <3>3. boot' \in [Node -> BootType]
        BY <1>16, <3>1, <3>2 DEF BootPut
      <3>4. rec' \in [Container -> Rec]
        <4>1. [boot[n].got EXCEPT !.did = n] \in Rec
          BY <3>1 DEF BootType, Rec
        <4> QED
          BY <1>16, <3>1, <4>1 DEF BootPut
      <3> QED
        BY <1>16, <3>3, <3>4 DEF BootPut, IInv, FailoverTypes
    <2>3. LockInv'
      BY <1>16, FailoverConstants
      DEF BootPut, IInv, FailoverTypes, TickType, BootType, LockInv, HoldsItsLock,
          PutsAnItem, Holding
    <2>4. PlaceInv'
      BY <1>16, FailoverConstants
      DEF BootPut, IInv, FailoverTypes, TickType, BootType, LockInv, HoldsItsLock, Holding,
          PlaceInv, RecordAllowed, DnsAllowed, PlanAllowed, GotAllowed
    <2> QED
      BY <2>1, <2>2, <2>3, <2>4 DEF IInv
  <1>17. ASSUME NEW n \in Node, BootDone(n) PROVE IInv'
    <2>1. RegInv'
      BY <1>17, RegNextInv DEF BootDone, IInv
    <2>2. FailoverTypes'
      <3>1. boot \in [Node -> BootType] /\ rec \in [Container -> Rec]
        BY DEF IInv, FailoverTypes
      <3>2. [NoBoot EXCEPT !.pc = "done"] \in BootType
        BY <1>17, <3>1, FailoverConstants DEF BootType
      <3>3. boot' \in [Node -> BootType]
        BY <1>17, <3>1, <3>2 DEF BootDone
      <3> QED
        BY <1>17, <3>3 DEF BootDone, IInv, FailoverTypes
    <2>3. LockInv'
      BY <1>17, FailoverConstants
      DEF BootDone, IInv, FailoverTypes, TickType, BootType, LockInv, HoldsItsLock,
          PutsAnItem, Holding
    <2>4. PlaceInv'
      BY <1>17, FailoverConstants
      DEF BootDone, IInv, FailoverTypes, TickType, BootType, LockInv, HoldsItsLock, Holding,
          PlaceInv, RecordAllowed, DnsAllowed, PlanAllowed, GotAllowed
    <2> QED
      BY <2>1, <2>2, <2>3, <2>4 DEF IInv
  <1>18. ASSUME NEW c \in Container, NEW n \in Node, DelRequest(c, n) PROVE IInv'
    <2>1. RegInv'
      BY <1>18, RegNextInv DEF DelRequest, IInv
    <2>2. FailoverTypes'
      <3>1. del' \in [Container -> DelType]
        BY <1>18, FailoverConstants DEF DelRequest, IInv, FailoverTypes, DelType
      <3> QED
        BY <1>18, <3>1 DEF DelRequest, IInv, FailoverTypes
    <2>3. LockInv'
      BY <1>18, FailoverConstants
      DEF DelRequest, IInv, FailoverTypes, TickType, BootType, LockInv, HoldsItsLock,
          PutsAnItem, Holding
    <2>4. PlaceInv'
      BY <1>18, FailoverConstants
      DEF DelRequest, IInv, FailoverTypes, TickType, BootType, LockInv, HoldsItsLock,
          Holding, PlaceInv, RecordAllowed, DnsAllowed, PlanAllowed, GotAllowed
    <2> QED
      BY <2>1, <2>2, <2>3, <2>4 DEF IInv
  <1>19. ASSUME NEW c \in Container, DelDocker(c) PROVE IInv'
    <2>1. RegInv'
      BY <1>19, RegNextInv DEF DelDocker, IInv
    <2>2. FailoverTypes'
      <3>1. copy' \in [Container -> SUBSET Node]
        BY <1>19, FailoverConstants DEF DelDocker, IInv, FailoverTypes
      <3>2. del' \in [Container -> DelType]
        BY <1>19, FailoverConstants DEF DelDocker, IInv, FailoverTypes, DelType
      <3> QED
        BY <1>19, <3>1, <3>2 DEF DelDocker, IInv, FailoverTypes
    <2>3. LockInv'
      BY <1>19, FailoverConstants
      DEF DelDocker, IInv, FailoverTypes, TickType, BootType, LockInv, HoldsItsLock,
          PutsAnItem, Holding
    <2>4. PlaceInv'
      BY <1>19, FailoverConstants
      DEF DelDocker, IInv, FailoverTypes, TickType, BootType, LockInv, HoldsItsLock,
          Holding, PlaceInv, RecordAllowed, DnsAllowed, PlanAllowed, GotAllowed
    <2> QED
      BY <2>1, <2>2, <2>3, <2>4 DEF IInv
  <1>20. ASSUME NEW c \in Container, DelRecord(c) PROVE IInv'
    <2>1. RegInv'
      BY <1>20, RegNextInv DEF DelRecord, IInv
    <2>2. FailoverTypes'
      <3>1. rec' \in [Container -> Rec]
        BY <1>20, FailoverConstants DEF DelRecord, IInv, FailoverTypes, Rec
      <3>2. del' \in [Container -> DelType]
        BY <1>20, FailoverConstants DEF DelRecord, IInv, FailoverTypes, DelType
      <3> QED
        BY <1>20, <3>1, <3>2 DEF DelRecord, IInv, FailoverTypes
    <2>3. LockInv'
      BY <1>20, FailoverConstants
      DEF DelRecord, IInv, FailoverTypes, TickType, BootType, LockInv, HoldsItsLock,
          PutsAnItem, Holding
    <2>4. PlaceInv'
      BY <1>20, FailoverConstants
      DEF DelRecord, IInv, FailoverTypes, TickType, BootType, LockInv, HoldsItsLock,
          Holding, PlaceInv, RecordAllowed, DnsAllowed, PlanAllowed, GotAllowed
    <2> QED
      BY <2>1, <2>2, <2>3, <2>4 DEF IInv
  <1>21. ASSUME NEW n \in Node, RegistryOnly(n) PROVE IInv'
    <2>1. RegInv'
      BY <1>21, RegNextInv DEF RegistryOnly, IInv, RegNext
    <2>2. FailoverTypes'
      BY <1>21 DEF RegistryOnly, fvars, IInv, FailoverTypes
    <2>3. LockInv'
      BY <1>21, FailoverConstants
      DEF RegistryOnly, fvars, IInv, FailoverTypes, TickType, BootType, LockInv,
          HoldsItsLock, PutsAnItem, Holding
    <2>4. PlaceInv'
      BY <1>21, FailoverConstants
      DEF RegistryOnly, fvars, IInv, FailoverTypes, TickType, BootType, LockInv,
          HoldsItsLock, Holding, PlaceInv, RecordAllowed, DnsAllowed, PlanAllowed,
          GotAllowed
    <2> QED
      BY <2>1, <2>2, <2>3, <2>4 DEF IInv
  <1>22. ASSUME NEW n \in Node, UnsealAndBoot(n) PROVE IInv'
    <2>1. RegInv'
      BY <1>22, RegNextInv DEF UnsealAndBoot, IInv, RegNext
    <2>2. FailoverTypes'
      <3>1. boot \in [Node -> BootType] /\ rec \in [Container -> Rec]
        BY DEF IInv, FailoverTypes
      <3>2. [boot[n] EXCEPT !.pc = "read"] \in BootType
        BY <1>22, <3>1, FailoverConstants DEF BootType
      <3>3. boot' \in [Node -> BootType]
        BY <1>22, <3>1, <3>2 DEF UnsealAndBoot
      <3> QED
        BY <1>22, <3>3 DEF UnsealAndBoot, IInv, FailoverTypes
    <2>3. LockInv'
      BY <1>22, FailoverConstants
      DEF UnsealAndBoot, IInv, FailoverTypes, TickType, BootType, LockInv, HoldsItsLock,
          PutsAnItem, Holding
    <2>4. PlaceInv'
      BY <1>22, FailoverConstants
      DEF UnsealAndBoot, IInv, FailoverTypes, TickType, BootType, LockInv, HoldsItsLock,
          Holding, PlaceInv, RecordAllowed, DnsAllowed, PlanAllowed, GotAllowed
    <2> QED
      BY <2>1, <2>2, <2>3, <2>4 DEF IInv
  <1>23. ASSUME NEW n \in Node, CrashAll(n) PROVE IInv'
    <2>1. RegInv'
      BY <1>23, RegNextInv DEF CrashAll, IInv, RegNext
    <2>2. FailoverTypes'
      <3>1. lock' \in [Container -> Tick \cup {"free", "orphan"}]
        BY <1>23, FailoverConstants DEF CrashAll, IInv, FailoverTypes
      <3>2. tick' \in [Tick -> TickType]
        BY <1>23, FailoverConstants DEF CrashAll, IInv, FailoverTypes
      <3>3. boot' \in [Node -> BootType]
        BY <1>23, FailoverConstants DEF CrashAll, IInv, FailoverTypes
      <3>4. del' \in [Container -> DelType]
        BY <1>23, FailoverConstants DEF CrashAll, IInv, FailoverTypes, DelType
      <3> QED
        BY <1>23, <3>1, <3>2, <3>3, <3>4 DEF CrashAll, IInv, FailoverTypes
    <2>3. LockInv'
      BY <1>23, FailoverConstants
      DEF CrashAll, IInv, FailoverTypes, TickType, BootType, LockInv, HoldsItsLock,
          PutsAnItem, Holding
    <2>4. PlaceInv'
      BY <1>23, FailoverConstants
      DEF CrashAll, IInv, FailoverTypes, TickType, BootType, LockInv, HoldsItsLock, Holding,
          PlaceInv, RecordAllowed, DnsAllowed, PlanAllowed, GotAllowed
    <2> QED
      BY <2>1, <2>2, <2>3, <2>4 DEF IInv
  <1>24. ASSUME NEW n \in Node, LoseElection(n) PROVE IInv'
    <2>1. RegInv'
      BY <1>24, RegNextInv DEF LoseElection, IInv, RegNext
    <2>2. FailoverTypes'
      BY <1>24 DEF LoseElection, IInv, FailoverTypes
    <2>3. LockInv'
      BY <1>24, FailoverConstants
      DEF LoseElection, IInv, FailoverTypes, TickType, BootType, LockInv, HoldsItsLock,
          PutsAnItem, Holding
    <2>4. PlaceInv'
      BY <1>24, FailoverConstants
      DEF LoseElection, IInv, FailoverTypes, TickType, BootType, LockInv, HoldsItsLock,
          Holding, PlaceInv, RecordAllowed, DnsAllowed, PlanAllowed, GotAllowed
    <2> QED
      BY <2>1, <2>2, <2>3, <2>4 DEF IInv
  <1>25. ASSUME NEW t \in Tick, LockLapse(t) PROVE IInv'
    <2>1. RegInv'
      BY <1>25, RegNextInv DEF LockLapse, IInv, RegNext
    <2>2. FailoverTypes'
      <3>1. tick \in [Tick -> TickType]
        BY DEF IInv, FailoverTypes
      <3>2. [tick[t] EXCEPT !.lapsed = TRUE] \in TickType
        BY <1>25, <3>1 DEF TickType
      <3>3. tick' \in [Tick -> TickType]
        BY <1>25, <3>1, <3>2 DEF LockLapse
      <3>4. lock' \in [Container -> Tick \cup {"free", "orphan"}]
        BY <1>25 DEF LockLapse, IInv, FailoverTypes
      <3> QED
        BY <1>25, <3>3, <3>4 DEF LockLapse, IInv, FailoverTypes
    <2>3. LockInv'
      BY <1>25, FailoverConstants
      DEF LockLapse, IInv, FailoverTypes, TickType, BootType, LockInv, HoldsItsLock,
          PutsAnItem, Holding
    <2>4. PlaceInv'
      BY <1>25, FailoverConstants
      DEF LockLapse, IInv, FailoverTypes, TickType, BootType, LockInv, HoldsItsLock,
          Holding, PlaceInv, RecordAllowed, DnsAllowed, PlanAllowed, GotAllowed
    <2> QED
      BY <2>1, <2>2, <2>3, <2>4 DEF IInv
  <1>26. ASSUME NEW t \in Tick, TickFails(t) PROVE IInv'
    <2>1. RegInv'
      BY <1>26, RegNextInv DEF TickFails, IInv, RegNext
    <2>2. FailoverTypes'
      <3>1. tick \in [Tick -> TickType]
        BY DEF IInv, FailoverTypes
      <3>2. NoPlan \in [Container -> Node \cup {None}]
        BY DEF NoPlan
      <3>3. [tick[t] EXCEPT !.pc = "unlock", !.plan = NoPlan] \in TickType
        BY <1>26, <3>1, <3>2 DEF TickType
      <3>4. tick' \in [Tick -> TickType]
        BY <1>26, <3>1, <3>3, FailoverConstants DEF TickFails
      <3> QED
        BY <1>26, <3>4 DEF TickFails, IInv, FailoverTypes
    <2>3. ASSUME NEW u \in Tick
          PROVE  \/ tick'[u] = tick[u]
                 \/ tick'[u].pc = "idle" /\ tick'[u].plan = NoPlan
                 \/ /\ Holding(u) /\ tick'[u].pc = "unlock" /\ tick'[u].plan = NoPlan
                    /\ tick'[u].item = tick[u].item /\ tick'[u].lapsed = tick[u].lapsed
      <3>1. tick \in [Tick -> TickType]
        BY DEF IInv, FailoverTypes
      <3>2. CASE u # t
        BY <1>26, <3>1, <3>2 DEF TickFails
      <3>3. CASE u = t /\ tick[t].pc \in {"nodes", "records", "scan"}
        BY <1>26, <3>1, <3>3 DEF TickFails, NoTick
      <3>4. CASE u = t /\ tick[t].pc \in {"save", "dns"}
        <4>1. tick' = [tick EXCEPT ![t] = [@ EXCEPT !.pc = "unlock", !.plan = NoPlan]]
          BY <1>26, <3>4 DEF TickFails
        <4>2. tick'[t] = [tick[t] EXCEPT !.pc = "unlock", !.plan = NoPlan]
          BY <3>1, <4>1
        <4> QED
          BY <3>1, <3>4, <4>2 DEF TickType, Holding
      <3> QED
        BY <1>26, <3>2, <3>3, <3>4 DEF TickFails
    <2>4. LockInv'
      BY <1>26, <2>3
      DEF TickFails, IInv, LockInv, HoldsItsLock, PutsAnItem, Holding
    <2>5. PlaceInv'
      BY <1>26, <2>3
      DEF TickFails, NoPlan, IInv, PlaceInv, RecordAllowed, DnsAllowed, PlanAllowed,
          GotAllowed
    <2> QED
      BY <2>1, <2>2, <2>4, <2>5 DEF IInv
  <1>27. ASSUME NEW n \in Node, NEW c \in Container, BootMisjudges(n, c) PROVE IInv'
    <2>1. RegInv'
      BY <1>27, RegNextInv DEF BootMisjudges, IInv, RegNext
    <2>2. FailoverTypes'
      <3>1. boot \in [Node -> BootType] /\ rec \in [Container -> Rec]
        BY DEF IInv, FailoverTypes
      <3>2. [boot[n] EXCEPT !.todo = boot[n].todo \ {c}] \in BootType
        BY <1>27, <3>1, FailoverConstants DEF BootType
      <3>3. boot' \in [Node -> BootType]
        BY <1>27, <3>1, <3>2 DEF BootMisjudges
      <3>4. copy' \in [Container -> SUBSET Node]
        BY <1>27 DEF BootMisjudges, IInv, FailoverTypes
      <3> QED
        BY <1>27, <3>3, <3>4 DEF BootMisjudges, IInv, FailoverTypes
    <2>3. LockInv'
      BY <1>27, FailoverConstants
      DEF BootMisjudges, IInv, FailoverTypes, TickType, BootType, LockInv, HoldsItsLock,
          PutsAnItem, Holding
    <2>4. PlaceInv'
      BY <1>27, FailoverConstants
      DEF BootMisjudges, IInv, FailoverTypes, TickType, BootType, LockInv, HoldsItsLock,
          Holding, PlaceInv, RecordAllowed, DnsAllowed, PlanAllowed, GotAllowed
    <2> QED
      BY <2>1, <2>2, <2>3, <2>4 DEF IInv
  <1>28. ASSUME NEW n \in Node, BootAborts(n) PROVE IInv'
    <2>1. RegInv'
      BY <1>28, RegNextInv DEF BootAborts, IInv, RegNext
    <2>2. FailoverTypes'
      <3>1. [NoBoot EXCEPT !.pc = "done"] \in BootType
        BY FailoverConstants DEF BootType
      <3>2. boot' \in [Node -> BootType]
        BY <1>28, <3>1 DEF BootAborts, IInv, FailoverTypes
      <3> QED
        BY <1>28, <3>2 DEF BootAborts, IInv, FailoverTypes
    <2>3. LockInv'
      BY <1>28, FailoverConstants
      DEF BootAborts, IInv, FailoverTypes, TickType, BootType, LockInv, HoldsItsLock,
          PutsAnItem, Holding
    <2>4. PlaceInv'
      BY <1>28, FailoverConstants
      DEF BootAborts, IInv, FailoverTypes, TickType, BootType, LockInv, HoldsItsLock,
          Holding, PlaceInv, RecordAllowed, DnsAllowed, PlanAllowed, GotAllowed
    <2> QED
      BY <2>1, <2>2, <2>3, <2>4 DEF IInv
  <1>29. ASSUME NEW c \in Container, DelFails(c) PROVE IInv'
    <2>1. RegInv'
      BY <1>29, RegNextInv DEF DelFails, IInv, RegNext
    <2>2. FailoverTypes'
      <3>1. del \in [Container -> DelType]
        BY DEF IInv, FailoverTypes
      <3>2. [del[c] EXCEPT !.pc = "record"] \in DelType
        BY <3>1 DEF DelType
      <3>3. del' \in [Container -> DelType]
        BY <1>29, <3>1, <3>2, FailoverConstants DEF DelFails
      <3> QED
        BY <1>29, <3>3 DEF DelFails, IInv, FailoverTypes
    <2>3. LockInv'
      BY <1>29, FailoverConstants
      DEF DelFails, IInv, FailoverTypes, TickType, BootType, LockInv, HoldsItsLock,
          PutsAnItem, Holding
    <2>4. PlaceInv'
      BY <1>29, FailoverConstants
      DEF DelFails, IInv, FailoverTypes, TickType, BootType, LockInv, HoldsItsLock,
          Holding, PlaceInv, RecordAllowed, DnsAllowed, PlanAllowed, GotAllowed
    <2> QED
      BY <2>1, <2>2, <2>3, <2>4 DEF IInv
  <1>30. CASE UNCHANGED vars
    <2>1. RegInv'
      BY <1>30, RegNextInv DEF vars, IInv
    <2> QED
      BY <1>30, <2>1
      DEF vars, fvars, IInv, FailoverTypes, LockInv, HoldsItsLock, PutsAnItem, Holding,
          PlaceInv, RecordAllowed, DnsAllowed, PlanAllowed, GotAllowed
  <1> QED
    BY <1>1, <1>2, <1>3, <1>4, <1>5, <1>6, <1>7, <1>8, <1>9, <1>10, <1>11, <1>12, <1>13,
       <1>14, <1>15, <1>16, <1>17, <1>18, <1>19, <1>20, <1>21, <1>22, <1>23, <1>24, <1>25,
       <1>26, <1>27, <1>28, <1>29, <1>30
    DEF Next, Orchestrate, Reconcile
-----------------------------------------------------------------------------
(* What follows from the invariant.                                        *)

LEMMA IInvAlways == Safety => []IInv
  BY InitInv, NextInv, PTL DEF Safety

\* Whatever the orchestrator, the boots and the requests do meanwhile, the
\* registry's keys and leases (db.js) only ever move as NodeRegistry says: the
\* theorems about it hold of the whole.
THEOREM ImplementsRegistry == Safety => RegSafety
  <1>1. Init => RegInit
    BY DEF Init
  <1>2. [Next]_vars => [RegNext]_regvars
    <2> SUFFICES ASSUME [Next]_vars PROVE [RegNext]_regvars
      OBVIOUS
    <2>1. ASSUME NEW n \in Node,
                 RegistryOnly(n) \/ UnsealAndBoot(n) \/ CrashAll(n) \/ LoseElection(n)
          PROVE  RegNext
      BY <2>1 DEF RegistryOnly, UnsealAndBoot, CrashAll, LoseElection, RegNext
    <2>2. /\ \A t \in Tick : LockLapse(t) \/ TickFails(t) => RegNext
          /\ \A n \in Node : BootAborts(n) => RegNext
          /\ \A c \in Container : DelFails(c) => RegNext
          /\ \A c \in Container, n \in Node : BootMisjudges(n, c) => RegNext
      BY DEF LockLapse, TickFails, BootAborts, DelFails, BootMisjudges, RegNext
    <2>3. ASSUME NEW n \in Node, Elected(n) \/ ElectionError(n) \/ Reconcile(n)
          PROVE  UNCHANGED regvars
      BY <2>3
      DEF Elected, ElectionError, Reconcile, BootRead, BootPut, BootDone, BootForeign,
          BootEnsure
    <2>4. ASSUME NEW t \in Tick, Orchestrate(t) PROVE UNCHANGED regvars
      BY <2>4
      DEF Orchestrate, Begin, ReadNodes, ReadRecords, TryLock, LockBusy, Finish, Save,
          DnsPut, Unlock
    <2>5. ASSUME NEW c \in Container,
                 LockExpire(c) \/ DelDocker(c) \/ DelRecord(c) \/ (\E n \in Node : DelRequest(c, n))
          PROVE  UNCHANGED regvars
      BY <2>5 DEF LockExpire, DelDocker, DelRecord, DelRequest
    <2>6. CASE UNCHANGED vars
      BY <2>6 DEF vars
    <2> QED
      BY <2>1, <2>2, <2>3, <2>4, <2>5, <2>6 DEF Next
  <1> QED
    BY <1>1, <1>2, PTL DEF Safety, RegSafety

\* The records, locks, runs, boots and requests keep their shape.
THEOREM TypeCorrect == Safety => []TypeOK
  <1>1. IInv => TypeOK
    BY DEF IInv, RegInv, FailoverTypes, TypeOK
  <1> QED
    BY <1>1, IInvAlways, PTL

\* withContainerLock (locks.js) excludes: of two runs working on one container,
\* the lease of one has lapsed.
THEOREM LockIsExclusive == Safety => []LockExcludes
  <1>1. IInv => LockExcludes
    BY DEF IInv, LockInv, HoldsItsLock, LockExcludes
  <1> QED
    BY <1>1, IInvAlways, PTL

\* However stale what runOrchestrationLoop and updateContainerDockerId write
\* back, a record and a DNS name only ever point to a node that is allowed.
THEOREM PlacementIsAllowed == Safety => []AllowedPlacement
  <1>1. IInv => AllowedPlacement
    BY DEF IInv, PlaceInv, RecordAllowed, DnsAllowed, AllowedPlacement
  <1> QED
    BY <1>1, IInvAlways, PTL

\* A deleted container's record comes back only from a run of the orchestrator
\* or a boot that had read it: with nothing in flight, a deletion is final.
THEOREM DeletionIsFinal == Safety => DeletedStaysDeleted
  <1>1. ASSUME IInv, [Next]_vars, NEW c \in Container, rec'[c].live, ~rec[c].live
        PROVE  StaleReader(c)
    <2>1. ASSUME NEW t \in Tick, Save(t) PROVE StaleReader(c)
      <3>1. tick[t].item = c
        BY <1>1, <2>1 DEF Save, IInv, FailoverTypes
      <3> QED
        BY <1>1, <2>1, <3>1 DEF Save, StaleReader, IInv, LockInv, HoldsItsLock, Holding
    <2>2. ASSUME NEW n \in Node, BootPut(n) PROVE StaleReader(c)
      <3>1. boot[n].item = c /\ boot[n].got.live
        BY <1>1, <2>2 DEF BootPut, IInv, FailoverTypes
      <3> QED
        BY <3>1 DEF StaleReader
    <2>3. ASSUME NEW d \in Container, DelRecord(d) PROVE FALSE
      BY <1>1, <2>3 DEF DelRecord, IInv, FailoverTypes, NoRec
    <2>4. ASSUME rec' = rec PROVE FALSE
      BY <1>1, <2>4
    <2> QED
      BY <1>1, <2>1, <2>2, <2>3, <2>4
      DEF Next, vars, fvars, RegistryOnly, UnsealAndBoot, CrashAll, Elected, LoseElection,
          ElectionError, Reconcile, BootRead, BootDone, BootForeign, BootEnsure,
          BootMisjudges, BootAborts, TickFails, DelFails, Orchestrate, Begin, ReadNodes, ReadRecords, TryLock, LockBusy, Finish, DnsPut,
          Unlock, LockLapse, LockExpire, DelDocker, DelRequest
  <1>2. IInv /\ [Next]_vars
          => [\A c \in Container : rec'[c].live /\ ~rec[c].live => StaleReader(c)]_vars
    BY <1>1
  <1> QED
    BY <1>2, IInvAlways, PTL DEF Safety, DeletedStaysDeleted
=============================================================================
