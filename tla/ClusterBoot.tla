----------------------------- MODULE ClusterBoot -----------------------------
(***************************************************************************)
(* The boot of the services of several nodes: startBackend and bootCluster *)
(* of backend/index.js, and the migrations they run (services/migrations.js*)
(* and migrations/). Every node that is unsealed migrates all container    *)
(* records by itself, while the routes and the reconcilers of any node     *)
(* change them; a record is read and written back as a whole.              *)
(***************************************************************************)
EXTENDS Naturals, FiniteSets

CONSTANTS
    BNode,       \* nodes
    Rec,         \* container records
    Last,        \* the last migration; they are numbered in their order. There are two.
    MaxWrites,   \* bound: changes to the rest of a record
    BMaxFaults   \* bound: calls that fail and crashes

ASSUME ClusterBootAssumption == Last \in 1 .. 2 /\ MaxWrites \in Nat /\ BMaxFaults \in Nat

Mig == 1 .. Last

VARIABLES
    bRec,       \* bRec[r]: the migrations done to the record r, and what else it says
    bLatest,    \* bLatest[r]: what the record should say
    bApplied,   \* system/migrations/
    bPc,        \* bPc[n]: where the boot of n is
    bMig,       \* bMig[n]: the migration it runs
    bKnown,     \* bKnown[n]: the migrations it takes for applied
    bRead,      \* bRead[n]: the records it has still to write, as it read them
    bWriter,    \* a change under way elsewhere: its record as it was read
    bRaced,     \* records that were changed while a migration held a copy, or the other way round
    bHalf,      \* a node stopped in the middle of its migrations, and another did them too
    bBlind,     \* a migration whose list of records could not be read
    bWrites, bFaults

bootVars == <<bRec, bLatest, bApplied, bPc, bMig, bKnown, bRead, bWriter, bRaced, bHalf,
              bBlind, bWrites, bFaults>>

RecType == [done : SUBSET Mig, rest : 0 .. MaxWrites]
NoCopy == [r \in {} |-> 0]

BootTypeOK ==
    /\ bRec \in [Rec -> RecType] /\ bLatest \in [Rec -> 0 .. MaxWrites]
    /\ bApplied \subseteq Mig
    /\ bPc \in [BNode -> {"down", "sealed", "etcd", "nginx", "timer", "load", "read", "write", "mark",
                          "serve", "failed"}]
    /\ bMig \in [BNode -> 1 .. Last + 1] /\ bKnown \in [BNode -> SUBSET Mig]
    /\ \A n \in BNode : /\ DOMAIN bRead[n] \subseteq Rec
                        /\ \A r \in DOMAIN bRead[n] : bRead[n][r] \in RecType
    /\ DOMAIN bWriter \subseteq Rec /\ \A r \in DOMAIN bWriter : bWriter[r] \in RecType
    /\ bRaced \subseteq Rec /\ bHalf \in BOOLEAN /\ bBlind \subseteq Mig
    /\ bWrites \in 0 .. MaxWrites /\ bFaults \in 0 .. BMaxFaults

BootInit ==
    /\ bRec = [r \in Rec |-> [done |-> {}, rest |-> 0]] /\ bLatest = [r \in Rec |-> 0]
    /\ bApplied = {}
    /\ bPc = [n \in BNode |-> "down"]
    /\ bMig = [n \in BNode |-> 1] /\ bKnown = [n \in BNode |-> {}]
    /\ bRead = [n \in BNode |-> NoCopy] /\ bWriter = NoCopy
    /\ bRaced = {} /\ bHalf = FALSE /\ bBlind = {} /\ bWrites = 0 /\ bFaults = 0

BootFault == bFaults < BMaxFaults /\ bFaults' = bFaults + 1
BootWorks == UNCHANGED bFaults
BootGo(n, pc) == bPc' = [bPc EXCEPT ![n] = pc]
bData == <<bRec, bLatest, bApplied, bWriter, bRaced, bHalf, bBlind, bWrites>>

Migrating == {n \in BNode : bPc[n] \in {"load", "read", "write", "mark"}}
StopsHalfway(n) ==
    bHalf' = (bHalf \/ (n \in Migrating /\ (Migrating # {n} \/ ~(bApplied \subseteq bKnown[n]))))

-----------------------------------------------------------------------------
(* startBackend and bootCluster.                                           *)

\* etcd and nginx; an exception starts startBackend again 5 s later.
StartBackend(n) ==
    /\ \/ bPc[n] \in {"down", "etcd"} /\ BootWorks /\ BootGo(n, "nginx")
       \/ bPc[n] = "nginx" /\ BootWorks /\ BootGo(n, "sealed")
       \/ bPc[n] \in {"etcd", "nginx"} /\ BootFault /\ BootGo(n, "etcd")
    /\ UNCHANGED <<bMig, bKnown, bRead, bData>>

\* Unsealed: bootCluster sets clusterBooted and _servicesStarted and comes back
\* a second later.
UnsealNode(n) ==
    /\ bPc[n] \in {"etcd", "nginx", "sealed"} /\ BootGo(n, "timer")
    /\ UNCHANGED <<bMig, bKnown, bRead, bData, bFaults>>

\* loadAppliedMigrations: an error is taken for none.
LoadApplied(n) ==
    /\ bPc[n] = "timer" /\ BootGo(n, "load")
    /\ bMig' = [bMig EXCEPT ![n] = 1]
    /\ \/ BootWorks /\ bKnown' = [bKnown EXCEPT ![n] = bApplied]
       \/ BootFault /\ bKnown' = [bKnown EXCEPT ![n] = {}]
    /\ UNCHANGED <<bRead, bData>>

-----------------------------------------------------------------------------
(* runMigrations.                                                          *)

\* Mutant of NextMigration: one that is applied is not passed over.
NextUnapplied(n) ==
    /\ bPc[n] = "load"
    /\ IF bMig[n] > Last THEN BootGo(n, "serve") ELSE bMig[n] \notin bKnown[n] /\ BootGo(n, "read")
    /\ UNCHANGED <<bMig, bKnown, bRead, bData, bFaults>>

\* The next migration that is not applied, or the services.
NextMigration(n) ==
    /\ bPc[n] = "load"
    /\ IF bMig[n] > Last THEN BootGo(n, "serve") /\ UNCHANGED bMig
       ELSE IF bMig[n] \in bKnown[n] THEN bMig' = [bMig EXCEPT ![n] = @ + 1] /\ UNCHANGED bPc
       ELSE BootGo(n, "read") /\ UNCHANGED bMig
    /\ UNCHANGED <<bKnown, bRead, bData, bFaults>>

\* getContainers answers with no records when it fails.
ReadRecords(n) ==
    /\ bPc[n] = "read" /\ BootGo(n, "write")
    /\ \/ /\ BootWorks /\ UNCHANGED bBlind
          /\ bRead' = [bRead EXCEPT ![n] = [r \in {q \in Rec : bMig[n] \notin bRec[q].done} |-> bRec[r]]]
       \/ BootFault /\ UNCHANGED bRead /\ bBlind' = bBlind \cup {bMig[n]}
    /\ UNCHANGED <<bRec, bLatest, bApplied, bMig, bKnown, bWriter, bRaced, bHalf, bWrites>>

\* Mutant of WriteRecord: the record is written with nothing but the change.
WriteBare(n) ==
    /\ bPc[n] = "write"
    /\ IF bRead[n] = NoCopy
       THEN BootWorks /\ BootGo(n, "mark") /\ UNCHANGED <<bRec, bRead, bRaced, bHalf>>
       ELSE \E r \in DOMAIN bRead[n] :
              /\ BootWorks /\ UNCHANGED <<bPc, bHalf>>
              /\ bRec' = [bRec EXCEPT ![r] = [done |-> bRead[n][r].done \cup {bMig[n]}, rest |-> 0]]
              /\ bRead' = [bRead EXCEPT ![n] = [q \in DOMAIN @ \ {r} |-> @[q]]]
              /\ bRaced' = bRaced \cup ({r} \cap DOMAIN bWriter)
    /\ UNCHANGED <<bLatest, bApplied, bMig, bKnown, bWriter, bBlind, bWrites>>

\* saveContainer: the record as it was read, with what the migration changes.
WriteRecord(n) ==
    /\ bPc[n] = "write"
    /\ IF bRead[n] = NoCopy
       THEN BootWorks /\ BootGo(n, "mark") /\ UNCHANGED <<bRec, bRead, bRaced, bHalf>>
       ELSE \E r \in DOMAIN bRead[n] :
              \/ /\ BootWorks /\ UNCHANGED <<bPc, bHalf>>
                 /\ bRec' = [bRec EXCEPT ![r] = [bRead[n][r] EXCEPT !.done = @ \cup {bMig[n]}]]
                 /\ bRead' = [bRead EXCEPT ![n] = [q \in DOMAIN @ \ {r} |-> @[q]]]
                 /\ bRaced' = bRaced \cup ({r} \cap DOMAIN bWriter)
              \/ /\ BootFault /\ BootGo(n, "failed") /\ StopsHalfway(n)
                 /\ UNCHANGED <<bRec, bRaced>>
                 /\ bRead' = [bRead EXCEPT ![n] = NoCopy]
    /\ UNCHANGED <<bLatest, bApplied, bMig, bKnown, bWriter, bBlind, bWrites>>

\* Mutant of MarkApplied: the key is written before the records are.
MarkFirst(n) ==
    /\ bPc[n] \in {"write", "mark"}
    /\ BootWorks /\ bApplied' = bApplied \cup {bMig[n]}
    /\ bKnown' = [bKnown EXCEPT ![n] = @ \cup {bMig[n]}]
    /\ IF bPc[n] = "write" THEN UNCHANGED bPc ELSE BootGo(n, "load")
    /\ UNCHANGED <<bRec, bLatest, bMig, bRead, bWriter, bRaced, bHalf, bBlind, bWrites>>

MarkApplied(n) ==
    /\ bPc[n] = "mark"
    /\ \/ /\ BootWorks /\ bApplied' = bApplied \cup {bMig[n]} /\ BootGo(n, "load")
          /\ bKnown' = [bKnown EXCEPT ![n] = @ \cup {bMig[n]}]
          /\ UNCHANGED bHalf
       \/ BootFault /\ BootGo(n, "failed") /\ StopsHalfway(n) /\ UNCHANGED <<bApplied, bKnown>>
    /\ UNCHANGED <<bRec, bLatest, bMig, bRead, bWriter, bRaced, bBlind, bWrites>>

-----------------------------------------------------------------------------
(* The others.                                                             *)

\* A route, a reconciler or an orchestrator reads a record and writes it back
\* with a change.
BeginChange(r) ==
    /\ DOMAIN bWriter = {} /\ bWrites < MaxWrites
    /\ bWriter' = [q \in {r} |-> bRec[q]]
    /\ UNCHANGED <<bRec, bLatest, bApplied, bPc, bMig, bKnown, bRead, bRaced, bHalf, bBlind,
                   bWrites, bFaults>>

EndChange(r) ==
    /\ r \in DOMAIN bWriter
    /\ bWrites' = bWrites + 1
    /\ bRec' = [bRec EXCEPT ![r] = [bWriter[r] EXCEPT !.rest = bWrites']]
    /\ bLatest' = [bLatest EXCEPT ![r] = bWrites']
    /\ bWriter' = NoCopy
    /\ bRaced' = IF \E n \in BNode : r \in DOMAIN bRead[n] THEN bRaced \cup {r} ELSE bRaced
    /\ UNCHANGED <<bApplied, bPc, bMig, bKnown, bRead, bHalf, bBlind, bFaults>>

\* The backend dies; Docker starts it again, sealed.
BackendDies(n) ==
    /\ bPc[n] # "down" /\ BootFault /\ BootGo(n, "down")
    /\ StopsHalfway(n)
    /\ bRead' = [bRead EXCEPT ![n] = NoCopy]
    /\ UNCHANGED <<bRec, bLatest, bApplied, bMig, bKnown, bWriter, bRaced, bBlind, bWrites>>

-----------------------------------------------------------------------------
BootStepOf(n) ==
    \/ LoadApplied(n) \/ NextMigration(n) \/ ReadRecords(n) \/ WriteRecord(n) \/ MarkApplied(n)

BootNext ==
    \/ \E n \in BNode : BootStepOf(n) \/ StartBackend(n) \/ UnsealNode(n) \/ BackendDies(n)
    \/ \E r \in Rec : BeginChange(r) \/ EndChange(r)

BootSpec == BootInit /\ [][BootNext]_bootVars

-----------------------------------------------------------------------------
(* Properties.                                                             *)

\* A migration that is marked has been done to every record, or a slower node
\* that has undone it is about to do it again. Not so when that node dies, when
\* somebody else's change overlaps, and when the records could not be read: the
\* migration is marked all the same.
AppliedMeansDone ==
    \A m \in bApplied \ bBlind, r \in Rec \ bRaced :
        \/ m \in bRec[r].done \/ bHalf
        \/ \E n \in Migrating : m \notin bKnown[n] /\ bMig[n] <= m

\* A migration loses no change that does not overlap it, on however many nodes it
\* runs at a time.
ChangesSurvive == \A r \in Rec \ bRaced : bRec[r].rest = bLatest[r]

\* Migrating, on any number of nodes and half way, does what is marked and nothing else.
MigrationsHold == AppliedMeansDone /\ ChangesSurvive

\* A node that is unsealed gets its services, unless something fails: one that
\* fails is not tried again before the process is started anew.
BootCompletes ==
    \A n \in BNode : bPc[n] = "timer" ~> bPc[n] \in {"serve", "failed", "down"}
=============================================================================
