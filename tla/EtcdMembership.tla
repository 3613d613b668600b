--------------------------- MODULE EtcdMembership ---------------------------
(***************************************************************************)
(* Who is a member of the etcd cluster: backend/services/etcd-cluster.js,  *)
(* the join of a node in backend/index.js and reconcileLearners of         *)
(* backend/services/reconciler.js. Every node runs one etcd container: on  *)
(* its own at first, as a learner and then as a voter of the cluster of    *)
(* the primary once it has joined. The boot of a backend decides whether   *)
(* the data of its etcd is kept or wiped.                                  *)
(***************************************************************************)
EXTENDS Naturals, FiniteSets

CONSTANTS
    MemNode,       \* nodes
    Primary,       \* the node that created the cluster, and that others join
    MemMaxFaults   \* bound: backends that die or are restarted, hosts that go down

ASSUME MembershipAssumption ==
    IsFiniteSet(MemNode) /\ Primary \in MemNode /\ MemMaxFaults \in Nat

VARIABLES
    mPc,        \* mPc[n]: where the backend of n is
    mCtr,       \* mCtr[n]: the etcd container of n
    mData,      \* mData[n]: whose data its data directory holds
    mConf,      \* mConf[n]: n has a cluster-config.json
    mAuth,      \* mAuth[n]: whose password the auth.json of n holds
    mGiven,     \* mGiven[n]: --initial-cluster of the etcd of a joiner
    mVoters,    \* members of the cluster with a vote
    mLearners,  \* members of the cluster without
    mTrouble,   \* what went wrong so far
    mFaults     \* faults so far

memVars == <<mPc, mCtr, mData, mConf, mAuth, mGiven, mVoters, mLearners, mTrouble, mFaults>>

Members == mVoters \cup mLearners

\* Steps of a boot, of a join, and a backend that just runs.
BootPc == {"check", "wipe", "create", "auth", "conf"}
JoinPc == {"ask", "add", "migrate", "creds"}

MemTypeOK ==
    /\ mPc \in [MemNode -> {"off", "run"} \cup BootPc \cup JoinPc]
    /\ mCtr \in [MemNode -> {"none", "stopped", "running"}]
    /\ mData \in [MemNode -> {"empty", "own", "cluster"}]
    /\ mConf \in [MemNode -> BOOLEAN]
    /\ mAuth \in [MemNode -> {"own", "cluster", "wrong"}]
    /\ mGiven \in [MemNode -> SUBSET MemNode]
    /\ mVoters \in SUBSET MemNode /\ mLearners \in SUBSET MemNode /\ mVoters \cap mLearners = {}
    /\ mTrouble \subseteq {"voterDown", "joinerDown", "together", "overlap"}
    /\ mFaults \in 0 .. MemMaxFaults

\* Every node has bootstrapped an etcd of its own; the primary was set up.
MemInit ==
    /\ mPc = [n \in MemNode |-> "run"]
    /\ mCtr = [n \in MemNode |-> "running"]
    /\ mData = [n \in MemNode |-> IF n = Primary THEN "cluster" ELSE "own"]
    /\ mConf = [n \in MemNode |-> TRUE]
    /\ mAuth = [n \in MemNode |-> IF n = Primary THEN "cluster" ELSE "own"]
    /\ mGiven = [n \in MemNode |-> {}]
    /\ mVoters = {Primary} /\ mLearners = {}
    /\ mTrouble = {} /\ mFaults = 0

-----------------------------------------------------------------------------
(* etcd.                                                                   *)

\* The etcd of n is a started member of the cluster.
Serves(n) == mCtr[n] = "running" /\ mData[n] = "cluster" /\ n \in Members
Majority(S) == 2 * Cardinality(S) > Cardinality(mVoters)
HasQuorum == Majority({n \in mVoters : Serves(n)})

\* etcdctl endpoint health: a learner and a member without quorum do not answer,
\* and neither does an etcd that does not know the password.
Healthy(n) ==
    /\ mCtr[n] = "running" /\ mAuth[n] = mData[n]
    /\ mData[n] = "own" \/ (n \in mVoters /\ HasQuorum)

\* An etcd that was told to join starts only when it was told all members.
EtcdStart(n) ==
    /\ mCtr[n] = "running" /\ mData[n] = "empty" /\ n \in mLearners
    /\ mGiven[n] = Members /\ HasQuorum
    /\ mData' = [mData EXCEPT ![n] = "cluster"]
    /\ UNCHANGED <<mPc, mCtr, mConf, mAuth, mGiven, mVoters, mLearners, mTrouble, mFaults>>

-----------------------------------------------------------------------------
(* bootstrapEtcd.                                                          *)

\* Mutant of MemBoot: a container that is stopped is not started.
MemBootAsIs(n) ==
    /\ mPc[n] = "off"
    /\ mPc' = [mPc EXCEPT ![n] = IF mCtr[n] = "none" THEN "create" ELSE "check"]
    /\ UNCHANGED <<mCtr, mData, mConf, mAuth, mGiven, mVoters, mLearners, mTrouble, mFaults>>

\* An existing container is started and its health is checked; without one, one
\* is created.
MemBoot(n) ==
    /\ mPc[n] = "off"
    /\ IF mCtr[n] = "none" THEN mPc' = [mPc EXCEPT ![n] = "create"] /\ UNCHANGED mCtr
       ELSE mPc' = [mPc EXCEPT ![n] = "check"] /\ mCtr' = [mCtr EXCEPT ![n] = "running"]
    /\ UNCHANGED <<mData, mConf, mAuth, mGiven, mVoters, mLearners, mTrouble, mFaults>>

\* Three attempts, 2 s apart.
Check(n) ==
    /\ mPc[n] = "check"
    /\ mPc' = [mPc EXCEPT ![n] = IF Healthy(n) THEN "run" ELSE "wipe"]
    /\ UNCHANGED <<mCtr, mData, mConf, mAuth, mGiven, mVoters, mLearners, mTrouble, mFaults>>

\* "Unresponsive after retries": the container, the data and the cluster
\* configuration go.
Wipe(n) ==
    /\ mPc[n] = "wipe"
    /\ mPc' = [mPc EXCEPT ![n] = "create"]
    /\ mCtr' = [mCtr EXCEPT ![n] = "none"]
    /\ mData' = [mData EXCEPT ![n] = "empty"]
    /\ mConf' = [mConf EXCEPT ![n] = FALSE]
    /\ UNCHANGED <<mAuth, mGiven, mVoters, mLearners, mTrouble, mFaults>>

\* Mutant of Create: the data is wiped though there is a cluster configuration.
CreateStandalone(n) ==
    /\ mPc[n] = "create"
    /\ mData' = [mData EXCEPT ![n] = "own"]
    /\ mPc' = [mPc EXCEPT ![n] = "auth"]
    /\ mCtr' = [mCtr EXCEPT ![n] = "running"]
    /\ UNCHANGED <<mConf, mAuth, mGiven, mVoters, mLearners, mTrouble, mFaults>>

\* Without a cluster configuration the data is wiped; with one it is kept. An
\* empty directory becomes a cluster of this node alone.
Create(n) ==
    /\ mPc[n] = "create"
    /\ mData' = [mData EXCEPT ![n] = IF mConf[n] /\ @ # "empty" THEN @ ELSE "own"]
    /\ mPc' = [mPc EXCEPT ![n] = "auth"]
    /\ mCtr' = [mCtr EXCEPT ![n] = "running"]
    /\ UNCHANGED <<mConf, mAuth, mGiven, mVoters, mLearners, mTrouble, mFaults>>

\* auth status needs a quorum. When it does not say that authentication is on,
\* a user is added and authentication enabled; both may be refused, and the
\* password is saved all the same.
Auth(n) ==
    /\ mPc[n] = "auth"
    /\ mAuth' = [mAuth EXCEPT ![n] = IF mData[n] = "own" THEN "own"
                                     ELSE IF n \in mVoters /\ HasQuorum THEN @ ELSE "wrong"]
    /\ mPc' = [mPc EXCEPT ![n] = "conf"]
    /\ UNCHANGED <<mCtr, mData, mConf, mGiven, mVoters, mLearners, mTrouble, mFaults>>

\* "Write cluster config so subsequent boots use the clustered path."
WriteConf(n) ==
    /\ mPc[n] = "conf"
    /\ mConf' = [mConf EXCEPT ![n] = TRUE]
    /\ mPc' = [mPc EXCEPT ![n] = "run"]
    /\ UNCHANGED <<mCtr, mData, mAuth, mGiven, mVoters, mLearners, mTrouble, mFaults>>

-----------------------------------------------------------------------------
(* Setup of a node in mode join, and the join handler of the primary.      *)

\* A node without data of the cluster asks; the primary saves its record.
Ask(n) ==
    /\ mPc[n] = "run" /\ n # Primary /\ mData[n] = "own" /\ mCtr[n] = "running"
    /\ mPc[Primary] = "run" /\ HasQuorum
    /\ mPc' = [mPc EXCEPT ![n] = "ask"]
    /\ mTrouble' = mTrouble \cup (IF \E m \in MemNode : mPc[m] \in JoinPc \/ m \in mLearners
                                  THEN {"overlap"} ELSE {})
    /\ UNCHANGED <<mCtr, mData, mConf, mAuth, mGiven, mVoters, mLearners, mFaults>>

\* "Stale member with peer URL found": it is removed first. A failure is logged.
RemoveStale(n) ==
    /\ mPc[n] = "ask" /\ mPc[Primary] = "run"
    /\ mPc' = [mPc EXCEPT ![n] = "add"]
    /\ IF HasQuorum THEN mVoters' = mVoters \ {n} /\ mLearners' = mLearners \ {n}
       ELSE UNCHANGED <<mVoters, mLearners>>
    /\ UNCHANGED <<mCtr, mData, mConf, mAuth, mGiven, mTrouble, mFaults>>

\* Members that have started, and have a name in the list.
NamedMembers == {m \in Members : mData[m] = "cluster"}

\* Mutant of AddMember: the member is added with a vote.
AddVoter(n) ==
    /\ mPc[n] = "add" /\ mPc[Primary] = "run"
    /\ IF HasQuorum /\ n \notin Members
       THEN /\ mVoters' = mVoters \cup {n}
            /\ mGiven' = [mGiven EXCEPT ![n] = NamedMembers \cup {n}]
            /\ mPc' = [mPc EXCEPT ![n] = "migrate"]
       ELSE UNCHANGED <<mVoters, mGiven>> /\ mPc' = [mPc EXCEPT ![n] = "run"]
    /\ UNCHANGED <<mCtr, mData, mConf, mAuth, mLearners, mTrouble, mFaults>>

\* Mutant of AddMember: the answer leaves out the joiner, which has no name yet.
AddNameless(n) ==
    /\ mPc[n] = "add" /\ mPc[Primary] = "run"
    /\ IF HasQuorum /\ n \notin Members
       THEN /\ mLearners' = mLearners \cup {n}
            /\ mGiven' = [mGiven EXCEPT ![n] = NamedMembers]
            /\ mPc' = [mPc EXCEPT ![n] = "migrate"]
       ELSE UNCHANGED <<mLearners, mGiven>> /\ mPc' = [mPc EXCEPT ![n] = "run"]
    /\ UNCHANGED <<mCtr, mData, mConf, mAuth, mVoters, mTrouble, mFaults>>

\* member add --learner. The answer tells the joiner the members that have a
\* name. When the call fails the join does.
AddMember(n) ==
    /\ mPc[n] = "add" /\ mPc[Primary] = "run"
    /\ IF HasQuorum /\ n \notin Members
       THEN /\ mLearners' = mLearners \cup {n}
            /\ mGiven' = [mGiven EXCEPT ![n] = NamedMembers \cup {n}]
            /\ mPc' = [mPc EXCEPT ![n] = "migrate"]
       ELSE UNCHANGED <<mLearners, mGiven>> /\ mPc' = [mPc EXCEPT ![n] = "run"]
    /\ UNCHANGED <<mCtr, mData, mConf, mAuth, mVoters, mTrouble, mFaults>>

\* The primary dies in the middle of a join: the fetch of the joiner fails.
AskFails(n) ==
    /\ mPc[n] \in {"ask", "add"} /\ mPc[Primary] # "run"
    /\ mPc' = [mPc EXCEPT ![n] = "run"]
    /\ UNCHANGED <<mCtr, mData, mConf, mAuth, mGiven, mVoters, mLearners, mTrouble, mFaults>>

\* migrateToCluster: the standalone etcd and its data go, a new one is started.
Migrate(n) ==
    /\ mPc[n] = "migrate"
    /\ mData' = [mData EXCEPT ![n] = "empty"]
    /\ mCtr' = [mCtr EXCEPT ![n] = "running"]
    /\ mConf' = [mConf EXCEPT ![n] = TRUE]
    /\ mPc' = [mPc EXCEPT ![n] = "creds"]
    /\ UNCHANGED <<mAuth, mGiven, mVoters, mLearners, mTrouble, mFaults>>

\* The password of the cluster is saved. What is left of the setup talks to the
\* etcd of the primary: it does not wait for the one of this node.
SaveCreds(n) ==
    /\ mPc[n] = "creds"
    /\ mAuth' = [mAuth EXCEPT ![n] = "cluster"]
    /\ mPc' = [mPc EXCEPT ![n] = "run"]
    /\ UNCHANGED <<mCtr, mData, mConf, mGiven, mVoters, mLearners, mTrouble, mFaults>>

\* Mutant of Promote: the member stays a learner.
PromoteKept(n) ==
    /\ n \in mLearners /\ Serves(n) /\ HasQuorum
    /\ mVoters' = mVoters \cup {n} /\ UNCHANGED mLearners
    /\ UNCHANGED <<mPc, mCtr, mData, mConf, mAuth, mGiven, mTrouble, mFaults>>

\* promoteEtcdMember, from the timer of the join handler or from the reconciler
\* of any voter, every 120 s: a learner that has connected and caught up.
Promote(n) ==
    /\ n \in mLearners /\ Serves(n) /\ HasQuorum
    /\ \E m \in mVoters : mPc[m] = "run" /\ Serves(m)
    /\ mVoters' = mVoters \cup {n} /\ mLearners' = mLearners \ {n}
    /\ UNCHANGED <<mPc, mCtr, mData, mConf, mAuth, mGiven, mTrouble, mFaults>>

-----------------------------------------------------------------------------
(* Failures.                                                               *)

\* The backend of n is gone: its container runs on (a crash), was removed (a
\* shutdown: stopSystemContainers) or stopped with the host.
Down(n) ==
    /\ mPc[n] # "off" /\ mFaults < MemMaxFaults
    /\ mFaults' = mFaults + 1
    /\ mPc' = [mPc EXCEPT ![n] = "off"]
    /\ \/ UNCHANGED mCtr
       \/ mCtr' = [mCtr EXCEPT ![n] = "none"]
       \/ mCtr[n] = "running" /\ mCtr' = [mCtr EXCEPT ![n] = "stopped"]
    /\ mTrouble' = mTrouble
         \cup (IF n \in mVoters /\ mPc[n] \notin JoinPc THEN {"voterDown"} ELSE {"joinerDown"})
         \cup (IF \E m \in MemNode : mPc[m] \in BootPc \cup {"off"} THEN {"together"} ELSE {})
    /\ UNCHANGED <<mData, mConf, mAuth, mGiven, mVoters, mLearners>>

-----------------------------------------------------------------------------
BootStep(n) == MemBoot(n) \/ Check(n) \/ Wipe(n) \/ Create(n) \/ Auth(n) \/ WriteConf(n)
JoinStep(n) ==
    RemoveStale(n) \/ AddMember(n) \/ AskFails(n) \/ Migrate(n) \/ SaveCreds(n)

MemNext ==
    \E n \in MemNode : \/ BootStep(n) \/ JoinStep(n) \/ EtcdStart(n) \/ Promote(n)
                       \/ Ask(n) \/ Down(n)

MemSpec == MemInit /\ [][MemNext]_memVars

\* A backend that is down is started again, calls return, etcd starts when it
\* can, and the reconcilers go on promoting. Nobody has to join.
MemProgress(n) == BootStep(n) \/ JoinStep(n) \/ EtcdStart(n) \/ Promote(n)

-----------------------------------------------------------------------------
(* Properties.                                                             *)

\* Joins never cost the cluster its quorum, not even two at a time that keep
\* each other's etcd from starting: a member votes only once it serves.
JoinKeepsQuorum == mFaults = 0 => HasQuorum

\* Only voters have failed, each when the one before was up again.
OneVoterAtATime == mTrouble \cap {"joinerDown", "together"} = {}

\* Voters that die, are restarted or lose their host, one at a time, at any
\* point of somebody's join, cost no data: a majority of the voters still has it, and
\* those whose backend runs know its password.
DataSurvives ==
    OneVoterAtATime =>
        /\ Majority({n \in mVoters : mData[n] = "cluster"})
        /\ \A n \in mVoters : mPc[n] = "run" /\ mData[n] = "cluster" => mAuth[n] = "cluster"

\* After such failures the cluster has a quorum again.
QuorumReturns == []<>(OneVoterAtATime => HasQuorum)

\* A node that joins while no other does, and nothing fails, gets a vote.
JoinCompletes ==
    \A n \in MemNode \ {Primary} :
        mPc[n] = "ask" /\ mTrouble = {} ~> n \in mVoters \/ mTrouble # {}
=============================================================================
