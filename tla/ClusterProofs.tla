---------------------------- MODULE ClusterProofs ----------------------------
(***************************************************************************)
(* The nodes together: what joins, restarts and lost hosts do to the       *)
(* members of etcd and their data, and what boots at the same time do to   *)
(* the records they migrate; for any number of nodes, records and          *)
(* failures.                                                               *)
(***************************************************************************)
EXTENDS EtcdMembership, ClusterBoot, FiniteSetTheorems, TLAPS

-----------------------------------------------------------------------------
(* The members of etcd (EtcdMembership).                                   *)

Booting == BootPc \cup {"off"}

\* Where a node stands while voters fail one at a time: what has the data of the
\* cluster knows its password, or is about to, and keeps its configuration; and a
\* node that boots is a voter, the only one, and has its data.
Sound(n) ==
    /\ n \in mVoters => mData[n] = "cluster"
    /\ mData[n] # "own" => /\ mConf[n] /\ (mPc[n] = "creds" \/ mAuth[n] = "cluster")
                           /\ mPc[n] \notin {"ask", "add", "migrate"}
    /\ mPc[n] = "creds" => mData[n] # "own"
    /\ mPc[n] \in Booting => /\ n \in mVoters /\ mPc[n] # "wipe"
                             /\ \A m \in MemNode \ {n} : mPc[m] \notin Booting
    /\ n \in mVoters /\ mPc[n] \notin {"off", "create"} => mCtr[n] = "running"

\* The primary asks nobody to be let in, and stays.
PrimaryStays == Primary \in mVoters /\ mPc[Primary] \notin JoinPc

MemInv ==
    /\ MemTypeOK /\ PrimaryStays
    /\ OneVoterAtATime => \A n \in MemNode : Sound(n)
    /\ mFaults = 0 => OneVoterAtATime /\ \A n \in MemNode : mPc[n] \notin Booting

-----------------------------------------------------------------------------
(* A cluster all of whose voters serve has a quorum.                       *)

LEMMA AllAreMost ==
    ASSUME MemTypeOK, PrimaryStays
    PROVE  Majority(mVoters)
<1>1. IsFiniteSet(mVoters)
    BY FS_Subset, MembershipAssumption DEF MemTypeOK
<1>2. Cardinality(mVoters) \in Nat /\ Cardinality(mVoters) # 0
    BY <1>1, FS_CardinalityType, FS_EmptySet DEF PrimaryStays
<1> QED
    BY <1>2 DEF Majority

LEMMA AllServe ==
    ASSUME MemTypeOK, PrimaryStays, \A n \in mVoters : Serves(n)
    PROVE  HasQuorum
<1>1. {n \in mVoters : Serves(n)} = mVoters
    OBVIOUS
<1> QED
    BY <1>1, AllAreMost DEF HasQuorum

\* A node that boots finds the others serving, and once its own etcd runs there
\* is a quorum.
LEMMA BootsToQuorum ==
    ASSUME MemInv, OneVoterAtATime, NEW n \in MemNode, mPc[n] \in BootPc, mPc[n] # "create"
    PROVE  n \in mVoters /\ mData[n] = "cluster" /\ mAuth[n] = "cluster" /\ HasQuorum
<1>1. \A m \in MemNode : Sound(m)
    BY DEF MemInv
<1>2. n \in mVoters /\ mData[n] = "cluster" /\ mAuth[n] = "cluster"
    BY <1>1 DEF Sound, Booting, BootPc
<1>3. \A m \in mVoters : Serves(m)
    <2> SUFFICES ASSUME NEW m \in mVoters PROVE Serves(m)
        OBVIOUS
    <2>1. m \in MemNode /\ mData[m] = "cluster"
        BY <1>1 DEF MemInv, MemTypeOK, Sound
    <2>2. mPc[m] \notin {"off", "create"}
        BY <1>1, <2>1 DEF Sound, Booting, BootPc
    <2> QED
        BY <1>1, <2>1, <2>2 DEF Sound, Serves, Members
<1> QED
    BY <1>2, <1>3, AllServe DEF MemInv

-----------------------------------------------------------------------------
\* A step of n is right if it is for n.
Elsewhere(n) ==
    \A m \in MemNode \ {n} :
        /\ mPc'[m] = mPc[m] /\ mCtr'[m] = mCtr[m] /\ mData'[m] = mData[m]
        /\ mConf'[m] = mConf[m] /\ mAuth'[m] = mAuth[m] /\ (m \in mVoters' <=> m \in mVoters)

LEMMA NodeMoves ==
    ASSUME MemInv, NEW n \in MemNode, Elsewhere(n), MemTypeOK', PrimaryStays', mFaults' = mFaults,
           mTrouble' = mTrouble \/ mTrouble' = mTrouble \cup {"overlap"},
           mPc'[n] \in Booting => mPc[n] \in Booting,
           OneVoterAtATime => Sound(n)'
    PROVE  MemInv'
<1>1. OneVoterAtATime' <=> OneVoterAtATime
    BY DEF OneVoterAtATime
<1>2. ASSUME OneVoterAtATime, NEW m \in MemNode \ {n} PROVE Sound(m)'
    <2>1. Sound(m)
        BY <1>2 DEF MemInv
    <2>2. mPc[m] \in Booting => \A k \in MemNode \ {m} : mPc'[k] \notin Booting
        BY <2>1 DEF Sound, Elsewhere
    <2> QED
        BY <2>1, <2>2 DEF Sound, Elsewhere
<1>3. mFaults = 0 => \A m \in MemNode : mPc'[m] \notin Booting
    BY DEF MemInv, Elsewhere
<1> QED
    BY <1>1, <1>2, <1>3 DEF MemInv

\* ... and all the more when it moves neither the members nor a join of the
\* primary.
LEMMA BootMoves ==
    ASSUME MemInv, NEW n \in MemNode, Elsewhere(n), MemTypeOK', mPc[n] \in Booting,
           mPc'[n] \notin JoinPc, UNCHANGED <<mVoters, mTrouble, mFaults>>,
           OneVoterAtATime => Sound(n)'
    PROVE  MemInv'
<1>1. PrimaryStays'
    BY MembershipAssumption DEF MemInv, PrimaryStays, Elsewhere
<1> QED
    BY <1>1, NodeMoves

LEMMA MemBootHolds ==
    ASSUME MemInv, NEW n \in MemNode, MemBoot(n)
    PROVE  MemInv'
<1>1. /\ mPc[n] = "off" /\ mPc'[n] \in {"check", "create"} /\ Elsewhere(n)
      /\ mPc'[n] = "check" => mCtr'[n] = "running"
      /\ UNCHANGED <<mData, mConf, mAuth, mVoters, mTrouble, mFaults>>
    BY DEF MemInv, MemTypeOK, MemBoot, Elsewhere
<1>2. MemTypeOK'
    BY DEF MemInv, MemTypeOK, MemBoot, BootPc
<1>3. OneVoterAtATime => Sound(n)'
    BY <1>1 DEF MemInv, Sound, Booting, BootPc, Elsewhere
<1> QED
    BY <1>1, <1>2, <1>3, BootMoves DEF Booting, JoinPc

LEMMA CheckHolds ==
    ASSUME MemInv, NEW n \in MemNode, Check(n)
    PROVE  MemInv'
<1>1. /\ mPc[n] = "check" /\ mPc'[n] = (IF Healthy(n) THEN "run" ELSE "wipe") /\ Elsewhere(n)
      /\ UNCHANGED <<mCtr, mData, mConf, mAuth, mVoters, mTrouble, mFaults>>
    BY DEF MemInv, MemTypeOK, Check, Elsewhere
<1>2. MemTypeOK'
    BY DEF MemInv, MemTypeOK, Check, BootPc
<1>3. ASSUME OneVoterAtATime PROVE Sound(n)'
    <2>1. Sound(n)
        BY <1>3 DEF MemInv
    <2>2. Healthy(n)
        BY <1>1, <1>3, <2>1, BootsToQuorum DEF Healthy, Sound, BootPc
    <2> QED
        BY <1>1, <2>1, <2>2 DEF Sound, Booting, BootPc
<1> QED
    BY <1>1, <1>2, <1>3, BootMoves DEF Booting, BootPc, JoinPc

LEMMA WipeHolds ==
    ASSUME MemInv, NEW n \in MemNode, Wipe(n)
    PROVE  MemInv'
<1>1. /\ mPc[n] = "wipe" /\ mPc'[n] = "create" /\ Elsewhere(n)
      /\ UNCHANGED <<mVoters, mTrouble, mFaults>>
    BY DEF MemInv, MemTypeOK, Wipe, Elsewhere
<1>2. MemTypeOK'
    BY DEF MemInv, MemTypeOK, Wipe, BootPc
<1>3. ~OneVoterAtATime
    BY <1>1 DEF MemInv, Sound, Booting, BootPc
<1> QED
    BY <1>1, <1>2, <1>3, BootMoves DEF Booting, BootPc, JoinPc

LEMMA CreateHolds ==
    ASSUME MemInv, NEW n \in MemNode, Create(n)
    PROVE  MemInv'
<1>1. /\ mPc[n] = "create" /\ mPc'[n] = "auth" /\ mCtr'[n] = "running" /\ Elsewhere(n)
      /\ mData'[n] = (IF mConf[n] /\ mData[n] # "empty" THEN mData[n] ELSE "own")
      /\ UNCHANGED <<mConf, mAuth, mVoters, mTrouble, mFaults>>
    BY DEF MemInv, MemTypeOK, Create, Elsewhere
<1>2. MemTypeOK'
    BY DEF MemInv, MemTypeOK, Create, BootPc
<1>3. OneVoterAtATime => Sound(n)'
    BY <1>1 DEF MemInv, Sound, Booting, BootPc, Elsewhere
<1> QED
    BY <1>1, <1>2, <1>3, BootMoves DEF Booting, BootPc, JoinPc

LEMMA AuthHolds ==
    ASSUME MemInv, NEW n \in MemNode, Auth(n)
    PROVE  MemInv'
<1>1. /\ mPc[n] = "auth" /\ mPc'[n] = "conf" /\ Elsewhere(n)
      /\ mAuth'[n] = (IF mData[n] = "own" THEN "own"
                      ELSE IF n \in mVoters /\ HasQuorum THEN mAuth[n] ELSE "wrong")
      /\ UNCHANGED <<mCtr, mData, mConf, mVoters, mTrouble, mFaults>>
    BY DEF MemInv, MemTypeOK, Auth, Elsewhere
<1>2. MemTypeOK'
    BY DEF MemInv, MemTypeOK, Auth, BootPc
<1>3. ASSUME OneVoterAtATime PROVE Sound(n)'
    <2>1. mAuth'[n] = mAuth[n] /\ Sound(n)
        BY <1>1, <1>3, BootsToQuorum DEF MemInv, BootPc
    <2> QED
        BY <1>1, <2>1 DEF Sound, Booting, BootPc, Elsewhere
<1> QED
    BY <1>1, <1>2, <1>3, BootMoves DEF Booting, BootPc, JoinPc

LEMMA WriteConfHolds ==
    ASSUME MemInv, NEW n \in MemNode, WriteConf(n)
    PROVE  MemInv'
<1>1. /\ mPc[n] = "conf" /\ mPc'[n] = "run" /\ mConf'[n] = TRUE /\ Elsewhere(n)
      /\ UNCHANGED <<mCtr, mData, mAuth, mVoters, mTrouble, mFaults>>
    BY DEF MemInv, MemTypeOK, WriteConf, Elsewhere
<1>2. MemTypeOK'
    BY DEF MemInv, MemTypeOK, WriteConf, BootPc
<1>3. OneVoterAtATime => Sound(n)'
    BY <1>1 DEF MemInv, Sound, Booting, BootPc
<1> QED
    BY <1>1, <1>2, <1>3, BootMoves DEF Booting, BootPc, JoinPc

-----------------------------------------------------------------------------
(* Joins.                                                                  *)

LEMMA AskHolds ==
    ASSUME MemInv, NEW n \in MemNode, Ask(n)
    PROVE  MemInv'
<1>1. /\ mPc[n] = "run" /\ mPc'[n] = "ask" /\ n # Primary /\ mData[n] = "own" /\ Elsewhere(n)
      /\ UNCHANGED <<mCtr, mData, mConf, mAuth, mVoters, mFaults>>
      /\ mTrouble' = mTrouble \/ mTrouble' = mTrouble \cup {"overlap"}
    BY DEF MemInv, MemTypeOK, Ask, Elsewhere
<1>2. MemTypeOK'
    BY <1>1 DEF MemInv, MemTypeOK, Ask, JoinPc
<1>3. OneVoterAtATime => Sound(n)'
    BY <1>1 DEF MemInv, Sound, Booting, BootPc
<1>4. PrimaryStays'
    BY <1>1, MembershipAssumption DEF MemInv, PrimaryStays, Elsewhere
<1> QED
    BY <1>1, <1>2, <1>3, <1>4, NodeMoves DEF Booting, BootPc

\* The one that is removed has no data of the cluster, so it is no voter as long
\* as voters fail one at a time.
LEMMA RemoveStaleHolds ==
    ASSUME MemInv, NEW n \in MemNode, RemoveStale(n)
    PROVE  MemInv'
<1>1. /\ mPc[n] = "ask" /\ mPc'[n] = "add" /\ n # Primary /\ Elsewhere(n)
      /\ mVoters' = mVoters \/ mVoters' = mVoters \ {n}
      /\ UNCHANGED <<mCtr, mData, mConf, mAuth, mTrouble, mFaults>>
    BY DEF MemInv, MemTypeOK, PrimaryStays, RemoveStale, Elsewhere, JoinPc
<1>2. MemTypeOK'
    BY <1>1 DEF MemInv, MemTypeOK, RemoveStale, JoinPc
<1>3. OneVoterAtATime => Sound(n)'
    BY <1>1 DEF MemInv, Sound, Booting, BootPc
<1>4. PrimaryStays'
    BY <1>1, MembershipAssumption DEF MemInv, PrimaryStays, Elsewhere
<1> QED
    BY <1>1, <1>2, <1>3, <1>4, NodeMoves DEF Booting, BootPc

LEMMA AddMemberHolds ==
    ASSUME MemInv, NEW n \in MemNode, AddMember(n)
    PROVE  MemInv'
<1>1. /\ mPc[n] = "add" /\ mPc'[n] \in {"migrate", "run"} /\ n # Primary /\ Elsewhere(n)
      /\ UNCHANGED <<mCtr, mData, mConf, mAuth, mVoters, mTrouble, mFaults>>
    BY DEF MemInv, MemTypeOK, PrimaryStays, AddMember, Elsewhere, JoinPc
<1>2. MemTypeOK'
    BY DEF MemInv, MemTypeOK, AddMember, JoinPc, Members, NamedMembers
<1>3. OneVoterAtATime => Sound(n)'
    BY <1>1 DEF MemInv, Sound, Booting, BootPc
<1>4. PrimaryStays'
    BY <1>1, MembershipAssumption DEF MemInv, PrimaryStays, Elsewhere
<1> QED
    BY <1>1, <1>2, <1>3, <1>4, NodeMoves DEF Booting, BootPc

LEMMA AskFailsHolds ==
    ASSUME MemInv, NEW n \in MemNode, AskFails(n)
    PROVE  MemInv'
<1>1. /\ mPc[n] \in {"ask", "add"} /\ mPc'[n] = "run" /\ n # Primary /\ Elsewhere(n)
      /\ UNCHANGED <<mCtr, mData, mConf, mAuth, mVoters, mTrouble, mFaults>>
    BY DEF MemInv, MemTypeOK, PrimaryStays, AskFails, Elsewhere, JoinPc
<1>2. MemTypeOK'
    BY DEF MemInv, MemTypeOK, AskFails
<1>3. OneVoterAtATime => Sound(n)'
    BY <1>1 DEF MemInv, Sound, Booting, BootPc
<1>4. PrimaryStays'
    BY <1>1, MembershipAssumption DEF MemInv, PrimaryStays, Elsewhere
<1> QED
    BY <1>1, <1>2, <1>3, <1>4, NodeMoves DEF Booting, BootPc

LEMMA MigrateHolds ==
    ASSUME MemInv, NEW n \in MemNode, Migrate(n)
    PROVE  MemInv'
<1>1. /\ mPc[n] = "migrate" /\ mPc'[n] = "creds" /\ n # Primary /\ Elsewhere(n)
      /\ mData'[n] = "empty" /\ mCtr'[n] = "running" /\ mConf'[n] = TRUE
      /\ UNCHANGED <<mAuth, mVoters, mTrouble, mFaults>>
    BY DEF MemInv, MemTypeOK, PrimaryStays, Migrate, Elsewhere, JoinPc
<1>2. MemTypeOK'
    BY DEF MemInv, MemTypeOK, Migrate, JoinPc
<1>3. OneVoterAtATime => Sound(n)'
    BY <1>1 DEF MemInv, Sound, Booting, BootPc
<1>4. PrimaryStays'
    BY <1>1, MembershipAssumption DEF MemInv, PrimaryStays, Elsewhere
<1> QED
    BY <1>1, <1>2, <1>3, <1>4, NodeMoves DEF Booting, BootPc

LEMMA SaveCredsHolds ==
    ASSUME MemInv, NEW n \in MemNode, SaveCreds(n)
    PROVE  MemInv'
<1>1. /\ mPc[n] = "creds" /\ mPc'[n] = "run" /\ mAuth'[n] = "cluster" /\ n # Primary /\ Elsewhere(n)
      /\ UNCHANGED <<mCtr, mData, mConf, mVoters, mTrouble, mFaults>>
    BY DEF MemInv, MemTypeOK, PrimaryStays, SaveCreds, Elsewhere, JoinPc
<1>2. MemTypeOK'
    BY DEF MemInv, MemTypeOK, SaveCreds
<1>3. OneVoterAtATime => Sound(n)'
    BY <1>1 DEF MemInv, Sound, Booting, BootPc
<1>4. PrimaryStays'
    BY <1>1, MembershipAssumption DEF MemInv, PrimaryStays, Elsewhere
<1> QED
    BY <1>1, <1>2, <1>3, <1>4, NodeMoves DEF Booting, BootPc

LEMMA EtcdStartHolds ==
    ASSUME MemInv, NEW n \in MemNode, EtcdStart(n)
    PROVE  MemInv'
<1>1. /\ mData[n] = "empty" /\ mData'[n] = "cluster" /\ Elsewhere(n)
      /\ UNCHANGED <<mPc, mCtr, mConf, mAuth, mVoters, mTrouble, mFaults>>
    BY DEF MemInv, MemTypeOK, EtcdStart, Elsewhere
<1>2. MemTypeOK'
    BY DEF MemInv, MemTypeOK, EtcdStart
<1>3. OneVoterAtATime => Sound(n)'
    BY <1>1 DEF MemInv, Sound
<1> QED
    BY <1>1, <1>2, <1>3, NodeMoves DEF MemInv, PrimaryStays

LEMMA PromoteHolds ==
    ASSUME MemInv, NEW n \in MemNode, Promote(n)
    PROVE  MemInv'
<1>1. /\ mData[n] = "cluster" /\ mCtr[n] = "running" /\ mVoters' = mVoters \cup {n} /\ Elsewhere(n)
      /\ UNCHANGED <<mPc, mCtr, mData, mConf, mAuth, mTrouble, mFaults>>
    BY DEF MemInv, MemTypeOK, Promote, Serves, Elsewhere
<1>2. MemTypeOK'
    BY DEF MemInv, MemTypeOK, Promote
<1>3. OneVoterAtATime => Sound(n)'
    BY <1>1 DEF MemInv, Sound
<1> QED
    BY <1>1, <1>2, <1>3, NodeMoves DEF MemInv, PrimaryStays

-----------------------------------------------------------------------------
LEMMA DownHolds ==
    ASSUME MemInv, NEW n \in MemNode, Down(n)
    PROVE  MemInv'
<1>1. /\ mPc[n] # "off" /\ mPc'[n] = "off" /\ mFaults' = mFaults + 1 /\ mFaults \in Nat
      /\ \A m \in MemNode \ {n} : mPc'[m] = mPc[m] /\ mCtr'[m] = mCtr[m]
      /\ UNCHANGED <<mData, mConf, mAuth, mGiven, mVoters, mLearners>>
    BY MembershipAssumption DEF MemInv, MemTypeOK, Down
<1>2. MemTypeOK'
    <2>1. mFaults' \in 0 .. MemMaxFaults
        BY MembershipAssumption DEF MemInv, MemTypeOK, Down
    <2>2. mTrouble' \subseteq {"voterDown", "joinerDown", "together", "overlap"}
        BY DEF MemInv, MemTypeOK, Down
    <2>3. mCtr' \in [MemNode -> {"none", "stopped", "running"}]
        BY DEF MemInv, MemTypeOK, Down
    <2> QED
        BY <1>1, <2>1, <2>2, <2>3 DEF MemInv, MemTypeOK, Down
<1>3. ASSUME OneVoterAtATime'
      PROVE  /\ OneVoterAtATime /\ n \in mVoters /\ mPc[n] \notin JoinPc
             /\ \A m \in MemNode : mPc[m] \notin Booting
    BY <1>3 DEF OneVoterAtATime, Down, Booting
<1>4. ASSUME OneVoterAtATime', NEW m \in MemNode PROVE Sound(m)'
    <2>1. Sound(m) /\ Sound(n)
        BY <1>3, <1>4 DEF MemInv
    <2>2. CASE m = n
        BY <1>1, <1>3, <1>4, <2>1, <2>2 DEF Sound, Booting, JoinPc
    <2>3. CASE m # n
        BY <1>1, <1>3, <1>4, <2>1, <2>3 DEF Sound
    <2> QED
        BY <2>2, <2>3
<1>5. PrimaryStays'
    BY <1>1, MembershipAssumption DEF MemInv, PrimaryStays, JoinPc
<1> QED
    BY <1>1, <1>2, <1>4, <1>5 DEF MemInv

LEMMA MemInitHolds ==
    ASSUME MemInit
    PROVE  MemInv
BY MembershipAssumption DEF MemInit, MemInv, MemTypeOK, PrimaryStays, OneVoterAtATime, Sound,
                            Booting, BootPc, JoinPc

LEMMA MemInvariance ==
    MemSpec => []MemInv
<1>1. MemInit => MemInv
    BY MemInitHolds
<1>2. MemInv /\ [MemNext]_memVars => MemInv'
    <2> SUFFICES ASSUME MemInv, [MemNext]_memVars PROVE MemInv'
        OBVIOUS
    <2>1. CASE UNCHANGED memVars
        BY <2>1 DEF memVars, MemInv, MemTypeOK, PrimaryStays, OneVoterAtATime, Sound
    <2> QED
        BY <2>1, MemBootHolds, CheckHolds, WipeHolds, CreateHolds, AuthHolds, WriteConfHolds,
           AskHolds, RemoveStaleHolds, AddMemberHolds, AskFailsHolds, MigrateHolds,
           SaveCredsHolds, EtcdStartHolds, PromoteHolds, DownHolds
        DEF MemNext, BootStep, JoinStep
<1> QED
    BY <1>1, <1>2, PTL DEF MemSpec

\* Every variable stays in its type.
THEOREM MembershipTypeCorrect == MemSpec => []MemTypeOK
<1>1. MemInv => MemTypeOK
    BY DEF MemInv
<1> QED
    BY <1>1, MemInvariance, PTL

\* Any number of joins, at any time, leave the cluster its quorum as long as no
\* backend fails: a member gets its vote from a node that sees it serve.
THEOREM JoinsKeepQuorum == MemSpec => []JoinKeepsQuorum
<1>1. MemInv => JoinKeepsQuorum
    <2> SUFFICES ASSUME MemInv, mFaults = 0 PROVE HasQuorum
        BY DEF JoinKeepsQuorum
    <2>1. \A n \in mVoters : Serves(n)
        BY DEF MemInv, MemTypeOK, Sound, Booting, BootPc, Serves, Members
    <2> QED
        BY <2>1, AllServe DEF MemInv
<1> QED
    BY <1>1, MemInvariance, PTL

\* No boot wipes the data of the cluster while voters fail one at a time: all
\* voters keep it, and those whose backend runs know its password.
THEOREM VotersKeepData == MemSpec => []DataSurvives
<1>1. MemInv => DataSurvives
    <2> SUFFICES ASSUME MemInv, OneVoterAtATime
                 PROVE  /\ Majority({n \in mVoters : mData[n] = "cluster"})
                        /\ \A n \in mVoters :
                               mPc[n] = "run" /\ mData[n] = "cluster" => mAuth[n] = "cluster"
        BY DEF DataSurvives
    <2>1. \A n \in mVoters : Sound(n)
        BY DEF MemInv, MemTypeOK
    <2>2. {n \in mVoters : mData[n] = "cluster"} = mVoters
        BY <2>1 DEF Sound
    <2> QED
        BY <2>1, <2>2, AllAreMost DEF MemInv, Sound
<1> QED
    BY <1>1, MemInvariance, PTL

-----------------------------------------------------------------------------
(* Migrations (ClusterBoot).                                               *)

Copies == UNION {[D -> RecType] : D \in SUBSET Rec}
AtWork(n) == bPc[n] \in {"write", "mark"}

BootTypes ==
    /\ bRec \in [Rec -> RecType] /\ bLatest \in [Rec -> 0 .. MaxWrites]
    /\ bApplied \subseteq Mig
    /\ bPc \in [BNode -> {"down", "sealed", "etcd", "nginx", "timer", "load", "read", "write", "mark",
                          "serve", "failed"}]
    /\ bMig \in [BNode -> 1 .. Last + 1] /\ bKnown \in [BNode -> SUBSET Mig]
    /\ bRead \in [BNode -> Copies] /\ bWriter \in Copies
    /\ bRaced \subseteq Rec /\ bHalf \in BOOLEAN /\ bBlind \subseteq Mig
    /\ bWrites \in 0 .. MaxWrites /\ bFaults \in 0 .. BMaxFaults
    /\ DOMAIN bWriter # {} => bWrites < MaxWrites

\* A node takes the migrations in their order, and for applied what is.
KnownInOrder(n) ==
    /\ bKnown[n] \subseteq bApplied /\ (2 \in bKnown[n] => 1 \in bKnown[n])
    /\ n \in Migrating => \A m \in Mig : m < bMig[n] => m \in bKnown[n]
    /\ bPc[n] \in {"read", "write", "mark"} => bMig[n] \in Mig \ bKnown[n]
    /\ bPc[n] # "write" => bRead[n] = NoCopy

\* A record no change overlapped says what it should, and so do its copies.
Latest(r) ==
    r \notin bRaced =>
        /\ bRec[r].rest = bLatest[r]
        /\ r \in DOMAIN bWriter => bWriter[r] = bRec[r]
        /\ \A n \in BNode : r \in DOMAIN bRead[n] => bRead[n][r].rest = bRec[r].rest

\* The first migration, once it is done to a record, is in every copy that is
\* written back later.
FirstStays(r) ==
    r \notin bRaced /\ 1 \notin bBlind =>
        /\ 1 \in bApplied => 1 \in bRec[r].done
        /\ \A n \in BNode :
               /\ bMig[n] = 1 /\ AtWork(n) => 1 \in bRec[r].done \/ r \in DOMAIN bRead[n]
               /\ bMig[n] = 2 /\ r \in DOMAIN bRead[n] => 1 \in bRead[n][r].done

\* The node has the second migration before it, or the record in its hands.
Owes(n, r) ==
    /\ n \in Migrating /\ 2 \notin bKnown[n]
    /\ \/ bMig[n] = 1
       \/ bMig[n] = 2 /\ (bPc[n] \in {"load", "read"} \/ r \in DOMAIN bRead[n])

\* The second one may be undone by a node that is still at the first, which then
\* does it again.
SecondReturns(r) ==
    /\ r \notin bRaced /\ 2 \in Mig \ bBlind /\ ~bHalf
    /\ 2 \in bApplied \/ \E n \in BNode : bMig[n] = 2 /\ AtWork(n)
    => 2 \in bRec[r].done \/ \E n \in BNode : Owes(n, r)

BootInv ==
    /\ BootTypes /\ (2 \in bApplied => 1 \in bApplied)
    /\ \A n \in BNode : KnownInOrder(n)
    /\ \A r \in Rec : Latest(r) /\ FirstStays(r) /\ SecondReturns(r)
-----------------------------------------------------------------------------
LEMMA BootFaultsCounted ==
    ASSUME bFaults \in 0 .. BMaxFaults, BootWorks \/ BootFault
    PROVE  bFaults' \in 0 .. BMaxFaults
BY ClusterBootAssumption DEF BootWorks, BootFault

LEMMA Migrations == Mig \in SUBSET {1, 2} /\ 1 \in Mig /\ Last + 1 \in Nat /\ \A m \in Mig : m \in Nat
BY ClusterBootAssumption DEF Mig

\* The nodes but n are where they were.
OtherNodesWait(n) ==
    \A p \in BNode \ {n} :
        bPc'[p] = bPc[p] /\ bMig'[p] = bMig[p] /\ bKnown'[p] = bKnown[p] /\ bRead'[p] = bRead[p]
\* No record changes.
RecordsStay == UNCHANGED <<bRec, bLatest, bWriter, bRaced, bWrites>>
\* What was said stays said.
Grows == bApplied \subseteq bApplied' /\ bBlind \subseteq bBlind' /\ (bHalf => bHalf')

LEMMA OthersOwe ==
    ASSUME NEW n \in BNode, OtherNodesWait(n), NEW p \in BNode \ {n}, NEW r \in Rec
    PROVE  /\ Owes(p, r)' <=> Owes(p, r)
           /\ AtWork(p)' <=> AtWork(p)
           /\ p \in Migrating' <=> p \in Migrating
BY DEF OtherNodesWait, Owes, AtWork, Migrating

\* A step of n that changes no record is right if it is for n.
LEMMA BootNodeMoves ==
    ASSUME BootInv, NEW n \in BNode, OtherNodesWait(n), RecordsStay, Grows, BootTypes',
           2 \in bApplied' => 1 \in bApplied', KnownInOrder(n)',
           \A r \in Rec \ bRaced : r \in DOMAIN bRead'[n] =>
               \/ bRead'[n][r] = bRec[r]
               \/ r \in DOMAIN bRead[n] /\ bRead'[n][r] = bRead[n][r],
           1 \notin bBlind' => \A r \in Rec \ bRaced :
               /\ 1 \in bApplied' => 1 \in bApplied \/ 1 \in bRec[r].done
               /\ bMig'[n] = 1 /\ AtWork(n)' => 1 \in bRec[r].done \/ r \in DOMAIN bRead'[n]
               /\ bMig'[n] = 2 /\ r \in DOMAIN bRead'[n] => 1 \in bRead'[n][r].done,
           \A r \in Rec \ bRaced : SecondReturns(r)'
    PROVE  BootInv'
<1>1. ASSUME NEW p \in BNode PROVE KnownInOrder(p)'
    <2>1. CASE p = n
        BY <2>1
    <2>2. CASE p # n
        BY <2>2 DEF BootInv, KnownInOrder, OtherNodesWait, Grows, Migrating
    <2> QED
        BY <2>1, <2>2
<1>2. ASSUME NEW r \in Rec PROVE Latest(r)'
    <2>1. Latest(r)
        BY DEF BootInv
    <2> SUFFICES ASSUME r \notin bRaced, NEW p \in BNode, r \in DOMAIN bRead'[p]
                 PROVE  bRead'[p][r].rest = bRec[r].rest
        BY <2>1 DEF Latest, RecordsStay
    <2>2. CASE p = n
        BY <2>1, <2>2 DEF Latest
    <2>3. CASE p # n
        BY <2>1, <2>3 DEF Latest, OtherNodesWait
    <2> QED
        BY <2>2, <2>3
<1>3. ASSUME NEW r \in Rec PROVE FirstStays(r)'
    <2>1. FirstStays(r)
        BY DEF BootInv
    <2> SUFFICES ASSUME r \notin bRaced, 1 \notin bBlind'
                 PROVE  /\ 1 \in bApplied' => 1 \in bRec[r].done
                        /\ \A p \in BNode :
                             /\ bMig'[p] = 1 /\ AtWork(p)' => 1 \in bRec[r].done \/ r \in DOMAIN bRead'[p]
                             /\ bMig'[p] = 2 /\ r \in DOMAIN bRead'[p] => 1 \in bRead'[p][r].done
        BY DEF FirstStays, RecordsStay
    <2>2. 1 \notin bBlind
        BY DEF Grows
    <2>3. 1 \in bApplied' => 1 \in bRec[r].done
        BY <2>1, <2>2 DEF FirstStays
    <2>4. ASSUME NEW p \in BNode \ {n}
          PROVE  /\ bMig'[p] = 1 /\ AtWork(p)' => 1 \in bRec[r].done \/ r \in DOMAIN bRead'[p]
                 /\ bMig'[p] = 2 /\ r \in DOMAIN bRead'[p] => 1 \in bRead'[p][r].done
        BY <2>1, <2>2, OthersOwe DEF FirstStays, OtherNodesWait
    <2> QED
        BY <2>3, <2>4
<1>4. ASSUME NEW r \in Rec PROVE SecondReturns(r)'
    BY DEF SecondReturns, RecordsStay
<1> QED
    BY <1>1, <1>2, <1>3, <1>4 DEF BootInv

\* What n owes it still owes, and it starts or marks the second migration only
\* when nobody is owed more.
LEMMA DebtsStay ==
    ASSUME BootInv, NEW n \in BNode, OtherNodesWait(n), RecordsStay, Grows, NEW r \in Rec \ bRaced,
           2 \in Mig /\ Owes(n, r) => Owes(n, r)',
           2 \in bApplied' => 2 \in bApplied \/ (bMig[n] = 2 /\ AtWork(n)),
           2 \in Mig \ bBlind' /\ bMig'[n] = 2 /\ AtWork(n)' =>
               (bMig[n] = 2 /\ AtWork(n)) \/ 2 \in bRec[r].done \/ Owes(n, r)'
    PROVE  SecondReturns(r)'
<1> SUFFICES ASSUME 2 \in Mig \ bBlind', ~bHalf',
                    2 \in bApplied' \/ \E p \in BNode : bMig'[p] = 2 /\ AtWork(p)',
                    2 \notin bRec[r].done
             PROVE  \E p \in BNode : Owes(p, r)'
    BY DEF SecondReturns, RecordsStay
<1>1. 2 \in Mig \ bBlind /\ ~bHalf
    BY DEF Grows
<1>2. ASSUME \E p \in BNode : Owes(p, r) PROVE \E p \in BNode : Owes(p, r)'
    BY <1>1, <1>2, OthersOwe
<1>3. ASSUME 2 \in bApplied \/ \E p \in BNode : bMig[p] = 2 /\ AtWork(p)
      PROVE  \E p \in BNode : Owes(p, r)
    BY <1>1, <1>3 DEF BootInv, SecondReturns
<1>4. \/ Owes(n, r)'
      \/ 2 \in bApplied \/ \E p \in BNode : bMig[p] = 2 /\ AtWork(p)
    BY OthersOwe DEF OtherNodesWait
<1> QED
    BY <1>2, <1>3, <1>4

-----------------------------------------------------------------------------
LEMMA StartBackendHolds ==
    ASSUME BootInv, NEW n \in BNode, StartBackend(n) \/ UnsealNode(n)
    PROVE  BootInv'
<1>1. /\ bPc[n] \in {"down", "sealed", "etcd", "nginx"} /\ bPc'[n] \in {"nginx", "sealed", "etcd", "timer"}
      /\ bPc' = [bPc EXCEPT ![n] = bPc'[n]]
      /\ BootWorks \/ BootFault
    BY DEF BootInv, BootTypes, StartBackend, UnsealNode, BootGo, BootWorks
<1>2. OtherNodesWait(n) /\ RecordsStay /\ Grows /\ UNCHANGED <<bMig, bKnown, bRead, bData>>
    BY <1>1 DEF OtherNodesWait, RecordsStay, Grows, bData, BootInv, BootTypes, StartBackend, UnsealNode
<1>3. BootTypes'
    BY <1>1, <1>2, BootFaultsCounted DEF BootInv, BootTypes, bData
<1>4. KnownInOrder(n)'
    BY <1>1, <1>2 DEF BootInv, KnownInOrder, Migrating, bData
<1>5. ~AtWork(n)' /\ DOMAIN bRead'[n] = {} /\ n \notin Migrating
    BY <1>1, <1>2 DEF BootInv, KnownInOrder, AtWork, Migrating, NoCopy
<1>6. ASSUME NEW r \in Rec \ bRaced PROVE SecondReturns(r)'
    BY <1>2, <1>5, DebtsStay DEF Owes, bData
<1> QED
    BY <1>2, <1>3, <1>4, <1>5, <1>6, BootNodeMoves DEF BootInv, bData
LEMMA LoadAppliedHolds ==
    ASSUME BootInv, NEW n \in BNode, LoadApplied(n)
    PROVE  BootInv'
<1>1. /\ bPc[n] = "timer" /\ bPc'[n] = "load" /\ bMig'[n] = 1
      /\ bKnown'[n] = bApplied \/ bKnown'[n] = {}
      /\ OtherNodesWait(n) /\ RecordsStay /\ Grows /\ UNCHANGED <<bRead, bData>>
    BY DEF BootInv, BootTypes, LoadApplied, BootGo, OtherNodesWait, RecordsStay, Grows, bData
<1>2. BootTypes'
    <2>1. 1 \in 1 .. Last + 1
        BY ClusterBootAssumption
    <2>2. BootWorks \/ BootFault
        BY DEF LoadApplied
    <2>3. bFaults' \in 0 .. BMaxFaults
        BY <2>2, BootFaultsCounted DEF BootInv, BootTypes
    <2> QED
        BY <2>1, <2>3 DEF BootInv, BootTypes, LoadApplied, BootGo, bData
<1>3. KnownInOrder(n)'
    <2>1. bRead[n] = NoCopy /\ (2 \in bApplied => 1 \in bApplied)
        BY <1>1 DEF BootInv, KnownInOrder
    <2>2. \A m \in Mig : ~(m < 1)
        BY DEF Mig
    <2> QED
        BY <1>1, <2>1, <2>2 DEF KnownInOrder, bData
<1>4. ~AtWork(n)' /\ DOMAIN bRead'[n] = {} /\ n \notin Migrating
    BY <1>1 DEF BootInv, KnownInOrder, AtWork, Migrating, NoCopy
<1>5. ASSUME NEW r \in Rec \ bRaced PROVE SecondReturns(r)'
    BY <1>1, <1>4, DebtsStay DEF Owes, bData
<1> QED
    BY <1>1, <1>2, <1>3, <1>4, <1>5, BootNodeMoves DEF BootInv, bData

LEMMA NextMigrationHolds ==
    ASSUME BootInv, NEW n \in BNode, NextMigration(n)
    PROVE  BootInv'
<1>1. /\ bPc[n] = "load" /\ OtherNodesWait(n) /\ RecordsStay /\ Grows
      /\ UNCHANGED <<bKnown, bRead, bData, bFaults>>
      /\ \/ bMig[n] > Last /\ bPc'[n] = "serve" /\ bMig'[n] = bMig[n]
         \/ bMig[n] \in bKnown[n] /\ bPc'[n] = "load" /\ bMig'[n] = bMig[n] + 1
         \/ /\ ~(bMig[n] > Last) /\ bMig[n] \notin bKnown[n]
            /\ bPc'[n] = "read" /\ bMig'[n] = bMig[n]
    BY DEF BootInv, BootTypes, NextMigration, BootGo, OtherNodesWait, RecordsStay, Grows, bData
<1>2. bMig[n] \in 1 .. Last + 1 /\ n \in Migrating /\ KnownInOrder(n) /\ bKnown[n] \subseteq Mig
    BY <1>1 DEF BootInv, BootTypes, Migrating
<1>3. BootTypes'
    <2>1. bMig[n] \in bKnown[n] => bMig[n] + 1 \in 1 .. Last + 1
        BY <1>2, ClusterBootAssumption DEF Mig
    <2> QED
        BY <1>1, <2>1 DEF BootInv, BootTypes, NextMigration, BootGo, bData
<1>4. KnownInOrder(n)'
    <2>1. bRead[n] = NoCopy
        BY <1>1, <1>2 DEF KnownInOrder
    <2>2. bMig[n] \in bKnown[n] => \A m \in Mig : m < bMig[n] + 1 => m \in bKnown[n]
        BY <1>2 DEF KnownInOrder, Mig
    <2>3. ~(bMig[n] > Last) => bMig[n] \in Mig
        BY <1>2, ClusterBootAssumption DEF Mig
    <2> QED
        BY <1>1, <1>2, <2>1, <2>2, <2>3 DEF KnownInOrder, Migrating, bData
<1>5. ~AtWork(n)' /\ DOMAIN bRead'[n] = {}
    BY <1>1, <1>2 DEF KnownInOrder, AtWork, NoCopy
<1>6. ASSUME NEW r \in Rec \ bRaced PROVE SecondReturns(r)'
    <2>1. ASSUME 2 \in Mig, Owes(n, r) PROVE Owes(n, r)'
        <3>1. 2 \notin bKnown[n] /\ Last = 2
            BY <2>1, ClusterBootAssumption DEF Owes, Mig
        <3>2. bMig[n] = 1 \/ bMig[n] = 2
            BY <2>1 DEF Owes
        <3>3. bPc'[n] \in {"load", "read"} /\ (bMig'[n] = 1 \/ bMig'[n] = 2)
            BY <1>1, <3>1, <3>2
        <3> QED
            BY <1>1, <3>1, <3>3 DEF Owes, Migrating
    <2> QED
        BY <1>1, <1>5, <2>1, DebtsStay DEF bData
<1> QED
    BY <1>1, <1>3, <1>4, <1>5, <1>6, BootNodeMoves DEF BootInv, bData

LEMMA RecFields ==
    ASSUME NEW x \in RecType
    PROVE  /\ x.done \subseteq Mig /\ x.rest \in 0 .. MaxWrites
           /\ \A m \in Mig : /\ [x EXCEPT !.done = @ \cup {m}] \in RecType
                             /\ [x EXCEPT !.done = @ \cup {m}].done = x.done \cup {m}
                             /\ [x EXCEPT !.done = @ \cup {m}].rest = x.rest
BY DEF RecType

LEMMA NoCopyIsOne ==
    NoCopy \in Copies /\ DOMAIN NoCopy = {}
BY DEF NoCopy, Copies

LEMMA ReadRecordsHolds ==
    ASSUME BootInv, NEW n \in BNode, ReadRecords(n)
    PROVE  BootInv'
<1> DEFINE R == [r \in {q \in Rec : bMig[n] \notin bRec[q].done} |-> bRec[r]]
<1>1. /\ bPc[n] = "read" /\ bPc'[n] = "write" /\ OtherNodesWait(n) /\ RecordsStay /\ Grows
      /\ UNCHANGED <<bApplied, bMig, bKnown, bHalf>>
      /\ \/ bRead'[n] = R /\ bBlind' = bBlind
         \/ bRead'[n] = bRead[n] /\ bMig[n] \in bBlind'
    BY DEF BootInv, BootTypes, ReadRecords, BootGo, OtherNodesWait, RecordsStay, Grows
<1>2. n \in Migrating /\ KnownInOrder(n) /\ bRead[n] = NoCopy /\ bMig[n] \in Mig \ bKnown[n]
    BY <1>1 DEF BootInv, Migrating, KnownInOrder
<1>3. /\ DOMAIN R = {q \in Rec : bMig[n] \notin bRec[q].done} /\ R \in Copies
      /\ \A r \in DOMAIN R : R[r] = bRec[r]
    <2>1. R \in [{q \in Rec : bMig[n] \notin bRec[q].done} -> RecType]
        BY DEF BootInv, BootTypes
    <2> QED
        BY <2>1 DEF Copies
<1> HIDE DEF R
<1>4. BootTypes'
    <2>1. bRead' \in [BNode -> Copies]
        <3>1. bRead' = bRead \/ bRead' = [bRead EXCEPT ![n] = R]
            BY DEF ReadRecords, R
        <3> QED
            BY <1>3, <3>1 DEF BootInv, BootTypes
    <2>2. bFaults' \in 0 .. BMaxFaults
        BY BootFaultsCounted DEF ReadRecords, BootInv, BootTypes
    <2>3. bBlind' \subseteq Mig
        BY <1>2 DEF ReadRecords, BootInv, BootTypes
    <2> QED
        BY <2>1, <2>2, <2>3 DEF ReadRecords, BootInv, BootTypes, BootGo
<1>5. KnownInOrder(n)'
    BY <1>1, <1>2 DEF KnownInOrder, Migrating
<1>6. \A r \in Rec : r \in DOMAIN bRead'[n] => bRead'[n][r] = bRec[r]
    BY <1>1, <1>2, <1>3, NoCopyIsOne
<1>7. ASSUME 1 \notin bBlind', NEW r \in Rec \ bRaced
      PROVE  /\ bMig'[n] = 1 /\ AtWork(n)' => 1 \in bRec[r].done \/ r \in DOMAIN bRead'[n]
             /\ bMig'[n] = 2 /\ r \in DOMAIN bRead'[n] => 1 \in bRead'[n][r].done
    <2>1. bMig'[n] = 1 => 1 \in bRec[r].done \/ r \in DOMAIN bRead'[n]
        BY <1>1, <1>3, <1>7
    <2>2. ASSUME bMig'[n] = 2 PROVE 1 \in bRec[r].done
        <3>1. 1 \in bApplied
            BY <1>1, <1>2, <2>2, Migrations DEF KnownInOrder
        <3>2. FirstStays(r) /\ 1 \notin bBlind
            BY <1>1, <1>7 DEF BootInv, Grows
        <3> QED
            BY <3>1, <3>2 DEF FirstStays
    <2> QED
        BY <1>6, <2>1, <2>2
<1>8. ASSUME NEW r \in Rec \ bRaced PROVE SecondReturns(r)'
    <2>1. ASSUME 2 \in Mig \ bBlind', bMig'[n] = 2
          PROVE  2 \in bRec[r].done \/ Owes(n, r)'
        BY <1>1, <1>2, <1>3, <2>1 DEF Owes, Migrating
    <2>2. \/ bMig[n] = 1 /\ (Owes(n, r) => Owes(n, r)')
          \/ bMig[n] = 2
        BY <1>1, <1>2, Migrations DEF Owes, Migrating
    <2>3. CASE 2 \in Mig /\ 2 \notin bBlind' /\ bMig[n] = 2 /\ 2 \in bRec[r].done
        BY <1>1, <2>3 DEF SecondReturns, RecordsStay
    <2> QED
        BY <1>1, <2>1, <2>2, <2>3, DebtsStay DEF SecondReturns
<1> QED
    BY <1>1, <1>4, <1>5, <1>6, <1>7, <1>8, BootNodeMoves DEF BootInv

LEMMA MarkAppliedWorks ==
    ASSUME BootInv, NEW n \in BNode, MarkApplied(n), BootWorks,
           bApplied' = bApplied \cup {bMig[n]}, BootGo(n, "load"),
           bKnown' = [bKnown EXCEPT ![n] = @ \cup {bMig[n]}], bHalf' = bHalf
    PROVE  BootInv'
<1>1. /\ bPc[n] = "mark" /\ bPc'[n] = "load" /\ OtherNodesWait(n) /\ RecordsStay /\ Grows
      /\ UNCHANGED <<bMig, bRead, bBlind, bFaults>> /\ bKnown'[n] = bKnown[n] \cup {bMig[n]}
    BY DEF BootInv, BootTypes, MarkApplied, BootGo, BootWorks, OtherNodesWait, RecordsStay, Grows
<1>2. n \in Migrating /\ KnownInOrder(n) /\ bRead[n] = NoCopy /\ bMig[n] \in Mig \ bKnown[n]
    BY <1>1 DEF BootInv, Migrating, KnownInOrder
<1>3. bMig[n] = 1 \/ (bMig[n] = 2 /\ 1 \in bKnown[n] /\ 1 \in bApplied)
    <2>1. bMig[n] = 1 \/ bMig[n] = 2
        BY <1>2, Migrations
    <2>2. bMig[n] = 2 => 1 \in bKnown[n]
        BY <1>2, Migrations DEF KnownInOrder
    <2> QED
        BY <1>2, <2>1, <2>2 DEF KnownInOrder
<1>4. BootTypes'
    <2>1. bApplied' \subseteq Mig /\ bKnown' \in [BNode -> SUBSET Mig]
        BY <1>2 DEF BootInv, BootTypes
    <2> QED
        BY <1>1, <2>1 DEF BootInv, BootTypes, BootGo, RecordsStay, MarkApplied
<1>5. KnownInOrder(n)'
    BY <1>1, <1>2, <1>3 DEF KnownInOrder, Migrating
<1>6. ~AtWork(n)' /\ DOMAIN bRead'[n] = {} /\ AtWork(n)
    BY <1>1, <1>2, NoCopyIsOne DEF AtWork
<1>7. ASSUME 1 \notin bBlind', NEW r \in Rec \ bRaced, 1 \in bApplied'
      PROVE  1 \in bApplied \/ 1 \in bRec[r].done
    <2>1. FirstStays(r)
        BY DEF BootInv
    <2> QED
        BY <1>1, <1>2, <1>3, <1>6, <1>7, <2>1 DEF FirstStays
<1>8. ASSUME NEW r \in Rec \ bRaced PROVE SecondReturns(r)'
    <2>1. ASSUME 2 \in Mig, Owes(n, r) PROVE Owes(n, r)'
        BY <1>1, <1>2, <1>3, <1>6, <2>1 DEF Owes, Migrating
    <2>2. 2 \in bApplied' => 2 \in bApplied \/ (bMig[n] = 2 /\ AtWork(n))
        BY <1>6
    <2> QED
        BY <1>1, <1>6, <2>1, <2>2, DebtsStay
<1> QED
    BY <1>1, <1>3, <1>4, <1>5, <1>6, <1>7, <1>8, BootNodeMoves DEF BootInv
-----------------------------------------------------------------------------
\* A node that stops in the middle and does not set bHalf was the only one, and
\* knew of all that was applied: it owes nothing.
LEMMA StopHolds ==
    ASSUME BootInv, NEW n \in BNode, NEW pc \in {"down", "failed"}, BootFault, BootGo(n, pc),
           StopsHalfway(n), bRead' = [bRead EXCEPT ![n] = NoCopy],
           UNCHANGED <<bRec, bLatest, bApplied, bMig, bKnown, bWriter, bRaced, bBlind, bWrites>>
    PROVE  BootInv'
<1>1. /\ bPc'[n] = pc /\ bRead'[n] = NoCopy /\ OtherNodesWait(n) /\ RecordsStay /\ Grows
      /\ n \notin Migrating'
    BY DEF BootInv, BootTypes, BootGo, StopsHalfway, OtherNodesWait, RecordsStay, Grows, Migrating
<1>2. BootTypes'
    <2>1. bHalf' \in BOOLEAN /\ bFaults' \in 0 .. BMaxFaults
        BY BootFaultsCounted DEF BootInv, BootTypes, StopsHalfway
    <2> QED
        BY <2>1, NoCopyIsOne DEF BootInv, BootTypes, BootGo
<1>3. KnownInOrder(n)'
    BY <1>1 DEF BootInv, KnownInOrder
<1>4. ~AtWork(n)' /\ DOMAIN bRead'[n] = {} /\ \A r \in Rec : ~Owes(n, r)'
    BY <1>1, NoCopyIsOne DEF AtWork, Owes
<1>5. ASSUME NEW r \in Rec \ bRaced PROVE SecondReturns(r)'
    <2> SUFFICES ASSUME 2 \in Mig \ bBlind, ~bHalf', 2 \notin bRec[r].done,
                        2 \in bApplied \/ \E p \in BNode : bMig[p] = 2 /\ AtWork(p)'
                 PROVE  \E p \in BNode : Owes(p, r)'
        BY DEF SecondReturns
    <2>1. ~bHalf /\ (n \in Migrating => Migrating = {n} /\ bApplied \subseteq bKnown[n])
        BY DEF StopsHalfway
    <2>2. 2 \in bApplied \/ \E p \in BNode : bMig[p] = 2 /\ AtWork(p)
        BY <1>4, OthersOwe, <1>1
    <2>3. PICK p \in BNode : Owes(p, r)
        BY <2>1, <2>2 DEF BootInv, SecondReturns
    <2>4. ASSUME p = n PROVE FALSE
        <3>1. n \in Migrating /\ 2 \notin bKnown[n]
            BY <2>3, <2>4 DEF Owes
        <3>2. \A o \in BNode : ~AtWork(o)'
            BY <1>1, <1>4, <2>1, <3>1, OthersOwe DEF AtWork, Migrating
        <3> QED
            BY <2>1, <3>1, <3>2
    <2> QED
        BY <1>1, <2>3, <2>4, OthersOwe
<1> QED
    BY <1>1, <1>2, <1>3, <1>4, <1>5, BootNodeMoves DEF BootInv

LEMMA BackendDiesHolds ==
    ASSUME BootInv, NEW n \in BNode, BackendDies(n)
    PROVE  BootInv'
BY StopHolds DEF BackendDies

LEMMA MarkAppliedHolds ==
    ASSUME BootInv, NEW n \in BNode, MarkApplied(n)
    PROVE  BootInv'
<1>1. CASE BootFault /\ BootGo(n, "failed") /\ StopsHalfway(n) /\ UNCHANGED <<bApplied, bKnown>>
    <2>1. bRead[n] = NoCopy /\ bRead' = bRead
        BY DEF BootInv, KnownInOrder, MarkApplied
    <2>2. bRead' = [bRead EXCEPT ![n] = NoCopy]
        BY <2>1 DEF BootInv, BootTypes
    <2> QED
        BY <1>1, <2>2, StopHolds DEF MarkApplied
<1> QED
    BY <1>1, MarkAppliedWorks DEF MarkApplied

\* A record is written back as it was read, with the migration done to it.
LEMMA WriteOneHolds ==
    ASSUME BootInv, NEW n \in BNode, bPc[n] = "write", NEW r \in DOMAIN bRead[n], BootWorks,
           bRec' = [bRec EXCEPT ![r] = [bRead[n][r] EXCEPT !.done = @ \cup {bMig[n]}]],
           bRead' = [bRead EXCEPT ![n] = [q \in DOMAIN @ \ {r} |-> @[q]]],
           bRaced' = bRaced \cup ({r} \cap DOMAIN bWriter),
           UNCHANGED <<bLatest, bApplied, bPc, bMig, bKnown, bWriter, bHalf, bBlind, bWrites>>
    PROVE  BootInv'
<1>1. /\ n \in Migrating /\ AtWork(n) /\ KnownInOrder(n) /\ bMig[n] \in Mig \ bKnown[n]
      /\ OtherNodesWait(n) /\ Migrating' = Migrating /\ bFaults' = bFaults
    BY DEF BootInv, BootTypes, KnownInOrder, Migrating, AtWork, OtherNodesWait, BootWorks
<1>2. r \in Rec /\ bRead[n][r] \in RecType /\ DOMAIN bRead[n] \subseteq Rec
    <2>1. PICK D \in SUBSET Rec : bRead[n] \in [D -> RecType]
        BY DEF BootInv, BootTypes, Copies
    <2> QED
        BY <2>1
<1>3. /\ bRec'[r] \in RecType /\ bRec'[r].done = bRead[n][r].done \cup {bMig[n]}
      /\ bRec'[r].rest = bRead[n][r].rest
      /\ \A q \in Rec \ {r} : bRec'[q] = bRec[q]
    BY <1>1, <1>2, RecFields DEF BootInv, BootTypes
<1>4. /\ DOMAIN bRead'[n] = DOMAIN bRead[n] \ {r}
      /\ \A q \in DOMAIN bRead'[n] : bRead'[n][q] = bRead[n][q]
    BY DEF BootInv, BootTypes
<1>5. BootTypes'
    <2>1. bRead' \in [BNode -> Copies]
        <3>1. PICK D \in SUBSET Rec : bRead[n] \in [D -> RecType]
            BY DEF BootInv, BootTypes, Copies
        <3>2. [q \in DOMAIN bRead[n] \ {r} |-> bRead[n][q]] \in [D \ {r} -> RecType]
            BY <3>1
        <3>3. [q \in DOMAIN bRead[n] \ {r} |-> bRead[n][q]] \in Copies
            BY <3>2 DEF Copies
        <3> QED
            BY <3>3 DEF BootInv, BootTypes
    <2>2. bRec' \in [Rec -> RecType]
        BY <1>2, <1>3 DEF BootInv, BootTypes
    <2> QED
        BY <1>1, <1>2, <2>1, <2>2 DEF BootInv, BootTypes
<1>6. ASSUME NEW p \in BNode PROVE KnownInOrder(p)'
    <2>1. KnownInOrder(p) /\ (bPc[p] # "write" => bRead'[p] = bRead[p])
        BY <1>1 DEF BootInv, OtherNodesWait
    <2> QED
        BY <1>1, <2>1 DEF KnownInOrder
<1>7. ASSUME NEW q \in Rec PROVE Latest(q)'
    <2>1. Latest(q) /\ Latest(r)
        BY <1>2 DEF BootInv
    <2> SUFFICES ASSUME q \notin bRaced'
                 PROVE  /\ bRec'[q].rest = bLatest[q] /\ (q \in DOMAIN bWriter => bWriter[q] = bRec'[q])
                        /\ \A p \in BNode : q \in DOMAIN bRead'[p] => bRead'[p][q].rest = bRec'[q].rest
        BY DEF Latest
    <2>2. bRec'[q].rest = bRec[q].rest
        BY <1>3, <2>1 DEF Latest
    <2>3. q \in DOMAIN bWriter => bRec'[q] = bRec[q]
        BY <1>3
    <2>4. ASSUME NEW p \in BNode, q \in DOMAIN bRead'[p]
          PROVE  q \in DOMAIN bRead[p] /\ bRead'[p][q] = bRead[p][q]
        BY <1>1, <1>4, <2>4 DEF OtherNodesWait
    <2> QED
        BY <2>1, <2>2, <2>3, <2>4 DEF Latest
<1>8. ASSUME NEW q \in Rec PROVE FirstStays(q)'
    <2>1. FirstStays(q) /\ FirstStays(r)
        BY <1>2 DEF BootInv
    <2> SUFFICES ASSUME q \notin bRaced', 1 \notin bBlind
                 PROVE  /\ 1 \in bApplied => 1 \in bRec'[q].done
                        /\ \A p \in BNode :
                             /\ bMig[p] = 1 /\ AtWork(p)' => 1 \in bRec'[q].done \/ q \in DOMAIN bRead'[p]
                             /\ bMig[p] = 2 /\ q \in DOMAIN bRead'[p] => 1 \in bRead'[p][q].done
        BY DEF FirstStays
    <2>2. q = r => 1 \in bRec'[q].done
        <3>1. bMig[n] = 1 \/ (bMig[n] = 2 /\ (r \notin bRaced => 1 \in bRead[n][r].done))
            BY <1>1, <2>1, Migrations DEF FirstStays
        <3> QED
            BY <1>3, <3>1
    <2>3. q # r => bRec'[q].done = bRec[q].done
        BY <1>3
    <2>4. ASSUME NEW p \in BNode
          PROVE  /\ q \in DOMAIN bRead'[p] => q \in DOMAIN bRead[p] /\ bRead'[p][q] = bRead[p][q]
                 /\ q \in DOMAIN bRead[p] => q = r \/ q \in DOMAIN bRead'[p]
        BY <1>1, <1>4 DEF OtherNodesWait
    <2>5. ASSUME NEW p \in BNode PROVE AtWork(p)' <=> AtWork(p)
        BY DEF AtWork
    <2> QED
        BY <2>1, <2>2, <2>3, <2>4, <2>5 DEF FirstStays
<1>9. ASSUME NEW q \in Rec PROVE SecondReturns(q)'
    <2> SUFFICES ASSUME q \notin bRaced, 2 \in Mig \ bBlind, ~bHalf, 2 \notin bRec'[q].done,
                        2 \in bApplied \/ \E p \in BNode : bMig[p] = 2 /\ AtWork(p)'
                 PROVE  \E p \in BNode : Owes(p, q)'
        BY DEF SecondReturns
    <2>1. 2 \in bRec[q].done \/ \E p \in BNode : Owes(p, q)
        BY DEF BootInv, SecondReturns, AtWork
    <2>2. CASE q = r
        <3>1. bMig[n] = 1
            BY <1>1, <1>3, <2>2, Migrations
        <3>2. 2 \notin bKnown[n]
            BY <1>1, <3>1 DEF KnownInOrder
        <3> QED
            BY <1>1, <3>1, <3>2 DEF Owes
    <2>3. CASE q # r
        <3>1. 2 \notin bRec[q].done
            BY <1>3, <2>3
        <3>2. ASSUME NEW p \in BNode, Owes(p, q) PROVE Owes(p, q)'
            <4>1. q \in DOMAIN bRead[p] => q \in DOMAIN bRead'[p]
                BY <1>1, <1>4, <2>3 DEF OtherNodesWait
            <4> QED
                BY <1>1, <3>2, <4>1 DEF Owes
        <3> QED
            BY <2>1, <3>1, <3>2
    <2> QED
        BY <2>2, <2>3
<1> QED
    BY <1>5, <1>6, <1>7, <1>8, <1>9 DEF BootInv

LEMMA WriteRecordHolds ==
    ASSUME BootInv, NEW n \in BNode, WriteRecord(n)
    PROVE  BootInv'
<1>1. CASE bRead[n] = NoCopy /\ BootWorks /\ BootGo(n, "mark") /\ UNCHANGED <<bRec, bRead, bRaced, bHalf>>
    <2>1. /\ bPc[n] = "write" /\ bPc'[n] = "mark" /\ OtherNodesWait(n) /\ RecordsStay /\ Grows
          /\ UNCHANGED <<bApplied, bMig, bKnown, bRead, bHalf, bBlind, bFaults>>
        BY <1>1 DEF BootInv, BootTypes, WriteRecord, BootGo, BootWorks, OtherNodesWait, RecordsStay, Grows
    <2>2. BootTypes'
        BY <1>1, <2>1 DEF BootInv, BootTypes, BootGo, RecordsStay
    <2>3. KnownInOrder(n)'
        BY <1>1, <2>1 DEF BootInv, KnownInOrder, Migrating
    <2>4. AtWork(n) /\ AtWork(n)' /\ DOMAIN bRead'[n] = {} /\ n \in Migrating /\ n \in Migrating'
        BY <1>1, <2>1, NoCopyIsOne DEF AtWork, Migrating
    <2>5. ASSUME NEW r \in Rec \ bRaced PROVE SecondReturns(r)'
        BY <2>1, <2>4, DebtsStay DEF Owes
    <2>6. ASSUME 1 \notin bBlind', NEW r \in Rec \ bRaced, bMig'[n] = 1
          PROVE  1 \in bRec[r].done \/ r \in DOMAIN bRead'[n]
        BY <2>1, <2>4, <2>6 DEF BootInv, FirstStays
    <2> QED
        BY <2>1, <2>2, <2>3, <2>4, <2>5, <2>6, BootNodeMoves DEF BootInv
<1>2. ASSUME NEW r \in DOMAIN bRead[n], BootFault, BootGo(n, "failed"), StopsHalfway(n),
             UNCHANGED <<bRec, bRaced>>, bRead' = [bRead EXCEPT ![n] = NoCopy]
      PROVE  BootInv'
    BY <1>2, StopHolds DEF WriteRecord
<1>3. ASSUME NEW r \in DOMAIN bRead[n], BootWorks, UNCHANGED <<bPc, bHalf>>,
             bRec' = [bRec EXCEPT ![r] = [bRead[n][r] EXCEPT !.done = @ \cup {bMig[n]}]],
             bRead' = [bRead EXCEPT ![n] = [q \in DOMAIN @ \ {r} |-> @[q]]],
             bRaced' = bRaced \cup ({r} \cap DOMAIN bWriter)
      PROVE  BootInv'
    BY <1>3, WriteOneHolds DEF WriteRecord
<1> QED
    BY <1>1, <1>2, <1>3 DEF WriteRecord
-----------------------------------------------------------------------------
\* What no node has a part in: the debts and the work are as they were.
NodesStay == UNCHANGED <<bApplied, bPc, bMig, bKnown, bRead, bHalf, bBlind>>

LEMMA BeginChangeHolds ==
    ASSUME BootInv, NEW r \in Rec, BeginChange(r)
    PROVE  BootInv'
<1>1. /\ UNCHANGED <<bRec, bLatest, bRaced, bWrites, bFaults>> /\ NodesStay
      /\ bWriter' = [q \in {r} |-> bRec[q]] /\ bWrites < MaxWrites
    BY DEF BeginChange, NodesStay
<1>2. DOMAIN bWriter' = {r} /\ bWriter'[r] = bRec[r] /\ bWriter' \in [{r} -> RecType]
    BY <1>1 DEF BootInv, BootTypes
<1>3. bWriter' \in Copies
    BY <1>2 DEF Copies
<1>4. BootTypes'
    BY <1>1, <1>3 DEF BootInv, BootTypes, NodesStay
<1>5. ASSUME NEW n \in BNode PROVE KnownInOrder(n)'
    BY <1>1 DEF BootInv, KnownInOrder, Migrating, NodesStay
<1>6. ASSUME NEW q \in Rec PROVE Latest(q)' /\ FirstStays(q)' /\ SecondReturns(q)'
    <2>1. Latest(q) /\ FirstStays(q) /\ SecondReturns(q)
        BY DEF BootInv
    <2> QED
        BY <1>1, <1>2, <2>1 DEF Latest, FirstStays, SecondReturns, Owes, AtWork, Migrating, NodesStay
<1> QED
    BY <1>1, <1>4, <1>5, <1>6 DEF BootInv, NodesStay

LEMMA EndChangeHolds ==
    ASSUME BootInv, NEW r \in Rec, EndChange(r)
    PROVE  BootInv'
<1>1. /\ bFaults' = bFaults /\ NodesStay /\ r \in DOMAIN bWriter /\ bWriter' = NoCopy
      /\ bWrites' = bWrites + 1 /\ bLatest' = [bLatest EXCEPT ![r] = bWrites']
      /\ bRec' = [bRec EXCEPT ![r] = [bWriter[r] EXCEPT !.rest = bWrites']]
      /\ bRaced' = IF \E n \in BNode : r \in DOMAIN bRead[n] THEN bRaced \cup {r} ELSE bRaced
    BY DEF EndChange, NodesStay
<1>2. bWriter[r] \in RecType
    <2>1. PICK D \in SUBSET Rec : bWriter \in [D -> RecType]
        BY DEF BootInv, BootTypes, Copies
    <2> QED
        BY <1>1, <2>1
<1>3. bWrites' \in 0 .. MaxWrites
    BY <1>1, ClusterBootAssumption DEF BootInv, BootTypes
<1>4. /\ bRec'[r] \in RecType /\ bRec'[r].done = bWriter[r].done /\ bRec'[r].rest = bLatest'[r]
      /\ bLatest'[r] = bWrites'
      /\ \A q \in Rec \ {r} : bRec'[q] = bRec[q] /\ bLatest'[q] = bLatest[q]
    BY <1>1, <1>2, <1>3 DEF BootInv, BootTypes, RecType
<1>5. BootTypes'
    <2>1. bRec' \in [Rec -> RecType] /\ bLatest' \in [Rec -> 0 .. MaxWrites]
        BY <1>1, <1>3, <1>4 DEF BootInv, BootTypes
    <2>2. bRaced' \subseteq Rec
        BY <1>1 DEF BootInv, BootTypes
    <2> QED
        BY <1>1, <1>3, <2>1, <2>2, NoCopyIsOne DEF BootInv, BootTypes, NodesStay
<1>6. ASSUME NEW n \in BNode PROVE KnownInOrder(n)'
    BY <1>1 DEF BootInv, KnownInOrder, Migrating, NodesStay
<1>7. \A q \in Rec \ bRaced' : q \notin bRaced /\ bRec'[q].done = bRec[q].done
    BY <1>1, <1>4 DEF BootInv, Latest
<1>8. ASSUME NEW q \in Rec PROVE Latest(q)'
    <2>1. Latest(q)
        BY DEF BootInv
    <2>2. CASE q = r
        BY <1>1, <1>4, <2>2, NoCopyIsOne DEF Latest, NodesStay
    <2>3. CASE q # r
        BY <1>1, <1>4, <2>1, <2>3, NoCopyIsOne DEF Latest, NodesStay
    <2> QED
        BY <2>2, <2>3
<1>9. ASSUME NEW q \in Rec PROVE FirstStays(q)' /\ SecondReturns(q)'
    <2>1. FirstStays(q) /\ SecondReturns(q)
        BY DEF BootInv
    <2>2. FirstStays(q)'
        BY <1>1, <1>7, <2>1 DEF FirstStays, AtWork, NodesStay
    <2>3. \A n \in BNode : (Owes(n, q)' <=> Owes(n, q)) /\ (AtWork(n)' <=> AtWork(n))
        BY <1>1 DEF Owes, AtWork, Migrating, NodesStay
    <2>4. SecondReturns(q)'
        BY <1>1, <1>7, <2>1, <2>3 DEF SecondReturns, NodesStay
    <2> QED
        BY <2>2, <2>4
<1> QED
    BY <1>1, <1>5, <1>6, <1>8, <1>9 DEF BootInv, NodesStay

LEMMA BootInitHolds ==
    ASSUME BootInit
    PROVE  BootInv
<1>1. BootTypes
    <2>1. [done |-> {}, rest |-> 0] \in RecType /\ 0 \in 0 .. MaxWrites /\ 0 \in 0 .. BMaxFaults
          /\ 1 \in 1 .. Last + 1
        BY ClusterBootAssumption DEF RecType
    <2> QED
        BY <2>1, NoCopyIsOne DEF BootInit, BootTypes
<1>2. ASSUME NEW n \in BNode PROVE KnownInOrder(n)
    BY DEF BootInit, KnownInOrder, Migrating
<1>3. ASSUME NEW r \in Rec PROVE Latest(r) /\ FirstStays(r) /\ SecondReturns(r)
    BY NoCopyIsOne DEF BootInit, Latest, FirstStays, SecondReturns, AtWork
<1> QED
    BY <1>1, <1>2, <1>3 DEF BootInv, BootInit

LEMMA BootInvariance ==
    BootSpec => []BootInv
<1>1. BootInit => BootInv
    BY BootInitHolds
<1>2. BootInv /\ [BootNext]_bootVars => BootInv'
    <2> SUFFICES ASSUME BootInv, [BootNext]_bootVars PROVE BootInv'
        OBVIOUS
    <2>1. CASE UNCHANGED bootVars
        BY <2>1 DEF bootVars, BootInv, BootTypes, KnownInOrder, Latest, FirstStays, SecondReturns,
                    Owes, AtWork, Migrating
    <2> QED
        BY <2>1, LoadAppliedHolds, NextMigrationHolds, ReadRecordsHolds, WriteRecordHolds,
           MarkAppliedHolds, StartBackendHolds, BackendDiesHolds, BeginChangeHolds, EndChangeHolds
        DEF BootNext, BootStepOf
<1> QED
    BY <1>1, <1>2, PTL DEF BootSpec

LEMMA BootInvImplies ==
    ASSUME BootInv
    PROVE  BootTypeOK /\ MigrationsHold
<1>1. BootTypeOK
    <2>1. \A f \in Copies : DOMAIN f \subseteq Rec /\ \A r \in DOMAIN f : f[r] \in RecType
        <3> SUFFICES ASSUME NEW D \in SUBSET Rec, NEW f \in [D -> RecType]
                     PROVE  DOMAIN f \subseteq Rec /\ \A r \in DOMAIN f : f[r] \in RecType
            BY DEF Copies
        <3> QED
            OBVIOUS
    <2> QED
        BY <2>1 DEF BootInv, BootTypes, BootTypeOK
<1>2. ChangesSurvive
    BY DEF BootInv, Latest, ChangesSurvive
<1>3. AppliedMeansDone
    <2> SUFFICES ASSUME NEW m \in bApplied \ bBlind, NEW r \in Rec \ bRaced,
                        m \notin bRec[r].done, ~bHalf
                 PROVE  \E n \in Migrating : m \notin bKnown[n] /\ bMig[n] <= m
        BY DEF AppliedMeansDone
    <2>1. m \in Mig /\ FirstStays(r) /\ SecondReturns(r)
        BY DEF BootInv, BootTypes
    <2>2. m = 2
        BY <2>1, Migrations DEF FirstStays
    <2>3. PICK n \in BNode : Owes(n, r)
        BY <2>1, <2>2 DEF SecondReturns
    <2> QED
        BY <2>2, <2>3 DEF Owes
<1> QED
    BY <1>1, <1>2, <1>3 DEF MigrationsHold

\* Every variable of the boots stays in its type.
THEOREM BootTypeCorrect == BootSpec => []BootTypeOK
BY BootInvariance, BootInvImplies, PTL

\* However many nodes migrate the same records at a time, a migration that is
\* marked has been done or is about to be done again, and no change is lost, but
\* for what a change or a crash overlapped.
THEOREM MigrationsAreDone == BootSpec => []MigrationsHold
BY BootInvariance, BootInvImplies, PTL
=============================================================================
