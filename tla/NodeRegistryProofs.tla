------------------------- MODULE NodeRegistryProofs -------------------------
(***************************************************************************)
(* Theorems about NodeRegistry, for any set of nodes and any number of     *)
(* faults. HiddenOnlyIfTakenAway is not inductive: that a steady node is   *)
(* listed rests on its live lease, on every leased key belonging to a live *)
(* lease, and on a dead process neither holding nor doing anything. RegInv *)
(* says that of each node.                                                 *)
(***************************************************************************)
EXTENDS NodeRegistry, TLAPS

\* A dead process holds no lease and has nothing to do.
DeadIsIdle(n) == ~up[n] => ~lease[n] /\ ~timer[n] /\ reg[n] = "idle"

\* A process that neither registers nor is about to has its lease, and then its
\* entry hangs on that lease or on none, unless its registration failed.
SteadyHasLease(n) ==
    /\ up[n] /\ reg[n] = "idle" /\ ~timer[n] => lease[n] \/ dropped[n]
    /\ lease[n] /\ reg[n] = "idle" => entry[n].att # "orphan" \/ dropped[n]

\* Between the revocation and the put there is no lease.
AboutToPutHasNone(n) == reg[n] \in {"first", "put"} => ~lease[n]

LeasedAlive(n) == entry[n].att = "own" => up[n] /\ lease[n]

HiddenIfTakenAway(n) ==
    up[n] /\ reg[n] = "idle" /\ ~timer[n] /\ ~entry[n].full
      => dropped[n] \/ (entry[n].key /\ entry[n].att = "none")

NodeInv(n) ==
    /\ DeadIsIdle(n)
    /\ SteadyHasLease(n)
    /\ AboutToPutHasNone(n)
    /\ LeasedAlive(n)
    /\ HiddenIfTakenAway(n)

RegInv == RegTypeOK /\ \A n \in Node : NodeInv(n)

\* The three values the code writes are entries.
LEMMA EntryConstants ==
    /\ NoEntry \in Entry /\ Registered \in Entry /\ SavedNode \in Entry
    /\ NoEntry.att = "none" /\ NoEntry.full = FALSE
    /\ Registered.att = "own" /\ Registered.full = TRUE
    /\ SavedNode.att = "none" /\ SavedNode.full = TRUE
  BY DEF NoEntry, Registered, SavedNode, Entry, Attachment

\* The invariant holds at the start, whatever nodes are booted then.
LEMMA RegInitInv == RegInit => RegInv
  <1> SUFFICES ASSUME RegInit PROVE RegInv
    OBVIOUS
  <1>1. RegTypeOK
    BY RegistryAssumption, EntryConstants DEF RegInit, RegTypeOK
  <1>2. ASSUME NEW n \in Node PROVE NodeInv(n)
    BY EntryConstants
    DEF RegInit, NodeInv, DeadIsIdle, SteadyHasLease, AboutToPutHasNone, LeasedAlive,
        HiddenIfTakenAway
  <1> QED
    BY <1>1, <1>2 DEF RegInv

\* Every step of the registry keeps the invariant. The steps that change an
\* entry need all parts of NodeInv: RevokeOld and Reconnect that only a
\* process that runs has anything to do, Expire that no steady node has an
\* abandoned lease.
LEMMA RegNextInv == ASSUME RegInv, [RegNext]_regvars PROVE RegInv'
  <1> USE EntryConstants, RegistryAssumption DEF Entry, Attachment
  <1>1. ASSUME NEW n \in Node, Start(n) PROVE RegInv'
    <2>1. RegTypeOK'
      BY <1>1 DEF Start, RegInv, RegTypeOK
    <2>2. ASSUME NEW m \in Node PROVE NodeInv(m)'
      BY <1>1
      DEF Start, RegInv, RegTypeOK, NodeInv, DeadIsIdle, SteadyHasLease, AboutToPutHasNone,
          LeasedAlive, HiddenIfTakenAway
    <2> QED
      BY <2>1, <2>2 DEF RegInv
  <1>2. ASSUME NEW n \in Node, Unseal(n) PROVE RegInv'
    <2>1. RegTypeOK'
      BY <1>2 DEF Unseal, RegInv, RegTypeOK
    <2>2. ASSUME NEW m \in Node PROVE NodeInv(m)'
      BY <1>2
      DEF Unseal, RegInv, RegTypeOK, NodeInv, DeadIsIdle, SteadyHasLease, AboutToPutHasNone,
          LeasedAlive, HiddenIfTakenAway
    <2> QED
      BY <2>1, <2>2 DEF RegInv
  <1>3. ASSUME NEW n \in Node, Crash(n) PROVE RegInv'
    <2>1. RegTypeOK'
      BY <1>3 DEF Crash, Fault, RegInv, RegTypeOK
    <2>2. ASSUME NEW m \in Node PROVE NodeInv(m)'
      BY <1>3
      DEF Crash, Fault, RegInv, RegTypeOK, NodeInv, DeadIsIdle, SteadyHasLease,
          AboutToPutHasNone, LeasedAlive, HiddenIfTakenAway
    <2> QED
      BY <2>1, <2>2 DEF RegInv
  <1>4. ASSUME NEW n \in Node, Expire(n) PROVE RegInv'
    <2>1. RegTypeOK'
      BY <1>4 DEF Expire, RegInv, RegTypeOK
    <2>2. ASSUME NEW m \in Node PROVE NodeInv(m)'
      BY <1>4
      DEF Expire, RegInv, RegTypeOK, NodeInv, DeadIsIdle, SteadyHasLease, AboutToPutHasNone,
          LeasedAlive, HiddenIfTakenAway
    <2> QED
      BY <2>1, <2>2 DEF RegInv
  <1>5. ASSUME NEW n \in Node, Lapse(n) PROVE RegInv'
    <2>1. RegTypeOK'
      BY <1>5 DEF Lapse, Fault, RegInv, RegTypeOK
    <2>2. ASSUME NEW m \in Node PROVE NodeInv(m)'
      BY <1>5
      DEF Lapse, Fault, RegInv, RegTypeOK, NodeInv, DeadIsIdle, SteadyHasLease,
          AboutToPutHasNone, LeasedAlive, HiddenIfTakenAway
    <2> QED
      BY <2>1, <2>2 DEF RegInv
  <1>6. ASSUME NEW n \in Node, Reconnect(n) PROVE RegInv'
    <2>1. RegTypeOK'
      BY <1>6 DEF Reconnect, RegInv, RegTypeOK
    <2>2. ASSUME NEW m \in Node PROVE NodeInv(m)'
      BY <1>6
      DEF Reconnect, RegInv, RegTypeOK, NodeInv, DeadIsIdle, SteadyHasLease,
          AboutToPutHasNone, LeasedAlive, HiddenIfTakenAway
    <2> QED
      BY <2>1, <2>2 DEF RegInv
  <1>7. ASSUME NEW n \in Node, RevokeOld(n) PROVE RegInv'
    <2>1. RegTypeOK'
      BY <1>7 DEF RevokeOld, RegInv, RegTypeOK
    <2>2. ASSUME NEW m \in Node PROVE NodeInv(m)'
      BY <1>7
      DEF RevokeOld, RegInv, RegTypeOK, NodeInv, DeadIsIdle, SteadyHasLease,
          AboutToPutHasNone, LeasedAlive, HiddenIfTakenAway
    <2> QED
      BY <2>1, <2>2 DEF RegInv
  <1>8. ASSUME NEW n \in Node, PutEntry(n) PROVE RegInv'
    <2>1. RegTypeOK'
      BY <1>8 DEF PutEntry, RegInv, RegTypeOK
    <2>2. ASSUME NEW m \in Node PROVE NodeInv(m)'
      BY <1>8
      DEF PutEntry, RegInv, RegTypeOK, NodeInv, DeadIsIdle, SteadyHasLease,
          AboutToPutHasNone, LeasedAlive, HiddenIfTakenAway
    <2> QED
      BY <2>1, <2>2 DEF RegInv
  <1>9. ASSUME NEW n \in Node, ReadForPublish(n) PROVE RegInv'
    <2>1. RegTypeOK'
      BY <1>9 DEF ReadForPublish, RegInv, RegTypeOK
    <2>2. ASSUME NEW m \in Node PROVE NodeInv(m)'
      BY <1>9
      DEF ReadForPublish, RegInv, RegTypeOK, NodeInv, DeadIsIdle, SteadyHasLease,
          AboutToPutHasNone, LeasedAlive, HiddenIfTakenAway
    <2> QED
      BY <2>1, <2>2 DEF RegInv
  <1>10. ASSUME NEW n \in Node, Publish(n) PROVE RegInv'
    <2>1. RegTypeOK'
      BY <1>10 DEF Publish, RegInv, RegTypeOK
    <2>2. ASSUME NEW m \in Node PROVE NodeInv(m)'
      BY <1>10
      DEF Publish, RegInv, RegTypeOK, NodeInv, DeadIsIdle, SteadyHasLease,
          AboutToPutHasNone, LeasedAlive, HiddenIfTakenAway
    <2> QED
      BY <2>1, <2>2 DEF RegInv
  <1>11. ASSUME NEW n \in Node, RenameRead(n) PROVE RegInv'
    <2>1. RegTypeOK'
      BY <1>11 DEF RenameRead, RegInv, RegTypeOK
    <2>2. ASSUME NEW m \in Node PROVE NodeInv(m)'
      BY <1>11
      DEF RenameRead, RegInv, RegTypeOK, NodeInv, DeadIsIdle, SteadyHasLease,
          AboutToPutHasNone, LeasedAlive, HiddenIfTakenAway
    <2> QED
      BY <2>1, <2>2 DEF RegInv
  <1>12. ASSUME NEW n \in Node, RenameSave(n) PROVE RegInv'
    <2>1. RegTypeOK'
      BY <1>12 DEF RenameSave, RegInv, RegTypeOK
    <2>2. ASSUME NEW m \in Node PROVE NodeInv(m)'
      BY <1>12
      DEF RenameSave, RegInv, RegTypeOK, NodeInv, DeadIsIdle, SteadyHasLease,
          AboutToPutHasNone, LeasedAlive, HiddenIfTakenAway
    <2> QED
      BY <2>1, <2>2 DEF RegInv
  <1>13. ASSUME NEW n \in Node, JoinSave(n) PROVE RegInv'
    <2>1. RegTypeOK'
      BY <1>13 DEF JoinSave, RegInv, RegTypeOK
    <2>2. ASSUME NEW m \in Node PROVE NodeInv(m)'
      BY <1>13
      DEF JoinSave, RegInv, RegTypeOK, NodeInv, DeadIsIdle, SteadyHasLease,
          AboutToPutHasNone, LeasedAlive, HiddenIfTakenAway
    <2> QED
      BY <2>1, <2>2 DEF RegInv
  <1>14. ASSUME NEW n \in Node, Remove(n) PROVE RegInv'
    <2>1. RegTypeOK'
      BY <1>14 DEF Remove, Fault, RegInv, RegTypeOK
    <2>2. ASSUME NEW m \in Node PROVE NodeInv(m)'
      BY <1>14
      DEF Remove, Fault, RegInv, RegTypeOK, NodeInv, DeadIsIdle, SteadyHasLease,
          AboutToPutHasNone, LeasedAlive, HiddenIfTakenAway
    <2> QED
      BY <2>1, <2>2 DEF RegInv
  <1>15. ASSUME NEW n \in Node, PutFails(n) PROVE RegInv'
    <2>1. RegTypeOK'
      BY <1>15 DEF PutFails, Fault, RegInv, RegTypeOK
    <2>2. ASSUME NEW m \in Node PROVE NodeInv(m)'
      BY <1>15
      DEF PutFails, Fault, RegInv, RegTypeOK, NodeInv, DeadIsIdle, SteadyHasLease,
          AboutToPutHasNone, LeasedAlive, HiddenIfTakenAway
    <2> QED
      BY <2>1, <2>2 DEF RegInv
  <1>16. CASE FaultElsewhere
    BY <1>16
    DEF FaultElsewhere, Fault, RegInv, RegTypeOK, NodeInv, DeadIsIdle, SteadyHasLease,
        AboutToPutHasNone, LeasedAlive, HiddenIfTakenAway
  <1>17. CASE UNCHANGED regvars
    BY <1>17
    DEF regvars, RegInv, RegTypeOK, NodeInv, DeadIsIdle, SteadyHasLease, AboutToPutHasNone,
        LeasedAlive, HiddenIfTakenAway
  <1> QED
    BY <1>1, <1>2, <1>3, <1>4, <1>5, <1>6, <1>7, <1>8, <1>9, <1>10, <1>11, <1>12, <1>13,
       <1>14, <1>15, <1>16, <1>17
    DEF RegNext, RegistryStep

\* The invariant gives the two safety properties the runs check.
LEMMA RegInvImplies == RegInv => LeasedIsAlive /\ HiddenOnlyIfTakenAway
  BY DEF RegInv, NodeInv, LeasedAlive, HiddenIfTakenAway, LeasedIsAlive,
         HiddenOnlyIfTakenAway, Visible

LEMMA RegInvAlways == RegSafety => []RegInv
  <1> QED
    BY RegInitInv, RegNextInv, PTL DEF RegSafety

\* Whatever crashes, lapses, failed revocations and other writers do, the keys
\* of db.js and the flags of each process keep their shape.
THEOREM RegTypeCorrect == RegSafety => []RegTypeOK
  <1>1. RegInv => RegTypeOK
    BY DEF RegInv
  <1> QED
    BY <1>1, RegInvAlways, PTL

\* No key hangs on a lease that is kept alive by nobody: what registerLocalNode
\* attached to a lease goes when its process goes.
THEOREM LeasedEntriesAreAlive == RegSafety => []LeasedIsAlive
  BY RegInvImplies, RegInvAlways, PTL

\* A node that is not registering and is listed nowhere was removed by an operator,
\* hidden by the HA sync, or failed to register: nothing else loses a node.
THEOREM RegistrationHolds == RegSafety => []HiddenOnlyIfTakenAway
  BY RegInvImplies, RegInvAlways, PTL
=============================================================================
