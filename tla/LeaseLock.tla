------------------------------ MODULE LeaseLock ------------------------------
(***************************************************************************)
(* What a lock in etcd promises: backend/utils/locks.js and withLock of    *)
(* backend/services/scheduler.js, seen from outside. A key is created by a *)
(* transaction that succeeds only when it does not exist, it is attached   *)
(* to a lease, and it goes away with the lease. The modules that use such  *)
(* a lock are shown to implement this one.                                 *)
(***************************************************************************)

CONSTANTS
    Key,      \* lock keys
    Client,   \* the calls that take a lock
    NoKey     \* no key

VARIABLES
    owner,    \* owner[k]: the call whose lease holds k, "free", or "orphan"
    inside    \* inside[c]: the key whose callback c is in, or NoKey

lockVars == <<owner, inside>>

LockInit ==
    /\ owner = [k \in Key |-> "free"]
    /\ inside = [c \in Client |-> NoKey]

\* The transaction succeeds: nobody had created the key.
Take(c, k) ==
    /\ inside[c] = NoKey /\ owner[k] = "free"
    /\ owner' = [owner EXCEPT ![k] = c]
    /\ inside' = [inside EXCEPT ![c] = k]

\* The transaction succeeds, but the caller sees an error: nobody revokes.
TakeUnaware(k) ==
    /\ owner[k] = "free"
    /\ owner' = [owner EXCEPT ![k] = "orphan"]
    /\ UNCHANGED inside

\* finally: the lease is revoked, or the revocation fails. A lease that lapsed
\* takes nobody else's key with it.
Leave(c) ==
    /\ inside[c] # NoKey
    /\ \E left \in {"free", "orphan"} :
         owner' = [k \in Key |-> IF owner[k] = c THEN left ELSE owner[k]]
    /\ inside' = [inside EXCEPT ![c] = NoKey]

\* The lease of a stalled call lapses; the call is not told.
LapseUnder(k) ==
    /\ owner[k] \in Client
    /\ owner' = [owner EXCEPT ![k] = "free"]
    /\ UNCHANGED inside

\* A process dies with all its calls.
Die(dead) ==
    /\ owner' = [k \in Key |-> IF owner[k] \in dead THEN "orphan" ELSE owner[k]]
    /\ inside' = [c \in Client |-> IF c \in dead THEN NoKey ELSE inside[c]]

ExpireKey(k) ==
    /\ owner[k] = "orphan"
    /\ owner' = [owner EXCEPT ![k] = "free"]
    /\ UNCHANGED inside

LockNext ==
    \/ \E c \in Client : Leave(c) \/ \E k \in Key : Take(c, k)
    \/ \E k \in Key : TakeUnaware(k) \/ LapseUnder(k) \/ ExpireKey(k)
    \/ \E dead \in SUBSET Client : Die(dead)

LockSpec == LockInit /\ [][LockNext]_lockVars
=============================================================================
