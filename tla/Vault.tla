-------------------------------- MODULE Vault --------------------------------
(***************************************************************************)
(* The keys of backend/services/secrets.js: the hash of the master         *)
(* password, the data encryption key (DEK) wrapped under that password,    *)
(* the entries encrypted under the DEK (secrets, containers and groups),   *)
(* the session secret, and the copies of DEK and session secret that each  *)
(* process keeps in memory. Initialisation, unsealing, changing the        *)
(* password and rotating the DEK are each several etcd operations with no  *)
(* lock around them; one action is one of those operations.                *)
(*                                                                         *)
(* Keys, salts and session secrets are numbers drawn in order; 0 is none.  *)
(* A payload decrypts under the key it was encrypted with and no other.    *)
(***************************************************************************)
EXTENDS Integers

CONSTANTS
    Node,
    Entry,       \* what is encrypted with the DEK, one per etcd prefix
    Password,
    Op,          \* the requests that may be in flight at once
    MaxKeys,     \* bound: initialisations, password changes and rotations
    MaxFaults    \* bound: crashes and failed etcd calls

ASSUME VaultAssumption == MaxKeys \in Nat /\ MaxFaults \in Nat /\ "none" \notin Password

VARIABLES
    hash,        \* system/master_hash: whose password, and its salt
    wrapped,     \* system/encrypted_dek: the DEK, under a password and a salt
    store,       \* store[e]: the DEK that entry e is encrypted under, 0 if there is none
    jwt,         \* system/jwt_secret: its value and the DEK it is encrypted under
    dek,         \* dek[n]: inMemoryDEK of n, 0 while n is sealed
    session,     \* session[n]: jwtSecretCache of n
    op,          \* op[o]: a request in flight
    fresh,       \* the last number drawn
    trouble,     \* auxiliary: what has happened that the code does not guard against
    faults       \* faults so far, at most MaxFaults

vars == <<hash, wrapped, store, jwt, dek, session, op, fresh, trouble, faults>>

\* What is kept in etcd and what a process keeps in memory.
stored == <<hash, wrapped, store, jwt>>
memory == <<dek, session>>

Given == Password \cup {"none"}
NoHash == [pw |-> "none", salt |-> 0]
NoWrapped == [pw |-> "none", salt |-> 0, dek |-> 0]

\* A stored ciphertext taken for a session secret; which one is not told apart.
Misread == -1
Secret == Nat \cup {Misread}

Pc == {"idle", "initCheck", "initHash", "initKey", "initWrap", "initJwt",
       "unsealHash", "unsealKey", "unsealJwt", "secretGet", "putJwt",
       "changeCheck", "changeHash", "changeWrap",
       "rotateCheck", "rotateRead", "rotatePut", "write"}

\* pw, new: the passwords given; salt, key, secret: as read or drawn; old: the
\* DEK to restore; todo: entries to read or write; got: those read and not yet
\* written back; wrote: some key is written and others are not.
OpType == [pc : Pc, at : Node \cup {"none"}, pw : Given, new : Given, salt : Nat, key : Nat,
           old : Nat, secret : Secret, todo : SUBSET Entry, got : SUBSET Entry, wrote : BOOLEAN]
NoOp == [pc |-> "idle", at |-> "none", pw |-> "none", new |-> "none", salt |-> 0, key |-> 0,
         old |-> 0, secret |-> 0, todo |-> {}, got |-> {}, wrote |-> FALSE]

TypeOK ==
    /\ hash \in [pw : Given, salt : Nat]
    /\ wrapped \in [pw : Given, salt : Nat, dek : Nat]
    /\ store \in [Entry -> Nat]
    /\ jwt \in [val : Secret, dek : Nat]
    /\ dek \in [Node -> Nat]
    /\ session \in [Node -> Secret]
    /\ op \in [Op -> OpType]
    /\ fresh \in Nat
    /\ trouble \subseteq {"interrupted", "overlapped", "stale"}
    /\ faults \in 0 .. MaxFaults

Init ==
    /\ hash = NoHash
    /\ wrapped = NoWrapped
    /\ store = [e \in Entry |-> 0]
    /\ jwt = [val |-> 0, dek |-> 0]
    /\ dek = [n \in Node |-> 0]
    /\ session = [n \in Node |-> 0]
    /\ op = [o \in Op |-> NoOp]
    /\ fresh = 0
    /\ trouble = {}
    /\ faults = 0

Fault == faults < MaxFaults /\ faults' = faults + 1
Draw == fresh < MaxKeys /\ fresh' = fresh + 1

Sealed(n) == dek[n] = 0
Busy == {o \in Op : op[o].pc # "idle"}

Initialising == {"initCheck", "initHash", "initKey", "initWrap", "initJwt"}
Unsealing == {"unsealHash", "unsealKey", "unsealJwt", "secretGet", "putJwt"}
Changing == {"changeCheck", "changeHash", "changeWrap"}
Rotating == {"rotateCheck", "rotateRead", "rotatePut"}
Replacing == Initialising \cup Changing \cup Rotating

\* Requests that spoil each other's work: two that replace keys, a rotation with a
\* write or with an unsealing of the same node, and an initialisation with an
\* unsealing, which finds the DEK but no session secret and makes one.
Spoils(r, q) ==
    \/ r.pc \in Replacing /\ q.pc \in Replacing
    \/ r.pc \in Rotating /\ (q.pc = "write" \/ (q.pc \in Unsealing /\ q.at = r.at))
    \/ r.pc \in Initialising /\ q.pc \in Unsealing

\* A request goes on as r, or is over, successfully or not.
Goes(o, r) == op' = [op EXCEPT ![o] = r]
Ends(o) == op' = [op EXCEPT ![o] = NoOp]

\* The request r arrives; usesKey: it leaves something encrypted, or the key
\* itself, under the DEK that its node has in memory.
Arrives(o, r, usesKey) ==
    /\ op[o].pc = "idle"
    /\ Goes(o, r)
    /\ trouble' = trouble
         \cup (IF \E q \in Busy : Spoils(r, op[q]) \/ Spoils(op[q], r) THEN {"overlapped"} ELSE {})
         \cup (IF usesKey /\ wrapped.dek \notin {0, dek[r.at]} THEN {"stale"} ELSE {})
    /\ UNCHANGED <<stored, memory, faults>>
-----------------------------------------------------------------------------
(* initializeSystem.                                                       *)

InitRequest(o, n, pw) ==
    /\ Draw
    /\ Arrives(o, [NoOp EXCEPT !.pc = "initCheck", !.at = n, !.pw = pw, !.key = fresh + 1], FALSE)

InitCheck(o) ==
    /\ op[o].pc = "initCheck"
    /\ IF hash = NoHash THEN Goes(o, [op[o] EXCEPT !.pc = "initHash"]) ELSE Ends(o)
    /\ UNCHANGED <<stored, memory, fresh, trouble, faults>>

InitHash(o) ==
    /\ op[o].pc = "initHash"
    /\ hash' = [pw |-> op[o].pw, salt |-> op[o].key]
    /\ Goes(o, [op[o] EXCEPT !.pc = "initKey", !.wrote = TRUE])
    /\ UNCHANGED <<wrapped, store, jwt, memory, fresh, trouble, faults>>

\* When the two volume paths are written the key is put in memory: the node is
\* unsealed before the key is stored.
InitKey(o) ==
    /\ op[o].pc = "initKey"
    /\ dek' = [dek EXCEPT ![op[o].at] = op[o].key]
    /\ Goes(o, [op[o] EXCEPT !.pc = "initWrap"])
    /\ UNCHANGED <<stored, session, fresh, trouble, faults>>

\* The session secret is encrypted as soon as the wrapped key is stored.
InitWrap(o) ==
    /\ op[o].pc = "initWrap"
    /\ wrapped' = [pw |-> op[o].pw, salt |-> op[o].key, dek |-> op[o].key]
    /\ Goes(o, [op[o] EXCEPT !.pc = "initJwt", !.secret = op[o].key, !.key = dek[op[o].at]])
    /\ UNCHANGED <<hash, store, jwt, memory, fresh, trouble, faults>>

InitJwt(o) ==
    /\ op[o].pc = "initJwt"
    /\ jwt' = [val |-> op[o].secret, dek |-> op[o].key]
    /\ session' = [session EXCEPT ![op[o].at] = op[o].secret]
    /\ Ends(o)
    /\ UNCHANGED <<hash, wrapped, store, dek, fresh, trouble, faults>>
-----------------------------------------------------------------------------
(* unsealNode: nothing asks whether the node is sealed.                    *)

UnsealRequest(o, n, pw) ==
    /\ Arrives(o, [NoOp EXCEPT !.pc = "unsealHash", !.at = n, !.pw = pw], FALSE)
    /\ UNCHANGED fresh

UnsealHash(o) ==
    /\ op[o].pc = "unsealHash"
    /\ IF hash.pw = op[o].pw
       THEN Goes(o, [op[o] EXCEPT !.pc = "unsealKey", !.salt = hash.salt])
       ELSE Ends(o)
    /\ UNCHANGED <<stored, memory, fresh, trouble, faults>>

\* A DEK wrapped under another password or salt, or none, does not unwrap.
UnsealKey(o) ==
    /\ op[o].pc = "unsealKey"
    /\ IF wrapped.pw = op[o].pw /\ wrapped.salt = op[o].salt
       THEN /\ dek' = [dek EXCEPT ![op[o].at] = wrapped.dek]
            /\ Goes(o, [op[o] EXCEPT !.pc = "unsealJwt"])
       ELSE UNCHANGED dek /\ Ends(o)
    /\ UNCHANGED <<stored, session, fresh, trouble, faults>>

\* Mutant of TakesSecret: the secret of an older release is not encrypted.
TakesSecretUnsaved(o) ==
    LET n == op[o].at IN
    session' = [session EXCEPT ![n] = IF jwt.dek = dek[n] THEN jwt.val ELSE Misread] /\ Ends(o)

\* The stored session secret is taken if it decrypts. One that does not, after a
\* rotation, is taken for plaintext of an older release and is to be encrypted.
TakesSecret(o) ==
    LET n == op[o].at IN
    IF jwt.dek = dek[n]
    THEN session' = [session EXCEPT ![n] = jwt.val] /\ Ends(o)
    ELSE UNCHANGED session /\ Goes(o, [op[o] EXCEPT !.pc = "putJwt", !.key = dek[n], !.secret = Misread])

\* Without a stored secret the one in memory serves, or getOrCreateJwtSecret
\* is called.
UnsealJwt(o) ==
    /\ op[o].pc = "unsealJwt"
    /\ IF jwt.val # 0 THEN TakesSecret(o)
       ELSE /\ IF session[op[o].at] = 0 THEN Goes(o, [op[o] EXCEPT !.pc = "secretGet"]) ELSE Ends(o)
            /\ UNCHANGED session
    /\ UNCHANGED <<stored, dek, fresh, trouble, faults>>

\* Two requests may both find no secret, after an initialisation that was cut
\* short: each makes one.
SecretGet(o) ==
    /\ op[o].pc = "secretGet"
    /\ IF jwt.val # 0
       THEN TakesSecret(o) /\ UNCHANGED <<fresh, trouble>>
       ELSE /\ fresh' = fresh + 1
            /\ Goes(o, [op[o] EXCEPT !.pc = "putJwt", !.key = dek[op[o].at], !.secret = fresh + 1])
            /\ trouble' = trouble
                 \cup (IF \E q \in Busy : op[q].pc = "putJwt" THEN {"overlapped"} ELSE {})
            /\ UNCHANGED session
    /\ UNCHANGED <<stored, dek, faults>>

PutJwt(o) ==
    /\ op[o].pc = "putJwt"
    /\ jwt' = [val |-> op[o].secret, dek |-> op[o].key]
    /\ session' = [session EXCEPT ![op[o].at] = op[o].secret]
    /\ Ends(o)
    /\ UNCHANGED <<hash, wrapped, store, dek, fresh, trouble, faults>>
-----------------------------------------------------------------------------
(* changeMasterPassword.                                                   *)

ChangeRequest(o, n, pw, new) ==
    /\ ~Sealed(n)
    /\ Draw
    /\ Arrives(o, [NoOp EXCEPT !.pc = "changeCheck", !.at = n, !.pw = pw, !.new = new,
                               !.salt = fresh + 1], TRUE)

ChangeCheck(o) ==
    /\ op[o].pc = "changeCheck"
    /\ IF hash.pw = op[o].pw THEN Goes(o, [op[o] EXCEPT !.pc = "changeHash"]) ELSE Ends(o)
    /\ UNCHANGED <<stored, memory, fresh, trouble, faults>>

\* The DEK that is in memory when the new hash is stored is wrapped.
ChangeHash(o) ==
    /\ op[o].pc = "changeHash"
    /\ hash' = [pw |-> op[o].new, salt |-> op[o].salt]
    /\ Goes(o, [op[o] EXCEPT !.pc = "changeWrap", !.key = dek[op[o].at], !.wrote = TRUE])
    /\ UNCHANGED <<wrapped, store, jwt, memory, fresh, trouble, faults>>

\* Mutant of ChangeWrap: the hash is stored under the name of the wrapped key.
ChangeWrapHash(o) ==
    /\ op[o].pc = "changeWrap"
    /\ wrapped' = hash
    /\ Ends(o)
    /\ UNCHANGED <<hash, store, jwt, memory, fresh, trouble, faults>>

ChangeWrap(o) ==
    /\ op[o].pc = "changeWrap"
    /\ wrapped' = [pw |-> op[o].new, salt |-> op[o].salt, dek |-> op[o].key]
    /\ Ends(o)
    /\ UNCHANGED <<hash, store, jwt, memory, fresh, trouble, faults>>
-----------------------------------------------------------------------------
(* rotateDEK.                                                              *)

RotateRequest(o, n, pw) ==
    /\ ~Sealed(n)
    /\ Draw
    /\ Arrives(o, [NoOp EXCEPT !.pc = "rotateCheck", !.at = n, !.pw = pw, !.key = fresh + 1], FALSE)

\* Mutant of RotateCheck: an encrypted prefix is forgotten.
RotateCheckForgets(o) ==
    /\ op[o].pc = "rotateCheck"
    /\ \E e \in Entry :
         IF hash.pw = op[o].pw
         THEN Goes(o, [op[o] EXCEPT !.pc = "rotateRead", !.salt = hash.salt, !.todo = Entry \ {e}])
         ELSE Ends(o)
    /\ UNCHANGED <<stored, memory, fresh, trouble, faults>>

RotateCheck(o) ==
    /\ op[o].pc = "rotateCheck"
    /\ IF hash.pw = op[o].pw
       THEN Goes(o, [op[o] EXCEPT !.pc = "rotateRead", !.salt = hash.salt, !.todo = Entry])
       ELSE Ends(o)
    /\ UNCHANGED <<stored, memory, fresh, trouble, faults>>

\* An entry that does not decrypt ends the rotation. When the last one is read the
\* new key takes the place of the old one in memory.
RotateRead(o, e) ==
    /\ op[o].pc = "rotateRead"
    /\ e \in op[o].todo
    /\ LET n == op[o].at
           got == op[o].got \cup (IF store[e] = 0 THEN {} ELSE {e})
           todo == op[o].todo \ {e}
       IN \/ /\ store[e] \notin {0, dek[n]}
             /\ Ends(o)
             /\ UNCHANGED dek
          \/ /\ store[e] \in {0, dek[n]}
             /\ IF todo # {} THEN Goes(o, [op[o] EXCEPT !.todo = todo, !.got = got]) /\ UNCHANGED dek
                ELSE /\ dek' = [dek EXCEPT ![n] = op[o].key]
                     /\ Goes(o, [op[o] EXCEPT !.pc = "rotatePut", !.todo = {}, !.got = got,
                                              !.old = dek[n]])
    /\ UNCHANGED <<stored, session, fresh, trouble, faults>>

\* encrypt takes whatever key is in memory.
RotatePut(o, e) ==
    /\ op[o].pc = "rotatePut"
    /\ e \in op[o].got
    /\ store' = [store EXCEPT ![e] = dek[op[o].at]]
    /\ Goes(o, [op[o] EXCEPT !.got = @ \ {e}, !.wrote = TRUE])
    /\ UNCHANGED <<hash, wrapped, jwt, memory, fresh, trouble, faults>>

RotateWrap(o) ==
    /\ op[o].pc = "rotatePut"
    /\ op[o].got = {}
    /\ wrapped' = [pw |-> op[o].pw, salt |-> op[o].salt, dek |-> op[o].key]
    /\ Ends(o)
    /\ UNCHANGED <<hash, store, jwt, memory, fresh, trouble, faults>>
-----------------------------------------------------------------------------
(* setSecret, deleteSecret and the saves of containers and groups. What is *)
(* written is encrypted before the put is sent.                            *)

WriteRequest(o, n, e) ==
    /\ ~Sealed(n)
    /\ Arrives(o, [NoOp EXCEPT !.pc = "write", !.at = n, !.key = dek[n], !.todo = {e}], TRUE)
    /\ UNCHANGED fresh

DeleteRequest(o, n, e) ==
    /\ ~Sealed(n)
    /\ Arrives(o, [NoOp EXCEPT !.pc = "write", !.at = n, !.todo = {e}], FALSE)
    /\ UNCHANGED fresh

Write(o) ==
    /\ op[o].pc = "write"
    /\ store' = [e \in Entry |-> IF e \in op[o].todo THEN op[o].key ELSE store[e]]
    /\ Ends(o)
    /\ UNCHANGED <<hash, wrapped, jwt, memory, fresh, trouble, faults>>
-----------------------------------------------------------------------------
(* An etcd call fails and with it the request, whose handler answers 400   *)
(* or 500; a rotation that has begun to write puts the old key back in     *)
(* memory. Or the process of a node dies with its keys and its requests.   *)

Interrupts(O) == trouble' = trouble \cup (IF \E o \in O : op[o].wrote THEN {"interrupted"} ELSE {})

Fail(o) ==
    /\ o \in Busy
    /\ Fault
    /\ dek' = IF op[o].pc = "rotatePut" THEN [dek EXCEPT ![op[o].at] = op[o].old] ELSE dek
    /\ Interrupts({o})
    /\ Ends(o)
    /\ UNCHANGED <<stored, session, fresh>>

\* The wrapped key is stored, but the answer is lost.
RotateWrapUnanswered(o) ==
    /\ op[o].pc = "rotatePut"
    /\ op[o].got = {}
    /\ Fault
    /\ wrapped' = [pw |-> op[o].pw, salt |-> op[o].salt, dek |-> op[o].key]
    /\ dek' = [dek EXCEPT ![op[o].at] = op[o].old]
    /\ Ends(o)
    /\ UNCHANGED <<hash, store, jwt, session, fresh, trouble>>

Crash(n) ==
    /\ Fault
    /\ dek' = [dek EXCEPT ![n] = 0]
    /\ session' = [session EXCEPT ![n] = 0]
    /\ Interrupts({o \in Op : op[o].at = n})
    /\ op' = [o \in Op |-> IF op[o].at = n THEN NoOp ELSE op[o]]
    /\ UNCHANGED <<stored, fresh>>

Next ==
    \/ \E o \in Op :
         \/ \E n \in Node, pw \in Password : InitRequest(o, n, pw)
         \/ InitCheck(o)
         \/ InitHash(o)
         \/ InitKey(o)
         \/ InitWrap(o)
         \/ InitJwt(o)
         \/ \E n \in Node, pw \in Password : UnsealRequest(o, n, pw)
         \/ UnsealHash(o)
         \/ UnsealKey(o)
         \/ UnsealJwt(o)
         \/ SecretGet(o)
         \/ PutJwt(o)
         \/ \E n \in Node, pw \in Password, new \in Password : ChangeRequest(o, n, pw, new)
         \/ ChangeCheck(o)
         \/ ChangeHash(o)
         \/ ChangeWrap(o)
         \/ \E n \in Node, pw \in Password : RotateRequest(o, n, pw)
         \/ RotateCheck(o)
         \/ \E e \in Entry : RotateRead(o, e)
         \/ \E e \in Entry : RotatePut(o, e)
         \/ RotateWrap(o)
         \/ \E n \in Node, e \in Entry : WriteRequest(o, n, e)
         \/ \E n \in Node, e \in Entry : DeleteRequest(o, n, e)
         \/ Write(o)
         \/ Fail(o)
         \/ RotateWrapUnanswered(o)
    \/ \E n \in Node : Crash(n)

Spec == Init /\ [][Next]_vars
-----------------------------------------------------------------------------
(* Properties. *)

\* Once every request is over, and unless two that spoil each other ran at once
\* (Spoils), one was cut short between two of its writes, or a node wrote with a key
\* that another node had replaced: the master password in force unwraps the stored
\* DEK, and everything stored decrypts with it. Unsealing at any time, changing the
\* password while entries are written, rotating on a node whose own key is stale, and
\* a failure before the first write are all among what must do no harm (secrets.js,
\* the order of reads, checks and writes in all five requests).
SettledIsRecoverable ==
    Busy = {} /\ trouble = {} /\ hash # NoHash
    => /\ wrapped.pw = hash.pw
       /\ wrapped.salt = hash.salt
       /\ \A e \in Entry : store[e] \in {0, wrapped.dek}

\* The nodes that have a session secret have the one that is stored, so that a
\* session opened on one is valid on all, also when an initialisation was cut short
\* and unsealing made the secret instead; until a rotation makes an unsealing node
\* take its ciphertext for the secret (secrets.js, initializeSystem, unsealNode,
\* getOrCreateJwtSecret).
SessionSecretAgreed ==
    Busy = {} /\ "overlapped" \notin trouble /\ jwt.val # Misread
    => \A n \in Node : session[n] \in {0, jwt.val}

\* What README.md says of a cluster: one dashboard manages all nodes, because a
\* request that one node signs with its DEK is accepted by every other node. A
\* rotation does not reach the other nodes (rotateDEK, signClusterToken,
\* verifyClusterToken).
NodesTrustEachOther ==
    Busy = {} /\ trouble = {} => \A m, n \in Node : Sealed(m) \/ Sealed(n) \/ dek[m] = dek[n]
=============================================================================
