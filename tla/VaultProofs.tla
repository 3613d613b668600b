---------------------------- MODULE VaultProofs ----------------------------
(***************************************************************************)
(* Proofs about Vault: types, that the password in force opens all that is *)
(* stored once every request is over, and that the nodes agree on the      *)
(* session secret, for any sets of nodes, entries, passwords and requests  *)
(* in flight.                                                              *)
(***************************************************************************)
EXTENDS Vault, TLAPS

\* What a request carries: one that is over carries nothing, the others the node
\* they run on and the passwords they were given.
WellFormed(r) ==
    /\ r.pc = "idle" => r = NoOp
    /\ r.pc # "idle" => r.at \in Node
    /\ r.pc \in Replacing \cup Unsealing => r.pw \in Password
    /\ r.pc \in Changing => r.new \in Password
    /\ r.pc \in {"initCheck", "initHash", "initKey", "initWrap"} \cup Rotating => r.key # 0

Typed == TypeOK /\ \A o \in Op : WellFormed(op[o])

\* No two requests in flight spoil each other's work.
Apart == \A q, r \in Op : q # r => ~Spoils(op[q], op[r])

\* The keys that something may be encrypted under: the one that is stored wrapped,
\* and the one that an initialisation is about to store.
Usable == {0, wrapped.dek} \cup {op[o].key : o \in {q \in Op : op[q].pc = "initWrap"}}

\* What holds of a request between two of its steps, as long as there is no
\* trouble: what the checks it has passed have found is still so.
Undisturbed(o) ==
    LET r == op[o] IN
    /\ r.pc = "initHash" => hash = NoHash
    /\ r.pc \in {"initKey", "initWrap"} =>
         hash = [pw |-> r.pw, salt |-> r.key] /\ wrapped.dek = 0 /\ r.wrote
    /\ r.pc = "initWrap" => dek[r.at] = r.key
    /\ r.pc \in {"changeCheck", "changeHash"} => dek[r.at] = wrapped.dek /\ wrapped.dek # 0
    /\ r.pc = "changeWrap" =>
         hash = [pw |-> r.new, salt |-> r.salt] /\ r.key = wrapped.dek /\ wrapped.dek # 0
         /\ r.wrote
    /\ r.pc \in {"rotateRead", "rotatePut"} => hash = [pw |-> r.pw, salt |-> r.salt]
    /\ r.pc = "rotateRead" => \A e \in Entry \ (r.todo \cup r.got) : store[e] = 0
    /\ r.pc = "rotatePut" =>
         /\ dek[r.at] = r.key
         /\ \A e \in Entry \ r.got : store[e] \in {0, r.key}
         /\ ~r.wrote => \A e \in Entry : store[e] \in Usable
    /\ r.pc = "write" => r.key \in Usable

\* The hash and the wrapped key belong together, but while an initialisation or a
\* change of the password is between the two puts.
KeysMatch ==
    /\ hash = NoHash => wrapped.dek = 0
    /\ hash # NoHash =>
         \/ wrapped.pw = hash.pw /\ wrapped.salt = hash.salt /\ wrapped.dek # 0
         \/ \E o \in Op : op[o].pc \in {"initKey", "initWrap"}
         \/ \E o \in Op : op[o].pc = "changeWrap"

\* Nothing is encrypted under a key that is not usable, but in the middle of the puts
\* of a rotation; and before there is a wrapped key, no node has another one.
KeysServe ==
    /\ (\A o \in Op : op[o].pc # "rotatePut") => \A e \in Entry : store[e] \in Usable
    /\ wrapped.dek = 0 => \A n \in Node : dek[n] \in Usable

Sound == (\A o \in Op : Undisturbed(o)) /\ KeysMatch /\ KeysServe

Calm == trouble = {} => Sound

\* Where the session secret stands: a request that has made one finds none stored,
\* and no other is about to store one; a secret that is stored is the one the
\* nodes have, until a ciphertext takes its place for good.
SecretMade(o) ==
    LET r == op[o] IN
    /\ r.pc \in {"initKey", "initWrap", "initJwt"} => hash # NoHash /\ jwt.val = 0
    /\ r.pc = "initHash" => hash = NoHash
    /\ r.pc \in Unsealing \ {"unsealHash"} => hash # NoHash
    /\ r.pc = "putJwt" /\ r.secret # Misread =>
         jwt.val = 0 /\ \A q \in Op \ {o} : op[q].pc # "putJwt"
    /\ r.pc = "putJwt" /\ r.secret = Misread => jwt.val # 0

SecretKept ==
    /\ \A o \in Op : SecretMade(o)
    /\ hash = NoHash => jwt.val = 0
    /\ jwt.val = Misread \/ \A n \in Node : session[n] \in {0, jwt.val}

IInv == Typed /\ ("overlapped" \notin trouble => Apart /\ SecretKept) /\ Calm
-----------------------------------------------------------------------------
(* Types.                                                                  *)

\* What a request becomes in one of its own steps: it is over, or goes on as a
\* well-formed request of the same kind on the same node.
Follows(r, s) ==
    /\ s.at = r.at
    /\ s.pc \in Initialising <=> r.pc \in Initialising
    /\ s.pc \in Unsealing <=> r.pc \in Unsealing
    /\ s.pc \in Changing <=> r.pc \in Changing
    /\ s.pc \in Rotating <=> r.pc \in Rotating
    /\ s.pc = "write" <=> r.pc = "write"

Proceeds(o) ==
    \E s \in OpType :
        /\ Goes(o, s)
        /\ WellFormed(s)
        /\ s = NoOp \/ (op[o].pc # "idle" /\ Follows(op[o], s))

\* A request that arrives is of its type, and well formed.
Comes(o) ==
    \E s \in OpType :
        /\ WellFormed(s)
        /\ s.pc \in {"initCheck", "unsealHash", "changeCheck", "rotateCheck", "write"}
        /\ \E b \in BOOLEAN : Arrives(o, s, b)

LEMMA NoOpTyped == NoOp \in OpType /\ WellFormed(NoOp)
  BY DEF NoOp, OpType, Pc, WellFormed, Replacing, Initialising, Changing, Rotating, Unsealing,
         Given, Secret

\* A request arrives.
Request(o) ==
    \/ \E n \in Node, pw \in Password : InitRequest(o, n, pw)
    \/ \E n \in Node, pw \in Password : UnsealRequest(o, n, pw)
    \/ \E n \in Node, pw \in Password, new \in Password : ChangeRequest(o, n, pw, new)
    \/ \E n \in Node, pw \in Password : RotateRequest(o, n, pw)
    \/ \E n \in Node, e \in Entry : WriteRequest(o, n, e)
    \/ \E n \in Node, e \in Entry : DeleteRequest(o, n, e)

LEMMA RequestComes ==
  ASSUME Typed, NEW o \in Op, Request(o)
  PROVE  Comes(o) /\ fresh' \in Nat
<1>1. NoOp \in OpType /\ {"initCheck", "unsealHash", "changeCheck", "rotateCheck", "write"} \subseteq Pc
  BY NoOpTyped DEF Pc
<1>2. fresh \in Nat /\ dek \in [Node -> Nat] /\ fresh + 1 \in Nat \ {0}
  BY DEF Typed, TypeOK
<1>3. ASSUME NEW n \in Node, NEW pw \in Password, InitRequest(o, n, pw)
     PROVE  Comes(o) /\ fresh' \in Nat
  <2> DEFINE s == [NoOp EXCEPT !.pc = "initCheck", !.at = n, !.pw = pw, !.key = fresh + 1]
  <2>1. s \in OpType
    <3>1. ASSUME NEW r \in OpType, NEW k \in Nat
          PROVE  [r EXCEPT !.pc = "initCheck", !.at = n, !.pw = pw, !.key = k] \in OpType
      BY <1>1 DEF OpType, Given
    <3> QED BY <1>1, <1>2, <3>1
  <2>2. s.pc = "initCheck" /\ s.at = n /\ s.pw = pw /\ s.key = fresh + 1 BY DEF NoOp
  <2>3. Arrives(o, s, FALSE) /\ Draw BY <1>3 DEF InitRequest
  <2>5. fresh' \in Nat BY <1>2, <2>3 DEF Draw
  <2> HIDE DEF s
  <2>4. WellFormed(s)
    BY <1>2, <2>2 DEF WellFormed, Replacing, Initialising, Changing, Rotating, Unsealing
  <2> QED BY <2>1, <2>2, <2>3, <2>4, <2>5 DEF Comes
<1>4. ASSUME NEW n \in Node, NEW pw \in Password, UnsealRequest(o, n, pw)
     PROVE  Comes(o) /\ fresh' \in Nat
  <2> DEFINE s == [NoOp EXCEPT !.pc = "unsealHash", !.at = n, !.pw = pw]
  <2>1. s \in OpType
    <3>1. ASSUME NEW r \in OpType
          PROVE  [r EXCEPT !.pc = "unsealHash", !.at = n, !.pw = pw] \in OpType
      BY <1>1 DEF OpType, Given
    <3> QED BY <1>1, <1>2, <3>1
  <2>2. s.pc = "unsealHash" /\ s.at = n /\ s.pw = pw BY DEF NoOp
  <2>3. Arrives(o, s, FALSE) /\ fresh' \in Nat BY <1>2, <1>4 DEF UnsealRequest
  <2> HIDE DEF s
  <2>4. WellFormed(s)
    BY <1>2, <2>2 DEF WellFormed, Replacing, Initialising, Changing, Rotating, Unsealing
  <2> QED BY <2>1, <2>2, <2>3, <2>4 DEF Comes
<1>5. ASSUME NEW n \in Node, NEW pw \in Password, NEW new \in Password, ChangeRequest(o, n, pw, new)
     PROVE  Comes(o) /\ fresh' \in Nat
  <2> DEFINE s == [NoOp EXCEPT !.pc = "changeCheck", !.at = n, !.pw = pw, !.new = new,
                           !.salt = fresh + 1]
  <2>1. s \in OpType
    <3>1. ASSUME NEW r \in OpType, NEW k \in Nat
          PROVE  [r EXCEPT !.pc = "changeCheck", !.at = n, !.pw = pw, !.new = new, !.salt = k] \in OpType
      BY <1>1 DEF OpType, Given
    <3> QED BY <1>1, <1>2, <3>1
  <2>2. s.pc = "changeCheck" /\ s.at = n /\ s.pw = pw /\ s.new = new BY DEF NoOp
  <2>3. Arrives(o, s, TRUE) /\ Draw BY <1>5 DEF ChangeRequest
  <2>5. fresh' \in Nat BY <1>2, <2>3 DEF Draw
  <2> HIDE DEF s
  <2>4. WellFormed(s)
    BY <1>2, <2>2 DEF WellFormed, Replacing, Initialising, Changing, Rotating, Unsealing
  <2> QED BY <2>1, <2>2, <2>3, <2>4, <2>5 DEF Comes
<1>6. ASSUME NEW n \in Node, NEW pw \in Password, RotateRequest(o, n, pw)
     PROVE  Comes(o) /\ fresh' \in Nat
  <2> DEFINE s == [NoOp EXCEPT !.pc = "rotateCheck", !.at = n, !.pw = pw, !.key = fresh + 1]
  <2>1. s \in OpType
    <3>1. ASSUME NEW r \in OpType, NEW k \in Nat
          PROVE  [r EXCEPT !.pc = "rotateCheck", !.at = n, !.pw = pw, !.key = k] \in OpType
      BY <1>1 DEF OpType, Given
    <3> QED BY <1>1, <1>2, <3>1
  <2>2. s.pc = "rotateCheck" /\ s.at = n /\ s.pw = pw /\ s.key = fresh + 1 BY DEF NoOp
  <2>3. Arrives(o, s, FALSE) /\ Draw BY <1>6 DEF RotateRequest
  <2>5. fresh' \in Nat BY <1>2, <2>3 DEF Draw
  <2> HIDE DEF s
  <2>4. WellFormed(s)
    BY <1>2, <2>2 DEF WellFormed, Replacing, Initialising, Changing, Rotating, Unsealing
  <2> QED BY <2>1, <2>2, <2>3, <2>4, <2>5 DEF Comes
<1>7. ASSUME NEW n \in Node, NEW e \in Entry, WriteRequest(o, n, e)
     PROVE  Comes(o) /\ fresh' \in Nat
  <2> DEFINE s == [NoOp EXCEPT !.pc = "write", !.at = n, !.key = dek[n], !.todo = {e}]
  <2>1. s \in OpType
    <3>1. ASSUME NEW r \in OpType, NEW k \in Nat, NEW T \in SUBSET Entry
          PROVE  [r EXCEPT !.pc = "write", !.at = n, !.key = k, !.todo = T] \in OpType
      BY <1>1 DEF OpType, Given
    <3> QED BY <1>1, <1>2, <3>1
  <2>2. s.pc = "write" /\ s.at = n BY DEF NoOp
  <2>3. Arrives(o, s, TRUE) /\ fresh' \in Nat BY <1>2, <1>7 DEF WriteRequest
  <2> HIDE DEF s
  <2>4. WellFormed(s)
    BY <1>2, <2>2 DEF WellFormed, Replacing, Initialising, Changing, Rotating, Unsealing
  <2> QED BY <2>1, <2>2, <2>3, <2>4 DEF Comes
<1>8. ASSUME NEW n \in Node, NEW e \in Entry, DeleteRequest(o, n, e)
     PROVE  Comes(o) /\ fresh' \in Nat
  <2> DEFINE s == [NoOp EXCEPT !.pc = "write", !.at = n, !.todo = {e}]
  <2>1. s \in OpType
    <3>1. ASSUME NEW r \in OpType, NEW T \in SUBSET Entry
          PROVE  [r EXCEPT !.pc = "write", !.at = n, !.todo = T] \in OpType
      BY <1>1 DEF OpType, Given
    <3> QED BY <1>1, <1>2, <3>1
  <2>2. s.pc = "write" /\ s.at = n BY DEF NoOp
  <2>3. Arrives(o, s, FALSE) /\ fresh' \in Nat BY <1>2, <1>8 DEF DeleteRequest
  <2> HIDE DEF s
  <2>4. WellFormed(s)
    BY <1>2, <2>2 DEF WellFormed, Replacing, Initialising, Changing, Rotating, Unsealing
  <2> QED BY <2>1, <2>2, <2>3, <2>4 DEF Comes
<1> QED BY <1>3, <1>4, <1>5, <1>6, <1>7, <1>8 DEF Request

\* A step that leaves the request as the record s, of one kind with the record r
\* before it.
Becomes(r, s) == s \in OpType /\ WellFormed(s) /\ Follows(r, s)

\* The same request further on: its node and its passwords are kept, and so is its key
\* until it has been used.
LEMMA Further ==
  ASSUME NEW r \in OpType, WellFormed(r), NEW s \in OpType,
         r.pc \notin {"idle", "initJwt"}, s.pc # "idle", Follows(r, s),
         s.pw = r.pw, s.new = r.new,
         s.key = r.key \/ s.pc \in {"initJwt", "putJwt", "changeWrap"}
  PROVE  Becomes(r, s)
  BY DEF Becomes, Follows, WellFormed, Replacing, Initialising, Changing, Rotating, Unsealing, OpType, Pc

\* The step o makes on its own.
OwnStep(o) ==
    \/ InitCheck(o) \/ InitHash(o) \/ InitKey(o) \/ InitWrap(o) \/ InitJwt(o)
    \/ UnsealHash(o) \/ UnsealKey(o) \/ UnsealJwt(o) \/ SecretGet(o) \/ PutJwt(o)
    \/ ChangeCheck(o) \/ ChangeHash(o) \/ ChangeWrap(o)
    \/ RotateCheck(o) \/ RotateWrap(o) \/ RotateWrapUnanswered(o)
    \/ \E e \in Entry : RotateRead(o, e)
    \/ \E e \in Entry : RotatePut(o, e)
    \/ Write(o) \/ Fail(o)

\* A request whose step is over, or goes on as the record s.
LEMMA Ended ==
  ASSUME NEW o \in Op, Ends(o)
  PROVE  Proceeds(o)
  BY NoOpTyped DEF Ends, Goes, Proceeds

LEMMA GoesOn ==
  ASSUME NEW o \in Op, op[o] \in OpType, WellFormed(op[o]), NEW s \in OpType, Goes(o, s),
         op[o].pc \notin {"idle", "initJwt"}, s.pc # "idle", Follows(op[o], s),
         s.pw = op[o].pw, s.new = op[o].new,
         s.key = op[o].key \/ s.pc \in {"initJwt", "putJwt", "changeWrap"}
  PROVE  Proceeds(o)
  BY Further DEF Becomes, Proceeds

LEMMA OwnStepProceeds ==
  ASSUME Typed, NEW o \in Op, OwnStep(o)
  PROVE  Proceeds(o)
<1> DEFINE r == op[o]
<1>1. {"initHash", "initKey", "initWrap", "initJwt", "unsealKey", "unsealJwt", "secretGet", "putJwt",
       "changeHash", "changeWrap", "rotateRead", "rotatePut"} \subseteq Pc
  BY DEF Pc
<1>2. r \in OpType /\ WellFormed(r)
  BY DEF Typed, TypeOK
<1>3. hash.salt \in Nat /\ jwt.val \in Secret /\ dek \in [Node -> Nat] /\ store \in [Entry -> Nat]
  BY DEF Typed, TypeOK
<1>4. r.key \in Secret
  BY <1>2 DEF OpType, Secret
<1>5. r.pc # "idle" => r.at \in Node /\ dek[r.at] \in Nat BY <1>2, <1>3 DEF WellFormed
<1> HIDE DEF r
<1>6. CASE InitCheck(o)
  <2> DEFINE s == [r EXCEPT !.pc = "initHash"]
  <2>1. r.pc = "initCheck" /\ (Goes(o, s) \/ Ends(o)) BY <1>6 DEF InitCheck, r
  <2>2. s \in OpType BY <1>1, <1>2 DEF OpType
  <2>3. s.pc # "idle" /\ Follows(r, s) /\ s.pw = r.pw /\ s.new = r.new
        /\ (s.key = r.key \/ s.pc \in {"initJwt", "putJwt", "changeWrap"})
    BY <1>2, <2>1 DEF OpType, Follows, Replacing, Initialising, Changing, Rotating, Unsealing
  <2> HIDE DEF s
  <2> QED BY <1>2, <2>1, <2>2, <2>3, Ended, GoesOn DEF r
<1>7. CASE InitHash(o)
  <2> DEFINE s == [r EXCEPT !.pc = "initKey", !.wrote = TRUE]
  <2>1. r.pc = "initHash" /\ (Goes(o, s) \/ Ends(o)) BY <1>7 DEF InitHash, r
  <2>2. s \in OpType BY <1>1, <1>2 DEF OpType
  <2>3. s.pc # "idle" /\ Follows(r, s) /\ s.pw = r.pw /\ s.new = r.new
        /\ (s.key = r.key \/ s.pc \in {"initJwt", "putJwt", "changeWrap"})
    BY <1>2, <2>1 DEF OpType, Follows, Replacing, Initialising, Changing, Rotating, Unsealing
  <2> HIDE DEF s
  <2> QED BY <1>2, <2>1, <2>2, <2>3, Ended, GoesOn DEF r
<1>8. CASE InitKey(o)
  <2> DEFINE s == [r EXCEPT !.pc = "initWrap"]
  <2>1. r.pc = "initKey" /\ (Goes(o, s) \/ Ends(o)) BY <1>8 DEF InitKey, r
  <2>2. s \in OpType BY <1>1, <1>2 DEF OpType
  <2>3. s.pc # "idle" /\ Follows(r, s) /\ s.pw = r.pw /\ s.new = r.new
        /\ (s.key = r.key \/ s.pc \in {"initJwt", "putJwt", "changeWrap"})
    BY <1>2, <2>1 DEF OpType, Follows, Replacing, Initialising, Changing, Rotating, Unsealing
  <2> HIDE DEF s
  <2> QED BY <1>2, <2>1, <2>2, <2>3, Ended, GoesOn DEF r
<1>9. CASE InitWrap(o)
  <2> DEFINE s == [r EXCEPT !.pc = "initJwt", !.secret = r.key, !.key = dek[r.at]]
  <2>1. r.pc = "initWrap" /\ (Goes(o, s) \/ Ends(o)) BY <1>9 DEF InitWrap, r
  <2>2. s \in OpType
    <3>1. ASSUME NEW k \in Nat, NEW x \in Secret
          PROVE  [r EXCEPT !.pc = "initJwt", !.secret = x, !.key = k] \in OpType
      BY <1>1, <1>2 DEF OpType
    <3>2. dek[r.at] \in Nat /\ r.key \in Secret BY <1>3, <1>4, <1>5, <2>1
    <3> QED BY <3>1, <3>2
  <2>3. s.pc # "idle" /\ Follows(r, s) /\ s.pw = r.pw /\ s.new = r.new
        /\ (s.key = r.key \/ s.pc \in {"initJwt", "putJwt", "changeWrap"})
    BY <1>2, <2>1 DEF OpType, Follows, Replacing, Initialising, Changing, Rotating, Unsealing
  <2> HIDE DEF s
  <2> QED BY <1>2, <2>1, <2>2, <2>3, Ended, GoesOn DEF r
<1>10. CASE UnsealHash(o)
  <2> DEFINE s == [r EXCEPT !.pc = "unsealKey", !.salt = hash.salt]
  <2>1. r.pc = "unsealHash" /\ (Goes(o, s) \/ Ends(o)) BY <1>10 DEF UnsealHash, r
  <2>2. s \in OpType
    <3>1. ASSUME NEW k \in Nat
          PROVE  [r EXCEPT !.pc = "unsealKey", !.salt = k] \in OpType
      BY <1>1, <1>2 DEF OpType
    <3>2. hash.salt \in Nat BY <1>3, <1>4, <1>5, <2>1
    <3> QED BY <3>1, <3>2
  <2>3. s.pc # "idle" /\ Follows(r, s) /\ s.pw = r.pw /\ s.new = r.new
        /\ (s.key = r.key \/ s.pc \in {"initJwt", "putJwt", "changeWrap"})
    BY <1>2, <2>1 DEF OpType, Follows, Replacing, Initialising, Changing, Rotating, Unsealing
  <2> HIDE DEF s
  <2> QED BY <1>2, <2>1, <2>2, <2>3, Ended, GoesOn DEF r
<1>11. CASE UnsealKey(o)
  <2> DEFINE s == [r EXCEPT !.pc = "unsealJwt"]
  <2>1. r.pc = "unsealKey" /\ (Goes(o, s) \/ Ends(o)) BY <1>11 DEF UnsealKey, r
  <2>2. s \in OpType BY <1>1, <1>2 DEF OpType
  <2>3. s.pc # "idle" /\ Follows(r, s) /\ s.pw = r.pw /\ s.new = r.new
        /\ (s.key = r.key \/ s.pc \in {"initJwt", "putJwt", "changeWrap"})
    BY <1>2, <2>1 DEF OpType, Follows, Replacing, Initialising, Changing, Rotating, Unsealing
  <2> HIDE DEF s
  <2> QED BY <1>2, <2>1, <2>2, <2>3, Ended, GoesOn DEF r
<1>12. CASE ChangeCheck(o)
  <2> DEFINE s == [r EXCEPT !.pc = "changeHash"]
  <2>1. r.pc = "changeCheck" /\ (Goes(o, s) \/ Ends(o)) BY <1>12 DEF ChangeCheck, r
  <2>2. s \in OpType BY <1>1, <1>2 DEF OpType
  <2>3. s.pc # "idle" /\ Follows(r, s) /\ s.pw = r.pw /\ s.new = r.new
        /\ (s.key = r.key \/ s.pc \in {"initJwt", "putJwt", "changeWrap"})
    BY <1>2, <2>1 DEF OpType, Follows, Replacing, Initialising, Changing, Rotating, Unsealing
  <2> HIDE DEF s
  <2> QED BY <1>2, <2>1, <2>2, <2>3, Ended, GoesOn DEF r
<1>13. CASE ChangeHash(o)
  <2> DEFINE s == [r EXCEPT !.pc = "changeWrap", !.key = dek[r.at], !.wrote = TRUE]
  <2>1. r.pc = "changeHash" /\ (Goes(o, s) \/ Ends(o)) BY <1>13 DEF ChangeHash, r
  <2>2. s \in OpType
    <3>1. ASSUME NEW k \in Nat
          PROVE  [r EXCEPT !.pc = "changeWrap", !.key = k, !.wrote = TRUE] \in OpType
      BY <1>1, <1>2 DEF OpType
    <3>2. dek[r.at] \in Nat BY <1>3, <1>4, <1>5, <2>1
    <3> QED BY <3>1, <3>2
  <2>3. s.pc # "idle" /\ Follows(r, s) /\ s.pw = r.pw /\ s.new = r.new
        /\ (s.key = r.key \/ s.pc \in {"initJwt", "putJwt", "changeWrap"})
    BY <1>2, <2>1 DEF OpType, Follows, Replacing, Initialising, Changing, Rotating, Unsealing
  <2> HIDE DEF s
  <2> QED BY <1>2, <2>1, <2>2, <2>3, Ended, GoesOn DEF r
<1>14. CASE RotateCheck(o)
  <2> DEFINE s == [r EXCEPT !.pc = "rotateRead", !.salt = hash.salt, !.todo = Entry]
  <2>1. r.pc = "rotateCheck" /\ (Goes(o, s) \/ Ends(o)) BY <1>14 DEF RotateCheck, r
  <2>2. s \in OpType
    <3>1. ASSUME NEW k \in Nat, NEW T \in SUBSET Entry
          PROVE  [r EXCEPT !.pc = "rotateRead", !.salt = k, !.todo = T] \in OpType
      BY <1>1, <1>2 DEF OpType
    <3>2. hash.salt \in Nat /\ Entry \in SUBSET Entry BY <1>3, <1>4, <1>5, <2>1
    <3> QED BY <3>1, <3>2
  <2>3. s.pc # "idle" /\ Follows(r, s) /\ s.pw = r.pw /\ s.new = r.new
        /\ (s.key = r.key \/ s.pc \in {"initJwt", "putJwt", "changeWrap"})
    BY <1>2, <2>1 DEF OpType, Follows, Replacing, Initialising, Changing, Rotating, Unsealing
  <2> HIDE DEF s
  <2> QED BY <1>2, <2>1, <2>2, <2>3, Ended, GoesOn DEF r
<1>15. CASE \/ RotateWrap(o) \/ RotateWrapUnanswered(o) \/ InitJwt(o) \/ PutJwt(o)
           \/ ChangeWrap(o) \/ Write(o) \/ Fail(o)
  BY <1>15, Ended DEF RotateWrap, RotateWrapUnanswered, InitJwt, PutJwt, ChangeWrap, Write, Fail
<1>16. CASE UnsealJwt(o) \/ SecretGet(o)
  <2> DEFINE s == [r EXCEPT !.pc = "secretGet"]
             t(x) == [r EXCEPT !.pc = "putJwt", !.key = dek[r.at], !.secret = x]
  <2>1. r.pc \in {"unsealJwt", "secretGet"} BY <1>16 DEF UnsealJwt, SecretGet, r
  <2>2. Ends(o) \/ Goes(o, s) \/ Goes(o, t(Misread)) \/ (SecretGet(o) /\ Goes(o, t(fresh + 1)))
    BY <1>16 DEF UnsealJwt, SecretGet, TakesSecret, r
  <2>3. s \in OpType /\ \A x \in Secret : t(x) \in OpType
    BY <1>1, <1>2, <1>5, <2>1 DEF OpType
  <2>4. s.pc # "idle" /\ Follows(r, s) /\ s.pw = r.pw /\ s.new = r.new /\ s.key = r.key
    BY <1>2, <2>1 DEF OpType, Follows, Replacing, Initialising, Changing, Rotating, Unsealing
  <2>5. \A x \in Secret : t(x).pc = "putJwt" /\ Follows(r, t(x)) /\ t(x).pw = r.pw /\ t(x).new = r.new
    BY <1>2, <2>1 DEF OpType, Follows, Replacing, Initialising, Changing, Rotating, Unsealing
  <2>6. Misread \in Secret /\ fresh + 1 \in Secret BY DEF Secret, Typed, TypeOK
  <2> HIDE DEF s, t
  <2>7. ASSUME NEW x \in Secret, Goes(o, t(x)) PROVE Proceeds(o)
    BY <1>2, <2>1, <2>3, <2>5, <2>7, GoesOn DEF r
  <2>8. ASSUME Goes(o, s) PROVE Proceeds(o)
    BY <1>2, <2>1, <2>3, <2>4, <2>8, GoesOn DEF r
  <2> QED BY <2>2, <2>6, <2>7, <2>8, Ended
<1>17. ASSUME NEW e \in Entry, RotateRead(o, e) PROVE Proceeds(o)
  <2> DEFINE got == r.got \cup (IF store[e] = 0 THEN {} ELSE {e})
             todo == r.todo \ {e}
             s == [r EXCEPT !.todo = todo, !.got = got]
             t == [r EXCEPT !.pc = "rotatePut", !.todo = {}, !.got = got, !.old = dek[r.at]]
  <2>1. r.pc = "rotateRead" /\ (Ends(o) \/ Goes(o, s) \/ Goes(o, t)) BY <1>17 DEF RotateRead, r
  <2>2. got \in SUBSET Entry /\ todo \in SUBSET Entry BY <1>2 DEF OpType
  <2> HIDE DEF got, todo
  <2>3. s \in OpType /\ t \in OpType BY <1>1, <1>2, <1>5, <2>1, <2>2 DEF OpType
  <2>4. s.pc # "idle" /\ Follows(r, s) /\ s.pw = r.pw /\ s.new = r.new /\ s.key = r.key
    BY <1>2, <2>1 DEF OpType, Follows, Replacing, Initialising, Changing, Rotating, Unsealing
  <2>5. t.pc # "idle" /\ Follows(r, t) /\ t.pw = r.pw /\ t.new = r.new /\ t.key = r.key
    BY <1>2, <2>1 DEF OpType, Follows, Replacing, Initialising, Changing, Rotating, Unsealing
  <2> HIDE DEF s, t
  <2>6. ASSUME Goes(o, s) PROVE Proceeds(o) BY <1>2, <2>1, <2>3, <2>4, <2>6, GoesOn DEF r
  <2>7. ASSUME Goes(o, t) PROVE Proceeds(o) BY <1>2, <2>1, <2>3, <2>5, <2>7, GoesOn DEF r
  <2> QED BY <2>1, <2>6, <2>7, Ended
<1>18. ASSUME NEW e \in Entry, RotatePut(o, e) PROVE Proceeds(o)
  <2> DEFINE s == [r EXCEPT !.got = @ \ {e}, !.wrote = TRUE]
  <2>1. r.pc = "rotatePut" /\ Goes(o, s) BY <1>18 DEF RotatePut, r
  <2>2. r.got \ {e} \in SUBSET Entry BY <1>2 DEF OpType
  <2>3. s \in OpType BY <1>2, <2>2 DEF OpType
  <2>4. s.pc # "idle" /\ Follows(r, s) /\ s.pw = r.pw /\ s.new = r.new /\ s.key = r.key
    BY <1>2, <2>1 DEF OpType, Follows, Replacing, Initialising, Changing, Rotating, Unsealing
  <2> HIDE DEF s
  <2> QED BY <1>2, <2>1, <2>3, <2>4, GoesOn DEF r
<1> QED
  BY <1>6, <1>7, <1>8, <1>9, <1>10, <1>11, <1>12, <1>13, <1>14, <1>15, <1>16, <1>17, <1>18
  DEF OwnStep

\* Where a request is before and after each of its steps.
Passes(o, from, to) == op[o].pc = from /\ op'[o].pc \in to

LEMMA OwnStepPasses ==
  ASSUME Typed, NEW o \in Op
  PROVE  /\ InitCheck(o) => Passes(o, "initCheck", {"idle", "initHash"})
         /\ InitHash(o) => Passes(o, "initHash", {"initKey"})
         /\ InitKey(o) => Passes(o, "initKey", {"initWrap"})
         /\ InitWrap(o) => Passes(o, "initWrap", {"initJwt"})
         /\ InitJwt(o) => Passes(o, "initJwt", {"idle"})
         /\ UnsealHash(o) => Passes(o, "unsealHash", {"idle", "unsealKey"})
         /\ UnsealKey(o) => Passes(o, "unsealKey", {"idle", "unsealJwt"})
         /\ UnsealJwt(o) => Passes(o, "unsealJwt", {"idle", "secretGet", "putJwt"})
         /\ SecretGet(o) => Passes(o, "secretGet", {"idle", "putJwt"})
         /\ PutJwt(o) => Passes(o, "putJwt", {"idle"})
         /\ ChangeCheck(o) => Passes(o, "changeCheck", {"idle", "changeHash"})
         /\ ChangeHash(o) => Passes(o, "changeHash", {"changeWrap"})
         /\ ChangeWrap(o) => Passes(o, "changeWrap", {"idle"})
         /\ RotateCheck(o) => Passes(o, "rotateCheck", {"idle", "rotateRead"})
         /\ RotateWrap(o) => Passes(o, "rotatePut", {"idle"})
         /\ RotateWrapUnanswered(o) => Passes(o, "rotatePut", {"idle"})
         /\ Write(o) => Passes(o, "write", {"idle"})
         /\ Fail(o) => op'[o].pc = "idle"
         /\ \A e \in Entry : RotateRead(o, e) => Passes(o, "rotateRead", {"idle", "rotateRead", "rotatePut"})
         /\ \A e \in Entry : RotatePut(o, e) => Passes(o, "rotatePut", {"rotatePut"})
<1>1. op \in [Op -> OpType] /\ op[o] \in OpType /\ NoOp.pc = "idle" BY DEF Typed, TypeOK, NoOp
<1>2. InitCheck(o) => Passes(o, "initCheck", {"idle", "initHash"})
  BY <1>1 DEF InitCheck, Passes, Goes, Ends, OpType
<1>3. InitHash(o) => Passes(o, "initHash", {"initKey"})
  BY <1>1 DEF InitHash, Passes, Goes, Ends, OpType
<1>4. InitKey(o) => Passes(o, "initKey", {"initWrap"})
  BY <1>1 DEF InitKey, Passes, Goes, Ends, OpType
<1>5. InitWrap(o) => Passes(o, "initWrap", {"initJwt"})
  BY <1>1 DEF InitWrap, Passes, Goes, Ends, OpType
<1>6. InitJwt(o) => Passes(o, "initJwt", {"idle"})
  BY <1>1 DEF InitJwt, Passes, Goes, Ends, OpType
<1>7. UnsealHash(o) => Passes(o, "unsealHash", {"idle", "unsealKey"})
  BY <1>1 DEF UnsealHash, Passes, Goes, Ends, OpType
<1>8. UnsealKey(o) => Passes(o, "unsealKey", {"idle", "unsealJwt"})
  BY <1>1 DEF UnsealKey, Passes, Goes, Ends, OpType
<1>9. UnsealJwt(o) => Passes(o, "unsealJwt", {"idle", "secretGet", "putJwt"})
  BY <1>1 DEF UnsealJwt, TakesSecret, Passes, Goes, Ends, OpType
<1>10. SecretGet(o) => Passes(o, "secretGet", {"idle", "putJwt"})
  BY <1>1 DEF SecretGet, TakesSecret, Passes, Goes, Ends, OpType
<1>11. PutJwt(o) => Passes(o, "putJwt", {"idle"})
  BY <1>1 DEF PutJwt, Passes, Goes, Ends, OpType
<1>12. ChangeCheck(o) => Passes(o, "changeCheck", {"idle", "changeHash"})
  BY <1>1 DEF ChangeCheck, Passes, Goes, Ends, OpType
<1>13. ChangeHash(o) => Passes(o, "changeHash", {"changeWrap"})
  BY <1>1 DEF ChangeHash, Passes, Goes, Ends, OpType
<1>14. ChangeWrap(o) => Passes(o, "changeWrap", {"idle"})
  BY <1>1 DEF ChangeWrap, Passes, Goes, Ends, OpType
<1>15. RotateCheck(o) => Passes(o, "rotateCheck", {"idle", "rotateRead"})
  BY <1>1 DEF RotateCheck, Passes, Goes, Ends, OpType
<1>16. RotateWrap(o) => Passes(o, "rotatePut", {"idle"})
  BY <1>1 DEF RotateWrap, Passes, Goes, Ends, OpType
<1>17. RotateWrapUnanswered(o) => Passes(o, "rotatePut", {"idle"})
  BY <1>1 DEF RotateWrapUnanswered, Passes, Goes, Ends, OpType
<1>18. Write(o) => Passes(o, "write", {"idle"})
  BY <1>1 DEF Write, Passes, Goes, Ends, OpType
<1>19. Fail(o) => op'[o].pc = "idle" BY <1>1 DEF Fail, Ends
<1>20. ASSUME NEW e \in Entry, RotateRead(o, e)
      PROVE  Passes(o, "rotateRead", {"idle", "rotateRead", "rotatePut"})
  <2> DEFINE got == op[o].got \cup (IF store[e] = 0 THEN {} ELSE {e})
             todo == op[o].todo \ {e}
  <2>1. op[o].pc = "rotateRead"
        /\ \/ Ends(o)
           \/ Goes(o, [op[o] EXCEPT !.todo = todo, !.got = got])
           \/ Goes(o, [op[o] EXCEPT !.pc = "rotatePut", !.todo = {}, !.got = got, !.old = dek[op[o].at]])
    BY <1>20 DEF RotateRead
  <2> HIDE DEF got, todo
  <2> QED BY <1>1, <2>1 DEF Passes, Goes, Ends, OpType
<1>21. ASSUME NEW e \in Entry, RotatePut(o, e) PROVE Passes(o, "rotatePut", {"rotatePut"})
  BY <1>1, <1>21 DEF RotatePut, Passes, Goes, OpType
<1> QED
  BY <1>2, <1>3, <1>4, <1>5, <1>6, <1>7, <1>8, <1>9,
      <1>10, <1>11, <1>12, <1>13, <1>14, <1>15, <1>16, <1>17, <1>18, <1>19, <1>20, <1>21

LEMMA OpsTyped ==
  ASSUME Typed, NEW o \in Op, Proceeds(o) \/ Comes(o)
  PROVE  op' \in [Op -> OpType] /\ \A q \in Op : WellFormed(op[q])'
<1>1. PICK s \in OpType : Goes(o, s) /\ WellFormed(s)
  BY DEF Proceeds, Comes, Arrives
<1>2. op \in [Op -> OpType] /\ \A q \in Op : WellFormed(op[q]) BY DEF Typed, TypeOK
<1>3. op' = [op EXCEPT ![o] = s] BY <1>1 DEF Goes
<1>4. op' \in [Op -> OpType] BY <1>2, <1>3
<1>5. ASSUME NEW q \in Op PROVE WellFormed(op'[q])
  BY <1>1, <1>2, <1>3
<1> QED BY <1>4, <1>5 DEF WellFormed

\* The types of everything but the requests.
Kept == /\ hash \in [pw : Given, salt : Nat]
        /\ wrapped \in [pw : Given, salt : Nat, dek : Nat]
        /\ store \in [Entry -> Nat]
        /\ jwt \in [val : Secret, dek : Nat]
        /\ dek \in [Node -> Nat]
        /\ session \in [Node -> Secret]
        /\ fresh \in Nat
        /\ trouble \subseteq {"interrupted", "overlapped", "stale"}
        /\ faults \in 0 .. MaxFaults

\* What an own step reads of the request that makes it.
LEMMA FieldsTyped ==
  ASSUME Typed, NEW o \in Op
  PROVE  /\ op[o].pw \in Given /\ op[o].new \in Given /\ op[o].salt \in Nat /\ op[o].key \in Nat
         /\ op[o].old \in Nat /\ op[o].secret \in Secret
         /\ op[o].pc # "idle" => op[o].at \in Node
  BY DEF Typed, TypeOK, OpType, WellFormed

LEMMA OwnStepKeeps ==
  ASSUME Typed, NEW o \in Op, OwnStep(o)
  PROVE  Kept'
<1> USE FieldsTyped
<1>1. Kept BY DEF Typed, TypeOK, Kept
<1>2. CASE InitCheck(o) \/ UnsealHash(o) \/ ChangeCheck(o) \/ RotateCheck(o)
  BY <1>1, <1>2 DEF Kept, InitCheck, UnsealHash, ChangeCheck, RotateCheck, stored, memory
<1>3. CASE InitHash(o) \/ ChangeHash(o)
  BY <1>1, <1>3 DEF Kept, InitHash, ChangeHash, stored, memory
<1>4. CASE InitKey(o)
  BY <1>1, <1>4 DEF Kept, InitKey, stored, memory
<1>5. CASE InitWrap(o) \/ ChangeWrap(o) \/ RotateWrap(o)
  BY <1>1, <1>5 DEF Kept, InitWrap, ChangeWrap, RotateWrap, stored, memory
<1>6. CASE InitJwt(o) \/ PutJwt(o)
  <2>1. jwt' = [val |-> op[o].secret, dek |-> op[o].key] BY <1>6 DEF InitJwt, PutJwt
  <2>2. jwt' \in [val : Secret, dek : Nat] BY <2>1
  <2>3. session' \in [Node -> Secret] BY <1>1, <1>6 DEF Kept, InitJwt, PutJwt
  <2> QED BY <1>1, <1>6, <2>2, <2>3 DEF Kept, InitJwt, PutJwt
<1>7. CASE UnsealKey(o)
  BY <1>1, <1>7 DEF Kept, UnsealKey, stored, memory
<1>8. CASE UnsealJwt(o)
  BY <1>1, <1>8 DEF Kept, UnsealJwt, TakesSecret, stored, memory
<1>9. CASE SecretGet(o)
  <2>1. fresh' \in Nat BY <1>1, <1>9 DEF Kept, SecretGet
  <2>2. session' \in [Node -> Secret] BY <1>1, <1>9 DEF Kept, SecretGet, TakesSecret
  <2>3. trouble' \subseteq {"interrupted", "overlapped", "stale"} BY <1>1, <1>9 DEF Kept, SecretGet
  <2> QED BY <1>1, <1>9, <2>1, <2>2, <2>3 DEF Kept, SecretGet, stored
<1>10. ASSUME NEW e \in Entry, RotateRead(o, e) PROVE Kept'
  <2>1. dek' \in [Node -> Nat] BY <1>1, <1>10 DEF Kept, RotateRead
  <2> QED BY <1>1, <1>10, <2>1 DEF Kept, RotateRead, stored
<1>11. ASSUME NEW e \in Entry, RotatePut(o, e) PROVE Kept'
  <2>1. store' \in [Entry -> Nat] BY <1>1, <1>11 DEF Kept, RotatePut
  <2> QED BY <1>1, <1>11, <2>1 DEF Kept, RotatePut, memory
<1>12. CASE Write(o)
  <2>1. store' \in [Entry -> Nat] BY <1>1, <1>12 DEF Kept, Write
  <2> QED BY <1>1, <1>12, <2>1 DEF Kept, Write, memory
<1>13. CASE Fail(o)
  <2>1. dek' \in [Node -> Nat] BY <1>1, <1>13 DEF Kept, Fail, Busy
  <2>2. faults' \in 0 .. MaxFaults BY <1>1, <1>13, VaultAssumption DEF Kept, Fail, Fault
  <2>3. trouble' \subseteq {"interrupted", "overlapped", "stale"} BY <1>1, <1>13 DEF Kept, Fail, Interrupts
  <2> QED BY <1>1, <1>13, <2>1, <2>2, <2>3 DEF Kept, Fail, stored
<1>14. CASE RotateWrapUnanswered(o)
  <2>1. dek' \in [Node -> Nat] BY <1>1, <1>14 DEF Kept, RotateWrapUnanswered
  <2>2. faults' \in 0 .. MaxFaults BY <1>1, <1>14, VaultAssumption DEF Kept, RotateWrapUnanswered, Fault
  <2>3. wrapped' \in [pw : Given, salt : Nat, dek : Nat] BY <1>14 DEF RotateWrapUnanswered
  <2> QED BY <1>1, <1>14, <2>1, <2>2, <2>3 DEF Kept, RotateWrapUnanswered
<1> QED
  BY <1>2, <1>3, <1>4, <1>5, <1>6, <1>7, <1>8, <1>9, <1>10, <1>11, <1>12, <1>13, <1>14 DEF OwnStep

LEMMA NextSteps ==
  ASSUME Next
  PROVE  (\E o \in Op : Request(o) \/ OwnStep(o)) \/ (\E n \in Node : Crash(n))
<1>1. ASSUME NEW o \in Op PROVE
        /\ \A n \in Node, pw \in Password :
             InitRequest(o, n, pw) \/ UnsealRequest(o, n, pw) \/ RotateRequest(o, n, pw) => Request(o)
        /\ \A n \in Node, pw \in Password, new \in Password : ChangeRequest(o, n, pw, new) => Request(o)
        /\ \A n \in Node, e \in Entry : WriteRequest(o, n, e) \/ DeleteRequest(o, n, e) => Request(o)
  BY Zenon DEF Request
<1>2. ASSUME NEW o \in Op PROVE
        /\ \/ InitCheck(o) \/ InitHash(o) \/ InitKey(o) \/ InitWrap(o) \/ InitJwt(o)
           \/ UnsealHash(o) \/ UnsealKey(o) \/ UnsealJwt(o) \/ SecretGet(o) \/ PutJwt(o)
           \/ ChangeCheck(o) \/ ChangeHash(o) \/ ChangeWrap(o) \/ RotateCheck(o)
           \/ RotateWrap(o) \/ RotateWrapUnanswered(o) \/ Write(o) \/ Fail(o)
           => OwnStep(o)
        /\ \A e \in Entry : RotateRead(o, e) \/ RotatePut(o, e) => OwnStep(o)
  BY Zenon DEF OwnStep
<1> QED BY <1>1, <1>2 DEF Next

LEMMA TypedInit ==
  ASSUME Init
  PROVE  Typed
<1>1. \A o \in Op : op[o] = NoOp BY DEF Init
<1>2. op \in [Op -> OpType] BY NoOpTyped DEF Init
<1>3. Kept BY VaultAssumption DEF Init, Kept, NoHash, NoWrapped, Given, Secret
<1> QED BY <1>1, <1>2, <1>3, NoOpTyped DEF Typed, TypeOK, Kept

LEMMA TypedNext ==
  ASSUME Typed, [Next]_vars
  PROVE  Typed'
<1>1. CASE UNCHANGED vars
  BY <1>1 DEF Typed, TypeOK, WellFormed, vars, stored, memory
<1>2. ASSUME NEW o \in Op, Request(o) PROVE Typed'
  <2>1. Comes(o) /\ fresh' \in Nat BY <1>2, RequestComes
  <2>2. trouble' \subseteq {"interrupted", "overlapped", "stale"} /\ UNCHANGED <<stored, memory, faults>>
    BY <2>1 DEF Comes, Arrives, Typed, TypeOK
  <2>3. Kept' BY <2>1, <2>2 DEF Kept, Typed, TypeOK, stored, memory
  <2> QED BY <2>1, <2>3, OpsTyped DEF Typed, TypeOK, Kept
<1>3. ASSUME NEW o \in Op, OwnStep(o) PROVE Typed'
  BY <1>3, OwnStepProceeds, OwnStepKeeps, OpsTyped DEF Typed, TypeOK, Kept
<1>4. ASSUME NEW n \in Node, Crash(n) PROVE Typed'
  <2>1. Kept BY DEF Typed, TypeOK, Kept
  <2>2. dek' \in [Node -> Nat] /\ session' \in [Node -> Secret] BY <1>4, <2>1 DEF Crash, Kept, Secret
  <2>3. faults' \in 0 .. MaxFaults BY <1>4, <2>1, VaultAssumption DEF Kept, Crash, Fault
  <2>4. trouble' \subseteq {"interrupted", "overlapped", "stale"} BY <1>4, <2>1 DEF Kept, Crash, Interrupts
  <2>5. Kept' BY <1>4, <2>1, <2>2, <2>3, <2>4 DEF Kept, Crash, stored
  <2>6. op' \in [Op -> OpType] /\ \A o \in Op : op'[o] \in {NoOp, op[o]}
    BY <1>4, NoOpTyped DEF Crash, Typed, TypeOK
  <2>7. \A o \in Op : WellFormed(op'[o]) BY <2>6, NoOpTyped DEF Typed
  <2>8. \A o \in Op : WellFormed(op[o])' BY <2>7 DEF WellFormed
  <2> QED BY <2>5, <2>6, <2>8 DEF Typed, TypeOK, Kept
<1> QED BY <1>1, <1>2, <1>3, <1>4, NextSteps
-----------------------------------------------------------------------------
(* Requests that spoil each other's work are kept apart, or told.           *)

LEMMA SpoilsFollows ==
  ASSUME NEW r, NEW s, NEW q, s = NoOp \/ Follows(r, s)
  PROVE  (Spoils(s, q) => Spoils(r, q)) /\ (Spoils(q, s) => Spoils(q, r))
<1>1. ~Spoils(NoOp, q) /\ ~Spoils(q, NoOp)
  BY DEF Spoils, NoOp, Replacing, Initialising, Changing, Rotating, Unsealing
<1>2. ASSUME Follows(r, s) PROVE (Spoils(s, q) => Spoils(r, q)) /\ (Spoils(q, s) => Spoils(q, r))
  <2>1. s.pc \in Replacing <=> r.pc \in Replacing BY <1>2 DEF Follows, Replacing
  <2> QED BY <1>2, <2>1 DEF Follows, Spoils
<1> QED BY <1>1, <1>2

LEMMA ApartProceeds ==
  ASSUME Typed, Apart, NEW o \in Op, Proceeds(o)
  PROVE  Apart'
<1>1. PICK s \in OpType : Goes(o, s) /\ (s = NoOp \/ Follows(op[o], s)) BY DEF Proceeds
<1>2. op' = [op EXCEPT ![o] = s] /\ op \in [Op -> OpType] BY <1>1 DEF Goes, Typed, TypeOK
<1>3. ASSUME NEW q \in Op, NEW r \in Op, q # r PROVE ~Spoils(op'[q], op'[r])
  <2>1. CASE q = o
    <3>1. op'[q] = s /\ op'[r] = op[r] BY <1>2, <1>3, <2>1
    <3> QED BY <1>1, <1>3, <2>1, <3>1, SpoilsFollows DEF Apart
  <2>2. CASE r = o
    <3>1. op'[r] = s /\ op'[q] = op[q] BY <1>2, <1>3, <2>2
    <3> QED BY <1>1, <1>3, <2>2, <3>1, SpoilsFollows DEF Apart
  <2>3. CASE q # o /\ r # o
    BY <1>2, <1>3, <2>3 DEF Apart
  <2> QED BY <2>1, <2>2, <2>3
<1> QED BY <1>3 DEF Apart, Spoils

LEMMA ApartComes ==
  ASSUME Typed, Apart, NEW o \in Op, Comes(o), "overlapped" \notin trouble'
  PROVE  Apart'
<1>1. PICK s \in OpType, b \in BOOLEAN : s.pc # "idle" /\ Arrives(o, s, b) BY DEF Comes
<1>2. op' = [op EXCEPT ![o] = s] /\ op \in [Op -> OpType] BY <1>1 DEF Arrives, Goes, Typed, TypeOK
<1>3. \A q \in Busy : ~Spoils(s, op[q]) /\ ~Spoils(op[q], s)
  BY <1>1 DEF Arrives
<1>4. \A q \in Op \ Busy : op[q] = NoOp BY DEF Busy, Typed, WellFormed
<1>5. ~Spoils(s, NoOp) /\ ~Spoils(NoOp, s)
  BY DEF Spoils, NoOp, Replacing, Initialising, Changing, Rotating, Unsealing
<1>6. \A q \in Op : ~Spoils(s, op[q]) /\ ~Spoils(op[q], s) BY <1>3, <1>4, <1>5
<1>7. ASSUME NEW q \in Op, NEW r \in Op, q # r PROVE ~Spoils(op'[q], op'[r])
  <2>1. CASE q = o BY <1>2, <1>6, <1>7, <2>1
  <2>2. CASE r = o BY <1>2, <1>6, <1>7, <2>2
  <2>3. CASE q # o /\ r # o BY <1>2, <1>7, <2>3 DEF Apart
  <2> QED BY <2>1, <2>2, <2>3
<1> QED BY <1>7 DEF Apart, Spoils

LEMMA ApartCrash ==
  ASSUME Typed, Apart, NEW n \in Node, Crash(n)
  PROVE  Apart'
<1>1. \A q \in Op : op'[q] = NoOp \/ op'[q] = op[q] BY DEF Crash
<1>2. ASSUME NEW x PROVE ~Spoils(NoOp, x) /\ ~Spoils(x, NoOp)
  BY DEF Spoils, NoOp, Replacing, Initialising, Changing, Rotating, Unsealing
<1>3. ASSUME NEW q \in Op, NEW r \in Op, q # r PROVE ~Spoils(op'[q], op'[r])
  BY <1>1, <1>2, <1>3 DEF Apart
<1> QED BY <1>3 DEF Apart, Spoils

\* What is in trouble stays in trouble.
LEMMA TroubleStays ==
  ASSUME Typed, [Next]_vars
  PROVE  trouble \subseteq trouble'
<1>1. ASSUME NEW o \in Op, Request(o) PROVE trouble \subseteq trouble'
  BY <1>1, RequestComes DEF Comes, Arrives
<1>2. ASSUME NEW o \in Op, OwnStep(o) PROVE trouble \subseteq trouble'
  BY <1>2 DEF OwnStep, InitCheck, InitHash, InitKey, InitWrap, InitJwt, UnsealHash, UnsealKey,
     UnsealJwt, SecretGet, PutJwt, ChangeCheck, ChangeHash, ChangeWrap, RotateCheck, RotateRead,
     RotatePut, RotateWrap, RotateWrapUnanswered, Write, Fail, Interrupts
<1>3. ASSUME NEW n \in Node, Crash(n) PROVE trouble \subseteq trouble'
  BY <1>3 DEF Crash, Interrupts
<1>4. CASE UNCHANGED vars BY <1>4 DEF vars
<1> QED BY <1>1, <1>2, <1>3, <1>4, NextSteps

LEMMA ApartNext ==
  ASSUME Typed, Apart, [Next]_vars, "overlapped" \notin trouble'
  PROVE  Apart'
<1>1. CASE UNCHANGED vars BY <1>1 DEF vars, Apart, Spoils
<1> QED BY <1>1, NextSteps, RequestComes, OwnStepProceeds, ApartProceeds, ApartComes, ApartCrash
-----------------------------------------------------------------------------
(* The session secret.                                                     *)

LEMMA MisreadIsNoKey == Misread # 0 /\ \A k \in Nat : k + 1 # Misread /\ k + 1 # 0
  BY DEF Misread

\* A step of o that neither stores a hash or a secret nor is about to.
LEMMA SecretQuiet ==
  ASSUME Typed, SecretKept, NEW o \in Op, NEW s, Goes(o, s), hash' = hash, jwt' = jwt,
         \A n \in Node : session'[n] \in {session[n], jwt.val},
         s.pc # "putJwt",
         s.pc \in {"initKey", "initWrap", "initJwt"} => op[o].pc \in {"initKey", "initWrap", "initJwt"},
         s.pc = "initHash" => hash = NoHash,
         s.pc \in Unsealing \ {"unsealHash"} => hash # NoHash
  PROVE  SecretKept'
<1>1. op'[o] = s /\ \A q \in Op \ {o} : op'[q] = op[q]
  BY DEF Goes, Typed, TypeOK
<1>2. \A q \in Op : SecretMade(q) BY DEF SecretKept
<1>3. ASSUME NEW q \in Op \ {o} PROVE SecretMade(q)'
  BY <1>1, <1>2 DEF SecretMade
<1>4. SecretMade(o)'
  BY <1>1, <1>2 DEF SecretMade
<1> QED BY <1>3, <1>4 DEF SecretKept

\* Both puts of a hash leave one that is not NoHash.
LEMMA SecretHashed ==
  ASSUME Typed, Apart, SecretKept, NEW o \in Op, NEW s, Goes(o, s), UNCHANGED <<jwt, session>>,
         hash' # NoHash,
         \/ op[o].pc = "initHash" /\ s.pc = "initKey"
         \/ op[o].pc = "changeHash" /\ s.pc = "changeWrap"
  PROVE  SecretKept'
<1>1. op'[o] = s /\ \A q \in Op \ {o} : op'[q] = op[q]
  BY DEF Goes, Typed, TypeOK
<1>2. \A q \in Op : SecretMade(q) BY DEF SecretKept
<1>3. \A q \in Op \ {o} : op[q].pc \notin Replacing
  BY DEF Apart, Spoils, Replacing, Initialising, Changing
<1>4. ASSUME NEW q \in Op \ {o} PROVE SecretMade(q)'
  BY <1>1, <1>2, <1>3 DEF SecretMade, Replacing, Initialising
<1>5. op[o].pc = "initHash" => jwt.val = 0
  BY <1>2 DEF SecretMade, SecretKept
<1>6. SecretMade(o)'
  BY <1>1, <1>5 DEF SecretMade, Unsealing
<1> QED BY <1>4, <1>6 DEF SecretKept

LEMMA SecretInitJwt ==
  ASSUME Typed, Apart, SecretKept, NEW o \in Op, InitJwt(o)
  PROVE  SecretKept'
<1>1. op'[o] = NoOp /\ \A q \in Op \ {o} : op'[q] = op[q]
  BY DEF InitJwt, Ends, Typed, TypeOK
<1>2. hash # NoHash /\ jwt.val = 0 BY DEF SecretKept, SecretMade, InitJwt
<1>3. \A q \in Op \ {o} : op[q].pc \notin Replacing \cup Unsealing
  BY DEF Apart, Spoils, InitJwt, Replacing, Initialising
<1>4. \A q \in Op \ {o} : op'[q].pc \notin Replacing \cup Unsealing BY <1>1, <1>3
<1>5. op'[o].pc \notin Replacing \cup Unsealing
  BY <1>1 DEF NoOp, Replacing, Initialising, Changing, Rotating, Unsealing
<1>6. \A q \in Op : SecretMade(q)'
  BY <1>4, <1>5 DEF SecretMade, Replacing, Initialising, Unsealing
<1>7. session' = [session EXCEPT ![op[o].at] = op[o].secret] /\ jwt'.val = op[o].secret
      /\ hash' = hash
  BY DEF InitJwt
<1>8. \A n \in Node : session[n] = 0 BY <1>2, MisreadIsNoKey DEF SecretKept
<1>9. \A n \in Node : session'[n] \in {0, jwt'.val}
  BY <1>7, <1>8 DEF Typed, TypeOK
<1> QED BY <1>2, <1>6, <1>7, <1>9 DEF SecretKept

LEMMA SecretPutJwt ==
  ASSUME Typed, Apart, SecretKept, NEW o \in Op, PutJwt(o)
  PROVE  SecretKept'
<1>1. op'[o] = NoOp /\ \A q \in Op \ {o} : op'[q] = op[q]
  BY DEF PutJwt, Ends, Typed, TypeOK
<1>2. op[o].pc = "putJwt" /\ SecretMade(o) /\ \A q \in Op \ {o} : SecretMade(q)
  BY DEF SecretKept, PutJwt
<1>3. hash # NoHash BY <1>2 DEF SecretMade, Unsealing
<1>4. \A q \in Op \ {o} : op[q].pc \notin Initialising
  BY <1>2 DEF Apart, Spoils, Unsealing
<1>5. session' = [session EXCEPT ![op[o].at] = op[o].secret] /\ jwt'.val = op[o].secret
      /\ hash' = hash
  BY DEF PutJwt
<1>6. ASSUME NEW q \in Op \ {o} PROVE SecretMade(q)'
  <2>1. op[q].pc = "putJwt" => op[o].secret = Misread /\ op[q].secret = Misread
    BY <1>2 DEF SecretMade
  <2>2. op'[q] = op[q] BY <1>1
  <2>3. op'[q].pc \notin {"initHash", "initKey", "initWrap", "initJwt"}
    BY <1>4, <2>2 DEF Initialising
  <2> QED BY <1>3, <1>5, <2>1, <2>2, <2>3, MisreadIsNoKey DEF SecretMade
<1>7. op'[o].pc \notin Replacing \cup Unsealing
  BY <1>1 DEF NoOp, Replacing, Initialising, Changing, Rotating, Unsealing
<1>8. SecretMade(o)'
  BY <1>7 DEF SecretMade, Replacing, Initialising, Unsealing
<1>9. op[o].secret # Misread => \A n \in Node : session[n] = 0
  BY <1>2, MisreadIsNoKey DEF SecretKept, SecretMade
<1>10. op[o].secret # Misread => \A n \in Node : session'[n] \in {0, jwt'.val}
  BY <1>5, <1>9 DEF Typed, TypeOK
<1> QED BY <1>3, <1>5, <1>6, <1>8, <1>10 DEF SecretKept

\* A request that is about to store a session secret.
LEMMA SecretAbout ==
  ASSUME Typed, SecretKept, NEW o \in Op, NEW s, Goes(o, s), UNCHANGED <<hash, jwt, session>>,
         op[o].pc \in {"unsealJwt", "secretGet"}, s.pc = "putJwt",
         \/ s.secret = Misread /\ jwt.val # 0
         \/ s.secret # Misread /\ jwt.val = 0 /\ \A q \in Op \ {o} : op[q].pc # "putJwt"
  PROVE  SecretKept'
<1>1. op'[o] = s /\ \A q \in Op \ {o} : op'[q] = op[q]
  BY DEF Goes, Typed, TypeOK
<1>2. \A q \in Op : SecretMade(q) BY DEF SecretKept
<1>3. ASSUME NEW q \in Op \ {o} PROVE SecretMade(q)'
  BY <1>1, <1>2 DEF SecretMade
<1>4. hash # NoHash BY <1>2 DEF SecretMade, Unsealing
<1>5. SecretMade(o)'
  BY <1>1, <1>4 DEF SecretMade, Unsealing
<1> QED BY <1>3, <1>5 DEF SecretKept

\* A request that arrives or is over, and the steps that store and make nothing.
LEMMA SecretNext ==
  ASSUME Typed, Apart, SecretKept, [Next]_vars, "overlapped" \notin trouble'
  PROVE  SecretKept'
<1>1. CASE UNCHANGED vars
  BY <1>1 DEF vars, stored, memory, SecretKept, SecretMade
<1>2. ASSUME NEW o \in Op, Request(o) PROVE SecretKept'
  <2>1. Comes(o) BY <1>2, RequestComes
  <2>2. PICK s \in OpType : Goes(o, s) /\ UNCHANGED <<hash, jwt, session>>
                            /\ s.pc \in {"initCheck", "unsealHash", "changeCheck", "rotateCheck", "write"}
    BY <2>1 DEF Comes, Arrives, stored, memory
  <2> QED BY <2>2, SecretQuiet DEF Unsealing
<1>3. ASSUME NEW o \in Op, OwnStep(o) PROVE SecretKept'
  <2> DEFINE r == op[o]
             s == op'[o]
  <2>1. /\ op \in [Op -> OpType] /\ r \in OpType /\ WellFormed(r)
        /\ session \in [Node -> Secret] /\ fresh \in Nat /\ jwt.val \in Secret
    BY DEF Typed, TypeOK
  <2>2. Goes(o, s) BY <1>3, <2>1, OwnStepProceeds DEF Proceeds, Goes
  <2>3. SecretMade(o) BY DEF SecretKept
  <2>4. Initialising \cap Unsealing = {} /\ NoOp.pc = "idle" BY DEF Initialising, Unsealing, NoOp
  <2>5. CASE InitHash(o)
    <3>1. r.pc = "initHash" /\ s.pc = "initKey" /\ hash' # NoHash /\ UNCHANGED <<jwt, session>>
      BY <2>1, <2>5, OwnStepPasses, VaultAssumption
         DEF InitHash, Passes, WellFormed, Replacing, Initialising, NoHash, memory
    <3> HIDE DEF s
    <3> QED BY <2>2, <3>1, SecretHashed
  <2>6. CASE ChangeHash(o)
    <3>1. r.pc = "changeHash" /\ s.pc = "changeWrap" /\ hash' # NoHash /\ UNCHANGED <<jwt, session>>
      BY <2>1, <2>6, OwnStepPasses, VaultAssumption
         DEF ChangeHash, Passes, WellFormed, Changing, NoHash, memory
    <3> HIDE DEF s
    <3> QED BY <2>2, <3>1, SecretHashed
  <2>7. CASE InitJwt(o) BY <2>7, SecretInitJwt
  <2>8. CASE PutJwt(o) BY <2>8, SecretPutJwt
  <2>9. CASE UnsealJwt(o) \/ SecretGet(o)
    <3>1. hash # NoHash /\ r.pc \in {"unsealJwt", "secretGet"} /\ hash' = hash /\ jwt' = jwt
      BY <2>3, <2>9 DEF UnsealJwt, SecretGet, SecretMade, Unsealing, stored
    <3>2. CASE jwt.val # 0
      <4>1. TakesSecret(o) BY <2>9, <3>2 DEF UnsealJwt, SecretGet
      <4>2. CASE jwt.dek = dek[r.at]
        <5>1. s = NoOp /\ session' = [session EXCEPT ![r.at] = jwt.val]
          BY <2>1, <4>1, <4>2 DEF TakesSecret, Ends
        <5>2. \A n \in Node : session'[n] \in {session[n], jwt.val} BY <2>1, <5>1
        <5> HIDE DEF s
        <5> QED BY <2>2, <2>4, <3>1, <5>1, <5>2, SecretQuiet DEF Unsealing
      <4>3. CASE jwt.dek # dek[r.at]
        <5>1. s.pc = "putJwt" /\ s.secret = Misread /\ session' = session
          BY <2>1, <4>1, <4>3 DEF TakesSecret, Goes, OpType
        <5> HIDE DEF s
        <5> QED BY <2>2, <3>1, <3>2, <5>1, SecretAbout
      <4> QED BY <4>2, <4>3
    <3>3. CASE jwt.val = 0 /\ UnsealJwt(o)
      <4>1. s.pc \in {"idle", "secretGet"} /\ session' = session
        BY <2>1, <2>4, <3>3 DEF UnsealJwt, Goes, Ends, OpType
      <4> HIDE DEF s
      <4> QED BY <2>2, <3>1, <4>1, SecretQuiet
    <3>4. CASE jwt.val = 0 /\ SecretGet(o)
      <4>1. s.pc = "putJwt" /\ s.secret = fresh + 1 /\ session' = session
        <5> DEFINE t(k) == [r EXCEPT !.pc = "putJwt", !.key = dek[r.at], !.secret = k]
        <5>1. Goes(o, t(fresh + 1)) /\ session' = session BY <3>4 DEF SecretGet
        <5>2. \A k \in Nat : t(k).pc = "putJwt" /\ t(k).secret = k BY <2>1 DEF OpType
        <5>3. fresh + 1 \in Nat BY <2>1
        <5> HIDE DEF t
        <5> QED BY <2>1, <5>1, <5>2, <5>3 DEF Goes
      <4>2. \A q \in Busy : op[q].pc # "putJwt" BY <3>4 DEF SecretGet
      <4>3. \A q \in Op : op[q].pc # "putJwt" BY <4>2 DEF Busy
      <4> HIDE DEF s
      <4> QED BY <2>1, <2>2, <3>1, <3>4, <4>1, <4>3, MisreadIsNoKey, SecretAbout
    <3> QED BY <2>9, <3>2, <3>3, <3>4
  <2>10. CASE InitCheck(o) \/ InitKey(o) \/ InitWrap(o) \/ UnsealHash(o) \/ UnsealKey(o)
    <3>1. hash' = hash /\ jwt' = jwt /\ session' = session
      BY <2>10 DEF InitCheck, InitKey, InitWrap, UnsealHash, UnsealKey, stored, memory
    <3>2. s.pc # "putJwt"
      BY <2>10, OwnStepPasses DEF Passes
    <3>3. s.pc \in {"initKey", "initWrap", "initJwt"} => r.pc \in {"initKey", "initWrap", "initJwt"}
      BY <2>10, OwnStepPasses DEF Passes
    <3>4. s.pc = "initHash" => hash = NoHash
      <4>1. s.pc = "initHash" => InitCheck(o) BY <2>10, OwnStepPasses DEF Passes
      <4> QED BY <2>1, <2>4, <4>1 DEF InitCheck, Ends
    <3>5. s.pc \in Unsealing \ {"unsealHash"} => hash # NoHash
      <4>1. CASE UnsealHash(o)
        BY <2>1, <2>4, <4>1, VaultAssumption
           DEF UnsealHash, Goes, Ends, OpType, WellFormed, Unsealing, NoHash
      <4>2. CASE UnsealKey(o)
        BY <2>3, <4>2 DEF UnsealKey, SecretMade, Unsealing
      <4>3. CASE InitCheck(o) \/ InitKey(o) \/ InitWrap(o)
        BY <4>3, OwnStepPasses DEF Passes, Unsealing
      <4> QED BY <2>10, <4>1, <4>2, <4>3
    <3> HIDE DEF s
    <3> QED BY <2>2, <3>1, <3>2, <3>3, <3>4, <3>5, SecretQuiet
  <2>11. CASE \/ ChangeCheck(o) \/ ChangeWrap(o) \/ RotateCheck(o) \/ RotateWrap(o)
              \/ RotateWrapUnanswered(o) \/ Write(o) \/ Fail(o)
              \/ \E e \in Entry : RotateRead(o, e) \/ RotatePut(o, e)
    <3>1. hash' = hash /\ jwt' = jwt /\ session' = session
      BY <2>11 DEF ChangeCheck, ChangeWrap, RotateCheck, RotateWrap, RotateWrapUnanswered, Write,
                   Fail, RotateRead, RotatePut, stored, memory
    <3>2. s.pc \in {"idle"} \cup Changing \cup Rotating
      BY <2>11, OwnStepPasses DEF Passes, Changing, Rotating
    <3> HIDE DEF s
    <3> QED BY <2>2, <3>1, <3>2, SecretQuiet DEF Changing, Rotating, Unsealing
  <2> QED BY <1>3, <2>5, <2>6, <2>7, <2>8, <2>9, <2>10, <2>11 DEF OwnStep
<1>4. ASSUME NEW n \in Node, Crash(n) PROVE SecretKept'
  <2>1. \A q \in Op : op'[q] = NoOp \/ op'[q] = op[q] BY <1>4 DEF Crash
  <2>2. hash' = hash /\ jwt' = jwt BY <1>4 DEF Crash, stored
  <2>3. ASSUME NEW q \in Op PROVE SecretMade(q)'
    BY <2>1, <2>2 DEF SecretKept, SecretMade, NoOp, Unsealing
  <2>4. \A m \in Node : session'[m] \in {0, session[m]} BY <1>4 DEF Crash, Typed, TypeOK
  <2> QED BY <2>2, <2>3, <2>4 DEF SecretKept
<1> QED BY <1>1, <1>2, <1>3, <1>4, NextSteps
-----------------------------------------------------------------------------
(* The keys. While there is no trouble, a request that replaces keys is the *)
(* only one that does, and nothing it relies on changes under it.          *)

\* Which requests are not in flight next to one.
LEMMA Alone ==
  ASSUME Apart, NEW o \in Op, NEW q \in Op \ {o}
  PROVE  /\ op[o].pc \in Replacing => op[q].pc \notin Replacing
         /\ op[o].pc \in Rotating => op[q].pc # "write"
         /\ op[o].pc \in Initialising => op[q].pc \notin Unsealing
         /\ op[o].pc = "write" => op[q].pc \notin Rotating
         /\ op[o].pc \in Unsealing => op[q].pc \notin Initialising
         /\ op[o].pc \in Unsealing /\ op[q].pc \in Rotating => op[q].at # op[o].at
  BY DEF Apart, Spoils

\* Where a request must be for Undisturbed to say anything of it.
Minded == {"initHash", "initKey", "initWrap", "changeCheck", "changeHash", "changeWrap",
           "rotateRead", "rotatePut", "write"}

LEMMA OthersMinded ==
  ASSUME Apart, NEW o \in Op, NEW q \in Op \ {o}
  PROVE  /\ op[o].pc \in Replacing /\ op[q].pc \in Minded => op[q].pc = "write"
         /\ op[o].pc \in Rotating => op[q].pc \notin Minded
         /\ op[o].pc \in Unsealing =>
              op[q].pc \notin {"initHash", "initKey", "initWrap"}
         /\ op[o].pc = "write" => op[q].pc \notin {"rotateRead", "rotatePut"}
  BY Alone DEF Minded, Replacing, Rotating, Initialising, Changing, Unsealing

LEMMA IdleUndisturbed ==
  ASSUME NEW q \in Op, op[q].pc \notin Minded
  PROVE  Undisturbed(q)
  BY DEF Undisturbed, Minded

\* The keys that are usable after a step of o that stores no wrapped key.
LEMMA UsableKept ==
  ASSUME Typed, NEW o \in Op, NEW s, Goes(o, s), wrapped' = wrapped, op[o].pc # "initWrap"
  PROVE  Usable \subseteq Usable' /\ (s.pc = "initWrap" => s.key \in Usable')
  BY DEF Typed, TypeOK, Goes, Usable

\* A step that changes nothing the keys depend on.
LEMMA SoundQuiet ==
  ASSUME Typed, Sound, NEW o \in Op, NEW s, Goes(o, s), UNCHANGED <<hash, wrapped, store, dek>>,
         op[o].pc \notin {"initKey", "initWrap", "changeWrap", "rotatePut"},
         s.pc \notin {"initWrap", "rotatePut"},
         Undisturbed(o)'
  PROVE  Sound'
<1>1. op'[o] = s /\ \A q \in Op \ {o} : op'[q] = op[q] BY DEF Goes, Typed, TypeOK
<1>2. Usable \subseteq Usable' BY UsableKept
<1>3. ASSUME NEW q \in Op \ {o} PROVE Undisturbed(q)'
  BY <1>1, <1>2, <1>3 DEF Sound, Undisturbed
<1>4. KeysMatch'
  BY <1>1 DEF Sound, KeysMatch
<1>5. KeysServe'
  BY <1>1, <1>2 DEF Sound, KeysServe
<1> QED BY <1>3, <1>4, <1>5 DEF Sound

\* A rotation that has read the hash has the stored key to replace.
LEMMA RotatingFrom ==
  ASSUME Typed, Apart, Sound, NEW o \in Op, op[o].pc \in {"rotateRead", "rotatePut"}
  PROVE  wrapped.dek # 0 /\ wrapped.pw = hash.pw /\ wrapped.salt = hash.salt
<1>1. hash = [pw |-> op[o].pw, salt |-> op[o].salt] BY DEF Sound, Undisturbed
<1>2. op[o].pw \in Password BY DEF Typed, WellFormed, Replacing, Rotating
<1>3. hash # NoHash BY <1>1, <1>2, VaultAssumption DEF NoHash
<1>4. \A q \in Op : op[q].pc \notin {"initKey", "initWrap", "changeWrap"}
  BY OthersMinded DEF Rotating, Minded
<1> QED BY <1>3, <1>4 DEF Sound, KeysMatch

LEMMA SoundInitHash ==
  ASSUME Typed, Apart, Sound, NEW o \in Op, InitHash(o)
  PROVE  Sound'
<1> DEFINE r == op[o]
           s == op'[o]
<1>1. r.pc = "initHash" /\ r \in OpType /\ r.pw \in Password /\ WellFormed(r)
  BY DEF InitHash, Typed, TypeOK, WellFormed, Replacing, Initialising
<1>2. s.pc = "initKey" /\ s.pw = r.pw /\ s.key = r.key /\ s.wrote /\ Goes(o, s)
      /\ \A q \in Op \ {o} : op'[q] = op[q]
  BY <1>1 DEF InitHash, Goes, Typed, TypeOK, OpType
<1>3. hash' = [pw |-> r.pw, salt |-> r.key] /\ UNCHANGED <<wrapped, store, dek>> /\ hash' # NoHash
  BY <1>1, VaultAssumption DEF InitHash, memory, NoHash
<1>4. hash = NoHash /\ wrapped.dek = 0 BY <1>1 DEF Sound, Undisturbed, KeysMatch
<1>5. \A q \in Op \ {o} : op[q].pc \in Minded => op[q].pc = "write"
  BY <1>1, OthersMinded DEF Replacing, Initialising
<1> HIDE DEF r, s
<1>6. Usable \subseteq Usable' BY <1>1, <1>2, <1>3, UsableKept DEF r
<1>7. ASSUME NEW q \in Op \ {o} PROVE Undisturbed(q)'
  BY <1>2, <1>3, <1>5, <1>6, <1>7 DEF Sound, Undisturbed, Minded
<1>8. Undisturbed(o)'
  BY <1>2, <1>3, <1>4 DEF Undisturbed, s
<1>9. KeysMatch' BY <1>2, <1>3 DEF KeysMatch, s
<1>10. KeysServe'
  BY <1>1, <1>2, <1>3, <1>6 DEF Sound, KeysServe, r
<1> QED BY <1>7, <1>8, <1>9, <1>10 DEF Sound

LEMMA SoundInitKey ==
  ASSUME Typed, Apart, Sound, NEW o \in Op, InitKey(o)
  PROVE  Sound'
<1> DEFINE r == op[o]
           s == op'[o]
<1>1. r.pc = "initKey" /\ r \in OpType /\ r.at \in Node
  BY DEF InitKey, Typed, TypeOK, WellFormed
<1>2. /\ s.pc = "initWrap" /\ s.pw = r.pw /\ s.key = r.key /\ s.wrote = r.wrote /\ s.at = r.at
      /\ Goes(o, s)
      /\ \A q \in Op \ {o} : op'[q] = op[q]
  BY <1>1 DEF InitKey, Goes, Typed, TypeOK, OpType
<1>3. UNCHANGED <<hash, wrapped, store>> /\ dek' = [dek EXCEPT ![r.at] = r.key] /\ dek \in [Node -> Nat]
  BY DEF InitKey, stored, Typed, TypeOK
<1>4. hash = [pw |-> r.pw, salt |-> r.key] /\ wrapped.dek = 0 /\ r.wrote
  BY <1>1 DEF Sound, Undisturbed
<1>5. \A q \in Op \ {o} : op[q].pc \in Minded => op[q].pc = "write"
  BY <1>1, OthersMinded DEF Replacing, Initialising
<1> HIDE DEF r, s
<1>6. Usable \subseteq Usable' /\ r.key \in Usable' BY <1>1, <1>2, <1>3, UsableKept DEF r
<1>7. ASSUME NEW q \in Op \ {o} PROVE Undisturbed(q)'
  BY <1>2, <1>3, <1>5, <1>6, <1>7 DEF Sound, Undisturbed, Minded
<1>8. Undisturbed(o)'
  BY <1>1, <1>2, <1>3, <1>4 DEF Undisturbed, s
<1>9. KeysMatch' BY <1>2, <1>3, <1>4 DEF KeysMatch, s
<1>10. KeysServe'
  BY <1>1, <1>2, <1>3, <1>6 DEF Sound, KeysServe, r
<1> QED BY <1>7, <1>8, <1>9, <1>10 DEF Sound

LEMMA SoundInitWrap ==
  ASSUME Typed, Apart, Sound, NEW o \in Op, InitWrap(o)
  PROVE  Sound'
<1> DEFINE r == op[o]
           s == op'[o]
<1>1. r.pc = "initWrap" /\ r \in OpType /\ r.key # 0
  BY DEF InitWrap, Typed, TypeOK, WellFormed
<1>2. s.pc = "initJwt" /\ \A q \in Op \ {o} : op'[q] = op[q]
  BY <1>1, OwnStepPasses DEF InitWrap, Goes, Typed, TypeOK, Passes
<1>3. UNCHANGED <<hash, store, dek>> /\ wrapped' = [pw |-> r.pw, salt |-> r.key, dek |-> r.key]
  BY DEF InitWrap, memory
<1>4. hash = [pw |-> r.pw, salt |-> r.key] /\ wrapped.dek = 0
  BY <1>1 DEF Sound, Undisturbed
<1>5. \A q \in Op \ {o} : op[q].pc \in Minded => op[q].pc = "write"
  BY <1>1, OthersMinded DEF Replacing, Initialising
<1>6. Usable \subseteq Usable'
  <2>1. \A q \in Op \ {o} : op[q].pc # "initWrap" BY <1>5 DEF Minded
  <2>2. Usable \subseteq {0, r.key} BY <1>4, <2>1 DEF Usable
  <2> QED BY <1>3, <2>2 DEF Usable
<1> HIDE DEF r, s
<1>7. ASSUME NEW q \in Op \ {o} PROVE Undisturbed(q)'
  BY <1>2, <1>3, <1>5, <1>6, <1>7 DEF Sound, Undisturbed, Minded
<1>8. Undisturbed(o)'
  BY <1>2 DEF Undisturbed, s
<1>9. KeysMatch'
  <2>1. hash' # NoHash
    BY <1>1, <1>3, <1>4, VaultAssumption DEF NoHash, r, Typed, WellFormed, Replacing, Initialising
  <2> QED BY <1>1, <1>3, <1>4, <2>1 DEF KeysMatch
<1>10. KeysServe'
  <2>1. \A q \in Op : op[q].pc # "rotatePut" BY <1>1, <1>5 DEF Minded, r
  <2> QED BY <1>1, <1>3, <1>6, <2>1 DEF Sound, KeysServe
<1> QED BY <1>7, <1>8, <1>9, <1>10 DEF Sound

LEMMA SoundUnsealKey ==
  ASSUME Typed, Apart, Sound, NEW o \in Op, UnsealKey(o), dek' # dek
  PROVE  Sound'
<1> DEFINE r == op[o]
           s == op'[o]
<1>1. r.pc = "unsealKey" /\ r \in OpType /\ r.at \in Node
  BY DEF UnsealKey, Typed, TypeOK, WellFormed
<1>2. s.pc \in {"unsealJwt", "idle"} /\ \A q \in Op \ {o} : op'[q] = op[q]
  BY <1>1, OwnStepPasses DEF UnsealKey, Goes, Ends, Typed, TypeOK, Passes
<1>3. UNCHANGED <<hash, wrapped, store>> /\ dek' = [dek EXCEPT ![r.at] = wrapped.dek]
      /\ dek \in [Node -> Nat]
  BY DEF UnsealKey, stored, Typed, TypeOK
<1>4. Goes(o, s) BY DEF UnsealKey, Goes, Ends, Typed, TypeOK
<1>5. \A q \in Op \ {o} :
        op[q].pc \notin {"initHash", "initKey", "initWrap"}
        /\ (op[q].pc \in {"rotateRead", "rotatePut"} => op[q].at # r.at)
  BY <1>1, OthersMinded, Alone DEF Unsealing, Rotating
<1>6. \A q \in Op : op[q].pc # "idle" => op[q].at \in Node BY DEF Typed, WellFormed
<1> HIDE DEF r, s
<1>7. Usable \subseteq Usable' BY <1>1, <1>3, <1>4, UsableKept DEF r
<1>8. ASSUME NEW q \in Op \ {o} PROVE Undisturbed(q)'
  <2>1. op'[q] = op[q] /\ Undisturbed(q) BY <1>2 DEF Sound
  <2>2. CASE op[q].pc \in {"changeCheck", "changeHash"}
    <3>1. dek'[op[q].at] = wrapped'.dek /\ wrapped'.dek # 0
      BY <1>3, <1>6, <2>1, <2>2 DEF Undisturbed
    <3> QED BY <2>1, <2>2, <3>1 DEF Undisturbed
  <2>3. CASE op[q].pc = "rotatePut"
    <3>1. dek'[op[q].at] = dek[op[q].at] BY <1>3, <1>5, <1>6, <2>3
    <3> QED BY <1>3, <1>7, <2>1, <2>3, <3>1 DEF Undisturbed
  <2>4. CASE op[q].pc \notin {"changeCheck", "changeHash", "rotatePut", "initWrap"}
    BY <1>3, <1>7, <2>1, <2>4 DEF Undisturbed
  <2> QED BY <1>5, <2>2, <2>3, <2>4
<1>9. Undisturbed(o)'
  BY <1>2 DEF Undisturbed, s
<1>10. KeysMatch' BY <1>1, <1>2, <1>3 DEF Sound, KeysMatch, r
<1>11. KeysServe'
  <2>1. 0 \in Usable BY DEF Usable
  <2> QED BY <1>1, <1>2, <1>3, <1>7, <2>1 DEF Sound, KeysServe, r
<1> QED BY <1>8, <1>9, <1>10, <1>11 DEF Sound

LEMMA SoundChangeHash ==
  ASSUME Typed, Apart, Sound, NEW o \in Op, ChangeHash(o)
  PROVE  Sound'
<1> DEFINE r == op[o]
           s == op'[o]
<1>1. r.pc = "changeHash" /\ r \in OpType /\ r.new \in Password
  BY DEF ChangeHash, Typed, TypeOK, WellFormed, Changing
<1>2. /\ s.pc = "changeWrap" /\ s.new = r.new /\ s.salt = r.salt /\ s.key = dek[r.at] /\ s.wrote
      /\ Goes(o, s)
      /\ \A q \in Op \ {o} : op'[q] = op[q]
  BY <1>1 DEF ChangeHash, Goes, Typed, TypeOK, OpType
<1>3. hash' = [pw |-> r.new, salt |-> r.salt] /\ UNCHANGED <<wrapped, store, dek>> /\ hash' # NoHash
  BY <1>1, VaultAssumption DEF ChangeHash, memory, NoHash
<1>4. dek[r.at] = wrapped.dek /\ wrapped.dek # 0 BY <1>1 DEF Sound, Undisturbed
<1>5. \A q \in Op \ {o} : op[q].pc \in Minded => op[q].pc = "write"
  BY <1>1, OthersMinded DEF Replacing, Changing
<1> HIDE DEF r, s
<1>6. Usable \subseteq Usable' BY <1>1, <1>2, <1>3, UsableKept DEF r
<1>7. ASSUME NEW q \in Op \ {o} PROVE Undisturbed(q)'
  BY <1>2, <1>3, <1>5, <1>6, <1>7 DEF Sound, Undisturbed, Minded
<1>8. Undisturbed(o)'
  BY <1>2, <1>3, <1>4 DEF Undisturbed, s
<1>9. KeysMatch' BY <1>2, <1>3 DEF KeysMatch, s
<1>10. KeysServe'
  BY <1>1, <1>2, <1>3, <1>6 DEF Sound, KeysServe, r
<1> QED BY <1>7, <1>8, <1>9, <1>10 DEF Sound

LEMMA SoundChangeWrap ==
  ASSUME Typed, Apart, Sound, NEW o \in Op, ChangeWrap(o)
  PROVE  Sound'
<1> DEFINE r == op[o]
           s == op'[o]
<1>1. r.pc = "changeWrap" BY DEF ChangeWrap
<1>2. s.pc = "idle" /\ \A q \in Op \ {o} : op'[q] = op[q]
  BY <1>1, OwnStepPasses DEF ChangeWrap, Ends, Typed, TypeOK, Passes
<1>3. wrapped' = [pw |-> r.new, salt |-> r.salt, dek |-> r.key] /\ UNCHANGED <<hash, store, dek>>
  BY DEF ChangeWrap, memory
<1>4. hash = [pw |-> r.new, salt |-> r.salt] /\ r.key = wrapped.dek /\ wrapped.dek # 0
  BY <1>1 DEF Sound, Undisturbed
<1>5. \A q \in Op \ {o} : op[q].pc \in Minded => op[q].pc = "write"
  BY <1>1, OthersMinded DEF Replacing, Changing
<1>6. Usable' = Usable
  <2>1. wrapped'.dek = wrapped.dek BY <1>3, <1>4
  <2>2. {q \in Op : op[q].pc = "initWrap"} = {} BY <1>1, <1>5 DEF Minded
  <2>3. {q \in Op : op'[q].pc = "initWrap"} = {} BY <1>1, <1>2, <1>5 DEF Minded
  <2> QED BY <2>1, <2>2, <2>3 DEF Usable
<1> HIDE DEF r, s
<1>7. ASSUME NEW q \in Op \ {o} PROVE Undisturbed(q)'
  BY <1>2, <1>3, <1>5, <1>6, <1>7 DEF Sound, Undisturbed, Minded
<1>8. Undisturbed(o)'
  BY <1>2 DEF Undisturbed, s
<1>9. KeysMatch'
  <2>1. wrapped'.pw = hash'.pw /\ wrapped'.salt = hash'.salt /\ wrapped'.dek # 0 BY <1>3, <1>4
  <2>2. hash # NoHash BY <1>4 DEF Sound, KeysMatch
  <2> QED BY <1>3, <2>1, <2>2 DEF KeysMatch
<1>10. KeysServe'
  <2>1. \A q \in Op : op[q].pc # "rotatePut" BY <1>1, <1>5 DEF Minded, r
  <2>2. wrapped'.dek # 0 BY <1>3, <1>4
  <2> QED BY <1>3, <1>6, <2>1, <2>2 DEF Sound, KeysServe
<1> QED BY <1>7, <1>8, <1>9, <1>10 DEF Sound

\* While one more entry is read, or when all are and the new key takes its place in
\* memory.
LEMMA SoundRotateRead ==
  ASSUME Typed, Apart, Sound, NEW o \in Op, NEW e \in Entry, RotateRead(o, e)
  PROVE  Sound'
<1> DEFINE r == op[o]
           s == op'[o]
           got == r.got \cup (IF store[e] = 0 THEN {} ELSE {e})
           todo == r.todo \ {e}
<1>1. r.pc = "rotateRead" /\ r \in OpType /\ r.at \in Node /\ op \in [Op -> OpType]
      /\ dek \in [Node -> Nat]
  BY DEF RotateRead, Typed, TypeOK, WellFormed
<1>2. UNCHANGED <<hash, wrapped, store>> BY DEF RotateRead, stored
<1>3. /\ hash = [pw |-> r.pw, salt |-> r.salt]
      /\ \A x \in Entry \ (r.todo \cup r.got) : store[x] = 0
  BY <1>1 DEF Sound, Undisturbed
<1>4. \A x \in Entry \ (todo \cup got) : store[x] = 0
  BY <1>3
<1>5. \/ Ends(o) /\ UNCHANGED dek
      \/ todo # {} /\ Goes(o, [r EXCEPT !.todo = todo, !.got = got]) /\ UNCHANGED dek
      \/ /\ todo = {}
         /\ Goes(o, [r EXCEPT !.pc = "rotatePut", !.todo = {}, !.got = got, !.old = dek[r.at]])
         /\ dek' = [dek EXCEPT ![r.at] = r.key]
  BY DEF RotateRead
<1> HIDE DEF got, todo
<1>6. CASE Ends(o) /\ UNCHANGED dek
  <2>1. s = NoOp /\ Goes(o, s) BY <1>1, <1>6 DEF Ends, Goes
  <2>2. s.pc = "idle" BY <2>1 DEF NoOp
  <2>3. Undisturbed(o)' BY <2>2 DEF Undisturbed
  <2> HIDE DEF s
  <2> QED BY <1>1, <1>2, <1>6, <2>1, <2>2, <2>3, SoundQuiet
<1>7. CASE Goes(o, [r EXCEPT !.todo = todo, !.got = got]) /\ UNCHANGED dek
  <2>1. s.pc = "rotateRead" /\ s.todo = todo /\ s.got = got /\ s.pw = r.pw /\ s.salt = r.salt
        /\ Goes(o, s)
    BY <1>1, <1>7 DEF Goes, OpType
  <2>2. Undisturbed(o)' BY <1>2, <1>3, <1>4, <2>1 DEF Undisturbed
  <2> HIDE DEF s
  <2> QED BY <1>1, <1>2, <1>7, <2>1, <2>2, SoundQuiet
<1>8. CASE /\ todo = {}
           /\ Goes(o, [r EXCEPT !.pc = "rotatePut", !.todo = {}, !.got = got, !.old = dek[r.at]])
           /\ dek' = [dek EXCEPT ![r.at] = r.key]
  <2>1. /\ s.pc = "rotatePut" /\ s.got = got /\ s.pw = r.pw /\ s.salt = r.salt /\ s.key = r.key
        /\ s.at = r.at
        /\ Goes(o, s) /\ \A q \in Op \ {o} : op'[q] = op[q]
    BY <1>1, <1>8 DEF Goes, OpType
  <2>2. \A q \in Op \ {o} : op[q].pc \notin Minded
    BY <1>1, OthersMinded DEF Rotating
  <2>3. \A q \in Op : op[q].pc # "rotatePut" BY <1>1, <2>2 DEF Minded
  <2>4. wrapped.dek # 0 BY <1>1, RotatingFrom
  <2> HIDE DEF r, s
  <2>5. Usable \subseteq Usable' BY <1>1, <1>2, <2>1, UsableKept DEF r
  <2>6. ASSUME NEW q \in Op \ {o} PROVE Undisturbed(q)'
    BY <2>1, <2>2, <2>6 DEF Undisturbed, Minded
  <2>7. \A x \in Entry : store[x] \in Usable BY <2>3 DEF Sound, KeysServe
  <2>8. dek'[s.at] = s.key BY <1>1, <1>8, <2>1
  <2>9. Undisturbed(o)'
    BY <1>2, <1>3, <1>4, <1>8, <2>1, <2>5, <2>7, <2>8 DEF Undisturbed, s
  <2>10. KeysMatch' BY <1>1, <1>2, <2>1 DEF Sound, KeysMatch, r
  <2>11. KeysServe' BY <1>2, <2>1, <2>4 DEF KeysServe, s
  <2> QED BY <2>6, <2>9, <2>10, <2>11 DEF Sound
<1> QED BY <1>5, <1>6, <1>7, <1>8

LEMMA SoundRotatePut ==
  ASSUME Typed, Apart, Sound, NEW o \in Op, NEW e \in Entry, RotatePut(o, e)
  PROVE  Sound'
<1> DEFINE r == op[o]
           s == op'[o]
<1>1. r.pc = "rotatePut" /\ r \in OpType BY DEF RotatePut, Typed, TypeOK
<1>2. /\ s.pc = "rotatePut" /\ s.got = r.got \ {e} /\ s.pw = r.pw /\ s.salt = r.salt
      /\ s.key = r.key /\ s.at = r.at /\ s.wrote
      /\ \A q \in Op \ {o} : op'[q] = op[q]
  BY <1>1 DEF RotatePut, Goes, Typed, TypeOK, OpType
<1>3. UNCHANGED <<hash, wrapped, dek>> /\ store' = [store EXCEPT ![e] = dek[r.at]] /\ store \in [Entry -> Nat]
  BY DEF RotatePut, memory, Typed, TypeOK
<1>4. /\ hash = [pw |-> r.pw, salt |-> r.salt]
      /\ dek[r.at] = r.key
      /\ \A x \in Entry \ r.got : store[x] \in {0, r.key}
  BY <1>1 DEF Sound, Undisturbed
<1>5. \A q \in Op \ {o} : op[q].pc \notin Minded
  BY <1>1, OthersMinded DEF Rotating
<1>6. wrapped.dek # 0 BY <1>1, RotatingFrom
<1> HIDE DEF r, s
<1>7. ASSUME NEW q \in Op \ {o} PROVE Undisturbed(q)'
  BY <1>2, <1>5, <1>7 DEF Undisturbed, Minded
<1>8. \A x \in Entry \ s.got : store'[x] \in {0, s.key}
  BY <1>2, <1>3, <1>4
<1>9. Undisturbed(o)'
  BY <1>2, <1>3, <1>4, <1>8 DEF Undisturbed, s
<1>10. KeysMatch' BY <1>1, <1>2, <1>3 DEF Sound, KeysMatch, r
<1>11. KeysServe' BY <1>2, <1>3, <1>6 DEF KeysServe, s
<1> QED BY <1>7, <1>9, <1>10, <1>11 DEF Sound

\* The new key is stored when all that it encrypts is, whether the answer arrives
\* or not.
LEMMA SoundRotateWrap ==
  ASSUME Typed, Apart, Sound, NEW o \in Op, RotateWrap(o) \/ RotateWrapUnanswered(o)
  PROVE  Sound'
<1> DEFINE r == op[o]
           s == op'[o]
<1>1. r.pc = "rotatePut" /\ r.key # 0 /\ r.got = {}
  BY DEF RotateWrap, RotateWrapUnanswered, Typed, WellFormed, Rotating
<1>2. s.pc = "idle" /\ \A q \in Op \ {o} : op'[q] = op[q]
  BY OwnStepPasses DEF RotateWrap, RotateWrapUnanswered, Ends, Typed, TypeOK, Passes
<1>3. UNCHANGED <<hash, store>> /\ wrapped' = [pw |-> r.pw, salt |-> r.salt, dek |-> r.key]
  BY DEF RotateWrap, RotateWrapUnanswered
<1>4. /\ hash = [pw |-> r.pw, salt |-> r.salt]
      /\ \A x \in Entry \ r.got : store[x] \in {0, r.key}
  BY <1>1 DEF Sound, Undisturbed
<1>5. \A q \in Op \ {o} : op[q].pc \notin Minded
  BY <1>1, OthersMinded DEF Rotating
<1> HIDE DEF r, s
<1>6. ASSUME NEW q \in Op \ {o} PROVE Undisturbed(q)'
  BY <1>2, <1>5, <1>6 DEF Undisturbed, Minded
<1>7. Undisturbed(o)' BY <1>2 DEF Undisturbed, s
<1>8. KeysMatch'
  <2>1. wrapped'.pw = hash'.pw /\ wrapped'.salt = hash'.salt /\ wrapped'.dek # 0
    BY <1>1, <1>3, <1>4
  <2>2. hash # NoHash
    BY <1>1, RotatingFrom DEF Sound, KeysMatch, r
  <2> QED BY <1>3, <2>1, <2>2 DEF KeysMatch
<1>9. KeysServe'
  <2>1. wrapped'.dek = r.key /\ r.key # 0 BY <1>1, <1>3
  <2>2. \A x \in Entry : store'[x] \in Usable' BY <1>1, <1>3, <1>4, <2>1 DEF Usable
  <2> QED BY <2>1, <2>2 DEF KeysServe
<1> QED BY <1>6, <1>7, <1>8, <1>9 DEF Sound

LEMMA SoundWrite ==
  ASSUME Typed, Apart, Sound, NEW o \in Op, Write(o)
  PROVE  Sound'
<1> DEFINE r == op[o]
           s == op'[o]
<1>1. r.pc = "write" BY DEF Write
<1>2. s.pc = "idle" /\ Goes(o, s) /\ \A q \in Op \ {o} : op'[q] = op[q]
  BY OwnStepPasses DEF Write, Ends, Goes, Typed, TypeOK, Passes
<1>3. UNCHANGED <<hash, wrapped, dek>>
      /\ store' = [e \in Entry |-> IF e \in r.todo THEN r.key ELSE store[e]]
  BY DEF Write, memory
<1>4. r.key \in Usable BY <1>1 DEF Sound, Undisturbed
<1>5. \A q \in Op \ {o} : op[q].pc \notin {"rotateRead", "rotatePut"}
  BY <1>1, OthersMinded
<1> HIDE DEF r, s
<1>6. Usable \subseteq Usable' BY <1>1, <1>2, <1>3, UsableKept DEF r
<1>7. ASSUME NEW q \in Op \ {o} PROVE Undisturbed(q)'
  BY <1>2, <1>3, <1>5, <1>6, <1>7 DEF Sound, Undisturbed
<1>8. Undisturbed(o)' BY <1>2 DEF Undisturbed, s
<1>9. KeysMatch' BY <1>1, <1>2, <1>3 DEF Sound, KeysMatch, r
<1>10. KeysServe'
  <2>1. \A q \in Op : op[q].pc # "rotatePut" BY <1>1, <1>5 DEF r
  <2>2. \A e \in Entry : store[e] \in Usable BY <2>1 DEF Sound, KeysServe
  <2>3. \A e \in Entry : store'[e] \in Usable' BY <1>3, <1>4, <1>6, <2>2
  <2> QED BY <1>3, <1>6, <2>3 DEF Sound, KeysServe
<1> QED BY <1>7, <1>8, <1>9, <1>10 DEF Sound

\* A request that fails has written nothing yet: a rotation puts the old key back.
LEMMA SoundFail ==
  ASSUME Typed, Apart, Sound, NEW o \in Op, Fail(o), trouble' = {}
  PROVE  Sound'
<1> DEFINE r == op[o]
           s == op'[o]
<1>1. ~r.wrote BY DEF Fail, Interrupts
<1>2. s.pc = "idle" /\ Goes(o, s) /\ \A q \in Op \ {o} : op'[q] = op[q]
  BY OwnStepPasses DEF Fail, Ends, Goes, Typed, TypeOK
<1>3. UNCHANGED <<hash, wrapped, store>> BY DEF Fail, stored
<1>4. r.pc \notin {"initKey", "initWrap", "changeWrap"}
  BY <1>1 DEF Sound, Undisturbed
<1>5. Undisturbed(o)' BY <1>2 DEF Undisturbed
<1> HIDE DEF r, s
<1>6. CASE r.pc # "rotatePut"
  <2>1. UNCHANGED dek BY <1>6 DEF Fail, r
  <2> QED BY <1>2, <1>3, <1>4, <1>5, <1>6, <2>1, SoundQuiet DEF r
<1>7. CASE r.pc = "rotatePut"
  <2>1. \A x \in Entry : store[x] \in Usable BY <1>1, <1>7 DEF Sound, Undisturbed, r
  <2>2. wrapped.dek # 0 BY <1>7, RotatingFrom DEF r
  <2>3. \A q \in Op \ {o} : op[q].pc \notin Minded
    BY <1>7, OthersMinded DEF Rotating, r
  <2>4. Usable \subseteq Usable' BY <1>2, <1>3, <1>4, UsableKept DEF r
  <2>5. ASSUME NEW q \in Op \ {o} PROVE Undisturbed(q)'
    BY <1>2, <2>3, <2>5 DEF Undisturbed, Minded
  <2>6. KeysMatch' BY <1>2, <1>3, <1>4 DEF Sound, KeysMatch, r
  <2>7. KeysServe' BY <1>3, <2>1, <2>2, <2>4 DEF KeysServe
  <2> QED BY <1>5, <2>5, <2>6, <2>7 DEF Sound
<1> QED BY <1>6, <1>7

LEMMA SoundCrash ==
  ASSUME Typed, Apart, Sound, NEW n \in Node, Crash(n), trouble' = {}
  PROVE  Sound'
<1>1. /\ \A q \in Op : op[q].at = n => op'[q] = NoOp /\ ~op[q].wrote
      /\ \A q \in Op : op[q].at # n => op'[q] = op[q]
  BY DEF Crash, Interrupts
<1>2. UNCHANGED <<hash, wrapped, store>> /\ dek' = [dek EXCEPT ![n] = 0] /\ dek \in [Node -> Nat]
  BY DEF Crash, stored, Typed, TypeOK
<1>3. \A q \in Op : op[q].pc \in {"initKey", "initWrap", "changeWrap"} => op'[q] = op[q]
  BY <1>1 DEF Sound, Undisturbed
<1>4. Usable \subseteq Usable' BY <1>2, <1>3 DEF Usable
<1>5. NoOp.pc = "idle" BY DEF NoOp
<1>6. \A q \in Op : op[q].pc # "idle" => op[q].at \in Node BY DEF Typed, WellFormed
<1>7. ASSUME NEW q \in Op PROVE Undisturbed(q)'
  <2>1. CASE op[q].at = n
    BY <1>1, <1>5, <2>1 DEF Undisturbed
  <2>2. CASE op[q].at # n /\ op[q].pc = "idle"
    BY <1>1, <2>2 DEF Undisturbed
  <2>3. CASE op[q].at # n /\ op[q].pc # "idle"
    <3>1. dek'[op[q].at] = dek[op[q].at] BY <1>2, <1>6, <2>3
    <3> QED BY <1>1, <1>2, <1>4, <2>3, <3>1 DEF Sound, Undisturbed
  <2> QED BY <2>1, <2>2, <2>3
<1>8. KeysMatch' BY <1>2, <1>3 DEF Sound, KeysMatch
<1>9. KeysServe'
  <2>1. ASSUME \A q \in Op : op'[q].pc # "rotatePut" PROVE \A x \in Entry : store[x] \in Usable
    <3>1. CASE \A q \in Op : op[q].pc # "rotatePut" BY <3>1 DEF Sound, KeysServe
    <3>2. ASSUME NEW q \in Op, op[q].pc = "rotatePut" PROVE \A x \in Entry : store[x] \in Usable
      BY <1>1, <2>1, <3>2 DEF Sound, Undisturbed
    <3> QED BY <3>1, <3>2
  <2>2. 0 \in Usable BY DEF Usable
  <2> QED BY <1>2, <1>4, <2>1, <2>2 DEF Sound, KeysServe
<1> QED BY <1>7, <1>8, <1>9 DEF Sound

\* A request that uses the key of its node arrives only where that is the stored one.
LEMMA SoundRequest ==
  ASSUME Typed, Apart, Sound, NEW o \in Op, Request(o), trouble' = {}
  PROVE  Sound'
<1> DEFINE s == op'[o]
<1>1. PICK t \in OpType, b \in BOOLEAN :
         /\ t.pc \in {"initCheck", "unsealHash", "changeCheck", "rotateCheck", "write"}
         /\ Arrives(o, t, b)
  BY RequestComes DEF Comes
<1>2. Goes(o, s) /\ s = t /\ op[o].pc = "idle" /\ UNCHANGED <<hash, wrapped, store, dek>>
  BY <1>1 DEF Arrives, Goes, Typed, TypeOK, stored, memory
<1>3. \A n \in Node : wrapped.dek \in {0, dek[n]} => dek[n] \in Usable
  BY DEF Sound, KeysServe, Usable
<1>4. Usable \subseteq Usable' /\ 0 \in Usable BY <1>2, UsableKept DEF Usable
<1>5. NoOp \in OpType BY NoOpTyped
<1>6. ASSUME NEW n \in Node, NEW pw \in Password, NEW new \in Password, ChangeRequest(o, n, pw, new)
      PROVE  Undisturbed(o)'
  <2> DEFINE t1 == [NoOp EXCEPT !.pc = "changeCheck", !.at = n, !.pw = pw, !.new = new,
                            !.salt = fresh + 1]
  <2>1. t1.pc = "changeCheck" /\ t1.at = n BY <1>5 DEF OpType
  <2>2. Arrives(o, t1, TRUE) /\ dek[n] # 0 BY <1>6 DEF ChangeRequest, Sealed
  <2> HIDE DEF t1
  <2>3. s = t1 BY <2>2 DEF Arrives, Goes, Typed, TypeOK
  <2>4. wrapped.dek \in {0, dek[n]} BY <2>1, <2>2 DEF Arrives
  <2>5. \A q \in Op : op[q].pc # "initWrap"
    <3>1. ASSUME NEW q \in Op, op[q].pc = "initWrap" PROVE FALSE
      <4>1. q \in Busy BY <3>1 DEF Busy
      <4>2. Spoils(t1, op[q]) BY <2>1, <3>1 DEF Spoils, Replacing, Initialising, Changing
      <4> QED BY <2>2, <4>1, <4>2 DEF Arrives
    <3> QED BY <3>1
  <2>6. dek[n] = wrapped.dek BY <1>3, <2>2, <2>4, <2>5 DEF Usable
  <2> QED BY <1>2, <2>1, <2>2, <2>3, <2>6 DEF Undisturbed
<1>7. ASSUME NEW n \in Node, NEW e \in Entry, WriteRequest(o, n, e)
      PROVE  Undisturbed(o)'
  <2> DEFINE t1 == [NoOp EXCEPT !.pc = "write", !.at = n, !.key = dek[n], !.todo = {e}]
  <2>1. t1.pc = "write" /\ t1.at = n /\ t1.key = dek[n] BY <1>5 DEF OpType
  <2>2. Arrives(o, t1, TRUE) BY <1>7 DEF WriteRequest
  <2> HIDE DEF t1
  <2>3. s = t1 BY <2>2 DEF Arrives, Goes, Typed, TypeOK
  <2>4. wrapped.dek \in {0, dek[n]} BY <2>1, <2>2 DEF Arrives
  <2> QED BY <1>3, <1>4, <2>1, <2>3, <2>4 DEF Undisturbed
<1>8. ASSUME NEW n \in Node, NEW e \in Entry, DeleteRequest(o, n, e)
      PROVE  Undisturbed(o)'
  <2> DEFINE t1 == [NoOp EXCEPT !.pc = "write", !.at = n, !.todo = {e}]
  <2>1. t1.pc = "write" /\ t1.key = 0 BY DEF NoOp
  <2>2. Arrives(o, t1, FALSE) BY <1>8 DEF DeleteRequest
  <2> HIDE DEF t1
  <2>3. s = t1 BY <2>2 DEF Arrives, Goes, Typed, TypeOK
  <2> QED BY <1>4, <2>1, <2>3 DEF Undisturbed
<1>9. ASSUME NEW n \in Node, NEW pw \in Password,
             InitRequest(o, n, pw) \/ UnsealRequest(o, n, pw) \/ RotateRequest(o, n, pw)
      PROVE  Undisturbed(o)'
  <2>1. s.pc \in {"initCheck", "unsealHash", "rotateCheck"}
    <3> DEFINE t1 == [NoOp EXCEPT !.pc = "initCheck", !.at = n, !.pw = pw, !.key = fresh + 1]
               t2 == [NoOp EXCEPT !.pc = "unsealHash", !.at = n, !.pw = pw]
               t3 == [NoOp EXCEPT !.pc = "rotateCheck", !.at = n, !.pw = pw, !.key = fresh + 1]
    <3>1. t1.pc = "initCheck" /\ t2.pc = "unsealHash" /\ t3.pc = "rotateCheck" BY <1>5 DEF OpType
    <3>2. \E t0 \in {t1, t2, t3} : Arrives(o, t0, FALSE)
      BY <1>9 DEF InitRequest, UnsealRequest, RotateRequest
    <3> HIDE DEF t1, t2, t3
    <3> QED BY <3>1, <3>2 DEF Arrives, Goes, Typed, TypeOK
  <2> QED BY <2>1 DEF Undisturbed
<1>10. Undisturbed(o)' BY <1>6, <1>7, <1>8, <1>9 DEF Request
<1> HIDE DEF s
<1> QED BY <1>1, <1>2, <1>10, SoundQuiet

\* The steps that only read, or touch only the session secret.
LEMMA SoundRead ==
  ASSUME Typed, Apart, Sound, NEW o \in Op,
         \/ InitCheck(o) \/ InitJwt(o) \/ UnsealHash(o) \/ UnsealJwt(o) \/ SecretGet(o) \/ PutJwt(o)
         \/ ChangeCheck(o) \/ RotateCheck(o) \/ (UnsealKey(o) /\ UNCHANGED dek)
  PROVE  Sound'
<1> DEFINE r == op[o]
           s == op'[o]
<1>1. r \in OpType /\ op \in [Op -> OpType] /\ NoOp.pc = "idle" BY DEF Typed, TypeOK, NoOp
<1>2. UNCHANGED <<hash, wrapped, store, dek>>
  BY DEF InitCheck, InitJwt, UnsealHash, UnsealKey, UnsealJwt, SecretGet, PutJwt, ChangeCheck, RotateCheck,
         stored, memory
<1>3. r.pc \in {"initCheck", "initJwt", "changeCheck", "rotateCheck"} \cup Unsealing
  BY OwnStepPasses DEF Passes, Unsealing
<1>4. s.pc \in {"idle", "initHash", "changeHash", "rotateRead"} \cup Unsealing
  BY OwnStepPasses DEF Passes, Unsealing
<1>5. Goes(o, s)
  BY <1>1, OwnStepProceeds DEF OwnStep, Proceeds, Goes
<1>6. Undisturbed(o)'
  <2>1. CASE s.pc \in {"idle"} \cup Unsealing BY <2>1 DEF Undisturbed, Unsealing
  <2>2. CASE s.pc = "initHash"
    <3>1. InitCheck(o) BY <2>2, OwnStepPasses DEF Passes, Unsealing
    <3>2. hash = NoHash BY <1>1, <2>2, <3>1 DEF InitCheck, Ends
    <3> QED BY <1>2, <2>2, <3>2 DEF Undisturbed
  <2>3. CASE s.pc = "changeHash"
    <3>1. ChangeCheck(o) BY <2>3, OwnStepPasses DEF Passes, Unsealing
    <3>2. r.pc = "changeCheck" /\ s.at = r.at BY <1>1, <2>3, <3>1 DEF ChangeCheck, Ends, Goes, OpType
    <3>3. dek[r.at] = wrapped.dek /\ wrapped.dek # 0 BY <3>2 DEF Sound, Undisturbed
    <3> QED BY <1>2, <2>3, <3>2, <3>3 DEF Undisturbed
  <2>4. CASE s.pc = "rotateRead"
    <3>1. RotateCheck(o) BY <2>4, OwnStepPasses DEF Passes, Unsealing
    <3>2. hash.pw = r.pw /\ Goes(o, [r EXCEPT !.pc = "rotateRead", !.salt = hash.salt, !.todo = Entry])
      BY <1>1, <2>4, <3>1 DEF RotateCheck, Ends
    <3>3. s.pw = r.pw /\ s.salt = hash.salt /\ s.todo = Entry BY <1>1, <3>2 DEF Goes, OpType
    <3>4. hash \in [pw : Given, salt : Nat] BY DEF Typed, TypeOK
    <3>5. hash = [pw |-> s.pw, salt |-> s.salt] BY <3>2, <3>3, <3>4
    <3> QED BY <1>2, <2>4, <3>3, <3>5 DEF Undisturbed
  <2> QED BY <1>4, <2>1, <2>2, <2>3, <2>4
<1> HIDE DEF s
<1> QED BY <1>2, <1>3, <1>4, <1>5, <1>6, SoundQuiet DEF Unsealing

LEMMA SoundNext ==
  ASSUME Typed, Apart, Sound, Next, trouble' = {}
  PROVE  Sound'
<1>1. ASSUME NEW o \in Op, OwnStep(o) PROVE Sound'
  <2>1. CASE \/ InitCheck(o) \/ InitJwt(o) \/ UnsealHash(o) \/ UnsealJwt(o) \/ SecretGet(o)
             \/ PutJwt(o) \/ ChangeCheck(o) \/ RotateCheck(o)
    BY <2>1, SoundRead
  <2>2. CASE UnsealKey(o)
    BY <2>2, SoundRead, SoundUnsealKey
  <2>3. CASE InitHash(o) \/ InitKey(o) \/ InitWrap(o) \/ ChangeHash(o) \/ ChangeWrap(o)
    BY <2>3, SoundInitHash, SoundInitKey, SoundInitWrap, SoundChangeHash, SoundChangeWrap
  <2>4. CASE RotateWrap(o) \/ RotateWrapUnanswered(o) \/ Write(o) \/ Fail(o)
    BY <2>4, SoundRotateWrap, SoundWrite, SoundFail
  <2>5. ASSUME NEW e \in Entry, RotateRead(o, e) \/ RotatePut(o, e) PROVE Sound'
    BY <2>5, SoundRotateRead, SoundRotatePut
  <2> QED BY <1>1, <2>1, <2>2, <2>3, <2>4, <2>5 DEF OwnStep
<1> QED BY <1>1, NextSteps, SoundRequest, SoundCrash
-----------------------------------------------------------------------------
(* The theorems.                                                           *)

LEMMA Initially ==
  ASSUME Init
  PROVE  IInv
<1>1. Typed BY TypedInit
<1>2. \A o \in Op : op[o] = NoOp /\ op[o].pc = "idle" BY DEF Init, NoOp
<1>3. Apart
  BY <1>2 DEF Apart, Spoils, Replacing, Initialising, Changing, Rotating, Unsealing
<1>4. SecretKept
  BY <1>2 DEF Init, SecretKept, SecretMade, Unsealing
<1>5. \A o \in Op : Undisturbed(o) BY <1>2 DEF Undisturbed
<1>6. KeysMatch /\ KeysServe
  BY <1>2 DEF Init, KeysMatch, KeysServe, NoWrapped, NoHash, Usable
<1> QED BY <1>1, <1>3, <1>4, <1>5, <1>6 DEF IInv, Calm, Sound

LEMMA Inductive ==
  ASSUME IInv, [Next]_vars
  PROVE  IInv'
<1>1. Typed' BY TypedNext DEF IInv
<1>2. trouble \subseteq trouble' BY TroubleStays DEF IInv
<1>3. ASSUME "overlapped" \notin trouble' PROVE Apart' /\ SecretKept'
  <2>1. Apart /\ SecretKept BY <1>2, <1>3 DEF IInv
  <2> QED BY <1>3, <2>1, ApartNext, SecretNext DEF IInv
<1>4. ASSUME trouble' = {} PROVE Sound'
  <2>1. trouble = {} BY <1>2, <1>4
  <2>2. Typed /\ Apart /\ Sound BY <2>1 DEF IInv, Calm
  <2>3. CASE UNCHANGED vars
    <3>1. UNCHANGED <<hash, wrapped, store, dek, op>> BY <2>3 DEF vars
    <3>2. Usable' = Usable BY <3>1 DEF Usable
    <3>3. \A o \in Op : Undisturbed(o)' BY <2>2, <3>1, <3>2 DEF Sound, Undisturbed
    <3>4. KeysMatch' /\ KeysServe' BY <2>2, <3>1, <3>2 DEF Sound, KeysMatch, KeysServe
    <3> QED BY <3>3, <3>4 DEF Sound
  <2>4. CASE Next BY <1>4, <2>2, <2>4, SoundNext
  <2> QED BY <2>3, <2>4
<1> QED BY <1>1, <1>3, <1>4 DEF IInv, Calm

LEMMA Invariant == Spec => []IInv
<1>1. Init => IInv BY Initially
<1>2. IInv /\ [Next]_vars => IInv' BY Inductive
<1> QED BY <1>1, <1>2, PTL DEF Spec

\* Every variable stays in its type: hash, wrapped key, entries and session secret in
\* etcd, the keys in memory, the requests in flight.
THEOREM TypeCorrect == Spec => []TypeOK
<1>1. IInv => TypeOK BY DEF IInv, Typed
<1> QED BY <1>1, Invariant, PTL

\* When all requests are over and nothing happened that the code does not guard against,
\* the password in force unwraps the key that everything stored decrypts with
\* (secrets.js, the order of reads, checks and writes in all five requests).
THEOREM SettledKeysOpenAll == Spec => []SettledIsRecoverable
<1>1. IInv => SettledIsRecoverable
  <2> SUFFICES ASSUME IInv, Busy = {}, trouble = {}, hash # NoHash
               PROVE  /\ wrapped.pw = hash.pw
                      /\ wrapped.salt = hash.salt
                      /\ \A e \in Entry : store[e] \in {0, wrapped.dek}
    BY DEF SettledIsRecoverable
  <2>1. \A o \in Op : op[o].pc = "idle" BY DEF Busy
  <2>2. KeysMatch /\ KeysServe BY DEF IInv, Calm, Sound
  <2>3. {o \in Op : op[o].pc = "initWrap"} = {} BY <2>1
  <2>4. Usable = {0, wrapped.dek} BY <2>3 DEF Usable
  <2> QED BY <2>1, <2>2, <2>4 DEF KeysMatch, KeysServe
<1> QED BY <1>1, Invariant, PTL

\* The nodes that have a session secret have the one that is stored, until a rotation
\* makes an unsealing node take its ciphertext for the secret (secrets.js,
\* initializeSystem, unsealNode, getOrCreateJwtSecret).
THEOREM SessionSecretIsOne == Spec => []SessionSecretAgreed
<1>1. IInv => SessionSecretAgreed
  BY DEF IInv, SecretKept, SessionSecretAgreed
<1> QED BY <1>1, Invariant, PTL
====
