------------------------------ MODULE Sessions ------------------------------
(***************************************************************************)
(* The sessions of one node: backend/services/session.js and the routes of *)
(* backend/index.js that open, refresh and close them. A token carries the *)
(* generation of its node; an unseal moves the generation on, a logout and *)
(* a refresh put the token on a blacklist. Both are plain reads and writes *)
(* of etcd, and every call below is a step of its own.                     *)
(***************************************************************************)
EXTENDS Naturals

CONSTANTS
    SessionRequest,   \* requests in flight at a time
    MaxTokens,        \* bound: tokens issued
    SessMaxFaults     \* bound: failing calls to etcd

Token == 1 .. MaxTokens
NoToken == 0

ASSUME SessionsAssumption == MaxTokens \in Nat /\ SessMaxFaults \in Nat

VARIABLES
    sGen,       \* system/sessions/gen/<node>
    sBlack,     \* system/sessions/blacklist/<token>
    sTok,       \* sTok[t]: the token t, once it is issued
    sReq,       \* sReq[q]: the request q
    sOverlap,   \* two unseals were under way at a time
    sFaults     \* faults so far

sessVars == <<sGen, sBlack, sTok, sReq, sOverlap, sFaults>>

\* root: the token its session began with. ended: the session was closed, by a
\* logout or by an unseal. raced: it was used by one request while another used
\* or closed it.
TokenType == [gen : Nat, root : Token \cup {NoToken}, ended : BOOLEAN, raced : BOOLEAN]
Unissued == [gen |-> 0, root |-> NoToken, ended |-> FALSE, raced |-> FALSE]
Issued == {t \in Token : sTok[t].root # NoToken}

SessReqType ==
    [pc : {"idle", "genGet", "genPut", "sign", "black", "gen", "revoke", "again", "retire"},
     kind : {"none", "unseal", "logout", "refresh"}, tok : Token \cup {NoToken}, got : Nat]
NoReq == [pc |-> "idle", kind |-> "none", tok |-> NoToken, got |-> 0]

SessTypeOK ==
    /\ sGen \in Nat /\ sBlack \subseteq Token
    /\ sTok \in [Token -> TokenType]
    /\ sReq \in [SessionRequest -> SessReqType]
    /\ sOverlap \in BOOLEAN /\ sFaults \in 0 .. SessMaxFaults

SessInit ==
    /\ sGen = 0 /\ sBlack = {}
    /\ sTok = [t \in Token |-> Unissued]
    /\ sReq = [q \in SessionRequest |-> NoReq]
    /\ sOverlap = FALSE /\ sFaults = 0

SessFault == sFaults < SessMaxFaults /\ sFaults' = sFaults + 1
SessWorks == UNCHANGED sFaults

SessGo(q, pc) == sReq' = [sReq EXCEPT ![q].pc = pc]
SessEnd(q) == sReq' = [sReq EXCEPT ![q] = NoReq]

Using(t) == {q \in SessionRequest : sReq[q].tok # NoToken /\ sTok[sReq[q].tok].root = sTok[t].root}
Unsealing == {q \in SessionRequest : sReq[q].kind = "unseal"}

-----------------------------------------------------------------------------
(* POST /unseal, once the password was right.                              *)

BeginUnseal(q) ==
    /\ sReq[q].pc = "idle" /\ Issued # Token
    /\ sReq' = [sReq EXCEPT ![q] = [NoReq EXCEPT !.pc = "genGet", !.kind = "unseal"]]
    /\ sOverlap' = (sOverlap \/ Unsealing # {})
    /\ sTok' = [t \in Token |-> [sTok[t] EXCEPT !.raced = @ \/ (t \in Issued /\ Using(t) # {})]]
    /\ UNCHANGED <<sGen, sBlack, sFaults>>

\* revokeAllSessions reads the generation and writes the next one; its failure
\* is logged, and the unseal goes on.
GenGet(q) ==
    /\ sReq[q].pc = "genGet"
    /\ \/ SessWorks /\ sReq' = [sReq EXCEPT ![q].pc = "genPut", ![q].got = sGen]
       \/ SessFault /\ SessGo(q, "sign")
    /\ UNCHANGED <<sGen, sBlack, sTok, sOverlap>>

GenPut(q) ==
    /\ sReq[q].pc = "genPut"
    /\ SessGo(q, "sign")
    /\ \/ /\ SessWorks /\ sGen' = sReq[q].got + 1
          /\ sTok' = [t \in Token |-> [sTok[t] EXCEPT !.ended = @ \/ t \in Issued]]
       \/ SessFault /\ UNCHANGED <<sGen, sTok>>
    /\ UNCHANGED <<sBlack, sOverlap>>

\* signToken: a token of the generation as it is by now. A refresh hands on the
\* session of the token it was given.
Sign(q) ==
    /\ sReq[q].pc = "sign"
    /\ SessEnd(q)
    /\ \/ /\ SessWorks
          /\ \E t \in Token \ Issued :
               /\ \A u \in Token \ Issued : t <= u
               /\ sTok' = [sTok EXCEPT ![t] =
                             IF sReq[q].tok = NoToken
                             THEN [gen |-> sGen, root |-> t, ended |-> FALSE, raced |-> FALSE]
                             ELSE [sTok[sReq[q].tok] EXCEPT !.gen = sGen]]
       \/ SessFault /\ UNCHANGED sTok
    /\ UNCHANGED <<sGen, sBlack, sOverlap>>

-----------------------------------------------------------------------------
(* POST /logout and POST /session/refresh.                                 *)

BeginUse(q, t, kind) ==
    /\ sReq[q].pc = "idle" /\ t \in Issued /\ Issued # Token /\ kind \in {"logout", "refresh"}
    /\ sReq' = [sReq EXCEPT ![q] = [NoReq EXCEPT !.pc = "black", !.kind = kind, !.tok = t]]
    /\ sTok' = [u \in Token |->
                  [sTok[u] EXCEPT !.raced = @ \/ (/\ u \in Issued /\ sTok[u].root = sTok[t].root
                                                  /\ Using(t) \cup Unsealing # {})]]
    /\ UNCHANGED <<sGen, sBlack, sOverlap, sFaults>>

\* requireAuth: is the token on the blacklist, and is its generation current?
\* A call that fails is a session that is refused.
AuthBlack(q) ==
    /\ sReq[q].pc = "black"
    /\ \/ SessWorks /\ sReq[q].tok \notin sBlack /\ SessGo(q, "gen")
       \/ ((SessWorks /\ sReq[q].tok \in sBlack) \/ SessFault) /\ SessEnd(q)
    /\ UNCHANGED <<sGen, sBlack, sTok, sOverlap>>

\* Mutant of AuthGen: the generation is not compared.
AuthGenUnchecked(q) ==
    /\ sReq[q].pc = "gen"
    /\ SessWorks /\ SessGo(q, IF sReq[q].kind = "logout" THEN "revoke" ELSE "again")
    /\ UNCHANGED <<sGen, sBlack, sTok, sOverlap>>

AuthGen(q) ==
    /\ sReq[q].pc = "gen"
    /\ \/ /\ SessWorks /\ sTok[sReq[q].tok].gen >= sGen
          /\ SessGo(q, IF sReq[q].kind = "logout" THEN "revoke" ELSE "again")
       \/ ((SessWorks /\ sTok[sReq[q].tok].gen < sGen) \/ SessFault) /\ SessEnd(q)
    /\ UNCHANGED <<sGen, sBlack, sTok, sOverlap>>

\* Logout: the token goes on the blacklist for good; a failure is swallowed.
Revoke(q) ==
    /\ sReq[q].pc = "revoke"
    /\ SessEnd(q)
    /\ \/ /\ SessWorks /\ sBlack' = sBlack \cup {sReq[q].tok}
          /\ sTok' = [t \in Token |-> [sTok[t] EXCEPT !.ended = @ \/ (/\ t \in Issued
                                         /\ sTok[t].root = sTok[sReq[q].tok].root)]]
       \/ SessFault /\ UNCHANGED <<sBlack, sTok>>
    /\ UNCHANGED <<sGen, sOverlap>>

\* refreshToken looks at the blacklist once more ...
Again(q) ==
    /\ sReq[q].pc = "again"
    /\ \/ SessWorks /\ sReq[q].tok \notin sBlack /\ SessGo(q, "retire")
       \/ ((SessWorks /\ sReq[q].tok \in sBlack) \/ SessFault) /\ SessEnd(q)
    /\ UNCHANGED <<sGen, sBlack, sTok, sOverlap>>

\* Mutant of Retire: an error on the way to the blacklist is swallowed.
RetireCaught(q) ==
    /\ sReq[q].pc = "retire"
    /\ \/ SessWorks /\ sBlack' = sBlack \cup {sReq[q].tok} /\ SessGo(q, "sign")
       \/ SessFault /\ UNCHANGED sBlack /\ SessGo(q, "sign")
    /\ UNCHANGED <<sGen, sTok, sOverlap>>

\* ... puts the old token on it, for the 8 h it could live, and only then has a
\* new one signed.
Retire(q) ==
    /\ sReq[q].pc = "retire"
    /\ \/ SessWorks /\ sBlack' = sBlack \cup {sReq[q].tok} /\ SessGo(q, "sign")
       \/ SessFault /\ sBlack' \in {sBlack, sBlack \cup {sReq[q].tok}} /\ SessEnd(q)
    /\ UNCHANGED <<sGen, sTok, sOverlap>>

-----------------------------------------------------------------------------
SessStep(q) ==
    \/ GenGet(q) \/ GenPut(q) \/ Sign(q)
    \/ AuthBlack(q) \/ AuthGen(q) \/ Revoke(q) \/ Again(q) \/ Retire(q)

SessNext ==
    \E q \in SessionRequest :
        \/ SessStep(q) \/ BeginUnseal(q)
        \/ \E t \in Token, kind \in {"logout", "refresh"} : BeginUse(q, t, kind)

SessSpec == SessInit /\ [][SessNext]_sessVars

-----------------------------------------------------------------------------
(* Properties.                                                             *)

\* requireAuth lets this token pass.
Valid(t) == t \in Issued /\ t \notin sBlack /\ sTok[t].gen >= sGen

\* A session that is refreshed again and again has one token that works at most,
\* whatever fails, as long as no two requests use it at a time.
OneTokenPerSession ==
    \A t, u \in Issued :
        t # u /\ sTok[t].root = sTok[u].root /\ ~sTok[t].raced => ~(Valid(t) /\ Valid(u))

\* A session that was closed, by a logout or by an unseal that could write the
\* generation, never works again, not even through a later refresh. A refresh
\* under way at that moment escapes it, and unseals that overlap may set the
\* generation back.
EndedStaysEnded ==
    ~sOverlap => \A t \in Issued : sTok[t].ended /\ ~sTok[t].raced => ~Valid(t)
=============================================================================
