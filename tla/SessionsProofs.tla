--------------------------- MODULE SessionsProofs ---------------------------
(***************************************************************************)
(* What holds of the sessions of a node, for any number of requests, tokens*)
(* and failing calls.                                                      *)
(***************************************************************************)
EXTENDS Sessions, TLAPS

Root(t) == sTok[t].root
TokOf(q) == sReq[q].tok

\* A request has a token while it uses one, and no other.
Shaped(q) ==
    /\ TokOf(q) # NoToken => TokOf(q) \in Issued
    /\ sReq[q].pc \in {"black", "gen", "revoke", "again", "retire"} => TokOf(q) # NoToken
    /\ sReq[q].kind = "unseal" => TokOf(q) = NoToken
    /\ sReq[q].pc \in {"genGet", "genPut"} => sReq[q].kind = "unseal"

\* A session begins with a token of its own, and is raced and ended as a whole.
RootsIssued == \A t \in Issued : Root(t) \in Issued
RacedTogether == \A t, u \in Issued : Root(t) = Root(u) => sTok[t].raced = sTok[u].raced
EndedTogether == \A t, u \in Issued : Root(t) = Root(u) => sTok[t].ended = sTok[u].ended

\* A session that is not raced is used by one request at a time, and by none
\* while the node is unsealed.
UsedAlone(q) ==
    TokOf(q) # NoToken /\ ~sTok[TokOf(q)].raced =>
        \A p \in SessionRequest \ {q} :
            /\ sReq[p].kind # "unseal"
            /\ TokOf(p) # NoToken => Root(TokOf(p)) # Root(TokOf(q))

\* All its tokens but one are on the blacklist ...
OneLeft ==
    \A t, u \in Issued : t # u /\ Root(t) = Root(u) /\ ~sTok[t].raced => t \in sBlack \/ u \in sBlack

\* ... which the one in use is not, until all of them are.
InUse(q) ==
    TokOf(q) # NoToken /\ ~sTok[TokOf(q)].raced =>
        /\ sReq[q].pc \in {"gen", "revoke", "again", "retire"} => TokOf(q) \notin sBlack
        /\ sReq[q].pc = "sign" => \A u \in Issued : Root(u) = Root(TokOf(q)) => u \in sBlack

\* As long as unseals do not overlap, the generation only grows ...
OneUnseals ==
    ~sOverlap => \A p, q \in SessionRequest :
                     sReq[p].kind = "unseal" /\ sReq[q].kind = "unseal" => p = q
ReadsLatest(q) == ~sOverlap /\ sReq[q].pc = "genPut" => sReq[q].got = sGen
NoneAhead == ~sOverlap => \A t \in Issued : sTok[t].gen <= sGen

\* ... and what has ended is of an earlier one, or on the blacklist.
EndedIsOver ==
    ~sOverlap => \A t \in Issued :
                     sTok[t].ended /\ ~sTok[t].raced => t \in sBlack \/ sTok[t].gen < sGen

\* A refresh that was let in is one of a session that has not ended.
LetIn(q) ==
    /\ ~sOverlap /\ TokOf(q) # NoToken /\ ~sTok[TokOf(q)].raced
    /\ sReq[q].pc \in {"again", "retire", "sign"}
    => ~sTok[TokOf(q)].ended

OfTokens == RootsIssued /\ RacedTogether /\ EndedTogether /\ OneLeft /\ NoneAhead /\ EndedIsOver
OfRequest(q) == Shaped(q) /\ UsedAlone(q) /\ InUse(q) /\ ReadsLatest(q) /\ LetIn(q)

SessInv ==
    /\ SessTypeOK /\ OfTokens /\ OneUnseals
    /\ \A q \in SessionRequest : OfRequest(q)

-----------------------------------------------------------------------------
(* The updates of a request.                                               *)

OthersWait(q) == \A p \in SessionRequest \ {q} : sReq'[p] = sReq[p]

LEMMA FaultsCounted ==
    ASSUME sFaults \in 0 .. SessMaxFaults, SessWorks \/ SessFault
    PROVE  sFaults' \in 0 .. SessMaxFaults
BY SessionsAssumption DEF SessWorks, SessFault

LEMMA GoFacts ==
    ASSUME sReq \in [SessionRequest -> SessReqType], NEW q \in SessionRequest,
           NEW pc \in {"genPut", "sign", "gen", "revoke", "again", "retire"}, SessGo(q, pc)
    PROVE  /\ sReq' \in [SessionRequest -> SessReqType] /\ OthersWait(q)
           /\ sReq'[q].pc = pc /\ sReq'[q].kind = sReq[q].kind
           /\ sReq'[q].tok = sReq[q].tok /\ sReq'[q].got = sReq[q].got
<1>1. [sReq[q] EXCEPT !.pc = pc] \in SessReqType
    BY DEF SessReqType
<1>2. sReq' = [sReq EXCEPT ![q] = [sReq[q] EXCEPT !.pc = pc]]
    BY DEF SessGo
<1>3. sReq'[q] = [sReq[q] EXCEPT !.pc = pc] /\ sReq[q] \in SessReqType
    BY <1>2
<1> QED
    BY <1>1, <1>2, <1>3 DEF OthersWait, SessReqType

LEMMA NoReqFacts ==
    NoReq \in SessReqType /\ NoReq.pc = "idle" /\ NoReq.kind = "none" /\ NoReq.tok = NoToken
BY DEF NoReq, SessReqType, NoToken

LEMMA EndFacts ==
    ASSUME sReq \in [SessionRequest -> SessReqType], NEW q \in SessionRequest, SessEnd(q)
    PROVE  /\ sReq' \in [SessionRequest -> SessReqType] /\ OthersWait(q)
           /\ sReq'[q].pc = "idle" /\ sReq'[q].kind = "none" /\ sReq'[q].tok = NoToken
BY NoReqFacts DEF SessEnd, OthersWait

\* Tokens have the fields they have.
LEMMA TokenFields ==
    ASSUME sTok \in [Token -> TokenType], NEW t \in Token
    PROVE  /\ sTok[t].gen \in Nat /\ sTok[t].root \in Token \cup {NoToken}
           /\ sTok[t].ended \in BOOLEAN /\ sTok[t].raced \in BOOLEAN
BY DEF TokenType

-----------------------------------------------------------------------------
(* Steps that change nothing but one request.                              *)

Still == UNCHANGED <<sGen, sBlack, sTok, sOverlap>>

\* Where a request goes on to is right for its own part.
LEMMA GoesOn ==
    ASSUME SessInv, NEW q \in SessionRequest, Still, SessWorks \/ SessFault,
           sReq' \in [SessionRequest -> SessReqType], OthersWait(q),
           sReq'[q].tok = TokOf(q) \/ sReq'[q].tok = NoToken,
           sReq'[q].kind = sReq[q].kind \/ sReq'[q].kind = "none",
           Shaped(q)', InUse(q)', ReadsLatest(q)', LetIn(q)'
    PROVE  SessInv'
<1>1. sTok' = sTok /\ sBlack' = sBlack /\ sGen' = sGen /\ sOverlap' = sOverlap /\ Issued' = Issued
    BY DEF Still, Issued
<1>2. SessTypeOK'
    BY <1>1, FaultsCounted DEF SessInv, SessTypeOK
<1>3. OfTokens'
    BY <1>1 DEF SessInv, OfTokens, RootsIssued, RacedTogether, EndedTogether, OneLeft, NoneAhead,
                EndedIsOver, Root
<1>4. OneUnseals'
    BY <1>1 DEF SessInv, OneUnseals, OthersWait
<1>5. ASSUME NEW p \in SessionRequest, p # q PROVE OfRequest(p)'
    <2>1. sReq'[p] = sReq[p]
        BY <1>5 DEF OthersWait
    <2>2. OfRequest(p)
        BY DEF SessInv
    <2>3. UsedAlone(p)'
        BY <1>1, <2>1, <2>2 DEF OfRequest, UsedAlone, OthersWait, TokOf, Root
    <2> QED
        BY <1>1, <2>1, <2>2, <2>3 DEF OfRequest, Shaped, InUse, ReadsLatest, LetIn, TokOf, Root
<1>6. UsedAlone(q)'
    BY <1>1 DEF SessInv, OfRequest, UsedAlone, OthersWait, TokOf, Root
<1> QED
    BY <1>2, <1>3, <1>4, <1>5, <1>6 DEF SessInv, OfRequest

LEMMA EndsQuietly ==
    ASSUME SessInv, NEW q \in SessionRequest, Still, SessWorks \/ SessFault, SessEnd(q)
    PROVE  SessInv'
<1>1. /\ sReq' \in [SessionRequest -> SessReqType] /\ OthersWait(q)
      /\ sReq'[q].pc = "idle" /\ sReq'[q].kind = "none" /\ sReq'[q].tok = NoToken
    BY EndFacts DEF SessInv, SessTypeOK
<1>2. Shaped(q)' /\ InUse(q)' /\ ReadsLatest(q)' /\ LetIn(q)'
    BY <1>1 DEF Shaped, InUse, ReadsLatest, LetIn, TokOf
<1> QED
    BY <1>1, <1>2, GoesOn

LEMMA GoesQuietly ==
    ASSUME SessInv, NEW q \in SessionRequest, Still, SessWorks \/ SessFault,
           NEW pc \in {"sign", "gen", "revoke", "again", "retire"}, SessGo(q, pc),
           \/ sReq[q].kind = "unseal" /\ pc = "sign"
           \/ /\ TokOf(q) # NoToken /\ pc # "sign"
              /\ ~sTok[TokOf(q)].raced => TokOf(q) \notin sBlack
              /\ ~sOverlap /\ ~sTok[TokOf(q)].raced /\ pc \in {"again", "retire"}
                 => ~sTok[TokOf(q)].ended
    PROVE  SessInv'
<1>1. /\ sReq' \in [SessionRequest -> SessReqType] /\ OthersWait(q) /\ sReq'[q].pc = pc
      /\ sReq'[q].kind = sReq[q].kind /\ sReq'[q].tok = TokOf(q)
    BY GoFacts DEF SessInv, SessTypeOK, TokOf
<1>2. sTok' = sTok /\ sBlack' = sBlack /\ sOverlap' = sOverlap /\ Issued' = Issued
    BY DEF Still, Issued
<1>3. Shaped(q)
    BY DEF SessInv, OfRequest
<1>4. Shaped(q)' /\ InUse(q)' /\ ReadsLatest(q)' /\ LetIn(q)'
    BY <1>1, <1>2, <1>3 DEF Shaped, InUse, ReadsLatest, LetIn, TokOf
<1> QED
    BY <1>1, <1>4, GoesOn DEF TokOf

LEMMA GenGetHolds ==
    ASSUME SessInv, NEW q \in SessionRequest, GenGet(q)
    PROVE  SessInv'
<1>0. Still /\ Shaped(q) /\ sReq[q].kind = "unseal" /\ sReq[q].pc = "genGet"
    BY DEF GenGet, Still, SessInv, OfRequest, Shaped
<1>1. CASE SessFault /\ SessGo(q, "sign")
    BY <1>0, <1>1, GoesQuietly
<1>2. CASE SessWorks /\ sReq' = [sReq EXCEPT ![q].pc = "genPut", ![q].got = sGen]
    <2>1. sReq[q] \in SessReqType /\ sGen \in Nat
        BY DEF SessInv, SessTypeOK
    <2>2. sReq' = [sReq EXCEPT ![q] = [sReq[q] EXCEPT !.pc = "genPut", !.got = sGen]]
        BY <1>2
    <2>3. sReq'[q] = [sReq[q] EXCEPT !.pc = "genPut", !.got = sGen]
        BY <2>2 DEF SessInv, SessTypeOK
    <2>4. [sReq[q] EXCEPT !.pc = "genPut", !.got = sGen] \in SessReqType
        BY <2>1 DEF SessReqType
    <2>5. sReq' \in [SessionRequest -> SessReqType] /\ OthersWait(q)
        BY <2>2, <2>4 DEF SessInv, SessTypeOK, OthersWait
    <2>6. /\ sReq'[q].pc = "genPut" /\ sReq'[q].got = sGen
          /\ sReq'[q].kind = sReq[q].kind /\ sReq'[q].tok = TokOf(q)
        BY <2>1, <2>3 DEF SessReqType, TokOf
    <2>7. sTok' = sTok /\ sBlack' = sBlack /\ sGen' = sGen /\ Issued' = Issued
        BY <1>0 DEF Still, Issued
    <2>8. Shaped(q)' /\ InUse(q)' /\ ReadsLatest(q)' /\ LetIn(q)'
        BY <1>0, <2>6, <2>7 DEF Shaped, InUse, ReadsLatest, LetIn, TokOf
    <2> QED
        BY <1>0, <1>2, <2>5, <2>6, <2>8, GoesOn DEF TokOf
<1> QED
    BY <1>1, <1>2 DEF GenGet

LEMMA AuthBlackHolds ==
    ASSUME SessInv, NEW q \in SessionRequest, AuthBlack(q)
    PROVE  SessInv'
<1>0. Still /\ Shaped(q) /\ TokOf(q) # NoToken
    BY DEF AuthBlack, Still, SessInv, OfRequest, Shaped
<1>1. CASE (SessWorks \/ SessFault) /\ SessEnd(q)
    BY <1>0, <1>1, EndsQuietly
<1>2. CASE SessWorks /\ TokOf(q) \notin sBlack /\ SessGo(q, "gen")
    BY <1>0, <1>2, GoesQuietly
<1> QED
    BY <1>1, <1>2 DEF AuthBlack, TokOf

\* The generation of the token is the current one, and the token is not on the
\* blacklist: its session has not ended.
LEMMA AuthGenHolds ==
    ASSUME SessInv, NEW q \in SessionRequest, AuthGen(q)
    PROVE  SessInv'
<1>0. Still /\ OfRequest(q) /\ sReq[q].pc = "gen"
    BY DEF AuthGen, Still, SessInv
<1>1. TokOf(q) # NoToken /\ TokOf(q) \in Issued /\ TokOf(q) \in Token
    BY <1>0 DEF OfRequest, Shaped, Issued
<1>2. ~sTok[TokOf(q)].raced => TokOf(q) \notin sBlack
    BY <1>0, <1>1 DEF OfRequest, InUse
<1>3. sTok[TokOf(q)].gen \in Nat /\ sGen \in Nat
    BY <1>1, TokenFields DEF SessInv, SessTypeOK
<1>4. CASE (SessWorks \/ SessFault) /\ SessEnd(q)
    BY <1>0, <1>4, EndsQuietly
<1>5. CASE /\ SessWorks /\ sTok[TokOf(q)].gen >= sGen
           /\ SessGo(q, IF sReq[q].kind = "logout" THEN "revoke" ELSE "again")
    <2>1. ~(sTok[TokOf(q)].gen < sGen)
        BY <1>3, <1>5
    <2>2. ~sOverlap /\ ~sTok[TokOf(q)].raced => ~sTok[TokOf(q)].ended
        BY <1>1, <1>2, <2>1 DEF SessInv, OfTokens, EndedIsOver
    <2>3. CASE sReq[q].kind = "logout"
        BY <1>0, <1>1, <1>2, <1>5, <2>3, GoesQuietly
    <2>4. CASE sReq[q].kind # "logout"
        BY <1>0, <1>1, <1>2, <1>5, <2>2, <2>4, GoesQuietly
    <2> QED
        BY <2>3, <2>4
<1> QED
    BY <1>4, <1>5 DEF AuthGen, TokOf

LEMMA AgainHolds ==
    ASSUME SessInv, NEW q \in SessionRequest, Again(q)
    PROVE  SessInv'
<1>0. Still /\ OfRequest(q) /\ sReq[q].pc = "again"
    BY DEF Again, Still, SessInv
<1>1. CASE (SessWorks \/ SessFault) /\ SessEnd(q)
    BY <1>0, <1>1, EndsQuietly
<1>2. CASE SessWorks /\ TokOf(q) \notin sBlack /\ SessGo(q, "retire")
    <2>1. TokOf(q) # NoToken /\ (~sOverlap /\ ~sTok[TokOf(q)].raced => ~sTok[TokOf(q)].ended)
        BY <1>0 DEF OfRequest, Shaped, LetIn
    <2> QED
        BY <1>0, <1>2, <2>1, GoesQuietly
<1> QED
    BY <1>1, <1>2 DEF Again, TokOf

-----------------------------------------------------------------------------
(* Steps that close a session.                                             *)

\* One token more on the blacklist, the one in use: no other request uses it.
LEMMA BlackGrows ==
    ASSUME SessInv, NEW q \in SessionRequest, TokOf(q) # NoToken,
           sReq[q].pc \in {"revoke", "retire"}, OthersWait(q),
           sBlack' = sBlack \cup {TokOf(q)}
    PROVE  /\ ~sTok[TokOf(q)].raced =>
                  \A u \in Issued : Root(u) = Root(TokOf(q)) => u \in sBlack'
           /\ \A p \in SessionRequest \ {q} :
                  /\ sReq'[p] = sReq[p]
                  /\ TokOf(p) # NoToken /\ ~sTok[TokOf(p)].raced =>
                         /\ Root(TokOf(p)) # Root(TokOf(q))
                         /\ TokOf(p) \in sBlack' => TokOf(p) \in sBlack
<1>1. OfRequest(q) /\ OneLeft
    BY DEF SessInv, OfTokens
<1>2. ASSUME ~sTok[TokOf(q)].raced
      PROVE  \A u \in Issued : Root(u) = Root(TokOf(q)) => u \in sBlack'
    <2>1. TokOf(q) \in Issued /\ TokOf(q) \notin sBlack
        BY <1>1, <1>2 DEF OfRequest, Shaped, InUse
    <2> QED
        BY <1>1, <1>2, <2>1 DEF OneLeft
<1>3. ASSUME NEW p \in SessionRequest \ {q}, TokOf(p) # NoToken, ~sTok[TokOf(p)].raced
      PROVE  Root(TokOf(p)) # Root(TokOf(q))
    BY <1>3 DEF SessInv, OfRequest, UsedAlone
<1> QED
    BY <1>2, <1>3 DEF OthersWait

LEMMA RetireHolds ==
    ASSUME SessInv, NEW q \in SessionRequest, Retire(q)
    PROVE  SessInv'
<1>0. /\ OfRequest(q) /\ sReq[q].pc = "retire" /\ TokOf(q) # NoToken /\ TokOf(q) \in Issued
      /\ SessTypeOK /\ OfTokens /\ OneUnseals
      /\ sTok' = sTok /\ sGen' = sGen /\ sOverlap' = sOverlap /\ Issued' = Issued
    BY DEF Retire, SessInv, OfRequest, Shaped, Issued
<1>1. CASE SessFault /\ sBlack' = sBlack /\ SessEnd(q)
    BY <1>0, <1>1, EndsQuietly DEF Still
<1>2. CASE /\ sBlack' = sBlack \cup {TokOf(q)}
           /\ SessWorks \/ SessFault
           /\ SessGo(q, "sign") \/ SessEnd(q)
    <2>1. /\ sReq' \in [SessionRequest -> SessReqType] /\ OthersWait(q)
          /\ sReq'[q].pc \in {"sign", "idle"}
          /\ sReq'[q].kind \in {sReq[q].kind, "none"} /\ sReq'[q].tok \in {TokOf(q), NoToken}
        BY <1>0, <1>2, GoFacts, EndFacts DEF SessTypeOK, TokOf
    <2>2. /\ ~sTok[TokOf(q)].raced =>
                  \A u \in Issued : Root(u) = Root(TokOf(q)) => u \in sBlack'
          /\ \A p \in SessionRequest \ {q} :
                  /\ sReq'[p] = sReq[p]
                  /\ TokOf(p) # NoToken /\ ~sTok[TokOf(p)].raced =>
                         (TokOf(p) \in sBlack' => TokOf(p) \in sBlack)
        BY <1>0, <1>2, <2>1, BlackGrows
    <2>3. SessTypeOK'
        BY <1>0, <1>2, <2>1, FaultsCounted DEF SessTypeOK, Issued
    <2>4. OfTokens'
        BY <1>0, <1>2 DEF OfTokens, RootsIssued, RacedTogether, EndedTogether, OneLeft, NoneAhead,
                          EndedIsOver, Root
    <2>5. OneUnseals'
        BY <1>0, <2>1, <2>2 DEF OneUnseals
    <2>6. ASSUME NEW p \in SessionRequest \ {q} PROVE OfRequest(p)'
        <3>1. OfRequest(p) /\ sReq'[p] = sReq[p]
            BY <2>2 DEF SessInv
        <3>2. UsedAlone(p)'
            BY <1>0, <2>1, <2>2, <3>1 DEF OfRequest, UsedAlone, TokOf, Root
        <3>3. InUse(p)'
            BY <1>0, <1>2, <2>2, <3>1 DEF OfRequest, InUse, TokOf, Root
        <3> QED
            BY <1>0, <3>1, <3>2, <3>3 DEF OfRequest, Shaped, ReadsLatest, LetIn, TokOf
    <2>7. Shaped(q)' /\ ReadsLatest(q)' /\ LetIn(q)' /\ InUse(q)' /\ UsedAlone(q)'
        BY <1>0, <2>1, <2>2 DEF OfRequest, Shaped, ReadsLatest, LetIn, InUse, UsedAlone, TokOf, Root
    <2> QED
        BY <2>3, <2>4, <2>5, <2>6, <2>7 DEF SessInv, OfRequest
<1> QED
    BY <1>1, <1>2 DEF Retire, TokOf

LEMMA RevokeHolds ==
    ASSUME SessInv, NEW q \in SessionRequest, Revoke(q)
    PROVE  SessInv'
<1>0. /\ OfRequest(q) /\ sReq[q].pc = "revoke" /\ TokOf(q) # NoToken /\ TokOf(q) \in Issued
      /\ SessTypeOK /\ OfTokens /\ OneUnseals
      /\ sGen' = sGen /\ sOverlap' = sOverlap /\ SessEnd(q)
    BY DEF Revoke, SessInv, OfRequest, Shaped
<1>1. CASE SessFault /\ sBlack' = sBlack /\ sTok' = sTok
    BY <1>0, <1>1, EndsQuietly DEF Still
<1>2. CASE /\ SessWorks /\ sBlack' = sBlack \cup {TokOf(q)}
           /\ sTok' = [t \in Token |-> [sTok[t] EXCEPT !.ended = @ \/ (/\ t \in Issued
                                         /\ Root(t) = Root(TokOf(q)))]]
    <2>1. /\ sReq' \in [SessionRequest -> SessReqType] /\ OthersWait(q)
          /\ sReq'[q].pc = "idle" /\ sReq'[q].kind = "none" /\ sReq'[q].tok = NoToken
        BY <1>0, EndFacts DEF SessTypeOK
    <2>2. /\ ~sTok[TokOf(q)].raced =>
                  \A u \in Issued : Root(u) = Root(TokOf(q)) => u \in sBlack'
          /\ \A p \in SessionRequest \ {q} :
                  /\ sReq'[p] = sReq[p]
                  /\ TokOf(p) # NoToken /\ ~sTok[TokOf(p)].raced =>
                         /\ Root(TokOf(p)) # Root(TokOf(q))
                         /\ TokOf(p) \in sBlack' => TokOf(p) \in sBlack
        BY <1>0, <1>2, <2>1, BlackGrows
    <2>3. \A t \in Token :
              /\ sTok'[t] \in TokenType /\ sTok'[t].gen = sTok[t].gen
              /\ sTok'[t].root = sTok[t].root /\ sTok'[t].raced = sTok[t].raced
              /\ sTok'[t].ended = (sTok[t].ended \/ (t \in Issued /\ Root(t) = Root(TokOf(q))))
        BY <1>0, <1>2 DEF SessTypeOK, TokenType
    <2>4. Issued' = Issued /\ Issued \subseteq Token
        BY <2>3 DEF Issued
    <2>5. SessTypeOK'
        BY <1>0, <1>2, <2>1, <2>3, <2>4, FaultsCounted DEF SessTypeOK
    <2>6. OfTokens'
        <3>1. RootsIssued' /\ RacedTogether' /\ OneLeft' /\ NoneAhead'
            BY <1>0, <1>2, <2>3, <2>4 DEF OfTokens, RootsIssued, RacedTogether, OneLeft, NoneAhead, Root
        <3>2. EndedTogether'
            BY <1>0, <2>3, <2>4 DEF OfTokens, EndedTogether, Root
        <3>3. EndedIsOver'
            BY <1>0, <1>2, <2>2, <2>3, <2>4 DEF OfTokens, RacedTogether, EndedIsOver, Root
        <3> QED
            BY <3>1, <3>2, <3>3 DEF OfTokens
    <2>7. OneUnseals'
        BY <1>0, <2>1, <2>2 DEF OneUnseals
    <2>8. ASSUME NEW p \in SessionRequest \ {q} PROVE OfRequest(p)'
        <3>1. OfRequest(p) /\ sReq'[p] = sReq[p] /\ TokOf(p)' = TokOf(p)
            BY <2>2 DEF SessInv, TokOf
        <3>2. TokOf(p) # NoToken => TokOf(p) \in Issued
            BY <3>1 DEF OfRequest, Shaped
        <3>3. UsedAlone(p)'
            <4>1. \A r \in SessionRequest : TokOf(r) # NoToken => TokOf(r) \in Token
                BY <2>4 DEF SessInv, OfRequest, Shaped
            <4> QED
                BY <2>1, <2>2, <2>3, <3>1, <4>1 DEF OfRequest, UsedAlone, TokOf, Root
        <3>4. InUse(p)'
            BY <1>2, <2>2, <2>3, <2>4, <3>1, <3>2 DEF OfRequest, InUse, Root
        <3>5. LetIn(p)'
            BY <1>0, <2>2, <2>3, <2>4, <3>1, <3>2 DEF OfRequest, LetIn
        <3> QED
            BY <1>0, <2>4, <3>1, <3>3, <3>4, <3>5 DEF OfRequest, Shaped, ReadsLatest
    <2>9. OfRequest(q)'
        BY <2>1 DEF OfRequest, Shaped, ReadsLatest, LetIn, InUse, UsedAlone, TokOf
    <2> QED
        BY <2>5, <2>6, <2>7, <2>8, <2>9 DEF SessInv
<1> QED
    BY <1>1, <1>2 DEF Revoke, TokOf, Root

\* The generation moves on: whatever was issued is of an earlier one.
LEMMA GenPutHolds ==
    ASSUME SessInv, NEW q \in SessionRequest, GenPut(q)
    PROVE  SessInv'
<1>0. /\ OfRequest(q) /\ sReq[q].pc = "genPut" /\ sReq[q].kind = "unseal" /\ TokOf(q) = NoToken
      /\ SessTypeOK /\ OfTokens /\ OneUnseals
      /\ sBlack' = sBlack /\ sOverlap' = sOverlap /\ SessGo(q, "sign")
    BY DEF GenPut, SessInv, OfRequest, Shaped
<1>1. CASE SessFault /\ sGen' = sGen /\ sTok' = sTok
    BY <1>0, <1>1, GoesQuietly DEF Still
<1>2. CASE /\ SessWorks /\ sGen' = sReq[q].got + 1
           /\ sTok' = [t \in Token |-> [sTok[t] EXCEPT !.ended = @ \/ t \in Issued]]
    <2>1. /\ sReq' \in [SessionRequest -> SessReqType] /\ OthersWait(q)
          /\ sReq'[q].pc = "sign" /\ sReq'[q].kind = "unseal" /\ sReq'[q].tok = NoToken
        BY <1>0, GoFacts DEF SessTypeOK, TokOf
    <2>2. \A p \in SessionRequest \ {q} : sReq'[p] = sReq[p] /\ TokOf(p)' = TokOf(p)
        BY <2>1 DEF OthersWait, TokOf
    <2>3. \A t \in Token :
              /\ sTok'[t] \in TokenType /\ sTok'[t].gen = sTok[t].gen
              /\ sTok'[t].root = sTok[t].root /\ sTok'[t].raced = sTok[t].raced
              /\ sTok'[t].ended = (sTok[t].ended \/ t \in Issued)
        BY <1>0, <1>2 DEF SessTypeOK, TokenType
    <2>4. Issued' = Issued /\ Issued \subseteq Token
        BY <2>3 DEF Issued
    <2>5. sGen' \in Nat /\ sGen \in Nat /\ (~sOverlap => sGen' = sGen + 1)
        BY <1>0, <1>2 DEF SessTypeOK, SessReqType, OfRequest, ReadsLatest
    <2>6. \A t \in Issued : sTok[t].gen \in Nat /\ (~sOverlap => sTok[t].gen < sGen')
        BY <1>0, <2>4, <2>5, TokenFields DEF SessTypeOK, OfTokens, NoneAhead
    <2>7. SessTypeOK'
        BY <1>0, <1>2, <2>1, <2>3, <2>4, <2>5, FaultsCounted DEF SessTypeOK
    <2>8. OfTokens'
        <3>1. RootsIssued' /\ RacedTogether' /\ OneLeft'
            BY <1>0, <2>3, <2>4 DEF OfTokens, RootsIssued, RacedTogether, OneLeft, Root
        <3>2. EndedTogether'
            BY <1>0, <2>3, <2>4 DEF OfTokens, EndedTogether, Root
        <3>3. NoneAhead' /\ EndedIsOver'
            BY <1>0, <2>3, <2>4, <2>5, <2>6 DEF NoneAhead, EndedIsOver
        <3> QED
            BY <3>1, <3>2, <3>3 DEF OfTokens
    <2>9. OneUnseals'
        BY <1>0, <2>1, <2>2 DEF OneUnseals
    <2>10. ASSUME NEW p \in SessionRequest \ {q} PROVE OfRequest(p)'
        <3>1. OfRequest(p) /\ sReq'[p] = sReq[p] /\ TokOf(p)' = TokOf(p)
            BY <2>2 DEF SessInv
        <3>2. TokOf(p) # NoToken => TokOf(p) \in Issued /\ sTok[TokOf(p)].raced
            BY <1>0, <3>1 DEF OfRequest, Shaped, UsedAlone
        <3>3. TokOf(p) # NoToken => sTok'[TokOf(p)].raced
            BY <2>3, <2>4, <3>2
        <3>4. UsedAlone(p)' /\ InUse(p)' /\ LetIn(p)'
            BY <3>1, <3>3 DEF UsedAlone, InUse, LetIn
        <3>5. ReadsLatest(p)'
            BY <1>0, <3>1 DEF OneUnseals, OfRequest, Shaped, ReadsLatest
        <3> QED
            BY <2>4, <3>1, <3>4, <3>5 DEF OfRequest, Shaped
    <2>11. OfRequest(q)'
        BY <2>1 DEF OfRequest, Shaped, ReadsLatest, LetIn, InUse, UsedAlone, TokOf
    <2> QED
        BY <2>7, <2>8, <2>9, <2>10, <2>11 DEF SessInv
<1> QED
    BY <1>1, <1>2 DEF GenPut

-----------------------------------------------------------------------------
(* Steps that begin a request.                                             *)

\* The unseal races every session in use.
LEMMA BeginUnsealHolds ==
    ASSUME SessInv, NEW q \in SessionRequest, BeginUnseal(q)
    PROVE  SessInv'
<1> DEFINE R == [NoReq EXCEPT !.pc = "genGet", !.kind = "unseal"]
<1>0. /\ SessTypeOK /\ OfTokens /\ OneUnseals
      /\ sGen' = sGen /\ sBlack' = sBlack /\ sFaults' = sFaults
      /\ sOverlap' = (sOverlap \/ Unsealing # {})
      /\ sTok' = [t \in Token |-> [sTok[t] EXCEPT !.raced = @ \/ (t \in Issued /\ Using(t) # {})]]
    BY DEF BeginUnseal, SessInv
<1>1. /\ sReq' \in [SessionRequest -> SessReqType] /\ OthersWait(q)
      /\ sReq'[q].pc = "genGet" /\ sReq'[q].kind = "unseal" /\ sReq'[q].tok = NoToken
    <2>1. R \in SessReqType /\ R.pc = "genGet" /\ R.kind = "unseal" /\ R.tok = NoToken
        BY DEF NoReq, SessReqType
    <2>2. sReq' = [sReq EXCEPT ![q] = R]
        BY DEF BeginUnseal
    <2> HIDE DEF R
    <2> QED
        BY <1>0, <2>1, <2>2 DEF SessTypeOK, OthersWait
<1>2. \A p \in SessionRequest \ {q} : sReq'[p] = sReq[p] /\ TokOf(p)' = TokOf(p)
    BY <1>1 DEF OthersWait, TokOf
<1>3. \A t \in Token :
          /\ sTok'[t] \in TokenType /\ sTok'[t].gen = sTok[t].gen
          /\ sTok'[t].root = sTok[t].root /\ sTok'[t].ended = sTok[t].ended
          /\ sTok'[t].raced = (sTok[t].raced \/ (t \in Issued /\ Using(t) # {}))
    BY <1>0 DEF SessTypeOK, TokenType
<1>4. Issued' = Issued /\ Issued \subseteq Token
    BY <1>3 DEF Issued
<1>5. \A p \in SessionRequest \ {q} :
          TokOf(p) # NoToken => TokOf(p) \in Issued /\ sTok'[TokOf(p)].raced
    <2> SUFFICES ASSUME NEW p \in SessionRequest \ {q}, TokOf(p) # NoToken
                 PROVE  TokOf(p) \in Issued /\ sTok'[TokOf(p)].raced
        OBVIOUS
    <2>1. TokOf(p) \in Issued
        BY DEF SessInv, OfRequest, Shaped
    <2>2. p \in Using(TokOf(p))
        BY DEF Using, TokOf
    <2> QED
        BY <1>3, <1>4, <2>1, <2>2
<1>6. SessTypeOK'
    BY <1>0, <1>1, <1>3 DEF SessTypeOK
<1>7. OfTokens'
    <2>1. RootsIssued'
        BY <1>0, <1>3, <1>4 DEF OfTokens, RootsIssued, Root
    <2>2. EndedTogether'
        BY <1>0, <1>3, <1>4 DEF OfTokens, EndedTogether, Root
    <2>3. OneLeft'
        <3>1. \A u \in Issued : Root(u)' = Root(u) /\ (sTok[u].raced => sTok'[u].raced)
            BY <1>3, <1>4 DEF Root
        <3> QED
            BY <1>0, <1>4, <3>1 DEF OfTokens, OneLeft
    <2>4. NoneAhead' /\ EndedIsOver'
        BY <1>0, <1>3, <1>4 DEF OfTokens, NoneAhead, EndedIsOver
    <2>5. RacedTogether'
        <3>1. \A t, u \in Token : Root(t) = Root(u) => Using(t) = Using(u)
            BY DEF Using, Root
        <3> QED
            BY <1>0, <1>3, <1>4, <3>1 DEF OfTokens, RacedTogether, Root
    <2> QED
        BY <2>1, <2>2, <2>3, <2>4, <2>5 DEF OfTokens
<1>8. OneUnseals'
    BY <1>0, <1>1, <1>2 DEF OneUnseals, Unsealing
<1>9. ASSUME NEW p \in SessionRequest \ {q} PROVE OfRequest(p)'
    <2>1. OfRequest(p) /\ sReq'[p] = sReq[p] /\ TokOf(p)' = TokOf(p)
        BY <1>2 DEF SessInv
    <2>2. UsedAlone(p)' /\ InUse(p)' /\ LetIn(p)'
        BY <1>5, <2>1 DEF UsedAlone, InUse, LetIn
    <2> QED
        BY <1>0, <1>4, <2>1, <2>2 DEF OfRequest, Shaped, ReadsLatest
<1>10. OfRequest(q)'
    BY <1>1 DEF OfRequest, Shaped, ReadsLatest, LetIn, InUse, UsedAlone, TokOf
<1> QED
    BY <1>6, <1>7, <1>8, <1>9, <1>10 DEF SessInv

\* A logout and a refresh race the session they use if another request uses it
\* or the node is being unsealed.
LEMMA BeginUseHolds ==
    ASSUME SessInv, NEW q \in SessionRequest, NEW t \in Token, NEW kind \in {"logout", "refresh"},
           BeginUse(q, t, kind)
    PROVE  SessInv'
<1> DEFINE R == [NoReq EXCEPT !.pc = "black", !.kind = kind, !.tok = t]
           Raced(u) == u \in Issued /\ Root(u) = Root(t) /\ Using(t) \cup Unsealing # {}
<1>0. /\ SessTypeOK /\ OfTokens /\ OneUnseals /\ t \in Issued
      /\ sGen' = sGen /\ sBlack' = sBlack /\ sOverlap' = sOverlap /\ sFaults' = sFaults
      /\ sTok' = [u \in Token |-> [sTok[u] EXCEPT !.raced = @ \/ Raced(u)]]
    BY DEF BeginUse, SessInv, Root
<1>1. /\ sReq' \in [SessionRequest -> SessReqType] /\ OthersWait(q)
      /\ sReq'[q].pc = "black" /\ sReq'[q].kind = kind /\ sReq'[q].tok = t
    <2>1. R \in SessReqType /\ R.pc = "black" /\ R.kind = kind /\ R.tok = t
        BY DEF NoReq, SessReqType
    <2>2. sReq' = [sReq EXCEPT ![q] = R]
        BY DEF BeginUse
    <2> HIDE DEF R
    <2> QED
        BY <1>0, <2>1, <2>2 DEF SessTypeOK, OthersWait
<1>2. \A p \in SessionRequest \ {q} : sReq'[p] = sReq[p] /\ TokOf(p)' = TokOf(p)
    BY <1>1 DEF OthersWait, TokOf
<1>3. \A u \in Token :
          /\ sTok'[u] \in TokenType /\ sTok'[u].gen = sTok[u].gen
          /\ sTok'[u].root = sTok[u].root /\ sTok'[u].ended = sTok[u].ended
          /\ sTok'[u].raced = (sTok[u].raced \/ Raced(u))
    BY <1>0 DEF SessTypeOK, TokenType
<1> HIDE DEF R
<1>4. Issued' = Issued /\ Issued \subseteq Token /\ t # NoToken
    BY <1>3 DEF Issued, NoToken, Token
<1>5. SessTypeOK'
    BY <1>0, <1>1, <1>3 DEF SessTypeOK
<1>6. OfTokens'
    <2>1. RootsIssued'
        BY <1>0, <1>3, <1>4 DEF OfTokens, RootsIssued, Root
    <2>2. EndedTogether'
        BY <1>0, <1>3, <1>4 DEF OfTokens, EndedTogether, Root
    <2>3. OneLeft'
        <3>1. \A u \in Issued : Root(u)' = Root(u) /\ (sTok[u].raced => sTok'[u].raced)
            BY <1>3, <1>4 DEF Root
        <3> QED
            BY <1>0, <1>4, <3>1 DEF OfTokens, OneLeft
    <2>4. NoneAhead' /\ EndedIsOver'
        BY <1>0, <1>3, <1>4 DEF OfTokens, NoneAhead, EndedIsOver
    <2>5. RacedTogether'
        BY <1>0, <1>3, <1>4 DEF OfTokens, RacedTogether, Root
    <2> QED
        BY <2>1, <2>2, <2>3, <2>4, <2>5 DEF OfTokens
<1>7. OneUnseals'
    BY <1>0, <1>1, <1>2 DEF OneUnseals
<1>8. \A p \in SessionRequest \ {q} : TokOf(p) # NoToken =>
          /\ TokOf(p) \in Issued /\ Root(TokOf(p))' = Root(TokOf(p))
          /\ ~sTok'[TokOf(p)].raced => ~sTok[TokOf(p)].raced /\ Root(TokOf(p)) # Root(t)
    <2> SUFFICES ASSUME NEW p \in SessionRequest \ {q}, TokOf(p) # NoToken
                 PROVE  /\ TokOf(p) \in Issued /\ Root(TokOf(p))' = Root(TokOf(p))
                        /\ ~sTok'[TokOf(p)].raced =>
                               ~sTok[TokOf(p)].raced /\ Root(TokOf(p)) # Root(t)
        OBVIOUS
    <2>1. TokOf(p) \in Issued
        BY DEF SessInv, OfRequest, Shaped
    <2>2. Root(TokOf(p)) = Root(t) => p \in Using(t)
        BY DEF Using, TokOf, Root
    <2> QED
        BY <1>2, <1>3, <1>4, <2>1, <2>2 DEF Root
<1>9. ASSUME NEW p \in SessionRequest \ {q} PROVE OfRequest(p)'
    <2>1. OfRequest(p) /\ sReq'[p] = sReq[p] /\ TokOf(p)' = TokOf(p)
        BY <1>2 DEF SessInv
    <2>2. UsedAlone(p)'
        <3> SUFFICES ASSUME TokOf(p)' # NoToken, ~sTok'[TokOf(p)'].raced, NEW r \in SessionRequest \ {p}
                     PROVE  /\ sReq'[r].kind # "unseal"
                            /\ TokOf(r)' # NoToken => Root(TokOf(r))' # Root(TokOf(p))'
            BY DEF UsedAlone
        <3>1. CASE r = q
            BY <1>1, <1>3, <1>8, <2>1, <3>1 DEF TokOf, Root
        <3>2. CASE r # q
            BY <1>2, <1>8, <2>1, <3>2 DEF OfRequest, UsedAlone
        <3> QED
            BY <3>1, <3>2
    <2>3. InUse(p)'
        BY <1>0, <1>4, <1>3, <1>8, <2>1 DEF OfRequest, InUse, Root
    <2>4. LetIn(p)'
        BY <1>0, <1>3, <1>4, <1>8, <2>1 DEF OfRequest, LetIn
    <2> QED
        BY <1>0, <1>4, <2>1, <2>2, <2>3, <2>4 DEF OfRequest, Shaped, ReadsLatest
<1>10. OfRequest(q)'
    <2>1. UsedAlone(q)'
        <3> SUFFICES ASSUME ~sTok'[t].raced, NEW r \in SessionRequest \ {q}
                     PROVE  /\ sReq'[r].kind # "unseal"
                            /\ TokOf(r)' # NoToken => Root(TokOf(r))' # Root(t)'
            BY <1>1 DEF UsedAlone, TokOf
        <3>1. Using(t) \cup Unsealing = {}
            BY <1>0, <1>3
        <3> QED
            BY <1>2, <1>3, <1>8, <3>1 DEF Unsealing, Using, TokOf, Root
    <2> QED
        BY <1>0, <1>1, <1>4, <2>1 DEF OfRequest, Shaped, ReadsLatest, LetIn, InUse, TokOf
<1> QED
    BY <1>5, <1>6, <1>7, <1>9, <1>10 DEF SessInv

-----------------------------------------------------------------------------
(* A new token: of a new session, or of the one whose old token was        *)
(* retired.                                                                *)

LEMMA SignHolds ==
    ASSUME SessInv, NEW q \in SessionRequest, Sign(q)
    PROVE  SessInv'
<1>0. /\ OfRequest(q) /\ sReq[q].pc = "sign" /\ SessTypeOK /\ OfTokens /\ OneUnseals
      /\ sGen' = sGen /\ sBlack' = sBlack /\ sOverlap' = sOverlap /\ SessEnd(q)
    BY DEF Sign, SessInv
<1>1. CASE SessFault /\ sTok' = sTok
    BY <1>0, <1>1, EndsQuietly DEF Still
<1>2. ASSUME SessWorks, NEW t \in Token \ Issued,
             sTok' = [sTok EXCEPT ![t] =
                         IF sReq[q].tok = NoToken
                         THEN [gen |-> sGen, root |-> t, ended |-> FALSE, raced |-> FALSE]
                         ELSE [sTok[sReq[q].tok] EXCEPT !.gen = sGen]]
      PROVE  SessInv'
    <2>1. /\ sReq' \in [SessionRequest -> SessReqType] /\ OthersWait(q)
          /\ sReq'[q].pc = "idle" /\ sReq'[q].kind = "none" /\ sReq'[q].tok = NoToken
        BY <1>0, EndFacts DEF SessTypeOK
    <2>2. \A p \in SessionRequest \ {q} : sReq'[p] = sReq[p] /\ TokOf(p)' = TokOf(p)
        BY <2>1 DEF OthersWait, TokOf
    <2>3. TokOf(q) # NoToken => TokOf(q) \in Issued /\ Root(TokOf(q)) # NoToken
        BY <1>0 DEF OfRequest, Shaped, Issued, Root
    <2>4. /\ sTok'[t] \in TokenType /\ sTok'[t].gen = sGen
          /\ TokOf(q) = NoToken =>
                 /\ sTok'[t].root = t /\ sTok'[t].ended = FALSE /\ sTok'[t].raced = FALSE
          /\ TokOf(q) # NoToken =>
                 /\ sTok'[t].root = Root(TokOf(q)) /\ sTok'[t].ended = sTok[TokOf(q)].ended
                 /\ sTok'[t].raced = sTok[TokOf(q)].raced
        <3>1. TokOf(q) # NoToken => sTok[TokOf(q)] \in TokenType
            BY <1>0, <2>3 DEF SessTypeOK, Issued
        <3> QED
            BY <1>0, <1>2, <3>1 DEF SessTypeOK, TokenType, TokOf, Root
    <2>5. \A u \in Token \ {t} : sTok'[u] = sTok[u]
        BY <1>0, <1>2 DEF SessTypeOK
    <2>6. Issued' = Issued \cup {t} /\ Issued \subseteq Token
        BY <2>3, <2>4, <2>5 DEF Issued, NoToken, Token
    <2>7. \A u \in Issued : u # t /\ sTok'[u] = sTok[u] /\ Root(u)' = Root(u)
        BY <2>5, <2>6 DEF Root
    <2>8. \A u \in Issued : Root(u) # t
        BY <1>0 DEF OfTokens, RootsIssued
    <2>9. SessTypeOK'
        <3>1. sTok' \in [Token -> TokenType]
            BY <1>0, <1>2, <2>4 DEF SessTypeOK
        <3> QED
            BY <1>0, <1>2, <2>1, <3>1, FaultsCounted DEF SessTypeOK
    <2>10. \A u \in Issued : Root(u) = sTok'[t].root =>
               /\ TokOf(q) # NoToken /\ Root(u) = Root(TokOf(q))
               /\ sTok[u].ended = sTok'[t].ended /\ sTok[u].raced = sTok'[t].raced
        BY <1>0, <2>3, <2>4, <2>8 DEF OfTokens, EndedTogether, RacedTogether
    <2>11. OfTokens'
        <3>1. RootsIssued'
            BY <1>0, <2>3, <2>4, <2>6, <2>7 DEF OfTokens, RootsIssued, Root
        <3>2. RacedTogether' /\ EndedTogether'
            BY <1>0, <2>6, <2>7, <2>10 DEF OfTokens, RacedTogether, EndedTogether, Root
        <3>3. OneLeft'
            <4>1. \A u \in Issued : Root(u) = sTok'[t].root /\ ~sTok'[t].raced => u \in sBlack
                BY <1>0, <2>4, <2>10 DEF OfRequest, InUse
            <4> QED
                BY <1>0, <2>6, <2>7, <2>10, <4>1 DEF OfTokens, OneLeft, Root
        <3>4. NoneAhead'
            BY <1>0, <2>4, <2>6, <2>7 DEF OfTokens, NoneAhead, SessTypeOK
        <3>5. EndedIsOver'
            BY <1>0, <2>4, <2>6, <2>7 DEF OfTokens, EndedIsOver, OfRequest, LetIn
        <3> QED
            BY <3>1, <3>2, <3>3, <3>4, <3>5 DEF OfTokens
    <2>12. OneUnseals'
        BY <1>0, <2>1, <2>2 DEF OneUnseals
    <2>13. ASSUME NEW p \in SessionRequest \ {q} PROVE OfRequest(p)'
        <3>1. OfRequest(p) /\ sReq'[p] = sReq[p] /\ TokOf(p)' = TokOf(p)
            BY <2>2 DEF SessInv
        <3>2. \A r \in SessionRequest : TokOf(r) # NoToken => TokOf(r) \in Issued
            BY DEF SessInv, OfRequest, Shaped
        <3>3. UsedAlone(p)'
            BY <2>1, <2>2, <2>7, <3>1, <3>2 DEF OfRequest, UsedAlone, TokOf, Root
        <3>4. InUse(p)'
            <4>1. TokOf(p) # NoToken /\ ~sTok[TokOf(p)].raced => Root(TokOf(p)) # sTok'[t].root
                BY <2>10, <3>1, <3>2 DEF OfRequest, UsedAlone
            <4> QED
                BY <1>0, <2>6, <2>7, <3>1, <3>2, <4>1 DEF OfRequest, InUse, Root
        <3>5. LetIn(p)'
            BY <1>0, <2>7, <3>1, <3>2 DEF OfRequest, LetIn
        <3> QED
            BY <1>0, <2>6, <3>1, <3>3, <3>4, <3>5 DEF OfRequest, Shaped, ReadsLatest
    <2>14. OfRequest(q)'
        BY <2>1 DEF OfRequest, Shaped, ReadsLatest, LetIn, InUse, UsedAlone, TokOf
    <2> QED
        BY <2>9, <2>11, <2>12, <2>13, <2>14 DEF SessInv
<1> QED
    BY <1>1, <1>2 DEF Sign

-----------------------------------------------------------------------------
LEMMA SessInitHolds ==
    ASSUME SessInit
    PROVE  SessInv
<1>1. \A q \in SessionRequest : sReq[q] = NoReq /\ TokOf(q) = NoToken
    BY NoReqFacts DEF SessInit, TokOf
<1>2. Issued = {}
    BY DEF SessInit, Issued, Unissued
<1>3. SessTypeOK
    <2>1. Unissued \in TokenType
        BY DEF Unissued, TokenType, NoToken
    <2>2. sFaults \in 0 .. SessMaxFaults
        BY SessionsAssumption DEF SessInit
    <2>3. sTok \in [Token -> TokenType] /\ sReq \in [SessionRequest -> SessReqType]
        BY <2>1, NoReqFacts DEF SessInit
    <2> QED
        BY <2>2, <2>3 DEF SessInit, SessTypeOK
<1>4. OfTokens
    BY <1>2 DEF OfTokens, RootsIssued, RacedTogether, EndedTogether, OneLeft, NoneAhead, EndedIsOver
<1>5. OneUnseals
    BY <1>1, NoReqFacts DEF OneUnseals
<1>6. ASSUME NEW q \in SessionRequest PROVE OfRequest(q)
    BY <1>1, NoReqFacts DEF OfRequest, Shaped, ReadsLatest, LetIn, InUse, UsedAlone
<1> QED
    BY <1>3, <1>4, <1>5, <1>6 DEF SessInv

LEMMA SessUnmoved ==
    ASSUME SessInv, UNCHANGED sessVars
    PROVE  SessInv'
BY DEF sessVars, SessInv, SessTypeOK, OfTokens, RootsIssued, RacedTogether, EndedTogether, OneLeft,
       NoneAhead, EndedIsOver, OneUnseals, OfRequest, Shaped, UsedAlone, InUse, ReadsLatest, LetIn,
       Issued, TokOf, Root

LEMMA SessInvariance ==
    SessSpec => []SessInv
<1>1. SessInit => SessInv
    BY SessInitHolds
<1>2. SessInv /\ [SessNext]_sessVars => SessInv'
    <2> SUFFICES ASSUME SessInv, [SessNext]_sessVars PROVE SessInv'
        OBVIOUS
    <2>1. CASE UNCHANGED sessVars
        BY <2>1, SessUnmoved
    <2>2. ASSUME NEW q \in SessionRequest, SessStep(q) PROVE SessInv'
        BY <2>2, GenGetHolds, GenPutHolds, SignHolds, AuthBlackHolds, AuthGenHolds, RevokeHolds,
           AgainHolds, RetireHolds DEF SessStep
    <2> QED
        BY <2>1, <2>2, BeginUnsealHolds, BeginUseHolds DEF SessNext
<1> QED
    BY <1>1, <1>2, PTL DEF SessSpec

\* Every variable of the sessions stays in its type.
THEOREM SessionTypeCorrect ==
    SessSpec => []SessTypeOK
<1>1. SessInv => SessTypeOK
    BY DEF SessInv
<1> QED
    BY <1>1, SessInvariance, PTL

\* However often a session is refreshed and whatever fails, one of its tokens works
\* at most, as long as no two requests use one at a time.
THEOREM RefreshLeavesOneToken ==
    SessSpec => []OneTokenPerSession
<1>1. SessInv => OneTokenPerSession
    BY DEF SessInv, OfTokens, OneLeft, OneTokenPerSession, Valid, Root
<1> QED
    BY <1>1, SessInvariance, PTL

\* A session that was closed, by a logout or by an unseal that wrote the
\* generation, is over for all its tokens, also those of later refreshes.
THEOREM ClosedSessionsStayClosed ==
    SessSpec => []EndedStaysEnded
<1>1. SessInv => EndedStaysEnded
    <2> SUFFICES ASSUME SessInv, ~sOverlap, NEW t \in Issued, sTok[t].ended, ~sTok[t].raced, Valid(t)
                 PROVE  FALSE
        BY DEF EndedStaysEnded
    <2>1. t \notin sBlack /\ sTok[t].gen >= sGen /\ sTok[t].gen < sGen
        BY DEF SessInv, OfTokens, EndedIsOver, Valid
    <2>2. sTok[t].gen \in Nat /\ sGen \in Nat
        BY TokenFields DEF SessInv, SessTypeOK, Issued
    <2> QED
        BY <2>1, <2>2
<1> QED
    BY <1>1, SessInvariance, PTL
=============================================================================
