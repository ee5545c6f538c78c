---------------------------- MODULE AccountProofs ----------------------------
(* Proofs about the account of a user and the challenges of a brand.  Each     *)
(* component has an inductive invariant of its own; the specification that     *)
(* composes them keeps all of them.                                            *)
EXTENDS MCAccountsAndBrands, FiniteSetTheorems, WellFoundedInduction,
        TLAPS

-------------------------------------------------------------------------------
(* Refresh tokens *)

RtLabels == {"idle", "exchange", "smembers", "pipeline", "issue", "isRevoked"}

\* The requests are records; RtTypeOK speaks of two of their fields.
RtReqTyped ==
    rtReq \in [RtReqs -> [at : RtLabels, for : {"none", "login", "reuse", "erasure"},
                          jtis : SUBSET Signed, token : {0} \cup Signed,
                          state : {"none"} \cup PkceStates]]

\* Whoever checks a token after marking it holds one that was signed.
TokenInHand == \A r \in RtReqs : RtAt(r, "isRevoked") => rtReq[r].token \in Signed

\* Between SMEMBERS and the pipeline the set only gains tokens that are noted
\* as registered meanwhile.
ReadStillCovers ==
    \A r \in RtReqs : RtAt(r, "pipeline") => jtiSet \subseteq rtReq[r].jtis \cup unlisted

RtInv ==
    /\ RtTypeOK
    /\ IsFiniteSet(Signed)
    /\ RtReqTyped
    /\ TokenInHand
    /\ ReadStillCovers
    /\ LiveTokenRevocable
    /\ LoginKillsOldTokens

\* A request takes another record; the set stays, and no token comes to life.
LEMMA RtMoves ==
    ASSUME RtInv, NEW r \in RtReqs,
           NEW rec \in [at : RtLabels, for : {"none", "login", "reuse", "erasure"},
                        jtis : SUBSET Signed, token : {0} \cup Signed,
                        state : {"none"} \cup PkceStates],
           RtGo(r, rec), UNCHANGED <<jtiSet, totpOn, unlisted>>,
           Signed' = Signed, Live' \subseteq Live,
           \A t \in Signed : jtiKey'[t] \in {"none", "used", "revoked"},
           pkce' \subseteq PkceStates,
           ~RtAt(r, "pipeline"),
           rec.at = "isRevoked" => rec.token \in Signed,
           rec.at = "pipeline" => jtiSet \subseteq rec.jtis,
           rec.at = "issue" => rec.jtis \cap Live = {}
    PROVE  RtInv'
<1> USE DEF RtInv
<1>1. rtReq' = [rtReq EXCEPT ![r] = rec]
    BY DEF RtGo
<1>2. RtReqTyped'
    BY <1>1 DEF RtReqTyped
<1>3. rtReq'[r] = rec /\ \A q \in RtReqs \ {r} : rtReq'[q] = rtReq[q]
    BY <1>1 DEF RtReqTyped
<1>4. RtTypeOK'
    BY <1>1, <1>3 DEF RtTypeOK, RtLabels
<1>5. TokenInHand'
    BY <1>1, <1>3 DEF TokenInHand, RtAt
<1>6. ReadStillCovers'
    BY <1>1, <1>3 DEF ReadStillCovers, RtAt
<1>7. LiveTokenRevocable'
    BY <1>1, <1>3 DEF LiveTokenRevocable, RtAt
<1>8. LoginKillsOldTokens'
    BY <1>1, <1>3 DEF LoginKillsOldTokens, RtAt
<1> QED
    BY <1>2, <1>4, <1>5, <1>6, <1>7, <1>8

\* A new token is numbered next, listed, and noted when it comes in between.
LEMMA Issued ==
    ASSUME RtTypeOK, IsFiniteSet(Signed), IssueToken
    PROVE  \E t \in Nat :
              /\ t \notin Signed /\ Signed' = Signed \cup {t}
              /\ Signed' = 1 .. Cardinality(Signed')
              /\ \A u \in Signed : jtiKey'[u] = jtiKey[u]
              /\ jtiKey'[t] = "none"
              /\ Live' = Live \cup {t}
              /\ jtiSet' = jtiSet \cup {t}
              /\ unlisted \subseteq unlisted'
              /\ (\E q \in RtReqs : RtAt(q, "pipeline")) => t \in unlisted'
<1> DEFINE n == Cardinality(Signed)
           t == n + 1
<1>1. n \in Nat /\ Signed = 1 .. n
    BY FS_CardinalityType DEF RtTypeOK
<1>2. t \in Nat /\ t \notin Signed /\ Signed \cup {t} = 1 .. t
    BY <1>1
<1>3. Cardinality(1 .. t) = t
    BY <1>1, FS_Interval
<1>4. /\ jtiKey' = [u \in Signed \cup {t} |-> IF u = t THEN "none" ELSE jtiKey[u]]
      /\ jtiSet' = jtiSet \cup {t}
      /\ unlisted' = IF \E q \in RtReqs : RtAt(q, "pipeline")
                     THEN unlisted \cup {t} ELSE unlisted
    BY DEF IssueToken
<1> HIDE DEF t
<1>5. Signed' = Signed \cup {t}
    BY <1>4 DEF Signed
<1>6. jtiKey'[t] = "none" /\ \A u \in Signed : jtiKey'[u] = jtiKey[u]
    BY <1>2, <1>4
<1>7. Live' = Live \cup {t}
    BY <1>2, <1>5, <1>6 DEF Live
<1> QED
    BY <1>2, <1>3, <1>4, <1>5, <1>6, <1>7

\* Whoever signs and registers a token keeps the invariant.
LEMMA IssueKeeps ==
    ASSUME RtInv, IssueToken, UNCHANGED totpOn, UNCHANGED pkce,
           \/ UNCHANGED rtReq
           \/ \E r \in RtReqs : ~RtAt(r, "pipeline") /\ RtGo(r, RtIdle)
    PROVE  RtInv'
<1> USE DEF RtInv
<1>1. PICK t \in Nat :
              /\ t \notin Signed /\ Signed' = Signed \cup {t}
              /\ Signed' = 1 .. Cardinality(Signed')
              /\ \A u \in Signed : jtiKey'[u] = jtiKey[u]
              /\ jtiKey'[t] = "none"
              /\ Live' = Live \cup {t}
              /\ jtiSet' = jtiSet \cup {t}
              /\ unlisted \subseteq unlisted'
              /\ (\E q \in RtReqs : RtAt(q, "pipeline")) => t \in unlisted'
    BY Issued
<1>2. \A q \in RtReqs : rtReq'[q] = rtReq[q] \/ (rtReq'[q] = RtIdle /\ ~RtAt(q, "pipeline"))
    <2>1. CASE UNCHANGED rtReq
        BY <2>1
    <2>2. ASSUME NEW r \in RtReqs, ~RtAt(r, "pipeline"), RtGo(r, RtIdle)
          PROVE  \A q \in RtReqs :
                     rtReq'[q] = rtReq[q] \/ (rtReq'[q] = RtIdle /\ ~RtAt(q, "pipeline"))
        BY <2>2 DEF RtGo, RtReqTyped
    <2> QED
        BY <2>1, <2>2
<1>3. RtReqTyped'
    <2>1. RtIdle \in [at : RtLabels, for : {"none", "login", "reuse", "erasure"},
                      jtis : SUBSET Signed, token : {0} \cup Signed,
                      state : {"none"} \cup PkceStates]
        BY DEF RtIdle, RtLabels
    <2>2. rtReq' \in [RtReqs -> [at : RtLabels, for : {"none", "login", "reuse", "erasure"},
                      jtis : SUBSET Signed, token : {0} \cup Signed,
                      state : {"none"} \cup PkceStates]]
        BY <2>1 DEF RtReqTyped, RtGo
    <2> QED
        BY <1>1, <2>2 DEF RtReqTyped
<1>4. RtIdle.at = "idle"
    BY DEF RtIdle
<1>5. RtTypeOK'
    <2>1. \A q \in RtReqs : rtReq'[q].at \in RtLabels /\ rtReq'[q].jtis \subseteq Signed'
        BY <1>3 DEF RtReqTyped
    <2> QED
        BY <1>1, <2>1 DEF RtTypeOK, RtLabels
<1>6. TokenInHand'
    BY <1>1, <1>2, <1>4 DEF TokenInHand, RtAt
<1>7. ReadStillCovers'
    BY <1>1, <1>2, <1>4 DEF ReadStillCovers, RtAt
<1>8. LiveTokenRevocable'
    BY <1>1, <1>2, <1>4 DEF LiveTokenRevocable, RtAt
<1>9. LoginKillsOldTokens'
    <2>1. \A q \in RtReqs : rtReq[q].jtis \subseteq Signed
        BY DEF RtTypeOK
    <2> QED
        BY <1>1, <1>2, <1>4, <2>1 DEF LoginKillsOldTokens, RtAt
<1> QED
    BY <1>1, <1>3, <1>5, <1>6, <1>7, <1>8, <1>9, FS_AddElement

\* The pipeline kills what SMEMBERS read; what came in between is noted.
LEMMA PipelineKeeps ==
    ASSUME RtInv, NEW r \in RtReqs, RevokePipeline(r)
    PROVE  RtInv'
<1> USE DEF RtInv
<1> DEFINE rec == [rtReq[r] EXCEPT !.at = IF rtReq[r].for = "login" THEN "issue" ELSE "idle"]
<1>1. /\ RtAt(r, "pipeline") /\ jtiSet' = {} /\ rtReq' = [rtReq EXCEPT ![r] = rec]
      /\ jtiKey' = [t \in Signed |-> IF t \in rtReq[r].jtis THEN "revoked" ELSE jtiKey[t]]
      /\ UNCHANGED <<pkce, totpOn, unlisted>>
    BY DEF RevokePipeline, RtGo
<1>2. Signed' = Signed
    BY <1>1 DEF Signed
<1>3. Live' = Live \ rtReq[r].jtis
    BY <1>1, <1>2 DEF Live
<1>4. /\ rec \in [at : RtLabels, for : {"none", "login", "reuse", "erasure"},
                  jtis : SUBSET Signed, token : {0} \cup Signed,
                  state : {"none"} \cup PkceStates]
      /\ rec.at \in {"issue", "idle"} /\ rec.jtis = rtReq[r].jtis
    BY DEF RtReqTyped, RtLabels
<1> HIDE DEF rec
<1>5. RtReqTyped'
    BY <1>1, <1>2, <1>4 DEF RtReqTyped
<1>6. rtReq'[r] = rec /\ \A q \in RtReqs \ {r} : rtReq'[q] = rtReq[q]
    BY <1>1 DEF RtReqTyped
<1>7. RtTypeOK'
    <2>1. \A q \in RtReqs : rtReq'[q].at \in RtLabels /\ rtReq'[q].jtis \subseteq Signed'
        BY <1>5 DEF RtReqTyped
    <2>2. \A t \in Signed : jtiKey'[t] \in {"none", "used", "revoked"}
        BY <1>1 DEF RtTypeOK
    <2> QED
        BY <1>1, <1>2, <2>1, <2>2 DEF RtTypeOK, RtLabels
<1>8. TokenInHand'
    BY <1>2, <1>4, <1>6 DEF TokenInHand, RtAt
<1>9. ReadStillCovers'
    BY <1>1, <1>4, <1>6 DEF ReadStillCovers, RtAt
<1>10. LiveTokenRevocable'
    <2> SUFFICES ASSUME NEW t \in Live, t \notin rtReq[r].jtis, t \notin unlisted
                 PROVE  \E q \in RtReqs : RtAt(q, "pipeline")' /\ t \in rtReq'[q].jtis
        BY <1>1, <1>3 DEF LiveTokenRevocable
    <2>1. t \notin jtiSet
        BY <1>1 DEF ReadStillCovers
    <2>2. PICK q \in RtReqs : RtAt(q, "pipeline") /\ t \in rtReq[q].jtis
        BY <2>1 DEF LiveTokenRevocable
    <2> QED
        BY <1>6, <2>2 DEF RtAt
<1>11. LoginKillsOldTokens'
    BY <1>3, <1>4, <1>6 DEF LoginKillsOldTokens, RtAt
<1> QED
    BY <1>2, <1>5, <1>7, <1>8, <1>9, <1>10, <1>11

\* A token is marked used: what was live is so no longer, nothing else moves.
LEMMA MarkKeeps ==
    ASSUME RtInv, NEW t \in Signed, jtiKey' = [jtiKey EXCEPT ![t] = "used"],
           UNCHANGED <<jtiSet, pkce, totpOn, rtReq, unlisted>>
    PROVE  RtInv' /\ Signed' = Signed /\ Live' \subseteq Live
<1> USE DEF RtInv
<1>1. Signed' = Signed /\ \A u \in Signed : jtiKey'[u] = IF u = t THEN "used" ELSE jtiKey[u]
    BY DEF Signed
<1>2. Live' = Live \ {t}
    BY <1>1 DEF Live
<1>3. RtTypeOK' /\ RtReqTyped'
    BY <1>1 DEF RtTypeOK, RtReqTyped
<1>4. TokenInHand' /\ ReadStillCovers'
    BY <1>1 DEF TokenInHand, ReadStillCovers, RtAt
<1>5. LiveTokenRevocable'
    BY <1>2 DEF LiveTokenRevocable, RtAt
<1>6. LoginKillsOldTokens'
    BY <1>2 DEF LoginKillsOldTokens, RtAt
<1> QED
    BY <1>1, <1>2, <1>3, <1>4, <1>5, <1>6

\* Every step of sign-in, refresh, logout and revocation keeps the invariant.
LEMMA RtStep ==
    ASSUME RtInv, [RtNext]_rtVars
    PROVE  RtInv'
<1> DEFINE Records == [at : RtLabels, for : {"none", "login", "reuse", "erasure"},
                       jtis : SUBSET Signed, token : {0} \cup Signed,
                       state : {"none"} \cup PkceStates]
<1>1. /\ \A t \in Signed : jtiKey[t] \in {"none", "used", "revoked"}
      /\ pkce \subseteq PkceStates /\ jtiSet \subseteq Signed
      /\ \A r \in RtReqs : rtReq[r] \in Records
    BY DEF RtInv, RtTypeOK, RtReqTyped
<1>2. ASSUME UNCHANGED jtiKey PROVE Signed' = Signed /\ Live' = Live
    BY <1>2 DEF Signed, Live
<1>3. ASSUME UNCHANGED <<jtiKey, jtiSet, totpOn, rtReq, unlisted>>, pkce' \subseteq PkceStates
      PROVE  RtInv'
    BY <1>2, <1>3 DEF RtInv, RtTypeOK, RtReqTyped, TokenInHand, ReadStillCovers,
       LiveTokenRevocable, LoginKillsOldTokens, RtAt
<1>4. ASSUME NEW s \in PkceStates, Authorize(s) \/ PkceExpire(s) PROVE RtInv'
    BY <1>1, <1>3, <1>4 DEF Authorize, PkceExpire
<1>5. ASSUME NEW r \in RtReqs, CallbackStart(r) PROVE RtInv'
    <2>1. /\ [RtIdle EXCEPT !.at = "smembers", !.for = "login"] \in Records
          /\ [RtIdle EXCEPT !.at = "smembers", !.for = "login"].at = "smembers"
          /\ \A s \in pkce : /\ [RtIdle EXCEPT !.at = "exchange", !.state = s] \in Records
                             /\ [RtIdle EXCEPT !.at = "exchange", !.state = s].at = "exchange"
        BY <1>1 DEF RtIdle, RtLabels
    <2>2. ~RtAt(r, "pipeline")
        BY <1>5 DEF CallbackStart, RtAt
    <2> QED
        BY <1>1, <1>2, <1>5, <2>1, <2>2, RtMoves DEF CallbackStart
<1>6. ASSUME NEW r \in RtReqs, CallbackExchange(r) PROVE RtInv'
    <2>1. /\ [RtIdle EXCEPT !.at = "smembers", !.for = "login"] \in Records
          /\ [RtIdle EXCEPT !.at = "smembers", !.for = "login"].at = "smembers"
          /\ RtIdle \in Records /\ RtIdle.at = "idle"
        BY DEF RtIdle, RtLabels
    <2>2. ~RtAt(r, "pipeline") /\ pkce' \subseteq PkceStates
        BY <1>1, <1>6 DEF CallbackExchange, RtAt
    <2> QED
        BY <1>1, <1>2, <1>6, <2>1, <2>2, RtMoves DEF CallbackExchange
<1>7. ASSUME NEW r \in RtReqs, CallbackIssue(r) PROVE RtInv'
    <2>1. RtIdle \in Records /\ RtIdle.at = "idle"
        BY DEF RtIdle, RtLabels
    <2>2. ~RtAt(r, "pipeline")
        BY <1>7 DEF CallbackIssue, RtAt
    <2>3. CASE totpOn
        BY <1>1, <1>2, <1>7, <2>1, <2>2, <2>3, RtMoves DEF CallbackIssue
    <2>4. CASE ~totpOn
        BY <1>7, <2>2, <2>4, IssueKeeps DEF CallbackIssue
    <2> QED
        BY <2>3, <2>4
<1>8. ASSUME NEW r \in RtReqs, RevokeRead(r) PROVE RtInv'
    <2> DEFINE rec == [rtReq[r] EXCEPT !.jtis = jtiSet,
                          !.at = IF jtiSet # {} THEN "pipeline"
                                 ELSE IF rtReq[r].for = "login" THEN "issue" ELSE "idle"]
    <2>1. /\ rec \in Records /\ rec.jtis = jtiSet
          /\ rec.at \in {"pipeline", "issue", "idle"}
          /\ rec.at = "issue" => jtiSet = {}
        BY <1>1 DEF RtLabels
    <2>2. ~RtAt(r, "pipeline") /\ RtGo(r, rec)
        BY <1>8 DEF RevokeRead, RtAt
    <2> HIDE DEF rec
    <2> QED
        BY <1>1, <1>2, <1>8, <2>1, <2>2, RtMoves DEF RevokeRead
<1>9. ASSUME NEW r \in RtReqs, RevokePipeline(r) PROVE RtInv'
    BY <1>9, PipelineKeeps
<1>10. ASSUME NEW r \in RtReqs, RefreshCheck(r) PROVE RtInv'
    <2>1. RtIdle \in Records /\ RtIdle.at = "idle"
        BY DEF RtIdle, RtLabels
    <2>2. ~RtAt(r, "pipeline")
        BY <1>10 DEF RefreshCheck, RtAt
    <2>3. CASE jtiKey[rtReq[r].token] # "none"
        BY <1>1, <1>2, <1>10, <2>1, <2>2, <2>3, RtMoves DEF RefreshCheck
    <2>4. CASE jtiKey[rtReq[r].token] = "none"
        BY <1>10, <2>2, <2>4, IssueKeeps DEF RefreshCheck
    <2> QED
        BY <2>3, <2>4
<1>11. ASSUME NEW r \in RtReqs, EraseRevoke(r) PROVE RtInv'
    <2>1. /\ [RtIdle EXCEPT !.at = "smembers", !.for = "erasure"] \in Records
          /\ [RtIdle EXCEPT !.at = "smembers", !.for = "erasure"].at = "smembers"
        BY DEF RtIdle, RtLabels
    <2>2. ~RtAt(r, "pipeline")
        BY <1>11 DEF EraseRevoke, RtAt
    <2> QED
        BY <1>1, <1>2, <1>11, <2>1, <2>2, RtMoves DEF EraseRevoke
<1>12. ASSUME NEW r \in RtReqs, NEW t \in Signed, RefreshMark(r, t) PROVE RtInv'
    <2>1. /\ [RtIdle EXCEPT !.at = "smembers", !.for = "reuse"] \in Records
          /\ [RtIdle EXCEPT !.at = "smembers", !.for = "reuse"].at = "smembers"
          /\ [RtIdle EXCEPT !.at = "isRevoked", !.token = t] \in Records
          /\ [RtIdle EXCEPT !.at = "isRevoked", !.token = t].at = "isRevoked"
          /\ [RtIdle EXCEPT !.at = "isRevoked", !.token = t].token = t
        BY DEF RtIdle, RtLabels
    <2>2. ~RtAt(r, "pipeline")
        BY <1>12 DEF RefreshMark, RtAt
    <2>3. CASE jtiKey[t] # "none"
        BY <1>1, <1>2, <1>12, <2>1, <2>2, <2>3, RtMoves DEF RefreshMark
    <2>4. CASE jtiKey[t] = "none"
        <3>1. jtiKey' = [jtiKey EXCEPT ![t] = "used"]
            BY <1>12, <2>4 DEF RefreshMark
        <3>2. Signed' = Signed
            BY <3>1 DEF Signed
        <3>3. \A u \in Signed : jtiKey'[u] = IF u = t THEN "used" ELSE jtiKey[u]
            BY <3>1 DEF Signed
        <3>4. Live' \subseteq Live /\ \A u \in Signed : jtiKey'[u] \in {"none", "used", "revoked"}
            BY <1>1, <3>2, <3>3 DEF Live
        <3> QED
            BY <1>1, <1>12, <2>1, <2>2, <2>4, <3>2, <3>4, RtMoves DEF RefreshMark
    <2> QED
        BY <2>3, <2>4
<1>13. CASE VerifyIssue
    BY <1>13, IssueKeeps DEF VerifyIssue
<1>14. ASSUME NEW t \in Signed, Logout(t) PROVE RtInv'
    BY <1>14, MarkKeeps DEF Logout
<1>15. CASE UNCHANGED rtVars
    BY <1>1, <1>3, <1>15 DEF rtVars
<1> QED
    BY <1>4, <1>5, <1>6, <1>7, <1>8, <1>9, <1>10, <1>11, <1>12, <1>13, <1>14, <1>15
    DEF RtNext

\* No step brings a dead token back to life.
LEMMA RtDeadStays ==
    ASSUME RtInv, RtNext, NEW t \in Signed, jtiKey[t] # "none"
    PROVE  jtiKey'[t] # "none"
<1>1. ASSUME IssueToken PROVE jtiKey'[t] # "none"
    BY <1>1, Issued DEF RtInv
<1>2. ASSUME UNCHANGED jtiKey PROVE jtiKey'[t] # "none"
    BY <1>2
<1>3. ASSUME NEW u \in Signed, jtiKey' = [jtiKey EXCEPT ![u] = "used"]
      PROVE  jtiKey'[t] # "none"
    BY <1>3 DEF Signed
<1>4. ASSUME NEW r \in RtReqs, RevokePipeline(r) PROVE jtiKey'[t] # "none"
    BY <1>4 DEF RevokePipeline
<1>5. ASSUME NEW u \in Signed, Logout(u) PROVE jtiKey'[t] # "none"
    BY <1>3, <1>5 DEF Logout
<1>6. ASSUME NEW r \in RtReqs, NEW u \in Signed, RefreshMark(r, u) PROVE jtiKey'[t] # "none"
    BY <1>2, <1>3, <1>6 DEF RefreshMark
<1> QED
    BY <1>1, <1>2, <1>4, <1>5, <1>6 DEF RtNext, Authorize, PkceExpire, CallbackStart,
       CallbackExchange, CallbackIssue, RevokeRead, RefreshCheck, EraseRevoke, VerifyIssue

\* Before the first sign-in there is no token at all.
LEMMA RtStart ==
    ASSUME RtInit
    PROVE  RtInv
<1>1. Signed = {} /\ Live = {} /\ Signed = 1 .. Cardinality(Signed) /\ IsFiniteSet(Signed)
    <2>1. DOMAIN jtiKey = {}
        BY DEF RtInit
    <2> QED
        BY <2>1, FS_EmptySet DEF Signed, Live
<1>2. RtIdle \in [at : RtLabels, for : {"none", "login", "reuse", "erasure"},
                  jtis : SUBSET Signed, token : {0} \cup Signed,
                  state : {"none"} \cup PkceStates]
      /\ RtIdle.at = "idle" /\ RtIdle.jtis = {}
    BY DEF RtIdle, RtLabels
<1>3. rtReq = [r \in RtReqs |-> RtIdle] /\ jtiSet = {} /\ pkce = {} /\ totpOn \in BOOLEAN
    BY DEF RtInit
<1>4. \A r \in RtReqs : rtReq[r] = RtIdle
    BY <1>3
<1>5. RtReqTyped
    BY <1>2, <1>3 DEF RtReqTyped
<1>6. RtTypeOK
    BY <1>1, <1>2, <1>3, <1>4 DEF RtTypeOK
<1>7. TokenInHand /\ ReadStillCovers /\ LiveTokenRevocable /\ LoginKillsOldTokens
    BY <1>1, <1>2, <1>4 DEF TokenInHand, ReadStillCovers, LiveTokenRevocable,
       LoginKillsOldTokens, RtAt
<1> QED
    BY <1>1, <1>5, <1>6, <1>7 DEF RtInv

-------------------------------------------------------------------------------
(* Two-factor authentication *)

TfLabels == {"idle", "upsert", "confirm", "clear", "insert", "match", "mark", "delete"}
TfRecords == [at : TfLabels, op : {"none", "enroll", "confirm", "regenerate", "verify", "disenroll"},
              saw : [key : 0 .. MaxSecrets, confirmed : BOOLEAN],
              code : Codes \cup {<<0, 0>>}, batch : 0 .. MaxBatches, n : Nat]

\* What TfTypeOK leaves out: the counters, the requests as records, a request
\* that inserts is within its batch and one that marks has a code.
TfTyped ==
    /\ secrets \in 0 .. MaxSecrets
    /\ batches \in 0 .. MaxBatches
    /\ tfReq \in [TfReqs -> TfRecords]
    /\ uses \in [Codes -> Nat]
    /\ {crossed, mixed} \subseteq BOOLEAN
    /\ \A r \in TfReqs :
          /\ TfAt(r, "insert") => tfReq[r].batch \in 1 .. batches /\ tfReq[r].n \in 1 .. BatchSize
          /\ TfAt(r, "mark") => tfReq[r].code \in Codes

\* A request that enrols saw no confirmed secret.
EnrolLooked == \A r \in TfReqs : TfAt(r, "upsert") => ~tfReq[r].saw.confirmed

\* A request about to confirm was shown a code of the secret that is there,
\* unless the secret is gone or an enrolment crossed it.
ConfirmHolds ==
    \A r \in TfReqs : TfAt(r, "confirm") =>
        /\ tfReq[r].saw.key \in proven
        /\ crossed \/ secret.key = 0 \/ secret.key = tfReq[r].saw.key

\* A code that was made: of a batch begun, and inserted before where its
\* generation has got to.
Made(c) ==
    /\ c[1] <= batches
    /\ \A r \in TfReqs : TfAt(r, "insert") /\ tfReq[r].batch = c[1] => c[2] < tfReq[r].n

\* Codes in the table, codes being marked and codes ever accepted were made.
CodesMade ==
    /\ \A c \in DOMAIN codes : Made(c)
    /\ \A r \in TfReqs : TfAt(r, "mark") => Made(tfReq[r].code)
    /\ \A c \in Codes : uses[c] # 0 => Made(c)

\* Every generation has a batch of its own.
BatchesApart ==
    \A q, r \in TfReqs :
        TfAt(q, "insert") /\ TfAt(r, "insert") /\ tfReq[q].batch = tfReq[r].batch => q = r

\* A code that was accepted is marked as used for as long as it is there.
AcceptedIsUsed == \A c \in DOMAIN codes : uses[c] # 0 => codes[c]

\* Unless two generations overlapped, the codes and whoever inserts them are of
\* the last batch.
LastBatchOnly ==
    mixed \/ /\ \A c \in DOMAIN codes : c[1] = batches
             /\ \A r \in TfReqs : TfAt(r, "insert") => tfReq[r].batch = batches

TfInv ==
    /\ TfTypeOK
    /\ TfTyped
    /\ EnrolLooked
    /\ ConfirmHolds
    /\ ConfirmedWasProven
    /\ CodesMade
    /\ BatchesApart
    /\ AcceptedIsUsed
    /\ LastBatchOnly

\* One request takes another record, the others keep theirs.
LEMMA TfTakes ==
    ASSUME TfTyped, NEW r \in TfReqs, NEW rec \in TfRecords, TfGo(r, rec)
    PROVE  /\ tfReq' \in [TfReqs -> TfRecords]
           /\ tfReq'[r] = rec
           /\ \A q \in TfReqs \ {r} : tfReq'[q] = tfReq[q]
BY DEF TfTyped, TfGo

\* A request that neither begins to insert nor to mark, unless with a code that
\* was made, leaves what is known of the codes as it was.
LEMMA CodesStay ==
    ASSUME TfInv, NEW r \in TfReqs, NEW rec \in TfRecords, TfGo(r, rec),
           UNCHANGED <<codes, batches, uses, mixed>>,
           rec.at # "insert",
           rec.at = "mark" => Made(rec.code)
    PROVE  CodesMade' /\ BatchesApart' /\ AcceptedIsUsed' /\ LastBatchOnly'
<1> USE DEF TfInv
<1>1. tfReq'[r] = rec /\ \A q \in TfReqs \ {r} : tfReq'[q] = tfReq[q]
    BY TfTakes
<1>2. \A q \in TfReqs : TfAt(q, "insert")' => TfAt(q, "insert") /\ tfReq'[q] = tfReq[q]
    BY <1>1 DEF TfAt
<1>3. \A c : Made(c) => Made(c)'
    BY <1>2 DEF Made
<1>4. CodesMade'
    BY <1>1, <1>3 DEF CodesMade, TfAt
<1>5. BatchesApart'
    BY <1>2 DEF BatchesApart
<1>6. AcceptedIsUsed' /\ LastBatchOnly'
    BY <1>2 DEF AcceptedIsUsed, LastBatchOnly
<1> QED
    BY <1>4, <1>5, <1>6

\* The secret stays: a request that comes to enrol or to confirm has looked.
LEMMA SecretStays ==
    ASSUME TfInv, NEW r \in TfReqs, NEW rec \in TfRecords, TfGo(r, rec),
           UNCHANGED <<secret, crossed>>, proven \subseteq proven',
           rec.at = "upsert" => ~rec.saw.confirmed,
           rec.at = "confirm" => rec.saw.key \in proven' /\ secret.key = rec.saw.key
    PROVE  EnrolLooked' /\ ConfirmHolds' /\ ConfirmedWasProven'
<1> USE DEF TfInv
<1>1. tfReq'[r] = rec /\ \A q \in TfReqs \ {r} : tfReq'[q] = tfReq[q]
    BY TfTakes
<1>2. EnrolLooked'
    BY <1>1 DEF EnrolLooked, TfAt
<1>3. ConfirmHolds'
    BY <1>1 DEF ConfirmHolds, TfAt
<1>4. ConfirmedWasProven'
    BY DEF ConfirmedWasProven
<1> QED
    BY <1>2, <1>3, <1>4

\* Types, when the rows keep theirs.
LEMMA TfTypesKept ==
    ASSUME TfInv, NEW r \in TfReqs, NEW rec \in TfRecords, TfGo(r, rec),
           secret' \in [key : 0 .. MaxSecrets, confirmed : BOOLEAN],
           secrets' \in 0 .. MaxSecrets, crossed' \in BOOLEAN,
           UNCHANGED <<codes, batches, uses, mixed>>,
           rec.at # "insert", rec.at = "mark" => rec.code \in Codes
    PROVE  TfTypeOK' /\ TfTyped'
<1> USE DEF TfInv
<1>1. /\ tfReq' \in [TfReqs -> TfRecords]
      /\ tfReq'[r] = rec
      /\ \A q \in TfReqs \ {r} : tfReq'[q] = tfReq[q]
    BY TfTakes
<1>2. \A q \in TfReqs : tfReq'[q].at \in TfLabels
    BY <1>1 DEF TfRecords
<1>3. TfTypeOK'
    BY <1>2 DEF TfTypeOK, TfLabels
<1>4. \A q \in TfReqs :
          /\ TfAt(q, "insert")' => tfReq'[q].batch \in 1 .. batches' /\ tfReq'[q].n \in 1 .. BatchSize
          /\ TfAt(q, "mark")' => tfReq'[q].code \in Codes
    BY <1>1 DEF TfTyped, TfAt
<1>5. TfTyped'
    BY <1>1, <1>4 DEF TfTyped
<1> QED
    BY <1>3, <1>5

\* A request looks, proves a code or matches one: only its own record changes,
\* and what is proven grows.
LEMMA TfLooks ==
    ASSUME TfInv, NEW r \in TfReqs, NEW rec \in TfRecords, TfGo(r, rec),
           UNCHANGED <<secret, secrets, codes, batches, crossed, mixed, uses>>,
           proven \subseteq proven',
           rec.at # "insert",
           rec.at = "mark" => rec.code \in Codes /\ Made(rec.code),
           rec.at = "upsert" => ~rec.saw.confirmed,
           rec.at = "confirm" => rec.saw.key \in proven' /\ secret.key = rec.saw.key
    PROVE  TfInv'
<1>1. CodesMade' /\ BatchesApart' /\ AcceptedIsUsed' /\ LastBatchOnly'
    BY CodesStay
<1>2. EnrolLooked' /\ ConfirmHolds' /\ ConfirmedWasProven'
    BY SecretStays
<1>3. TfTypeOK' /\ TfTyped'
    BY TfTypesKept DEF TfInv, TfTypeOK, TfTyped
<1> QED
    BY <1>1, <1>2, <1>3 DEF TfInv

\* An enrolment stores a new secret; whoever is about to confirm is noted.
LEMMA EnrollUpsertKeeps ==
    ASSUME TfInv, NEW r \in TfReqs, EnrollUpsert(r), TfIdle \in TfRecords, TfIdle.at = "idle"
    PROVE  TfInv'
<1> USE DEF TfInv
<1>1. /\ TfGo(r, TfIdle) /\ TfAt(r, "upsert") /\ secrets < MaxSecrets
      /\ secrets' = secrets + 1
      /\ secret' = [key |-> secrets + 1, confirmed |-> FALSE]
      /\ crossed' = (crossed \/ \E q \in TfReqs : TfAt(q, "confirm"))
      /\ UNCHANGED <<codes, batches, proven, mixed, uses>>
    BY DEF EnrollUpsert
<1>2. CodesMade' /\ BatchesApart' /\ AcceptedIsUsed' /\ LastBatchOnly'
    BY <1>1, CodesStay
<1>3. secrets' \in 0 .. MaxSecrets /\ secret' \in [key : 0 .. MaxSecrets, confirmed : BOOLEAN]
    BY <1>1, TfAssumption DEF TfTyped
<1>4. TfTypeOK' /\ TfTyped'
    <2>1. crossed' \in BOOLEAN
        BY <1>1
    <2> QED
        BY <1>1, <1>3, <2>1, TfTypesKept
<1>5. tfReq'[r] = TfIdle /\ \A q \in TfReqs \ {r} : tfReq'[q] = tfReq[q]
    BY <1>1, TfTakes
<1>6. EnrolLooked'
    BY <1>5 DEF EnrolLooked, TfAt
<1>7. ConfirmHolds'
    <2> SUFFICES ASSUME NEW q \in TfReqs, TfAt(q, "confirm")'
                 PROVE  tfReq'[q].saw.key \in proven' /\ crossed'
        BY DEF ConfirmHolds
    <2>1. q # r /\ TfAt(q, "confirm")
        BY <1>5 DEF TfAt
    <2> QED
        BY <1>1, <1>5, <2>1 DEF ConfirmHolds
<1>8. ConfirmedWasProven'
    BY <1>1 DEF ConfirmedWasProven
<1> QED
    BY <1>2, <1>4, <1>6, <1>7, <1>8

\* A confirmation switches 2FA on for the secret that is there.
LEMMA ConfirmUpdateKeeps ==
    ASSUME TfInv, NEW r \in TfReqs, ConfirmUpdate(r)
    PROVE  TfInv'
<1> USE DEF TfInv
<1> DEFINE rec == [tfReq[r] EXCEPT !.at = "clear"]
<1>1. /\ TfGo(r, rec) /\ TfAt(r, "confirm")
      /\ secret' = IF secret.key = 0 THEN secret ELSE [key |-> secret.key, confirmed |-> TRUE]
      /\ UNCHANGED <<secrets, codes, batches, proven, crossed, mixed, uses>>
    BY DEF ConfirmUpdate
<1>2. rec \in TfRecords /\ rec.at = "clear"
    BY DEF TfTyped, TfRecords, TfLabels
<1> HIDE DEF rec
<1>3. CodesMade' /\ BatchesApart' /\ AcceptedIsUsed' /\ LastBatchOnly'
    BY <1>1, <1>2, CodesStay
<1>4. /\ secret' \in [key : 0 .. MaxSecrets, confirmed : BOOLEAN]
      /\ secret'.key = secret.key
      /\ secret.key = 0 => secret' = secret
    BY <1>1 DEF TfTypeOK
<1>5. TfTypeOK' /\ TfTyped'
    BY <1>1, <1>2, <1>4, TfTypesKept DEF TfTyped
<1>6. tfReq'[r] = rec /\ \A q \in TfReqs \ {r} : tfReq'[q] = tfReq[q]
    BY <1>1, <1>2, TfTakes
<1>7. EnrolLooked'
    BY <1>2, <1>6 DEF EnrolLooked, TfAt
<1>8. ConfirmHolds'
    BY <1>1, <1>2, <1>4, <1>6 DEF ConfirmHolds, TfAt
<1>9. ConfirmedWasProven'
    <2>1. CASE secret.key = 0
        BY <1>1, <1>4, <2>1 DEF ConfirmedWasProven
    <2>2. CASE secret.key # 0
        BY <1>1, <1>4, <2>2 DEF ConfirmedWasProven, ConfirmHolds
    <2> QED
        BY <2>1, <2>2
<1> QED
    BY <1>3, <1>5, <1>7, <1>8, <1>9

\* A disenrolment deletes the row.
LEMMA DisenrollKeeps ==
    ASSUME TfInv, NEW r \in TfReqs, DisenrollDelete(r), TfIdle \in TfRecords, TfIdle.at = "idle"
    PROVE  TfInv'
<1> USE DEF TfInv
<1>1. /\ TfGo(r, TfIdle) /\ secret' = NoRow
      /\ UNCHANGED <<secrets, codes, batches, proven, crossed, mixed, uses>>
    BY DEF DisenrollDelete
<1>2. CodesMade' /\ BatchesApart' /\ AcceptedIsUsed' /\ LastBatchOnly'
    BY <1>1, CodesStay
<1>3. /\ NoRow \in [key : 0 .. MaxSecrets, confirmed : BOOLEAN]
      /\ NoRow.key = 0 /\ NoRow.confirmed = FALSE
    BY TfAssumption DEF NoRow
<1>4. TfTypeOK' /\ TfTyped'
    BY <1>1, <1>3, TfTypesKept DEF TfTyped
<1>5. tfReq'[r] = TfIdle /\ \A q \in TfReqs \ {r} : tfReq'[q] = tfReq[q]
    BY <1>1, TfTakes
<1>6. EnrolLooked' /\ ConfirmHolds' /\ ConfirmedWasProven'
    BY <1>1, <1>3, <1>5 DEF EnrolLooked, ConfirmHolds, ConfirmedWasProven, TfAt
<1> QED
    BY <1>2, <1>4, <1>6

\* Old codes are deleted and a new batch begins.
LEMMA ClearCodesKeeps ==
    ASSUME TfInv, NEW r \in TfReqs, ClearCodes(r)
    PROVE  TfInv'
<1> USE DEF TfInv
<1> DEFINE rec == [tfReq[r] EXCEPT !.at = "insert", !.batch = batches + 1, !.n = 1]
<1>1. /\ TfGo(r, rec) /\ TfAt(r, "clear") /\ batches < MaxBatches
      /\ codes' = <<>> /\ batches' = batches + 1
      /\ mixed' = (mixed \/ \E q \in TfReqs : TfAt(q, "insert"))
      /\ UNCHANGED <<secret, secrets, proven, crossed, uses>>
    BY DEF ClearCodes
<1>2. batches \in Nat /\ batches' \in 0 .. MaxBatches /\ batches + 1 \in 0 .. MaxBatches
    BY <1>1, TfAssumption DEF TfTyped
<1>3. rec \in TfRecords /\ rec.at = "insert" /\ rec.batch = batches + 1 /\ rec.n = 1
    BY <1>2 DEF TfTyped, TfRecords, TfLabels
<1> HIDE DEF rec
<1>4. /\ tfReq' \in [TfReqs -> TfRecords]
      /\ tfReq'[r] = rec
      /\ \A q \in TfReqs \ {r} : tfReq'[q] = tfReq[q]
    BY <1>1, <1>3, TfTakes
<1>5. EnrolLooked' /\ ConfirmHolds' /\ ConfirmedWasProven'
    BY <1>1, <1>3, SecretStays
<1>6. DOMAIN codes' = {}
    BY <1>1
<1>7. TfTypeOK'
    <2>1. \A q \in TfReqs : tfReq'[q].at \in TfLabels
        BY <1>4 DEF TfRecords
    <2> QED
        BY <1>1, <1>6, <2>1 DEF TfTypeOK, TfLabels
<1>8. \A q \in TfReqs : TfAt(q, "insert")' =>
          (q = r \/ (q # r /\ TfAt(q, "insert") /\ tfReq'[q] = tfReq[q]
                     /\ tfReq[q].batch \in 1 .. batches /\ tfReq[q].n \in 1 .. BatchSize))
    BY <1>4 DEF TfAt, TfTyped
<1>9. TfTyped'
    <2>1. \A q \in TfReqs : TfAt(q, "insert")'
              => tfReq'[q].batch \in 1 .. batches' /\ tfReq'[q].n \in 1 .. BatchSize
        BY <1>1, <1>2, <1>3, <1>4, <1>8, TfAssumption
    <2>2. \A q \in TfReqs : TfAt(q, "mark")' => tfReq'[q].code \in Codes
        BY <1>3, <1>4 DEF TfTyped, TfAt
    <2>3. mixed' \in BOOLEAN
        BY <1>1
    <2> QED
        BY <1>1, <1>2, <1>4, <2>1, <2>2, <2>3 DEF TfTyped
<1>10. \A c \in Codes : Made(c) => Made(c)'
    <2> SUFFICES ASSUME NEW c \in Codes, Made(c) PROVE Made(c)'
        OBVIOUS
    <2>1. c[1] \in Nat /\ c[1] <= batches
        BY DEF Codes, Made
    <2> QED
        BY <1>1, <1>2, <1>3, <1>4, <1>8, <2>1 DEF Made
<1>11. CodesMade'
    BY <1>1, <1>3, <1>4, <1>6, <1>10 DEF CodesMade, TfAt, TfTyped
<1>12. BatchesApart'
    BY <1>2, <1>3, <1>4, <1>8 DEF BatchesApart
<1>13. AcceptedIsUsed'
    BY <1>6 DEF AcceptedIsUsed
<1>14. LastBatchOnly'
    BY <1>1, <1>3, <1>4, <1>6, <1>8 DEF LastBatchOnly
<1> QED
    BY <1>5, <1>7, <1>9, <1>11, <1>12, <1>13, <1>14

\* One code is inserted: nobody has ever matched or accepted it.
LEMMA InsertCodeKeeps ==
    ASSUME TfInv, NEW r \in TfReqs, InsertCode(r), TfIdle \in TfRecords, TfIdle.at = "idle"
    PROVE  TfInv'
<1> USE DEF TfInv
<1> DEFINE rec == IF tfReq[r].n = BatchSize THEN TfIdle ELSE [tfReq[r] EXCEPT !.n = @ + 1]
<1>0. PICK new : new = <<tfReq[r].batch, tfReq[r].n>>
    OBVIOUS
<1>1. /\ TfGo(r, rec) /\ TfAt(r, "insert")
      /\ codes' = [d \in DOMAIN codes \cup {new} |-> d # new /\ codes[d]]
      /\ UNCHANGED <<secret, secrets, batches, proven, crossed, mixed, uses>>
    BY <1>0 DEF InsertCode
<1>2. /\ batches \in 0 .. MaxBatches /\ MaxBatches \in Nat /\ BatchSize \in Nat
      /\ tfReq[r].batch \in 1 .. batches /\ tfReq[r].n \in 1 .. BatchSize
      /\ tfReq[r] \in TfRecords
    BY <1>1, TfAssumption DEF TfTyped
<1>3. new \in Codes /\ new[1] = tfReq[r].batch /\ new[2] = tfReq[r].n
    BY <1>0, <1>2 DEF Codes
<1>4. /\ rec \in TfRecords
      /\ rec.at \in {"insert", "idle"}
      /\ rec.at = "insert" => /\ rec.batch = tfReq[r].batch /\ rec.n = tfReq[r].n + 1
                              /\ rec.n \in 1 .. BatchSize
    BY <1>1, <1>2 DEF TfRecords, TfLabels, TfAt
<1> HIDE DEF rec
<1>5. /\ tfReq' \in [TfReqs -> TfRecords]
      /\ tfReq'[r] = rec
      /\ \A q \in TfReqs \ {r} : tfReq'[q] = tfReq[q]
    BY <1>1, <1>4, TfTakes
<1>6. EnrolLooked' /\ ConfirmHolds' /\ ConfirmedWasProven'
    BY <1>1, <1>4, SecretStays
<1>7. /\ DOMAIN codes' = DOMAIN codes \cup {new}
      /\ \A d \in DOMAIN codes' : codes'[d] = (d # new /\ codes[d])
    BY <1>1
<1>8. TfTypeOK'
    <2>1. \A q \in TfReqs : tfReq'[q].at \in TfLabels
        BY <1>5 DEF TfRecords
    <2>2. \A d \in DOMAIN codes' : codes'[d] \in BOOLEAN
        BY <1>7
    <2> QED
        BY <1>1, <1>3, <1>7, <2>1, <2>2 DEF TfTypeOK, TfLabels
<1>9. \A q \in TfReqs : TfAt(q, "insert")' => TfAt(q, "insert") /\ tfReq'[q].batch = tfReq[q].batch
    BY <1>1, <1>4, <1>5 DEF TfAt
<1>10. TfTyped'
    <2>1. \A q \in TfReqs : TfAt(q, "insert")'
              => tfReq'[q].batch \in 1 .. batches' /\ tfReq'[q].n \in 1 .. BatchSize
        BY <1>1, <1>2, <1>4, <1>5 DEF TfTyped, TfAt
    <2>2. \A q \in TfReqs : TfAt(q, "mark")' => tfReq'[q].code \in Codes
        BY <1>4, <1>5 DEF TfTyped, TfAt
    <2> QED
        BY <1>1, <1>5, <2>1, <2>2 DEF TfTyped
<1>11. \A c \in Codes : Made(c) => Made(c)'
    <2> SUFFICES ASSUME NEW c \in Codes, Made(c), NEW q \in TfReqs,
                        TfAt(q, "insert")', tfReq'[q].batch = c[1]
                 PROVE  c[2] < tfReq'[q].n
        BY <1>1 DEF Made
    <2>1. c[2] \in Nat /\ c[2] < tfReq[q].n
        BY <1>9 DEF Made, Codes
    <2>2. CASE q = r
        BY <1>2, <1>4, <1>5, <2>1, <2>2 DEF TfAt
    <2>3. CASE q # r
        BY <1>5, <2>1, <2>3
    <2> QED
        BY <2>2, <2>3
<1>12. Made(new)'
    <2>1. new[1] <= batches'
        BY <1>1, <1>2, <1>3
    <2>2. ASSUME NEW q \in TfReqs, TfAt(q, "insert")', tfReq'[q].batch = new[1]
          PROVE  new[2] < tfReq'[q].n
        <3>1. q = r
            BY <1>1, <1>3, <1>9, <2>2 DEF BatchesApart
        <3> QED
            BY <1>2, <1>3, <1>4, <1>5, <2>2, <3>1 DEF TfAt
    <2> QED
        BY <2>1, <2>2 DEF Made
<1>13. CodesMade'
    <2>1. \A c \in DOMAIN codes' : Made(c)'
        BY <1>7, <1>11, <1>12 DEF CodesMade, TfTypeOK
    <2>2. \A q \in TfReqs : (TfAt(q, "mark") => Made(tfReq[q].code))'
        BY <1>4, <1>5, <1>11 DEF CodesMade, TfTyped, TfAt
    <2>3. \A c \in Codes : uses'[c] # 0 => Made(c)'
        BY <1>1, <1>11 DEF CodesMade
    <2> QED
        BY <2>1, <2>2, <2>3 DEF CodesMade
<1>14. BatchesApart'
    BY <1>9 DEF BatchesApart
<1>15. AcceptedIsUsed'
    <2>1. uses[new] = 0
        <3>1. ~Made(new)
            BY <1>1, <1>2, <1>3 DEF Made
        <3> QED
            BY <1>3, <3>1 DEF CodesMade
    <2> QED
        BY <1>1, <1>7, <2>1 DEF AcceptedIsUsed
<1>16. LastBatchOnly'
    BY <1>1, <1>3, <1>7, <1>9 DEF LastBatchOnly
<1> QED
    BY <1>6, <1>8, <1>10, <1>13, <1>14, <1>15, <1>16

\* A code is accepted and marked.
LEMMA MarkCodeKeeps ==
    ASSUME TfInv, NEW r \in TfReqs, MarkCode(r), TfIdle \in TfRecords, TfIdle.at = "idle"
    PROVE  TfInv'
<1> USE DEF TfInv
<1>0. PICK c : c = tfReq[r].code
    OBVIOUS
<1> DEFINE rec == IF tfReq[r].op = "verify" THEN TfIdle ELSE [tfReq[r] EXCEPT !.at = "delete"]
<1>1. /\ TfGo(r, rec) /\ TfAt(r, "mark")
      /\ codes' = [d \in DOMAIN codes |-> d = c \/ codes[d]]
      /\ uses' = [uses EXCEPT ![c] = @ + 1]
      /\ UNCHANGED <<secret, secrets, batches, proven, crossed, mixed>>
    BY <1>0 DEF MarkCode
<1>2. c \in Codes /\ Made(c)
    BY <1>0, <1>1 DEF TfTyped, CodesMade
<1>3. rec \in TfRecords /\ rec.at \in {"idle", "delete"}
    BY DEF TfTyped, TfRecords, TfLabels
<1> HIDE DEF rec
<1>4. /\ tfReq' \in [TfReqs -> TfRecords]
      /\ tfReq'[r] = rec
      /\ \A q \in TfReqs \ {r} : tfReq'[q] = tfReq[q]
    BY <1>1, <1>3, TfTakes
<1>5. EnrolLooked' /\ ConfirmHolds' /\ ConfirmedWasProven'
    BY <1>1, <1>3, SecretStays
<1>6. /\ DOMAIN codes' = DOMAIN codes
      /\ \A d \in DOMAIN codes : codes'[d] = (d = c \/ codes[d])
    BY <1>1
<1>7. /\ uses' \in [Codes -> Nat]
      /\ \A d \in Codes \ {c} : uses'[d] = uses[d]
    BY <1>1, <1>2 DEF TfTyped
<1>8. TfTypeOK'
    <2>1. \A q \in TfReqs : tfReq'[q].at \in TfLabels
        BY <1>4 DEF TfRecords
    <2>2. \A d \in DOMAIN codes' : codes'[d] \in BOOLEAN
        BY <1>6
    <2> QED
        BY <1>1, <1>6, <2>1, <2>2 DEF TfTypeOK, TfLabels
<1>9. \A q \in TfReqs : TfAt(q, "insert")' => TfAt(q, "insert") /\ tfReq'[q] = tfReq[q]
    BY <1>3, <1>4 DEF TfAt
<1>10. TfTyped'
    <2>1. \A q \in TfReqs : TfAt(q, "insert")'
              => tfReq'[q].batch \in 1 .. batches' /\ tfReq'[q].n \in 1 .. BatchSize
        BY <1>1, <1>9 DEF TfTyped
    <2>2. \A q \in TfReqs : TfAt(q, "mark")' => tfReq'[q].code \in Codes
        BY <1>3, <1>4 DEF TfTyped, TfAt
    <2> QED
        BY <1>1, <1>4, <1>7, <2>1, <2>2 DEF TfTyped
<1>11. \A d : Made(d) => Made(d)'
    BY <1>1, <1>9 DEF Made
<1>12. CodesMade'
    <2>1. \A d \in DOMAIN codes' : Made(d)'
        BY <1>6, <1>11 DEF CodesMade
    <2>2. \A q \in TfReqs : (TfAt(q, "mark") => Made(tfReq[q].code))'
        BY <1>3, <1>4, <1>11 DEF CodesMade, TfAt
    <2>3. \A d \in Codes : uses'[d] # 0 => Made(d)'
        BY <1>2, <1>7, <1>11 DEF CodesMade
    <2> QED
        BY <2>1, <2>2, <2>3 DEF CodesMade
<1>13. BatchesApart'
    BY <1>9 DEF BatchesApart
<1>14. AcceptedIsUsed'
    BY <1>6, <1>7 DEF AcceptedIsUsed, TfTypeOK
<1>15. LastBatchOnly'
    BY <1>1, <1>6, <1>9 DEF LastBatchOnly
<1> QED
    BY <1>5, <1>8, <1>10, <1>12, <1>13, <1>14, <1>15

\* Every step of the 2FA routes keeps the invariant.
LEMMA TfStep ==
    ASSUME TfInv, [TfNext]_tfVars
    PROVE  TfInv'
<1>1. /\ TfIdle \in TfRecords /\ TfIdle.at = "idle"
      /\ secret \in [key : 0 .. MaxSecrets, confirmed : BOOLEAN]
    <2>1. NoRow \in [key : 0 .. MaxSecrets, confirmed : BOOLEAN]
        BY TfAssumption DEF NoRow
    <2> QED
        BY <2>1, TfAssumption DEF TfIdle, TfRecords, TfLabels, TfInv, TfTypeOK
<1>2. ASSUME NEW at \in TfLabels,
             NEW op \in {"none", "enroll", "confirm", "regenerate", "verify", "disenroll"}
      PROVE  /\ [TfIdle EXCEPT !.at = at, !.op = op, !.saw = secret] \in TfRecords
             /\ [TfIdle EXCEPT !.at = at, !.op = op, !.saw = secret].at = at
             /\ [TfIdle EXCEPT !.at = at, !.op = op, !.saw = secret].saw = secret
    <2>1. DOMAIN TfIdle = {"at", "op", "saw", "code", "batch", "n"}
        BY DEF TfIdle
    <2> QED
        BY <1>1 DEF TfRecords, TfIdle
<1>3. ASSUME NEW r \in TfReqs, Enroll(r) PROVE TfInv'
    <2>1. "upsert" \in TfLabels
        BY DEF TfLabels
    <2> QED
        BY ZenonT(60), <1>2, <1>3, <2>1, TfLooks DEF Enroll
<1>4. ASSUME NEW r \in TfReqs, EnrollUpsert(r) PROVE TfInv'
    BY <1>1, <1>4, EnrollUpsertKeeps
<1>5. ASSUME NEW r \in TfReqs, Confirm(r) PROVE TfInv'
    <2>1. "confirm" \in TfLabels
        BY DEF TfLabels
    <2>2. proven \subseteq proven' /\ secret.key \in proven'
        BY <1>5 DEF Confirm
    <2> QED
        BY <1>1, <1>2, <1>5, <2>1, <2>2, TfLooks DEF Confirm
<1>6. ASSUME NEW r \in TfReqs, ConfirmUpdate(r) PROVE TfInv'
    BY <1>6, ConfirmUpdateKeeps
<1>7. ASSUME NEW r \in TfReqs, Regenerate(r) PROVE TfInv'
    <2>1. "clear" \in TfLabels
        BY DEF TfLabels
    <2> QED
        BY <1>2, <1>7, <2>1, TfLooks DEF Regenerate
<1>8. ASSUME NEW r \in TfReqs, ClearCodes(r) PROVE TfInv'
    BY <1>8, ClearCodesKeeps
<1>9. ASSUME NEW r \in TfReqs, InsertCode(r) PROVE TfInv'
    BY <1>1, <1>9, InsertCodeKeeps
<1>10. ASSUME NEW r \in TfReqs, NEW op \in {"verify", "disenroll"}, CheckCode(r, op)
       PROVE  TfInv'
    <2>1. "delete" \in TfLabels /\ "match" \in TfLabels
        BY DEF TfLabels
    <2>2. CASE TfGo(r, TfIdle) /\ proven \subseteq proven'
        BY <1>1, <1>10, <2>2, TfLooks DEF CheckCode
    <2>3. CASE TfGo(r, [TfIdle EXCEPT !.at = "delete", !.op = op, !.saw = secret])
               /\ proven \subseteq proven'
        BY <1>2, <1>10, <2>1, <2>3, TfLooks DEF CheckCode
    <2>4. CASE TfGo(r, [TfIdle EXCEPT !.at = "match", !.op = op, !.saw = secret])
               /\ proven \subseteq proven'
        BY <1>2, <1>10, <2>1, <2>4, TfLooks DEF CheckCode
    <2> QED
        BY <1>10, <2>2, <2>3, <2>4 DEF CheckCode
<1>11. ASSUME NEW r \in TfReqs, MatchCode(r) PROVE TfInv'
    <2>1. CASE TfGo(r, TfIdle)
        BY <1>1, <1>11, <2>1, TfLooks DEF MatchCode
    <2>2. ASSUME NEW c \in Unused, TfGo(r, [tfReq[r] EXCEPT !.at = "mark", !.code = c])
          PROVE  TfInv'
        <3>1. c \in Codes /\ Made(c)
            BY DEF Unused, TfInv, TfTypeOK, CodesMade
        <3>2. /\ [tfReq[r] EXCEPT !.at = "mark", !.code = c] \in TfRecords
              /\ [tfReq[r] EXCEPT !.at = "mark", !.code = c].at = "mark"
              /\ [tfReq[r] EXCEPT !.at = "mark", !.code = c].code = c
            BY <3>1 DEF TfInv, TfTyped, TfRecords, TfLabels
        <3> QED
            BY <1>11, <2>2, <3>1, <3>2, TfLooks DEF MatchCode
    <2> QED
        BY <1>11, <2>1, <2>2 DEF MatchCode
<1>12. ASSUME NEW r \in TfReqs, MarkCode(r) PROVE TfInv'
    BY <1>1, <1>12, MarkCodeKeeps
<1>13. ASSUME NEW r \in TfReqs, DisenrollDelete(r) PROVE TfInv'
    BY <1>1, <1>13, DisenrollKeeps
<1>14. CASE UNCHANGED tfVars
    BY <1>14 DEF tfVars, TfInv, TfTypeOK, TfTyped, EnrolLooked, ConfirmHolds,
       ConfirmedWasProven, CodesMade, Made, BatchesApart, AcceptedIsUsed, LastBatchOnly, TfAt
<1> QED
    BY <1>3, <1>4, <1>5, <1>6, <1>7, <1>8, <1>9, <1>10, <1>11, <1>12, <1>13, <1>14
    DEF TfNext

\* Nothing is enrolled at the start.
LEMMA TfStart ==
    ASSUME TfInit
    PROVE  TfInv
<1>1. /\ NoRow \in [key : 0 .. MaxSecrets, confirmed : BOOLEAN] /\ NoRow.confirmed = FALSE
      /\ secret = NoRow /\ DOMAIN codes = {}
    BY TfAssumption DEF NoRow, TfInit
<1>2. TfIdle \in TfRecords /\ TfIdle.at = "idle"
    BY <1>1, TfAssumption DEF TfIdle, TfRecords, TfLabels
<1>3. \A r \in TfReqs : tfReq[r] = TfIdle
    BY DEF TfInit
<1>4. TfTypeOK
    BY <1>1, <1>2, <1>3 DEF TfTypeOK, TfLabels
<1>5. TfTyped
    <2>1. secrets \in 0 .. MaxSecrets /\ batches \in 0 .. MaxBatches
        BY TfAssumption DEF TfInit
    <2>2. uses \in [Codes -> Nat] /\ tfReq \in [TfReqs -> TfRecords]
        BY <1>2 DEF TfInit
    <2>3. crossed \in BOOLEAN /\ mixed \in BOOLEAN
        BY DEF TfInit
    <2> QED
        BY <1>2, <1>3, <2>1, <2>2, <2>3 DEF TfTyped, TfAt
<1>6. EnrolLooked /\ ConfirmHolds /\ ConfirmedWasProven /\ BatchesApart
    BY <1>1, <1>2, <1>3 DEF EnrolLooked, ConfirmHolds, ConfirmedWasProven, BatchesApart, TfAt
<1>7. CodesMade /\ AcceptedIsUsed /\ LastBatchOnly
    BY <1>1, <1>2, <1>3 DEF CodesMade, AcceptedIsUsed, LastBatchOnly, TfAt, TfInit
<1> QED
    BY <1>4, <1>5, <1>6, <1>7 DEF TfInv

\* The codes in the table are of one batch.
LEMMA TfOneBatch ==
    ASSUME TfInv
    PROVE  OneBatch
<1>1. batches \in 0 .. MaxBatches
    BY DEF TfInv, TfTyped
<1> QED
    BY <1>1 DEF TfInv, LastBatchOnly, OneBatch

\* 2FA goes off only by a disenrolment, or an enrolment that looked before.
LEMMA TfKept ==
    ASSUME TfInv, TfNext, secret.confirmed, ~secret'.confirmed
    PROVE  \E r \in TfReqs : TfAt(r, "delete") \/ (TfAt(r, "upsert") /\ ~tfReq[r].saw.confirmed)
<1>1. secret' # secret
    OBVIOUS
<1>2. ASSUME NEW r \in TfReqs, ConfirmUpdate(r) PROVE FALSE
    BY <1>2 DEF ConfirmUpdate
<1>3. PICK r \in TfReqs : EnrollUpsert(r) \/ DisenrollDelete(r)
    BY <1>1, <1>2 DEF TfNext, Enroll, Confirm, Regenerate, ClearCodes, InsertCode,
       CheckCode, MatchCode, MarkCode
<1> QED
    BY <1>3 DEF EnrollUpsert, DisenrollDelete, TfInv, EnrolLooked

\* A code that was accepted before is matched by nobody.
LEMMA TfNotMatched ==
    ASSUME TfInv, TfNext, NEW r \in TfReqs, TfAt(r, "match"), tfReq'[r].at = "mark"
    PROVE  uses[tfReq'[r].code] = 0
<1>1. PICK q \in TfReqs :
          \/ Enroll(q) \/ EnrollUpsert(q) \/ Confirm(q) \/ ConfirmUpdate(q)
          \/ Regenerate(q) \/ ClearCodes(q) \/ InsertCode(q)
          \/ \E op \in {"verify", "disenroll"} : CheckCode(q, op)
          \/ MatchCode(q) \/ MarkCode(q) \/ DisenrollDelete(q)
    BY DEF TfNext
<1>2. tfReq \in [TfReqs -> TfRecords] /\ tfReq[r].at = "match"
    BY DEF TfInv, TfTyped, TfAt
<1>3. q = r
    <2> SUFFICES ASSUME q # r PROVE FALSE
        OBVIOUS
    <2>1. tfReq'[r] = tfReq[r]
        BY <1>1, <1>2 DEF Enroll, EnrollUpsert, Confirm, ConfirmUpdate, Regenerate,
           ClearCodes, InsertCode, CheckCode, MatchCode, MarkCode, DisenrollDelete, TfGo
    <2> QED
        BY <1>2, <2>1
<1>4. MatchCode(r)
    BY <1>1, <1>2, <1>3 DEF Enroll, EnrollUpsert, Confirm, ConfirmUpdate, Regenerate,
       ClearCodes, InsertCode, CheckCode, MarkCode, DisenrollDelete, TfAt
<1>5. TfIdle.at = "idle"
    BY DEF TfIdle
<1>6. PICK c \in Unused : TfGo(r, [tfReq[r] EXCEPT !.at = "mark", !.code = c])
    BY <1>2, <1>4, <1>5 DEF MatchCode, TfGo
<1>7. tfReq'[r].code = c
    BY <1>2, <1>6 DEF TfGo, TfRecords
<1> QED
    BY <1>7 DEF TfInv, AcceptedIsUsed, Unused

-------------------------------------------------------------------------------
(* Erasure *)

ErRows == [admin : BOOLEAN, cancelled : BOOLEAN, executed : BOOLEAN]
ErJobs == [state : {"none", "delayed", "active", "done", "failed"}, row : Nat, attempts : Nat]
ErWorkers == [at : {"idle", "find", "anonymize", "mark"}, row : Nat]
ErRecords == [at : {"idle", "insert", "enqueue", "cancel", "remove"}, admin : BOOLEAN, row : Nat]

ErTyped ==
    /\ rows \in Seq(ErRows) /\ job \in ErJobs /\ worker \in ErWorkers
    /\ erReq \in [ErReqs -> ErRecords]
    /\ \A r \in ErReqs : ErAt(r, "enqueue") => erReq[r].row \in 1 .. Len(rows)

\* The worker is at the active job, and a job is for a row of the table.
WorkerHasJob ==
    /\ (worker.at # "idle") <=> (job.state = "active")
    /\ worker.row = IF worker.at = "idle" THEN 0 ELSE job.row
    /\ IF job.state = "none" THEN job.row = 0 ELSE job.row \in 1 .. Len(rows)
    /\ job.attempts <= MaxAttempts
    /\ job.state = "delayed" => job.attempts < MaxAttempts
    /\ Len(rows) <= MaxErasures

\* The worker anonymises only an account somebody still wants erased.
AnonymizeAsked ==
    worker.at = "anonymize" =>
        (\E i \in 1 .. Len(rows) : ~rows[i].cancelled) \/ "late cancel" \in causes

\* Nothing having gone wrong, at most one request is pending.
OnePending == causes = {} => \A i, j \in Pending : i = j

\* ... and it has its job, or a handler about to add one.
PendingCovered ==
    causes = {} =>
        \A i \in Pending :
            \/ job.state \in {"delayed", "active"} /\ job.row = i
            \/ \E r \in ErReqs : ErAt(r, "enqueue") /\ erReq[r].row = i

ErInv ==
    /\ ErTyped /\ WorkerHasJob /\ AnonymizeAsked
    /\ OnePending /\ PendingCovered
    /\ ErasedWasAsked /\ AdminRequestsStand

\* One request takes another record.
LEMMA ErTakes ==
    ASSUME erReq \in [ErReqs -> ErRecords], NEW r \in ErReqs, NEW rec \in ErRecords, ErGo(r, rec)
    PROVE  /\ erReq' \in [ErReqs -> ErRecords]
           /\ erReq'[r] = rec
           /\ \A q \in ErReqs \ {r} : erReq'[q] = erReq[q]
BY DEF ErGo

\* What is pending, row by row.
LEMMA PendingRows ==
    ASSUME ErTyped
    PROVE  /\ Len(rows) \in Nat /\ DOMAIN rows = 1 .. Len(rows)
           /\ \A i \in 1 .. Len(rows) : rows[i] \in ErRows
           /\ \A i : i \in Pending <=>
                i \in 1 .. Len(rows) /\ ~rows[i].cancelled /\ ~rows[i].executed
           /\ 0 \notin Pending
           /\ ErIdle \in ErRecords /\ ErIdle.at = "idle"
<1>1. Len(rows) \in Nat /\ DOMAIN rows = 1 .. Len(rows)
      /\ \A i \in 1 .. Len(rows) : rows[i] \in ErRows
    BY DEF ErTyped
<1>2. 0 \notin 1 .. Len(rows)
    BY <1>1
<1>3. ErIdle \in ErRecords /\ ErIdle.at = "idle"
    BY DEF ErIdle, ErRecords
<1> QED
    BY <1>1, <1>2, <1>3 DEF Pending

\* The newest pending row is pending; with one row pending, it is that one.
LEMMA LatestIsPending ==
    ASSUME ErTyped, NEW i \in Pending, \A j \in Pending : j = i
    PROVE  LatestPending = i
<1>1. i <= i
    BY PendingRows
<1>2. \E k \in Pending : \A j \in Pending : j <= k
    BY <1>1
<1>3. (CHOOSE k \in Pending : \A j \in Pending : j <= k) \in Pending
    BY <1>2
<1> QED
    BY <1>3 DEF LatestPending

\* Of the rows 1 .. n, some are pending: one of them is the newest.
LEMMA LargestExists ==
    ASSUME NEW n \in Nat, NEW S \in SUBSET (1 .. n), S # {}
    PROVE  \E i \in S : \A j \in S : j <= i
<1> DEFINE T == {k \in 0 .. n : n - k \in S}
<1>1. T \in SUBSET Nat /\ T # {}
    <2>1. \A i \in S : n - i \in 0 .. n /\ n - (n - i) = i
        OBVIOUS
    <2>2. PICK i \in S : TRUE
        OBVIOUS
    <2>3. n - i \in T
        BY <2>1
    <2>4. \A k \in T : k \in Nat
        OBVIOUS
    <2> HIDE DEF T
    <2> QED
        BY <2>3, <2>4
<1>2. PICK k \in T : \A j \in T : ~(<<j, k>> \in OpToRel(<, Nat))
    <2> HIDE DEF T
    <2> QED
        BY <1>1, NatLessThanWellFounded, WFMin
<1>3. \A j \in Nat : j < k => <<j, k>> \in OpToRel(<, Nat)
    BY SMT DEF OpToRel
<1>4. \A j \in T : ~(j < k)
    <2> HIDE DEF T
    <2> QED
        BY <1>1, <1>2, <1>3, Zenon
<1>5. \A j \in S : n - j \in T
    <2>1. \A i \in S : n - i \in 0 .. n /\ n - (n - i) = i
        OBVIOUS
    <2> QED
        BY <2>1
<1>6. n - k \in S /\ \A j \in S : j <= n - k
    BY <1>4, <1>5
<1> QED
    BY <1>6

\* A step that writes no row and lets no request become or stop being one about
\* to add a job.
LEMMA RowsRest ==
    ASSUME ErInv, UNCHANGED rows, causes \subseteq causes', ErTyped', WorkerHasJob',
           AnonymizeAsked', erased' => erased \/ worker.at = "anonymize",
           causes' = {} => PendingCovered'
    PROVE  ErInv'
<1> USE DEF ErInv
<1>1. Pending' = Pending
    BY DEF Pending
<1>2. OnePending'
    BY <1>1 DEF OnePending
<1>3. PendingCovered'
    BY DEF PendingCovered
<1>4. ErasedWasAsked'
    BY PendingRows DEF ErasedWasAsked, AnonymizeAsked
<1>5. AdminRequestsStand'
    BY DEF AdminRequestsStand
<1> QED
    BY <1>2, <1>3, <1>4, <1>5

\* A row is added.
LEMMA InsertErasureKeeps ==
    ASSUME ErInv, NEW r \in ErReqs, InsertErasure(r)
    PROVE  ErInv'
<1> USE DEF ErInv
<1> DEFINE new == [admin |-> erReq[r].admin, cancelled |-> FALSE, executed |-> FALSE]
           rec == [erReq[r] EXCEPT !.at = "enqueue", !.row = Len(rows) + 1]
<1>1. /\ ErAt(r, "insert") /\ Len(rows) < MaxErasures
      /\ rows' = Append(rows, new)
      /\ causes' = causes \cup (IF Pending # {} THEN {"crossed"} ELSE {})
      /\ ErGo(r, rec)
      /\ UNCHANGED <<job, worker, erased>>
    BY DEF InsertErasure
<1>2. new \in ErRows /\ ~new.cancelled /\ ~new.executed
    BY DEF ErRows, ErTyped, ErRecords
<1>3. Len(rows) \in Nat /\ Len(rows) + 1 \in Nat
    BY PendingRows
<1>4. rec \in ErRecords /\ rec.at = "enqueue" /\ rec.row = Len(rows) + 1
    BY <1>3 DEF ErTyped, ErRecords
<1> HIDE DEF new, rec
<1>5. /\ erReq' \in [ErReqs -> ErRecords] /\ erReq'[r] = rec
      /\ \A q \in ErReqs \ {r} : erReq'[q] = erReq[q]
    BY <1>1, <1>4, ErTakes DEF ErTyped
<1>6. /\ rows' \in Seq(ErRows) /\ Len(rows') = Len(rows) + 1
      /\ rows'[Len(rows) + 1] = new
      /\ \A i \in 1 .. Len(rows) : rows'[i] = rows[i]
    BY <1>1, <1>2, <1>3 DEF ErTyped
<1>7. ErTyped'
    <2>1. \A i \in 1 .. Len(rows) + 1 : i \in 1 .. Len(rows')
        BY <1>3, <1>6
    <2>2. \A q \in ErReqs : ErAt(q, "enqueue")' => erReq'[q].row \in 1 .. Len(rows')
        BY <1>3, <1>4, <1>5, <2>1 DEF ErTyped, ErAt
    <2> QED
        BY <1>1, <1>5, <1>6, <2>2 DEF ErTyped
<1>8. WorkerHasJob'
    <2>1. \A i \in 1 .. Len(rows) : i \in 1 .. Len(rows')
        BY <1>3, <1>6
    <2>2. Len(rows') <= MaxErasures
        BY <1>1, <1>3, <1>6, ErAssumption
    <2> QED
        BY <1>1, <2>1, <2>2 DEF WorkerHasJob
<1>9. \A i \in 1 .. Len(rows') : i \in 1 .. Len(rows) \/ i = Len(rows) + 1
    BY <1>3, <1>6
<1>10. Len(rows) + 1 \in 1 .. Len(rows') /\ 1 .. Len(rows) \subseteq 1 .. Len(rows')
    BY <1>3, <1>6
<1>11. AnonymizeAsked' /\ ErasedWasAsked'
    <2>1. \E i \in 1 .. Len(rows') : ~rows'[i].cancelled
        BY <1>2, <1>6, <1>10
    <2>2. DOMAIN rows' = 1 .. Len(rows')
        BY <1>6
    <2> QED
        BY <2>1, <2>2 DEF AnonymizeAsked, ErasedWasAsked
<1>12. AdminRequestsStand'
    <2>1. DOMAIN rows' = 1 .. Len(rows')
        BY <1>6
    <2> QED
        BY <1>2, <1>6, <1>9, <2>1, PendingRows DEF AdminRequestsStand
<1>13. causes' = {} => Pending = {} /\ Pending' \subseteq {Len(rows) + 1}
    <2>1. causes' = {} => Pending = {}
        BY <1>1
    <2>2. \A i \in Pending' : i \in 1 .. Len(rows') /\ ~rows'[i].cancelled /\ ~rows'[i].executed
        BY DEF Pending
    <2> QED
        BY <1>6, <1>9, <2>1, <2>2, PendingRows
<1>14. OnePending' /\ PendingCovered'
    BY <1>4, <1>5, <1>13 DEF OnePending, PendingCovered, ErAt
<1> QED
    BY <1>7, <1>8, <1>11, <1>12, <1>14

\* The job is added, unless the queue still knows one of the account.
LEMMA EnqueueErasureKeeps ==
    ASSUME ErInv, NEW r \in ErReqs, EnqueueErasure(r)
    PROVE  ErInv'
<1> USE DEF ErInv
<1>1. /\ ErAt(r, "enqueue") /\ ErGo(r, ErIdle) /\ UNCHANGED <<rows, worker, erased>>
      /\ causes \subseteq causes'
    BY DEF EnqueueErasure
<1>2. /\ erReq' \in [ErReqs -> ErRecords] /\ erReq'[r] = ErIdle
      /\ \A q \in ErReqs \ {r} : erReq'[q] = erReq[q]
    BY <1>1, ErTakes, PendingRows DEF ErTyped
<1>3. CASE job.state = "none"
    <2>1. job' = [state |-> "delayed", row |-> erReq[r].row, attempts |-> 0] /\ causes' = causes
        BY <1>3 DEF EnqueueErasure
    <2>2. erReq[r].row \in Nat
        BY DEF ErTyped, ErRecords
    <2>3. job' \in ErJobs /\ job'.state = "delayed" /\ job'.row = erReq[r].row /\ job'.attempts = 0
        BY <2>1, <2>2 DEF ErJobs
    <2>4. ErTyped'
        BY <1>1, <1>2, <2>3, PendingRows DEF ErTyped, ErAt
    <2>5. WorkerHasJob'
        <3>1. 0 < MaxAttempts /\ 0 <= MaxAttempts
            BY ErAssumption
        <3>2. erReq[r].row \in 1 .. Len(rows)
            BY <1>1 DEF ErTyped
        <3>3. worker.at = "idle" /\ worker.row = 0 /\ Len(rows) <= MaxErasures
            BY <1>3 DEF WorkerHasJob
        <3> QED
            BY <1>1, <2>3, <3>1, <3>2, <3>3 DEF WorkerHasJob
    <2>6. AnonymizeAsked'
        BY <1>1, <2>1 DEF AnonymizeAsked
    <2>7. Pending' = Pending
        BY <1>1 DEF Pending
    <2>8. PendingCovered'
        <3> SUFFICES ASSUME causes = {}, NEW i \in Pending
                     PROVE  \/ job'.state \in {"delayed", "active"} /\ job'.row = i
                            \/ \E q \in ErReqs : ErAt(q, "enqueue")' /\ erReq'[q].row = i
            BY <2>1, <2>7 DEF PendingCovered
        <3>1. PICK q \in ErReqs : ErAt(q, "enqueue") /\ erReq[q].row = i
            BY <1>3 DEF PendingCovered
        <3> QED
            BY <1>2, <2>3, <3>1 DEF ErAt
    <2> QED
        BY <1>1, <2>4, <2>5, <2>6, <2>8, RowsRest
<1>4. CASE job.state # "none"
    <2>1. job' = job /\ causes' = causes \cup {"ignored"}
        BY <1>4 DEF EnqueueErasure
    <2>2. ErTyped' /\ WorkerHasJob' /\ AnonymizeAsked'
        BY <1>1, <1>2, <2>1, PendingRows DEF ErTyped, ErAt, WorkerHasJob, AnonymizeAsked
    <2> QED
        BY <1>1, <2>1, <2>2, RowsRest
<1> QED
    BY <1>3, <1>4

\* A request takes another record, and is about to add no job before and after.
LEMMA ErRests ==
    ASSUME ErInv, NEW r \in ErReqs, NEW rec \in ErRecords, ErGo(r, rec),
           UNCHANGED <<rows, job, worker, erased>>, causes \subseteq causes',
           causes' = {} => ~ErAt(r, "enqueue"), rec.at # "enqueue"
    PROVE  ErInv'
<1> USE DEF ErInv
<1>1. /\ erReq' \in [ErReqs -> ErRecords] /\ erReq'[r] = rec
      /\ \A q \in ErReqs \ {r} : erReq'[q] = erReq[q]
    BY ErTakes DEF ErTyped
<1>2. ErTyped' /\ WorkerHasJob' /\ AnonymizeAsked'
    BY <1>1 DEF ErTyped, ErAt, WorkerHasJob, AnonymizeAsked
<1>3. causes' = {} => PendingCovered'
    <2>1. Pending' = Pending
        BY DEF Pending
    <2>2. causes' = {} => causes = {}
        OBVIOUS
    <2> QED
        BY <1>1, <2>1, <2>2 DEF PendingCovered, ErAt
<1> QED
    BY <1>2, <1>3, RowsRest

\* The user's own rows are cancelled.
LEMMA CancelRowsKeeps ==
    ASSUME ErInv, NEW r \in ErReqs, CancelRows(r)
    PROVE  ErInv'
<1> USE DEF ErInv
<1> DEFINE rec == [ErIdle EXCEPT !.at = "remove"]
<1>1. /\ ErAt(r, "cancel") /\ ErGo(r, rec) /\ UNCHANGED <<job, worker, erased>>
      /\ rows' = [i \in DOMAIN rows |->
                    IF i \in Pending /\ ~rows[i].admin THEN [rows[i] EXCEPT !.cancelled = TRUE]
                    ELSE rows[i]]
      /\ causes' = causes \cup (IF worker.at # "idle" \/ erased THEN {"late cancel"} ELSE {})
    BY DEF CancelRows
<1>2. rec \in ErRecords /\ rec.at = "remove"
    BY DEF ErIdle, ErRecords
<1> HIDE DEF rec
<1>3. /\ erReq' \in [ErReqs -> ErRecords] /\ erReq'[r] = rec
      /\ \A q \in ErReqs \ {r} : erReq'[q] = erReq[q]
    BY <1>1, <1>2, ErTakes DEF ErTyped
<1>4. /\ DOMAIN rows' = 1 .. Len(rows)
      /\ \A i \in 1 .. Len(rows) :
            /\ rows'[i] \in ErRows
            /\ rows'[i].admin = rows[i].admin /\ rows'[i].executed = rows[i].executed
            /\ rows[i].cancelled => rows'[i].cancelled
            /\ rows[i].admin => rows'[i].cancelled = rows[i].cancelled
    <2>1. DOMAIN rows = 1 .. Len(rows) /\ \A i \in 1 .. Len(rows) : rows[i] \in ErRows
        BY PendingRows
    <2> QED
        BY <1>1, <2>1 DEF ErRows
<1>5. rows' \in Seq(ErRows) /\ Len(rows') = Len(rows)
    <2>1. Len(rows) \in Nat
        BY PendingRows
    <2>2. rows' \in [1 .. Len(rows) -> ErRows]
        BY <1>1, <1>4, PendingRows
    <2> QED
        BY <2>1, <2>2
<1>6. ErTyped' /\ WorkerHasJob'
    BY <1>1, <1>2, <1>3, <1>5 DEF ErTyped, ErAt, WorkerHasJob
<1>7. AnonymizeAsked' /\ ErasedWasAsked'
    BY <1>1 DEF AnonymizeAsked, ErasedWasAsked
<1>8. AdminRequestsStand'
    BY <1>4, PendingRows DEF AdminRequestsStand
<1>9. Pending' \subseteq Pending
    <2>1. \A i \in Pending' : i \in 1 .. Len(rows) /\ ~rows'[i].cancelled /\ ~rows'[i].executed
        BY <1>5 DEF Pending
    <2> QED
        BY <1>4, <2>1, PendingRows
<1>10. OnePending' /\ PendingCovered'
    <2>1. causes' = {} => causes = {}
        BY <1>1
    <2>2. OnePending'
        BY <1>9, <2>1 DEF OnePending
    <2>3. PendingCovered'
        BY ZenonT(60), <1>1, <1>3, <1>9, <2>1 DEF PendingCovered, ErAt
    <2> QED
        BY <2>2, <2>3
<1> QED
    BY <1>6, <1>7, <1>8, <1>10

\* The account's job is removed, unless it runs.
LEMMA RemoveJobKeeps ==
    ASSUME ErInv, NEW r \in ErReqs, RemoveJob(r)
    PROVE  ErInv'
<1> USE DEF ErInv
<1>1. /\ ErAt(r, "remove") /\ ErGo(r, ErIdle) /\ UNCHANGED <<rows, worker, erased>>
      /\ job' = IF job.state = "active" THEN job ELSE NoJob
      /\ causes' = causes \cup (IF job.row \in Pending THEN {"other's job"} ELSE {})
    BY DEF RemoveJob
<1>2. /\ erReq' \in [ErReqs -> ErRecords] /\ erReq'[r] = ErIdle
      /\ \A q \in ErReqs \ {r} : erReq'[q] = erReq[q]
    BY <1>1, ErTakes, PendingRows DEF ErTyped
<1>3. NoJob \in ErJobs /\ NoJob.state = "none" /\ NoJob.row = 0 /\ NoJob.attempts = 0
    BY DEF NoJob, ErJobs
<1>4. ErTyped'
    BY <1>1, <1>2, <1>3, PendingRows DEF ErTyped, ErAt
<1>5. WorkerHasJob'
    <2>1. CASE job.state = "active"
        BY <1>1, <2>1 DEF WorkerHasJob
    <2>2. CASE job.state # "active"
        <3>1. job' = NoJob
            BY <1>1, <2>2
        <3>2. 0 <= MaxAttempts
            BY ErAssumption
        <3>3. (worker.at # "idle") <=> (job.state = "active")
            BY DEF WorkerHasJob
        <3>4. worker.at = "idle"
            BY <2>2, <3>3
        <3> QED
            BY <1>1, <1>3, <3>1, <3>2, <3>4 DEF WorkerHasJob
    <2> QED
        BY <2>1, <2>2
<1>6. AnonymizeAsked'
    BY <1>1 DEF AnonymizeAsked
<1>7. causes' = {} => PendingCovered'
    <2>1. Pending' = Pending
        BY <1>1 DEF Pending
    <2>2. causes' = {} => causes = {} /\ job.row \notin Pending
        BY <1>1
    <2> QED
        BY ZenonT(60), <1>1, <1>2, <2>1, <2>2 DEF PendingCovered, ErAt
<1> QED
    BY <1>1, <1>4, <1>5, <1>6, <1>7, RowsRest

\* The worker goes on with its job, or gives it up for want of a request.
LEMMA WorkerMoves ==
    ASSUME ErInv, WorkerStart \/ WorkerFind \/ WorkerAnonymize \/ WorkerFail
    PROVE  ErInv'
<1> USE DEF ErInv
<1>1. UNCHANGED <<rows, erReq>> /\ causes \subseteq causes'
    BY DEF WorkerStart, WorkerFind, WorkerAnonymize, WorkerFail
<1>2. Pending' = Pending
    BY <1>1 DEF Pending
<1>3. erased' => erased \/ worker.at = "anonymize"
    BY DEF WorkerStart, WorkerFind, WorkerAnonymize, WorkerFail
<1>4. job.row \in Nat /\ job.attempts \in Nat /\ MaxAttempts \in Nat
    BY ErAssumption DEF ErTyped, ErJobs
<1>5. CASE WorkerStart
    <2>1. /\ job.state = "delayed" /\ worker.at = "idle" /\ UNCHANGED <<erased, causes>>
          /\ job' = [job EXCEPT !.state = "active", !.attempts = @ + 1]
          /\ worker' = [at |-> "find", row |-> job.row]
        BY <1>5 DEF WorkerStart
    <2>2. /\ job' \in ErJobs /\ job'.state = "active" /\ job'.row = job.row
          /\ job'.attempts = job.attempts + 1
          /\ worker' \in ErWorkers /\ worker'.at = "find" /\ worker'.row = job.row
        <3>1. job.attempts + 1 \in Nat
            BY <1>4
        <3>2. job' \in ErJobs /\ job'.state = "active" /\ job'.row = job.row
            BY <2>1, <3>1 DEF ErTyped, ErJobs
        <3>3. job'.attempts = job.attempts + 1
            BY <2>1 DEF ErTyped, ErJobs
        <3>4. worker' \in ErWorkers /\ worker'.at = "find" /\ worker'.row = job.row
            BY <1>4, <2>1 DEF ErWorkers
        <3> QED
            BY <3>2, <3>3, <3>4
    <2>3. ErTyped' /\ AnonymizeAsked'
        BY <1>1, <2>2 DEF ErTyped, ErAt, AnonymizeAsked
    <2>4. WorkerHasJob'
        BY <1>1, <1>4, <2>1, <2>2 DEF WorkerHasJob
    <2>5. PendingCovered'
        BY <1>1, <1>2, <2>1, <2>2 DEF PendingCovered, ErAt
    <2> QED
        BY <1>1, <1>3, <2>3, <2>4, <2>5, RowsRest
<1>6. CASE WorkerFind
    <2>1. worker.at = "find" /\ UNCHANGED <<erased, causes>>
        BY <1>6 DEF WorkerFind
    <2>2. job.state = "active" /\ worker.row = job.row /\ job.row \in 1 .. Len(rows)
        BY <2>1 DEF WorkerHasJob
    <2>3. CASE LatestPending = worker.row
        <3>1. worker' = [worker EXCEPT !.at = "anonymize"] /\ job' = job
            BY <1>6, <2>3 DEF WorkerFind
        <3>2. worker' \in ErWorkers /\ worker'.at = "anonymize" /\ worker'.row = worker.row
            BY <3>1 DEF ErTyped, ErWorkers
        <3>3. worker.row \in Pending
            <4>1. worker.row # 0
                BY <2>2, PendingRows
            <4>2. Pending # {}
                BY <2>3, <4>1 DEF LatestPending
            <4>3. \E i \in Pending : \A j \in Pending : j <= i
                <5>1. Len(rows) \in Nat /\ Pending \in SUBSET (1 .. Len(rows))
                    BY PendingRows DEF Pending
                <5> QED
                    BY <5>1, <4>2, LargestExists
            <4> QED
                BY <2>3, <4>2, <4>3 DEF LatestPending
        <3>4. ErTyped' /\ WorkerHasJob'
            BY <1>1, <2>1, <3>1, <3>2 DEF ErTyped, ErAt, WorkerHasJob
        <3>5. AnonymizeAsked'
            BY <1>1, <3>3, PendingRows DEF AnonymizeAsked
        <3>6. PendingCovered'
            BY <1>1, <1>2, <2>1, <3>1 DEF PendingCovered, ErAt
        <3> QED
            BY <1>1, <1>3, <3>4, <3>5, <3>6, RowsRest
    <2>4. CASE LatestPending # worker.row
        <3>1. worker' = [at |-> "idle", row |-> 0] /\ job' = [job EXCEPT !.state = "done"]
            BY <1>6, <2>4 DEF WorkerFind
        <3>2. /\ worker' \in ErWorkers /\ worker'.at = "idle" /\ worker'.row = 0
              /\ job' \in ErJobs /\ job'.state = "done" /\ job'.row = job.row
              /\ job'.attempts = job.attempts
            BY <3>1 DEF ErTyped, ErWorkers, ErJobs
        <3>3. ErTyped' /\ WorkerHasJob' /\ AnonymizeAsked'
            BY <1>1, <2>2, <3>2 DEF ErTyped, ErAt, WorkerHasJob, AnonymizeAsked
        <3>4. causes' = {} => PendingCovered'
            <4> SUFFICES ASSUME causes = {}, NEW i \in Pending
                         PROVE  \E q \in ErReqs : ErAt(q, "enqueue") /\ erReq[q].row = i
                BY <1>1, <1>2, <2>1 DEF PendingCovered, ErAt
            <4>1. LatestPending = i
                BY LatestIsPending DEF OnePending
            <4>2. job.row # i
                BY <2>2, <2>4, <4>1
            <4> QED
                BY <4>2 DEF PendingCovered
        <3> QED
            BY <1>1, <1>3, <3>3, <3>4, RowsRest
    <2> QED
        BY <2>3, <2>4
<1>7. CASE WorkerAnonymize
    <2>1. /\ worker.at = "anonymize" /\ job' = job /\ causes' = causes
          /\ worker' = [worker EXCEPT !.at = "mark"]
        BY <1>7 DEF WorkerAnonymize
    <2>2. worker' \in ErWorkers /\ worker'.at = "mark" /\ worker'.row = worker.row
        BY <2>1 DEF ErTyped, ErWorkers
    <2>3. ErTyped' /\ WorkerHasJob' /\ AnonymizeAsked'
        BY <1>1, <2>1, <2>2 DEF ErTyped, ErAt, WorkerHasJob, AnonymizeAsked
    <2>4. PendingCovered'
        BY <1>1, <1>2, <2>1 DEF PendingCovered, ErAt
    <2> QED
        BY <1>1, <1>3, <2>3, <2>4, RowsRest
<1>8. CASE WorkerFail
    <2>1. /\ worker.at # "idle" /\ worker' = [at |-> "idle", row |-> 0]
          /\ \/ job.attempts < MaxAttempts /\ job' = [job EXCEPT !.state = "delayed"]
             \/ job' = [job EXCEPT !.state = "failed"] /\ causes' = causes \cup {"attempts"}
        BY <1>8 DEF WorkerFail
    <2>2. /\ worker' \in ErWorkers /\ worker'.at = "idle" /\ worker'.row = 0
          /\ job' \in ErJobs /\ job'.state \in {"delayed", "failed"} /\ job'.row = job.row
          /\ job'.attempts = job.attempts
          /\ job'.state = "delayed" => job.attempts < MaxAttempts
          /\ causes' = {} => job'.state = "delayed"
        BY <2>1 DEF ErTyped, ErWorkers, ErJobs
    <2>3. ErTyped' /\ WorkerHasJob' /\ AnonymizeAsked'
        BY <1>1, <2>1, <2>2 DEF ErTyped, ErAt, WorkerHasJob, AnonymizeAsked
    <2>4. causes' = {} => PendingCovered'
        BY <1>1, <1>2, <2>2 DEF PendingCovered, ErAt
    <2> QED
        BY <1>1, <1>3, <2>3, <2>4, RowsRest
<1> QED
    BY <1>5, <1>6, <1>7, <1>8

\* The request is marked executed.
LEMMA WorkerMarkKeeps ==
    ASSUME ErInv, WorkerMark
    PROVE  ErInv'
<1> USE DEF ErInv
<1>1. /\ worker.at = "mark" /\ rows' = [rows EXCEPT ![worker.row].executed = TRUE]
      /\ worker' = [at |-> "idle", row |-> 0] /\ job' = [job EXCEPT !.state = "done"]
      /\ UNCHANGED <<erased, erReq, causes>>
    BY DEF WorkerMark
<1>2. job.state = "active" /\ worker.row = job.row /\ job.row \in 1 .. Len(rows)
    BY <1>1 DEF WorkerHasJob
<1>3. /\ worker' \in ErWorkers /\ worker'.at = "idle" /\ worker'.row = 0
      /\ job' \in ErJobs /\ job'.state = "done" /\ job'.row = job.row
      /\ job'.attempts = job.attempts
    BY <1>1 DEF ErTyped, ErWorkers, ErJobs
<1>4. /\ DOMAIN rows' = 1 .. Len(rows)
      /\ \A i \in 1 .. Len(rows) :
            /\ rows'[i] \in ErRows
            /\ rows'[i].admin = rows[i].admin /\ rows'[i].cancelled = rows[i].cancelled
            /\ rows[i].executed => rows'[i].executed
            /\ i = job.row => rows'[i].executed
    <2>1. DOMAIN rows = 1 .. Len(rows) /\ \A i \in 1 .. Len(rows) : rows[i] \in ErRows
        BY PendingRows
    <2> QED
        BY <1>1, <1>2, <2>1 DEF ErRows
<1>5. rows' \in Seq(ErRows) /\ Len(rows') = Len(rows)
    <2>1. Len(rows) \in Nat
        BY PendingRows
    <2>2. rows' \in [1 .. Len(rows) -> ErRows]
        BY <1>1, <1>4, PendingRows
    <2> QED
        BY <2>1, <2>2
<1>6. ErTyped' /\ WorkerHasJob' /\ AnonymizeAsked'
    BY <1>1, <1>2, <1>3, <1>5 DEF ErTyped, ErAt, WorkerHasJob, AnonymizeAsked
<1>7. ErasedWasAsked' /\ AdminRequestsStand'
    BY <1>1, <1>4, PendingRows DEF ErasedWasAsked, AdminRequestsStand
<1>8. Pending' \subseteq Pending /\ job.row \notin Pending'
    <2>1. \A i \in Pending' : i \in 1 .. Len(rows) /\ ~rows'[i].cancelled /\ ~rows'[i].executed
        BY <1>5 DEF Pending
    <2> QED
        BY <1>2, <1>4, <2>1, PendingRows
<1>9. OnePending' /\ PendingCovered'
    BY <1>1, <1>8 DEF OnePending, PendingCovered, ErAt
<1> QED
    BY <1>6, <1>7, <1>9

\* Every step of the erasure keeps its invariant.
LEMMA ErStep ==
    ASSUME ErInv, [ErNext]_erVars
    PROVE  ErInv'
<1>1. ASSUME NEW r \in ErReqs, NEW admin \in BOOLEAN, AskErasure(r, admin) PROVE ErInv'
    <2> DEFINE rec == [ErIdle EXCEPT !.at = "insert", !.admin = admin]
    <2>1. /\ ErAt(r, "idle") /\ ErGo(r, rec)
          /\ UNCHANGED <<rows, job, worker, erased>> /\ causes' = causes
        BY <1>1 DEF AskErasure
    <2>2. rec \in ErRecords /\ rec.at # "enqueue"
        BY DEF ErIdle, ErRecords
    <2> HIDE DEF rec
    <2> QED
        BY <2>1, <2>2, ErRests DEF ErAt
<1>2. ASSUME NEW r \in ErReqs, CancelErasure(r) PROVE ErInv'
    <2> DEFINE rec == [ErIdle EXCEPT !.at = "cancel"]
    <2>1. /\ ErAt(r, "idle") /\ ErGo(r, rec)
          /\ UNCHANGED <<rows, job, worker, erased>> /\ causes' = causes
        BY <1>2 DEF CancelErasure
    <2>2. rec \in ErRecords /\ rec.at # "enqueue"
        BY DEF ErIdle, ErRecords
    <2> HIDE DEF rec
    <2> QED
        BY <2>1, <2>2, ErRests DEF ErAt
<1>3. ASSUME NEW r \in ErReqs, AskCrash(r) PROVE ErInv'
    <2>1. /\ ErGo(r, ErIdle) /\ UNCHANGED <<rows, job, worker, erased>>
          /\ causes \subseteq causes' /\ causes' # {}
        BY <1>3 DEF AskCrash
    <2> QED
        BY <2>1, PendingRows, ErRests DEF ErInv
<1>4. ASSUME NEW r \in ErReqs,
             \/ InsertErasure(r) \/ EnqueueErasure(r) \/ CancelRows(r) \/ RemoveJob(r)
      PROVE  ErInv'
    BY <1>4, InsertErasureKeeps, EnqueueErasureKeeps, CancelRowsKeeps, RemoveJobKeeps
<1>5. CASE WorkerStart \/ WorkerFind \/ WorkerAnonymize \/ WorkerMark \/ WorkerFail
    BY <1>5, WorkerMoves, WorkerMarkKeeps
<1>6. CASE UNCHANGED erVars
    BY <1>6 DEF erVars, ErInv, ErTyped, WorkerHasJob, AnonymizeAsked, OnePending, PendingCovered,
       ErasedWasAsked, AdminRequestsStand, Pending, ErAt
<1> QED
    BY <1>1, <1>2, <1>3, <1>4, <1>5, <1>6 DEF ErNext

\* At first nobody has asked for anything.
LEMMA ErStart ==
    ASSUME ErInit
    PROVE  ErInv
<1>1. /\ rows = <<>> /\ job = NoJob /\ worker = [at |-> "idle", row |-> 0] /\ erased = FALSE
      /\ erReq = [r \in ErReqs |-> ErIdle]
    BY DEF ErInit
<1>2. rows \in Seq(ErRows) /\ Len(rows) = 0 /\ DOMAIN rows = {} /\ 1 .. 0 = {}
    BY <1>1
<1>3. NoJob \in ErJobs /\ NoJob.state = "none" /\ NoJob.row = 0 /\ NoJob.attempts = 0
    BY DEF NoJob, ErJobs
<1>4. worker \in ErWorkers /\ worker.at = "idle" /\ worker.row = 0
    BY <1>1 DEF ErWorkers
<1>5. ErIdle \in ErRecords /\ ErIdle.at = "idle"
    BY DEF ErIdle, ErRecords
<1>6. ErTyped
    BY <1>1, <1>2, <1>3, <1>4, <1>5 DEF ErTyped, ErAt
<1>7. WorkerHasJob
    <2>1. 0 <= MaxAttempts /\ 0 <= MaxErasures
        BY ErAssumption
    <2> QED
        BY <1>1, <1>2, <1>3, <1>4, <2>1 DEF WorkerHasJob
<1>8. Pending = {}
    BY <1>2 DEF Pending
<1>9. OnePending /\ PendingCovered /\ AnonymizeAsked /\ ErasedWasAsked /\ AdminRequestsStand
    BY <1>1, <1>2, <1>4, <1>8
    DEF OnePending, PendingCovered, AnonymizeAsked, ErasedWasAsked, AdminRequestsStand
<1> QED
    BY <1>6, <1>7, <1>9 DEF ErInv

\* With no handler between its row and its job, a request still pending is
\* covered by the job.
LEMMA ErFollows ==
    ASSUME ErInv
    PROVE  ErasedWasAsked /\ AdminRequestsStand /\ PendingHasJob
<1>1. PendingHasJob
    <2> SUFFICES ASSUME NEW i \in Pending, causes = {},
                        \A r \in ErReqs : ErAt(r, "idle") \/ ErAt(r, "insert")
                 PROVE  job.state \in {"delayed", "active"} /\ job.row \in Pending
        BY DEF PendingHasJob
    <2>1. \A r \in ErReqs : ~ErAt(r, "enqueue")
        BY DEF ErAt
    <2> QED
        BY <2>1 DEF ErInv, PendingCovered
<1> QED
    BY <1>1 DEF ErInv

-------------------------------------------------------------------------------
(* User names *)

UnLabels == {"idle", "insert", "retry", "update", "redirect"}
UnRecords == [at : UnLabels, u : Players \cup {0}, old : 0 .. MaxName, new : 0 .. MaxName,
              try : Nat]

\* What a request holds on its way: a user once it has begun, a new name once it
\* has chosen one, and the old name where it renames.
UnHolds(rec) ==
    /\ rec.at # "idle" => rec.u \in Players
    /\ rec.at \in {"insert", "update", "redirect"} => rec.new \in Names
    /\ rec.at \in {"update", "redirect"} => rec.old \in Names

UnTyped ==
    /\ uname \in [Players -> 0 .. MaxName] /\ redirect \in [Names -> 0 .. MaxName]
    /\ unReq \in [UnReqs -> UnRecords]
    /\ \A r \in UnReqs : UnHolds(unReq[r])

\* As long as no two updates of a profile overlapped, the name an update has
\* read is the one the row still has, and no other update of the row is open.
ReadNameStands ==
    overlapped \/
    \A r \in UnReqs : UnAt(r, "update") =>
        /\ uname[unReq[r].u] = unReq[r].old
        /\ \A q \in UnReqs : UnAt(q, "update") /\ unReq[q].u = unReq[r].u => q = r

\* A name that leads on: somebody bears it, it is redirected, or will be.
LeadsOn(m) ==
    \/ m \in Taken \/ redirect[m] # 0
    \/ \E r \in UnReqs : UnAt(r, "redirect") /\ unReq[r].old = m
    \/ overlapped

\* The name a rename is about to redirect to leads on.
NewNameLeadsOn == \A r \in UnReqs : UnAt(r, "redirect") => LeadsOn(unReq[r].new)

UnInv ==
    /\ UnTyped
    /\ ReadNameStands
    /\ NewNameLeadsOn
    /\ OwnNameFound
    /\ RedirectLeadsOn

\* One request takes another record.
LEMMA UnTakes ==
    ASSUME UnTyped, NEW r \in UnReqs, NEW rec \in UnRecords, UnGo(r, rec), UnHolds(rec),
           uname' \in [Players -> 0 .. MaxName], redirect' \in [Names -> 0 .. MaxName]
    PROVE  /\ UnTyped'
           /\ unReq'[r] = rec
           /\ \A q \in UnReqs \ {r} : unReq'[q] = unReq[q]
<1>1. /\ unReq' \in [UnReqs -> UnRecords]
      /\ unReq'[r] = rec
      /\ \A q \in UnReqs \ {r} : unReq'[q] = unReq[q]
    BY DEF UnTyped, UnGo
<1>2. \A q \in UnReqs : UnHolds(unReq'[q])
    BY <1>1 DEF UnTyped
<1> QED
    BY <1>1, <1>2 DEF UnTyped, UnHolds, Names

\* RedirectLeadsOn is that what is redirected to leads on.
LEMMA RedirectsLead ==
    RedirectLeadsOn <=> \A n \in Names : redirect[n] # 0 => LeadsOn(redirect[n])
BY DEF RedirectLeadsOn, LeadsOn

\* A request that neither was nor becomes one about to redirect, in a step that
\* leaves names and redirects alone.
LEMMA UnRests ==
    ASSUME UnInv, NEW r \in UnReqs, NEW rec \in UnRecords, UnGo(r, rec), UnHolds(rec),
           UNCHANGED <<uname, redirect, retaken>>,
           overlapped => overlapped', rec.at # "redirect", ~UnAt(r, "redirect"),
           rec.at = "update" =>
              /\ rec.old = uname[rec.u]
              /\ (\E q \in UnReqs : UnAt(q, "update") /\ unReq[q].u = rec.u) => overlapped'
    PROVE  UnInv'
<1> USE DEF UnInv
<1>1. UnTyped' /\ unReq'[r] = rec /\ \A q \in UnReqs \ {r} : unReq'[q] = unReq[q]
    BY UnTakes DEF UnTyped
<1>2. ReadNameStands'
    BY <1>1 DEF ReadNameStands, UnAt
<1>3. Taken' = Taken
    BY DEF Taken
<1>4. \A m \in Names : LeadsOn(m) => LeadsOn(m)'
    BY <1>1, <1>3 DEF LeadsOn, UnAt
<1>5. NewNameLeadsOn'
    <2> SUFFICES ASSUME NEW q \in UnReqs, UnAt(q, "redirect")' PROVE LeadsOn(unReq[q].new)'
        BY DEF NewNameLeadsOn
    <2>1. q # r /\ unReq'[q] = unReq[q] /\ UnAt(q, "redirect")
        BY <1>1 DEF UnAt
    <2>2. PICK m \in Names : m = unReq[q].new
        BY <2>1 DEF UnTyped, UnHolds, UnAt
    <2>3. LeadsOn(m)'
        BY <1>4, <2>1, <2>2 DEF NewNameLeadsOn
    <2> QED
        BY <2>1, <2>2, <2>3 DEF LeadsOn
<1>6. OwnNameFound'
    BY DEF OwnNameFound, Visit
<1>7. RedirectLeadsOn'
    BY <1>1, <1>3 DEF RedirectLeadsOn, UnAt
<1> QED
    BY <1>1, <1>2, <1>5, <1>6, <1>7

\* A request comes to rest.
LEMMA UnRestful ==
    ASSUME UnTyped, NEW r \in UnReqs
    PROVE  /\ UnIdle \in UnRecords /\ UnHolds(UnIdle) /\ UnIdle.at = "idle"
           /\ unReq[r] \in UnRecords /\ UnHolds(unReq[r])
           /\ \A n \in Names : n \in 0 .. MaxName /\ n # 0
<1>1. 0 \in 0 .. MaxName /\ 0 \in Nat
    BY UnAssumption
<1> QED
    BY <1>1, UnAssumption DEF UnIdle, UnRecords, UnLabels, UnHolds, UnTyped, Names

\* The sign-up writes a name nobody has.
LEMMA SignUpInsertKeeps ==
    ASSUME UnInv, NEW r \in UnReqs, SignUpInsert(r)
    PROVE  UnInv'
<1> USE DEF UnInv
<1> DEFINE u == unReq[r].u
           n == unReq[r].new
<1>1. UnAt(r, "insert") /\ UNCHANGED <<redirect, renames, overlapped>>
    BY DEF SignUpInsert
<1>2. u \in Players /\ n \in Names /\ n # 0
    BY <1>1, UnRestful DEF UnHolds, UnAt
<1>3. CASE UnGo(r, UnIdle) /\ UNCHANGED <<uname, retaken>>
    <2>1. UnGo(r, UnIdle) /\ UNCHANGED <<uname, redirect, retaken>> /\ overlapped' = overlapped
        BY <1>1, <1>3
    <2>2. ~UnAt(r, "redirect")
        BY <1>1 DEF UnAt
    <2> QED
        BY <2>1, <2>2, UnRestful, UnRests DEF UnTyped
<1>4. CASE UnGo(r, [unReq[r] EXCEPT !.at = "retry"]) /\ UNCHANGED <<uname, retaken>>
    <2> DEFINE rec == [unReq[r] EXCEPT !.at = "retry"]
    <2>1. rec \in UnRecords /\ rec.at = "retry" /\ UnHolds(rec)
        BY <1>2, UnRestful DEF UnRecords, UnLabels, UnHolds
    <2>2. UnGo(r, rec)
        BY <1>4
    <2> HIDE DEF rec
    <2>3. UNCHANGED <<uname, redirect, retaken>> /\ overlapped' = overlapped
        BY <1>1, <1>4
    <2>4. ~UnAt(r, "redirect")
        BY <1>1 DEF UnAt
    <2> QED
        BY <2>1, <2>2, <2>3, <2>4, UnRests DEF UnTyped
<1>5. ASSUME uname[u] = 0, n \notin Taken, uname' = [uname EXCEPT ![u] = n],
             retaken' = IF redirect[n] # 0 THEN retaken \cup {n} ELSE retaken,
             UnGo(r, UnIdle)
      PROVE  UnInv'
    <2> HIDE DEF u, n
    <2>1. uname \in [Players -> 0 .. MaxName] /\ uname' \in [Players -> 0 .. MaxName]
        BY <1>2, <1>5, UnRestful DEF UnTyped
    <2>2. /\ UnTyped'
          /\ unReq'[r] = UnIdle
          /\ \A q \in UnReqs \ {r} : unReq'[q] = unReq[q]
        BY <1>1, <1>5, <2>1, UnTakes, UnRestful DEF UnTyped
    <2>3. Taken \subseteq Taken'
        BY <1>2, <1>5, <2>1 DEF Taken
    <2>4. \A m \in Names : LeadsOn(m) => LeadsOn(m)'
        BY <1>1, <2>2, <2>3, UnRestful DEF LeadsOn, UnAt
    <2>5. ReadNameStands'
        <3>1. \A q \in UnReqs : UnAt(q, "update") => unReq[q].u \in Players /\ unReq[q].old # 0
            BY UnRestful DEF UnHolds, UnAt
        <3>2. \A q \in UnReqs : UnAt(q, "update")' => q # r /\ UnAt(q, "update")
            BY <2>2, UnRestful DEF UnAt
        <3> QED
            BY <1>1, <1>2, <1>5, <2>1, <2>2, <3>1, <3>2 DEF ReadNameStands, UnAt
    <2>6. NewNameLeadsOn'
        <3> SUFFICES ASSUME NEW q \in UnReqs, UnAt(q, "redirect")' PROVE LeadsOn(unReq[q].new)'
            BY DEF NewNameLeadsOn
        <3>1. q # r /\ unReq'[q] = unReq[q] /\ UnAt(q, "redirect")
            BY <2>2, UnRestful DEF UnAt
        <3>2. PICK m \in Names : m = unReq[q].new
            BY <3>1 DEF UnTyped, UnHolds, UnAt
        <3>3. LeadsOn(m)'
            BY <2>4, <3>1, <3>2 DEF NewNameLeadsOn
        <3> QED
            BY <3>1, <3>2, <3>3 DEF LeadsOn
    <2>7. OwnNameFound'
        BY <1>1, <1>2, <1>5, <2>1 DEF OwnNameFound, Visit
    <2>8. RedirectLeadsOn'
        <3> SUFFICES ASSUME NEW k \in Names, redirect'[k] # 0 PROVE LeadsOn(redirect[k])'
            BY DEF RedirectLeadsOn, LeadsOn
        <3>1. PICK m \in Names : m = redirect[k]
            BY <1>1, UnAssumption DEF UnTyped, Names
        <3>2. LeadsOn(m)'
            BY <1>1, <2>4, <3>1, RedirectsLead
        <3> QED
            BY <1>1, <3>1, <3>2 DEF LeadsOn
    <2> QED
        BY <2>2, <2>5, <2>6, <2>7, <2>8
<1> QED
    BY <1>3, <1>4, <1>5 DEF SignUpInsert

\* The update of a profile: the name the row had is about to be redirected, if
\* it is another one.
LEMMA RenameUpdateKeeps ==
    ASSUME UnInv, NEW r \in UnReqs, RenameUpdate(r)
    PROVE  UnInv'
<1> USE DEF UnInv
<1> DEFINE u == unReq[r].u
           n == unReq[r].new
           o == unReq[r].old
<1>1. UnAt(r, "update") /\ UNCHANGED <<redirect, overlapped>>
    BY DEF RenameUpdate
<1>2. u \in Players /\ n \in Names /\ n # 0 /\ o \in Names
    BY <1>1, UnRestful DEF UnHolds, UnAt
<1>3. CASE UnGo(r, UnIdle) /\ UNCHANGED <<uname, renames, retaken>>
    <2>1. UnGo(r, UnIdle) /\ UNCHANGED <<uname, redirect, retaken>> /\ overlapped' = overlapped
        BY <1>1, <1>3
    <2>2. ~UnAt(r, "redirect")
        BY <1>1 DEF UnAt
    <2> QED
        BY <2>1, <2>2, UnRestful, UnRests DEF UnTyped
<1>4. ASSUME uname' = [uname EXCEPT ![u] = n],
             retaken' = IF redirect[n] # 0 THEN retaken \cup {n} ELSE retaken,
             UnGo(r, IF o # n THEN [unReq[r] EXCEPT !.at = "redirect"] ELSE UnIdle)
      PROVE  UnInv'
    <2> DEFINE rec == IF o # n THEN [unReq[r] EXCEPT !.at = "redirect"] ELSE UnIdle
    <2>1. /\ rec \in UnRecords /\ UnHolds(rec) /\ rec.at \in {"idle", "redirect"}
          /\ o # n => rec.at = "redirect" /\ rec.old = o
          /\ rec.at = "redirect" => rec.new = n
        BY <1>1, <1>2, UnRestful DEF UnRecords, UnLabels, UnHolds
    <2>2. UnGo(r, rec)
        BY <1>4
    <2> HIDE DEF rec, u, n, o
    <2>3. uname \in [Players -> 0 .. MaxName] /\ uname' \in [Players -> 0 .. MaxName]
        BY <1>2, <1>4, UnRestful DEF UnTyped
    <2>4. /\ UnTyped'
          /\ unReq'[r] = rec
          /\ \A q \in UnReqs \ {r} : unReq'[q] = unReq[q]
        BY <1>1, <2>1, <2>2, <2>3, UnTakes DEF UnTyped
    <2>5. n \in Taken' /\ \A m \in Taken : m \in Taken' \/ m = uname[u]
        BY <1>2, <1>4, <2>3 DEF Taken
    <2>6. overlapped \/ uname[u] = o
        BY <1>1 DEF ReadNameStands, u, o
    <2>7. \A m \in Names : LeadsOn(m) => LeadsOn(m)'
        <3> SUFFICES ASSUME NEW m \in Names, LeadsOn(m) PROVE LeadsOn(m)'
            OBVIOUS
        <3>1. CASE m \in Taken
            BY <1>1, <2>1, <2>4, <2>5, <2>6, <3>1 DEF LeadsOn, UnAt
        <3>2. CASE redirect[m] # 0 \/ overlapped
            BY <1>1, <3>2 DEF LeadsOn
        <3>3. ASSUME NEW q \in UnReqs, UnAt(q, "redirect"), unReq[q].old = m PROVE LeadsOn(m)'
            BY <1>1, <2>4, <3>3 DEF LeadsOn, UnAt
        <3> QED
            BY <3>1, <3>2, <3>3 DEF LeadsOn
    <2>8. ReadNameStands'
        <3> SUFFICES ASSUME ~overlapped PROVE ReadNameStands'
            BY <1>1 DEF ReadNameStands
        <3>1. \A q \in UnReqs : UnAt(q, "update")' => q # r /\ UnAt(q, "update")
            BY <2>1, <2>4 DEF UnAt
        <3>2. \A q \in UnReqs : q # r /\ UnAt(q, "update") => unReq[q].u # u
            BY <1>1 DEF ReadNameStands, u
        <3>3. \A q \in UnReqs : UnAt(q, "update") => unReq[q].u \in Players
            BY DEF UnTyped, UnHolds, UnAt
        <3> QED
            BY <1>1, <1>2, <1>4, <2>3, <2>4, <3>1, <3>2, <3>3 DEF ReadNameStands, UnAt
    <2>9. NewNameLeadsOn'
        <3> SUFFICES ASSUME NEW q \in UnReqs, UnAt(q, "redirect")' PROVE LeadsOn(unReq[q].new)'
            BY DEF NewNameLeadsOn
        <3>1. CASE q = r
            BY <2>1, <2>4, <2>5, <3>1 DEF LeadsOn, UnAt
        <3>2. CASE q # r
            <4>1. unReq'[q] = unReq[q] /\ UnAt(q, "redirect")
                BY <2>4, <3>2 DEF UnAt
            <4>2. PICK m \in Names : m = unReq[q].new
                BY <4>1 DEF UnTyped, UnHolds, UnAt
            <4>3. LeadsOn(m)'
                BY <2>7, <4>1, <4>2 DEF NewNameLeadsOn
            <4> QED
                BY <4>1, <4>2, <4>3 DEF LeadsOn
        <3> QED
            BY <3>1, <3>2
    <2>10. OwnNameFound'
        BY <1>1, <1>2, <1>4, <2>3 DEF OwnNameFound, Visit
    <2>11. RedirectLeadsOn'
        <3> SUFFICES ASSUME NEW k \in Names, redirect'[k] # 0 PROVE LeadsOn(redirect[k])'
            BY DEF RedirectLeadsOn, LeadsOn
        <3>1. PICK m \in Names : m = redirect[k]
            BY <1>1, UnAssumption DEF UnTyped, Names
        <3>2. LeadsOn(m)'
            BY <1>1, <2>7, <3>1, RedirectsLead
        <3> QED
            BY <1>1, <3>1, <3>2 DEF LeadsOn
    <2> QED
        BY <2>4, <2>8, <2>9, <2>10, <2>11
<1> QED
    BY <1>3, <1>4 DEF RenameUpdate

\* The redirect is stored, and the name it leads to leads on.
LEMMA RenameRedirectKeeps ==
    ASSUME UnInv, NEW r \in UnReqs, RenameRedirect(r)
    PROVE  UnInv'
<1> USE DEF UnInv
<1> DEFINE n == unReq[r].new
           o == unReq[r].old
<1>1. /\ UnAt(r, "redirect") /\ UNCHANGED <<uname, renames, overlapped>>
      /\ redirect' = [redirect EXCEPT ![o] = n]
      /\ retaken' = IF o \in Taken THEN retaken \cup {o} ELSE retaken
      /\ UnGo(r, UnIdle)
    BY DEF RenameRedirect
<1>2. n \in Names /\ n # 0 /\ o \in Names /\ LeadsOn(n)
    BY <1>1, UnRestful DEF UnHolds, UnAt, NewNameLeadsOn
<1> USE DEF o
<1> HIDE DEF n
<1>3. redirect \in [Names -> 0 .. MaxName] /\ redirect' \in [Names -> 0 .. MaxName]
    BY <1>1, <1>2, UnRestful DEF UnTyped
<1>4. /\ UnTyped'
      /\ unReq'[r] = UnIdle
      /\ \A q \in UnReqs \ {r} : unReq'[q] = unReq[q]
    BY <1>1, <1>3, UnTakes, UnRestful DEF UnTyped
<1>5. Taken' = Taken
    BY <1>1 DEF Taken
<1>6. \A m \in Names : LeadsOn(m) => LeadsOn(m)'
    BY <1>1, <1>2, <1>3, <1>4, <1>5 DEF LeadsOn, UnAt
<1>7. ReadNameStands'
    BY <1>1, <1>4, UnRestful DEF ReadNameStands, UnAt
<1>8. NewNameLeadsOn'
    <2> SUFFICES ASSUME NEW q \in UnReqs, UnAt(q, "redirect")' PROVE LeadsOn(unReq[q].new)'
        BY DEF NewNameLeadsOn
    <2>1. q # r /\ unReq'[q] = unReq[q] /\ UnAt(q, "redirect")
        BY <1>4, UnRestful DEF UnAt
    <2>2. PICK m \in Names : m = unReq[q].new
        BY <2>1 DEF UnTyped, UnHolds, UnAt
    <2>3. LeadsOn(m)'
        BY <1>6, <2>1, <2>2 DEF NewNameLeadsOn
    <2> QED
        BY <2>1, <2>2, <2>3 DEF LeadsOn
<1>9. OwnNameFound'
    BY <1>1, <1>2, <1>3, UnTyped DEF OwnNameFound, Visit, UnTyped, Taken
<1>10. RedirectLeadsOn'
    <2> SUFFICES ASSUME NEW k \in Names, redirect'[k] # 0 PROVE LeadsOn(redirect[k])'
        BY DEF RedirectLeadsOn, LeadsOn
    <2>1. PICK m \in Names : m = redirect'[k] /\ LeadsOn(m)
        <3>1. CASE k = o
            BY <1>1, <1>2, <1>3, <3>1
        <3>2. CASE k # o
            BY <1>1, <1>3, <3>2, UnAssumption, RedirectsLead DEF Names
        <3> QED
            BY <3>1, <3>2
    <2>2. LeadsOn(m)'
        BY <1>6, <2>1
    <2> QED
        BY <2>1, <2>2 DEF LeadsOn
<1> QED
    BY <1>4, <1>7, <1>8, <1>9, <1>10

\* Every step of the names keeps their invariant.
LEMMA UnStep ==
    ASSUME UnInv, [UnNext]_unVars
    PROVE  UnInv'
<1>1. ASSUME NEW r \in UnReqs, NEW u \in Players, SignUpAllocate(r, u) PROVE UnInv'
    <2>1. PICK n \in Names :
            UnGo(r, [UnIdle EXCEPT !.at = "insert", !.u = u, !.new = n, !.try = unReq[r].try + 1])
        BY <1>1 DEF SignUpAllocate
    <2> DEFINE rec == [UnIdle EXCEPT !.at = "insert", !.u = u, !.new = n,
                                     !.try = unReq[r].try + 1]
    <2>2. rec \in UnRecords /\ rec.at = "insert" /\ UnHolds(rec)
        <3>1. unReq[r].try + 1 \in Nat /\ 0 \in 0 .. MaxName /\ n \in 0 .. MaxName
            BY UnRestful, UnAssumption DEF UnRecords, UnInv
        <3> QED
            BY <3>1 DEF UnIdle, UnRecords, UnLabels, UnHolds
    <2>3. UnGo(r, rec)
        BY <2>1
    <2> HIDE DEF rec
    <2>4. UNCHANGED <<uname, redirect, retaken, overlapped>> /\ ~UnAt(r, "redirect")
        BY <1>1 DEF SignUpAllocate, nameVars, UnAt
    <2> QED
        BY <2>2, <2>3, <2>4, UnRests
<1>2. ASSUME NEW r \in UnReqs, NEW u \in Players, NEW n \in Names, RenameRead(r, u, n)
      PROVE  UnInv'
    <2> DEFINE rec == [UnIdle EXCEPT !.at = "update", !.u = u, !.old = uname[u], !.new = n]
    <2>1. /\ UnAt(r, "idle") /\ uname[u] # 0 /\ UnGo(r, rec)
          /\ overlapped' = (overlapped \/ \E q \in UnReqs : UnAt(q, "update") /\ unReq[q].u = u)
          /\ UNCHANGED <<uname, redirect, retaken>>
        BY <1>2 DEF RenameRead
    <2>2. uname[u] \in Names
        BY <2>1, UnAssumption DEF UnInv, UnTyped, Names
    <2>3. rec \in UnRecords /\ rec.at = "update" /\ UnHolds(rec) /\ rec.old = uname[u] /\ rec.u = u
        <3>1. uname[u] \in 0 .. MaxName /\ n \in 0 .. MaxName
            BY <2>2, UnRestful DEF UnInv
        <3> QED
            BY <2>2, <3>1 DEF UnIdle, UnRecords, UnLabels, UnHolds
    <2> HIDE DEF rec
    <2>4. ~UnAt(r, "redirect")
        BY <2>1 DEF UnAt
    <2> QED
        BY <2>1, <2>3, <2>4, UnRests
<1>3. ASSUME NEW r \in UnReqs, SignUpInsert(r) \/ RenameUpdate(r) \/ RenameRedirect(r)
      PROVE  UnInv'
    BY <1>3, SignUpInsertKeeps, RenameUpdateKeeps, RenameRedirectKeeps
<1>4. CASE UNCHANGED unVars
    BY <1>4 DEF unVars, nameVars, UnInv, UnTyped, ReadNameStands, NewNameLeadsOn, LeadsOn,
       OwnNameFound, RedirectLeadsOn, Visit, Taken, UnAt
<1> QED
    BY <1>1, <1>2, <1>3, <1>4 DEF UnNext

\* Before the first sign-up there is no name and no redirect.
LEMMA UnStart ==
    ASSUME UnInit
    PROVE  UnInv
<1>1. 0 \in 0 .. MaxName
    BY UnAssumption
<1>2. UnIdle \in UnRecords /\ UnHolds(UnIdle) /\ UnIdle.at = "idle"
    BY <1>1 DEF UnIdle, UnRecords, UnLabels, UnHolds
<1>3. UnTyped
    BY <1>1, <1>2 DEF UnInit, UnTyped
<1>4. ReadNameStands /\ NewNameLeadsOn
    BY <1>2 DEF UnInit, ReadNameStands, NewNameLeadsOn, UnAt
<1>5. OwnNameFound /\ RedirectLeadsOn
    BY DEF UnInit, OwnNameFound, RedirectLeadsOn
<1> QED
    BY <1>3, <1>4, <1>5 DEF UnInv

-------------------------------------------------------------------------------
(* Phone verification *)

PvLabels == {"idle", "check", "incr", "expire", "clear", "mark"}
PvRecords == [at : PvLabels, u : Callers \cup {0}]

\* The requests Twilio has answered and that have not written yet, and all that
\* got past the counter.
PvAnswered == {r \in PvReqs : pvReq[r].at \in {"incr", "clear"}}
PvBusy == {r \in PvReqs : pvReq[r].at \in {"check", "incr", "clear"}}

\* The requests are records of a caller, and the counters count.
PvTyped ==
    /\ pvReq \in [PvReqs -> PvRecords]
    /\ \A r \in PvReqs : ~PvAt(r, "idle") => pvReq[r].u \in Callers
    /\ checks \in Nat

\* Every check of the window is in the counter, or will be.
ChecksCounted == checks <= otp.n + Cardinality(PvAnswered)

\* The counter, with all that may still add to it, stays below the limit plus
\* the requests that can pass it together.
CounterBounded == otp.n + Cardinality(PvBusy) <= OtpLimit - 1 + Cardinality(PvReqs)

PvInv ==
    /\ PvTypeOK
    /\ PvTyped
    /\ ChecksCounted
    /\ CounterBounded
    /\ LockoutEnds

\* Sets of requests are finite and no larger than all of them.
LEMMA PvFinite ==
    /\ Cardinality(PvReqs) \in Nat
    /\ \A S \in SUBSET PvReqs :
          IsFiniteSet(S) /\ Cardinality(S) \in Nat /\ Cardinality(S) <= Cardinality(PvReqs)
BY PvAssumption, FS_Subset, FS_CardinalityType

\* One request takes another record.
LEMMA PvTakes ==
    ASSUME PvTyped, NEW r \in PvReqs, NEW rec \in PvRecords, PvGo(r, rec),
           rec.at # "idle" => rec.u \in Callers, checks' \in Nat
    PROVE  /\ PvTyped'
           /\ pvReq'[r] = rec
           /\ \A q \in PvReqs \ {r} : pvReq'[q] = pvReq[q]
<1>1. /\ pvReq' \in [PvReqs -> PvRecords]
      /\ pvReq'[r] = rec
      /\ \A q \in PvReqs \ {r} : pvReq'[q] = pvReq[q]
    BY DEF PvTyped, PvGo
<1>2. PvTyped'
    BY <1>1 DEF PvTyped, PvAt
<1> QED
    BY <1>1, <1>2

\* The type invariant follows from the records.
LEMMA PvTypes ==
    ASSUME PvTyped', phoneOf' \subseteq Callers, otp' \in [n : Nat, ttl : BOOLEAN]
    PROVE  PvTypeOK'
<1>1. \A r \in PvReqs : pvReq'[r].at \in PvLabels
    BY DEF PvTyped, PvRecords
<1> QED
    BY <1>1 DEF PvTypeOK, PvLabels

\* The facts about the state that every step starts from.
LEMMA PvFacts ==
    ASSUME PvInv
    PROVE  /\ otp \in [n : Nat, ttl : BOOLEAN] /\ otp.n \in Nat /\ checks \in Nat
           /\ phoneOf \subseteq Callers
           /\ OtpLimit \in Nat /\ OtpLimit >= 1
           /\ PvAnswered \in SUBSET PvReqs /\ PvBusy \in SUBSET PvReqs
           /\ Cardinality(PvAnswered) \in Nat /\ Cardinality(PvBusy) \in Nat
           /\ Cardinality(PvReqs) \in Nat
           /\ Cardinality(PvBusy) <= Cardinality(PvReqs)
           /\ IsFiniteSet(PvAnswered) /\ IsFiniteSet(PvBusy)
<1>1. PvAnswered \in SUBSET PvReqs /\ PvBusy \in SUBSET PvReqs
    BY DEF PvAnswered, PvBusy
<1>2. otp \in [n : Nat, ttl : BOOLEAN] /\ otp.n \in Nat /\ checks \in Nat /\ phoneOf \subseteq Callers
    BY DEF PvInv, PvTypeOK, PvTyped
<1>3. OtpLimit \in Nat /\ OtpLimit >= 1
    BY PvAssumption
<1> QED
    BY <1>1, <1>2, <1>3, PvFinite

\* A request gets past the counter, which is below its limit.
LEMMA PhoneStartKeeps ==
    ASSUME PvInv, NEW r \in PvReqs, NEW u \in Callers, PhoneStart(r, u)
    PROVE  PvInv'
<1> USE DEF PvInv
<1> DEFINE rec == [PvIdle EXCEPT !.at = "check", !.u = u]
<1>1. /\ PvAt(r, "idle") /\ otp.n < OtpLimit /\ PvGo(r, rec)
      /\ UNCHANGED <<phoneOf, otp, checks, windows, stuckOtp>>
    BY DEF PhoneStart, phoneVars
<1>2. rec \in PvRecords /\ rec.at = "check" /\ rec.u = u
    BY DEF PvIdle, PvRecords, PvLabels
<1> HIDE DEF rec
<1>3. PvTyped' /\ pvReq'[r] = rec /\ \A q \in PvReqs \ {r} : pvReq'[q] = pvReq[q]
    BY <1>1, <1>2, PvTakes DEF PvTyped
<1>4. PvTypeOK'
    BY <1>1, <1>3, PvTypes, PvFacts
<1>5. PvAnswered' = PvAnswered /\ PvBusy' \in SUBSET PvReqs
    BY <1>1, <1>2, <1>3 DEF PvAnswered, PvBusy, PvAt
<1>6. ChecksCounted'
    BY <1>1, <1>5 DEF ChecksCounted
<1>7. CounterBounded'
    <2>1. Cardinality(PvBusy') \in Nat /\ Cardinality(PvBusy') <= Cardinality(PvReqs)
        BY <1>5, PvFinite
    <2>2. otp'.n + Cardinality(PvBusy') <= OtpLimit - 1 + Cardinality(PvReqs)
        BY <1>1, <2>1, PvFacts
    <2> QED
        BY <2>2 DEF CounterBounded
<1>8. LockoutEnds'
    BY <1>1, <1>3 DEF LockoutEnds, PvAt
<1> QED
    BY <1>3, <1>4, <1>6, <1>7, <1>8

\* Twilio is asked.
LEMMA PhoneCheckKeeps ==
    ASSUME PvInv, NEW r \in PvReqs, PhoneCheck(r)
    PROVE  PvInv'
<1> USE DEF PvInv
<1>1. /\ PvAt(r, "check") /\ checks' = checks + 1
      /\ UNCHANGED <<phoneOf, otp, windows, stuckOtp>>
    BY DEF PhoneCheck
<1>2. PICK approved \in BOOLEAN :
          PvGo(r, [pvReq[r] EXCEPT !.at = IF approved THEN "clear" ELSE "incr"])
    BY DEF PhoneCheck
<1> DEFINE rec == [pvReq[r] EXCEPT !.at = IF approved THEN "clear" ELSE "incr"]
<1>3. rec \in PvRecords /\ rec.at \in {"clear", "incr"} /\ rec.u \in Callers
    BY <1>1 DEF PvTyped, PvRecords, PvLabels, PvAt
<1>4. PvGo(r, rec)
    BY <1>2
<1> HIDE DEF rec
<1>5. PvTyped' /\ pvReq'[r] = rec /\ \A q \in PvReqs \ {r} : pvReq'[q] = pvReq[q]
    BY <1>1, <1>3, <1>4, PvTakes, PvFacts
<1>6. PvTypeOK'
    BY <1>1, <1>5, PvTypes, PvFacts
<1>7. /\ PvAnswered' = PvAnswered \cup {r} /\ r \notin PvAnswered
      /\ PvBusy' = PvBusy
    BY <1>1, <1>3, <1>5 DEF PvAnswered, PvBusy, PvAt
<1>8. Cardinality(PvAnswered') = Cardinality(PvAnswered) + 1
    BY <1>7, PvFacts, FS_AddElement
<1>9. ChecksCounted'
    <2>1. checks' <= otp'.n + Cardinality(PvAnswered')
        BY <1>1, <1>8, PvFacts DEF ChecksCounted
    <2> QED
        BY <2>1 DEF ChecksCounted
<1>10. CounterBounded'
    BY <1>1, <1>7 DEF CounterBounded
<1>11. LockoutEnds'
    BY <1>1, <1>3, <1>5 DEF LockoutEnds, PvAt
<1> QED
    BY <1>5, <1>6, <1>9, <1>10, <1>11

\* A wrong code is counted; whoever creates the counter goes on to its EXPIRE.
LEMMA PhoneIncrKeeps ==
    ASSUME PvInv, NEW r \in PvReqs, PhoneIncr(r)
    PROVE  PvInv'
<1> USE DEF PvInv
<1> DEFINE rec == IF otp.n = 0 THEN [pvReq[r] EXCEPT !.at = "expire"] ELSE PvIdle
<1>1. /\ PvAt(r, "incr") /\ PvGo(r, rec) /\ otp' = [otp EXCEPT !.n = @ + 1]
      /\ UNCHANGED <<phoneOf, checks, windows, stuckOtp>>
    BY DEF PhoneIncr
<1>2. /\ otp' \in [n : Nat, ttl : BOOLEAN]
      /\ otp'.n = otp.n + 1 /\ otp'.ttl = otp.ttl
    BY <1>1, PvFacts
<1>3. /\ rec \in PvRecords /\ rec.at \in {"expire", "idle"}
      /\ rec.at # "idle" => rec.u \in Callers
      /\ otp.n = 0 => rec.at = "expire"
    BY <1>1 DEF PvTyped, PvRecords, PvLabels, PvAt, PvIdle
<1> HIDE DEF rec
<1>4. PvTyped' /\ pvReq'[r] = rec /\ \A q \in PvReqs \ {r} : pvReq'[q] = pvReq[q]
    BY <1>1, <1>3, PvTakes, PvFacts
<1>5. PvTypeOK'
    BY <1>1, <1>2, <1>4, PvTypes, PvFacts
<1>6. /\ PvAnswered' = PvAnswered \ {r} /\ r \in PvAnswered
      /\ PvBusy' = PvBusy \ {r} /\ r \in PvBusy
    BY <1>1, <1>3, <1>4 DEF PvAnswered, PvBusy, PvAt
<1>7. /\ Cardinality(PvAnswered') = Cardinality(PvAnswered) - 1
      /\ Cardinality(PvBusy') = Cardinality(PvBusy) - 1
    BY <1>6, PvFacts, FS_RemoveElement
<1>8. ChecksCounted'
    <2>1. checks' <= otp'.n + Cardinality(PvAnswered')
        BY <1>1, <1>2, <1>7, PvFacts DEF ChecksCounted
    <2> QED
        BY <2>1 DEF ChecksCounted
<1>9. CounterBounded'
    <2>1. otp'.n + Cardinality(PvBusy') <= OtpLimit - 1 + Cardinality(PvReqs)
        BY <1>2, <1>7, PvFacts DEF CounterBounded
    <2> QED
        BY <2>1 DEF CounterBounded
<1>10. LockoutEnds'
    <2>1. CASE otp.n = 0
        BY <1>3, <1>4, <2>1 DEF LockoutEnds, PvAt
    <2>2. CASE otp.n # 0
        <3>1. otp.ttl \/ stuckOtp \/ \E q \in PvReqs : PvAt(q, "expire")
            BY <2>2, PvFacts DEF LockoutEnds
        <3> QED
            BY <1>1, <1>2, <1>4, <3>1 DEF LockoutEnds, PvAt
    <2> QED
        BY <2>1, <2>2
<1> QED
    BY <1>4, <1>5, <1>8, <1>9, <1>10

\* The counter's lifetime is set, or the process dies before that.
LEMMA PhoneExpireKeeps ==
    ASSUME PvInv, NEW r \in PvReqs, PhoneExpire(r)
    PROVE  PvInv'
<1> USE DEF PvInv
<1>1. /\ PvAt(r, "expire") /\ PvGo(r, PvIdle) /\ UNCHANGED <<phoneOf, checks, windows>>
      /\ \/ /\ otp' = IF otp.n = 0 THEN otp ELSE [otp EXCEPT !.ttl = TRUE]
            /\ UNCHANGED stuckOtp
         \/ stuckOtp' = TRUE /\ UNCHANGED otp
    BY DEF PhoneExpire
<1>2. /\ otp' \in [n : Nat, ttl : BOOLEAN] /\ otp'.n = otp.n
      /\ otp.n # 0 => otp'.ttl \/ stuckOtp'
    BY <1>1, PvFacts
<1>3. PvIdle \in PvRecords /\ PvIdle.at = "idle"
    BY DEF PvIdle, PvRecords, PvLabels
<1>4. PvTyped' /\ pvReq'[r] = PvIdle /\ \A q \in PvReqs \ {r} : pvReq'[q] = pvReq[q]
    BY <1>1, <1>3, PvTakes, PvFacts
<1>5. PvTypeOK'
    BY <1>1, <1>2, <1>4, PvTypes, PvFacts
<1>6. PvAnswered' = PvAnswered /\ PvBusy' = PvBusy
    BY <1>1, <1>3, <1>4 DEF PvAnswered, PvBusy, PvAt
<1>7. ChecksCounted' /\ CounterBounded'
    BY <1>1, <1>2, <1>6 DEF ChecksCounted, CounterBounded
<1>8. LockoutEnds'
    BY <1>2, PvFacts DEF LockoutEnds
<1> QED
    BY <1>4, <1>5, <1>7, <1>8

\* The counter starts anew, by a right code or because its hour is over.
LEMMA PvFresh ==
    ASSUME PvInv, PvTyped', otp' = [n |-> 0, ttl |-> FALSE], checks' = 0,
           phoneOf' \subseteq Callers
    PROVE  PvInv'
<1>1. otp' \in [n : Nat, ttl : BOOLEAN] /\ otp'.n = 0
    OBVIOUS
<1>2. PvTypeOK'
    BY <1>1, PvTypes
<1>3. PvAnswered' \in SUBSET PvReqs /\ PvBusy' \in SUBSET PvReqs
    BY DEF PvAnswered, PvBusy
<1>4. /\ Cardinality(PvAnswered') \in Nat /\ Cardinality(PvBusy') \in Nat
      /\ Cardinality(PvBusy') <= Cardinality(PvReqs)
    BY <1>3, PvFinite
<1>5. /\ checks' <= otp'.n + Cardinality(PvAnswered')
      /\ otp'.n + Cardinality(PvBusy') <= OtpLimit - 1 + Cardinality(PvReqs)
    BY <1>1, <1>4, PvFacts
<1>6. ChecksCounted' /\ CounterBounded'
    BY <1>5 DEF ChecksCounted, CounterBounded
<1>7. LockoutEnds'
    BY <1>1 DEF LockoutEnds
<1> QED
    BY <1>2, <1>6, <1>7 DEF PvInv

\* The number is the caller's now, unless it is somebody's already.
LEMMA PhoneMarkKeeps ==
    ASSUME PvInv, NEW r \in PvReqs, PhoneMark(r)
    PROVE  PvInv'
<1> USE DEF PvInv
<1>1. /\ PvAt(r, "mark") /\ PvGo(r, PvIdle) /\ UNCHANGED <<otp, checks, windows, stuckOtp>>
      /\ phoneOf' = IF phoneOf = {} THEN {pvReq[r].u} ELSE phoneOf
    BY DEF PhoneMark
<1>2. phoneOf' \subseteq Callers
    BY <1>1, PvFacts DEF PvTyped, PvAt
<1>3. PvIdle \in PvRecords /\ PvIdle.at = "idle"
    BY DEF PvIdle, PvRecords, PvLabels
<1>4. PvTyped' /\ pvReq'[r] = PvIdle /\ \A q \in PvReqs \ {r} : pvReq'[q] = pvReq[q]
    BY <1>1, <1>3, PvTakes, PvFacts
<1>5. PvTypeOK'
    BY <1>1, <1>2, <1>4, PvTypes, PvFacts
<1>6. PvAnswered' = PvAnswered /\ PvBusy' = PvBusy
    BY <1>1, <1>3, <1>4 DEF PvAnswered, PvBusy, PvAt
<1>7. ChecksCounted' /\ CounterBounded'
    BY <1>1, <1>6 DEF ChecksCounted, CounterBounded
<1>8. LockoutEnds'
    BY <1>1, <1>4 DEF LockoutEnds, PvAt
<1> QED
    BY <1>4, <1>5, <1>7, <1>8

\* Every step of the verification keeps the invariant.
LEMMA PvStep ==
    ASSUME PvInv, [PvNext]_pvVars
    PROVE  PvInv'
<1>1. ASSUME NEW r \in PvReqs, NEW u \in Callers, PhoneStart(r, u) PROVE PvInv'
    BY <1>1, PhoneStartKeeps
<1>2. ASSUME NEW r \in PvReqs, PhoneCheck(r) PROVE PvInv'
    BY <1>2, PhoneCheckKeeps
<1>3. ASSUME NEW r \in PvReqs, PhoneIncr(r) PROVE PvInv'
    BY <1>3, PhoneIncrKeeps
<1>4. ASSUME NEW r \in PvReqs, PhoneExpire(r) PROVE PvInv'
    BY <1>4, PhoneExpireKeeps
<1>5. ASSUME NEW r \in PvReqs, PhoneClear(r) PROVE PvInv'
    <2> DEFINE rec == [pvReq[r] EXCEPT !.at = "mark"]
    <2>1. /\ PvAt(r, "clear") /\ PvGo(r, rec) /\ otp' = [n |-> 0, ttl |-> FALSE]
          /\ checks' = 0 /\ UNCHANGED phoneOf
        BY <1>5 DEF PhoneClear
    <2>2. rec \in PvRecords /\ rec.u \in Callers
        BY <2>1 DEF PvInv, PvTyped, PvRecords, PvLabels, PvAt
    <2> HIDE DEF rec
    <2>3. PvTyped'
        BY <2>1, <2>2, PvTakes DEF PvInv
    <2> QED
        BY <2>1, <2>3, PvFresh, PvFacts
<1>6. ASSUME NEW r \in PvReqs, PhoneMark(r) PROVE PvInv'
    BY <1>6, PhoneMarkKeeps
<1>7. CASE OtpExpires
    <2>1. PvTyped'
        BY <1>7 DEF OtpExpires, PvInv, PvTyped, PvAt
    <2> QED
        BY <1>7, <2>1, PvFresh, PvFacts DEF OtpExpires
<1>8. CASE UNCHANGED pvVars
    BY <1>8 DEF pvVars, phoneVars, PvInv, PvTypeOK, PvTyped, ChecksCounted, CounterBounded,
       LockoutEnds, PvAnswered, PvBusy, PvAt
<1> QED
    BY <1>1, <1>2, <1>3, <1>4, <1>5, <1>6, <1>7, <1>8 DEF PvNext

\* The counter starts at nothing.
LEMMA PvStart ==
    ASSUME PvInit
    PROVE  PvInv
<1>1. PvIdle \in PvRecords /\ PvIdle.at = "idle"
    BY DEF PvIdle, PvRecords, PvLabels
<1>2. \A r \in PvReqs : pvReq[r] = PvIdle
    BY DEF PvInit
<1>3. otp = [n |-> 0, ttl |-> FALSE] /\ otp.n = 0 /\ checks = 0 /\ phoneOf = {}
    BY DEF PvInit
<1>4. PvTyped
    BY <1>1, <1>2, <1>3 DEF PvTyped, PvInit, PvAt
<1>5. PvTypeOK
    BY <1>1, <1>2, <1>3 DEF PvTypeOK
<1>6. PvAnswered = {} /\ PvBusy = {}
    BY <1>1, <1>2 DEF PvAnswered, PvBusy
<1>7. ChecksCounted /\ CounterBounded
    <2>1. OtpLimit \in Nat /\ OtpLimit >= 1 /\ Cardinality(PvReqs) \in Nat
        BY PvAssumption, PvFinite
    <2>2. Cardinality(PvAnswered) = 0 /\ Cardinality(PvBusy) = 0
        BY <1>6, FS_EmptySet
    <2> QED
        BY <1>3, <2>1, <2>2 DEF ChecksCounted, CounterBounded
<1>8. LockoutEnds
    BY <1>3 DEF LockoutEnds
<1> QED
    BY <1>4, <1>5, <1>7, <1>8 DEF PvInv

\* The bound on the checks follows: who was answered is one of those past the
\* counter.
LEMMA PvGuarded ==
    ASSUME PvInv
    PROVE  OtpChecksBounded /\ LockoutEnds
<1>1. PvAnswered \in SUBSET PvBusy
    BY DEF PvAnswered, PvBusy
<1>2. Cardinality(PvAnswered) <= Cardinality(PvBusy)
    BY <1>1, PvFacts, FS_Subset
<1>3. checks <= OtpLimit + Cardinality(PvReqs) - 1
    BY <1>2, PvFacts DEF PvInv, ChecksCounted, CounterBounded
<1> QED
    BY <1>3 DEF PvInv, OtpChecksBounded

-------------------------------------------------------------------------------
(* API keys, impersonation and suspensions *)

AaLabels == {"idle", "fill", "uncache", "write", "audit", "exit"}
AaRecords == [at : AaLabels, op : {"none", "key"} \cup AuditKinds \cup (1 .. MaxPasses)]
ChangeKinds == AuditKinds \ {"impersonation_start"}

\* The handlers that have changed something and not written their audit row.
Auditing(a) == {r \in AaReqs : AaAt(r, "audit") /\ aaReq[r].op = a}

\* The requests are records, and who writes a status or its audit row knows
\* which.
AaTyped ==
    /\ taken \in Nat
    /\ aaReq \in [AaReqs -> AaRecords]
    /\ \A r \in AaReqs : aaReq[r].at \in {"write", "audit"} => aaReq[r].op \in ChangeKinds

AaInv ==
    /\ AaTypeOK
    /\ AaTyped
    /\ RevokedKeyRefused
    /\ ChangesAudited
    /\ TokensAudited

\* ChangesAudited in terms of the handlers at work.
LEMMA ChangesCounted ==
    ChangesAudited <=>
        \A a \in ChangeKinds : changes[a] = audit[a] + lost[a] + Cardinality(Auditing(a))
BY DEF ChangesAudited, Auditing, ChangeKinds

\* One request takes another record.
LEMMA AaTakes ==
    ASSUME AaTyped, NEW r \in AaReqs, NEW rec \in AaRecords, AaGo(r, rec)
    PROVE  /\ aaReq' \in [AaReqs -> AaRecords]
           /\ aaReq'[r] = rec
           /\ \A q \in AaReqs \ {r} : aaReq'[q] = aaReq[q]
BY DEF AaTyped, AaGo

\* A step of a request that has no audit row to write, before or after it.
LEMMA AaMoves ==
    ASSUME AaInv, NEW r \in AaReqs, NEW rec \in AaRecords, AaGo(r, rec),
           UNCHANGED <<passes, taken, suspended, audit, changes, lost>>,
           ~AaAt(r, "audit"), rec.at # "audit",
           rec.at = "write" => rec.op \in ChangeKinds,
           keyRow' \in {"none", "live", "revoked"}, keyCache' \in BOOLEAN, lateFill' \in BOOLEAN,
           RevokedKeyRefused'
    PROVE  AaInv'
<1> USE DEF AaInv
<1>1. /\ aaReq' \in [AaReqs -> AaRecords]
      /\ aaReq'[r] = rec
      /\ \A q \in AaReqs \ {r} : aaReq'[q] = aaReq[q]
    BY AaTakes
<1>2. AaTyped'
    BY <1>1 DEF AaTyped
<1>3. AaTypeOK'
    <2>1. \A q \in AaReqs : aaReq'[q].at \in AaLabels
        BY <1>1 DEF AaRecords
    <2> QED
        BY <2>1 DEF AaTypeOK, AaLabels
<1>4. \A a : Auditing(a)' = Auditing(a)
    BY <1>1 DEF Auditing, AaAt
<1>5. ChangesAudited'
    BY <1>4, ChangesCounted DEF ChangesAudited, Auditing
<1>6. TokensAudited'
    BY DEF TokensAudited
<1> QED
    BY <1>2, <1>3, <1>5, <1>6

\* A handler changes something and has its audit row still to write.
LEMMA JoinsAuditing ==
    ASSUME AaInv, NEW r \in AaReqs, NEW rec \in AaRecords, AaGo(r, rec),
           ~AaAt(r, "audit"), ~AaAt(r, "uncache"), rec.at = "audit", rec.op \in ChangeKinds,
           changes' = [changes EXCEPT ![rec.op] = @ + 1],
           UNCHANGED <<keyRow, keyCache, lateFill, taken, audit, lost>>,
           passes' \subseteq passes, suspended' \in BOOLEAN
    PROVE  AaInv'
<1> USE DEF AaInv
<1>1. /\ aaReq' \in [AaReqs -> AaRecords]
      /\ aaReq'[r] = rec
      /\ \A q \in AaReqs \ {r} : aaReq'[q] = aaReq[q]
    BY AaTakes
<1>2. rec.op \in AuditKinds /\ changes \in [AuditKinds -> Nat]
    BY DEF ChangeKinds, AaTypeOK
<1>3. /\ changes' \in [AuditKinds -> Nat]
      /\ changes'[rec.op] = changes[rec.op] + 1
      /\ \A a \in AuditKinds \ {rec.op} : changes'[a] = changes[a]
    BY <1>2
<1>4. AaTyped'
    BY <1>1 DEF AaTyped
<1>5. AaTypeOK'
    <2>1. \A q \in AaReqs : aaReq'[q].at \in AaLabels
        BY <1>1 DEF AaRecords
    <2> QED
        BY <1>3, <2>1 DEF AaTypeOK, AaLabels
<1>6. /\ Auditing(rec.op)' = Auditing(rec.op) \cup {r} /\ r \notin Auditing(rec.op)
      /\ \A a \in ChangeKinds \ {rec.op} : Auditing(a)' = Auditing(a)
    BY <1>1 DEF Auditing, AaAt
<1>7. \A a : IsFiniteSet(Auditing(a))
    <2> TAKE a
    <2>1. Auditing(a) \in SUBSET AaReqs
        BY DEF Auditing
    <2> QED
        BY <2>1, AaAssumption, FS_Subset
<1>8. Cardinality(Auditing(rec.op)') = Cardinality(Auditing(rec.op)) + 1
    BY ZenonT(60), <1>6, <1>7, FS_AddElement
<1>9. \A a \in ChangeKinds :
          changes'[a] = audit'[a] + lost'[a] + Cardinality(Auditing(a)')
    <2> TAKE a \in ChangeKinds
    <2>1. /\ changes[a] = audit[a] + lost[a] + Cardinality(Auditing(a))
          /\ audit[a] \in Nat /\ lost[a] \in Nat /\ Cardinality(Auditing(a)) \in Nat
        BY <1>7, ChangesCounted, FS_CardinalityType DEF AaTypeOK, ChangeKinds
    <2>2. CASE a = rec.op
        BY <1>3, <1>8, <2>1, <2>2
    <2>3. CASE a # rec.op
        BY <1>3, <1>6, <2>1, <2>3 DEF ChangeKinds
    <2> QED
        BY <2>2, <2>3
<1>10. ChangesAudited'
    BY <1>9 DEF ChangesAudited, Auditing, ChangeKinds
<1>11. RevokedKeyRefused'
    BY <1>1 DEF RevokedKeyRefused, AaAt
<1>12. TokensAudited'
    BY DEF TokensAudited
<1> QED
    BY <1>4, <1>5, <1>10, <1>11, <1>12

\* The audit row is written, or its handler dies: one or the other is counted.
LEMMA WriteAuditKeeps ==
    ASSUME AaInv, NEW r \in AaReqs, WriteAudit(r)
    PROVE  AaInv'
<1> USE DEF AaInv
<1>0. PICK k : k = aaReq[r].op
    OBVIOUS
<1>1. AaIdle \in AaRecords /\ AaIdle.at = "idle"
    BY DEF AaIdle, AaRecords, AaLabels
<1>2. /\ aaReq' \in [AaReqs -> AaRecords]
      /\ aaReq'[r] = AaIdle
      /\ \A q \in AaReqs \ {r} : aaReq'[q] = aaReq[q]
    BY <1>1, AaTakes DEF WriteAudit
<1>3. AaAt(r, "audit") /\ k \in ChangeKinds
    BY <1>0 DEF WriteAudit, AaTyped, AaAt
<1>4. audit \in [AuditKinds -> Nat] /\ lost \in [AuditKinds -> Nat] /\ k \in AuditKinds
    BY <1>3 DEF AaTypeOK, ChangeKinds
<1>5. \/ audit' = [audit EXCEPT ![k] = @ + 1] /\ lost' = lost
      \/ lost' = [lost EXCEPT ![k] = @ + 1] /\ audit' = audit
    BY <1>0 DEF WriteAudit
<1>6. /\ audit' \in [AuditKinds -> Nat] /\ lost' \in [AuditKinds -> Nat]
      /\ audit'[k] + lost'[k] = audit[k] + lost[k] + 1
      /\ \A a \in AuditKinds \ {k} : audit'[a] = audit[a] /\ lost'[a] = lost[a]
    BY <1>4, <1>5
<1>7. UNCHANGED <<suspended, changes, keyRow, keyCache, lateFill, passes, taken>>
    BY DEF WriteAudit, keyVars, passVars
<1>8. AaTyped'
    BY <1>1, <1>2, <1>7 DEF AaTyped
<1>9. AaTypeOK'
    <2>1. \A q \in AaReqs : aaReq'[q].at \in AaLabels
        BY <1>2 DEF AaRecords
    <2> QED
        BY <1>6, <1>7, <2>1 DEF AaTypeOK, AaLabels
<1>10. /\ Auditing(k)' = Auditing(k) \ {r} /\ r \in Auditing(k)
       /\ \A a \in ChangeKinds \ {k} : Auditing(a)' = Auditing(a)
    BY <1>0, <1>1, <1>2, <1>3 DEF Auditing, AaAt
<1>11. \A a : IsFiniteSet(Auditing(a))
    <2> TAKE a
    <2>1. Auditing(a) \in SUBSET AaReqs
        BY DEF Auditing
    <2> QED
        BY <2>1, AaAssumption, FS_Subset
<1>12. Cardinality(Auditing(k)') = Cardinality(Auditing(k)) - 1
    BY <1>10, <1>11, FS_RemoveElement
<1>13. \A a \in ChangeKinds :
           changes'[a] = audit'[a] + lost'[a] + Cardinality(Auditing(a)')
    <2> TAKE a \in ChangeKinds
    <2>1. /\ changes[a] = audit[a] + lost[a] + Cardinality(Auditing(a))
          /\ audit[a] \in Nat /\ lost[a] \in Nat /\ Cardinality(Auditing(a)) \in Nat
          /\ audit'[a] \in Nat /\ lost'[a] \in Nat
        BY <1>6, <1>11, ChangesCounted, FS_CardinalityType DEF AaTypeOK, ChangeKinds
    <2>2. CASE a = k
        BY <1>6, <1>7, <1>12, <2>1, <2>2
    <2>3. CASE a # k
        BY <1>6, <1>7, <1>10, <2>1, <2>3 DEF ChangeKinds
    <2> QED
        BY <2>2, <2>3
<1>14. ChangesAudited'
    BY <1>13 DEF ChangesAudited, Auditing, ChangeKinds
<1>15. RevokedKeyRefused'
    BY <1>2, <1>3, <1>7 DEF RevokedKeyRefused, AaAt
<1>16. TokensAudited'
    <2>1. "impersonation_start" \in AuditKinds \ {k}
        BY <1>3 DEF ChangeKinds, AuditKinds
    <2> QED
        BY <1>6, <1>7, <2>1 DEF TokensAudited
<1> QED
    BY <1>8, <1>9, <1>14, <1>15, <1>16

\* No request moves: a key is made or its cached row expires, or tokens run out.
LEMMA AaRests ==
    ASSUME AaInv, UNCHANGED <<aaReq, taken, suspended, audit, changes, lost>>,
           passes' \subseteq passes,
           keyRow' \in {"none", "live", "revoked"}, keyCache' \in BOOLEAN, lateFill' \in BOOLEAN,
           RevokedKeyRefused'
    PROVE  AaInv'
<1> USE DEF AaInv
<1>1. AaTypeOK' /\ AaTyped'
    BY DEF AaTypeOK, AaTyped
<1>2. ChangesAudited' /\ TokensAudited'
    BY DEF ChangesAudited, TokensAudited, AaAt
<1> QED
    BY <1>1, <1>2

\* The token is handed out after its audit row.
LEMMA ImpersonateKeeps ==
    ASSUME AaInv, NEW r \in AaReqs, Impersonate(r)
    PROVE  AaInv'
<1> USE DEF AaInv
<1>1. /\ audit' = [audit EXCEPT !["impersonation_start"] = @ + 1]
      /\ taken < MaxPasses /\ taken' = taken + 1 /\ passes' = passes \cup {taken + 1}
      /\ UNCHANGED <<suspended, changes, lost, aaReq, keyRow, keyCache, lateFill>>
    BY DEF Impersonate, keyVars
<1>2. /\ audit \in [AuditKinds -> Nat] /\ taken \in Nat /\ passes \subseteq 1 .. taken
      /\ MaxPasses \in Nat
    BY AaAssumption DEF AaTypeOK, AaTyped
<1>3. /\ audit' \in [AuditKinds -> Nat]
      /\ audit'["impersonation_start"] = audit["impersonation_start"] + 1
      /\ audit["impersonation_start"] \in Nat
      /\ \A a \in ChangeKinds : audit'[a] = audit[a]
    BY <1>1, <1>2 DEF ChangeKinds, AuditKinds
<1>4. passes' \subseteq 1 .. taken' /\ taken' <= MaxPasses /\ taken' \in Nat
    BY <1>1, <1>2
<1>5. AaTypeOK' /\ AaTyped'
    BY <1>1, <1>3, <1>4 DEF AaTypeOK, AaTyped
<1>6. ChangesAudited'
    BY <1>1, <1>3 DEF ChangesAudited, ChangeKinds, AaAt
<1>7. RevokedKeyRefused'
    BY <1>1 DEF RevokedKeyRefused, AaAt
<1>8. TokensAudited'
    BY <1>1, <1>2, <1>3 DEF TokensAudited
<1> QED
    BY <1>5, <1>6, <1>7, <1>8

\* Every step of the key, the impersonation and the suspension routes keeps the
\* invariant.
LEMMA AaStep ==
    ASSUME AaInv, [AaNext]_aaVars
    PROVE  AaInv'
<1>1. /\ keyRow \in {"none", "live", "revoked"} /\ keyCache \in BOOLEAN
      /\ lateFill \in BOOLEAN /\ suspended \in BOOLEAN
      /\ \A r \in AaReqs : aaReq[r] \in AaRecords
      /\ RevokedKeyRefused
    BY DEF AaInv, AaTypeOK, AaTyped
<1>2. AaIdle \in AaRecords /\ AaIdle.at = "idle"
    BY DEF AaIdle, AaRecords, AaLabels
<1>3. CASE CreateKey
    <2>1. RevokedKeyRefused'
        BY <1>3 DEF CreateKey, RevokedKeyRefused
    <2> QED
        BY <1>1, <1>3, <2>1, AaRests DEF CreateKey, passVars, statusVars
<1>4. CASE KeyExpire
    <2>1. RevokedKeyRefused'
        BY <1>4 DEF KeyExpire, RevokedKeyRefused
    <2> QED
        BY <1>1, <1>4, <2>1, AaRests DEF KeyExpire, passVars, statusVars
<1>5. ASSUME NEW p \in 1 .. MaxPasses, PassExpires(p) PROVE AaInv'
    <2>1. RevokedKeyRefused'
        BY <1>1, <1>5 DEF PassExpires, RevokedKeyRefused, keyVars, AaAt
    <2> QED
        BY <1>1, <1>5, <2>1, AaRests DEF PassExpires, keyVars, statusVars
<1>6. ASSUME NEW r \in AaReqs, KeyLookup(r) PROVE AaInv'
    <2>1. /\ [at |-> "fill", op |-> "key"] \in AaRecords
          /\ [at |-> "fill", op |-> "key"].at = "fill"
        BY DEF AaRecords, AaLabels
    <2>2. RevokedKeyRefused'
        BY <1>6 DEF KeyLookup, RevokedKeyRefused, keyVars
    <2>3. ~AaAt(r, "audit")
        BY <1>6 DEF KeyLookup, AaAt
    <2> QED
        BY <1>1, <1>6, <2>1, <2>2, <2>3, AaMoves DEF KeyLookup, keyVars, passVars, statusVars
<1>7. ASSUME NEW r \in AaReqs, KeyFill(r) PROVE AaInv'
    <2>1. RevokedKeyRefused'
        BY <1>7 DEF KeyFill, RevokedKeyRefused
    <2>2. ~AaAt(r, "audit") /\ keyCache' \in BOOLEAN /\ lateFill' \in BOOLEAN
        BY <1>1, <1>7 DEF KeyFill, AaAt
    <2> QED
        BY <1>1, <1>2, <1>7, <2>1, <2>2, AaMoves DEF KeyFill, passVars, statusVars
<1>8. ASSUME NEW r \in AaReqs, RevokeKey(r) PROVE AaInv'
    <2>1. /\ [at |-> "uncache", op |-> "key"] \in AaRecords
          /\ [at |-> "uncache", op |-> "key"].at = "uncache"
        BY DEF AaRecords, AaLabels
    <2>2. aaReq'[r] = [at |-> "uncache", op |-> "key"]
        BY <1>8, <2>1, AaTakes DEF RevokeKey, AaInv
    <2>3. RevokedKeyRefused'
        BY <2>1, <2>2 DEF RevokedKeyRefused, AaAt
    <2>4. ~AaAt(r, "audit")
        BY <1>8 DEF RevokeKey, AaAt
    <2> QED
        BY <1>1, <1>8, <2>1, <2>3, <2>4, AaMoves DEF RevokeKey, passVars, statusVars
<1>9. ASSUME NEW r \in AaReqs, UncacheKey(r) PROVE AaInv'
    <2>1. RevokedKeyRefused'
        BY <1>9 DEF UncacheKey, RevokedKeyRefused
    <2>2. ~AaAt(r, "audit")
        BY <1>9 DEF UncacheKey, AaAt
    <2> QED
        BY <1>1, <1>2, <1>9, <2>1, <2>2, AaMoves DEF UncacheKey, passVars, statusVars
<1>10. ASSUME NEW r \in AaReqs, NEW rec \in AaRecords, AaGo(r, rec), ~AaAt(r, "uncache"),
              UNCHANGED keyVars
       PROVE  RevokedKeyRefused'
    <2>1. \A q \in AaReqs \ {r} : aaReq'[q] = aaReq[q]
        BY <1>10, AaTakes DEF AaInv
    <2> QED
        BY <1>1, <1>10, <2>1 DEF RevokedKeyRefused, keyVars, AaAt
<1>11. ASSUME NEW r \in AaReqs, Impersonate(r) PROVE AaInv'
    BY <1>11, ImpersonateKeeps
<1>12. ASSUME NEW r \in AaReqs, NEW p \in 1 .. MaxPasses, ExitStart(r, p) PROVE AaInv'
    <2>1. [at |-> "exit", op |-> p] \in AaRecords /\ [at |-> "exit", op |-> p].at = "exit"
        BY DEF AaRecords, AaLabels
    <2>2. ~AaAt(r, "audit") /\ ~AaAt(r, "uncache") /\ AaGo(r, [at |-> "exit", op |-> p])
          /\ UNCHANGED keyVars
        BY <1>12 DEF ExitStart, AaAt
    <2>3. RevokedKeyRefused'
        BY <1>10, <2>1, <2>2
    <2> QED
        BY <1>1, <1>12, <2>1, <2>2, <2>3, AaMoves DEF ExitStart, keyVars, passVars, statusVars
<1>13. ASSUME NEW r \in AaReqs, ExitRevoke(r) PROVE AaInv'
    <2>1. /\ [at |-> "audit", op |-> "impersonation_end"] \in AaRecords
          /\ [at |-> "audit", op |-> "impersonation_end"].at = "audit"
          /\ [at |-> "audit", op |-> "impersonation_end"].op = "impersonation_end"
          /\ "impersonation_end" \in ChangeKinds
        BY DEF AaRecords, AaLabels, ChangeKinds, AuditKinds
    <2>2. ~AaAt(r, "audit") /\ ~AaAt(r, "uncache")
        BY <1>13 DEF ExitRevoke, AaAt
    <2>3. passes' \subseteq passes /\ UNCHANGED <<keyRow, keyCache, lateFill, taken, audit, lost, suspended>>
        BY <1>13 DEF ExitRevoke, keyVars
    <2> QED
        BY <1>1, <1>13, <2>1, <2>2, <2>3, JoinsAuditing DEF ExitRevoke
<1>14. ASSUME NEW r \in AaReqs, NEW op \in {"user_suspend", "user_unsuspend"}, Decide(r, op)
       PROVE  AaInv'
    <2>1. /\ [at |-> "write", op |-> op] \in AaRecords /\ op \in ChangeKinds
          /\ [at |-> "write", op |-> op].at = "write" /\ [at |-> "write", op |-> op].op = op
        BY DEF AaRecords, AaLabels, ChangeKinds, AuditKinds
    <2>2. ~AaAt(r, "audit") /\ ~AaAt(r, "uncache") /\ AaGo(r, [at |-> "write", op |-> op])
          /\ UNCHANGED keyVars
        BY <1>14 DEF Decide, AaAt
    <2>3. RevokedKeyRefused'
        BY <1>10, <2>1, <2>2
    <2> QED
        BY <1>1, <1>14, <2>1, <2>2, <2>3, AaMoves DEF Decide, keyVars, passVars, statusVars
<1>15. ASSUME NEW r \in AaReqs, SetStatus(r) PROVE AaInv'
    <2> DEFINE rec == [aaReq[r] EXCEPT !.at = "audit"]
    <2>1. /\ rec \in AaRecords /\ rec.at = "audit" /\ rec.op = aaReq[r].op
        BY <1>1 DEF AaRecords, AaLabels
    <2>2. AaAt(r, "write") /\ aaReq[r].op \in ChangeKinds
        BY <1>15 DEF SetStatus, AaInv, AaTyped, AaAt
    <2>3. ~AaAt(r, "audit") /\ ~AaAt(r, "uncache")
        BY <2>2 DEF AaAt
    <2>4. /\ AaGo(r, rec) /\ changes' = [changes EXCEPT ![rec.op] = @ + 1]
          /\ suspended' \in BOOLEAN /\ passes' \subseteq passes
          /\ UNCHANGED <<keyRow, keyCache, lateFill, taken, audit, lost>>
        BY <1>15, <2>1 DEF SetStatus, keyVars, passVars
    <2> HIDE DEF rec
    <2> QED
        BY <2>1, <2>2, <2>3, <2>4, JoinsAuditing
<1>16. ASSUME NEW r \in AaReqs, WriteAudit(r) PROVE AaInv'
    BY <1>16, WriteAuditKeeps
<1>17. CASE UNCHANGED aaVars
    <2>1. RevokedKeyRefused'
        BY <1>1, <1>17 DEF aaVars, RevokedKeyRefused, AaAt
    <2> QED
        BY <1>1, <1>17, <2>1, AaRests DEF aaVars
<1> QED
    BY <1>3, <1>4, <1>5, <1>6, <1>7, <1>8, <1>9, <1>11, <1>12, <1>13, <1>14, <1>15,
       <1>16, <1>17 DEF AaNext

\* There is no key, no token, no suspension and no audit row at the start.
LEMMA AaStart ==
    ASSUME AaInit
    PROVE  AaInv
<1>1. AaIdle \in AaRecords /\ AaIdle.at = "idle"
    BY DEF AaIdle, AaRecords, AaLabels
<1>2. \A r \in AaReqs : aaReq[r] = AaIdle
    BY DEF AaInit
<1>3. AaTypeOK
    <2>1. audit \in [AuditKinds -> Nat] /\ changes = audit /\ lost = audit
        BY DEF AaInit
    <2>2. passes \subseteq 1 .. taken /\ taken <= MaxPasses
        BY AaAssumption DEF AaInit
    <2> QED
        BY <1>1, <1>2, <2>1, <2>2 DEF AaTypeOK, AaInit
<1>4. AaTyped
    BY <1>1, <1>2 DEF AaTyped, AaInit
<1>5. RevokedKeyRefused /\ TokensAudited
    BY DEF RevokedKeyRefused, TokensAudited, AaInit, AuditKinds
<1>6. ChangesAudited
    <2>1. \A a : Auditing(a) = {}
        BY <1>1, <1>2 DEF Auditing, AaAt
    <2>2. \A a \in ChangeKinds : changes[a] = 0 /\ audit[a] = 0 /\ lost[a] = 0
        BY DEF AaInit, ChangeKinds
    <2> QED
        BY <2>1, <2>2, ChangesCounted, FS_EmptySet
<1> QED
    BY <1>3, <1>4, <1>5, <1>6 DEF AaInv

-------------------------------------------------------------------------------
(* Uploads and avatars *)

FieldLabels == {"idle", "put", "verify", "wait", "done", "abort", "removed", "error"}
AvLabels == {"idle", "update", "delete"}
AvRecords == [at : AvLabels, new : 0 .. ShareKey, old : 0 .. ShareKey]

FieldTyped ==
    /\ field \in [at : FieldLabels, tries : 0 .. MaxTries, file : {"valid", "invalid"}]
    /\ upObj \in {"none", "valid", "invalid"}
    /\ inServer \subseteq {"head"}
    /\ pendingRec \in BOOLEAN /\ urlLive \in BOOLEAN /\ confirmed \in BOOLEAN /\ saved \in BOOLEAN

\* The form has a key only of an upload the API committed, and what it committed
\* is in storage and can no longer be aborted.
CommittedStays == (saved => confirmed) /\ (confirmed => upObj = "valid" /\ ~pendingRec)

\* No verification is under way before the object was put.
VerifiedAfterPut == field.at \in {"idle", "put"} => ~confirmed /\ inServer = {}

\* From the presigning on the record is missing only if the upload was
\* committed, or aborted, or its time was over.
RecordMissing ==
    field.at # "idle" /\ ~pendingRec =>
        confirmed \/ ~urlLive \/ (field.at = "removed" /\ upObj = "none")

FileInv == FieldTyped /\ CommittedStays /\ VerifiedAfterPut /\ RecordMissing /\ RemovedMeansGone

AvTyped ==
    /\ avReq \in [AvReqs -> AvRecords]
    /\ \A r \in AvReqs : ~AvAt(r, "idle") => avReq[r].new \in AvKeys
    /\ avatar \in 0 .. ShareKey /\ avObjs \subseteq AvKeys /\ nextAv \in 0 .. MaxAvatars

\* The object a request is about to point the row at is in storage ...
NewAvatarStored == \A r \in AvReqs : AvAt(r, "update") => avReq[r].new \in avObjs \/ rewrote

\* ... and the one it is about to delete is not the one of the row, unless a key
\* was set again while a deletion of it was under way.
OldAvatarLeft ==
    \A r \in AvReqs : AvAt(r, "delete") =>
        avReq[r].old = avReq[r].new \/ avatar # avReq[r].old \/ rewrote

AvInv == AvTyped /\ NewAvatarStored /\ OldAvatarLeft /\ AvatarStored

UpInv == FileInv /\ AvInv

\* The field, the routes of the upload and the expiries keep their invariant.
LEMMA FileStep ==
    ASSUME FileInv,
           Presign \/ PutObject \/ UrlExpires \/ RecordExpires \/ SendVerify \/ Verify
             \/ Answer \/ Abort
    PROVE  FileInv' /\ UNCHANGED avVars
<1> USE DEF FileInv, FieldTyped, FieldLabels, CommittedStays, VerifiedAfterPut, RecordMissing,
            RemovedMeansGone, FieldGo
<1>1. CASE Presign
    BY <1>1 DEF Presign, MaxTries
<1>2. CASE PutObject
    BY <1>2 DEF PutObject
<1>3. CASE UrlExpires
    BY <1>3 DEF UrlExpires
<1>4. CASE RecordExpires
    BY <1>4 DEF RecordExpires
<1>5. CASE SendVerify
    <2>1. UNCHANGED avVars
        BY <1>5 DEF SendVerify
    <2>2. FieldTyped'
        <3>1. field.tries + 1 \in 0 .. MaxTries
            BY <1>5 DEF SendVerify, MaxTries
        <3>2. field' \in [at : FieldLabels, tries : 0 .. MaxTries, file : {"valid", "invalid"}]
            BY <1>5, <3>1 DEF SendVerify
        <3>3. inServer' \subseteq {"head"}
            BY <1>5 DEF SendVerify
        <3> QED
            BY <1>5, <3>2, <3>3 DEF SendVerify
    <2>3. CommittedStays' /\ VerifiedAfterPut' /\ RecordMissing' /\ RemovedMeansGone'
        BY <1>5 DEF SendVerify
    <2> QED
        BY <2>1, <2>2, <2>3
<1>6. CASE Verify
    <2>1. UNCHANGED avVars
        BY <1>6 DEF Verify
    <2>2. FieldTyped'
        BY <1>6 DEF Verify
    <2>3. CommittedStays' /\ VerifiedAfterPut'
        BY <1>6 DEF Verify
    <2>4. RecordMissing' /\ RemovedMeansGone'
        BY <1>6 DEF Verify
    <2> QED
        BY <2>1, <2>2, <2>3, <2>4
<1>7. CASE Answer
    <2>1. UNCHANGED avVars
        BY <1>7 DEF Answer
    <2>2. FieldTyped'
        BY <1>7 DEF Answer
    <2>3. CommittedStays' /\ VerifiedAfterPut'
        BY <1>7 DEF Answer
    <2>4. RecordMissing' /\ RemovedMeansGone'
        BY <1>7 DEF Answer
    <2> QED
        BY <2>1, <2>2, <2>3, <2>4
<1>8. CASE Abort
    <2>1. UNCHANGED avVars
        BY <1>8 DEF Abort
    <2>2. FieldTyped'
        BY <1>8 DEF Abort
    <2>3. CommittedStays' /\ VerifiedAfterPut'
        BY <1>8 DEF Abort
    <2>4. RecordMissing' /\ RemovedMeansGone'
        BY <1>8 DEF Abort
    <2> QED
        BY <2>1, <2>2, <2>3, <2>4
<1> QED
    BY <1>1, <1>2, <1>3, <1>4, <1>5, <1>6, <1>7, <1>8

\* The keys of avatars are numbered from 1, the key of an upload is the last.
LEMMA AvKeysOrdered ==
    /\ ShareKey \in AvKeys /\ ShareKey \in 0 .. ShareKey /\ 0 \in 0 .. ShareKey
    /\ \A n \in 0 .. MaxAvatars : n < MaxAvatars => n + 1 \in AvKeys /\ n + 1 \in 0 .. MaxAvatars
    /\ \A k \in AvKeys : k \in 0 .. ShareKey /\ k # 0
    /\ 0 \in 0 .. MaxAvatars
BY UpAssumption DEF ShareKey, AvKeys

\* One avatar request takes another record.
LEMMA AvTakes ==
    ASSUME AvTyped, NEW r \in AvReqs, NEW rec \in AvRecords, AvGo(r, rec),
           rec.at # "idle" => rec.new \in AvKeys,
           avatar' \in 0 .. ShareKey, avObjs' \subseteq AvKeys, nextAv' \in 0 .. MaxAvatars
    PROVE  /\ AvTyped'
           /\ avReq'[r] = rec
           /\ \A q \in AvReqs \ {r} : avReq'[q] = avReq[q]
<1>1. /\ avReq' \in [AvReqs -> AvRecords]
      /\ avReq'[r] = rec
      /\ \A q \in AvReqs \ {r} : avReq'[q] = avReq[q]
    BY DEF AvTyped, AvGo
<1>2. AvTyped'
    BY <1>1 DEF AvTyped, AvAt
<1> QED
    BY <1>1, <1>2

\* An object is stored and the request is about to point the row at it.
LEMMA AvatarStores ==
    ASSUME AvInv, NEW r \in AvReqs, NEW k \in AvKeys, AvAt(r, "idle"),
           avObjs' = avObjs \cup {k}, AvGo(r, [at |-> "update", new |-> k, old |-> avatar]),
           nextAv' \in 0 .. MaxAvatars, UNCHANGED avatar, rewrote => rewrote'
    PROVE  AvInv'
<1> USE DEF AvInv
<1> DEFINE rec == [at |-> "update", new |-> k, old |-> avatar]
<1>1. rec \in AvRecords /\ rec.at = "update" /\ rec.new = k
    BY AvKeysOrdered DEF AvRecords, AvLabels, AvTyped
<1> HIDE DEF rec
<1>2. AvGo(r, rec)
    BY DEF rec
<1>3. AvTyped' /\ avReq'[r] = rec /\ \A q \in AvReqs \ {r} : avReq'[q] = avReq[q]
    BY <1>1, <1>2, AvTakes DEF AvTyped
<1>4. NewAvatarStored'
    BY <1>1, <1>3 DEF NewAvatarStored, AvAt
<1>5. OldAvatarLeft'
    BY <1>1, <1>3 DEF OldAvatarLeft, AvAt
<1>6. AvatarStored'
    BY DEF AvatarStored
<1> QED
    BY <1>3, <1>4, <1>5, <1>6

\* The avatar's requests keep their invariant.
LEMMA AvStep ==
    ASSUME AvInv, NEW r \in AvReqs,
           StoreAvatar(r) \/ OptimizeAvatar(r) \/ PointAvatar(r) \/ DeleteOldAvatar(r)
    PROVE  AvInv' /\ UNCHANGED fileVars
<1> USE DEF AvInv
<1>1. CASE StoreAvatar(r)
    <2>1. /\ nextAv < MaxAvatars /\ nextAv \in 0 .. MaxAvatars /\ nextAv' = nextAv + 1
          /\ AvAt(r, "idle") /\ avObjs' = avObjs \cup {nextAv + 1}
          /\ AvGo(r, [at |-> "update", new |-> nextAv + 1, old |-> avatar])
          /\ UNCHANGED <<avatar, rewrote>> /\ UNCHANGED fileVars
        BY <1>1 DEF StoreAvatar, AvTyped
    <2>2. nextAv + 1 \in AvKeys /\ nextAv' \in 0 .. MaxAvatars
        BY <2>1, AvKeysOrdered
    <2> QED
        BY <2>1, <2>2, AvatarStores
<1>2. CASE OptimizeAvatar(r)
    <2>1. /\ AvAt(r, "idle") /\ avObjs' = avObjs \cup {ShareKey}
          /\ AvGo(r, [at |-> "update", new |-> ShareKey, old |-> avatar])
          /\ UNCHANGED <<avatar, nextAv>> /\ UNCHANGED fileVars /\ (rewrote => rewrote')
        BY <1>2 DEF OptimizeAvatar
    <2>2. nextAv' \in 0 .. MaxAvatars
        BY <2>1 DEF AvTyped
    <2> QED
        BY <2>1, <2>2, AvatarStores, AvKeysOrdered
<1>3. CASE PointAvatar(r)
    <2> DEFINE rec == [avReq[r] EXCEPT !.at = "delete"]
    <2>1. /\ AvAt(r, "update") /\ AvGo(r, rec) /\ avatar' = avReq[r].new
          /\ rewrote' = (rewrote \/ \E q \in AvReqs \ {r} : avReq[q].old = avReq[r].new)
          /\ UNCHANGED <<avObjs, nextAv>> /\ UNCHANGED fileVars
        BY <1>3 DEF PointAvatar
    <2>2. /\ rec \in AvRecords /\ rec.at = "delete" /\ rec.new = avReq[r].new
          /\ rec.old = avReq[r].old /\ rec.new \in AvKeys /\ rec.new \in 0 .. ShareKey
        BY <2>1 DEF AvRecords, AvLabels, AvTyped, AvAt
    <2> HIDE DEF rec
    <2>3. AvTyped' /\ avReq'[r] = rec /\ \A q \in AvReqs \ {r} : avReq'[q] = avReq[q]
        BY <2>1, <2>2, AvTakes DEF AvTyped
    <2>4. NewAvatarStored'
        BY <2>1, <2>2, <2>3 DEF NewAvatarStored, AvAt
    <2>5. OldAvatarLeft'
        BY <2>1, <2>2, <2>3 DEF OldAvatarLeft, AvAt
    <2>6. AvatarStored'
        BY <2>1 DEF AvatarStored, NewAvatarStored
    <2> QED
        BY <2>1, <2>3, <2>4, <2>5, <2>6
<1>4. CASE DeleteOldAvatar(r)
    <2>1. /\ AvAt(r, "delete") /\ AvGo(r, AvIdle)
          /\ \/ avObjs' = IF avReq[r].old = avReq[r].new THEN avObjs ELSE avObjs \ {avReq[r].old}
             \/ avObjs' = avObjs
          /\ rewrote' = (rewrote \/ (avReq[r].old # 0
                                     /\ \E q \in AvReqs \ {r} : avReq[q].new = avReq[r].old))
          /\ UNCHANGED <<avatar, nextAv>> /\ UNCHANGED fileVars
        BY <1>4 DEF DeleteOldAvatar
    <2>2. AvIdle \in AvRecords /\ AvIdle.at = "idle"
        BY AvKeysOrdered DEF AvIdle, AvRecords, AvLabels
    <2>3. AvTyped' /\ avReq'[r] = AvIdle /\ \A q \in AvReqs \ {r} : avReq'[q] = avReq[q]
        BY <2>1, <2>2, AvTakes DEF AvTyped
    <2>4. NewAvatarStored'
        <3> SUFFICES ASSUME NEW q \in AvReqs, AvAt(q, "update")'
                     PROVE  (avReq[q].new \in avObjs \/ rewrote)'
            BY DEF NewAvatarStored
        <3>1. q # r /\ AvAt(q, "update") /\ avReq'[q] = avReq[q] /\ avReq[q].new # 0
            BY <2>2, <2>3, AvKeysOrdered DEF AvAt, AvTyped
        <3> QED
            BY <2>1, <3>1 DEF NewAvatarStored
    <2>5. OldAvatarLeft'
        BY <2>1, <2>2, <2>3 DEF OldAvatarLeft, AvAt
    <2>6. AvatarStored'
        BY <2>1 DEF AvatarStored, OldAvatarLeft
    <2> QED
        BY <2>1, <2>3, <2>4, <2>5, <2>6
<1> QED
    BY <1>1, <1>2, <1>3, <1>4

\* Every step of the files keeps their invariant.
LEMMA UpStep ==
    ASSUME UpInv, [UpNext]_upVars
    PROVE  UpInv'
<1>1. ASSUME FileInv, UNCHANGED fileVars PROVE FileInv'
    BY <1>1 DEF fileVars, FileInv, FieldTyped, CommittedStays, VerifiedAfterPut, RecordMissing,
       RemovedMeansGone
<1>2. ASSUME AvInv, UNCHANGED avVars PROVE AvInv'
    BY <1>2 DEF avVars, AvInv, AvTyped, NewAvatarStored, OldAvatarLeft, AvatarStored, AvAt
<1>3. CASE \E r \in AvReqs :
             StoreAvatar(r) \/ OptimizeAvatar(r) \/ PointAvatar(r) \/ DeleteOldAvatar(r)
    BY <1>1, <1>3, AvStep DEF UpInv
<1>4. CASE Presign \/ PutObject \/ UrlExpires \/ RecordExpires \/ SendVerify \/ Verify
             \/ Answer \/ Abort
    BY <1>2, <1>4, FileStep DEF UpInv
<1>5. CASE UNCHANGED upVars
    BY <1>1, <1>2, <1>5 DEF upVars, UpInv
<1> QED
    BY <1>3, <1>4, <1>5 DEF UpNext

\* At first there is no file and no avatar.
LEMMA UpStart ==
    ASSUME UpInit
    PROVE  UpInv
<1>1. AvIdle \in AvRecords /\ AvIdle.at = "idle"
    BY AvKeysOrdered DEF AvIdle, AvRecords, AvLabels
<1>2. AvInv
    BY <1>1, AvKeysOrdered DEF UpInit, AvInv, AvTyped, NewAvatarStored, OldAvatarLeft,
       AvatarStored, AvAt
<1>3. FieldTyped
    <2>1. field = [at |-> "idle", tries |-> 0, file |-> "valid"]
        BY DEF UpInit
    <2>2. field \in [at : FieldLabels, tries : 0 .. MaxTries, file : {"valid", "invalid"}]
        BY <2>1 DEF FieldLabels, MaxTries
    <2> QED
        BY <2>2 DEF UpInit, FieldTyped
<1>4. CommittedStays /\ VerifiedAfterPut /\ RecordMissing /\ RemovedMeansGone
    BY DEF UpInit, CommittedStays, VerifiedAfterPut, RecordMissing, RemovedMeansGone
<1> QED
    BY <1>2, <1>3, <1>4 DEF UpInv, FileInv

-------------------------------------------------------------------------------
(* Challenges of a brand and their questions *)

AuLabels == {"idle", "insert", "questions", "copy", "delete", "write"}
AuRecords == [at : AuLabels, c : Chs \cup {0}, round : 0 .. 3, id : Chs \cup Nat]
ChRecords == [st : {"none", "pending_deposit", "active", "cancelled", "ended"},
              memo : BOOLEAN, del : BOOLEAN]
OnChallenge == {"questions", "copy", "delete", "write"}
OnRound == {"questions", "delete", "write"}

\* What a request knows where it stands: a challenge, a round, a source.
AuHolds(rec) ==
    /\ rec.at \in OnChallenge => rec.c \in Chs
    /\ rec.at \in OnRound => rec.round \in RoundNos
    /\ rec.at = "copy" => rec.id \in Chs

AuTyped ==
    /\ ch \in [Chs -> ChRecords] /\ quest \in [Chs -> [RoundNos -> Nat]] /\ regens \in Nat
    /\ auReq \in [AuReqs -> AuRecords]
    /\ \A r \in AuReqs : AuHolds(auReq[r])

\* Questions and requests are of challenges that have their row; createChallenge
\* gives it a memo, a duplication does not, and without one no deposit arrives.
RowsComeFirst ==
    /\ \A c \in Chs : ~Rows(c) => \A k \in RoundNos : quest[c][k] = 0
    /\ \A r \in AuReqs : auReq[r].at \in OnChallenge => Rows(auReq[r].c)
    /\ \A r \in AuReqs : AuAt(r, "questions") => ch[auReq[r].c].memo
    /\ \A r \in AuReqs : AuAt(r, "copy") => ~ch[auReq[r].c].memo
    /\ \A c \in Chs : ch[c].st = "active" => ch[c].memo

\* A challenge's first questions are written by one request.
OneAuthor ==
    \A r, q \in AuReqs :
        AuAt(r, "questions") /\ AuAt(q, "questions") /\ auReq[r].c = auReq[q].c => r = q

\* A duplicate is empty until its questions are copied, and nobody else is at it.
CopyIsFirst ==
    \A r \in AuReqs : AuAt(r, "copy") =>
        /\ \A k \in RoundNos : quest[auReq[r].c][k] = 0
        /\ \A q \in AuReqs : auReq[q].at \in OnChallenge /\ auReq[q].c = auReq[r].c => q = r

\* The rounds a request is still to write have no question, and nobody is about
\* to write one there.
Unwritten(r, k) ==
    /\ quest[auReq[r].c][k] = 0
    /\ \A q \in AuReqs : auReq[q].at \in {"delete", "write"} /\ auReq[q].c = auReq[r].c
         => auReq[q].round # k

RestUnwritten ==
    Sparse(kit) \/
    \A r \in AuReqs : AuAt(r, "questions") =>
        \A i \in RoundNos : auReq[r].round <= i => Unwritten(r, GeneratedRounds(kit)[i])

\* A round of a challenge has its question, or somebody is about to write it.
Served(c, k) ==
    \/ quest[c][k] # 0
    \/ \E r \in AuReqs : AuAt(r, "write") /\ auReq[r].c = c /\ auReq[r].round = k
    \/ \E r \in AuReqs : /\ AuAt(r, "questions") /\ auReq[r].c = c
                         /\ \E i \in RoundNos : /\ auReq[r].round <= i
                                                /\ GeneratedRounds(kit)[i] = k

AllServed ==
    Sparse(kit) \/
    \A c \in Chs : Rows(c) /\ ch[c].memo /\ c \notin hurt => \A k \in RoundNos : Served(c, k)

AuInv ==
    /\ AuTyped /\ RowsComeFirst /\ OneAuthor /\ CopyIsFirst
    /\ RestUnwritten /\ AllServed
    /\ DeletedBrandClosed

\* The questions a kit generates are for rounds of the challenge; where no two
\* are for the same one, every round gets one.
LEMMA RoundsGenerated ==
    ASSUME NEW k
    PROVE  /\ \A i \in RoundNos : GeneratedRounds(k)[i] \in RoundNos
           /\ ~Sparse(k) => \A n \in RoundNos : \E i \in RoundNos : GeneratedRounds(k)[i] = n
<1>1. KitRounds(k) \in Seq(RoundNos)
    <2> DEFINE a == IF "tagline" \in k THEN <<1>> ELSE <<>>
               b == IF "usp" \in k THEN <<2>> ELSE <<>>
               c == IF "image" \in k THEN <<3>> ELSE <<>>
    <2>1. 1 \in RoundNos /\ 2 \in RoundNos /\ 3 \in RoundNos
        BY DEF RoundNos
    <2>2. a \in Seq(RoundNos) /\ b \in Seq(RoundNos) /\ c \in Seq(RoundNos)
        BY <2>1
    <2>3. KitRounds(k) = (a \o b) \o c
        BY DEF KitRounds
    <2> HIDE DEF a, b, c
    <2> QED
        BY <2>2, <2>3
<1>2. \A i \in RoundNos : i <= Len(KitRounds(k)) => KitRounds(k)[i] \in RoundNos
    <2> DEFINE s == KitRounds(k)
    <2> HIDE DEF s
    <2>1. s \in Seq(RoundNos) => \A i \in 1 .. Len(s) : s[i] \in RoundNos
        OBVIOUS
    <2>2. s \in Seq(RoundNos) => Len(s) \in Nat
        OBVIOUS
    <2> QED
        BY <1>1, <2>1, <2>2 DEF RoundNos, s
<1>3. \A i \in RoundNos : GeneratedRounds(k)[i] \in RoundNos
    BY <1>2 DEF GeneratedRounds
<1> DEFINE g == GeneratedRounds(k)
<1>4. Sparse(k) <=> \E i, j \in RoundNos : i # j /\ g[i] = g[j]
    BY DEF Sparse
<1> HIDE DEF g
<1>5. \A i \in RoundNos : g[i] \in RoundNos
    BY <1>3 DEF g
<1>6. ~Sparse(k) => \A n \in RoundNos : \E i \in RoundNos : g[i] = n
    <2> SUFFICES ASSUME ~Sparse(k), NEW n \in RoundNos PROVE \E i \in RoundNos : g[i] = n
        OBVIOUS
    <2>1. 1 \in RoundNos /\ 2 \in RoundNos /\ 3 \in RoundNos
        BY DEF RoundNos
    <2>2. g[1] # g[2] /\ g[1] # g[3] /\ g[2] # g[3]
        BY <1>4, <2>1
    <2>3. g[1] \in 1 .. 3 /\ g[2] \in 1 .. 3 /\ g[3] \in 1 .. 3 /\ n \in 1 .. 3
        BY <1>5, <2>1 DEF RoundNos
    <2>4. n = g[1] \/ n = g[2] \/ n = g[3]
        BY <2>2, <2>3
    <2> QED
        BY <2>1, <2>4
<1> QED
    BY <1>3, <1>6 DEF g

\* One request takes another record.
LEMMA AuTakes ==
    ASSUME AuTyped, NEW r \in AuReqs, NEW rec \in AuRecords, AuGo(r, rec), AuHolds(rec),
           ch' \in [Chs -> ChRecords], quest' \in [Chs -> [RoundNos -> Nat]], regens' \in Nat
    PROVE  /\ AuTyped'
           /\ auReq'[r] = rec
           /\ \A q \in AuReqs \ {r} : auReq'[q] = auReq[q]
<1>1. /\ auReq' \in [AuReqs -> AuRecords]
      /\ auReq'[r] = rec
      /\ \A q \in AuReqs \ {r} : auReq'[q] = auReq[q]
    BY DEF AuTyped, AuGo
<1>2. \A q \in AuReqs : AuHolds(auReq'[q])
    BY <1>1 DEF AuTyped
<1> QED
    BY <1>1, <1>2 DEF AuTyped, AuHolds

\* Facts every step starts from.
LEMMA AuFacts ==
    ASSUME AuTyped
    PROVE  /\ AuIdle \in AuRecords /\ AuHolds(AuIdle) /\ AuIdle.at = "idle"
           /\ \A r \in AuReqs : auReq[r] \in AuRecords /\ AuHolds(auReq[r])
           /\ \A c \in Chs : c # 0 /\ ch[c] \in ChRecords
           /\ \A c \in Chs : \A k \in RoundNos : quest[c][k] \in Nat
<1>1. 0 \in 0 .. 3 /\ 0 \in Nat
    OBVIOUS
<1>2. AuIdle \in AuRecords /\ AuHolds(AuIdle) /\ AuIdle.at = "idle"
    BY <1>1 DEF AuIdle, AuRecords, AuLabels, AuHolds, OnChallenge, OnRound
<1> QED
    BY <1>2, AuAssumption DEF AuTyped

\* Challenges change their status, and nothing else.
LEMMA StatusMoves ==
    ASSUME AuInv, ch' \in [Chs -> ChRecords], UNCHANGED <<kit, quest, regens, hurt, auReq>>,
           \A c \in Chs : Rows(c)' = Rows(c) /\ ch'[c].memo = ch[c].memo,
           \A c \in Chs : ch'[c].st = "active" => ch[c].memo,
           DeletedBrandClosed'
    PROVE  AuInv'
<1> USE DEF AuInv
<1>1. AuTyped'
    BY DEF AuTyped
<1>2. \A r \in AuReqs : auReq[r].at \in OnChallenge => auReq[r].c \in Chs
    BY DEF AuTyped, AuHolds
<1>3. RowsComeFirst'
    BY <1>2 DEF RowsComeFirst, AuAt, OnChallenge
<1>4. OneAuthor' /\ CopyIsFirst' /\ RestUnwritten'
    BY DEF OneAuthor, CopyIsFirst, RestUnwritten, Unwritten, AuAt
<1>5. AllServed'
    BY DEF AllServed, Served, AuAt
<1> QED
    BY <1>1, <1>3, <1>4, <1>5

\* A request comes to where it is on no challenge; one that was to write a
\* question leaves none out, or its challenge is hurt.
LEMMA AuRests ==
    ASSUME AuInv, NEW r \in AuReqs, NEW rec \in AuRecords, AuGo(r, rec),
           rec.at \notin OnChallenge,
           UNCHANGED <<brandLive, kit, ch, quest, regens, tardy>>, hurt \subseteq hurt',
           auReq[r].at \in {"questions", "write"} =>
               \/ auReq[r].c \in hurt' \/ Sparse(kit)
               \/ AuAt(r, "write") /\ quest[auReq[r].c][auReq[r].round] # 0
    PROVE  AuInv'
<1> USE DEF AuInv
<1>1. AuHolds(rec)
    BY DEF AuHolds, OnChallenge, OnRound
<1>2. AuTyped' /\ auReq'[r] = rec /\ \A q \in AuReqs \ {r} : auReq'[q] = auReq[q]
    BY <1>1, AuTakes DEF AuTyped
<1>3. RowsComeFirst'
    BY <1>2 DEF RowsComeFirst, Rows, AuAt, OnChallenge
<1>4. OneAuthor' /\ CopyIsFirst'
    BY <1>2 DEF OneAuthor, CopyIsFirst, AuAt, OnChallenge
<1>5. RestUnwritten'
    BY <1>2 DEF RestUnwritten, Unwritten, AuAt, OnChallenge
<1>6. AllServed'
    <2> SUFFICES ASSUME ~Sparse(kit), NEW c \in Chs, Rows(c), ch[c].memo, c \notin hurt',
                        NEW k \in RoundNos
                 PROVE  Served(c, k)'
        BY DEF AllServed, Rows
    <2>1. Served(c, k)
        BY DEF AllServed
    <2>2. CASE quest[c][k] # 0
        BY <2>2 DEF Served
    <2>3. ASSUME NEW q \in AuReqs, AuAt(q, "write"), auReq[q].c = c, auReq[q].round = k
          PROVE  Served(c, k)'
        <3>1. CASE q = r
            BY <2>3, <3>1 DEF Served, AuAt
        <3>2. CASE q # r
            BY <1>2, <2>3, <3>2 DEF Served, AuAt
        <3> QED
            BY <3>1, <3>2
    <2>4. ASSUME NEW q \in AuReqs, AuAt(q, "questions"), auReq[q].c = c,
                 \E i \in RoundNos : auReq[q].round <= i /\ GeneratedRounds(kit)[i] = k
          PROVE  Served(c, k)'
        <3>1. q # r
            BY <2>4 DEF AuAt
        <3> QED
            BY <1>2, <2>4, <3>1 DEF Served, AuAt
    <2> QED
        BY <2>1, <2>2, <2>3, <2>4 DEF Served
<1>7. DeletedBrandClosed'
    BY DEF DeletedBrandClosed
<1> QED
    BY <1>2, <1>3, <1>4, <1>5, <1>6, <1>7

\* A new row is empty, and no request is on it.
LEMMA FreshRow ==
    ASSUME AuInv, NEW d \in Chs, ~Rows(d)
    PROVE  /\ \A k \in RoundNos : quest[d][k] = 0
           /\ \A q \in AuReqs : auReq[q].at \in OnChallenge => auReq[q].c # d
BY DEF AuInv, RowsComeFirst

\* createChallenge: all rounds are still to be written.
LEMMA CreateChallengeKeeps ==
    ASSUME AuInv, NEW r \in AuReqs, CreateChallenge(r)
    PROVE  AuInv'
<1> USE DEF AuInv
<1>1. PICK d \in Chs :
         /\ ~Rows(d)
         /\ ch' = [ch EXCEPT ![d] = [NoCh EXCEPT !.st = "pending_deposit", !.memo = TRUE]]
         /\ tardy' = IF brandLive THEN tardy ELSE tardy \cup {d}
         /\ AuGo(r, [AuIdle EXCEPT !.at = "questions", !.c = d, !.round = 1])
    BY DEF CreateChallenge
<1>2. AuAt(r, "insert") /\ UNCHANGED <<kit, brandLive, quest, regens, hurt>>
    BY DEF CreateChallenge
<1> DEFINE rec == [AuIdle EXCEPT !.at = "questions", !.c = d, !.round = 1]
           row == [NoCh EXCEPT !.st = "pending_deposit", !.memo = TRUE]
<1>3. rec \in AuRecords /\ AuHolds(rec) /\ rec.at = "questions" /\ rec.c = d /\ rec.round = 1
    <2>1. 0 \in 0 .. 3 /\ 1 \in 0 .. 3 /\ 0 \in Nat /\ 1 \in RoundNos
        BY DEF RoundNos
    <2> QED
        BY <2>1 DEF AuIdle, AuRecords, AuLabels, AuHolds, OnChallenge, OnRound
<1>4. row \in ChRecords /\ row.st = "pending_deposit" /\ row.memo
    BY DEF NoCh, ChRecords
<1>5. AuGo(r, rec) /\ ch' = [ch EXCEPT ![d] = row]
    BY <1>1
<1> HIDE DEF rec, row
<1>6. /\ ch' \in [Chs -> ChRecords] /\ ch'[d] = row
      /\ \A c \in Chs \ {d} : ch'[c] = ch[c]
    BY <1>4, <1>5 DEF AuTyped
<1>7. AuTyped' /\ auReq'[r] = rec /\ \A q \in AuReqs \ {r} : auReq'[q] = auReq[q]
    BY <1>2, <1>3, <1>5, <1>6, AuTakes DEF AuTyped
<1>8. /\ \A q \in AuReqs : auReq[q].at \in OnChallenge => auReq[q].c # d /\ auReq[q].c \in Chs
      /\ \A k \in RoundNos : quest[d][k] = 0
    BY <1>1, FreshRow DEF AuTyped, AuHolds
<1>9. RowsComeFirst'
    BY <1>2, <1>3, <1>4, <1>6, <1>7, <1>8 DEF RowsComeFirst, Rows, AuAt, OnChallenge
<1>10. OneAuthor' /\ CopyIsFirst'
    BY <1>2, <1>3, <1>7, <1>8 DEF OneAuthor, CopyIsFirst, AuAt, OnChallenge
<1>11. RestUnwritten'
    <2> SUFFICES ASSUME ~Sparse(kit), NEW q \in AuReqs, AuAt(q, "questions")',
                        NEW i \in RoundNos, auReq'[q].round <= i
                 PROVE  Unwritten(q, GeneratedRounds(kit)[i])'
        BY <1>2 DEF RestUnwritten
    <2>1. GeneratedRounds(kit)[i] \in RoundNos
        BY RoundsGenerated
    <2>2. CASE q = r
        BY <1>2, <1>3, <1>7, <1>8, <2>1, <2>2 DEF Unwritten, OnChallenge
    <2>3. CASE q # r
        <3>1. AuAt(q, "questions") /\ auReq[q].round <= i
            BY <1>7, <2>3 DEF AuAt
        <3>2. Unwritten(q, GeneratedRounds(kit)[i])
            BY <3>1 DEF RestUnwritten
        <3> QED
            BY <1>2, <1>3, <1>7, <2>3, <3>2 DEF Unwritten
    <2> QED
        BY <2>2, <2>3
<1>12. AllServed'
    <2> SUFFICES ASSUME ~Sparse(kit), NEW c \in Chs, Rows(c)', ch'[c].memo, c \notin hurt,
                        NEW k \in RoundNos
                 PROVE  Served(c, k)'
        BY <1>2 DEF AllServed
    <2>1. CASE c = d
        <3>1. PICK i \in RoundNos : GeneratedRounds(kit)[i] = k
            BY RoundsGenerated
        <3>2. rec.round <= i
            BY <1>3 DEF RoundNos
        <3> QED
            BY <1>2, <1>3, <1>7, <2>1, <3>1, <3>2 DEF Served, AuAt
    <2>2. CASE c # d
        <3>1. Served(c, k)
            BY <1>6, <2>2 DEF AllServed, Rows
        <3> QED
            BY <1>2, <1>7, <3>1 DEF Served, AuAt
    <2> QED
        BY <2>1, <2>2
<1>13. DeletedBrandClosed'
    BY <1>1, <1>2, <1>6 DEF DeletedBrandClosed
<1> QED
    BY <1>7, <1>9, <1>10, <1>11, <1>12, <1>13

\* A duplicate's row comes before its questions, and has no memo.
LEMMA DuplicateInsertKeeps ==
    ASSUME AuInv, NEW r \in AuReqs, NEW s \in Chs, DuplicateInsert(r, s)
    PROVE  AuInv'
<1> USE DEF AuInv
<1>1. PICK d \in Chs :
         /\ ~Rows(d)
         /\ ch' = [ch EXCEPT ![d] = [NoCh EXCEPT !.st = "pending_deposit"]]
         /\ AuGo(r, [at |-> "copy", c |-> d, round |-> 0, id |-> s])
    BY DEF DuplicateInsert
<1>2. /\ AuAt(r, "idle") /\ brandLive
      /\ UNCHANGED <<kit, brandLive, quest, regens, hurt, tardy>>
    BY DEF DuplicateInsert
<1> DEFINE rec == [at |-> "copy", c |-> d, round |-> 0, id |-> s]
           row == [NoCh EXCEPT !.st = "pending_deposit"]
<1>3. rec \in AuRecords /\ AuHolds(rec) /\ rec.at = "copy" /\ rec.c = d /\ rec.id = s
    <2>1. 0 \in 0 .. 3
        OBVIOUS
    <2> QED
        BY <2>1 DEF AuRecords, AuLabels, AuHolds, OnChallenge, OnRound
<1>4. row \in ChRecords /\ row.st = "pending_deposit" /\ ~row.memo
    BY DEF NoCh, ChRecords
<1>5. AuGo(r, rec) /\ ch' = [ch EXCEPT ![d] = row]
    BY <1>1
<1> HIDE DEF rec, row
<1>6. /\ ch' \in [Chs -> ChRecords] /\ ch'[d] = row
      /\ \A c \in Chs \ {d} : ch'[c] = ch[c]
    BY <1>4, <1>5 DEF AuTyped
<1>7. AuTyped' /\ auReq'[r] = rec /\ \A q \in AuReqs \ {r} : auReq'[q] = auReq[q]
    BY <1>2, <1>3, <1>5, <1>6, AuTakes DEF AuTyped
<1>8. /\ \A q \in AuReqs : auReq[q].at \in OnChallenge => auReq[q].c # d /\ auReq[q].c \in Chs
      /\ \A k \in RoundNos : quest[d][k] = 0
    BY <1>1, FreshRow DEF AuTyped, AuHolds
<1>9. RowsComeFirst'
    BY <1>2, <1>3, <1>4, <1>6, <1>7, <1>8 DEF RowsComeFirst, Rows, AuAt, OnChallenge
<1>10. OneAuthor' /\ CopyIsFirst'
    BY <1>2, <1>3, <1>7, <1>8 DEF OneAuthor, CopyIsFirst, AuAt, OnChallenge
<1>11. RestUnwritten'
    BY <1>2, <1>3, <1>7 DEF RestUnwritten, Unwritten, AuAt
<1>12. AllServed'
    <2> SUFFICES ASSUME ~Sparse(kit), NEW c \in Chs, Rows(c)', ch'[c].memo, c \notin hurt,
                        NEW k \in RoundNos
                 PROVE  Served(c, k)'
        BY <1>2 DEF AllServed
    <2>1. Served(c, k)
        BY <1>4, <1>6 DEF AllServed, Rows
    <2> QED
        BY <1>2, <1>7, <2>1 DEF Served, AuAt
<1>13. DeletedBrandClosed'
    BY <1>2 DEF DeletedBrandClosed
<1> QED
    BY <1>7, <1>9, <1>10, <1>11, <1>12, <1>13

\* The copy writes questions where there were none, of a challenge that no
\* deposit reaches.
LEMMA DuplicateCopyKeeps ==
    ASSUME AuInv, NEW r \in AuReqs, DuplicateCopy(r)
    PROVE  AuInv'
<1> USE DEF AuInv
<1> DEFINE d == auReq[r].c
           s == auReq[r].id
<1>1. /\ AuAt(r, "copy") /\ AuGo(r, AuIdle) /\ quest' = [quest EXCEPT ![d] = quest[s]]
      /\ hurt \subseteq hurt' /\ UNCHANGED <<kit, brandLive, ch, regens, tardy>>
    BY DEF DuplicateCopy
<1>2. d \in Chs /\ s \in Chs /\ Rows(d) /\ ~ch[d].memo
    BY <1>1 DEF AuTyped, AuHolds, AuAt, OnChallenge, RowsComeFirst
<1>3. /\ quest' \in [Chs -> [RoundNos -> Nat]]
      /\ \A c \in Chs \ {d} : quest'[c] = quest[c]
    BY <1>1, <1>2 DEF AuTyped
<1>4. AuTyped' /\ auReq'[r] = AuIdle /\ \A q \in AuReqs \ {r} : auReq'[q] = auReq[q]
    BY <1>1, <1>3, AuTakes, AuFacts DEF AuTyped
<1>5. \A q \in AuReqs : q # r /\ auReq[q].at \in OnChallenge => auReq[q].c # d /\ auReq[q].c \in Chs
    BY <1>1 DEF CopyIsFirst, AuTyped, AuHolds
<1> HIDE DEF d, s
<1>6. AuIdle.at = "idle"
    BY AuFacts
<1>7. RowsComeFirst'
    BY <1>1, <1>2, <1>3, <1>4, <1>6 DEF RowsComeFirst, Rows, AuAt, OnChallenge
<1>8. OneAuthor'
    BY <1>4, <1>6 DEF OneAuthor, AuAt
<1>9. CopyIsFirst'
    <2> SUFFICES ASSUME NEW q \in AuReqs, AuAt(q, "copy")'
                 PROVE  /\ \A k \in RoundNos : quest'[auReq'[q].c][k] = 0
                        /\ \A p \in AuReqs : auReq'[p].at \in OnChallenge
                                             /\ auReq'[p].c = auReq'[q].c => p = q
        BY DEF CopyIsFirst
    <2>1. q # r /\ AuAt(q, "copy") /\ auReq'[q] = auReq[q]
        BY <1>4, <1>6 DEF AuAt
    <2>2. auReq[q].c # d /\ auReq[q].c \in Chs
        BY <1>5, <2>1 DEF AuAt, OnChallenge
    <2> QED
        BY <1>3, <1>4, <1>6, <2>1, <2>2 DEF CopyIsFirst, OnChallenge
<1>10. RestUnwritten'
    <2> SUFFICES ASSUME ~Sparse(kit), NEW q \in AuReqs, AuAt(q, "questions")',
                        NEW i \in RoundNos, auReq'[q].round <= i
                 PROVE  Unwritten(q, GeneratedRounds(kit)[i])'
        BY <1>1 DEF RestUnwritten
    <2>1. q # r /\ AuAt(q, "questions") /\ auReq'[q] = auReq[q]
        BY <1>4, <1>6 DEF AuAt
    <2>2. auReq[q].c # d /\ auReq[q].c \in Chs
        BY <1>5, <2>1 DEF AuAt, OnChallenge
    <2>3. Unwritten(q, GeneratedRounds(kit)[i])
        BY <2>1 DEF RestUnwritten
    <2> QED
        BY <1>1, <1>3, <1>4, <1>6, <2>1, <2>2, <2>3 DEF Unwritten
<1>11. AllServed'
    <2> SUFFICES ASSUME ~Sparse(kit), NEW c \in Chs, Rows(c), ch[c].memo, c \notin hurt,
                        NEW k \in RoundNos
                 PROVE  Served(c, k)'
        BY <1>1 DEF AllServed, Rows
    <2>1. Served(c, k) /\ c # d
        BY <1>2 DEF AllServed
    <2> QED
        BY <1>1, <1>3, <1>4, <2>1 DEF Served, AuAt
<1>12. DeletedBrandClosed'
    BY <1>1 DEF DeletedBrandClosed
<1> QED
    BY <1>4, <1>7, <1>8, <1>9, <1>10, <1>11, <1>12

\* One question is inserted where the round has none, or refused.
LEMMA InsertQuestionKeeps ==
    ASSUME AuInv, NEW r \in AuReqs, InsertQuestion(r)
    PROVE  AuInv'
<1> USE DEF AuInv
<1> DEFINE c == auReq[r].c
           n == auReq[r].round
           k == GeneratedRounds(kit)[n]
           rec == IF n = 3 THEN AuIdle ELSE [auReq[r] EXCEPT !.round = @ + 1]
<1>1. AuAt(r, "questions") /\ UNCHANGED <<kit, brandLive, ch, regens, hurt, tardy>>
    BY DEF InsertQuestion
<1>2. c \in Chs /\ n \in RoundNos /\ k \in RoundNos /\ Rows(c) /\ ch[c].memo
    <2>1. c \in Chs /\ n \in RoundNos /\ Rows(c) /\ ch[c].memo
        BY <1>1 DEF AuTyped, AuHolds, AuAt, OnChallenge, OnRound, RowsComeFirst
    <2> QED
        BY <2>1, RoundsGenerated
<1>3. CASE quest[c][k] # 0
    <2>1. AuGo(r, AuIdle) /\ quest' = quest
        BY <1>3 DEF InsertQuestion
    <2>2. Sparse(kit)
        <3>1. n <= n
            BY <1>2 DEF RoundNos
        <3> QED
            BY <1>1, <1>2, <1>3, <3>1 DEF RestUnwritten, Unwritten
    <2>3. AuIdle \in AuRecords /\ AuIdle.at \notin OnChallenge
        BY AuFacts DEF OnChallenge
    <2>4. UNCHANGED <<brandLive, kit, ch, quest, regens, tardy>> /\ hurt \subseteq hurt'
        BY <1>1, <2>1
    <2> QED
        BY <2>1, <2>2, <2>3, <2>4, AuRests
<1>4. CASE quest[c][k] = 0
    <2>1. quest' = [quest EXCEPT ![c][k] = 1] /\ AuGo(r, rec)
        BY <1>4 DEF InsertQuestion
    <2>2. /\ rec \in AuRecords /\ AuHolds(rec)
          /\ n = 3 => rec.at = "idle"
          /\ n # 3 => rec.at = "questions" /\ rec.c = c /\ rec.round = n + 1
        <3>1. CASE n = 3
            BY <3>1, AuFacts
        <3>2. CASE n # 3
            <4>1. n + 1 \in RoundNos /\ n + 1 \in 0 .. 3
                BY <1>2, <3>2 DEF RoundNos
            <4>2. rec = [auReq[r] EXCEPT !.round = n + 1]
                BY <3>2
            <4>3. auReq[r] \in AuRecords /\ auReq[r].at = "questions"
                BY <1>1 DEF AuTyped, AuAt
            <4> HIDE DEF rec, n
            <4>4. rec \in AuRecords /\ rec.at = "questions" /\ rec.c = c /\ rec.round = n + 1
                BY <4>1, <4>2, <4>3 DEF AuRecords
            <4> QED
                BY <1>2, <3>2, <4>1, <4>4 DEF AuHolds, OnChallenge, OnRound
        <3> QED
            BY <3>1, <3>2
    <2>3. /\ quest' \in [Chs -> [RoundNos -> Nat]] /\ quest'[c][k] = 1
          /\ \A b \in Chs, j \in RoundNos : b # c \/ j # k => quest'[b][j] = quest[b][j]
        <3> HIDE DEF c, k
        <3> QED
            BY <1>2, <2>1 DEF AuTyped
    <2> HIDE DEF rec
    <2>4. AuTyped' /\ auReq'[r] = rec /\ \A q \in AuReqs \ {r} : auReq'[q] = auReq[q]
        BY <1>1, <2>1, <2>2, <2>3, AuTakes DEF AuTyped
    <2>5. \A q \in AuReqs : auReq[q].at \in OnChallenge => auReq[q].c \in Chs
        BY DEF AuTyped, AuHolds
    <2>6. \A q \in AuReqs : auReq'[q].at \in OnChallenge =>
             auReq[q].at = auReq'[q].at /\ auReq'[q].c = auReq[q].c
        BY <1>1, <2>2, <2>4 DEF OnChallenge, AuAt
    <2> HIDE DEF k, n, c
    <2>7. RowsComeFirst'
        BY <1>1, <1>2, <2>3, <2>5, <2>6 DEF RowsComeFirst, Rows, AuAt, OnChallenge
    <2>8. OneAuthor'
        BY <2>6 DEF OneAuthor, AuAt, OnChallenge
    <2>9. CopyIsFirst'
        <3> SUFFICES ASSUME NEW q \in AuReqs, AuAt(q, "copy")'
                     PROVE  /\ \A j \in RoundNos : quest'[auReq'[q].c][j] = 0
                            /\ \A p \in AuReqs : auReq'[p].at \in OnChallenge
                                                 /\ auReq'[p].c = auReq'[q].c => p = q
            BY DEF CopyIsFirst
        <3>1. AuAt(q, "copy") /\ auReq'[q].c = auReq[q].c /\ auReq[q].c \in Chs
            BY <2>5, <2>6 DEF AuAt, OnChallenge
        <3>2. auReq[q].c # c
            BY <1>2, <3>1 DEF RowsComeFirst
        <3> QED
            BY <2>3, <2>6, <3>1, <3>2 DEF CopyIsFirst
    <2>10. RestUnwritten'
        <3> SUFFICES ASSUME ~Sparse(kit), NEW q \in AuReqs, AuAt(q, "questions")',
                            NEW i \in RoundNos, auReq'[q].round <= i
                     PROVE  Unwritten(q, GeneratedRounds(kit)[i])'
            BY <1>1 DEF RestUnwritten
        <3> DEFINE j == GeneratedRounds(kit)[i]
        <3>1. AuAt(q, "questions") /\ auReq'[q].c = auReq[q].c /\ auReq[q].c \in Chs /\ j \in RoundNos
            BY <2>5, <2>6, RoundsGenerated DEF AuAt, OnChallenge
        <3>2. auReq[q].round <= i /\ (q = r => i # n)
            <4>1. CASE q = r
                <5>1. auReq'[q] = rec /\ rec.at = "questions"
                    BY <2>4, <4>1 DEF AuAt
                <5>2. n # 3
                    BY <2>2, <5>1
                <5>3. n + 1 <= i /\ n \in 1 .. 3 /\ i \in 1 .. 3
                    BY <1>2, <2>2, <5>1, <5>2 DEF RoundNos
                <5>4. n <= i /\ i # n
                    BY <5>3
                <5> QED
                    BY <4>1, <5>4 DEF n
            <4>2. CASE q # r
                BY <2>4, <4>2
            <4> QED
                BY <4>1, <4>2
        <3>3. Unwritten(q, j)
            BY <3>1, <3>2 DEF RestUnwritten
        <3>4. auReq[q].c # c \/ j # k
            <4> SUFFICES ASSUME auReq[q].c = c PROVE j # k
                OBVIOUS
            <4>1. q = r
                BY <1>1, <3>1 DEF OneAuthor, c
            <4>2. i # n
                BY <3>2, <4>1
            <4> QED
                BY <1>2, <4>2 DEF Sparse, k
        <3>5. quest'[auReq[q].c][j] = 0
            BY <2>3, <3>1, <3>3, <3>4 DEF Unwritten
        <3>6. \A p \in AuReqs : auReq'[p].at \in {"delete", "write"} => auReq'[p] = auReq[p]
            BY <2>2, <2>4
        <3>7. GeneratedRounds(kit)'[i] = j
            BY <1>1
        <3> HIDE DEF j
        <3> QED
            BY <3>1, <3>3, <3>5, <3>6, <3>7 DEF Unwritten
    <2>11. AllServed'
        <3> SUFFICES ASSUME ~Sparse(kit), NEW b \in Chs, Rows(b), ch[b].memo, b \notin hurt,
                            NEW j \in RoundNos
                     PROVE  Served(b, j)'
            BY <1>1 DEF AllServed, Rows
        <3>1. Served(b, j)
            BY DEF AllServed
        <3>2. CASE quest'[b][j] # 0
            BY <3>2 DEF Served
        <3>3. ASSUME NEW q \in AuReqs, AuAt(q, "write"), auReq[q].c = b, auReq[q].round = j
              PROVE  Served(b, j)'
            <4>1. q # r
                BY <1>1, <3>3 DEF AuAt
            <4> QED
                BY <2>4, <3>3, <4>1 DEF Served, AuAt
        <3>4. ASSUME NEW q \in AuReqs, AuAt(q, "questions"), auReq[q].c = b,
                     NEW i \in RoundNos, auReq[q].round <= i, GeneratedRounds(kit)[i] = j
              PROVE  Served(b, j)'
            <4>1. CASE q # r
                BY <1>1, <2>4, <3>4, <4>1 DEF Served, AuAt
            <4>2. CASE q = r /\ i = n
                <5>1. b = c /\ j = k
                    BY <3>4, <4>2 DEF c, k
                <5> QED
                    BY <2>3, <5>1 DEF Served
            <4>3. CASE q = r /\ i # n
                <5>1. n + 1 <= i /\ n # 3
                    BY <1>2, <3>4, <4>3 DEF RoundNos, n
                <5>2. auReq'[r] = rec /\ rec.at = "questions" /\ rec.c = b /\ rec.round = n + 1
                    BY <2>2, <2>4, <3>4, <4>3, <5>1 DEF c
                <5> QED
                    BY <1>1, <3>4, <5>1, <5>2 DEF Served, AuAt
            <4> QED
                BY <4>1, <4>2, <4>3
        <3>5. CASE quest[b][j] # 0
            BY <1>4, <2>3, <3>2, <3>5 DEF c, k
        <3> QED
            BY <3>1, <3>3, <3>4, <3>5 DEF Served
    <2>12. DeletedBrandClosed'
        BY <1>1 DEF DeletedBrandClosed
    <2> QED
        BY <2>4, <2>7, <2>8, <2>9, <2>10, <2>11, <2>12
<1> QED
    BY <1>3, <1>4

\* A regeneration reads a question that is there.
LEMMA RegenReadKeeps ==
    ASSUME AuInv, NEW r \in AuReqs, NEW c \in Chs, NEW k \in RoundNos, RegenRead(r, c, k)
    PROVE  AuInv'
<1> USE DEF AuInv
<1> DEFINE rec == [at |-> "delete", c |-> c, round |-> k, id |-> quest[c][k]]
<1>1. /\ AuAt(r, "idle") /\ quest[c][k] # 0 /\ AuGo(r, rec)
      /\ UNCHANGED <<kit, brandLive, ch, quest, regens, hurt, tardy>>
    BY DEF RegenRead
<1>2. rec \in AuRecords /\ AuHolds(rec) /\ rec.at = "delete" /\ rec.c = c /\ rec.round = k
    <2>1. quest[c][k] \in Nat /\ k \in 0 .. 3
        BY AuFacts DEF RoundNos
    <2> QED
        BY <2>1 DEF AuRecords, AuLabels, AuHolds, OnChallenge, OnRound
<1> HIDE DEF rec
<1>3. AuTyped' /\ auReq'[r] = rec /\ \A q \in AuReqs \ {r} : auReq'[q] = auReq[q]
    BY <1>1, <1>2, AuTakes DEF AuTyped
<1>4. RowsComeFirst'
    BY <1>1, <1>2, <1>3 DEF RowsComeFirst, Rows, AuAt, OnChallenge
<1>5. OneAuthor' /\ CopyIsFirst'
    BY <1>1, <1>2, <1>3 DEF OneAuthor, CopyIsFirst, AuAt, OnChallenge
<1>6. RestUnwritten'
    <2> SUFFICES ASSUME ~Sparse(kit), NEW q \in AuReqs, AuAt(q, "questions")',
                        NEW i \in RoundNos, auReq'[q].round <= i
                 PROVE  Unwritten(q, GeneratedRounds(kit)[i])'
        BY <1>1 DEF RestUnwritten
    <2>1. q # r /\ AuAt(q, "questions") /\ auReq'[q] = auReq[q]
        BY <1>2, <1>3 DEF AuAt
    <2>2. Unwritten(q, GeneratedRounds(kit)[i])
        BY <2>1 DEF RestUnwritten
    <2> QED
        BY <1>1, <1>2, <1>3, <2>1, <2>2 DEF Unwritten
<1>7. AllServed'
    <2> SUFFICES ASSUME ~Sparse(kit), NEW b \in Chs, Rows(b), ch[b].memo, b \notin hurt,
                        NEW j \in RoundNos
                 PROVE  Served(b, j)'
        BY <1>1 DEF AllServed, Rows
    <2>1. Served(b, j)
        BY DEF AllServed
    <2> QED
        BY <1>1, <1>3, <2>1 DEF Served, AuAt
<1>8. DeletedBrandClosed'
    BY <1>1 DEF DeletedBrandClosed
<1> QED
    BY <1>3, <1>4, <1>5, <1>6, <1>7, <1>8

\* A question a regeneration deletes is one it is to write again.
LEMMA DeleteQuestionKeeps ==
    ASSUME AuInv, NEW r \in AuReqs, DeleteQuestion(r)
    PROVE  AuInv'
<1> USE DEF AuInv
<1> DEFINE c == auReq[r].c
           k == auReq[r].round
           rec == [auReq[r] EXCEPT !.at = "write"]
<1>1. /\ AuAt(r, "delete") /\ AuGo(r, rec)
      /\ quest' = [quest EXCEPT ![c][k] = IF @ = auReq[r].id THEN 0 ELSE @]
      /\ UNCHANGED <<kit, brandLive, ch, regens, hurt, tardy>>
    BY DEF DeleteQuestion
<1>2. c \in Chs /\ k \in RoundNos
    BY <1>1 DEF AuTyped, AuHolds, AuAt, OnChallenge, OnRound
<1>3. rec \in AuRecords /\ AuHolds(rec) /\ rec.at = "write" /\ rec.c = c /\ rec.round = k
    BY <1>2 DEF AuTyped, AuRecords, AuLabels, AuHolds, OnChallenge, OnRound
<1> HIDE DEF rec
<1>4. /\ quest' \in [Chs -> [RoundNos -> Nat]]
      /\ \A b \in Chs, j \in RoundNos : b # c \/ j # k => quest'[b][j] = quest[b][j]
      /\ \A b \in Chs, j \in RoundNos : quest[b][j] = 0 => quest'[b][j] = 0
    <2> DEFINE new == IF quest[c][k] = auReq[r].id THEN 0 ELSE quest[c][k]
    <2>1. new \in Nat /\ (quest[c][k] = 0 => new = 0)
        BY <1>2, AuFacts
    <2>2. quest' = [quest EXCEPT ![c][k] = new]
        BY <1>1
    <2> HIDE DEF new, c, k
    <2> QED
        BY <1>2, <2>1, <2>2 DEF AuTyped
<1>5. AuTyped' /\ auReq'[r] = rec /\ \A q \in AuReqs \ {r} : auReq'[q] = auReq[q]
    BY <1>1, <1>3, <1>4, AuTakes DEF AuTyped
<1>6. \A q \in AuReqs : auReq[q].at \in OnChallenge => auReq[q].c \in Chs
    BY DEF AuTyped, AuHolds
<1>7. \A q \in AuReqs : /\ auReq'[q].c = auReq[q].c /\ auReq'[q].round = auReq[q].round
                        /\ q # r => auReq'[q].at = auReq[q].at
    BY <1>3, <1>5
<1>8. auReq[r].at = "delete" /\ auReq'[r].at = "write"
    BY <1>1, <1>3, <1>5 DEF AuAt
<1> HIDE DEF c, k
<1>9. RowsComeFirst'
    BY <1>1, <1>4, <1>6, <1>7, <1>8 DEF RowsComeFirst, Rows, AuAt, OnChallenge
<1>10. OneAuthor' /\ CopyIsFirst'
    BY <1>4, <1>6, <1>7, <1>8 DEF OneAuthor, CopyIsFirst, AuAt, OnChallenge
<1>11. RestUnwritten'
    <2> SUFFICES ASSUME ~Sparse(kit), NEW q \in AuReqs, AuAt(q, "questions")',
                        NEW i \in RoundNos, auReq'[q].round <= i
                 PROVE  Unwritten(q, GeneratedRounds(kit)[i])'
        BY <1>1 DEF RestUnwritten
    <2>1. q # r /\ AuAt(q, "questions") /\ auReq'[q] = auReq[q] /\ auReq[q].c \in Chs
        BY <1>5, <1>6, <1>8 DEF AuAt, OnChallenge
    <2>2. Unwritten(q, GeneratedRounds(kit)[i]) /\ GeneratedRounds(kit)[i] \in RoundNos
        BY <2>1, RoundsGenerated DEF RestUnwritten
    <2> QED
        BY <1>1, <1>4, <1>7, <1>8, <2>1, <2>2 DEF Unwritten
<1>12. AllServed'
    <2> SUFFICES ASSUME ~Sparse(kit), NEW b \in Chs, Rows(b), ch[b].memo, b \notin hurt,
                        NEW j \in RoundNos
                 PROVE  Served(b, j)'
        BY <1>1 DEF AllServed, Rows
    <2>1. Served(b, j)
        BY DEF AllServed
    <2>2. CASE b = c /\ j = k
        BY <1>3, <1>5, <2>2 DEF Served, AuAt
    <2>3. CASE b # c \/ j # k
        BY <1>1, <1>4, <1>5, <1>8, <2>1, <2>3 DEF Served, AuAt
    <2> QED
        BY <2>2, <2>3
<1>13. DeletedBrandClosed'
    BY <1>1 DEF DeletedBrandClosed
<1> QED
    BY <1>5, <1>9, <1>10, <1>11, <1>12, <1>13

\* ... and it writes one where the round has none.
LEMMA WriteQuestionKeeps ==
    ASSUME AuInv, NEW r \in AuReqs, WriteQuestion(r)
    PROVE  AuInv'
<1> USE DEF AuInv
<1> DEFINE c == auReq[r].c
           k == auReq[r].round
<1>1. AuAt(r, "write") /\ AuGo(r, AuIdle) /\ UNCHANGED <<kit, brandLive, ch, hurt, tardy>>
    BY DEF WriteQuestion
<1>2. c \in Chs /\ k \in RoundNos /\ Rows(c)
    BY <1>1 DEF AuTyped, AuHolds, AuAt, OnChallenge, OnRound, RowsComeFirst
<1>3. AuIdle \in AuRecords /\ AuHolds(AuIdle) /\ AuIdle.at = "idle"
    BY AuFacts
<1>4. CASE quest[c][k] # 0
    <2>1. UNCHANGED <<brandLive, kit, ch, quest, regens, tardy>> /\ hurt \subseteq hurt'
        BY <1>1, <1>4 DEF WriteQuestion
    <2> QED
        BY <1>1, <1>3, <1>4, <2>1, AuRests DEF OnChallenge
<1>5. CASE quest[c][k] = 0
    <2>1. quest' = [quest EXCEPT ![c][k] = regens + 1] /\ regens' = regens + 1
        BY <1>5 DEF WriteQuestion
    <2>2. regens + 1 \in Nat /\ regens + 1 # 0
        BY DEF AuTyped
    <2>3. /\ quest' \in [Chs -> [RoundNos -> Nat]] /\ quest'[c][k] # 0
          /\ \A b \in Chs, j \in RoundNos : b # c \/ j # k => quest'[b][j] = quest[b][j]
        <3> HIDE DEF c, k
        <3> QED
            BY <1>2, <2>1, <2>2 DEF AuTyped
    <2>4. AuTyped' /\ auReq'[r] = AuIdle /\ \A q \in AuReqs \ {r} : auReq'[q] = auReq[q]
        BY <1>1, <1>3, <2>1, <2>2, <2>3, AuTakes DEF AuTyped
    <2>5. \A q \in AuReqs : auReq[q].at \in OnChallenge => auReq[q].c \in Chs
        BY DEF AuTyped, AuHolds
    <2>6. \A q \in AuReqs : auReq'[q].at \in OnChallenge => q # r /\ auReq'[q] = auReq[q]
        BY <1>3, <2>4 DEF OnChallenge
    <2>7. RowsComeFirst'
        <3> HIDE DEF c, k
        <3> QED
            BY <1>1, <1>2, <2>3, <2>5, <2>6 DEF RowsComeFirst, Rows, AuAt, OnChallenge
    <2>8. OneAuthor'
        BY <2>6 DEF OneAuthor, AuAt, OnChallenge
    <2>9. CopyIsFirst'
        <3> SUFFICES ASSUME NEW q \in AuReqs, AuAt(q, "copy")'
                     PROVE  /\ \A j \in RoundNos : quest'[auReq'[q].c][j] = 0
                            /\ \A p \in AuReqs : auReq'[p].at \in OnChallenge
                                                 /\ auReq'[p].c = auReq'[q].c => p = q
            BY DEF CopyIsFirst
        <3>1. q # r /\ AuAt(q, "copy") /\ auReq'[q] = auReq[q] /\ auReq[q].c \in Chs
            BY <2>5, <2>6 DEF AuAt, OnChallenge
        <3>2. auReq[q].c # c
            BY <1>1, <3>1 DEF CopyIsFirst, AuAt, OnChallenge
        <3> QED
            BY <2>3, <2>6, <3>1, <3>2 DEF CopyIsFirst
    <2>10. RestUnwritten'
        <3> SUFFICES ASSUME ~Sparse(kit), NEW q \in AuReqs, AuAt(q, "questions")',
                            NEW i \in RoundNos, auReq'[q].round <= i
                     PROVE  Unwritten(q, GeneratedRounds(kit)[i])'
            BY <1>1 DEF RestUnwritten
        <3> DEFINE j == GeneratedRounds(kit)[i]
        <3>1. q # r /\ AuAt(q, "questions") /\ auReq'[q] = auReq[q] /\ auReq[q].c \in Chs
            BY <2>5, <2>6 DEF AuAt, OnChallenge
        <3>2. Unwritten(q, j) /\ j \in RoundNos
            BY <3>1, RoundsGenerated DEF RestUnwritten
        <3>3. auReq[q].c # c \/ j # k
            BY <1>1, <3>2 DEF Unwritten, AuAt
        <3>4. GeneratedRounds(kit)'[i] = j
            BY <1>1
        <3> HIDE DEF j, c, k
        <3> QED
            BY <2>3, <2>6, <3>1, <3>2, <3>3, <3>4 DEF Unwritten, OnChallenge
    <2>11. AllServed'
        <3> SUFFICES ASSUME ~Sparse(kit), NEW b \in Chs, Rows(b), ch[b].memo, b \notin hurt,
                            NEW j \in RoundNos
                     PROVE  Served(b, j)'
            BY <1>1 DEF AllServed, Rows
        <3>1. Served(b, j)
            BY DEF AllServed
        <3>2. CASE b = c /\ j = k
            BY <2>3, <3>2 DEF Served
        <3>3. CASE b # c \/ j # k
            <4>1. quest'[b][j] = quest[b][j]
                BY <2>3, <3>3
            <4>2. ASSUME NEW q \in AuReqs, AuAt(q, "write"), auReq[q].c = b, auReq[q].round = j
                  PROVE  q # r /\ auReq'[q] = auReq[q]
                BY <2>4, <3>3, <4>2
            <4>3. \A q \in AuReqs : AuAt(q, "questions") => auReq'[q] = auReq[q]
                BY <1>1, <2>4 DEF AuAt
            <4> QED
                BY <1>1, <3>1, <4>1, <4>2, <4>3 DEF Served, AuAt
        <3> QED
            BY <3>2, <3>3
    <2>12. DeletedBrandClosed'
        BY <1>1 DEF DeletedBrandClosed
    <2> QED
        BY <2>4, <2>7, <2>8, <2>9, <2>10, <2>11, <2>12
<1> QED
    BY <1>4, <1>5

\* The status of one challenge changes, or whether it is deleted.
LEMMA OneRowMoves ==
    ASSUME AuInv, NEW c \in Chs, NEW row \in ChRecords, Rows(c), row.st # "none",
           row.memo = ch[c].memo, row.st = "active" => ch[c].memo,
           ch' = [ch EXCEPT ![c] = row],
           UNCHANGED <<brandLive, kit, quest, regens, hurt, auReq>>,
           tardy \subseteq tardy',
           \/ brandLive \/ c \in tardy' \/ row.del
           \/ row.st \notin {"pending_deposit", "active"}
    PROVE  AuInv'
<1>1. /\ ch' \in [Chs -> ChRecords] /\ ch'[c] = row
      /\ \A b \in Chs \ {c} : ch'[b] = ch[b]
    BY DEF AuInv, AuTyped
<1>2. \A b \in Chs : Rows(b)' = Rows(b) /\ ch'[b].memo = ch[b].memo
    BY <1>1 DEF Rows
<1>3. \A b \in Chs : ch'[b].st = "active" => ch[b].memo
    BY <1>1 DEF AuInv, RowsComeFirst
<1>4. DeletedBrandClosed'
    BY <1>1 DEF AuInv, DeletedBrandClosed
<1> QED
    BY <1>1, <1>2, <1>3, <1>4, StatusMoves

\* Deposits, the end of a challenge, deletion and restoration.
LEMMA RowMovesKeep ==
    ASSUME AuInv, NEW c \in Chs,
           DepositCredited(c) \/ ChallengeEnds(c) \/ SoftDeleteChallenge(c) \/ RestoreChallenge(c)
    PROVE  AuInv'
<1>1. ch[c] \in ChRecords /\ ch \in [Chs -> ChRecords]
    BY DEF AuInv, AuTyped
<1>2. CASE DepositCredited(c)
    <2> DEFINE row == [ch[c] EXCEPT !.st = "active"]
    <2>1. /\ ch[c].st = "pending_deposit" /\ ch[c].memo /\ ~ch[c].del
          /\ ch' = [ch EXCEPT ![c] = row]
          /\ UNCHANGED <<brandLive, kit, quest, regens, hurt, auReq>> /\ tardy' = tardy
        BY <1>2 DEF DepositCredited
    <2>2. row \in ChRecords /\ row.st = "active" /\ row.memo = ch[c].memo
        BY <1>1 DEF ChRecords
    <2>3. brandLive \/ c \in tardy'
        BY <2>1 DEF AuInv, DeletedBrandClosed
    <2> HIDE DEF row
    <2> QED
        BY <2>1, <2>2, <2>3, OneRowMoves DEF Rows
<1>3. CASE ChallengeEnds(c)
    <2> DEFINE row == [ch[c] EXCEPT !.st = "ended"]
    <2>1. /\ ch[c].st = "active" /\ ch' = [ch EXCEPT ![c] = row]
          /\ UNCHANGED <<brandLive, kit, quest, regens, hurt, auReq>> /\ tardy' = tardy
        BY <1>3 DEF ChallengeEnds
    <2>2. row \in ChRecords /\ row.st = "ended" /\ row.memo = ch[c].memo
        BY <1>1 DEF ChRecords
    <2> HIDE DEF row
    <2> QED
        BY <2>1, <2>2, OneRowMoves DEF Rows
<1>4. CASE SoftDeleteChallenge(c)
    <2> DEFINE row == [ch[c] EXCEPT !.del = TRUE]
    <2>1. /\ Rows(c) /\ ch' = [ch EXCEPT ![c] = row]
          /\ UNCHANGED <<brandLive, kit, quest, regens, hurt, auReq>> /\ tardy' = tardy
        BY <1>4 DEF SoftDeleteChallenge
    <2>2. row \in ChRecords /\ row.st = ch[c].st /\ row.memo = ch[c].memo /\ row.del
        BY <1>1 DEF ChRecords
    <2> HIDE DEF row
    <2> QED
        BY <2>1, <2>2, OneRowMoves DEF Rows, AuInv, RowsComeFirst
<1>5. CASE RestoreChallenge(c)
    <2> DEFINE row == [ch[c] EXCEPT !.del = FALSE]
    <2>1. /\ Rows(c) /\ ch' = [ch EXCEPT ![c] = row]
          /\ UNCHANGED <<brandLive, kit, quest, regens, hurt, auReq>>
          /\ tardy' = IF brandLive THEN tardy ELSE tardy \cup {c}
        BY <1>5 DEF RestoreChallenge
    <2>2. row \in ChRecords /\ row.st = ch[c].st /\ row.memo = ch[c].memo
        BY <1>1 DEF ChRecords
    <2> HIDE DEF row
    <2> QED
        BY <2>1, <2>2, OneRowMoves DEF Rows, AuInv, RowsComeFirst
<1> QED
    BY <1>2, <1>3, <1>4, <1>5

\* Every step of the authors keeps their invariant.
LEMMA AuStep ==
    ASSUME AuInv, [AuNext]_auVars
    PROVE  AuInv'
<1>1. CASE DeleteBrand
    <2>1. /\ brandLive' = FALSE /\ UNCHANGED <<kit, quest, regens, hurt, tardy, auReq>>
          /\ ch' = [c \in Chs |-> IF CancelledWithBrand(c)
                                  THEN [ch[c] EXCEPT !.st = "cancelled"] ELSE ch[c]]
        BY <1>1 DEF DeleteBrand
    <2>2. ch \in [Chs -> ChRecords]
        BY DEF AuInv, AuTyped
    <2>3. ch' \in [Chs -> ChRecords]
        BY <2>1, <2>2 DEF ChRecords
    <2>4. \A c \in Chs : Rows(c)' = Rows(c) /\ ch'[c].memo = ch[c].memo
        BY <2>1, <2>2 DEF ChRecords, Rows, CancelledWithBrand
    <2>5. \A c \in Chs : ch'[c].st = "active" => ch[c].memo
        BY <2>1, <2>2 DEF ChRecords, AuInv, RowsComeFirst
    <2>6. DeletedBrandClosed'
        BY <2>1, <2>2 DEF DeletedBrandClosed, CancelledWithBrand, ChRecords
    <2> QED
        BY <2>1, <2>3, <2>4, <2>5, <2>6, StatusMoves
<1>2. ASSUME NEW r \in AuReqs, CreateCheck(r) PROVE AuInv'
    <2> DEFINE rec == [AuIdle EXCEPT !.at = "insert"]
    <2>1. /\ AuAt(r, "idle") /\ AuGo(r, rec)
          /\ UNCHANGED <<brandLive, kit, ch, quest, regens, tardy>> /\ hurt' = hurt
        BY <1>2 DEF CreateCheck
    <2>2. rec \in AuRecords /\ rec.at \notin OnChallenge
        <3>1. 0 \in 0 .. 3 /\ 0 \in Nat
            OBVIOUS
        <3> QED
            BY <3>1 DEF AuIdle, AuRecords, AuLabels, OnChallenge
    <2> HIDE DEF rec
    <2> QED
        BY <2>1, <2>2, AuRests DEF AuAt
<1>3. ASSUME NEW r \in AuReqs, HandlerDies(r) PROVE AuInv'
    <2>1. /\ AuGo(r, AuIdle) /\ hurt' = hurt \cup ({auReq[r].c} \ {0})
          /\ UNCHANGED <<brandLive, kit, ch, quest, regens, tardy>>
        BY <1>3 DEF HandlerDies
    <2>2. AuIdle \in AuRecords /\ AuIdle.at \notin OnChallenge
        BY AuFacts DEF AuInv, OnChallenge
    <2>3. auReq[r].at \in {"questions", "write"} => auReq[r].c \in Chs
        BY DEF AuInv, AuTyped, AuHolds, OnChallenge
    <2>4. auReq[r].at \in {"questions", "write"} => auReq[r].c \in hurt'
        BY <2>1, <2>3, AuAssumption
    <2>5. hurt \subseteq hurt'
        BY <2>1
    <2> QED
        BY <2>1, <2>2, <2>4, <2>5, AuRests
<1>4. ASSUME NEW r \in AuReqs,
             \/ CreateChallenge(r) \/ InsertQuestion(r) \/ DuplicateCopy(r)
             \/ DeleteQuestion(r) \/ WriteQuestion(r)
      PROVE  AuInv'
    BY <1>4, CreateChallengeKeeps, InsertQuestionKeeps, DuplicateCopyKeeps, DeleteQuestionKeeps,
       WriteQuestionKeeps
<1>5. ASSUME NEW r \in AuReqs, NEW c \in Chs,
             DuplicateInsert(r, c) \/ \E k \in RoundNos : RegenRead(r, c, k)
      PROVE  AuInv'
    BY <1>5, DuplicateInsertKeeps, RegenReadKeeps
<1>6. CASE UNCHANGED auVars
    <2>1. /\ UNCHANGED <<kit, quest, regens, hurt, auReq>> /\ ch' = ch
          /\ brandLive' = brandLive /\ tardy' = tardy
        BY <1>6 DEF auVars
    <2>2. DeletedBrandClosed'
        BY <2>1 DEF AuInv, DeletedBrandClosed
    <2>3. \A c \in Chs : Rows(c)' = Rows(c) /\ ch'[c].memo = ch[c].memo
        BY <2>1 DEF Rows
    <2>4. ch' \in [Chs -> ChRecords] /\ \A c \in Chs : ch'[c].st = "active" => ch[c].memo
        BY <2>1 DEF AuInv, AuTyped, RowsComeFirst
    <2> QED
        BY <2>1, <2>2, <2>3, <2>4, StatusMoves
<1> QED
    BY <1>1, <1>2, <1>3, <1>4, <1>5, <1>6, RowMovesKeep DEF AuNext

\* At first there is no challenge.
LEMMA AuStart ==
    ASSUME AuInit
    PROVE  AuInv
<1>1. /\ brandLive = TRUE /\ ch = [c \in Chs |-> NoCh]
      /\ quest = [c \in Chs |-> [k \in RoundNos |-> 0]] /\ regens = 1
      /\ auReq = [r \in AuReqs |-> AuIdle]
    BY DEF AuInit
<1>2. NoCh \in ChRecords /\ NoCh.st = "none"
    BY DEF NoCh, ChRecords
<1>3. AuIdle \in AuRecords /\ AuHolds(AuIdle) /\ AuIdle.at = "idle"
    <2>1. 0 \in 0 .. 3 /\ 0 \in Nat
        OBVIOUS
    <2> QED
        BY <2>1 DEF AuIdle, AuRecords, AuLabels, AuHolds, OnChallenge, OnRound
<1>4. AuTyped
    BY <1>1, <1>2, <1>3 DEF AuTyped
<1>5. RowsComeFirst /\ OneAuthor /\ CopyIsFirst
    BY <1>1, <1>2, <1>3 DEF RowsComeFirst, OneAuthor, CopyIsFirst, AuAt, OnChallenge
<1>6. RestUnwritten /\ AllServed
    BY <1>1, <1>2, <1>3 DEF RestUnwritten, AllServed, AuAt, Rows
<1>7. DeletedBrandClosed
    BY <1>1 DEF DeletedBrandClosed
<1> QED
    BY <1>4, <1>5, <1>6, <1>7 DEF AuInv

\* Whom no handler is at, nobody has hurt and no sparse kit has left short, has
\* all its questions.
LEMMA AuSound ==
    ASSUME AuInv
    PROVE  ChallengesSound
<1>1. PlayableHasQuestions
    <2> SUFFICES ASSUME NEW c \in Chs, ch[c].st = "active", c \notin hurt, ~Sparse(kit),
                        ~\E r \in AuReqs : /\ auReq[r].c = c
                                           /\ auReq[r].at \in {"questions", "delete", "write"}
                 PROVE  GetChallengeQuestions(c) = RoundNos
        BY DEF PlayableHasQuestions
    <2>1. \A k \in RoundNos : Served(c, k)
        BY DEF AuInv, AllServed, RowsComeFirst, Rows
    <2>2. \A k \in RoundNos : quest[c][k] # 0
        BY <2>1 DEF Served, AuAt
    <2> QED
        BY <2>2 DEF GetChallengeQuestions
<1>2. DepositsReachOwn
    BY AuAssumption DEF DepositsReachOwn, GetChallengeByMemo, DepositInfo
<1> QED
    BY <1>1, <1>2 DEF AuInv, ChallengesSound

\* A question that is there is replaced by nobody: it is deleted first, by its id.
LEMMA AuNotOverwritten ==
    ASSUME AuInv, AuNext, NEW c \in Chs, NEW k \in RoundNos,
           quest[c][k] # 0, quest'[c][k] # quest[c][k]
    PROVE  quest'[c][k] = 0
<1>1. quest' # quest /\ quest \in [Chs -> [RoundNos -> Nat]]
    BY DEF AuInv, AuTyped
<1>2. PICK r \in AuReqs :
         InsertQuestion(r) \/ DuplicateCopy(r) \/ DeleteQuestion(r) \/ WriteQuestion(r)
    BY <1>1 DEF AuNext, DeleteBrand, CreateCheck, CreateChallenge, HandlerDies, DuplicateInsert,
       RegenRead, DepositCredited, ChallengeEnds, SoftDeleteChallenge, RestoreChallenge
<1>3. CASE InsertQuestion(r)
    <2> DEFINE j == GeneratedRounds(kit)[auReq[r].round]
    <2>1. quest[auReq[r].c][j] = 0 /\ quest' = [quest EXCEPT ![auReq[r].c][j] = 1]
        BY <1>1, <1>3 DEF InsertQuestion
    <2> HIDE DEF j
    <2> QED
        BY <1>1, <2>1
<1>4. CASE DuplicateCopy(r)
    <2>1. AuAt(r, "copy") /\ quest' = [quest EXCEPT ![auReq[r].c] = quest[auReq[r].id]]
        BY <1>4 DEF DuplicateCopy
    <2>2. quest[auReq[r].c][k] = 0
        BY <2>1 DEF AuInv, CopyIsFirst
    <2> QED
        BY <1>1, <2>1, <2>2
<1>5. CASE DeleteQuestion(r)
    BY <1>1, <1>5 DEF DeleteQuestion
<1>6. CASE WriteQuestion(r)
    <2>1. /\ quest[auReq[r].c][auReq[r].round] = 0
          /\ quest' = [quest EXCEPT ![auReq[r].c][auReq[r].round] = regens + 1]
        BY <1>1, <1>6 DEF WriteQuestion
    <2> QED
        BY <1>1, <2>1
<1> QED
    BY <1>2, <1>3, <1>4, <1>5, <1>6


-------------------------------------------------------------------------------
(* Sums over finite sets, and the division of the pool *)

\* A non-empty set of numbers has a least one.
LEMMA LeastNumber ==
    ASSUME NEW S \in SUBSET Nat, S # {}
    PROVE  \E d \in S : \A e \in S : d <= e
<1>1. PICK d \in S : \A e \in S : ~ (<<e, d>> \in OpToRel(<, Nat))
    BY NatLessThanWellFounded, WFMin
<1>2. \A e \in Nat : e < d => <<e, d>> \in OpToRel(<, Nat)
    BY SMT DEF OpToRel
<1>3. \A e \in S : ~ (e < d)
    BY <1>1, <1>2, Zenon
<1> QED
    BY <1>3

\* Induction over the numbers, in the form the provers can use: a set of them.
LEMMA NumberInduction ==
    ASSUME NEW T, 0 \in T, \A n \in Nat : n \in T => n + 1 \in T
    PROVE  Nat \subseteq T
<1> DEFINE bad == Nat \ T
<1> SUFFICES ASSUME bad # {} PROVE FALSE
    OBVIOUS
<1>1. PICK d \in bad : \A e \in bad : d <= e
    BY LeastNumber
<1>2. d # 0 /\ d - 1 \in Nat /\ ~(d <= d - 1)
    BY SMT
<1>3. d - 1 \in T
    BY <1>1, <1>2
<1>4. (d - 1) + 1 \in T
    BY <1>2, <1>3
<1>5. (d - 1) + 1 = d
    OBVIOUS
<1> QED
    BY <1>4, <1>5

\* Induction over the subsets of a finite set, likewise.
LEMMA SubsetInduction ==
    ASSUME NEW D, IsFiniteSet(D), NEW T, {} \in T,
           \A s \in SUBSET D, x \in D : s \in T /\ x \notin s => s \cup {x} \in T
    PROVE  D \in T
<1> DEFINE N == {n \in Nat : \A s \in SUBSET D : Cardinality(s) = n => s \in T}
<1>1. 0 \in N
    BY FS_EmptySet, FS_Subset
<1>2. ASSUME NEW n \in Nat, n \in N PROVE n + 1 \in N
    <2> SUFFICES ASSUME NEW s \in SUBSET D, Cardinality(s) = n + 1 PROVE s \in T
        OBVIOUS
    <2>1. IsFiniteSet(s) /\ s # {}
        <3>1. IsFiniteSet(s)
            BY FS_Subset
        <3>2. n + 1 # 0
            OBVIOUS
        <3> QED
            BY <3>1, <3>2, FS_EmptySet
    <2>2. PICK x \in s : TRUE
        BY <2>1
    <2>3. Cardinality(s \ {x}) = n /\ s \ {x} \in SUBSET D
        <3>1. Cardinality(s \ {x}) = IF x \in s THEN Cardinality(s) - 1 ELSE Cardinality(s)
            BY <2>1, FS_RemoveElement
        <3> QED
            BY <2>2, <3>1
    <2>4. s \ {x} \in T /\ x \notin s \ {x} /\ x \in D
        BY <1>2, <2>2, <2>3
    <2>5. (s \ {x}) \cup {x} \in T
        BY <2>3, <2>4
    <2>6. (s \ {x}) \cup {x} = s
        BY <2>2
    <2> QED
        BY <2>5, <2>6
<1> HIDE DEF N
<1>3. Nat \subseteq N
    BY <1>1, <1>2, NumberInduction
<1>4. Cardinality(D) \in N
    BY <1>3, FS_CardinalityType
<1> QED
    BY <1>4 DEF N

-------------------------------------------------------------------------------
One(s) == CHOOSE x \in s : TRUE
\* g adds up f over every subset of its domain, one element after the other.
Adds(g, f) ==
    g = [s \in SUBSET DOMAIN f |-> IF s = {} THEN 0 ELSE f[One(s)] + g[s \ {One(s)}]]
Adder(f) == CHOOSE g : Adds(g, f)

\* TotalOf is what the adder says of the whole domain.
LEMMA TotalIs == ASSUME NEW f PROVE TotalOf(f) = Adder(f)[DOMAIN f]
BY Zenon DEF TotalOf, MapThenSumSet, MapThenFoldSet, Adder, Adds, One

Small(D, n) == {s \in SUBSET D : Cardinality(s) <= n}
AddsUpTo(g, f, n) ==
    g = [s \in Small(DOMAIN f, n) |-> IF s = {} THEN 0 ELSE f[One(s)] + g[s \ {One(s)}]]

\* What is taken out of a set is a member of it.
LEMMA OneIn == ASSUME NEW s, s # {} PROVE One(s) \in s
BY DEF One

\* Subsets of a finite set: one member less is one less.
LEMMA OneLess ==
    ASSUME NEW D, IsFiniteSet(D), NEW s \in SUBSET D, s # {}
    PROVE  /\ s \ {One(s)} \in SUBSET D
           /\ Cardinality(s \ {One(s)}) = Cardinality(s) - 1
           /\ Cardinality(s) \in Nat /\ Cardinality(s) > 0
<1>1. IsFiniteSet(s) /\ Cardinality(s) \in Nat
    BY FS_Subset, FS_CardinalityType
<1>2. One(s) \in s
    BY OneIn
<1>3. Cardinality(s) # 0
    BY <1>1, FS_EmptySet
<1>4. Cardinality(s \ {One(s)})
          = IF One(s) \in s THEN Cardinality(s) - 1 ELSE Cardinality(s)
    BY <1>1, FS_RemoveElement
<1> QED
    BY <1>1, <1>2, <1>3, <1>4

\* A function with a finite domain can be added up.
LEMMA AdderExists ==
    ASSUME NEW f, IsFiniteSet(DOMAIN f)
    PROVE  Adds(Adder(f), f)
<1> DEFINE D == DOMAIN f
           N == {n \in Nat : \E g : AddsUpTo(g, f, n)}
<1>1. 0 \in N
    <2> DEFINE g == [s \in Small(D, 0) |-> 0]
    <2>1. \A s \in Small(D, 0) : s = {}
        <3>1. ASSUME NEW s \in Small(D, 0), s # {} PROVE FALSE
            <4>1. Cardinality(s) \in Nat /\ Cardinality(s) > 0
                BY <3>1, OneLess DEF Small
            <4> QED
                BY <4>1 DEF Small
        <3> QED
            BY <3>1
    <2>2. AddsUpTo(g, f, 0)
        BY <2>1 DEF AddsUpTo
    <2> QED
        BY <2>2
<1>2. ASSUME NEW n \in Nat, n \in N PROVE n + 1 \in N
    <2>1. PICK g : AddsUpTo(g, f, n)
        BY <1>2
    <2> DEFINE h == [s \in Small(D, n + 1) |->
                       IF s = {} THEN 0 ELSE f[One(s)] + g[s \ {One(s)}]]
    <2>2. ASSUME NEW s \in Small(D, n + 1), s # {}
          PROVE  s \ {One(s)} \in Small(D, n) /\ s \ {One(s)} \in Small(D, n + 1)
        BY <2>2, OneLess DEF Small
    <2>3. \A s \in Small(D, n) : h[s] = g[s]
        <3>1. Small(D, n) \subseteq Small(D, n + 1)
            <4>1. \A s \in SUBSET D : Cardinality(s) \in Nat
                BY FS_Subset, FS_CardinalityType
            <4> QED
                BY <4>1 DEF Small
        <3>2. \A s \in Small(D, n) : g[s] = IF s = {} THEN 0 ELSE f[One(s)] + g[s \ {One(s)}]
            <4> DEFINE d(s) == IF s = {} THEN 0 ELSE f[One(s)] + g[s \ {One(s)}]
            <4>1. g = [s \in Small(D, n) |-> d(s)]
                BY <2>1, Zenon DEF AddsUpTo
            <4> HIDE DEF d
            <4>2. \A s \in Small(D, n) : g[s] = d(s)
                BY <4>1
            <4> QED
                BY <4>2 DEF d
        <3> QED
            BY <3>1, <3>2
    <2>4. h = [s \in Small(D, n + 1) |-> IF s = {} THEN 0 ELSE f[One(s)] + h[s \ {One(s)}]]
        <3>1. \A s \in Small(D, n + 1) : s # {} => h[s \ {One(s)}] = g[s \ {One(s)}]
            BY <2>2, <2>3
        <3> HIDE DEF h
        <3>2. h = [s \in Small(D, n + 1) |-> IF s = {} THEN 0 ELSE f[One(s)] + g[s \ {One(s)}]]
            BY DEF h
        <3> QED
            BY <3>1, <3>2, Zenon
    <2>5. AddsUpTo(h, f, n + 1)
        BY <2>4, Zenon DEF AddsUpTo
    <2> QED
        BY <2>5
<1> HIDE DEF N
<1>3. Cardinality(D) \in N
    BY <1>1, <1>2, NumberInduction, FS_CardinalityType
<1>4. Small(D, Cardinality(D)) = SUBSET D
    BY FS_Subset DEF Small
<1>5. PICK g : AddsUpTo(g, f, Cardinality(D))
    BY <1>3 DEF N
<1>6. Adds(g, f)
    BY <1>4, <1>5, Zenon DEF Adds, AddsUpTo
<1> QED
    BY <1>6, Zenon DEF Adder

\* The adder, one member at a time.
LEMMA AdderStep ==
    ASSUME NEW D, IsFiniteSet(D), NEW f \in [D -> Int]
    PROVE  /\ Adder(f)[{}] = 0
           /\ \A s \in SUBSET D :
                Adder(f)[s] = IF s = {} THEN 0 ELSE f[One(s)] + Adder(f)[s \ {One(s)}]
<1> DEFINE d(s) == IF s = {} THEN 0 ELSE f[One(s)] + Adder(f)[s \ {One(s)}]
<1>1. DOMAIN f = D
    OBVIOUS
<1>2. Adder(f) = [s \in SUBSET D |-> d(s)]
    BY <1>1, AdderExists, Zenon DEF Adds
<1> HIDE DEF d
<1>3. \A s \in SUBSET D : Adder(f)[s] = d(s)
    BY <1>2
<1> QED
    BY <1>3 DEF d

\* Sums are numbers.
LEMMA AdderType ==
    ASSUME NEW D, IsFiniteSet(D), NEW f \in [D -> Int]
    PROVE  \A s \in SUBSET D : Adder(f)[s] \in Int
<1> DEFINE A == Adder(f)
           N == {n \in Nat : \A s \in SUBSET D : Cardinality(s) = n => A[s] \in Int}
<1>0. \A s \in SUBSET D : A[s] = IF s = {} THEN 0 ELSE f[One(s)] + A[s \ {One(s)}]
    BY AdderStep
<1> HIDE DEF A
<1>1. 0 \in N
    <2>1. \A s \in SUBSET D : Cardinality(s) = 0 => s = {}
        BY FS_EmptySet, FS_Subset
    <2>2. ASSUME NEW s \in SUBSET D, Cardinality(s) = 0 PROVE A[s] \in Int
        <3>1. s = {}
            BY <2>1, <2>2
        <3>2. A[s] = 0
            BY <1>0, <3>1, Zenon
        <3> QED
            BY <3>1, <3>2
    <2> QED
        BY <2>2
<1>2. ASSUME NEW n \in Nat, n \in N PROVE n + 1 \in N
    <2> SUFFICES ASSUME NEW s \in SUBSET D, Cardinality(s) = n + 1 PROVE A[s] \in Int
        OBVIOUS
    <2>1. s # {}
        BY FS_EmptySet
    <2>2. Cardinality(s \ {One(s)}) = n /\ s \ {One(s)} \in SUBSET D
        BY <2>1, OneLess
    <2>3. A[s \ {One(s)}] \in Int /\ f[One(s)] \in Int
        BY <1>2, <2>1, <2>2, OneIn
    <2> QED
        BY <1>0, <2>1, <2>3
<1> HIDE DEF N
<1>3. Nat \subseteq N
    BY <1>1, <1>2, NumberInduction
<1>4. \A s \in SUBSET D : Cardinality(s) \in N
    BY <1>3, FS_Subset, FS_CardinalityType
<1> QED
    BY <1>4 DEF N, A

\* Sums are numbers, and the order of adding does not matter.
LEMMA AdderOrder ==
    ASSUME NEW D, IsFiniteSet(D), NEW f \in [D -> Int]
    PROVE  \A s \in SUBSET D :
             /\ Adder(f)[s] \in Int
             /\ \A x \in s : Adder(f)[s] = f[x] + Adder(f)[s \ {x}]
<1> DEFINE A == Adder(f)
           Good(s) == A[s] \in Int /\ \A x \in s : A[s] = f[x] + A[s \ {x}]
           N == {n \in Nat : \A s \in SUBSET D : Cardinality(s) = n => Good(s)}
<1>0. \A s \in SUBSET D : A[s] = IF s = {} THEN 0 ELSE f[One(s)] + A[s \ {One(s)}]
    BY AdderStep
<1>00. \A s \in SUBSET D : A[s] \in Int
    BY AdderType
<1> HIDE DEF A
<1>1. 0 \in N
    <2>1. \A s \in SUBSET D : Cardinality(s) = 0 => s = {}
        BY FS_EmptySet, FS_Subset
    <2>2. ASSUME NEW s \in SUBSET D, Cardinality(s) = 0 PROVE Good(s)
        <3>1. s = {}
            BY <2>1, <2>2
        <3>2. A[s] = 0
            BY <1>0, <3>1, Zenon
        <3> QED
            BY <3>1, <3>2
    <2> QED
        BY <2>2
<1>2. ASSUME NEW n \in Nat, n \in N PROVE n + 1 \in N
    <2> SUFFICES ASSUME NEW s \in SUBSET D, Cardinality(s) = n + 1 PROVE Good(s)
        OBVIOUS
    <2> DEFINE y == One(s)
    <2>1. s # {}
        BY FS_EmptySet
    <2>2. y \in s
        BY <2>1, OneIn
    <2> HIDE DEF y
    <2>3. ASSUME NEW x \in s
          PROVE  s \ {x} \in SUBSET D /\ Good(s \ {x})
        <3>1. IsFiniteSet(s)
            BY FS_Subset
        <3>2. Cardinality(s \ {x}) = IF x \in s THEN Cardinality(s) - 1 ELSE Cardinality(s)
            BY <3>1, FS_RemoveElement
        <3>3. Cardinality(s \ {x}) = n
            BY <3>2
        <3> QED
            BY <1>2, <3>3
    <2>4. A[s] = f[y] + A[s \ {y}] /\ A[s] \in Int
        <3>1. A[s] = f[y] + A[s \ {y}]
            BY <1>0, <2>1, Zenon DEF y
        <3> QED
            BY <1>00, <3>1
    <2>5. ASSUME NEW x \in s PROVE A[s] = f[x] + A[s \ {x}]
        <3>1. CASE x = y
            BY <2>4, <3>1
        <3>2. CASE x # y
            <4>1. A[s \ {y}] = f[x] + A[(s \ {y}) \ {x}]
                BY <2>2, <2>3, <3>2
            <4>2. A[s \ {x}] = f[y] + A[(s \ {x}) \ {y}]
                BY <2>2, <2>3, <3>2
            <4>3. (s \ {y}) \ {x} = (s \ {x}) \ {y}
                OBVIOUS
            <4>4. f[x] \in Int /\ f[y] \in Int /\ A[s \ {x}] \in Int /\ A[s \ {y}] \in Int
                BY <2>2, <2>3
            <4>5. (s \ {x}) \ {y} \in SUBSET D /\ A[(s \ {x}) \ {y}] \in Int
                BY <1>00
            <4> QED
                <5> DEFINE e == A[(s \ {x}) \ {y}]
                <5>1. A[s] = f[y] + (f[x] + e)
                    BY <2>4, <4>1, <4>3, Zenon
                <5>2. A[s \ {x}] = f[y] + e
                    BY <4>2, Zenon
                <5> HIDE DEF e
                <5>3. \A i, j, k \in Int : i + (j + k) = j + (i + k)
                    OBVIOUS
                <5>4. e \in Int
                    BY <4>5 DEF e
                <5>5. f[y] + (f[x] + e) = f[x] + (f[y] + e)
                    BY <4>4, <5>3, <5>4, Zenon
                <5> QED
                    BY <5>1, <5>2, <5>5, Zenon
        <3> QED
            BY <3>1, <3>2
    <2> QED
        BY <2>4, <2>5
<1> HIDE DEF N
<1>3. Nat \subseteq N
    BY <1>1, <1>2, NumberInduction
<1>4. \A s \in SUBSET D : Cardinality(s) \in N
    BY <1>3, FS_Subset, FS_CardinalityType
<1> QED
    BY <1>4 DEF N, A

\* F adds a member of D at a time to what f says of it.
AddsOne(F, f, D) ==
    \A s \in SUBSET D, x \in D : x \notin s =>
        /\ F[s \cup {x}] = f[x] + F[s]
        /\ F[s] \in Int /\ f[x] \in Int

\* One member more.
LEMMA AdderMore ==
    ASSUME NEW D, IsFiniteSet(D), NEW f \in [D -> Int]
    PROVE  AddsOne(Adder(f), f, D)
<1> SUFFICES ASSUME NEW s \in SUBSET D, NEW x \in D, x \notin s
             PROVE  /\ Adder(f)[s \cup {x}] = f[x] + Adder(f)[s]
                    /\ Adder(f)[s] \in Int /\ f[x] \in Int
    BY DEF AddsOne
<1> DEFINE t == s \cup {x}
<1>1. t \ {x} = s /\ t \in SUBSET D /\ x \in t
    OBVIOUS
<1>2. \A y \in t : Adder(f)[t] = f[y] + Adder(f)[t \ {y}]
    <2> HIDE DEF t
    <2> QED
        BY <1>1, AdderOrder
<1>3. Adder(f)[t] = f[x] + Adder(f)[s]
    BY <1>1, <1>2, Zenon
<1>4. Adder(f)[s] \in Int /\ f[x] \in Int
    BY AdderType
<1> QED
    BY <1>3, <1>4

\* Nothing adds up to nothing.
LEMMA AdderNone ==
    ASSUME NEW D, IsFiniteSet(D), NEW f \in [D -> Int]
    PROVE  Adder(f)[{}] = 0
    BY AdderStep

\* A total is the adder's value.
LEMMA TotalType ==
    ASSUME NEW D, IsFiniteSet(D), NEW f \in [D -> Int]
    PROVE  TotalOf(f) = Adder(f)[D] /\ TotalOf(f) \in Int
<1>1. TotalOf(f) = Adder(f)[D]
    BY TotalIs
<1> QED
    BY <1>1, AdderType

\* More for each is more for all.
LEMMA TotalLe ==
    ASSUME NEW D, IsFiniteSet(D), NEW f \in [D -> Int], NEW g \in [D -> Int],
           \A u \in D : f[u] <= g[u]
    PROVE  TotalOf(f) <= TotalOf(g)
<1> DEFINE F == Adder(f)
           G == Adder(g)
           T == {s \in SUBSET D : F[s] <= G[s]}
<1>10. AddsOne(F, f, D)
    BY AdderMore
<1>11. AddsOne(G, g, D)
    BY AdderMore
<1>1. {} \in T
    <2>1. F[{}] = 0 /\ G[{}] = 0
        BY AdderNone
    <2> QED
        BY <2>1
<1>2. ASSUME NEW s \in SUBSET D, NEW x \in D, s \in T, x \notin s
      PROVE  s \cup {x} \in T
    <2>1. /\ F[s \cup {x}] = f[x] + F[s] /\ F[s] \in Int /\ f[x] \in Int
          /\ G[s \cup {x}] = g[x] + G[s] /\ G[s] \in Int /\ g[x] \in Int
        BY <1>2, <1>10, <1>11, Zenon DEF AddsOne
    <2>2. F[s] <= G[s] /\ f[x] <= g[x]
        BY <1>2
    <2> HIDE DEF F, G
    <2>3. F[s \cup {x}] <= G[s \cup {x}]
        BY <2>1, <2>2
    <2> QED
        BY <2>3
<1> HIDE DEF T
<1>3. D \in T
    BY <1>1, <1>2, SubsetInduction
<1>4. TotalOf(f) = F[D] /\ TotalOf(g) = G[D]
    BY TotalType
<1> HIDE DEF F, G
<1> QED
    BY <1>3, <1>4 DEF T

\* The total of a sum is the sum of the totals.
LEMMA TotalPlus ==
    ASSUME NEW D, IsFiniteSet(D), NEW f \in [D -> Int], NEW g \in [D -> Int],
           NEW h \in [D -> Int], \A u \in D : h[u] = f[u] + g[u]
    PROVE  TotalOf(h) = TotalOf(f) + TotalOf(g)
<1> DEFINE F == Adder(f)
           G == Adder(g)
           H == Adder(h)
           T == {s \in SUBSET D : H[s] = F[s] + G[s]}
<1>10. AddsOne(F, f, D)
    BY AdderMore
<1>11. AddsOne(G, g, D)
    BY AdderMore
<1>12. AddsOne(H, h, D)
    BY AdderMore
<1>1. {} \in T
    <2>1. F[{}] = 0 /\ G[{}] = 0 /\ H[{}] = 0
        BY AdderNone
    <2> QED
        BY <2>1
<1>2. ASSUME NEW s \in SUBSET D, NEW x \in D, s \in T, x \notin s
      PROVE  s \cup {x} \in T
    <2>1. /\ F[s \cup {x}] = f[x] + F[s] /\ F[s] \in Int /\ f[x] \in Int
          /\ G[s \cup {x}] = g[x] + G[s] /\ G[s] \in Int /\ g[x] \in Int
          /\ H[s \cup {x}] = h[x] + H[s] /\ H[s] \in Int /\ h[x] \in Int
        BY <1>2, <1>10, <1>11, <1>12, Zenon DEF AddsOne
    <2>2. H[s] = F[s] + G[s] /\ h[x] = f[x] + g[x]
        BY <1>2
    <2> HIDE DEF F, G, H
    <2>3. H[s \cup {x}] = F[s \cup {x}] + G[s \cup {x}]
        BY <2>1, <2>2
    <2> QED
        BY <2>3
<1> HIDE DEF T
<1>3. D \in T
    BY <1>1, <1>2, SubsetInduction
<1>4. TotalOf(f) = F[D] /\ TotalOf(g) = G[D] /\ TotalOf(h) = H[D]
    BY TotalType
<1> HIDE DEF F, G, H
<1> QED
    BY <1>3, <1>4 DEF T

\* Who gets nothing can be left out.
LEMMA TotalPart ==
    ASSUME NEW D, IsFiniteSet(D), NEW f \in [D -> Int], NEW E \in SUBSET D,
           NEW g \in [E -> Int], \A u \in D : f[u] = IF u \in E THEN g[u] ELSE 0
    PROVE  TotalOf(f) = TotalOf(g)
<1> DEFINE F == Adder(f)
           G == Adder(g)
           T == {s \in SUBSET D : F[s] = G[s \cap E]}
<1>0. IsFiniteSet(E)
    BY FS_Subset
<1>10. AddsOne(F, f, D)
    BY AdderMore
<1>11. AddsOne(G, g, E)
    BY <1>0, AdderMore
<1>1. {} \in T
    <2>1. F[{}] = 0 /\ G[{}] = 0
        BY <1>0, AdderNone
    <2>2. {} \cap E = {}
        OBVIOUS
    <2> QED
        BY <2>1, <2>2, Zenon
<1>2. ASSUME NEW s \in SUBSET D, NEW x \in D, s \in T, x \notin s
      PROVE  s \cup {x} \in T
    <2>1. F[s \cup {x}] = f[x] + F[s] /\ F[s] \in Int /\ f[x] \in Int
        BY <1>2, <1>10, Zenon DEF AddsOne
    <2>2. F[s] = G[s \cap E] /\ s \cup {x} \in SUBSET D
        BY <1>2
    <2>3. CASE x \in E
        <3>1. (s \cup {x}) \cap E = (s \cap E) \cup {x} /\ s \cap E \in SUBSET E /\ x \notin s \cap E
            BY <1>2, <2>3
        <3>2. G[(s \cap E) \cup {x}] = g[x] + G[s \cap E]
            BY <1>11, <2>3, <3>1, Zenon DEF AddsOne
        <3>3. f[x] = g[x]
            BY <2>3
        <3>4. F[s \cup {x}] = G[(s \cup {x}) \cap E]
            BY <2>1, <2>2, <3>1, <3>2, <3>3, Zenon
        <3> QED
            BY <2>2, <3>4
    <2>4. CASE x \notin E
        <3>1. (s \cup {x}) \cap E = s \cap E
            BY <2>4
        <3>2. f[x] = 0
            BY <2>4
        <3> HIDE DEF F, G
        <3>3. F[s \cup {x}] = F[s]
            BY <2>1, <3>2
        <3>4. F[s \cup {x}] = G[(s \cup {x}) \cap E]
            BY <2>2, <3>1, <3>3, Zenon
        <3> QED
            BY <2>2, <3>4
    <2> QED
        BY <2>3, <2>4
<1> HIDE DEF T
<1>3. D \in T
    BY <1>1, <1>2, SubsetInduction
<1>4. TotalOf(f) = F[D] /\ TotalOf(g) = G[E] /\ D \cap E = E
    BY <1>0, TotalType
<1> HIDE DEF F, G
<1> QED
    BY <1>3, <1>4 DEF T

\* The total of what one member gets.
LEMMA TotalOne ==
    ASSUME NEW D, IsFiniteSet(D), NEW f \in [D -> Int], NEW w \in D,
           \A u \in D : u # w => f[u] = 0
    PROVE  TotalOf(f) = f[w]
<1> DEFINE g == [u \in {w} |-> f[u]]
<1>1. g \in [{w} -> Int] /\ IsFiniteSet({w}) /\ {w} \in SUBSET D
    BY FS_Singleton
<1>2. TotalOf(f) = TotalOf(g)
    <2>1. \A u \in D : f[u] = IF u \in {w} THEN g[u] ELSE 0
        OBVIOUS
    <2> HIDE DEF g
    <2> QED
        BY <1>1, <2>1, TotalPart
<1>3. TotalOf(g) = Adder(g)[{w}]
    BY <1>1, TotalType
<1>4. Adder(g)[{} \cup {w}] = g[w] + Adder(g)[{}] /\ Adder(g)[{}] = 0 /\ g[w] \in Int
    <2> HIDE DEF g
    <2>1. {} \in SUBSET {w} /\ w \notin {} /\ w \in {w}
        OBVIOUS
    <2>2. AddsOne(Adder(g), g, {w})
        BY <1>1, AdderMore
    <2>3. Adder(g)[{}] = 0
        BY <1>1, AdderNone
    <2> QED
        BY <2>1, <2>2, <2>3, Zenon DEF AddsOne
<1>5. {} \cup {w} = {w} /\ g[w] = f[w]
    OBVIOUS
<1> HIDE DEF g
<1>6. Adder(g)[{w}] = g[w] + 0
    BY <1>4, <1>5, Zenon
<1>7. g[w] + 0 = g[w]
    BY <1>4
<1> QED
    BY <1>2, <1>3, <1>5, <1>6, <1>7

\* Nobody gets anything.
LEMMA TotalZero ==
    ASSUME NEW D, IsFiniteSet(D)
    PROVE  TotalOf([u \in D |-> 0]) = 0
<1> DEFINE z == [u \in D |-> 0]
<1>1. z \in [D -> Int] /\ \A u \in D : z[u] = z[u] + z[u]
    OBVIOUS
<1> HIDE DEF z
<1>2. TotalOf(z) = TotalOf(z) + TotalOf(z) /\ TotalOf(z) \in Int
    BY <1>1, TotalPlus, TotalType
<1>3. \A i \in Int : i = i + i => i = 0
    OBVIOUS
<1>4. TotalOf(z) = 0
    BY <1>2, <1>3, Zenon
<1> QED
    BY <1>4 DEF z

\* Division rounds down, by less than the divisor.
LEMMA RoundsDown ==
    ASSUME NEW a \in Nat, NEW b \in Nat \ {0}
    PROVE  /\ a \div b \in Nat
           /\ b * (a \div b) <= a
           /\ a <= b * (a \div b) + (b - 1)
    OBVIOUS

\* Rounding down the shares of a pool never overspends it, and leaves less than
\* one unit for each who has points.
SharesFit(D, p, pool, sh) ==
    /\ TotalOf(sh) <= pool
    /\ pool - TotalOf(sh) < Cardinality({u \in D : p[u] > 0})

\* So it is with every division of a pool by points.
LEMMA SharesOfPool ==
    ASSUME NEW D, IsFiniteSet(D), NEW p \in [D -> Nat], NEW pool \in Nat,
           NEW tot \in Nat \ {0}, tot = TotalOf(p), NEW sh \in [D -> Nat],
           \A u \in D : sh[u] = (pool * p[u]) \div tot
    PROVE  SharesFit(D, p, pool, sh)
<1> SUFFICES /\ TotalOf(sh) <= pool
             /\ pool - TotalOf(sh) < Cardinality({u \in D : p[u] > 0})
    BY DEF SharesFit
<1> DEFINE P == Adder(p)
           S == Adder(sh)
           W(s) == {u \in s : p[u] > 0}
           Good(s) == /\ tot * S[s] <= pool * P[s]
                      /\ pool * P[s] <= tot * S[s] + (tot - 1) * Cardinality(W(s))
           T == {s \in SUBSET D : Good(s)}
<1>0. p \in [D -> Int] /\ sh \in [D -> Int]
    OBVIOUS
<1>1. AddsOne(P, p, D) /\ AddsOne(S, sh, D) /\ P[{}] = 0 /\ S[{}] = 0
    BY <1>0, AdderMore, AdderNone
<1>2. TotalOf(p) = P[D] /\ TotalOf(sh) = S[D] /\ P[D] \in Int /\ S[D] \in Int
    BY <1>0, TotalType
<1> HIDE DEF P, S
<1>3. \A s \in SUBSET D : IsFiniteSet(W(s)) /\ Cardinality(W(s)) \in Nat
    <2> SUFFICES ASSUME NEW s \in SUBSET D PROVE IsFiniteSet(W(s)) /\ Cardinality(W(s)) \in Nat
        OBVIOUS
    <2>1. IsFiniteSet(W(s))
        BY FS_Subset
    <2> QED
        BY <2>1, FS_CardinalityType
<1>4. ASSUME NEW x \in D
      PROVE  /\ p[x] \in Nat /\ sh[x] \in Nat
             /\ tot * sh[x] <= pool * p[x]
             /\ pool * p[x] <= tot * sh[x] + (tot - 1)
             /\ p[x] = 0 => pool * p[x] = 0 /\ tot * sh[x] = 0
    <2>1. p[x] \in Nat /\ sh[x] \in Nat /\ pool * p[x] \in Nat /\ sh[x] = (pool * p[x]) \div tot
        OBVIOUS
    <2>2. tot * sh[x] <= pool * p[x] /\ pool * p[x] <= tot * sh[x] + (tot - 1)
        BY <2>1, RoundsDown
    <2>3. p[x] = 0 => pool * p[x] = 0
        OBVIOUS
    <2>4. p[x] = 0 => tot * sh[x] = 0
        <3>1. tot * sh[x] \in Nat
            BY <2>1
        <3> QED
            BY <2>2, <2>3, <3>1
    <2> QED
        BY <2>1, <2>2, <2>3, <2>4
<1>5. {} \in T
    <2>1. W({}) = {}
        OBVIOUS
    <2>2. Cardinality(W({})) = 0
        BY <2>1, FS_EmptySet
    <2>3. tot * 0 = 0 /\ pool * 0 = 0 /\ (tot - 1) * 0 = 0
        OBVIOUS
    <2>4. Good({})
        BY <1>1, <2>2, <2>3
    <2> QED
        BY <2>4
<1>6. ASSUME NEW s \in SUBSET D, NEW x \in D, s \in T, x \notin s
      PROVE  s \cup {x} \in T
    <2>1. /\ P[s \cup {x}] = p[x] + P[s] /\ P[s] \in Int
          /\ S[s \cup {x}] = sh[x] + S[s] /\ S[s] \in Int
        BY <1>1, <1>6 DEF AddsOne
    <2> DEFINE n == Cardinality(W(s))
               m == Cardinality(W(s \cup {x}))
    <2>2. n \in Nat /\ Good(s)
        BY <1>3, <1>6
    <2>3. m = IF p[x] > 0 THEN n + 1 ELSE n
        <3>1. CASE p[x] > 0
            <4>1. W(s \cup {x}) = W(s) \cup {x} /\ x \notin W(s)
                BY <1>6, <3>1
            <4>2. Cardinality(W(s) \cup {x}) = IF x \in W(s) THEN n ELSE n + 1
                BY <1>3, FS_AddElement
            <4> QED
                BY <3>1, <4>1, <4>2
        <3>2. CASE ~(p[x] > 0)
            <4>1. W(s \cup {x}) = W(s)
                BY <3>2
            <4> QED
                BY <3>2, <4>1
        <3> QED
            BY <3>1, <3>2
    <2>4. /\ tot * S[s] <= pool * P[s]
          /\ pool * P[s] <= tot * S[s] + (tot - 1) * n
        BY <2>2
    <2> HIDE DEF n, m
    <2>5. /\ tot * S[s \cup {x}] = tot * sh[x] + tot * S[s]
          /\ pool * P[s \cup {x}] = pool * p[x] + pool * P[s]
        <3>1. \A h, i, j \in Int : h * (i + j) = h * i + h * j
            OBVIOUS
        <3>2. tot \in Int /\ pool \in Int /\ sh[x] \in Int /\ p[x] \in Int
            OBVIOUS
        <3>3. tot * (sh[x] + S[s]) = tot * sh[x] + tot * S[s]
            BY <2>1, <3>1, <3>2, Zenon
        <3>4. pool * (p[x] + P[s]) = pool * p[x] + pool * P[s]
            BY <2>1, <3>1, <3>2, Zenon
        <3> QED
            BY <2>1, <3>3, <3>4, Zenon
    <2>6. /\ tot * sh[x] \in Int /\ tot * S[s] \in Int /\ pool * p[x] \in Int
          /\ pool * P[s] \in Int /\ (tot - 1) * n \in Int
        <3>1. \A h, i \in Int : h * i \in Int
            OBVIOUS
        <3>2. /\ tot \in Int /\ pool \in Int /\ sh[x] \in Int /\ p[x] \in Int
              /\ tot - 1 \in Int /\ n \in Int
            BY <2>2
        <3> QED
            BY <2>1, <3>1, <3>2, Zenon
    <2>7. tot * S[s \cup {x}] <= pool * P[s \cup {x}]
        BY <1>4, <2>4, <2>5, <2>6
    <2>8. pool * P[s \cup {x}] <= tot * S[s \cup {x}] + (tot - 1) * m
        <3>1. CASE p[x] > 0
            <4>1. (tot - 1) * (n + 1) = (tot - 1) * n + (tot - 1)
                BY <2>2
            <4>2. m = n + 1
                BY <2>3, <3>1
            <4>3. pool * p[x] <= tot * sh[x] + (tot - 1)
                BY <1>4
            <4>4. pool * p[x] + pool * P[s] <= (tot * sh[x] + tot * S[s]) + ((tot - 1) * n + (tot - 1))
                BY <2>4, <2>6, <4>3
            <4>5. (tot - 1) * m = (tot - 1) * n + (tot - 1)
                BY <4>1, <4>2, Zenon
            <4> QED
                BY <2>5, <4>4, <4>5, Zenon
        <3>2. CASE ~(p[x] > 0)
            <4>1. p[x] = 0
                BY <1>4, <3>2
            <4> QED
                <5>1. m = n /\ pool * p[x] = 0 /\ tot * sh[x] = 0
                    BY <1>4, <2>3, <3>2, <4>1
                <5>2. pool * p[x] + pool * P[s] <= (tot * sh[x] + tot * S[s]) + (tot - 1) * n
                    BY <2>4, <2>6, <5>1
                <5> QED
                    BY <2>5, <5>1, <5>2, Zenon
        <3> QED
            BY <3>1, <3>2
    <2>9. Good(s \cup {x})
        BY <2>7, <2>8 DEF m
    <2> QED
        BY <2>9
<1> HIDE DEF T
<1>7. D \in T
    BY <1>5, <1>6, SubsetInduction
<1>8. Good(D)
    BY <1>7 DEF T
<1> DEFINE k == Cardinality(W(D))
           x == TotalOf(sh)
<1>9. /\ tot * x <= pool * tot /\ pool * tot <= tot * x + (tot - 1) * k
      /\ x \in Int /\ k \in Nat
    BY <1>2, <1>3, <1>8
<1>10. k # 0
    <2> SUFFICES ASSUME k = 0 PROVE FALSE
        OBVIOUS
    <2>1. W(D) = {}
        BY <1>3, FS_EmptySet
    <2>2. \A u \in D : p[u] <= [v \in D |-> 0][u]
        BY <2>1
    <2> DEFINE z == [v \in D |-> 0]
    <2>3. z \in [D -> Int]
        OBVIOUS
    <2>4. TotalOf(p) <= TotalOf(z)
        <3> HIDE DEF z
        <3> QED
            BY <1>0, <2>2, <2>3, TotalLe DEF z
    <2>5. TotalOf(z) = 0
        BY TotalZero
    <2> QED
        BY <2>4, <2>5
<1> HIDE DEF k, x
<1>11. x <= pool
    <2> SUFFICES ASSUME x >= pool + 1 PROVE FALSE
        BY <1>9
    <2>1. tot * x >= tot * (pool + 1)
        BY <1>9
    <2>2. tot * (pool + 1) = pool * tot + tot
        OBVIOUS
    <2> QED
        BY <1>9, <2>1, <2>2
<1>12. pool - x < k
    <2> SUFFICES ASSUME pool - x >= k PROVE FALSE
        BY <1>9
    <2>1. tot * (pool - x) >= tot * k
        BY <1>9
    <2>2. tot * (pool - x) = pool * tot - tot * x
        BY <1>9
    <2>3. (tot - 1) * k = tot * k - k
        BY <1>9
    <2>4. tot * k \in Int /\ tot * x \in Int /\ pool * tot \in Int
        BY <1>9
    <2> QED
        BY <1>9, <1>10, <2>1, <2>2, <2>3, <2>4
<1> QED
    BY <1>11, <1>12 DEF k, x

\* Nobody gets more than all.
LEMMA TotalMember ==
    ASSUME NEW D, IsFiniteSet(D), NEW f \in [D -> Nat], NEW w \in D
    PROVE  f[w] <= TotalOf(f)
<1> DEFINE g == [u \in D |-> IF u = w THEN f[u] ELSE 0]
<1>1. g \in [D -> Int] /\ f \in [D -> Int] /\ g[w] = f[w]
    OBVIOUS
<1>2. (\A u \in D : g[u] <= f[u]) /\ \A u \in D : u # w => g[u] = 0
    OBVIOUS
<1> HIDE DEF g
<1>3. TotalOf(g) = g[w]
    BY <1>1, <1>2, TotalOne
<1>4. TotalOf(g) <= TotalOf(f)
    BY <1>1, <1>2, TotalLe
<1> QED
    BY <1>1, <1>3, <1>4

-------------------------------------------------------------------------------
\* What the division allots, as a function over all users.
PaTotal == TotalOf([u \in payable |-> points[u]])
PaShare(u) == calculatePayoutShareStroops(points[u], PaTotal, PlayerPool)
PaAll(u) == PaShare(u) + (IF u \in licensor THEN LicenseFee ELSE 0)
Owed == [u \in PaUsers |-> IF u \in payable THEN PaAll(u) ELSE 0]

\* The rows the division reads.
PaGiven ==
    /\ points \in [PaUsers -> PaScores] /\ payable \subseteq PaUsers
    /\ licensor \in {{}} \cup {{u} : u \in PaUsers}

\* Allocations is Owed without those who get nothing.
LEMMA AllocationsOwed ==
    ASSUME PaGiven
    PROVE  /\ DOMAIN Allocations = {v \in PaUsers : v \in payable /\ PaAll(v) > 0}
           /\ \A u \in DOMAIN Allocations : Allocations[u] = Owed[u] /\ u \in PaUsers
<1> DEFINE all == [u \in payable |-> PaAll(u)]
<1>1. Allocations = [u \in {v \in payable : all[v] > 0} |-> all[u]]
    BY DEF Allocations, PaAll, PaShare, PaTotal
<1>2. \A v \in payable : all[v] = PaAll(v) /\ v \in PaUsers
    BY DEF PaGiven
<1>3. \A u \in payable : Owed[u] = PaAll(u)
    BY <1>2 DEF Owed
<1> HIDE DEF all
<1> QED
    BY <1>1, <1>2, <1>3

\* The division reads three columns.
LEMMA OwedSame ==
    ASSUME UNCHANGED <<points, licensor, payable>>
    PROVE  Owed' = Owed /\ Scorers' = Scorers
    BY DEF Owed, PaAll, PaShare, PaTotal, PlayerPool, LicenseFee, Scorers,
           calculatePayoutShareStroops

\* The fee is a part of the pool.
LEMMA FeeBounds == LicenseFee \in Nat /\ LicenseFee <= PaPool /\ PlayerPool \in Nat
<1> DEFINE fee == (PaPool * PaFeeBps) \div BpsScale
<1>1. PaPool \in Nat /\ PaFeeBps \in Nat /\ BpsScale \in Nat \ {0} /\ PaFeeBps <= BpsScale
    BY PaAssumption
<1>2. PaPool * PaFeeBps \in Nat
    BY <1>1
<1>3. fee \in Nat /\ BpsScale * fee <= PaPool * PaFeeBps
    BY <1>1, <1>2, RoundsDown
<1> HIDE DEF fee
<1>4. fee <= PaPool
    <2> SUFFICES ASSUME fee >= PaPool + 1 PROVE FALSE
        BY <1>1, <1>3
    <2>1. BpsScale * fee >= BpsScale * (PaPool + 1)
        BY <1>1, <1>3
    <2>2. PaPool * PaFeeBps <= PaPool * BpsScale
        BY <1>1
    <2>3. BpsScale * (PaPool + 1) = PaPool * BpsScale + BpsScale
        BY <1>1
    <2> QED
        BY <1>1, <1>3, <2>1, <2>2, <2>3
<1>5. LicenseFee = 0 \/ LicenseFee = fee
    BY DEF LicenseFee, fee
<1> QED
    BY <1>1, <1>3, <1>4, <1>5 DEF PlayerPool

\* The division of the pool: no share is negative, all of them are no more than
\* the pool, and what rounding leaves is less than a stroop for each scorer.
LEMMA PoolDivided ==
    ASSUME PaGiven
    PROVE  /\ Owed \in [PaUsers -> Nat]
           /\ TotalOf(Owed) <= PaPool
           /\ Scorers # {} => PaPool - TotalOf(Owed) < Cardinality(Scorers)
<1> DEFINE p == [u \in payable |-> points[u]]
           sh == [u \in payable |-> PaShare(u)]
           bonus == [u \in payable |-> IF u \in licensor THEN LicenseFee ELSE 0]
           both == [u \in payable |-> PaAll(u)]
<1>1. IsFiniteSet(payable) /\ payable \in SUBSET PaUsers /\ IsFiniteSet(PaUsers)
    BY PaAssumption, FS_Subset DEF PaGiven
<1>2. p \in [payable -> Nat] /\ p \in [payable -> Int]
    <2>1. \A u \in payable : points[u] \in PaScores /\ points[u] \in Nat /\ points[u] \in Int
        <3>1. PaScores \subseteq Nat
            BY PaAssumption
        <3>2. \A u \in payable : points[u] \in PaScores
            BY DEF PaGiven
        <3>3. \A x \in PaScores : x \in Nat /\ x \in Int
            BY <3>1
        <3> QED
            BY <3>2, <3>3, Zenon
    <2> QED
        BY <2>1
<1>3. PaTotal = TotalOf(p) /\ PaTotal \in Nat
    <2>1. PaTotal = TotalOf(p)
        BY DEF PaTotal
    <2>2. TotalOf(p) \in Int
        <3> HIDE DEF p
        <3> QED
            BY <1>1, <1>2, TotalType
    <2>3. TotalOf([u \in payable |-> 0]) = 0
        BY <1>1, TotalZero
    <2>4. TotalOf([u \in payable |-> 0]) <= TotalOf(p)
        <3> DEFINE z == [u \in payable |-> 0]
        <3>1. z \in [payable -> Int] /\ \A u \in payable : z[u] <= p[u]
            BY <1>2
        <3> HIDE DEF p, z
        <3>2. TotalOf(z) <= TotalOf(p)
            BY <1>1, <1>2, <3>1, TotalLe
        <3> QED
            BY <3>2 DEF z
    <2> QED
        BY <2>1, <2>2, <2>3, <2>4
<1>4. LicenseFee \in Nat /\ LicenseFee <= PaPool /\ PlayerPool \in Nat
      /\ PlayerPool = PaPool - LicenseFee /\ PaPool \in Nat
    BY FeeBounds, PaAssumption DEF PlayerPool
<1>5. ASSUME PaTotal # 0
      PROVE  /\ sh \in [payable -> Nat] /\ TotalOf(sh) <= PlayerPool
             /\ PlayerPool - TotalOf(sh) < Cardinality({u \in payable : p[u] > 0})
    <2>1. ASSUME NEW u \in payable
          PROVE  sh[u] \in Nat /\ sh[u] = (PlayerPool * p[u]) \div PaTotal
        <3>1. sh[u] = (PlayerPool * p[u]) \div PaTotal
            BY <1>5 DEF PaShare, calculatePayoutShareStroops
        <3>2. p[u] \in Nat
            BY <1>2
        <3> HIDE DEF p, sh
        <3>3. PlayerPool * p[u] \in Nat
            BY <1>4, <3>2
        <3> QED
            BY <1>3, <1>5, <3>1, <3>3, RoundsDown
    <2>2. sh \in [payable -> Nat]
        BY <2>1
    <2> HIDE DEF p, sh
    <2>3. PaTotal \in Nat \ {0}
        BY <1>3, <1>5
    <2>5. \A u \in payable : sh[u] = (PlayerPool * p[u]) \div PaTotal
        BY <2>1
    <2>4. /\ TotalOf(sh) <= PlayerPool
          /\ PlayerPool - TotalOf(sh) < Cardinality({u \in payable : p[u] > 0})
        <3>1. SharesFit(payable, p, PlayerPool, sh)
            BY <1>1, <1>2, <1>3, <1>4, <2>2, <2>3, <2>5, SharesOfPool
        <3> QED
            BY <3>1 DEF SharesFit
    <2> QED
        BY <2>2, <2>4
<1>6. ASSUME PaTotal = 0
      PROVE  sh \in [payable -> Nat] /\ TotalOf(sh) = 0
    <2>1. sh = [u \in payable |-> 0]
        BY <1>6 DEF PaShare, calculatePayoutShareStroops
    <2>2. TotalOf([u \in payable |-> 0]) = 0
        BY <1>1, TotalZero
    <2>3. [u \in payable |-> 0] \in [payable -> Nat]
        OBVIOUS
    <2> HIDE DEF sh
    <2> QED
        BY <2>1, <2>2, <2>3
<1>7. sh \in [payable -> Nat] /\ TotalOf(sh) <= PlayerPool /\ TotalOf(sh) \in Int
    <2>1. sh \in [payable -> Nat]
        BY <1>5, <1>6
    <2> HIDE DEF sh
    <2>2. TotalOf(sh) \in Int
        BY <1>1, <2>1, TotalType
    <2> QED
        BY <1>4, <1>5, <1>6, <2>1, <2>2
<1>8. bonus \in [payable -> Nat] /\ TotalOf(bonus) = LicenseFee
    <2>1. bonus \in [payable -> Nat]
        BY <1>4
    <2>2. CASE licensor \cap payable = {}
        <3>1. bonus = [u \in payable |-> 0]
            BY <2>2
        <3>2. LicenseFee = 0
            BY <2>2 DEF LicenseFee
        <3>3. TotalOf([u \in payable |-> 0]) = 0
            BY <1>1, TotalZero
        <3> HIDE DEF bonus
        <3> QED
            BY <2>1, <3>1, <3>2, <3>3
    <2>3. CASE licensor \cap payable # {}
        <3>1. PICK w \in payable : licensor = {w}
            BY <2>3 DEF PaGiven
        <3>2. bonus[w] = LicenseFee /\ \A u \in payable : u # w => bonus[u] = 0
            BY <3>1
        <3> HIDE DEF bonus
        <3>3. TotalOf(bonus) = bonus[w]
            BY <1>1, <2>1, <3>2, TotalOne
        <3> QED
            BY <2>1, <3>2, <3>3
    <2> QED
        BY <2>2, <2>3
<1>9. both \in [payable -> Nat] /\ \A u \in payable : both[u] = sh[u] + bonus[u]
    <2>1. \A u \in payable : both[u] = sh[u] + bonus[u]
        BY DEF PaAll
    <2>2. \A u \in payable : sh[u] \in Nat /\ bonus[u] \in Nat
        BY <1>7, <1>8
    <2> HIDE DEF sh, bonus
    <2>3. \A u \in payable : both[u] \in Nat
        <3> HIDE DEF both
        <3> QED
            BY <2>1, <2>2
    <2> QED
        BY <2>1, <2>3
<1>10. Owed \in [PaUsers -> Nat] /\ \A u \in PaUsers : Owed[u] = IF u \in payable THEN both[u] ELSE 0
    <2>1. \A u \in PaUsers : Owed[u] = IF u \in payable THEN both[u] ELSE 0
        BY DEF Owed
    <2>2. \A u \in payable : both[u] \in Nat
        BY <1>9
    <2> HIDE DEF both
    <2>3. \A u \in PaUsers : Owed[u] \in Nat
        BY <2>1, <2>2
    <2>4. DOMAIN Owed = PaUsers /\ Owed = [u \in DOMAIN Owed |-> Owed[u]]
        BY DEF Owed
    <2> QED
        BY <2>1, <2>3, <2>4
<1> HIDE DEF p, sh, bonus, both
<1>11. TotalOf(Owed) = TotalOf(both)
    BY <1>1, <1>9, <1>10, TotalPart
<1>12. TotalOf(both) = TotalOf(sh) + TotalOf(bonus)
    BY <1>1, <1>7, <1>8, <1>9, TotalPlus
<1>13. TotalOf(Owed) = TotalOf(sh) + LicenseFee
    BY <1>8, <1>11, <1>12
<1>14. ASSUME Scorers # {} PROVE PaPool - TotalOf(Owed) < Cardinality(Scorers)
    <2>1. Scorers = {u \in payable : p[u] > 0}
        BY DEF Scorers, p
    <2>2. PaTotal # 0
        <3>1. PICK u \in payable : p[u] > 0
            BY <1>14, <2>1
        <3>2. p[u] <= TotalOf(p)
            BY <1>1, <1>2, TotalMember
        <3> QED
            BY <1>2, <1>3, <3>1, <3>2
    <2>3. PlayerPool - TotalOf(sh) < Cardinality(Scorers)
        BY <1>5, <2>1, <2>2
    <2>4. PaPool - TotalOf(Owed) = PlayerPool - TotalOf(sh)
        BY <1>4, <1>7, <1>13
    <2> QED
        BY <2>3, <2>4, Zenon
<1>15. TotalOf(Owed) <= PaPool
    BY <1>4, <1>7, <1>13
<1> QED
    BY <1>10, <1>14, <1>15

\* Types, with the owner of the licensing brand.
PaTyped ==
    PaTypeOK /\ licensor \in {{}} \cup {{u} : u \in PaUsers}
\* Whoever is still to be paid has a row with that amount, not sent, and was not
\* paid; it is what the division owes him, unless who may be paid has changed.
ToPayOwed ==
    /\ payRun # "paying" => DOMAIN recipients = {}
    /\ \A u \in DOMAIN recipients :
         /\ recipients[u] \in Nat \ {0} /\ prow[u].st # "sent"
         /\ prow[u].amount = recipients[u]
         /\ ~shifted => recipients[u] = Owed[u]
\* Only a sent row was paid, and with what is owed.
PaidOwed ==
    \A u \in PaUsers :
      /\ prow[u].st = "sent" <=> got[u] > 0
      /\ ~shifted /\ prow[u].st = "sent" => prow[u].amount = got[u] /\ got[u] = Owed[u]
\* While nobody's address changed, whom a run has reached is paid, refused or
\* still to be paid.
NobodyLost ==
    shifts = 0 =>
      /\ ~shifted
      /\ payRun \in {"paying", "over"} =>
           \A u \in PaUsers :
             Owed[u] > 0 => prow[u].st \in {"sent", "failed"} \/ u \in DOMAIN recipients
PaInv == PaTyped /\ ToPayOwed /\ PaidOwed /\ NobodyLost

\* The invariant types the rows the division reads.
LEMMA PaInvGiven == ASSUME PaInv PROVE PaGiven
    BY DEF PaInv, PaTyped, PaTypeOK, PaGiven

\* The invariant holds before the first run.
LEMMA PaStart == ASSUME PaInit PROVE PaInv
<1>1. PaGiven
    BY DEF PaInit, PaGiven
<1>2. Owed \in [PaUsers -> Nat]
    BY <1>1, PoolDivided
<1>3. PaTyped
    <2>1. 0 \in 0 .. PaPool /\ 0 \in 0 .. MaxRuns /\ 0 \in 0 .. MaxShifts
        BY PaAssumption
    <2>2. DOMAIN recipients = {}
        BY DEF PaInit
    <2>3. prow \in [PaUsers -> [st : {"none", "pending", "sent", "failed"}, amount : 0 .. PaPool]]
        BY <2>1 DEF PaInit
    <2> QED
        BY <2>1, <2>2, <2>3 DEF PaInit, PaTyped, PaTypeOK
<1>4. DOMAIN recipients = {}
    BY DEF PaInit
<1>5. ToPayOwed
    BY <1>4 DEF PaInit, ToPayOwed
<1>6. PaidOwed
    BY DEF PaInit, PaidOwed
<1>7. NobodyLost
    BY DEF PaInit, NobodyLost
<1> QED
    BY <1>3, <1>5, <1>6, <1>7 DEF PaInv

\* What is owed to one is no more than the pool.
LEMMA OwedInPool ==
    ASSUME PaGiven
    PROVE  Owed \in [PaUsers -> Nat] /\ \A u \in PaUsers : Owed[u] \in 0 .. PaPool
<1>1. Owed \in [PaUsers -> Nat] /\ TotalOf(Owed) <= PaPool
    BY PoolDivided
<1>2. IsFiniteSet(PaUsers) /\ PaPool \in Nat
    BY PaAssumption
<1>3. \A u \in PaUsers : Owed[u] <= TotalOf(Owed)
    BY <1>1, <1>2, TotalMember
<1>4. TotalOf(Owed) \in Int
    BY <1>1, <1>2, TotalType
<1>5. \A u \in PaUsers : Owed[u] \in Nat
    BY <1>1
<1> QED
    BY <1>1, <1>2, <1>3, <1>4, <1>5

\* The fields of a row and of what is to be paid.
LEMMA PaFields ==
    ASSUME PaInv
    PROVE  /\ \A u \in PaUsers : /\ prow[u].st \in {"none", "pending", "sent", "failed"}
                                 /\ prow[u].amount \in 0 .. PaPool
                                 /\ prow[u] = [st |-> prow[u].st, amount |-> prow[u].amount]
                                 /\ got[u] \in Nat
           /\ DOMAIN recipients \subseteq PaUsers
           /\ \A u \in DOMAIN recipients : recipients[u] \in Nat
    BY DEF PaInv, PaTyped, PaTypeOK, ToPayOwed

\* A run that starts allots what is owed and passes over who was paid.
LEMMA StartRunKeeps == ASSUME PaInv, StartRun PROVE PaInv'
<1> DEFINE unsent == Unsent(Allocations)
<1>1. PaGiven /\ PaGiven' /\ Owed' = Owed
    BY PaInvGiven, OwedSame DEF StartRun, PaGiven
<1>2. /\ DOMAIN Allocations = {v \in PaUsers : v \in payable /\ PaAll(v) > 0}
      /\ \A u \in DOMAIN Allocations : Allocations[u] = Owed[u] /\ u \in PaUsers
    BY <1>1, AllocationsOwed
<1>3. Owed \in [PaUsers -> Nat] /\ \A u \in PaUsers : Owed[u] \in 0 .. PaPool
    BY <1>1, OwedInPool
<1>4. \A u \in PaUsers : u \in DOMAIN Allocations <=> Owed[u] > 0
    BY <1>2, <1>3 DEF Owed
<1>5. /\ DOMAIN unsent = DOMAIN unsent
      /\ DOMAIN recipients' = unsent
      /\ \A u \in unsent : recipients'[u] = Owed[u] /\ Owed[u] > 0 /\ u \in PaUsers
      /\ \A u \in PaUsers : u \in unsent <=> (Owed[u] > 0 /\ prow[u].st # "sent")
    BY <1>2, <1>4 DEF StartRun, Unsent
<1>6. \A u \in PaUsers :
        prow'[u] = IF Owed[u] > 0
                   THEN [st |-> IF prow[u].st = "sent" THEN "sent" ELSE "pending", amount |-> Owed[u]]
                   ELSE prow[u]
    BY <1>2, <1>4 DEF StartRun
<1>7. /\ payRun' = IF unsent = {} THEN "over" ELSE "paying"
      /\ UNCHANGED <<points, licensor, payable, got, shifts, shifted>>
      /\ runs' = runs + 1 /\ runs < MaxRuns /\ payRun = "none"
    BY DEF StartRun
<1> HIDE DEF unsent
<1>8. \A u \in PaUsers :
        /\ prow'[u].st = IF Owed[u] > 0 /\ prow[u].st # "sent" THEN "pending" ELSE prow[u].st
        /\ prow'[u].amount = IF Owed[u] > 0 THEN Owed[u] ELSE prow[u].amount
        /\ prow'[u] \in [st : {"none", "pending", "sent", "failed"}, amount : 0 .. PaPool]
    <2> SUFFICES ASSUME NEW u \in PaUsers
                 PROVE  /\ prow'[u].st = IF Owed[u] > 0 /\ prow[u].st # "sent" THEN "pending" ELSE prow[u].st
                        /\ prow'[u].amount = IF Owed[u] > 0 THEN Owed[u] ELSE prow[u].amount
                        /\ prow'[u] \in [st : {"none", "pending", "sent", "failed"}, amount : 0 .. PaPool]
        BY Zenon
    <2>1. prow[u] \in [st : {"none", "pending", "sent", "failed"}, amount : 0 .. PaPool]
        BY DEF PaInv, PaTyped, PaTypeOK
    <2>2. CASE Owed[u] > 0
        <3>1. prow'[u] = [st |-> IF prow[u].st = "sent" THEN "sent" ELSE "pending", amount |-> Owed[u]]
            BY <1>6, <2>2, Zenon
        <3>2. Owed[u] \in 0 .. PaPool
            BY <1>3
        <3> HIDE DEF Owed
        <3> QED
            BY <2>2, <3>1, <3>2
    <2>3. CASE ~(Owed[u] > 0)
        <3>1. prow'[u] = prow[u]
            BY <1>6, <2>3, Zenon
        <3> QED
            BY <2>1, <2>3, <3>1, Zenon
    <2> QED
        BY <2>2, <2>3
<1>9. PaTyped'
    <2>1. prow' \in [PaUsers -> [st : {"none", "pending", "sent", "failed"}, amount : 0 .. PaPool]]
        BY <1>8 DEF StartRun
    <2>2. runs' \in 0 .. MaxRuns
        BY <1>7, PaAssumption DEF PaInv, PaTyped, PaTypeOK
    <2>3. DOMAIN recipients' \subseteq PaUsers
        BY <1>5
    <2>4. payRun' \in {"none", "paying", "over"}
        BY <1>7
    <2> QED
        BY <1>7, <2>1, <2>2, <2>3, <2>4 DEF PaInv, PaTyped, PaTypeOK
<1>10. ToPayOwed'
    BY <1>1, <1>3, <1>5, <1>7, <1>8 DEF ToPayOwed
<1>11. PaidOwed'
    BY <1>1, <1>3, <1>7, <1>8 DEF PaidOwed, PaInv
<1>12. NobodyLost'
    BY <1>1, <1>5, <1>7, <1>8 DEF NobodyLost, PaInv
<1> QED
    BY <1>9, <1>10, <1>11, <1>12 DEF PaInv

\* A part that is paid or refused leaves the rows in agreement with what was paid.
LEMMA PayPartKeeps ==
    ASSUME PaInv, NEW S \in SUBSET PaUsers, NEW ok \in BOOLEAN, PayPart(S, ok) PROVE PaInv'
<1>1. PaGiven /\ Owed' = Owed
    BY PaInvGiven, OwedSame DEF PayPart
<1>2. Owed \in [PaUsers -> Nat] /\ \A u \in PaUsers : Owed[u] \in 0 .. PaPool
    BY <1>1, OwedInPool
<1>3. /\ payRun = "paying" /\ S # {} /\ S \subseteq DOMAIN recipients
      /\ payRun' = IF S = DOMAIN recipients THEN "over" ELSE "paying"
      /\ UNCHANGED <<points, licensor, payable, runs, shifts, shifted>>
    BY DEF PayPart
<1>4. /\ DOMAIN recipients' = DOMAIN recipients \ S
      /\ \A u \in DOMAIN recipients' : recipients'[u] = recipients[u] /\ u \in PaUsers /\ u \notin S
    BY PaFields DEF PayPart
<1>5. \A u \in PaUsers : got'[u] = got[u] + (IF ok /\ u \in S THEN recipients[u] ELSE 0)
    BY DEF PayPart
<1>6. \A u \in PaUsers :
        prow'[u] = IF u \in S THEN [prow[u] EXCEPT !.st = IF ok THEN "sent" ELSE "failed"] ELSE prow[u]
    BY DEF PayPart
<1>7. \A u \in PaUsers :
        /\ prow'[u].st = IF u \in S THEN IF ok THEN "sent" ELSE "failed" ELSE prow[u].st
        /\ prow'[u].amount = prow[u].amount
        /\ prow'[u] \in [st : {"none", "pending", "sent", "failed"}, amount : 0 .. PaPool]
    <2> SUFFICES ASSUME NEW u \in PaUsers
                 PROVE  /\ prow'[u].st = IF u \in S THEN IF ok THEN "sent" ELSE "failed" ELSE prow[u].st
                        /\ prow'[u].amount = prow[u].amount
                        /\ prow'[u] \in [st : {"none", "pending", "sent", "failed"}, amount : 0 .. PaPool]
        BY Zenon
    <2>1. prow[u] \in [st : {"none", "pending", "sent", "failed"}, amount : 0 .. PaPool]
        BY DEF PaInv, PaTyped, PaTypeOK
    <2>2. CASE u \in S
        BY <1>6, <2>1, <2>2
    <2>3. CASE u \notin S
        BY <1>6, <2>1, <2>3
    <2> QED
        BY <2>2, <2>3
<1>8. \A u \in PaUsers : /\ got'[u] \in Nat
                         /\ got'[u] = IF ok /\ u \in S THEN got[u] + recipients[u] ELSE got[u]
    <2>1. \A u \in S : u \in PaUsers /\ recipients[u] \in Nat
        BY <1>3, PaFields
    <2>2. \A u \in PaUsers : got[u] \in Nat
        BY PaFields
    <2> SUFFICES ASSUME NEW u \in PaUsers
                 PROVE  /\ got'[u] \in Nat
                        /\ got'[u] = IF ok /\ u \in S THEN got[u] + recipients[u] ELSE got[u]
        BY Zenon
    <2>3. CASE ok /\ u \in S
        BY <1>5, <2>1, <2>2, <2>3
    <2>4. CASE ~(ok /\ u \in S)
        <3>1. got'[u] = got[u] + 0
            BY <1>5, <2>4, Zenon
        <3> QED
            BY <2>2, <2>4, <3>1
    <2> QED
        BY <2>3, <2>4
<1>9. PaTyped'
    <2>1. prow' \in [PaUsers -> [st : {"none", "pending", "sent", "failed"}, amount : 0 .. PaPool]]
        BY <1>7 DEF PayPart
    <2>2. got' \in [PaUsers -> Nat]
        BY <1>8 DEF PayPart
    <2>3. DOMAIN recipients' \subseteq PaUsers
        BY <1>4
    <2>4. payRun' \in {"none", "paying", "over"}
        BY <1>3
    <2> QED
        BY <1>3, <2>1, <2>2, <2>3, <2>4 DEF PaInv, PaTyped, PaTypeOK
<1>10. ToPayOwed'
    BY <1>1, <1>3, <1>4, <1>7 DEF ToPayOwed, PaInv
<1>11. \A u \in S : prow[u].st # "sent" /\ got[u] = 0 /\ prow[u].amount = recipients[u]
                    /\ recipients[u] \in Nat \ {0} /\ (~shifted => recipients[u] = Owed[u])
    <2>1. \A u \in S : prow[u].st # "sent" /\ prow[u].amount = recipients[u]
                        /\ recipients[u] \in Nat \ {0} /\ (~shifted => recipients[u] = Owed[u])
        BY <1>3 DEF PaInv, ToPayOwed
    <2>2. \A u \in S : got[u] \in Nat /\ ~(got[u] > 0)
        BY <2>1, PaFields DEF PaInv, PaidOwed
    <2>3. \A u \in S : got[u] = 0
        BY <2>2
    <2> QED
        BY <2>1, <2>3
<1>12. PaidOwed'
    <2> SUFFICES ASSUME NEW u \in PaUsers
                 PROVE  /\ prow'[u].st = "sent" <=> got'[u] > 0
                        /\ ~shifted /\ prow'[u].st = "sent" => prow'[u].amount = got'[u] /\ got'[u] = Owed[u]
        BY <1>1, <1>3, Zenon DEF PaidOwed
    <2>1. CASE ok /\ u \in S
        <3>1. prow'[u].st = "sent" /\ prow'[u].amount = recipients[u] /\ got'[u] = got[u] + recipients[u]
            BY <1>7, <1>8, <1>11, <2>1, Zenon
        <3> QED
            BY <1>11, <2>1, <3>1
    <2>2. CASE ~ok /\ u \in S
        <3>1. prow'[u].st = "failed" /\ got'[u] = got[u]
            BY <1>7, <1>8, <2>2, Zenon
        <3> QED
            BY <1>11, <2>2, <3>1
    <2>3. CASE u \notin S
        <3>1. prow'[u].st = prow[u].st /\ prow'[u].amount = prow[u].amount /\ got'[u] = got[u]
            BY <1>7, <1>8, <2>3, Zenon
        <3> QED
            BY <3>1, Zenon DEF PaInv, PaidOwed
    <2> QED
        BY <2>1, <2>2, <2>3
<1>13. NobodyLost'
    BY <1>1, <1>3, <1>4, <1>7 DEF PaInv, NobodyLost
<1> QED
    BY <1>9, <1>10, <1>12, <1>13 DEF PaInv

\* A run that dies leaves its rows, and nobody to pay.
LEMMA RunDiesKeeps == ASSUME PaInv, RunDies PROVE PaInv'
<1>1. Owed' = Owed /\ DOMAIN recipients' = {} /\ payRun' = "none"
    BY OwedSame DEF RunDies
<1>2. UNCHANGED <<points, licensor, payable, prow, got, runs, shifts, shifted>>
    BY DEF RunDies
<1>3. PaTyped'
    BY <1>1, <1>2 DEF PaInv, PaTyped, PaTypeOK
<1>4. ToPayOwed'
    BY <1>1, <1>2 DEF ToPayOwed
<1>5. PaidOwed'
    BY <1>1, <1>2 DEF PaInv, PaidOwed
<1>6. NobodyLost'
    BY <1>1, <1>2 DEF PaInv, NobodyLost
<1> QED
    BY <1>3, <1>4, <1>5, <1>6 DEF PaInv

\* An address that comes or goes after a payment is on record.
LEMMA ShiftKeeps == ASSUME PaInv, NEW w \in PaUsers, Shift(w) PROVE PaInv'
<1>1. /\ UNCHANGED <<points, licensor, prow, recipients, got, payRun, runs>>
      /\ shifts < MaxShifts /\ shifts' = shifts + 1
      /\ shifted' = (shifted \/ payRun = "paying" \/ \E v \in PaUsers : got[v] > 0)
    BY DEF Shift
<1>2. payable' \subseteq PaUsers
    BY DEF Shift, SymDiff, PaInv, PaTyped, PaTypeOK
<1>3. shifts' \in 0 .. MaxShifts /\ shifts' # 0
    BY <1>1, PaAssumption DEF PaInv, PaTyped, PaTypeOK
<1>4. PaTyped'
    <2>1. shifted' \in BOOLEAN
        BY <1>1 DEF PaInv, PaTyped, PaTypeOK
    <2> QED
        BY <1>1, <1>2, <1>3, <2>1 DEF PaInv, PaTyped, PaTypeOK
<1>5. ToPayOwed'
    BY <1>1 DEF PaInv, ToPayOwed
<1>6. PaidOwed'
    <2>1. CASE ~shifted'
        <3>1. \A u \in PaUsers : ~(got[u] > 0)
            BY <1>1, <2>1, Zenon
        <3>2. \A u \in PaUsers : prow[u].st # "sent"
            BY <3>1, Zenon DEF PaInv, PaidOwed
        <3> QED
            BY <1>1, <3>1, <3>2 DEF PaidOwed
    <2>2. CASE shifted'
        BY <1>1, <2>2 DEF PaInv, PaidOwed
    <2> QED
        BY <2>1, <2>2
<1>7. NobodyLost'
    BY <1>3 DEF NobodyLost
<1> QED
    BY <1>4, <1>5, <1>6, <1>7 DEF PaInv

\* Every step of the payout keeps the invariant.
LEMMA PaStep == ASSUME PaInv, [PaNext]_paVars PROVE PaInv'
<1>1. CASE StartRun
    BY <1>1, StartRunKeeps
<1>2. CASE RunDies
    BY <1>2, RunDiesKeeps
<1>3. ASSUME NEW S \in SUBSET PaUsers, NEW ok \in BOOLEAN, PayPart(S, ok) PROVE PaInv'
    BY <1>3, PayPartKeeps
<1>4. ASSUME NEW u \in PaUsers, Shift(u) PROVE PaInv'
    BY <1>4, ShiftKeeps
<1>5. CASE UNCHANGED paVars
    <2>1. Owed' = Owed
        BY <1>5, OwedSame DEF paVars
    <2> QED
        BY <1>5, <2>1 DEF paVars, PaInv, PaTyped, PaTypeOK, ToPayOwed, PaidOwed, NobodyLost
<1> QED
    BY <1>1, <1>2, <1>3, <1>4, <1>5 DEF PaNext

\* The invariant bounds what was paid by the pool.
LEMMA PoolHeld == ASSUME PaInv PROVE PoolBounded
<1> SUFFICES ASSUME ~shifted
             PROVE  /\ TotalOf(got) <= PaPool
                    /\ \A u \in PaUsers : prow[u].st = "sent" => prow[u].amount = got[u]
                    /\ payRun = "over" /\ Scorers # {} /\ shifts = 0
                         /\ (\A u \in PaUsers : prow[u].st # "failed")
                         => PaPool - TotalOf(got) < Cardinality(Scorers)
    BY Zenon DEF PoolBounded
<1>1. PaGiven /\ IsFiniteSet(PaUsers) /\ PaPool \in Nat
    BY PaInvGiven, PaAssumption
<1>2. /\ Owed \in [PaUsers -> Nat] /\ TotalOf(Owed) <= PaPool
      /\ Scorers # {} => PaPool - TotalOf(Owed) < Cardinality(Scorers)
    BY <1>1, PoolDivided
<1>3. got \in [PaUsers -> Nat]
    BY DEF PaInv, PaTyped, PaTypeOK
<1>4. \A u \in PaUsers : got[u] \in Nat /\ Owed[u] \in Nat
                         /\ (prow[u].st = "sent" <=> got[u] > 0)
                         /\ (prow[u].st = "sent" => prow[u].amount = got[u] /\ got[u] = Owed[u])
    BY <1>2, <1>3 DEF PaInv, PaidOwed
<1> HIDE DEF Owed
<1>5. \A u \in PaUsers : got[u] <= Owed[u]
    BY <1>4
<1>6. TotalOf(got) <= TotalOf(Owed) /\ TotalOf(got) \in Int /\ TotalOf(Owed) \in Int
    <2>1. got \in [PaUsers -> Int] /\ Owed \in [PaUsers -> Int]
        BY <1>2, <1>3
    <2>2. TotalOf(got) <= TotalOf(Owed)
        BY <1>1, <1>5, <2>1, TotalLe
    <2>3. TotalOf(got) \in Int /\ TotalOf(Owed) \in Int
        BY <1>1, <2>1, TotalType
    <2> QED
        BY <2>2, <2>3
<1>7. TotalOf(got) <= PaPool
    BY <1>1, <1>2, <1>6
<1>8. ASSUME payRun = "over", Scorers # {}, shifts = 0, \A u \in PaUsers : prow[u].st # "failed"
      PROVE  PaPool - TotalOf(got) < Cardinality(Scorers)
    <2>1. DOMAIN recipients = {}
        BY <1>8 DEF PaInv, ToPayOwed
    <2>2. \A u \in PaUsers : Owed[u] > 0 => prow[u].st = "sent"
        BY <1>8, <2>1 DEF PaInv, NobodyLost
    <2>3. \A u \in PaUsers : got[u] = Owed[u]
        BY <1>4, <2>2
    <2>4. got = Owed
        BY <1>2, <1>3, <2>3
    <2> QED
        BY <1>2, <1>8, <2>4
<1> QED
    BY <1>4, <1>7, <1>8

-------------------------------------------------------------------------------
(* Payments beside the winners *)

ReqPcs == {"idle", "returned", "looked", "sender", "load", "submit", "insert", "mark",
           "done", "failed"}
JobPcs == {"none", "waiting", "pay", "sent", "failed", "over", "dropped"}

\* Requests that found no row and have not paid, and jobs about to pay.
MayRefund == {r \in SpReqs : rq[r].pc \in {"looked", "sender", "load", "submit"}}
MayPayBonus == {c \in SpCallers : bonusJob[c].pc = "pay"}

\* Types of the two halves; a job that may run again has attempts left, and is
\* enqueued once.
RefundTyped ==
    /\ chalStatus \in {"active", "ended", "settled", "refunded"}
    /\ due \in BOOLEAN /\ refundRow \in BOOLEAN /\ winnersPaid \in BOOLEAN
    /\ refundTxs \in Nat /\ refundAt \in Nat /\ early \in Nat
    /\ rq \in [SpReqs -> [pc : ReqPcs, seq : Nat]]
    /\ payer \in {"idle", "paying", "settling", "over"}
BonusTyped ==
    /\ rewarded \in BOOLEAN /\ fraud \in BOOLEAN
    /\ bonusTxs \in Nat /\ bonusSent \in Nat /\ looks \in Nat
    /\ bonusRow \in {"none", "pending", "sent", "failed"}
    /\ caller \in [SpCallers -> {"idle", "create", "reward", "queue", "over"}]
    /\ bonusJob \in [SpCallers -> [pc : JobPcs, tries : 0 .. SpAttempts]]
    /\ \A c \in SpCallers : /\ bonusJob[c].pc # "dropped" => bonusJob[c].tries < SpAttempts
                            /\ caller[c] # "over" => bonusJob[c].pc = "none"

\* Each request that may still refund has its own place among those that began
\* before the row; who is to insert or to mark stands on a payment or the row.
RefundCounted ==
    /\ refundTxs + Cardinality(MayRefund) <= early
    /\ refundAt > 0 => refundTxs >= 1
    /\ refundRow => refundTxs >= 1
    /\ chalStatus = "refunded" => refundRow
    /\ \A r \in SpReqs : /\ rq[r].pc = "insert" /\ due => refundTxs >= 1
                         /\ rq[r].pc = "mark" => refundRow
BonusCounted ==
    /\ bonusTxs + Cardinality(MayPayBonus) <= looks
    /\ bonusRow = "sent" => bonusTxs >= 1
    /\ \A c \in SpCallers : /\ bonusJob[c].pc = "sent" => bonusTxs >= 1
                            /\ bonusJob[c].pc # "none" => rewarded
                            /\ caller[c] = "queue" => rewarded
SpInv ==
    /\ RefundTyped /\ RefundCounted /\ BonusTyped /\ BonusCounted
    /\ walletSeq \in Nat /\ spFaults \in Nat

\* The numbers of the state.
LEMMA SpNumbers ==
    ASSUME SpInv
    PROVE  /\ walletSeq \in Nat /\ refundTxs \in Nat /\ refundAt \in Nat /\ early \in Nat
           /\ bonusTxs \in Nat /\ bonusSent \in Nat /\ looks \in Nat /\ spFaults \in Nat
           /\ IsFiniteSet(MayRefund) /\ Cardinality(MayRefund) \in Nat
           /\ IsFiniteSet(MayPayBonus) /\ Cardinality(MayPayBonus) \in Nat
<1>1. IsFiniteSet(MayRefund) /\ IsFiniteSet(MayPayBonus)
    BY SpAssumption, FS_Subset DEF MayRefund, MayPayBonus
<1> QED
    BY <1>1, FS_CardinalityType DEF SpInv, RefundTyped, BonusTyped

\* The invariant holds before the first request.
LEMMA SpStart == ASSUME SpInit PROVE SpInv
<1>1. MayRefund = {} /\ MayPayBonus = {}
    BY DEF SpInit, MayRefund, MayPayBonus
<1>2. Cardinality(MayRefund) = 0 /\ Cardinality(MayPayBonus) = 0
    BY <1>1, FS_EmptySet
<1>3. RefundTyped
    BY DEF SpInit, RefundTyped, ReqPcs
<1>4. BonusTyped
    <2>1. 0 \in 0 .. SpAttempts /\ 0 < SpAttempts
        BY SpAssumption
    <2>2. bonusJob \in [SpCallers -> [pc : JobPcs, tries : 0 .. SpAttempts]]
        BY <2>1 DEF SpInit, JobPcs
    <2> QED
        BY <2>1, <2>2 DEF SpInit, BonusTyped
<1>5. RefundCounted
    BY <1>2 DEF SpInit, RefundCounted
<1>6. BonusCounted
    BY <1>2 DEF SpInit, BonusCounted
<1> QED
    BY <1>3, <1>4, <1>5, <1>6 DEF SpInit, SpInv

\* Who may refund, after a request went to another place.
LEMMA ReqGoes ==
    ASSUME SpInv, NEW r \in SpReqs, NEW pc \in ReqPcs, NEW n \in Nat,
           rq' = [rq EXCEPT ![r] = [pc |-> pc, seq |-> n]]
    PROVE  /\ rq' \in [SpReqs -> [pc : ReqPcs, seq : Nat]]
           /\ rq'[r].pc = pc /\ \A q \in SpReqs \ {r} : rq'[q] = rq[q]
           /\ IsFiniteSet(MayRefund') /\ Cardinality(MayRefund') \in Nat
           /\ Cardinality(MayRefund') <= Cardinality(MayRefund) + 1
           /\ pc \notin {"looked", "sender", "load", "submit"} \/ r \in MayRefund =>
                Cardinality(MayRefund') <= Cardinality(MayRefund)
           /\ pc \notin {"looked", "sender", "load", "submit"} /\ r \in MayRefund =>
                Cardinality(MayRefund') = Cardinality(MayRefund) - 1
<1>1. rq \in [SpReqs -> [pc : ReqPcs, seq : Nat]]
    BY DEF SpInv, RefundTyped
<1>2. rq' \in [SpReqs -> [pc : ReqPcs, seq : Nat]]
    BY <1>1
<1>3. rq'[r].pc = pc /\ \A q \in SpReqs \ {r} : rq'[q] = rq[q]
    BY <1>1
<1>4. IsFiniteSet(MayRefund) /\ Cardinality(MayRefund) \in Nat
    BY SpNumbers
<1>5. CASE pc \in {"looked", "sender", "load", "submit"}
    <2>1. MayRefund' = MayRefund \cup {r}
        BY <1>3, <1>5 DEF MayRefund
    <2>2. /\ IsFiniteSet(MayRefund \cup {r})
          /\ Cardinality(MayRefund \cup {r}) =
               IF r \in MayRefund THEN Cardinality(MayRefund) ELSE Cardinality(MayRefund) + 1
        BY <1>4, FS_AddElement
    <2> QED
        BY <1>2, <1>3, <1>4, <1>5, <2>1, <2>2
<1>6. CASE pc \notin {"looked", "sender", "load", "submit"}
    <2>1. MayRefund' = MayRefund \ {r}
        BY <1>3, <1>6 DEF MayRefund
    <2>2. /\ IsFiniteSet(MayRefund \ {r})
          /\ Cardinality(MayRefund \ {r}) =
               IF r \in MayRefund THEN Cardinality(MayRefund) - 1 ELSE Cardinality(MayRefund)
        BY <1>4, FS_RemoveElement
    <2>3. Cardinality(MayRefund \ {r}) \in Nat
        BY <2>2, FS_CardinalityType
    <2> QED
        BY <1>2, <1>3, <1>4, <1>6, <2>1, <2>2, <2>3
<1> QED
    BY <1>5, <1>6

\* ReqTo keeps the sequence number.
LEMMA ReqToIs ==
    ASSUME SpInv, NEW r \in SpReqs, NEW pc \in ReqPcs, ReqTo(r, pc)
    PROVE  /\ rq' = [rq EXCEPT ![r] = [pc |-> pc, seq |-> rq[r].seq]]
           /\ rq[r].seq \in Nat /\ rq[r].pc \in ReqPcs
<1>1. rq \in [SpReqs -> [pc : ReqPcs, seq : Nat]]
    BY DEF SpInv, RefundTyped
<1>2. [rq[r] EXCEPT !.pc = pc] = [pc |-> pc, seq |-> rq[r].seq]
    BY <1>1
<1>3. rq' = [rq EXCEPT ![r] = [rq[r] EXCEPT !.pc = pc]]
    BY <1>1 DEF ReqTo
<1> QED
    BY <1>1, <1>2, <1>3

\* The same of a job.
LEMMA JobGoes ==
    ASSUME SpInv, NEW c \in SpCallers, NEW pc \in JobPcs, NEW n \in 0 .. SpAttempts,
           bonusJob' = [bonusJob EXCEPT ![c] = [pc |-> pc, tries |-> n]]
    PROVE  /\ bonusJob' \in [SpCallers -> [pc : JobPcs, tries : 0 .. SpAttempts]]
           /\ bonusJob'[c].pc = pc /\ bonusJob'[c].tries = n
           /\ \A d \in SpCallers \ {c} : bonusJob'[d] = bonusJob[d]
           /\ IsFiniteSet(MayPayBonus') /\ Cardinality(MayPayBonus') \in Nat
           /\ Cardinality(MayPayBonus') <= Cardinality(MayPayBonus) + 1
           /\ pc # "pay" => Cardinality(MayPayBonus') <= Cardinality(MayPayBonus)
           /\ pc # "pay" /\ bonusJob[c].pc = "pay" =>
                Cardinality(MayPayBonus') = Cardinality(MayPayBonus) - 1
<1>1. bonusJob \in [SpCallers -> [pc : JobPcs, tries : 0 .. SpAttempts]]
    BY DEF SpInv, BonusTyped
<1>2. bonusJob' \in [SpCallers -> [pc : JobPcs, tries : 0 .. SpAttempts]]
    BY <1>1
<1>3. bonusJob'[c].pc = pc /\ bonusJob'[c].tries = n
      /\ \A d \in SpCallers \ {c} : bonusJob'[d] = bonusJob[d]
    BY <1>1
<1>4. IsFiniteSet(MayPayBonus) /\ Cardinality(MayPayBonus) \in Nat
    BY SpNumbers
<1>5. CASE pc = "pay"
    <2>1. MayPayBonus' = MayPayBonus \cup {c}
        BY <1>3, <1>5 DEF MayPayBonus
    <2>2. /\ IsFiniteSet(MayPayBonus \cup {c})
          /\ Cardinality(MayPayBonus \cup {c}) =
               IF c \in MayPayBonus THEN Cardinality(MayPayBonus) ELSE Cardinality(MayPayBonus) + 1
        BY <1>4, FS_AddElement
    <2> QED
        BY <1>2, <1>3, <1>4, <1>5, <2>1, <2>2
<1>6. CASE pc # "pay"
    <2>1. MayPayBonus' = MayPayBonus \ {c}
        BY <1>3, <1>6 DEF MayPayBonus
    <2>2. /\ IsFiniteSet(MayPayBonus \ {c})
          /\ Cardinality(MayPayBonus \ {c}) =
               IF c \in MayPayBonus THEN Cardinality(MayPayBonus) - 1 ELSE Cardinality(MayPayBonus)
        BY <1>4, FS_RemoveElement
    <2>3. Cardinality(MayPayBonus \ {c}) \in Nat
        BY <2>2, FS_CardinalityType
    <2>4. bonusJob[c].pc = "pay" => c \in MayPayBonus
        BY DEF MayPayBonus
    <2> QED
        BY <1>2, <1>3, <1>4, <1>6, <2>1, <2>2, <2>3, <2>4
<1> QED
    BY <1>5, <1>6

\* JobTo keeps the attempts.
LEMMA JobToIs ==
    ASSUME SpInv, NEW c \in SpCallers, NEW pc \in JobPcs, JobTo(c, pc)
    PROVE  bonusJob' = [bonusJob EXCEPT ![c] = [pc |-> pc, tries |-> bonusJob[c].tries]]
           /\ bonusJob[c].tries \in 0 .. SpAttempts /\ bonusJob[c].pc \in JobPcs
<1>1. bonusJob \in [SpCallers -> [pc : JobPcs, tries : 0 .. SpAttempts]]
    BY DEF SpInv, BonusTyped
<1>2. [bonusJob[c] EXCEPT !.pc = pc] = [pc |-> pc, tries |-> bonusJob[c].tries]
    BY <1>1
<1>3. bonusJob' = [bonusJob EXCEPT ![c] = [bonusJob[c] EXCEPT !.pc = pc]]
    BY <1>1 DEF JobTo
<1> QED
    BY <1>1, <1>2, <1>3

\* SpInv says all that the run checks.
LEMMA SpSound == ASSUME SpInv PROVE SpTypeOK /\ SidePaymentsBounded
<1>1. SpTypeOK
    BY DEF SpInv, RefundTyped, BonusTyped, SpTypeOK, ReqPcs, JobPcs
<1>2. RefundsBounded
    BY SpNumbers DEF SpInv, RefundCounted, RefundsBounded
<1>3. BonusesBounded
    BY SpNumbers DEF SpInv, BonusCounted, BonusesBounded
<1> QED
    BY <1>1, <1>2, <1>3 DEF SidePaymentsBounded

\* A step of one half leaves what is said of the other.
LEMMA RefundFrame ==
    ASSUME SpInv, UNCHANGED refundVars PROVE RefundTyped' /\ RefundCounted'
    BY DEF SpInv, refundVars, RefundTyped, RefundCounted, MayRefund
\* The same of a step of the refund.
LEMMA BonusFrame ==
    ASSUME SpInv, UNCHANGED bonusVars PROVE BonusTyped' /\ BonusCounted'
    BY DEF SpInv, bonusVars, BonusTyped, BonusCounted, MayPayBonus
\* The faults are counted.
LEMMA FaultCounts == ASSUME SpInv, SpFault \/ UNCHANGED spFaults PROVE spFaults' \in Nat
    BY DEF SpInv, SpFault

\* A request that goes on without a payment.
LEMMA ReqMoves ==
    ASSUME SpInv, NEW r \in SpReqs, NEW pc \in ReqPcs, NEW n \in Nat,
           rq' = [rq EXCEPT ![r] = [pc |-> pc, seq |-> n]],
           pc \in {"looked", "sender", "load", "submit"} => r \in MayRefund,
           pc = "insert" /\ due => refundTxs >= 1, pc = "mark" => refundRow',
           refundRow' \in BOOLEAN, refundRow => refundRow', refundRow' => refundTxs >= 1,
           chalStatus' \in {"active", "ended", "settled", "refunded"},
           chalStatus' = "refunded" => refundRow',
           UNCHANGED <<due, refundTxs, refundAt, early, payer, winnersPaid>>
    PROVE  RefundTyped' /\ RefundCounted'
<1>1. /\ rq' \in [SpReqs -> [pc : ReqPcs, seq : Nat]]
      /\ rq'[r].pc = pc /\ \A q \in SpReqs \ {r} : rq'[q] = rq[q]
      /\ Cardinality(MayRefund') \in Nat
      /\ pc \notin {"looked", "sender", "load", "submit"} \/ r \in MayRefund =>
                Cardinality(MayRefund') <= Cardinality(MayRefund)
    BY ReqGoes
<1>2. Cardinality(MayRefund') <= Cardinality(MayRefund)
    BY <1>1
<1>3. RefundTyped'
    BY <1>1 DEF SpInv, RefundTyped
<1>4. refundTxs + Cardinality(MayRefund') <= early
    BY <1>1, <1>2, SpNumbers DEF SpInv, RefundCounted
<1>5. \A q \in SpReqs : /\ rq'[q].pc = "insert" /\ due => refundTxs >= 1
                        /\ rq'[q].pc = "mark" => refundRow'
    BY <1>1 DEF SpInv, RefundCounted
<1>6. RefundCounted'
    BY <1>4, <1>5 DEF SpInv, RefundCounted
<1> QED
    BY <1>3, <1>6

\* Every step of a refund request keeps the invariant.
LEMMA RefundStepKeeps == ASSUME SpInv, NEW r \in SpReqs, RefundStep(r) PROVE SpInv'
<1>0. rq \in [SpReqs -> [pc : ReqPcs, seq : Nat]] /\ rq[r].seq \in Nat /\ due \in BOOLEAN
      /\ refundRow \in BOOLEAN /\ chalStatus \in {"active", "ended", "settled", "refunded"}
    BY DEF SpInv, RefundTyped
<1>1. CASE RefundFails(r)
    <2>1. ReqTo(r, "failed") /\ "failed" \in ReqPcs
        BY <1>1 DEF RefundFails, ReqPcs
    <2>2. rq' = [rq EXCEPT ![r] = [pc |-> "failed", seq |-> rq[r].seq]]
        BY <2>1, ReqToIs
    <2>3. RefundTyped' /\ RefundCounted'
        <3>1. UNCHANGED <<chalStatus, due, refundRow, refundTxs, refundAt, early, payer, winnersPaid>>
            BY <1>1 DEF RefundFails
        <3> QED
            BY <1>0, <2>1, <2>2, <3>1, ReqMoves DEF SpInv, RefundCounted
    <2>4. BonusTyped' /\ BonusCounted'
        BY <1>1, BonusFrame DEF RefundFails
    <2> QED
        BY <1>1, <2>3, <2>4, FaultCounts DEF RefundFails, SpInv
<1>2. CASE LookForRefund(r)
    <2> DEFINE pc == IF refundRow THEN "returned" ELSE "looked"
    <2>1. ReqTo(r, pc) /\ pc \in ReqPcs
        BY <1>2 DEF LookForRefund, Found, ReqPcs
    <2>2. rq' = [rq EXCEPT ![r] = [pc |-> pc, seq |-> rq[r].seq]]
        BY <2>1, ReqToIs
    <2>3. /\ UNCHANGED <<chalStatus, due, refundRow, refundTxs, refundAt, payer, winnersPaid>>
          /\ early' = IF refundRow THEN early ELSE early + 1
          /\ UNCHANGED <<bonusVars, walletSeq, spFaults>>
        BY <1>2 DEF LookForRefund
    <2>4. CASE refundRow
        <3>1. pc = "returned" /\ early' = early
            BY <2>3, <2>4
        <3> HIDE DEF pc
        <3>2. RefundTyped' /\ RefundCounted'
            BY <1>0, <2>1, <2>2, <2>3, <3>1, ReqMoves DEF SpInv, RefundCounted
        <3> QED
            BY <2>3, <3>2, BonusFrame DEF SpInv
    <2>5. CASE ~refundRow
        <3>1. pc = "looked" /\ early' = early + 1
            BY <2>3, <2>5
        <3> HIDE DEF pc
        <3>2. /\ rq' \in [SpReqs -> [pc : ReqPcs, seq : Nat]]
              /\ rq'[r].pc = pc /\ \A q \in SpReqs \ {r} : rq'[q] = rq[q]
              /\ Cardinality(MayRefund') \in Nat
              /\ Cardinality(MayRefund') <= Cardinality(MayRefund) + 1
            BY <1>0, <2>1, <2>2, ReqGoes
        <3>3. RefundTyped'
            BY <2>3, <3>1, <3>2 DEF SpInv, RefundTyped
        <3>4. refundTxs + Cardinality(MayRefund') <= early + 1
            BY <3>2, SpNumbers DEF SpInv, RefundCounted
        <3>5. \A q \in SpReqs : /\ rq'[q].pc = "insert" /\ due => refundTxs >= 1
                                /\ rq'[q].pc = "mark" => refundRow
            BY <3>1, <3>2 DEF SpInv, RefundCounted
        <3>6. RefundCounted'
            BY <2>3, <3>1, <3>4, <3>5 DEF SpInv, RefundCounted
        <3> QED
            BY <2>3, <3>3, <3>6, BonusFrame DEF SpInv
    <2> QED
        BY <2>4, <2>5
<1>3. CASE ReadForRefund(r)
    <2> DEFINE pc == IF chalStatus = "settled" THEN "failed" ELSE "sender"
    <2>1. ReqTo(r, pc) /\ pc \in ReqPcs /\ r \in MayRefund /\ pc \in {"failed", "sender"}
        BY <1>3 DEF ReadForRefund, ReqPcs, MayRefund
    <2>2. UNCHANGED <<chalStatus, due, refundRow, refundTxs, refundAt, early, payer, winnersPaid,
                      bonusVars, walletSeq, spFaults>>
        BY <1>3 DEF ReadForRefund
    <2> HIDE DEF pc
    <2>3. rq' = [rq EXCEPT ![r] = [pc |-> pc, seq |-> rq[r].seq]]
        BY <2>1, ReqToIs
    <2>4. RefundTyped' /\ RefundCounted'
        BY <1>0, <2>1, <2>2, <2>3, ReqMoves DEF SpInv, RefundCounted
    <2> QED
        BY <2>2, <2>4, BonusFrame DEF SpInv
<1>4. CASE getDepositSender(r)
    <2> DEFINE pc == IF due THEN "load" ELSE "insert"
    <2>1. ReqTo(r, pc) /\ pc \in ReqPcs /\ r \in MayRefund /\ pc \in {"load", "insert"}
          /\ (pc = "insert" => ~due)
        BY <1>4 DEF getDepositSender, ReqPcs, MayRefund
    <2>2. UNCHANGED <<chalStatus, due, refundRow, refundTxs, refundAt, early, payer, winnersPaid,
                      bonusVars, walletSeq, spFaults>>
        BY <1>4 DEF getDepositSender
    <2> HIDE DEF pc
    <2>3. rq' = [rq EXCEPT ![r] = [pc |-> pc, seq |-> rq[r].seq]]
        BY <2>1, ReqToIs
    <2>4. RefundTyped' /\ RefundCounted'
        BY <1>0, <2>1, <2>2, <2>3, ReqMoves DEF SpInv, RefundCounted
    <2> QED
        BY <2>2, <2>4, BonusFrame DEF SpInv
<1>5. CASE LoadWallet(r)
    <2>1. rq' = [rq EXCEPT ![r] = [pc |-> "submit", seq |-> walletSeq]] /\ r \in MayRefund
          /\ "submit" \in ReqPcs /\ walletSeq \in Nat
        BY <1>5 DEF LoadWallet, ReqPcs, MayRefund, SpInv
    <2>2. UNCHANGED <<chalStatus, due, refundRow, refundTxs, refundAt, early, payer, winnersPaid,
                      bonusVars, walletSeq, spFaults>>
        BY <1>5 DEF LoadWallet
    <2>4. RefundTyped' /\ RefundCounted'
        BY <1>0, <2>1, <2>2, ReqMoves DEF SpInv, RefundCounted
    <2> QED
        BY <2>2, <2>4, BonusFrame DEF SpInv
<1>6. CASE RefundApplied(r)
    <2>1. PICK pc \in {"insert", "failed"} : ReqTo(r, pc)
        BY <1>6 DEF RefundApplied
    <2>2. pc \in ReqPcs /\ r \in MayRefund /\ pc \notin {"looked", "sender", "load", "submit", "mark"}
        BY <1>6, <2>1 DEF RefundApplied, ReqPcs, MayRefund
    <2>3. rq' = [rq EXCEPT ![r] = [pc |-> pc, seq |-> rq[r].seq]]
        BY <2>1, <2>2, ReqToIs
    <2>4. /\ rq' \in [SpReqs -> [pc : ReqPcs, seq : Nat]]
          /\ rq'[r].pc = pc /\ \A q \in SpReqs \ {r} : rq'[q] = rq[q]
          /\ Cardinality(MayRefund') \in Nat
          /\ Cardinality(MayRefund') = Cardinality(MayRefund) - 1
        BY <1>0, <2>2, <2>3, ReqGoes
    <2>5. /\ walletSeq' = walletSeq + 1 /\ refundAt' = walletSeq + 1 /\ refundTxs' = refundTxs + 1
          /\ UNCHANGED <<chalStatus, due, refundRow, early, payer, winnersPaid, bonusVars>>
          /\ SpFault \/ UNCHANGED spFaults
        BY <1>6 DEF RefundApplied
    <2>6. RefundTyped'
        BY <2>4, <2>5, SpNumbers DEF SpInv, RefundTyped
    <2>7. refundTxs' + Cardinality(MayRefund') <= early' /\ refundTxs' >= 1 /\ walletSeq' \in Nat
        BY <2>4, <2>5, SpNumbers DEF SpInv, RefundCounted
    <2>8. \A q \in SpReqs : rq'[q].pc = "mark" => refundRow'
        BY <2>2, <2>4, <2>5 DEF SpInv, RefundCounted
    <2>9. RefundCounted'
        BY <2>5, <2>7, <2>8 DEF SpInv, RefundCounted
    <2> QED
        BY <2>5, <2>6, <2>7, <2>9, BonusFrame, FaultCounts DEF SpInv
<1>7. CASE RefundRefused(r)
    <2>1. PICK pc \in {"insert", "failed"} : ReqTo(r, pc) /\ (pc = "insert" => refundAt = rq[r].seq + 1)
        BY <1>7 DEF RefundRefused
    <2>2. UNCHANGED <<chalStatus, due, refundRow, refundTxs, refundAt, early, payer, winnersPaid,
                      bonusVars, walletSeq, spFaults>>
        BY <1>7 DEF RefundRefused
    <2>3. pc \in ReqPcs /\ pc \notin {"looked", "sender", "load", "submit", "mark"}
        BY <2>1 DEF ReqPcs
    <2>4. rq' = [rq EXCEPT ![r] = [pc |-> pc, seq |-> rq[r].seq]]
        BY <2>1, <2>3, ReqToIs
    <2>5. pc = "insert" => refundTxs >= 1
        BY <1>0, <2>1 DEF SpInv, RefundCounted
    <2>6. RefundTyped' /\ RefundCounted'
        BY <1>0, <2>2, <2>3, <2>4, <2>5, ReqMoves DEF SpInv, RefundCounted
    <2> QED
        BY <2>2, <2>6, BonusFrame DEF SpInv
<1>8. CASE createRefund(r)
    <2>1. PICK pc \in {"mark", "failed"} :
            ReqTo(r, pc) /\ refundRow' = (refundRow \/ pc = "mark") /\ (pc = "mark" => due)
        BY <1>0, <1>8 DEF createRefund
    <2>2. UNCHANGED <<chalStatus, due, refundTxs, refundAt, early, payer, winnersPaid,
                      bonusVars, walletSeq, spFaults>>
        BY <1>8 DEF createRefund
    <2>3. pc \in ReqPcs /\ pc \notin {"looked", "sender", "load", "submit", "insert"}
        BY <2>1 DEF ReqPcs
    <2>4. rq' = [rq EXCEPT ![r] = [pc |-> pc, seq |-> rq[r].seq]]
        BY <2>1, <2>3, ReqToIs
    <2>5. refundRow' => refundTxs >= 1
        BY <1>8, <2>1 DEF SpInv, RefundCounted, createRefund
    <2>6. RefundTyped' /\ RefundCounted'
        BY <1>0, <2>1, <2>2, <2>3, <2>4, <2>5, ReqMoves DEF SpInv, RefundCounted
    <2> QED
        BY <2>2, <2>6, BonusFrame DEF SpInv
<1>9. CASE MarkRefunded(r)
    <2>1. ReqTo(r, "done") /\ "done" \in ReqPcs /\ chalStatus' = "refunded" /\ refundRow
        BY <1>9 DEF MarkRefunded, ReqPcs, SpInv, RefundCounted
    <2>2. UNCHANGED <<due, refundRow, refundTxs, refundAt, early, payer, winnersPaid,
                      bonusVars, walletSeq, spFaults>>
        BY <1>9 DEF MarkRefunded
    <2>3. rq' = [rq EXCEPT ![r] = [pc |-> "done", seq |-> rq[r].seq]]
        BY <2>1, ReqToIs
    <2>4. RefundTyped' /\ RefundCounted'
        BY <1>0, <2>1, <2>2, <2>3, ReqMoves DEF SpInv, RefundCounted
    <2> QED
        BY <2>2, <2>4, BonusFrame DEF SpInv
<1> QED
    BY <1>1, <1>2, <1>3, <1>4, <1>5, <1>6, <1>7, <1>8, <1>9 DEF RefundStep

\* The payout of the winners uses up a sequence number only.
LEMMA WinnersKeep == ASSUME SpInv, PayoutOfWinners PROVE SpInv'
<1>1. UNCHANGED <<due, refundRow, refundTxs, refundAt, early, rq, bonusVars, spFaults>>
    BY DEF PayoutOfWinners
<1>2. /\ walletSeq' \in Nat /\ payer' \in {"paying", "settling", "over"}
      /\ winnersPaid' \in BOOLEAN /\ (chalStatus' = chalStatus \/ chalStatus' = "settled")
    <2>1. walletSeq' = walletSeq \/ walletSeq' = walletSeq + 1
        BY DEF PayoutOfWinners
    <2>2. walletSeq' \in Nat
        BY <2>1, SpNumbers
    <2>3. winnersPaid \in BOOLEAN
        BY DEF SpInv, RefundTyped
    <2> QED
        BY <2>2, <2>3 DEF PayoutOfWinners
<1>3. RefundTyped' /\ RefundCounted'
    BY <1>1, <1>2 DEF SpInv, RefundTyped, RefundCounted, MayRefund
<1> QED
    BY <1>1, <1>2, <1>3, BonusFrame DEF SpInv

\* A job that goes on.
LEMMA JobMoves ==
    ASSUME SpInv, NEW c \in SpCallers, NEW pc \in JobPcs, NEW n \in 0 .. SpAttempts,
           bonusJob' = [bonusJob EXCEPT ![c] = [pc |-> pc, tries |-> n]],
           pc # "dropped" => n < SpAttempts,
           caller[c] = "over" \/ caller'[c] = "over",
           caller' = [caller EXCEPT ![c] = caller'[c]], caller'[c] = "over",
           bonusTxs' \in Nat, bonusTxs' >= bonusTxs, bonusSent' \in Nat, looks' \in Nat,
           bonusTxs' + Cardinality(MayPayBonus') <= looks',
           bonusRow' \in {"none", "pending", "sent", "failed"},
           bonusRow' = "sent" => bonusTxs' >= 1, pc = "sent" => bonusTxs' >= 1,
           rewarded, UNCHANGED <<rewarded, fraud>>
    PROVE  BonusTyped' /\ BonusCounted'
<1>1. /\ bonusJob' \in [SpCallers -> [pc : JobPcs, tries : 0 .. SpAttempts]]
      /\ bonusJob'[c].pc = pc /\ bonusJob'[c].tries = n
      /\ \A d \in SpCallers \ {c} : bonusJob'[d] = bonusJob[d]
    BY JobGoes
<1>2. caller \in [SpCallers -> {"idle", "create", "reward", "queue", "over"}]
    BY DEF SpInv, BonusTyped
<1>3. /\ caller' \in [SpCallers -> {"idle", "create", "reward", "queue", "over"}]
      /\ \A d \in SpCallers \ {c} : caller'[d] = caller[d]
    BY <1>2
<1>4. \A d \in SpCallers : /\ bonusJob'[d].pc # "dropped" => bonusJob'[d].tries < SpAttempts
                           /\ caller'[d] # "over" => bonusJob'[d].pc = "none"
    BY <1>1, <1>3 DEF SpInv, BonusTyped
<1>5. BonusTyped'
    BY <1>1, <1>3, <1>4 DEF SpInv, BonusTyped
<1>6. \A d \in SpCallers : bonusJob[d].pc = "sent" => bonusTxs' >= 1
    BY SpNumbers DEF SpInv, BonusCounted
<1>7. BonusCounted'
    BY <1>1, <1>3, <1>6 DEF SpInv, BonusCounted
<1> QED
    BY <1>5, <1>7

\* Every step of a caller or of its job keeps the invariant.
LEMMA BonusStepKeeps == ASSUME SpInv, NEW c \in SpCallers, BonusStep(c) PROVE SpInv'
<1>0. /\ bonusJob \in [SpCallers -> [pc : JobPcs, tries : 0 .. SpAttempts]]
      /\ bonusJob[c].tries \in 0 .. SpAttempts
      /\ caller \in [SpCallers -> {"idle", "create", "reward", "queue", "over"}]
      /\ bonusRow \in {"none", "pending", "sent", "failed"}
      /\ (bonusJob[c].pc # "none" =>
            caller[c] = "over" /\ rewarded /\ caller = [caller EXCEPT ![c] = caller[c]])
      /\ (bonusJob[c].pc # "dropped" => bonusJob[c].tries < SpAttempts)
    BY DEF SpInv, BonusTyped, BonusCounted
<1>00. bonusTxs + Cardinality(MayPayBonus) <= looks /\ (bonusRow = "sent" => bonusTxs >= 1)
    BY DEF SpInv, BonusCounted
<1>1. CASE queueReferralBonusForPayout(c)
    <2>1. PICK pc \in {"over", "create"} : caller' = [caller EXCEPT ![c] = pc]
        BY <1>1 DEF queueReferralBonusForPayout, CallerTo
    <2>2. UNCHANGED <<refundVars, walletSeq, rewarded, bonusRow, bonusJob, bonusTxs, bonusSent,
                      looks, fraud, spFaults>> /\ caller[c] = "idle"
        BY <1>1 DEF queueReferralBonusForPayout
    <2>3. /\ caller' \in [SpCallers -> {"idle", "create", "reward", "queue", "over"}]
          /\ caller'[c] = pc /\ \A d \in SpCallers \ {c} : caller'[d] = caller[d]
        BY <1>0, <2>1
    <2>4. BonusTyped'
        BY <2>2, <2>3 DEF SpInv, BonusTyped
    <2>5. BonusCounted'
        BY <2>1, <2>2, <2>3 DEF SpInv, BonusCounted, MayPayBonus
    <2> QED
        BY <2>2, <2>4, <2>5, RefundFrame DEF SpInv
<1>2. CASE createReferralPayout(c)
    <2>1. PICK pc \in {"over", "reward"} : caller' = [caller EXCEPT ![c] = pc]
        BY <1>2 DEF createReferralPayout, CallerTo
    <2>2. UNCHANGED <<refundVars, walletSeq, rewarded, bonusJob, bonusTxs, bonusSent,
                      looks, fraud, spFaults>> /\ caller[c] = "create"
        BY <1>2 DEF createReferralPayout
    <2>3. /\ caller' \in [SpCallers -> {"idle", "create", "reward", "queue", "over"}]
          /\ caller'[c] = pc /\ \A d \in SpCallers \ {c} : caller'[d] = caller[d]
        BY <1>0, <2>1
    <2>4. bonusRow' \in {"none", "pending", "sent", "failed"} /\ (bonusRow' = "sent" => bonusRow = "sent")
        BY <1>0, <1>2 DEF createReferralPayout
    <2>5. BonusTyped'
        BY <2>2, <2>3, <2>4 DEF SpInv, BonusTyped
    <2>6. BonusCounted'
        BY <2>1, <2>2, <2>3, <2>4 DEF SpInv, BonusCounted, MayPayBonus
    <2> QED
        BY <2>2, <2>5, <2>6, RefundFrame DEF SpInv
<1>3. CASE RewardAndQueue(c)
    <2>1. /\ UNCHANGED <<refundVars, walletSeq, bonusRow, bonusTxs, bonusSent, looks, fraud>>
          /\ SpFault \/ UNCHANGED spFaults
        BY <1>3 DEF RewardAndQueue
    <2>2. CASE caller[c] = "reward"
        <3>1. /\ bonusJob' = bonusJob
              /\ \/ rewarded' = TRUE /\ caller' = [caller EXCEPT ![c] = "queue"]
                 \/ rewarded' = rewarded /\ caller' = [caller EXCEPT ![c] = "over"]
            BY <1>3, <2>2 DEF RewardAndQueue, CallerTo
        <3>2. PICK pc \in {"queue", "over"} :
                caller' = [caller EXCEPT ![c] = pc] /\ (pc = "queue" => rewarded')
            BY <3>1
        <3>3. /\ caller' \in [SpCallers -> {"idle", "create", "reward", "queue", "over"}]
              /\ caller'[c] = pc /\ \A d \in SpCallers \ {c} : caller'[d] = caller[d]
            BY <1>0, <3>2
        <3>4. rewarded' \in BOOLEAN /\ (rewarded => rewarded')
            BY <3>1 DEF SpInv, BonusTyped
        <3>5. BonusTyped'
            BY <2>1, <2>2, <3>1, <3>3, <3>4 DEF SpInv, BonusTyped
        <3>6. BonusCounted'
            BY <2>1, <3>1, <3>2, <3>3, <3>4 DEF SpInv, BonusCounted, MayPayBonus
        <3> QED
            BY <2>1, <3>5, <3>6, RefundFrame, FaultCounts DEF SpInv
    <2>3. CASE caller[c] = "queue"
        <3>1. /\ caller' = [caller EXCEPT ![c] = "over"] /\ rewarded' = rewarded
              /\ bonusJob' = bonusJob \/ JobTo(c, "waiting")
            BY <1>3, <2>3 DEF RewardAndQueue, CallerTo
        <3>2. /\ caller' \in [SpCallers -> {"idle", "create", "reward", "queue", "over"}]
              /\ caller'[c] = "over" /\ \A d \in SpCallers \ {c} : caller'[d] = caller[d]
              /\ caller' = [caller EXCEPT ![c] = caller'[c]]
            BY <1>0, <3>1
        <3>3. CASE bonusJob' = bonusJob
            <4>1. BonusTyped'
                BY <2>1, <3>1, <3>2, <3>3 DEF SpInv, BonusTyped
            <4>2. BonusCounted'
                BY <2>1, <3>1, <3>2, <3>3 DEF SpInv, BonusCounted, MayPayBonus
            <4> QED
                BY <2>1, <4>1, <4>2, RefundFrame, FaultCounts DEF SpInv
        <3>4. CASE JobTo(c, "waiting")
            <4>1. bonusJob' = [bonusJob EXCEPT ![c] = [pc |-> "waiting", tries |-> bonusJob[c].tries]]
                  /\ "waiting" \in JobPcs
                BY <3>4, JobToIs DEF JobPcs
            <4>2. Cardinality(MayPayBonus') <= Cardinality(MayPayBonus) /\ Cardinality(MayPayBonus') \in Nat
                BY <1>0, <4>1, JobGoes
            <4>3. bonusTxs' + Cardinality(MayPayBonus') <= looks'
                BY <1>00, <2>1, <4>2, SpNumbers
            <4>4. rewarded /\ bonusJob[c].pc = "none" /\ bonusJob[c].tries < SpAttempts
                BY <1>0, <2>3 DEF SpInv, BonusTyped, BonusCounted
            <4>5. bonusTxs' = bonusTxs /\ bonusTxs' \in Nat /\ bonusTxs' >= bonusTxs
                  /\ bonusSent' \in Nat /\ looks' \in Nat
                BY <2>1, SpNumbers
            <4>6. BonusTyped' /\ BonusCounted'
                <5>1. UNCHANGED <<rewarded, fraud>> /\ bonusRow' = bonusRow /\ "waiting" # "sent"
                    BY <2>1, <3>1
                <5>2. bonusRow' \in {"none", "pending", "sent", "failed"}
                      /\ (bonusRow' = "sent" => bonusTxs' >= 1) /\ bonusJob[c].tries \in 0 .. SpAttempts
                    BY <1>0, <1>00, <4>5, <5>1
                <5> QED
                    BY <3>2, <4>1, <4>3, <4>4, <4>5, <5>1, <5>2, JobMoves
            <4> QED
                BY <2>1, <4>6, RefundFrame, FaultCounts DEF SpInv
        <3> QED
            BY <3>1, <3>3, <3>4
    <2> QED
        BY <1>3, <2>2, <2>3 DEF RewardAndQueue
<1>4. CASE JobLooks(c)
    <2>1. PICK pc \in {"over", "pay"} : JobTo(c, pc) /\ (pc = "pay" => bonusRow = "pending")
        BY <1>4 DEF JobLooks, Payable
    <2>2. UNCHANGED <<refundVars, walletSeq, rewarded, caller, bonusTxs, bonusSent, fraud, spFaults>>
          /\ bonusJob[c].pc = "waiting" /\ looks' = (IF bonusRow = "pending" THEN looks + 1 ELSE looks)
        BY <1>4 DEF JobLooks
    <2>3. bonusJob' = [bonusJob EXCEPT ![c] = [pc |-> pc, tries |-> bonusJob[c].tries]]
          /\ pc \in JobPcs
        BY <2>1, JobToIs DEF JobPcs
    <2>4. Cardinality(MayPayBonus') <= (IF pc = "pay" THEN Cardinality(MayPayBonus) + 1 ELSE Cardinality(MayPayBonus))
          /\ Cardinality(MayPayBonus') \in Nat
        BY <1>0, <2>3, JobGoes
    <2>5. bonusTxs' + Cardinality(MayPayBonus') <= looks' /\ looks' \in Nat
        BY <1>00, <2>1, <2>2, <2>4, SpNumbers
    <2>6. bonusRow' \in {"none", "pending", "sent", "failed"} /\ (bonusRow' = "sent" => bonusRow = "sent")
        BY <1>0, <1>4 DEF JobLooks
    <2>7. bonusTxs' = bonusTxs /\ bonusTxs' \in Nat /\ bonusTxs' >= bonusTxs /\ bonusSent' \in Nat
        BY <2>2, SpNumbers
    <2>8. BonusTyped' /\ BonusCounted'
        BY <1>0, <1>00, <2>1, <2>2, <2>3, <2>5, <2>6, <2>7, JobMoves
    <2> QED
        BY <2>2, <2>8, RefundFrame DEF SpInv
<1>5. CASE JobPays(c)
    <2>1. PICK pc \in {"sent", "failed"} : JobTo(c, pc) /\ (pc = "sent" => bonusTxs' = bonusTxs + 1)
        BY <1>5 DEF JobPays
    <2>2. /\ UNCHANGED <<refundVars, walletSeq, rewarded, bonusRow, caller, looks, fraud>>
          /\ bonusJob[c].pc = "pay" /\ (SpFault \/ UNCHANGED spFaults)
          /\ \/ bonusTxs' = bonusTxs + 1 /\ bonusSent' = bonusSent + PaidFor(BonusStroops)
             \/ bonusTxs' = bonusTxs /\ bonusSent' = bonusSent
        BY <1>5 DEF JobPays
    <2>3. bonusJob' = [bonusJob EXCEPT ![c] = [pc |-> pc, tries |-> bonusJob[c].tries]]
          /\ pc \in JobPcs
        BY <2>1, JobToIs DEF JobPcs
    <2>4. Cardinality(MayPayBonus') = Cardinality(MayPayBonus) - 1 /\ Cardinality(MayPayBonus') \in Nat
        BY <1>0, <2>1, <2>2, <2>3, JobGoes
    <2>5. bonusTxs' + Cardinality(MayPayBonus') <= looks' /\ looks' \in Nat
        BY <1>00, <2>2, <2>4, SpNumbers
    <2>6. PaidFor(BonusStroops) \in Nat
        <3>1. BonusStroops \in Nat /\ StroopsPerUsdc \in Nat
            BY SpAssumption
        <3> QED
            BY <3>1 DEF PaidFor
    <2>7. bonusTxs' \in Nat /\ bonusTxs' >= bonusTxs /\ bonusSent' \in Nat
          /\ (pc = "sent" => bonusTxs' >= 1)
        BY <2>1, <2>2, <2>6, SpNumbers
    <2>9. bonusRow' = "sent" => bonusTxs' >= 1
        BY <1>00, <2>2, <2>7, SpNumbers
    <2>10. pc # "dropped"
        BY <2>1
    <2>8. BonusTyped' /\ BonusCounted'
        BY <1>0, <1>00, <2>2, <2>3, <2>5, <2>7, <2>9, <2>10, JobMoves
    <2> QED
        BY <2>2, <2>8, RefundFrame, FaultCounts DEF SpInv
<1>6. CASE JobRecords(c)
    <2>1. JobTo(c, "over") /\ "over" \in JobPcs
        BY <1>6 DEF JobRecords, JobPcs
    <2>2. UNCHANGED <<refundVars, walletSeq, rewarded, caller, bonusTxs, bonusSent, looks, fraud, spFaults>>
          /\ bonusJob[c].pc \in {"sent", "failed"} /\ bonusRow' = bonusJob[c].pc
        BY <1>6 DEF JobRecords
    <2>3. bonusJob' = [bonusJob EXCEPT ![c] = [pc |-> "over", tries |-> bonusJob[c].tries]]
        BY <2>1, JobToIs
    <2>4. Cardinality(MayPayBonus') <= Cardinality(MayPayBonus) /\ Cardinality(MayPayBonus') \in Nat
        BY <1>0, <2>1, <2>3, JobGoes
    <2>5. bonusTxs' + Cardinality(MayPayBonus') <= looks' /\ looks' \in Nat
        BY <1>00, <2>2, <2>4, SpNumbers
    <2>6. bonusRow' = "sent" => bonusTxs' >= 1
        BY <2>2 DEF SpInv, BonusCounted
    <2>7. bonusTxs' = bonusTxs /\ bonusTxs' \in Nat /\ bonusTxs' >= bonusTxs /\ bonusSent' \in Nat
        BY <2>2, SpNumbers
    <2>8. BonusTyped' /\ BonusCounted'
        BY <1>0, <2>1, <2>2, <2>3, <2>5, <2>6, <2>7, JobMoves
    <2> QED
        BY <2>2, <2>8, RefundFrame DEF SpInv
<1>7. CASE JobDies(c)
    <2> DEFINE n == bonusJob[c].tries + 1
               pc == IF n < SpAttempts THEN "waiting" ELSE "dropped"
    <2>1. bonusJob' = [bonusJob EXCEPT ![c] = [pc |-> pc, tries |-> n]] /\ pc \in JobPcs
        BY <1>7 DEF JobDies, JobPcs
    <2>2. UNCHANGED <<refundVars, walletSeq, rewarded, bonusRow, caller, bonusTxs, bonusSent, looks, fraud>>
          /\ bonusJob[c].pc \in {"pay", "sent", "failed"} /\ SpFault
        BY <1>7 DEF JobDies
    <2>3. n \in 0 .. SpAttempts /\ pc \notin {"pay", "sent"} /\ (pc # "dropped" => n < SpAttempts)
        BY <1>0, <2>2, SpAssumption
    <2> HIDE DEF n, pc
    <2>4. Cardinality(MayPayBonus') <= Cardinality(MayPayBonus) /\ Cardinality(MayPayBonus') \in Nat
        BY <1>0, <2>1, <2>3, JobGoes
    <2>5. bonusTxs' + Cardinality(MayPayBonus') <= looks' /\ looks' \in Nat
        BY <1>00, <2>2, <2>4, SpNumbers
    <2>7. bonusTxs' = bonusTxs /\ bonusTxs' \in Nat /\ bonusTxs' >= bonusTxs /\ bonusSent' \in Nat
        BY <2>2, SpNumbers
    <2>8. BonusTyped' /\ BonusCounted'
        BY <1>0, <1>00, <2>1, <2>2, <2>3, <2>5, <2>7, JobMoves
    <2> QED
        BY <2>2, <2>8, RefundFrame, FaultCounts DEF SpInv
<1> QED
    BY <1>1, <1>2, <1>3, <1>4, <1>5, <1>6, <1>7 DEF BonusStep

\* A fraud flag keeps the invariant.
LEMMA FraudKeeps == ASSUME SpInv, FlagFraud PROVE SpInv'
<1>1. UNCHANGED <<refundVars, walletSeq, rewarded, bonusRow, caller, bonusJob, bonusTxs, bonusSent,
                  looks, spFaults>> /\ fraud' = TRUE
    BY DEF FlagFraud
<1>2. BonusTyped' /\ BonusCounted'
    BY <1>1 DEF SpInv, BonusTyped, BonusCounted, MayPayBonus
<1> QED
    BY <1>1, <1>2, RefundFrame DEF SpInv

\* Every step of refunds and bonuses keeps the invariant.
LEMMA SpStep == ASSUME SpInv, [SpNext]_spVars PROVE SpInv'
<1>1. CASE UNCHANGED spVars
    BY <1>1, RefundFrame, BonusFrame DEF spVars, SpInv
<1> QED
    BY <1>1, WinnersKeep, RefundStepKeeps, BonusStepKeeps, FraudKeeps
    DEF SpNext, RefundNext, BonusNext

-------------------------------------------------------------------------------
(* Boards, profiles and statistics *)

PlayRow == [st : {"none", "active", "completed", "abandoned", "flagged"},
            flagged : BOOLEAN, practice : BOOLEAN, done : BOOLEAN]

\* A play that was finished and not abandoned, and was no practice: no later step
\* makes it anything else.
RowReal(p) == plays[p].done /\ ~plays[p].practice /\ plays[p].st # "abandoned"

ViTyped ==
    /\ closed \subseteq ViBrands /\ hidden \subseteq ViChs /\ gallery \subseteq ViChs
    /\ plays \in [Pairs -> PlayRow] /\ account \in [ViUsers -> {"active", "suspended", "deleted"}]
    /\ mv \subseteq Pairs /\ ratings \subseteq Pairs /\ escaped \subseteq ViChs
    /\ drift \subseteq Pairs /\ payouts \in [Pairs -> {"none", "sent"}]
    /\ board = NoBoard \/ board \subseteq Pairs
    /\ reader = NoBoard \/ reader \subseteq Pairs
    /\ status \in [ViChs -> {"active", "cancelled", "ended", "settled"}]
    /\ queued \in BOOLEAN /\ events \in 0 .. MaxEvents
\* A play is done when it was completed, abandoned or flagged after that.
DoneIsOver ==
    \A p \in Pairs : /\ plays[p].done => plays[p].st \in {"completed", "abandoned", "flagged"}
                     /\ plays[p].st = "completed" => plays[p].done
\* What was ranked once is real: in the view, in the cache, in a reader's hands
\* and among the paid.
RankedWasReal ==
    /\ \A p \in mv : RowReal(p) /\ (~Ranked(p) => p \in drift)
    /\ board # NoBoard => \A p \in board : RowReal(p)
    /\ reader # NoBoard => \A p \in reader : RowReal(p)
    /\ \A p \in Pairs : payouts[p] = "sent" => RowReal(p)
RatedWasDone == \A p \in ratings : plays[p].done /\ plays[p].st \in {"completed", "flagged"}
\* Whatever is still active under a deleted brand was hidden when it was deleted.
ActiveEscaped == \A c \in ViChs : status[c] = "active" /\ BrandOf[c] \in closed => c \in escaped
ViInv == ViTyped /\ DoneIsOver /\ RankedWasReal /\ RatedWasDone /\ ActiveEscaped

\* The parts of a pair.
LEMMA PairParts ==
    ASSUME NEW p \in Pairs PROVE p[1] \in ViUsers /\ p[2] \in ViChs /\ p = <<p[1], p[2]>>
    BY DEF Pairs

\* The invariant holds of the first rows.
LEMMA ViStart == ASSUME ViInit PROVE ViInv
<1>1. PICK t \in [Pairs -> {"real", "practice", "none"}] :
         plays = [p \in Pairs |->
                    IF t[p] = "none" THEN NoPlay
                    ELSE [NoPlay EXCEPT !.st = "active", !.practice = t[p] = "practice"]]
    BY DEF ViInit
<1>2. \A p \in Pairs : plays[p] \in PlayRow /\ ~plays[p].done /\ plays[p].st # "completed"
    BY <1>1 DEF PlayRow, NoPlay
<1>3. plays \in [Pairs -> PlayRow]
    BY <1>1, <1>2
<1>4. ViTyped
    <2>1. events \in 0 .. MaxEvents
        <3>1. events = 0
            BY Zenon DEF ViInit
        <3>2. MaxEvents \in Nat
            BY ViAssumption, Zenon
        <3> QED
            BY <3>1, <3>2
    <2>2. status \in [ViChs -> {"active", "cancelled", "ended", "settled"}]
          /\ account \in [ViUsers -> {"active", "suspended", "deleted"}]
          /\ payouts \in [Pairs -> {"none", "sent"}]
        BY DEF ViInit
    <2> QED
        BY <1>3, <2>1, <2>2 DEF ViInit, ViTyped
<1>5. DoneIsOver
    BY <1>2 DEF DoneIsOver
<1>6. RankedWasReal /\ RatedWasDone /\ ActiveEscaped
    BY DEF ViInit, RankedWasReal, RatedWasDone, ActiveEscaped
<1> QED
    BY <1>4, <1>5, <1>6 DEF ViInv

\* Nothing ranked, paid or rated loses its ground when a play changes as allowed.
LEMMA PlayChanges ==
    ASSUME ViInv, NEW p \in Pairs, NEW row \in PlayRow, ChangePlay(p, row),
           row.done => row.st \in {"completed", "abandoned", "flagged"},
           row.st = "completed" => row.done,
           RowReal(p) => row.done /\ ~row.practice /\ row.st # "abandoned",
           plays[p].done /\ plays[p].st \in {"completed", "flagged"} =>
             row.done /\ row.st \in {"completed", "flagged"}
    PROVE  ViInv'
<1>1. plays \in [Pairs -> PlayRow] /\ plays' = [plays EXCEPT ![p] = row]
    BY DEF ViInv, ViTyped, ChangePlay
<1>2. plays' \in [Pairs -> PlayRow] /\ plays'[p] = row
      /\ \A q \in Pairs \ {p} : plays'[q] = plays[q]
    BY <1>1
<1>3. /\ UNCHANGED <<closed, account, status, hidden, gallery, payouts, ratings, accused, escaped,
                     mv, queued, board, reader>>
      /\ drift' = drift \cup {p} /\ events' = events + 1 /\ events < MaxEvents
    BY DEF ChangePlay, StillBoard, Standing, Event
<1>4. ViTyped'
    <2>1. events' \in 0 .. MaxEvents
        BY <1>3, ViAssumption DEF ViInv, ViTyped
    <2> QED
        BY <1>2, <1>3, <2>1 DEF ViInv, ViTyped
<1>5. DoneIsOver'
    BY <1>2 DEF ViInv, DoneIsOver
<1>6. \A q \in Pairs : RowReal(q) => RowReal(q)'
    BY <1>2 DEF RowReal
<1>7. \A q \in Pairs \ {p} : Ranked(q) => Ranked(q)'
    BY <1>2, <1>3 DEF Ranked
<1>8. RankedWasReal'
    BY <1>3, <1>6, <1>7 DEF ViInv, ViTyped, RankedWasReal
<1>9. RatedWasDone'
    BY <1>2, <1>3 DEF ViInv, ViTyped, RatedWasDone
<1>10. ActiveEscaped'
    BY <1>3 DEF ViInv, ActiveEscaped
<1> QED
    BY <1>4, <1>5, <1>8, <1>9, <1>10 DEF ViInv

\* No change of a play takes back what it was ranked, paid or rated for.
LEMMA PlayStepKeeps ==
    ASSUME ViInv, NEW p \in Pairs,
           finishSession(p) \/ abandonSession(p) \/ flagSession(p)
             \/ \E practice \in BOOLEAN : StartPlay(p, practice)
    PROVE  ViInv'
<1>0. plays[p] \in PlayRow /\ (plays[p].done => plays[p].st \in {"completed", "abandoned", "flagged"})
      /\ (plays[p].st = "completed" => plays[p].done)
    BY DEF ViInv, ViTyped, DoneIsOver
<1>1. CASE finishSession(p)
    <2> DEFINE row == [plays[p] EXCEPT !.st = "completed", !.done = TRUE]
    <2>1. row \in PlayRow /\ row.st = "completed" /\ row.done /\ ChangePlay(p, row) /\ ~plays[p].done
        BY <1>0, <1>1 DEF finishSession, PlayRow
    <2> HIDE DEF row
    <2> QED
        BY <2>1, PlayChanges DEF RowReal
<1>2. CASE abandonSession(p)
    <2> DEFINE row == [plays[p] EXCEPT !.st = "abandoned", !.done = TRUE]
    <2>1. row \in PlayRow /\ row.st = "abandoned" /\ row.done /\ ChangePlay(p, row) /\ ~plays[p].done
        BY <1>0, <1>2 DEF abandonSession, PlayRow
    <2> HIDE DEF row
    <2> QED
        BY <2>1, PlayChanges DEF RowReal
<1>3. CASE flagSession(p)
    <2> DEFINE row == [plays[p] EXCEPT !.st = "flagged", !.flagged = TRUE]
    <2>1. row \in PlayRow /\ row.st = "flagged" /\ row.done = plays[p].done
          /\ row.practice = plays[p].practice /\ ChangePlay(p, row)
        BY <1>0, <1>3 DEF flagSession, PlayRow
    <2> HIDE DEF row
    <2> QED
        BY <2>1, PlayChanges DEF RowReal
<1>4. ASSUME NEW practice \in BOOLEAN, StartPlay(p, practice) PROVE ViInv'
    <2> DEFINE row == [NoPlay EXCEPT !.st = "active", !.practice = practice]
    <2>1. row \in PlayRow /\ row.st = "active" /\ ~row.done /\ ChangePlay(p, row) /\ ~plays[p].done
        BY <1>0, <1>4 DEF StartPlay, PlayRow, NoPlay
    <2> HIDE DEF row
    <2> QED
        BY <2>1, PlayChanges DEF RowReal
<1> QED
    BY <1>1, <1>2, <1>3, <1>4

\* Steps that touch no play keep what was ranked real.
LEMMA RealStays ==
    ASSUME ViInv, plays' = plays
    PROVE  DoneIsOver' /\ \A q \in Pairs : RowReal(q)' <=> RowReal(q)
    BY DEF ViInv, DoneIsOver, RowReal

\* The writes are counted.
LEMMA EventCounts == ASSUME ViInv, Event PROVE events' \in 0 .. MaxEvents
    BY ViAssumption DEF ViInv, ViTyped, Event

\* Writes that touch neither plays, accounts nor the boards.
LEMMA QuietWrite ==
    ASSUME ViInv, Event, StillBoard, UNCHANGED <<plays, account, payouts, drift>>,
           closed' \subseteq ViBrands, hidden' \subseteq ViChs, gallery' \subseteq ViChs,
           escaped' \subseteq ViChs, ratings' \subseteq Pairs,
           status' \in [ViChs -> {"active", "cancelled", "ended", "settled"}],
           \A p \in ratings' : p \in ratings \/ plays[p].st = "completed",
           \A c \in ViChs : status'[c] = "active" /\ BrandOf[c] \in closed' => c \in escaped'
    PROVE  ViInv'
<1>1. DoneIsOver' /\ \A q \in Pairs : RowReal(q)' <=> RowReal(q)
    BY RealStays
<1>2. \A q \in Pairs : Ranked(q)' <=> Ranked(q)
    BY DEF Ranked
<1>3. ViTyped'
    BY EventCounts DEF ViInv, ViTyped, StillBoard
<1>4. RankedWasReal'
    BY <1>1, <1>2 DEF ViInv, ViTyped, RankedWasReal, StillBoard
<1>5. RatedWasDone'
    BY DEF ViInv, ViTyped, DoneIsOver, RatedWasDone
<1>6. ActiveEscaped'
    BY DEF ActiveEscaped
<1> QED
    BY <1>1, <1>3, <1>4, <1>5, <1>6 DEF ViInv

\* A fraud flag changes no row a board is made of.
LEMMA FraudFlagKeeps == ASSUME ViInv, NEW u \in ViUsers, createFraudFlag(u) PROVE ViInv'
<1>1. Event /\ StillBoard
      /\ UNCHANGED <<closed, account, status, hidden, gallery, plays, payouts, ratings, drift, escaped>>
    BY DEF createFraudFlag
<1> QED
    BY <1>1, QuietWrite DEF ViInv, ViTyped, ActiveEscaped

\* Only who completed a challenge rates it.
LEMMA RateKeeps == ASSUME ViInv, NEW p \in Pairs, RateChallenge(p[1], p[2]) PROVE ViInv'
<1>1. /\ Event /\ StillBoard /\ ratings' = ratings \cup {p} /\ plays[p].st = "completed"
      /\ UNCHANGED <<closed, account, status, hidden, gallery, plays, payouts, accused, drift, escaped>>
    BY PairParts DEF RateChallenge, hasCompletedChallenge, upsertChallengeRating
<1>2. ratings' \subseteq Pairs /\ \A q \in ratings' : q \in ratings \/ plays[q].st = "completed"
    BY <1>1 DEF ViInv, ViTyped
<1> QED
    BY <1>1, <1>2, QuietWrite DEF ViInv, ViTyped, ActiveEscaped

\* A change of account is on record until the next refresh.
LEMMA AccountKeeps == ASSUME ViInv, NEW u \in ViUsers, ChangeAccount(u) PROVE ViInv'
<1>1. PICK s \in {"active", "suspended", "deleted"} :
         /\ Event /\ account' = [account EXCEPT ![u] = s]
         /\ drift' = drift \cup {p \in Pairs : p[1] = u}
         /\ UNCHANGED <<mv, queued, board, reader, closed, status, hidden, gallery, plays, payouts,
                        ratings, accused, escaped>>
    BY DEF ChangeAccount, Standing, StillBoard
<1>2. account' \in [ViUsers -> {"active", "suspended", "deleted"}]
      /\ \A v \in ViUsers \ {u} : account'[v] = account[v]
    BY <1>1 DEF ViInv, ViTyped
<1>3. DoneIsOver' /\ \A q \in Pairs : RowReal(q)' <=> RowReal(q)
    BY <1>1, RealStays
<1>4. \A q \in Pairs : q[1] # u => (Ranked(q)' <=> Ranked(q))
    <2> SUFFICES ASSUME NEW q \in Pairs, q[1] # u PROVE Ranked(q)' <=> Ranked(q)
        OBVIOUS
    <2>1. account'[q[1]] = account[q[1]]
        BY <1>2, PairParts
    <2> QED
        BY <1>1, <2>1 DEF Ranked
<1>5. ViTyped'
    BY <1>1, <1>2, EventCounts DEF ViInv, ViTyped
<1>6. RankedWasReal'
    <2>1. \A p \in mv : ~Ranked(p)' => p \in drift'
        BY <1>1, <1>4 DEF ViInv, ViTyped, RankedWasReal
    <2> QED
        BY <1>1, <1>3, <2>1 DEF ViInv, ViTyped, RankedWasReal
<1>7. RatedWasDone' /\ ActiveEscaped'
    BY <1>1 DEF ViInv, RatedWasDone, ActiveEscaped
<1> QED
    BY <1>3, <1>5, <1>6, <1>7 DEF ViInv

\* Hiding, restoring and the gallery change no standing.
LEMMA CatalogueKeeps ==
    ASSUME ViInv, NEW c \in ViChs,
           HideChallenge(c) \/ RestoreHidden(c) \/ optChallengeIntoGallery(c)
             \/ optChallengeOutOfGallery(c)
    PROVE  ViInv'
<1>1. /\ Event /\ StillBoard /\ hidden' \subseteq ViChs /\ gallery' \subseteq ViChs
      /\ UNCHANGED <<closed, account, status, plays, payouts, ratings, accused, drift, escaped>>
    BY DEF HideChallenge, RestoreHidden, SetHidden, optChallengeIntoGallery,
           optChallengeOutOfGallery, SetGallery, ViInv, ViTyped
<1> QED
    BY <1>1, QuietWrite DEF ViInv, ViTyped, ActiveEscaped

\* A deleted brand leaves active only what was hidden.
LEMMA CloseBrandKeeps == ASSUME ViInv, NEW b \in ViBrands, CloseBrand(b) PROVE ViInv'
<1>1. /\ Event /\ StillBoard /\ closed' = closed \cup {b}
      /\ status' = [c \in ViChs |-> IF c \in CancelOf(b) THEN "cancelled" ELSE status[c]]
      /\ escaped' = escaped \cup (ChsOf(b) \cap hidden)
      /\ UNCHANGED <<account, hidden, gallery, plays, payouts, ratings, accused, drift>>
    BY DEF CloseBrand
<1>2. status' \in [ViChs -> {"active", "cancelled", "ended", "settled"}]
    BY <1>1 DEF ViInv, ViTyped
<1>3. \A c \in ViChs : status'[c] = "active" /\ BrandOf[c] \in closed' => c \in escaped'
    <2> SUFFICES ASSUME NEW c \in ViChs, status'[c] = "active", BrandOf[c] \in closed'
                 PROVE  c \in escaped'
        OBVIOUS
    <2>1. c \notin CancelOf(b) /\ status[c] = "active"
        BY <1>1
    <2>2. CASE BrandOf[c] = b
        BY <1>1, <2>1, <2>2 DEF CancelOf, Kept, ChsOf
    <2>3. CASE BrandOf[c] # b
        BY <1>1, <2>1, <2>3 DEF ViInv, ActiveEscaped
    <2> QED
        BY <2>2, <2>3
<1>4. closed' \subseteq ViBrands /\ escaped' \subseteq ViChs
    BY <1>1 DEF ViInv, ViTyped
<1> QED
    BY <1>1, <1>2, <1>3, <1>4, QuietWrite DEF ViInv, ViTyped

\* The standing of a play depends on the play and on its player's account.
LEMMA RankedSame ==
    ASSUME UNCHANGED <<plays, account>> PROVE \A q \in Pairs : Ranked(q)' <=> Ranked(q)
    BY DEF Ranked

\* The end of a challenge keeps the invariant.
LEMMA EndKeeps == ASSUME ViInv, NEW c \in ViChs, EndChallenge(c) PROVE ViInv'
<1>1. /\ Event /\ status' = [status EXCEPT ![c] = "ended"] /\ queued' = TRUE
      /\ UNCHANGED <<closed, account, hidden, gallery, plays, payouts, ratings, accused,
                     mv, board, reader, drift, escaped>>
    BY DEF EndChallenge
<1>2. /\ status' \in [ViChs -> {"active", "cancelled", "ended", "settled"}]
      /\ \A d \in ViChs : status'[d] = "active" => status[d] = "active"
    BY <1>1 DEF ViInv, ViTyped
<1>3. ViTyped'
    BY <1>1, <1>2, EventCounts DEF ViInv, ViTyped
<1>4. RankedWasReal' /\ DoneIsOver'
    BY <1>1, RealStays, RankedSame DEF ViInv, ViTyped, RankedWasReal
<1>5. RatedWasDone' /\ ActiveEscaped'
    BY <1>1, <1>2 DEF ViInv, RatedWasDone, ActiveEscaped
<1> QED
    BY <1>3, <1>4, <1>5 DEF ViInv

\* Only ranked plays are paid.
LEMMA PayWinnersKeeps == ASSUME ViInv, NEW c \in ViChs, PayWinners(c) PROVE ViInv'
<1>1. /\ Event /\ status' = [status EXCEPT ![c] = "settled"] /\ StillBoard
      /\ payouts' = [p \in Pairs |-> IF p[2] = c /\ Ranked(p) THEN "sent" ELSE payouts[p]]
      /\ UNCHANGED <<closed, account, hidden, gallery, plays, ratings, accused, drift, escaped>>
    BY DEF PayWinners
<1>2. /\ status' \in [ViChs -> {"active", "cancelled", "ended", "settled"}]
      /\ \A d \in ViChs : status'[d] = "active" => status[d] = "active"
      /\ payouts' \in [Pairs -> {"none", "sent"}]
    BY <1>1 DEF ViInv, ViTyped
<1>3. ViTyped'
    BY <1>1, <1>2, EventCounts DEF ViInv, ViTyped, StillBoard
<1>4. \A p \in Pairs : Ranked(p) => RowReal(p)
    BY DEF Ranked, RowReal, ViInv, DoneIsOver
<1>5. \A p \in Pairs : payouts'[p] = "sent" => RowReal(p)
    BY <1>1, <1>4 DEF ViInv, RankedWasReal
<1>6. RankedWasReal' /\ DoneIsOver'
    BY <1>1, <1>5, RealStays, RankedSame DEF ViInv, ViTyped, RankedWasReal, StillBoard
<1>7. RatedWasDone' /\ ActiveEscaped'
    BY <1>1, <1>2 DEF ViInv, RatedWasDone, ActiveEscaped
<1> QED
    BY <1>3, <1>6, <1>7 DEF ViInv

\* The refresh and the cached board keep the invariant.
LEMMA BoardStepKeeps ==
    ASSUME ViInv, refreshLeaderboardView \/ GlobalBoardLoad \/ GlobalBoardStore \/ GlobalBoardExpires
    PROVE  ViInv'
<1>0. UNCHANGED <<closed, account, status, hidden, gallery, plays, payouts, ratings, accused,
                  escaped, events>>
    BY DEF refreshLeaderboardView, GlobalBoardLoad, GlobalBoardStore, GlobalBoardExpires
<1>1. RatedWasDone' /\ ActiveEscaped' /\ DoneIsOver'
    BY <1>0, RealStays DEF ViInv, RatedWasDone, ActiveEscaped
<1>2. (\A q \in Pairs : Ranked(q)' <=> Ranked(q)) /\ (\A q \in Pairs : RowReal(q)' <=> RowReal(q))
    BY <1>0, RealStays, RankedSame
<1>3. \A p \in Pairs : Ranked(p) => RowReal(p)
    BY DEF Ranked, RowReal, ViInv, DoneIsOver
<1>4. CASE refreshLeaderboardView
    <2>1. mv' = {p \in Pairs : Ranked(p)} /\ drift' = {} /\ board' = NoBoard /\ queued' = FALSE
          /\ reader' = reader
        BY <1>4 DEF refreshLeaderboardView
    <2>2. ViTyped'
        BY <1>0, <2>1 DEF ViInv, ViTyped, NoBoard
    <2>3. RankedWasReal'
        <3>1. \A p \in mv' : RowReal(p)' /\ Ranked(p)'
            BY <1>2, <1>3, <2>1
        <3> QED
            BY <1>0, <1>2, <2>1, <3>1 DEF ViInv, ViTyped, RankedWasReal, NoBoard
    <2> QED
        BY <1>1, <2>2, <2>3 DEF ViInv
<1>5. CASE GlobalBoardLoad
    <2>1. reader' \subseteq mv /\ UNCHANGED <<mv, queued, board, drift>>
        BY <1>5 DEF GlobalBoardLoad, getGlobalLeaderboardFromView
    <2>2. ViTyped'
        BY <1>0, <2>1 DEF ViInv, ViTyped, NoBoard
    <2>3. RankedWasReal'
        BY <1>0, <1>2, <2>1 DEF ViInv, ViTyped, RankedWasReal, NoBoard
    <2> QED
        BY <1>1, <2>2, <2>3 DEF ViInv
<1>6. CASE GlobalBoardStore
    <2>1. reader # NoBoard /\ board' = reader /\ reader' = NoBoard /\ UNCHANGED <<mv, queued, drift>>
        BY <1>6 DEF GlobalBoardStore
    <2>2. ViTyped'
        BY <1>0, <2>1 DEF ViInv, ViTyped, NoBoard
    <2>3. RankedWasReal'
        BY <1>0, <1>2, <2>1 DEF ViInv, ViTyped, RankedWasReal, NoBoard
    <2> QED
        BY <1>1, <2>2, <2>3 DEF ViInv
<1>7. CASE GlobalBoardExpires
    <2>1. board' = NoBoard /\ UNCHANGED <<mv, queued, drift, reader>>
        BY <1>7 DEF GlobalBoardExpires
    <2>2. ViTyped'
        BY <1>0, <2>1 DEF ViInv, ViTyped, NoBoard
    <2>3. RankedWasReal'
        BY <1>0, <1>2, <2>1 DEF ViInv, ViTyped, RankedWasReal, NoBoard
    <2> QED
        BY <1>1, <2>2, <2>3 DEF ViInv
<1> QED
    BY <1>4, <1>5, <1>6, <1>7

\* Every step keeps the invariant.
LEMMA ViStep == ASSUME ViInv, [ViNext]_viVars PROVE ViInv'
<1>1. CASE UNCHANGED viVars
    <2>1. UNCHANGED <<closed, account, status, hidden, gallery, plays, payouts, ratings, accused,
                      mv, queued, board, reader, drift, escaped, events>>
        BY <1>1 DEF viVars
    <2>2. ViTyped' /\ RatedWasDone' /\ ActiveEscaped'
        BY <2>1 DEF ViInv, ViTyped, RatedWasDone, ActiveEscaped, NoBoard
    <2>3. RankedWasReal' /\ DoneIsOver'
        BY <2>1, RealStays, RankedSame DEF ViInv, ViTyped, RankedWasReal, NoBoard
    <2> QED
        BY <2>2, <2>3 DEF ViInv
<1>2. ASSUME NEW p \in Pairs,
             finishSession(p) \/ abandonSession(p) \/ flagSession(p)
               \/ \E practice \in BOOLEAN : StartPlay(p, practice)
      PROVE ViInv'
    BY <1>2, PlayStepKeeps
<1>3. ASSUME NEW p \in Pairs, RateChallenge(p[1], p[2]) PROVE ViInv'
    BY <1>3, RateKeeps
<1>4. ASSUME NEW u \in ViUsers, createFraudFlag(u) \/ ChangeAccount(u) PROVE ViInv'
    BY <1>4, FraudFlagKeeps, AccountKeeps
<1>5. ASSUME NEW c \in ViChs,
             \/ HideChallenge(c) \/ RestoreHidden(c) \/ EndChallenge(c) \/ PayWinners(c)
             \/ optChallengeIntoGallery(c) \/ optChallengeOutOfGallery(c)
      PROVE ViInv'
    BY <1>5, CatalogueKeeps, EndKeeps, PayWinnersKeeps
<1>6. ASSUME NEW b \in ViBrands, CloseBrand(b) PROVE ViInv'
    BY <1>6, CloseBrandKeeps
<1>7. ASSUME refreshLeaderboardView \/ GlobalBoardLoad \/ GlobalBoardStore \/ GlobalBoardExpires
      PROVE ViInv'
    BY <1>7, BoardStepKeeps
<1> QED
    BY <1>1, <1>2, <1>3, <1>4, <1>5, <1>6, <1>7 DEF ViNext

-------------------------------------------------------------------------------
\* Counting sets of plays.
LEMMA PairsFinite == IsFiniteSet(Pairs)
    BY ViAssumption, FS_Product DEF Pairs

\* A set of plays has a size.
LEMMA Counted ==
    ASSUME NEW S \in SUBSET Pairs
    PROVE  IsFiniteSet(S) /\ Cardinality(S) \in Nat /\ (Cardinality(S) = 0 <=> S = {})
<1>1. IsFiniteSet(S)
    BY PairsFinite, FS_Subset
<1> QED
    BY <1>1, FS_CardinalityType, FS_EmptySet

\* A part of a set of plays is no larger.
LEMMA CountedLess ==
    ASSUME NEW S \in SUBSET Pairs, NEW T \in SUBSET S
    PROVE  Cardinality(T) <= Cardinality(S)
<1>1. IsFiniteSet(S)
    BY Counted
<1> QED
    BY <1>1, FS_Subset

\* Two disjoint sets of plays are counted one by one.
LEMMA CountedApart ==
    ASSUME NEW S \in SUBSET Pairs, NEW T \in SUBSET Pairs, S \cap T = {}
    PROVE  Cardinality(S \cup T) = Cardinality(S) + Cardinality(T)
<1>1. IsFiniteSet(S) /\ IsFiniteSet(T) /\ Cardinality(S) \in Nat /\ Cardinality(T) \in Nat
    BY Counted
<1>2. Cardinality(S \cup T) = Cardinality(S) + Cardinality(T) - Cardinality(S \cap T)
    BY <1>1, FS_Union
<1>3. Cardinality(S \cap T) = 0
    BY FS_EmptySet
<1> QED
    BY <1>1, <1>2, <1>3

\* So has a set of challenges.
LEMMA ChsCounted ==
    ASSUME NEW S \in SUBSET ViChs
    PROVE  IsFiniteSet(S) /\ Cardinality(S) \in Nat /\ (Cardinality(S) = 0 <=> S = {})
<1>1. IsFiniteSet(S)
    BY ViAssumption, FS_Subset
<1> QED
    BY <1>1, FS_CardinalityType, FS_EmptySet

\* The rows of the boards are real plays.
LEMMA BoardRowsAreReal == ASSUME ViInv PROVE BoardRowsReal
    BY DEF ViInv, RankedWasReal, RowReal, BoardRowsReal

\* A rating was earned.
LEMMA RatingsAreEarned == ASSUME ViInv PROVE RatingsEarned
    BY DEF ViInv, RatedWasDone, RatingsEarned

\* Nothing of a deleted brand can be played, but what escaped.
LEMMA ClosedStops == ASSUME ViInv PROVE ClosedBrandStops
    BY DEF ViInv, ActiveEscaped, ClosedBrandStops, ActiveList, getChallengeByIdAny

\* A ranked play counts wherever plays are shown.
LEMMA RankedAreCounted == ASSUME ViInv PROVE RankedCounts
<1>1. ASSUME NEW p \in getTopSessionsPerChallenge(ViChs)
      PROVE  /\ p \in getChallengeTeamLeaderboard(p[2]) /\ getSessionShareCard(p)
             /\ \A f \in PublicProfile(p[1]) : f.wins > 0 /\ f.played >= f.wins
             /\ p[2] \in ActiveList => p \in StreamSnapshot
             /\ p \in collectUserData(p[1]).plays /\ AdminStats.completed > 0
    <2>1. p \in Pairs /\ plays[p].st = "completed" /\ ~plays[p].flagged /\ ~plays[p].practice
          /\ Ranked(p)
        BY DEF getTopSessionsPerChallenge, PlaysOf, Ranked
    <2>2. p[1] \in ViUsers /\ p[2] \in ViChs /\ plays[p].done
        BY <2>1, PairParts DEF ViInv, DoneIsOver
    <2>3. p \in getChallengeTeamLeaderboard(p[2]) /\ getSessionShareCard(p)
        BY <2>1, <2>2 DEF getChallengeTeamLeaderboard, getSessionShareCard, PlaysOf
    <2>4. p[2] \in ActiveList => p \in StreamSnapshot
        BY <2>1, <2>2 DEF StreamSnapshot, getTopSessionsPerChallenge, PlaysOf
    <2>5. p \in collectUserData(p[1]).plays
        BY <2>1, <2>2 DEF collectUserData, PlaysOf
    <2>6. p \in CompletedOf(ViChs) /\ CompletedOf(ViChs) \in SUBSET Pairs
        BY <2>1, <2>2 DEF CompletedOf, PlaysOf
    <2>7. AdminStats.completed > 0
        <3>1. Cardinality(CompletedOf(ViChs)) \in Nat /\ Cardinality(CompletedOf(ViChs)) # 0
            BY <2>6, Counted
        <3>2. AdminStats.completed = Cardinality(CompletedOf(ViChs))
            BY DEF AdminStats
        <3> QED
            BY <3>1, <3>2
    <2>8. ASSUME NEW f \in PublicProfile(p[1]) PROVE f.wins > 0 /\ f.played >= f.wins
        <3> DEFINE mine == {q \in CompletedOf(ViChs) : q[1] = p[1]}
                   real == {q \in mine : ~plays[q].practice}
        <3>1. f.wins = Cardinality(real) /\ f.played = Cardinality(mine)
            BY DEF PublicProfile
        <3>2. mine \in SUBSET Pairs /\ real \in SUBSET mine /\ real \in SUBSET Pairs /\ p \in real
            BY <2>1, <2>6
        <3> HIDE DEF mine, real
        <3>3. Cardinality(real) \in Nat /\ Cardinality(real) # 0 /\ Cardinality(mine) \in Nat
            BY <3>2, Counted
        <3>4. Cardinality(real) <= Cardinality(mine)
            BY <3>2, CountedLess
        <3> QED
            BY <3>1, <3>3, <3>4
    <2> QED
        BY <2>3, <2>4, <2>5, <2>7, <2>8
<1>2. \A p \in Paid : plays[p].done /\ ~plays[p].practice /\ p \in collectUserData(p[1]).payouts
    BY DEF Paid, ViInv, RankedWasReal, RowReal, collectUserData
<1>3. \A c \in ViChs : \A p \in ChallengeFraud(c) : collectUserData(p[1]).flagged
    BY DEF ChallengeFraud, collectUserData
<1> QED
    BY <1>1, <1>2, <1>3 DEF RankedCounts

\* The views of one brand agree with one another.
LEMMA BrandReconciles ==
    ASSUME ViInv, NEW b \in ViBrands \ closed
    PROVE  /\ b \in getPublicBrands => BrandDirectory[b] > 0
           /\ BrandDirectory[b] > 0 =>
                b \in getPublicBrands \/ \E c \in ChsOf(b) \cap hidden : status[c] = "active"
           /\ \A f \in BrandProfile(b) : f[2].ratings = BrandDashboard(b).rated
           /\ b \in getBrandBenchmark(b).sample => getBrandBenchmark(b).own # {}
           /\ getBrandAnalytics(b).ok <=> MyBrands[b] = {}
           /\ getBrandRetention(b) \subseteq {p[1] : p \in PlaysOf(Kept(b))}
           /\ \A c \in getPublicBrandChallenges(b) : status[c] = "active" <=> c \in ActiveList
<1> DEFINE act == {c \in ChsOf(b) : status[c] = "active"}
<1>1. BrandDirectory[b] = Cardinality(act) /\ act \in SUBSET ViChs
    BY DEF BrandDirectory, ChsOf
<1>2. Cardinality(act) \in Nat /\ (Cardinality(act) = 0 <=> act = {})
    BY <1>1, ChsCounted
<1>3. b \in getPublicBrands => act # {}
    BY DEF getPublicBrands, Kept
<1>4. act # {} => b \in getPublicBrands \/ \E c \in ChsOf(b) \cap hidden : status[c] = "active"
    BY DEF getPublicBrands, Kept
<1>5. \A f \in BrandProfile(b) : f[2].ratings = BrandDashboard(b).rated
    BY DEF BrandProfile, getPublicBrandStats, BrandDashboard, getBrandRatingStats
<1>6. b \in getBrandBenchmark(b).sample => getBrandBenchmark(b).own # {}
    <2> SUFFICES ASSUME b \in getBrandBenchmark(b).sample PROVE getBrandBenchmark(b).own # {}
        OBVIOUS
    <2>1. PlaysOf(Kept(b)) # {} /\ PlaysOf(Kept(b)) \in SUBSET Pairs
        BY DEF getBrandBenchmark, getPlatformBenchmarkMedians, PlaysOf
    <2>2. Cardinality(PlaysOf(Kept(b))) # 0
        BY <2>1, Counted
    <2>3. getSessionStats(Kept(b)).total # 0
        BY <2>2 DEF getSessionStats
    <2>4. metricsFromRow(b) # {}
        BY <2>3 DEF metricsFromRow
    <2> QED
        BY <2>4 DEF getBrandBenchmark
<1>7. getBrandAnalytics(b).ok <=> MyBrands[b] = {}
    BY DEF getBrandAnalytics, getChallengeIdsForBrand, getQuestionAccuracy, MyBrands, getBrandsByOwner
<1>8. getBrandRetention(b) \subseteq {p[1] : p \in PlaysOf(Kept(b))}
    BY DEF getBrandRetention
<1>9. \A c \in getPublicBrandChallenges(b) : status[c] = "active" <=> c \in ActiveList
    BY DEF getPublicBrandChallenges, ActiveList, Kept, ChsOf
<1> HIDE DEF act
<1>10. /\ b \in getPublicBrands => BrandDirectory[b] > 0
       /\ BrandDirectory[b] > 0 =>
            b \in getPublicBrands \/ \E c \in ChsOf(b) \cap hidden : status[c] = "active"
    BY <1>1, <1>2, <1>3, <1>4
<1> QED
    BY <1>5, <1>6, <1>7, <1>8, <1>9, <1>10

\* The dashboard, the statistics and the gallery count the same plays.
LEMMA DashboardReconciles ==
    ASSUME ViInv, NEW b \in ViBrands \ closed, NEW c \in DOMAIN BrandDashboard(b).stats,
           NEW s \in ChallengeStats(c)
    PROVE  /\ BrandDashboard(b).stats[c].total
                = s.total - Cardinality({p \in PlaysOf({c}) : plays[p].flagged})
           /\ \A g \in getGalleryTemplateById(c) : g = <<s.completed, s.total>>
<1> DEFINE all == PlaysOf({c})
           fair == {p \in all : ~plays[p].flagged}
           bad == {p \in all : plays[p].flagged}
<1>1. s.total = Cardinality(all) /\ s.completed = Cardinality(CompletedOf({c}))
    BY DEF ChallengeStats
<1>2. BrandDashboard(b).stats[c].total = Cardinality(fair)
    <2>1. BrandDashboard(b).stats = getBrandChallengeStats(b)
        BY DEF BrandDashboard
    <2>2. c \in {x \in ChsOf(b) : status[x] \notin {"cancelled", "refunded"}}
        BY <2>1 DEF getBrandChallengeStats
    <2>3. getBrandChallengeStats(b)[c].total = Cardinality(fair)
        BY <2>2 DEF getBrandChallengeStats
    <2> QED
        BY <2>1, <2>3
<1>3. fair \in SUBSET Pairs /\ bad \in SUBSET Pairs /\ fair \cap bad = {} /\ fair \cup bad = all
    BY DEF PlaysOf
<1>4. \A g \in getGalleryTemplateById(c) : g = <<s.completed, s.total>>
    BY <1>1 DEF getGalleryTemplateById
<1> HIDE DEF all, fair, bad
<1>5. Cardinality(all) = Cardinality(fair) + Cardinality(bad)
    BY <1>3, CountedApart
<1>6. Cardinality(fair) \in Nat /\ Cardinality(bad) \in Nat
    BY <1>3, Counted
<1>7. BrandDashboard(b).stats[c].total = s.total - Cardinality(bad)
    BY <1>1, <1>2, <1>5, <1>6
<1> QED
    BY <1>4, <1>7 DEF bad, all

\* What two challenges paid is part of what an administrator sees paid.
LEMMA PaidReconciles ==
    ASSUME ViInv, NEW C \in SUBSET ViChs, C \cap hidden = {}, NEW c \in C, NEW d \in C, c # d
    PROVE  [x \in C |-> CHOOSE s \in ChallengeStats(x) : TRUE][c].paid
             + [x \in C |-> CHOOSE s \in ChallengeStats(x) : TRUE][d].paid <= AdminStats.paid
<1> DEFINE of(x) == {p \in Paid : p[2] = x}
<1>1. \A x \in C : (CHOOSE s \in ChallengeStats(x) : TRUE).paid = Cardinality(of(x))
    <2> SUFFICES ASSUME NEW x \in C
                 PROVE  (CHOOSE s \in ChallengeStats(x) : TRUE).paid = Cardinality(of(x))
        OBVIOUS
    <2>1. ChallengeStats(x) # {} /\ \A s \in ChallengeStats(x) : s.paid = Cardinality(of(x))
        <3>1. getChallengeByIdAny(x)
            BY DEF getChallengeByIdAny
        <3>2. ChallengeStats(x) =
                {[total |-> Cardinality(PlaysOf({x})), completed |-> Cardinality(CompletedOf({x})),
                  out |-> Cardinality({p \in PlaysOf({x}) : plays[p].flagged \/ plays[p].st = "flagged"}),
                  paid |-> Cardinality(of(x))]}
            BY <3>1, Zenon DEF ChallengeStats
        <3> HIDE DEF of
        <3> QED
            BY <3>2
    <2>2. (CHOOSE s \in ChallengeStats(x) : TRUE) \in ChallengeStats(x)
        BY <2>1
    <2> QED
        BY <2>1, <2>2
<1>2. of(c) \in SUBSET Pairs /\ of(d) \in SUBSET Pairs /\ of(c) \cap of(d) = {}
      /\ Paid \in SUBSET Pairs /\ of(c) \cup of(d) \in SUBSET Paid
    BY DEF Paid
<1>3. AdminStats.paid = Cardinality(Paid)
    BY DEF AdminStats
<1> HIDE DEF of
<1>4. Cardinality(of(c) \cup of(d)) = Cardinality(of(c)) + Cardinality(of(d))
    BY <1>2, CountedApart
<1>5. Cardinality(of(c) \cup of(d)) <= Cardinality(Paid)
    BY <1>2, CountedLess
<1> QED
    BY <1>1, <1>3, <1>4, <1>5

\* The invariant makes every view honest.
LEMMA ViHonest == ASSUME ViInv PROVE ViTypeOK /\ ViewsHonest
<1>1. ViTypeOK
    BY DEF ViInv, ViTyped, DoneIsOver, ViTypeOK
<1>2. ViewsReconcile
    BY BrandReconciles, DashboardReconciles, PaidReconciles DEF ViewsReconcile
<1> QED
    BY <1>1, <1>2, BoardRowsAreReal, RankedAreCounted, RatingsAreEarned, ClosedStops DEF ViewsHonest


-------------------------------------------------------------------------------
(* The paged lists *)

\* The lists that go on from a cursor, and those of them that order by time alone.
Keyset == ExactLists \cup CutLists \cup BoardLists
Stamped == {"comments", "invite_codes", "newest", "cohort", "catalog", "admin_users"}

\* What a list orders its rows by, and which rows its query takes after the cursor.
Precedes(l, a, b) ==
    \/ l = "active" /\ IdUp(a, b)
    \/ l = "pool_desc" /\ NumDown(a, b)
    \/ l = "pool_asc" /\ NumUp(a, b)
    \/ l \in Stamped /\ TimeDown(a, b)
    \/ l = "fraud_score" /\ FraudBoard(a, b)
    \/ l \in BoardLists /\ ScoreBoard(a, b)
Follows(r) ==
    \/ list = "active" /\ r.id > cursor.id
    \/ list = "pool_desc" /\ NumDown(cursor, r)
    \/ list = "pool_asc" /\ NumUp(cursor, r)
    \/ list \in Stamped /\ PastTimeDown(r)
    \/ list = "fraud_score" /\ (r.num < cursor.num \/ (r.num = cursor.num /\ PastTimeDown(r)))
    \/ list \in BoardLists /\ PastScore(r)
Rest == {r \in table : page = 0 \/ Follows(r)}

\* A row of a list whose times are never NULL.
Row == [id : Nat, num : Nat, at : Nat]

\* The rows a cut cursor repeats, and those it steps over.
TwiceBy(l, e, r) == l \in BoardLists /\ e.num = r.num /\ Ms(e.at) = Ms(r.at) /\ e.at # Ms(e.at)
BlurredBy(l, e, r) == l \in CutLists /\ Ms(e.at) = Ms(r.at) /\ e # r
Twice(r) == \E e \in edges : TwiceBy(list, e, r)
Blurred(r) == \E e \in edges : BlurredBy(list, e, r)

\* A row that shares its time with no other, and the rows above it.
Alone(r) == \A q \in table \ {r} : q.at # r.at
Above(r) == {q \in table : q.at > r.at}

PgTyped ==
    /\ PgTypeOK /\ moved \subseteq PgIds
    /\ \A q, r \in table : q.id = r.id => q = r

\* A walk by cursor.  What was shown was in the table; while it goes on, what follows
\* the cursor was not shown and what does not was, but for what the cut does.
CursorSound ==
    list \in Keyset =>
        /\ page \in 0 .. 1 /\ cursor \in Row
        /\ page = 0 => \A i \in PgIds : shown[i] = 0
        /\ \A i \in PgIds : shown[i] > 0 => i \in moved \/ \E r \in table : r.id = i
        /\ \A r \in table : shown[r.id] > 1 => Twice(r)
        /\ walk = "walking" /\ page = 1 =>
              \A r \in table :
                 /\ Precedes(list, cursor, r) /\ shown[r.id] > 0 => Twice(r)
                 /\ ~Precedes(list, cursor, r) => r.id \in moved \/ shown[r.id] > 0 \/ Blurred(r)

\* A walk by offset: a row alone at its time has one place while nothing moves.
OffsetSound ==
    list \in OffsetLists =>
        /\ walk = "walking" => page = 0 \/ page < Cardinality(PgIds)
        /\ moved = {} => \A r \in table : Alone(r) =>
              /\ shown[r.id] <= 1
              /\ shown[r.id] > 0 => Cardinality(Above(r)) < page * limit

\* Any other list has at most one cursor.
OtherSound == list \notin Keyset \cup OffsetLists => page \in 0 .. 1

PgInv == PgTyped /\ CursorSound /\ OffsetSound /\ OtherSound /\ NothingMissed

\* An order of the rows of a set: each of them once.
Orders(s, A) ==
    /\ s \in Seq(A) /\ Len(s) = Cardinality(A)
    /\ \A i, j \in 1 .. Len(s) : s[i] = s[j] => i = j
    /\ \A r \in A : \E k \in 1 .. Len(s) : s[k] = r

\* That is what the sortings are.
LEMMA SetToSeqsOrder ==
    ASSUME NEW A, IsFiniteSet(A), NEW s \in SetToSeqs(A)
    PROVE  Orders(s, A)
<1> DEFINE n == Cardinality(A)
<1>1. n \in Nat
    BY FS_CardinalityType
<1>2. s \in [1 .. n -> A] /\ \A i, j \in 1 .. n : i # j => s[i] # s[j]
    BY DEF SetToSeqs
<1>3. IsFiniteSet(1 .. n) /\ Cardinality(1 .. n) = n
    BY <1>1, FS_Interval
<1>4. s \in Injection(1 .. n, A)
    BY <1>2 DEF Injection, IsInjective
<1>5. s \in Surjection(1 .. n, A)
    BY <1>3, <1>4, FS_Injection
<1>6. \A r \in A : \E k \in 1 .. n : s[k] = r
    BY <1>5 DEF Surjection
<1>7. s \in Seq(A) /\ Len(s) = n
    BY <1>1, <1>2
<1> QED
    BY <1>2, <1>6, <1>7 DEF Orders

\* The rows of an answer.
ShownBy(a) == {a.rows[k] : k \in DOMAIN a.rows}

\* An answer that leads a list: first rows of an order, all of them or up to its last one.
Leads(a, A, O) ==
    /\ a.ok = TRUE /\ a.more \in BOOLEAN /\ a.rows \in Seq(A)
    /\ \A i, j \in DOMAIN a.rows : a.rows[i] = a.rows[j] => i = j
    /\ ~a.more => A \subseteq ShownBy(a)
    /\ a.more =>
          /\ a.rows # <<>> /\ Last(a.rows) \in ShownBy(a)
          /\ \A r \in ShownBy(a) : <<Last(a.rows), r>> \notin O \/ r = Last(a.rows)
          /\ \A r \in A \ ShownBy(a) : <<r, Last(a.rows)>> \notin O

\* What the first rows of a sequence are.
LEMMA FirstRows ==
    ASSUME NEW A, NEW s \in Seq(A), NEW m \in Nat, m <= Len(s), NEW t, t = SubSeq(s, 1, m)
    PROVE  t \in Seq(A) /\ Len(t) = m /\ DOMAIN t = 1 .. m /\ \A k \in 1 .. m : t[k] = s[k]
OBVIOUS

\* How many of x rows a page of l rows takes.
Fit(x, l) == IF x < l THEN x ELSE l
\* It is the smaller of the two numbers.
LEMMA FitIs ==
    ASSUME NEW x \in Nat, NEW l \in Nat \ {0}
    PROVE  /\ Fit(x, l) \in Nat /\ Fit(x, l) <= x /\ Fit(x, l) <= l
           /\ x >= l => Fit(x, l) = l /\ Fit(x, l) >= 1
           /\ x <= l => Fit(x, l) = x
BY DEF Fit

\* A sequence sorted by a relation, and the page that takes its first rows.
Sorted(s, O) == \A i, j \in DOMAIN s : i < j => <<s[j], s[i]>> \notin O
Takes(a, s) ==
    /\ a.ok = TRUE /\ a.more \in BOOLEAN
    /\ a.rows = SubSeq(s, 1, Fit(Len(s), limit))
    /\ a.more => Len(s) >= limit
    /\ ~a.more => Len(s) <= limit

\* Such a page leads the list.
LEMMA FirstRowsLead ==
    ASSUME NEW A, IsFiniteSet(A), NEW O, NEW s \in SetToSeqs(A), Sorted(s, O),
           limit \in Nat \ {0}, NEW a, Takes(a, s)
    PROVE  Leads(a, A, O)
<1>1. Orders(s, A)
    BY SetToSeqsOrder
<1>2. Len(s) \in Nat /\ DOMAIN s = 1 .. Len(s) /\ s \in Seq(A)
    BY <1>1 DEF Orders
<1>0. Fit(Len(s), limit) \in Nat
    BY <1>2, FitIs
<1>p. PICK m \in Nat : m = Fit(Len(s), limit)
    BY <1>0, Zenon
<1>3. /\ m <= Len(s)
      /\ Len(s) >= limit => m >= 1
      /\ Len(s) <= limit => m = Len(s)
    <2>1. Len(s) \in Nat
        BY <1>2, Zenon
    <2> QED
        BY <1>p, <2>1, FitIs
<1>n. Len(s) \in Nat /\ m <= Len(s)
    BY <1>2, <1>3, Zenon
<1>4. a.rows \in Seq(A) /\ DOMAIN a.rows = 1 .. m /\ Len(a.rows) = m /\ \A k \in 1 .. m : a.rows[k] = s[k]
    <2>1. a.rows = SubSeq(s, 1, m)
        BY <1>p, Zenon DEF Takes
    <2>2. s \in Seq(A) /\ m <= Len(s)
        BY <1>2, <1>3, Zenon
    <2> QED
        BY <2>1, <2>2, FirstRows
<1>5. (a.more => m >= 1) /\ (~a.more => m = Len(s))
    BY <1>3, Zenon DEF Takes
<1>6. \A r \in ShownBy(a) : \E k \in 1 .. m : r = s[k]
    BY <1>4, Zenon DEF ShownBy
<1>7. \A k \in 1 .. m : s[k] \in ShownBy(a)
    <2> SUFFICES ASSUME NEW k \in 1 .. m PROVE s[k] \in ShownBy(a)
        OBVIOUS
    <2>1. s[k] = a.rows[k] /\ k \in DOMAIN a.rows
        BY <1>4
    <2> QED
        BY <2>1, Zenon DEF ShownBy
<1>8. \A i, j \in DOMAIN a.rows : a.rows[i] = a.rows[j] => i = j
    <2>1. 1 .. m \subseteq 1 .. Len(s)
        BY <1>n
    <2> QED
        BY <1>1, <1>4, <2>1, Zenon DEF Orders
<1>9. ASSUME ~a.more PROVE A \subseteq ShownBy(a)
    <2>1. m = Len(s)
        BY <1>5, <1>9, Zenon
    <2>2. \A r \in A : \E k \in 1 .. m : s[k] = r
        BY <1>1, <2>1, Zenon DEF Orders
    <2> QED
        BY <1>7, <2>2, Zenon
<1>10. ASSUME a.more
       PROVE  /\ a.rows # <<>> /\ Last(a.rows) \in ShownBy(a)
              /\ \A r \in ShownBy(a) : <<Last(a.rows), r>> \notin O \/ r = Last(a.rows)
              /\ \A r \in A \ ShownBy(a) : <<r, Last(a.rows)>> \notin O
    <2>1. m >= 1
        BY <1>5, <1>10, Zenon
    <2>2. m \in 1 .. m /\ m \in 1 .. Len(s) /\ m \in DOMAIN s
        <3>1. m \in 1 .. m /\ m \in 1 .. Len(s)
            BY <1>n, <2>1
        <3> QED
            BY <1>2, <3>1, Zenon
    <2>3. Last(a.rows) = s[m] /\ a.rows # <<>>
        <3>1. Last(a.rows) = a.rows[m]
            BY <1>4, Zenon DEF Last
        <3>2. a.rows # <<>>
            BY <1>4, <2>1
        <3> QED
            BY <1>4, <2>2, <3>1, <3>2, Zenon
    <2>4. ASSUME NEW r \in ShownBy(a) PROVE <<s[m], r>> \notin O \/ r = s[m]
        <3>1. PICK k \in 1 .. m : r = s[k]
            BY <1>6, Zenon
        <3>4. k = m \/ (k < m /\ k \in 1 .. Len(s))
            BY <1>n
        <3>2. k = m \/ (k < m /\ k \in DOMAIN s)
            BY <1>2, <3>4, Zenon
        <3> QED
            BY <2>2, <3>1, <3>2, Zenon DEF Sorted
    <2>5. ASSUME NEW r \in A \ ShownBy(a) PROVE <<r, s[m]>> \notin O
        <3>1. PICK k \in 1 .. Len(s) : r = s[k]
            BY <1>1, Zenon DEF Orders
        <3>2. k \notin 1 .. m
            BY <1>7, <3>1, Zenon
        <3>4. m < k
            BY <1>n, <3>2
        <3>3. m < k /\ k \in DOMAIN s
            BY <1>2, <3>4, Zenon
        <3> QED
            BY <2>2, <3>1, <3>3, Zenon DEF Sorted
    <2> QED
        BY <1>7, <2>2, <2>3, <2>4, <2>5, Zenon
<1> QED
    BY <1>4, <1>8, <1>9, <1>10, Zenon DEF Leads, Takes

\* The order of the list as a relation.
Ord == {p \in table \X table : Precedes(list, p[1], p[2])}

\* What the queries of the cursor lists answer, whatever the list.
ProbedBy(a, c) ==
    \E s \in SetToSeqs(Rest) :
        /\ \A i, j \in DOMAIN s : i < j => ~Precedes(list, s[j], s[i])
        /\ a = [ok |-> TRUE, rows |-> SubSeq(s, 1, IF Len(s) < limit THEN Len(s) ELSE limit),
                more |-> Len(s) > limit, cut |-> c]
FilledBy(a, c) == \E b : ProbedBy(b, c) /\ a = [b EXCEPT !.more = Len(b.rows) = limit]

\* A full page and one row more: a page that leads the rest of the list.
LEMMA ProbedLeads ==
    ASSUME IsFiniteSet(Rest), limit \in Nat \ {0}, NEW a, NEW c, ProbedBy(a, c)
    PROVE  Leads(a, Rest, Ord) /\ a.cut = c
<1>1. PICK s \in SetToSeqs(Rest) :
        /\ \A i, j \in DOMAIN s : i < j => ~Precedes(list, s[j], s[i])
        /\ a = [ok |-> TRUE, rows |-> SubSeq(s, 1, IF Len(s) < limit THEN Len(s) ELSE limit),
                more |-> Len(s) > limit, cut |-> c]
    BY Zenon DEF ProbedBy
<1>2. Sorted(s, Ord)
    <2>1. \A x, y : <<x, y>> \in Ord => Precedes(list, x, y)
        BY DEF Ord
    <2> QED
        BY <1>1, <2>1, Zenon DEF Sorted
<1>3. Len(s) \in Nat
    <2>1. Orders(s, Rest)
        BY SetToSeqsOrder
    <2> QED
        BY <2>1 DEF Orders
<1>4. Takes(a, s) /\ a.cut = c
    <2> DEFINE big == Len(s) > limit
               t == SubSeq(s, 1, IF Len(s) < limit THEN Len(s) ELSE limit)
    <2>1. big \in BOOLEAN /\ (big => Len(s) >= limit) /\ (~big => Len(s) <= limit)
        BY <1>3
    <2>2. a = [ok |-> TRUE, rows |-> t, more |-> big, cut |-> c]
        BY <1>1, Zenon
    <2>3. t = SubSeq(s, 1, Fit(Len(s), limit))
        BY Zenon DEF Fit
    <2> HIDE DEF big, t
    <2>4. a.ok = TRUE /\ a.rows = t /\ a.more = big /\ a.cut = c
        BY <2>2
    <2> QED
        BY <2>1, <2>3, <2>4, Zenon DEF Takes
<1> QED
    BY <1>1, <1>2, <1>4, FirstRowsLead, Zenon

\* A full page that announces another one is one as well.
LEMMA FilledLeads ==
    ASSUME IsFiniteSet(Rest), limit \in Nat \ {0}, NEW a, NEW c, FilledBy(a, c)
    PROVE  Leads(a, Rest, Ord) /\ a.cut = c
<1>1. PICK b : ProbedBy(b, c) /\ a = [b EXCEPT !.more = Len(b.rows) = limit]
    BY Zenon DEF FilledBy
<1>2. PICK s \in SetToSeqs(Rest) :
        /\ \A i, j \in DOMAIN s : i < j => ~Precedes(list, s[j], s[i])
        /\ b = [ok |-> TRUE, rows |-> SubSeq(s, 1, IF Len(s) < limit THEN Len(s) ELSE limit),
                more |-> Len(s) > limit, cut |-> c]
    BY <1>1, Zenon DEF ProbedBy
<1>3. Sorted(s, Ord)
    <2>1. \A x, y : <<x, y>> \in Ord => Precedes(list, x, y)
        BY DEF Ord
    <2> QED
        BY <1>2, <2>1, Zenon DEF Sorted
<1>4. Len(s) \in Nat /\ s \in Seq(Rest)
    <2>1. Orders(s, Rest)
        BY SetToSeqsOrder
    <2> QED
        BY <2>1 DEF Orders
<1>5. Takes(a, s) /\ a.cut = c
    <2> DEFINE t == SubSeq(s, 1, IF Len(s) < limit THEN Len(s) ELSE limit)
               full == Len(t) = limit
    <2>1. t = SubSeq(s, 1, Fit(Len(s), limit))
        BY Zenon DEF Fit
    <2>2. /\ Fit(Len(s), limit) \in Nat /\ Fit(Len(s), limit) <= Len(s)
          /\ Len(s) <= limit => Fit(Len(s), limit) = Len(s)
          /\ Len(s) >= limit => Fit(Len(s), limit) = limit
        BY <1>4, FitIs
    <2>3. Len(t) = Fit(Len(s), limit)
        BY <1>4, <2>1, <2>2, FirstRows
    <2> HIDE DEF t
    <2>n. Len(s) \in Nat
        BY <1>4
    <2>4. full \in BOOLEAN /\ (full => Len(s) >= limit) /\ (~full => Len(s) <= limit)
        BY <2>n, <2>2, <2>3
    <2>5. b = [ok |-> TRUE, rows |-> t, more |-> Len(s) > limit, cut |-> c]
        BY <1>2, Zenon DEF t
    <2>6. a = [ok |-> TRUE, rows |-> t, more |-> full, cut |-> c]
        BY <1>1, <2>5
    <2> HIDE DEF full
    <2>7. a.ok = TRUE /\ a.rows = t /\ a.more = full /\ a.cut = c
        BY <2>6
    <2> QED
        BY <2>1, <2>4, <2>7, Zenon DEF Takes
<1> QED
    BY <1>2, <1>3, <1>5, FirstRowsLead, Zenon

\* Which order and which cursor a list has.
LEMMA ListIs ==
    /\ list = "active" => /\ \A x, y : Precedes(list, x, y) <=> IdUp(x, y)
                          /\ \A r : Follows(r) <=> r.id > cursor.id
    /\ list = "pool_desc" => /\ \A x, y : Precedes(list, x, y) <=> NumDown(x, y)
                             /\ \A r : Follows(r) <=> NumDown(cursor, r)
    /\ list = "pool_asc" => /\ \A x, y : Precedes(list, x, y) <=> NumUp(x, y)
                            /\ \A r : Follows(r) <=> NumUp(cursor, r)
    /\ list \in Stamped => /\ \A x, y : Precedes(list, x, y) <=> TimeDown(x, y)
                           /\ \A r : Follows(r) <=> PastTimeDown(r)
    /\ list = "fraud_score" =>
          /\ \A x, y : Precedes(list, x, y) <=> FraudBoard(x, y)
          /\ \A r : Follows(r) <=> r.num < cursor.num \/ (r.num = cursor.num /\ PastTimeDown(r))
    /\ list \in BoardLists => /\ \A x, y : Precedes(list, x, y) <=> ScoreBoard(x, y)
                              /\ \A r : Follows(r) <=> PastScore(r)
BY DEF Precedes, Follows, Stamped, BoardLists

\* What each list answers.
LEMMA AnswerIs ==
    ASSUME NEW a \in Answers, list \in Keyset
    PROVE  \/ list \in ExactLists /\ ProbedBy(a, FALSE)
           \/ list \in CutLists /\ ProbedBy(a, TRUE)
           \/ list \in BoardLists /\ FilledBy(a, TRUE)
<1>1. CASE list = "active"
    <2>1. Answers = Probed(After(LAMBDA r : r.id > cursor.id), IdUp, FALSE)
        BY <1>1, SMT DEF Answers, ListChallenges, getActiveChallengesCursor
    <2>2. list \in ExactLists
        BY <1>1 DEF ExactLists
    <2>3. /\ \A x, y : Precedes(list, x, y) <=> IdUp(x, y)
          /\ After(LAMBDA r : r.id > cursor.id) = Rest
        BY <1>1, <2>2, ListIs, Zenon DEF After, Rest
    <2>4. a \in Probed(Rest, IdUp, FALSE)
        BY <2>1, <2>3
    <2>5. ProbedBy(a, FALSE)
        BY <2>3, <2>4, Zenon DEF Probed, Sortings, ProbedBy
    <2> QED
        BY <2>2, <2>5, Zenon
<1>2. CASE list = "pool_desc"
    <2>1. Answers = Probed(After(LAMBDA r : NumDown(cursor, r)), NumDown, FALSE)
        BY <1>2, SMT DEF Answers, ActiveRoute, getActiveChallengesSorted
    <2>2. list \in ExactLists
        BY <1>2 DEF ExactLists
    <2>3. /\ \A x, y : Precedes(list, x, y) <=> NumDown(x, y)
          /\ After(LAMBDA r : NumDown(cursor, r)) = Rest
        BY <1>2, <2>2, ListIs, Zenon DEF After, Rest
    <2>4. a \in Probed(Rest, NumDown, FALSE)
        BY <2>1, <2>3
    <2>5. ProbedBy(a, FALSE)
        BY <2>3, <2>4, Zenon DEF Probed, Sortings, ProbedBy
    <2> QED
        BY <2>2, <2>5, Zenon
<1>3. CASE list = "pool_asc"
    <2>1. Answers = Probed(After(LAMBDA r : NumUp(cursor, r)), NumUp, FALSE)
        BY <1>3, SMT DEF Answers, ActiveRoute, getActiveChallengesSorted
    <2>2. list \in ExactLists
        BY <1>3 DEF ExactLists
    <2>3. /\ \A x, y : Precedes(list, x, y) <=> NumUp(x, y)
          /\ After(LAMBDA r : NumUp(cursor, r)) = Rest
        BY <1>3, <2>2, ListIs, Zenon DEF After, Rest
    <2>4. a \in Probed(Rest, NumUp, FALSE)
        BY <2>1, <2>3
    <2>5. ProbedBy(a, FALSE)
        BY <2>3, <2>4, Zenon DEF Probed, Sortings, ProbedBy
    <2> QED
        BY <2>2, <2>5, Zenon
<1>4. CASE list = "newest"
    <2>1. Answers = Probed(After(PastTimeDown), TimeDown, TRUE)
        BY <1>4, SMT DEF Answers, ActiveRoute, getActiveChallengesSorted
    <2>2. list \in CutLists /\ list \in Stamped
        BY <1>4 DEF CutLists, Stamped
    <2>3. /\ \A x, y : Precedes(list, x, y) <=> TimeDown(x, y)
          /\ After(PastTimeDown) = Rest
        BY <1>4, <2>2, ListIs, Zenon DEF After, Rest
    <2>4. a \in Probed(Rest, TimeDown, TRUE)
        BY <2>1, <2>3
    <2>5. ProbedBy(a, TRUE)
        BY <2>3, <2>4, Zenon DEF Probed, Sortings, ProbedBy
    <2> QED
        BY <2>2, <2>5, Zenon
<1>5. CASE list = "comments"
    <2>1. Answers = Probed(After(PastTimeDown), TimeDown, FALSE)
        BY <1>5, SMT DEF Answers, CommentsRoute, listChallengeComments
    <2>2. list \in ExactLists /\ list \in Stamped
        BY <1>5 DEF ExactLists, Stamped
    <2>3. /\ \A x, y : Precedes(list, x, y) <=> TimeDown(x, y)
          /\ After(PastTimeDown) = Rest
        BY <1>5, <2>2, ListIs, Zenon DEF After, Rest
    <2>4. a \in Probed(Rest, TimeDown, FALSE)
        BY <2>1, <2>3
    <2>5. ProbedBy(a, FALSE)
        BY <2>3, <2>4, Zenon DEF Probed, Sortings, ProbedBy
    <2> QED
        BY <2>2, <2>5, Zenon
<1>6. CASE list = "invite_codes"
    <2>1. Answers = Probed(After(PastTimeDown), TimeDown, FALSE)
        BY <1>6, SMT DEF Answers, InviteCodesRoute, listInviteCodes
    <2>2. list \in ExactLists /\ list \in Stamped
        BY <1>6 DEF ExactLists, Stamped
    <2>3. /\ \A x, y : Precedes(list, x, y) <=> TimeDown(x, y)
          /\ After(PastTimeDown) = Rest
        BY <1>6, <2>2, ListIs, Zenon DEF After, Rest
    <2>4. a \in Probed(Rest, TimeDown, FALSE)
        BY <2>1, <2>3
    <2>5. ProbedBy(a, FALSE)
        BY <2>3, <2>4, Zenon DEF Probed, Sortings, ProbedBy
    <2> QED
        BY <2>2, <2>5, Zenon
<1>7. CASE list = "cohort"
    <2>1. Answers = Probed(After(PastTimeDown), TimeDown, TRUE)
        BY <1>7, SMT DEF Answers, AdminCohort, getCohortUsers
    <2>2. list \in CutLists /\ list \in Stamped
        BY <1>7 DEF CutLists, Stamped
    <2>3. /\ \A x, y : Precedes(list, x, y) <=> TimeDown(x, y)
          /\ After(PastTimeDown) = Rest
        BY <1>7, <2>2, ListIs, Zenon DEF After, Rest
    <2>4. a \in Probed(Rest, TimeDown, TRUE)
        BY <2>1, <2>3
    <2>5. ProbedBy(a, TRUE)
        BY <2>3, <2>4, Zenon DEF Probed, Sortings, ProbedBy
    <2> QED
        BY <2>2, <2>5, Zenon
<1>8. CASE list = "catalog"
    <2>1. Answers = Probed(After(PastTimeDown), TimeDown, TRUE)
        BY <1>8, SMT DEF Answers, BrandCatalog
    <2>2. list \in CutLists /\ list \in Stamped
        BY <1>8 DEF CutLists, Stamped
    <2>3. /\ \A x, y : Precedes(list, x, y) <=> TimeDown(x, y)
          /\ After(PastTimeDown) = Rest
        BY <1>8, <2>2, ListIs, Zenon DEF After, Rest
    <2>4. a \in Probed(Rest, TimeDown, TRUE)
        BY <2>1, <2>3
    <2>5. ProbedBy(a, TRUE)
        BY <2>3, <2>4, Zenon DEF Probed, Sortings, ProbedBy
    <2> QED
        BY <2>2, <2>5, Zenon
<1>9. CASE list = "admin_users"
    <2>1. Answers = Probed(After(PastTimeDown), TimeDown, TRUE)
        BY <1>9, SMT DEF Answers, AdminUsers
    <2>2. list \in CutLists /\ list \in Stamped
        BY <1>9 DEF CutLists, Stamped
    <2>3. /\ \A x, y : Precedes(list, x, y) <=> TimeDown(x, y)
          /\ After(PastTimeDown) = Rest
        BY <1>9, <2>2, ListIs, Zenon DEF After, Rest
    <2>4. a \in Probed(Rest, TimeDown, TRUE)
        BY <2>1, <2>3
    <2>5. ProbedBy(a, TRUE)
        BY <2>3, <2>4, Zenon DEF Probed, Sortings, ProbedBy
    <2> QED
        BY <2>2, <2>5, Zenon
<1>10. CASE list = "fraud_score"
    <2>1. Answers = Probed(After(LAMBDA r : r.num < cursor.num \/ (r.num = cursor.num /\ PastTimeDown(r))), FraudBoard, TRUE)
        BY <1>10, SMT DEF Answers, AdminUsers
    <2>2. list \in CutLists
        BY <1>10 DEF CutLists
    <2>3. /\ \A x, y : Precedes(list, x, y) <=> FraudBoard(x, y)
          /\ After(LAMBDA r : r.num < cursor.num \/ (r.num = cursor.num /\ PastTimeDown(r))) = Rest
        BY <1>10, <2>2, ListIs, Zenon DEF After, Rest
    <2>4. a \in Probed(Rest, FraudBoard, TRUE)
        BY <2>1, <2>3
    <2>5. ProbedBy(a, TRUE)
        BY <2>3, <2>4, Zenon DEF Probed, Sortings, ProbedBy
    <2> QED
        BY <2>2, <2>5, Zenon
<1>11. CASE list = "score"
    <2>1. Answers = Filled(After(PastScore), ScoreBoard, TRUE)
        BY <1>11, SMT DEF Answers, LeaderboardRoute, getLeaderboard
    <2>2. list \in BoardLists
        BY <1>11 DEF BoardLists
    <2>3. /\ \A x, y : Precedes(list, x, y) <=> ScoreBoard(x, y)
          /\ After(PastScore) = Rest
        BY <1>11, <2>2, ListIs, Zenon DEF After, Rest
    <2>4. a \in Filled(Rest, ScoreBoard, TRUE)
        BY <2>1, <2>3
    <2>5. PICK b \in Probed(Rest, ScoreBoard, TRUE) : a = [b EXCEPT !.more = Len(b.rows) = limit]
        BY <2>4, Zenon DEF Filled
    <2>6. ProbedBy(b, TRUE)
        BY <2>3, <2>5, Zenon DEF Probed, Sortings, ProbedBy
    <2> QED
        BY <2>2, <2>5, <2>6, Zenon DEF FilledBy
<1>12. CASE list = "challenge"
    <2>1. Answers = Filled(After(PastScore), ScoreBoard, TRUE)
        BY <1>12, SMT DEF Answers, ChallengeLeaderboard, getLeaderboard
    <2>2. list \in BoardLists
        BY <1>12 DEF BoardLists
    <2>3. /\ \A x, y : Precedes(list, x, y) <=> ScoreBoard(x, y)
          /\ After(PastScore) = Rest
        BY <1>12, <2>2, ListIs, Zenon DEF After, Rest
    <2>4. a \in Filled(Rest, ScoreBoard, TRUE)
        BY <2>1, <2>3
    <2>5. PICK b \in Probed(Rest, ScoreBoard, TRUE) : a = [b EXCEPT !.more = Len(b.rows) = limit]
        BY <2>4, Zenon DEF Filled
    <2>6. ProbedBy(b, TRUE)
        BY <2>3, <2>5, Zenon DEF Probed, Sortings, ProbedBy
    <2> QED
        BY <2>2, <2>5, <2>6, Zenon DEF FilledBy
<1>13. CASE list = "archived"
    <2>1. Answers = Filled(After(PastScore), ScoreBoard, TRUE)
        BY <1>13, SMT DEF Answers, ChallengeLeaderboard, getArchivedLeaderboard
    <2>2. list \in BoardLists
        BY <1>13 DEF BoardLists
    <2>3. /\ \A x, y : Precedes(list, x, y) <=> ScoreBoard(x, y)
          /\ After(PastScore) = Rest
        BY <1>13, <2>2, ListIs, Zenon DEF After, Rest
    <2>4. a \in Filled(Rest, ScoreBoard, TRUE)
        BY <2>1, <2>3
    <2>5. PICK b \in Probed(Rest, ScoreBoard, TRUE) : a = [b EXCEPT !.more = Len(b.rows) = limit]
        BY <2>4, Zenon DEF Filled
    <2>6. ProbedBy(b, TRUE)
        BY <2>3, <2>5, Zenon DEF Probed, Sortings, ProbedBy
    <2> QED
        BY <2>2, <2>5, <2>6, Zenon DEF FilledBy
<1>14. CASE list = "csv"
    <2>1. Answers = Filled(After(PastScore), ScoreBoard, TRUE)
        BY <1>14, SMT DEF Answers, getLeaderboardForCsvExport
    <2>2. list \in BoardLists
        BY <1>14 DEF BoardLists
    <2>3. /\ \A x, y : Precedes(list, x, y) <=> ScoreBoard(x, y)
          /\ After(PastScore) = Rest
        BY <1>14, <2>2, ListIs, Zenon DEF After, Rest
    <2>4. a \in Filled(Rest, ScoreBoard, TRUE)
        BY <2>1, <2>3
    <2>5. PICK b \in Probed(Rest, ScoreBoard, TRUE) : a = [b EXCEPT !.more = Len(b.rows) = limit]
        BY <2>4, Zenon DEF Filled
    <2>6. ProbedBy(b, TRUE)
        BY <2>3, <2>5, Zenon DEF Probed, Sortings, ProbedBy
    <2> QED
        BY <2>2, <2>5, <2>6, Zenon DEF FilledBy
<1>15. \/ list = "active" \/ list = "pool_desc" \/ list = "pool_asc" \/ list = "newest"
       \/ list = "comments" \/ list = "invite_codes" \/ list = "cohort" \/ list = "catalog"
       \/ list = "admin_users" \/ list = "fraud_score" \/ list = "score" \/ list = "challenge"
       \/ list = "archived" \/ list = "csv"
    BY DEF Keyset, ExactLists, CutLists, BoardLists
<1> QED
    BY <1>1, <1>2, <1>3, <1>4, <1>5, <1>6, <1>7, <1>8, <1>9, <1>10, <1>11, <1>12, <1>13, <1>14, <1>15, Zenon

\* A time cut to milliseconds.
LEMMA MsIs ==
    ASSUME NEW t \in Nat
    PROVE  /\ Ms(t) \in Nat /\ Ms(t) <= t
           /\ \A u \in Nat : Ms(t) <= u /\ u <= t => Ms(u) = Ms(t)
<1>1. t # NoTime /\ \A u \in Nat : u # NoTime
    BY DEF NoTime
<1>2. Ms(t) = t - (t % 2) /\ \A u \in Nat : Ms(u) = u - (u % 2)
    BY <1>1 DEF Ms
<1> QED
    BY <1>2

\* The orders, without their record fields.
LEMMA OrderIs ==
    ASSUME NEW a, NEW b, a.at \in Nat, b.at \in Nat
    PROVE  /\ Older(a.at, b.at) <=> a.at < b.at
           /\ SameTime(a.at, b.at) <=> a.at = b.at
<1>1. a.at # NoTime /\ b.at # NoTime
    BY DEF NoTime
<1> QED
    BY <1>1 DEF Older, SameTime

\* With every time given, the query takes the rows that the cursor precedes.
LEMMA FollowsIs ==
    ASSUME cursor \in Row, NEW r \in Row, list \in Keyset
    PROVE  Follows(r) <=> Precedes(list, cursor, r)
<1>1. /\ Older(r.at, cursor.at) <=> r.at < cursor.at
      /\ Older(cursor.at, r.at) <=> cursor.at < r.at
      /\ SameTime(r.at, cursor.at) <=> r.at = cursor.at
    BY OrderIs DEF Row
<1>2. PastTimeDown(r) <=> TimeDown(cursor, r)
    BY <1>1 DEF PastTimeDown, TimeDown, Row
<1>3. PastScore(r) <=> ScoreBoard(cursor, r)
    BY <1>1 DEF PastScore, PastTimeUp, ScoreBoard, Row
<1>4. (r.num < cursor.num \/ (r.num = cursor.num /\ PastTimeDown(r))) <=> FraudBoard(cursor, r)
    BY <1>2 DEF FraudBoard, Row
<1>5. r.id > cursor.id <=> IdUp(cursor, r)
    BY DEF IdUp, Row
<1> QED
    BY <1>2, <1>3, <1>4, <1>5, Zenon DEF Follows, Precedes

\* The order is transitive.
LEMMA PrecedesTransitive ==
    ASSUME NEW l, NEW a \in Row, NEW b \in Row, NEW c \in Row, Precedes(l, a, b), Precedes(l, b, c),
           l \in Keyset
    PROVE  Precedes(l, a, c)
<1>0. /\ a.id \in Nat /\ a.num \in Nat /\ a.at \in Nat
      /\ b.id \in Nat /\ b.num \in Nat /\ b.at \in Nat
      /\ c.id \in Nat /\ c.num \in Nat /\ c.at \in Nat
    BY DEF Row
<1>1. IdUp(a, b) /\ IdUp(b, c) => IdUp(a, c)
    BY <1>0 DEF IdUp
<1>2. NumDown(a, b) /\ NumDown(b, c) => NumDown(a, c)
    BY <1>0 DEF NumDown
<1>3. NumUp(a, b) /\ NumUp(b, c) => NumUp(a, c)
    BY <1>0 DEF NumUp
<1>4. TimeDown(a, b) /\ TimeDown(b, c) => TimeDown(a, c)
    BY <1>0 DEF TimeDown
<1>5. FraudBoard(a, b) /\ FraudBoard(b, c) => FraudBoard(a, c)
    BY <1>0, <1>4 DEF FraudBoard
<1>6. ScoreBoard(a, b) /\ ScoreBoard(b, c) => ScoreBoard(a, c)
    BY <1>0 DEF ScoreBoard
<1>7. /\ "active" \notin Stamped \cup BoardLists /\ "pool_desc" \notin Stamped \cup BoardLists
      /\ "pool_asc" \notin Stamped \cup BoardLists /\ "fraud_score" \notin Stamped \cup BoardLists
      /\ Stamped \cap BoardLists = {}
    BY DEF Stamped, BoardLists
<1>8. "active" # "pool_desc" /\ "active" # "pool_asc" /\ "active" # "fraud_score"
      /\ "pool_desc" # "pool_asc" /\ "pool_desc" # "fraud_score" /\ "pool_asc" # "fraud_score"
    OBVIOUS
<1> QED
    BY <1>1, <1>2, <1>3, <1>4, <1>5, <1>6, <1>7, <1>8, Zenon DEF Precedes

\* The cursor made of a page's last row e: as it is, or cut.
CursorOf(l, d, e) ==
    /\ d.id = e.id /\ d.num = e.num
    /\ l \in ExactLists => d.at = e.at
    /\ l \notin ExactLists => d.at = Ms(e.at)

\* A row after e follows the cursor made of it, or shares its millisecond.
LEMMA LaterFollows ==
    ASSUME NEW l \in Keyset, NEW d \in Row, NEW e \in Row, NEW r \in Row, CursorOf(l, d, e),
           e.id = r.id => e = r, r # e, ~Precedes(l, r, e)
    PROVE  Precedes(l, d, r) \/ BlurredBy(l, e, r)
<1>0. /\ d.id \in Nat /\ d.num \in Nat /\ d.at \in Nat
      /\ e.id \in Nat /\ e.num \in Nat /\ e.at \in Nat
      /\ r.id \in Nat /\ r.num \in Nat /\ r.at \in Nat /\ r.id # e.id
      /\ d.id = e.id /\ d.num = e.num
    BY DEF Row, CursorOf
<1>m. Ms(e.at) \in Nat /\ Ms(e.at) <= e.at /\ \A u \in Nat : Ms(e.at) <= u /\ u <= e.at => Ms(u) = Ms(e.at)
    BY <1>0, MsIs
<1>1. CASE l = "active"
    <2>1. IdUp(r, e) \/ IdUp(d, r)
        BY <1>0 DEF IdUp
    <2> QED
        BY <1>1, <2>1, Zenon DEF Precedes
<1>2. CASE l = "pool_desc"
    <2>1. NumDown(r, e) \/ NumDown(d, r)
        BY <1>0 DEF NumDown
    <2> QED
        BY <1>2, <2>1, Zenon DEF Precedes
<1>3. CASE l = "pool_asc"
    <2>1. NumUp(r, e) \/ NumUp(d, r)
        BY <1>0 DEF NumUp
    <2> QED
        BY <1>3, <2>1, Zenon DEF Precedes
<1>4. CASE l \in Stamped \cap ExactLists
    <2>1. TimeDown(r, e) \/ TimeDown(d, r)
        BY <1>0, <1>4 DEF TimeDown, CursorOf
    <2> QED
        BY <1>4, <2>1, Zenon DEF Precedes
<1>5. CASE l \in Stamped \ ExactLists
    <2>0. d.at = Ms(e.at) /\ l \in CutLists
        BY <1>5 DEF CursorOf, Stamped, CutLists, ExactLists
    <2>1. TimeDown(r, e) \/ TimeDown(d, r) \/ Ms(r.at) = Ms(e.at)
        BY <1>0, <1>m, <2>0 DEF TimeDown
    <2> QED
        BY <1>5, <2>0, <2>1, Zenon DEF Precedes, BlurredBy
<1>6. CASE l = "fraud_score"
    <2>0. d.at = Ms(e.at) /\ l \in CutLists
        BY <1>6 DEF CursorOf, CutLists, ExactLists
    <2>1. FraudBoard(r, e) \/ FraudBoard(d, r) \/ Ms(r.at) = Ms(e.at)
        BY <1>0, <1>m, <2>0 DEF FraudBoard, TimeDown
    <2> QED
        BY <1>6, <2>0, <2>1, Zenon DEF Precedes, BlurredBy
<1>7. CASE l \in BoardLists
    <2>0. d.at = Ms(e.at)
        BY <1>7 DEF CursorOf, BoardLists, ExactLists
    <2>1. ScoreBoard(r, e) \/ ScoreBoard(d, r)
        BY <1>0, <1>m, <2>0 DEF ScoreBoard
    <2> QED
        BY <1>7, <2>1, Zenon DEF Precedes
<1> QED
    BY <1>1, <1>2, <1>3, <1>4, <1>5, <1>6, <1>7 DEF Keyset, ExactLists, CutLists, Stamped

\* A row up to e does not follow the cursor made of it, or the cut repeats it.
LEMMA EarlierStays ==
    ASSUME NEW l \in Keyset, NEW d \in Row, NEW e \in Row, NEW r \in Row, CursorOf(l, d, e),
           ~Precedes(l, e, r)
    PROVE  ~Precedes(l, d, r) \/ TwiceBy(l, e, r)
<1>0. /\ d.id \in Nat /\ d.num \in Nat /\ d.at \in Nat
      /\ e.id \in Nat /\ e.num \in Nat /\ e.at \in Nat
      /\ r.id \in Nat /\ r.num \in Nat /\ r.at \in Nat
      /\ d.id = e.id /\ d.num = e.num
    BY DEF Row, CursorOf
<1>m. Ms(e.at) \in Nat /\ Ms(e.at) <= e.at /\ \A u \in Nat : Ms(e.at) <= u /\ u <= e.at => Ms(u) = Ms(e.at)
    BY <1>0, MsIs
<1>n. d.at <= e.at
    BY <1>0, <1>m DEF CursorOf
<1>1. IdUp(d, r) => IdUp(e, r)
    BY <1>0 DEF IdUp
<1>2. NumDown(d, r) => NumDown(e, r)
    BY <1>0 DEF NumDown
<1>3. NumUp(d, r) => NumUp(e, r)
    BY <1>0 DEF NumUp
<1>4. TimeDown(d, r) => TimeDown(e, r)
    BY <1>0, <1>n DEF TimeDown
<1>5. FraudBoard(d, r) => FraudBoard(e, r)
    BY <1>0, <1>4 DEF FraudBoard
<1>6. CASE l \in BoardLists
    <2>0. d.at = Ms(e.at)
        BY <1>6 DEF CursorOf, BoardLists, ExactLists
    <2>1. ScoreBoard(d, r) /\ ~ScoreBoard(e, r) => e.num = r.num /\ Ms(e.at) = Ms(r.at) /\ e.at # Ms(e.at)
        BY <1>0, <1>m, <2>0 DEF ScoreBoard
    <2>2. Precedes(l, d, r) => ScoreBoard(d, r)
        BY <1>6 DEF Precedes, Stamped, BoardLists
    <2>3. ~ScoreBoard(e, r)
        BY <1>6, Zenon DEF Precedes
    <2> QED
        BY <1>6, <2>1, <2>2, <2>3, Zenon DEF TwiceBy
<1>7. CASE l \notin BoardLists
    BY <1>1, <1>2, <1>3, <1>4, <1>5, <1>7, Zenon DEF Precedes
<1> QED
    BY <1>6, <1>7, Zenon

\* Nothing precedes itself.
LEMMA NotBeforeItself ==
    ASSUME NEW l, NEW e \in Row
    PROVE  ~Precedes(l, e, e)
<1>0. e.id \in Nat /\ e.num \in Nat /\ e.at \in Nat
    BY DEF Row
<1>1. ~IdUp(e, e) /\ ~NumDown(e, e) /\ ~NumUp(e, e)
    BY <1>0 DEF IdUp, NumDown, NumUp
<1>2. ~TimeDown(e, e) /\ ~FraudBoard(e, e) /\ ~ScoreBoard(e, e)
    BY <1>0 DEF TimeDown, FraudBoard, ScoreBoard
<1> QED
    BY <1>1, <1>2, Zenon DEF Precedes

\* A table has as many rows as ids at most.
LEMMA TableFinite ==
    ASSUME PgTyped
    PROVE  /\ IsFiniteSet(table) /\ Cardinality(table) \in Nat
           /\ Cardinality(PgIds) \in Nat /\ Cardinality(table) <= Cardinality(PgIds)
<1> DEFINE f == [r \in table |-> r.id]
<1>1. \A r \in table : r.id \in PgIds
    BY DEF PgTyped, PgTypeOK, PgRows
<1>2. f \in Injection(table, PgIds)
    BY <1>1 DEF PgTyped, Injection, IsInjective
<1>3. IsFiniteSet(PgIds)
    BY PgAssumption
<1> QED
    BY <1>2, <1>3, FS_Injection, FS_CardinalityType

\* Where times are given, the rows have one.
LEMMA TableRows ==
    ASSUME PgTyped, list \in Keyset \cup OffsetLists
    PROVE  /\ table \subseteq Row
           /\ \A r \in table : r.id \in PgIds
           /\ list = "search" => \A r \in table : r.at = 0
<1>1. table \subseteq PgRows(list)
    BY DEF PgTyped, PgTypeOK
<1>2. list \notin Nullable /\ (list = "search" => list \notin ByTime)
    BY DEF Keyset, OffsetLists, ExactLists, CutLists, BoardLists, Nullable, ByTime
<1>3. PgIds \subseteq Nat /\ PgNums \subseteq Nat /\ PgTimes \subseteq Nat
    BY PgAssumption
<1>4. ASSUME NEW r \in PgRows(list)
      PROVE  r \in Row /\ r.id \in PgIds /\ (list = "search" => r.at = 0)
    <2> DEFINE nums == IF list \in ByNumber THEN PgNums ELSE {1}
               ats == IF list \notin ByTime THEN {0} ELSE PgTimes
    <2>1. r \in [id : PgIds, num : nums, at : ats]
        BY <1>2, <1>4, Zenon DEF PgRows
    <2>2. nums \subseteq Nat /\ ats \subseteq Nat /\ (list = "search" => ats = {0})
        BY <1>2, <1>3
    <2> HIDE DEF nums, ats
    <2> QED
        BY <1>3, <2>1, <2>2 DEF Row
<1> QED
    BY <1>1, <1>4, Zenon

\* How often an answer shows an id: at most once, and when it shows the row of it.
LEMMA TimesIs ==
    ASSUME PgTyped, NEW a, NEW n \in Nat, DOMAIN a.rows = 1 .. n,
           \A k \in DOMAIN a.rows : a.rows[k] \in table,
           \A i, j \in DOMAIN a.rows : a.rows[i] = a.rows[j] => i = j, NEW i \in PgIds
    PROVE  /\ Times(a, i) = 0 \/ Times(a, i) = 1
           /\ (Times(a, i) = 1) <=> \E r \in ShownBy(a) : r.id = i
<1> DEFINE K == {k \in DOMAIN a.rows : a.rows[k].id = i}
<1>1. Times(a, i) = Cardinality(K)
    BY Zenon DEF Times
<1>2. CASE K = {}
    <2>1. Cardinality(K) = 0
        BY <1>2, FS_EmptySet
    <2>2. ~\E r \in ShownBy(a) : r.id = i
        BY <1>2, Zenon DEF ShownBy
    <2> QED
        BY <1>1, <2>1, <2>2
<1>3. CASE K # {}
    <2>1. PICK k \in K : TRUE
        BY <1>3
    <2>2. \A j \in K : j = k
        BY <2>1, Zenon DEF PgTyped
    <2>3. K = {k}
        BY <2>1, <2>2, Zenon
    <2>4. Cardinality(K) = 1
        BY <2>3, FS_Singleton
    <2>5. \E r \in ShownBy(a) : r.id = i
        BY <2>1, Zenon DEF ShownBy
    <2> QED
        BY <1>1, <2>4, <2>5
<1> QED
    BY <1>2, <1>3

\* What a page does to the counts.
CountedBy(a) ==
    /\ shown' \in [PgIds -> 0 .. 2]
    /\ \A r \in table :
          /\ r \in ShownBy(a) => shown'[r.id] > 0 /\ (shown[r.id] = 0 => shown'[r.id] = 1)
          /\ r \notin ShownBy(a) => shown'[r.id] = shown[r.id]
    /\ \A i \in PgIds : shown'[i] > 0 => shown[i] > 0 \/ \E r \in table : r.id = i

CountUp(a) == [i \in PgIds |-> IF shown[i] + Times(a, i) > 2 THEN 2 ELSE shown[i] + Times(a, i)]

\* A page of distinct rows counts each of them once.
LEMMA PageCounts ==
    ASSUME PgTyped, NEW a, NEW n \in Nat, DOMAIN a.rows = 1 .. n,
           \A k \in DOMAIN a.rows : a.rows[k] \in table,
           \A i, j \in DOMAIN a.rows : a.rows[i] = a.rows[j] => i = j,
           shown' = CountUp(a)
    PROVE  CountedBy(a)
<1>1. \A i \in PgIds : /\ Times(a, i) = 0 \/ Times(a, i) = 1
                       /\ (Times(a, i) = 1) <=> \E r \in ShownBy(a) : r.id = i
    BY TimesIs
<1>2. shown \in [PgIds -> 0 .. 2]
    BY DEF PgTyped, PgTypeOK
<1>3. \A i \in PgIds : shown'[i] = IF shown[i] + Times(a, i) > 2 THEN 2 ELSE shown[i] + Times(a, i)
    BY Zenon DEF CountUp
<1>4. \A i \in PgIds :
        /\ shown[i] \in 0 .. 2 /\ shown'[i] \in 0 .. 2
        /\ Times(a, i) = 0 => shown'[i] = shown[i]
        /\ Times(a, i) = 1 => shown'[i] > 0 /\ (shown[i] = 0 => shown'[i] = 1)
    BY <1>1, <1>2, <1>3
<1>5. shown' \in [PgIds -> 0 .. 2]
    BY <1>4 DEF CountUp
<1>6. ShownBy(a) \subseteq table
    BY Zenon DEF ShownBy
<1>7. \A r \in table : r.id \in PgIds
    BY DEF PgTyped, PgTypeOK, PgRows
<1>8. \A r \in table : (\E q \in ShownBy(a) : q.id = r.id) <=> r \in ShownBy(a)
    BY <1>6, Zenon DEF PgTyped
<1>9. \A r \in table :
          /\ r \in ShownBy(a) => shown'[r.id] > 0 /\ (shown[r.id] = 0 => shown'[r.id] = 1)
          /\ r \notin ShownBy(a) => shown'[r.id] = shown[r.id]
    BY <1>1, <1>4, <1>7, <1>8, Zenon
<1>10. \A i \in PgIds : shown'[i] > 0 => shown[i] > 0 \/ \E r \in table : r.id = i
    BY <1>1, <1>4, <1>6, Zenon
<1> QED
    BY <1>5, <1>9, <1>10, Zenon DEF CountedBy

\* A page a arrives.
Arrives(a) ==
    /\ walk = "walking"
    /\ walk' = IF ~a.ok THEN "failed" ELSE IF a.more THEN "walking" ELSE "done"
    /\ shown' = CountUp(a)
    /\ page' = IF list \in OffsetLists THEN page + 1 ELSE 1
    /\ IF a.more /\ a.rows # <<>> THEN cursor' = Cursor(a) /\ edges' = edges \cup {Last(a.rows)}
                 ELSE UNCHANGED <<cursor, edges>>
    /\ UNCHANGED <<list, limit, table, moved>>

\* Fetching is the arrival of one of the answers.
LEMMA FetchArrives ==
    ASSUME FetchPage
    PROVE  \E a \in Answers : Arrives(a)
BY Zenon DEF FetchPage, Arrives, CountUp

\* The cursor an answer gives.
LEMMA CursorIs ==
    ASSUME NEW e \in Row, NEW a, e = Last(a.rows), list \in Keyset, a.cut = (list \notin ExactLists)
    PROVE  Cursor(a) \in Row /\ CursorOf(list, Cursor(a), e)
<1>0. e.id \in Nat /\ e.num \in Nat /\ e.at \in Nat /\ e = [id |-> e.id, num |-> e.num, at |-> e.at]
    BY DEF Row
<1>1. Ms(e.at) \in Nat
    BY <1>0, MsIs
<1>2. CASE list \in ExactLists
    <2>1. Cursor(a) = e
        BY <1>2, Zenon DEF Cursor
    <2> QED
        BY <1>2, <2>1, Zenon DEF CursorOf
<1>3. CASE list \notin ExactLists
    <2>1. Cursor(a) = [e EXCEPT !.at = Ms(@)]
        BY <1>3, Zenon DEF Cursor
    <2>2. Cursor(a) = [id |-> e.id, num |-> e.num, at |-> Ms(e.at)]
        BY <1>0, <2>1
    <2> QED
        BY <1>0, <1>1, <1>3, <2>2 DEF CursorOf, Row
<1> QED
    BY <1>2, <1>3, Zenon

\* What a page by cursor answers.
LEMMA KeysetAnswer ==
    ASSUME PgTyped, list \in Keyset, NEW a \in Answers
    PROVE  Leads(a, Rest, Ord) /\ a.cut = (list \notin ExactLists)
<1>1. IsFiniteSet(Rest)
    <2>1. Rest \subseteq table
        BY Zenon DEF Rest
    <2> QED
        BY <2>1, TableFinite, FS_Subset
<1>2. limit \in Nat \ {0}
    BY PgAssumption DEF PgTyped, PgTypeOK
<1>3. \/ list \in ExactLists /\ ProbedBy(a, FALSE)
      \/ list \notin ExactLists /\ ProbedBy(a, TRUE)
      \/ list \notin ExactLists /\ FilledBy(a, TRUE)
    <2>1. CutLists \cap ExactLists = {} /\ BoardLists \cap ExactLists = {}
        BY DEF CutLists, ExactLists, BoardLists
    <2> QED
        BY <2>1, AnswerIs, Zenon
<1>4. CASE list \in ExactLists /\ ProbedBy(a, FALSE)
    <2>1. Leads(a, Rest, Ord) /\ a.cut = FALSE
        BY <1>1, <1>2, <1>4, ProbedLeads, Zenon
    <2> QED
        BY <1>4, <2>1
<1>5. CASE list \notin ExactLists /\ ProbedBy(a, TRUE)
    <2>1. Leads(a, Rest, Ord) /\ a.cut = TRUE
        BY <1>1, <1>2, <1>5, ProbedLeads, Zenon
    <2> QED
        BY <1>5, <2>1
<1>6. CASE list \notin ExactLists /\ FilledBy(a, TRUE)
    <2>1. Leads(a, Rest, Ord) /\ a.cut = TRUE
        BY <1>1, <1>2, <1>6, FilledLeads, Zenon
    <2> QED
        BY <1>6, <2>1
<1> QED
    BY <1>3, <1>4, <1>5, <1>6, Zenon

\* The rows of a page are rows of the table, each once.
LEMMA LeadsCounts ==
    ASSUME PgTyped, NEW a, NEW O, Leads(a, Rest, O), shown' = CountUp(a)
    PROVE  CountedBy(a) /\ ShownBy(a) \subseteq Rest
<1>1. Rest \subseteq table
    BY Zenon DEF Rest
<1>2. a.rows \in Seq(Rest)
    BY Zenon DEF Leads
<1>3. Len(a.rows) \in Nat /\ DOMAIN a.rows = 1 .. Len(a.rows) /\ \A k \in DOMAIN a.rows : a.rows[k] \in Rest
    BY <1>2
<1>4. \A i, j \in DOMAIN a.rows : a.rows[i] = a.rows[j] => i = j
    BY Zenon DEF Leads
<1>5. \A k \in DOMAIN a.rows : a.rows[k] \in table
    BY <1>1, <1>3, Zenon
<1>6. PICK n \in Nat : n = Len(a.rows)
    BY <1>3, Zenon
<1>7. DOMAIN a.rows = 1 .. n
    BY <1>3, <1>6, Zenon
<1>8. CountedBy(a)
    BY <1>4, <1>5, <1>7, PageCounts, Zenon
<1> QED
    BY <1>3, <1>8, Zenon DEF ShownBy

\* A page by cursor keeps the walk sound.
LEMMA FetchByCursor ==
    ASSUME PgTyped, CursorSound, list \in Keyset, NEW a \in Answers, Arrives(a)
    PROVE  /\ CursorSound' /\ NothingMissed'
           /\ page' = 1 /\ shown' \in [PgIds -> 0 .. 2] /\ walk' \in {"walking", "done"}
<1>a. Leads(a, Rest, Ord) /\ a.cut = (list \notin ExactLists)
    BY KeysetAnswer, Zenon
<1>b. CountedBy(a) /\ ShownBy(a) \subseteq Rest
    BY <1>a, LeadsCounts, Zenon DEF Arrives
<1>c. table \subseteq Row /\ \A r \in table : r.id \in PgIds
    BY TableRows, Zenon
<1>d. Rest \subseteq table
    BY Zenon DEF Rest
<1>e. /\ walk = "walking" /\ list' = list /\ table' = table /\ moved' = moved /\ limit' = limit
      /\ walk' = IF a.more THEN "walking" ELSE "done"
      /\ a.more \in BOOLEAN
    BY <1>a, Zenon DEF Arrives, Leads
<1>f. page' = 1 /\ 1 \in 0 .. 1
    <2>1. list \notin OffsetLists
        BY DEF Keyset, ExactLists, CutLists, BoardLists, OffsetLists
    <2>2. 1 \in 0 .. 1
        OBVIOUS
    <2> QED
        BY <2>1, <2>2, Zenon DEF Arrives
<1>g. edges \subseteq edges'
    BY Zenon DEF Arrives
<1>h. page \in 0 .. 1 /\ cursor \in Row /\ (page = 0 => \A i \in PgIds : shown[i] = 0)
    BY Zenon DEF CursorSound
<1>i. (page = 0 \/ page = 1) /\ ~(page = 0 /\ page = 1)
    BY <1>h
<1>j. \A r : Twice(r) => Twice(r)'
    BY <1>e, <1>g, Zenon DEF Twice
<1>k. \A r : Blurred(r) => Blurred(r)'
    BY <1>e, <1>g, Zenon DEF Blurred
<1>l. \A r \in Rest : page = 1 => Precedes(list, cursor, r)
    BY <1>c, <1>d, <1>h, <1>i, FollowsIs, Zenon DEF Rest
<1>m. \A r \in table \ Rest : page = 1 /\ ~Precedes(list, cursor, r)
    BY <1>c, <1>h, <1>i, FollowsIs, Zenon DEF Rest
\* What was shown before and follows the cursor, the cut repeats.
<1>n. \A r \in Rest : shown[r.id] > 0 => Twice(r)
    <2>0. ~(0 > 0)
        OBVIOUS
    <2> QED
        BY <1>c, <1>d, <1>e, <1>h, <1>i, <1>l, <2>0, Zenon DEF CursorSound
<1>o. \A r \in table : shown[r.id] \in 0 .. 2
    BY <1>c DEF PgTyped, PgTypeOK
<1>1. \A r \in table : shown'[r.id] > 1 => Twice(r)'
    <2> SUFFICES ASSUME NEW r \in table, shown'[r.id] > 1 PROVE Twice(r)'
        OBVIOUS
    <2>1. CASE r \in ShownBy(a)
        <3>1. shown[r.id] > 0
            <4>1. shown[r.id] = 0 => shown'[r.id] = 1
                BY <1>b, <2>1, Zenon DEF CountedBy
            <4> QED
                BY <1>o, <4>1
        <3> QED
            BY <1>b, <1>j, <1>n, <2>1, <3>1, Zenon
    <2>2. CASE r \notin ShownBy(a)
        <3>1. shown[r.id] > 1
            BY <1>b, <2>2, Zenon DEF CountedBy
        <3> QED
            BY <1>j, <3>1, Zenon DEF CursorSound
    <2> QED
        BY <2>1, <2>2
<1>2. \A i \in PgIds : shown'[i] > 0 => i \in moved \/ \E r \in table : r.id = i
    BY <1>b, Zenon DEF CountedBy, CursorSound
\* Outside the rest of the list everything is accounted for.
<1>3. \A r \in table \ Rest : r.id \in moved \/ shown[r.id] > 0 \/ Blurred(r)
    BY <1>e, <1>m, Zenon DEF CursorSound
<1>4. \A r \in table : shown[r.id] > 0 => shown'[r.id] > 0
    BY <1>b, Zenon DEF CountedBy
<1>5. ASSUME a.more
      PROVE  \A r \in table :
                 /\ Precedes(list, cursor', r) /\ shown'[r.id] > 0 => Twice(r)'
                 /\ ~Precedes(list, cursor', r) => r.id \in moved \/ shown'[r.id] > 0 \/ Blurred(r)'
    <2>1. PICK e \in ShownBy(a) : e = Last(a.rows)
        BY <1>a, <1>5, Zenon DEF Leads
    <2>2. e \in Rest /\ e \in table /\ e \in Row
        BY <1>b, <1>c, <1>d, <2>1, Zenon
    <2>3. cursor' = Cursor(a) /\ e \in edges'
        BY <1>5, <1>a, <2>1, Zenon DEF Arrives, Leads
    <2>4. cursor' \in Row /\ CursorOf(list, cursor', e)
        BY <1>a, <2>1, <2>2, <2>3, CursorIs, Zenon
    <2>5. \A r \in ShownBy(a) : ~Precedes(list, e, r)
        <3> SUFFICES ASSUME NEW r \in ShownBy(a), r # e, Precedes(list, e, r) PROVE FALSE
            BY <2>2, NotBeforeItself, Zenon
        <3>1. r \in table
            BY <1>b, <1>d, Zenon
        <3>2. <<e, r>> \in Ord
            BY <2>2, <3>1 DEF Ord
        <3> QED
            BY <1>5, <1>a, <2>1, <3>2, Zenon DEF Leads
    <2>6. \A r \in Rest \ ShownBy(a) : ~Precedes(list, r, e)
        <3> SUFFICES ASSUME NEW r \in Rest \ ShownBy(a), Precedes(list, r, e) PROVE FALSE
            BY Zenon
        <3>1. r \in table
            BY <1>d, Zenon
        <3>2. <<r, e>> \in Ord
            BY <2>2, <3>1 DEF Ord
        <3> QED
            BY <1>5, <1>a, <2>1, <3>2, Zenon DEF Leads
    <2>7. ASSUME NEW r \in table, ~Precedes(list, e, r), Precedes(list, cursor', r) PROVE Twice(r)'
        <3>1. r \in Row /\ TwiceBy(list, e, r)
            BY <1>c, <2>2, <2>4, <2>7, EarlierStays, Zenon
        <3> QED
            BY <1>e, <2>3, <3>1, Zenon DEF Twice
    <2>8. ASSUME NEW r \in table, Precedes(list, cursor', r), shown'[r.id] > 0 PROVE Twice(r)'
        <3>1. CASE r \in ShownBy(a)
            BY <2>5, <2>7, <2>8, <3>1, Zenon
        <3>2. CASE r \notin ShownBy(a) /\ r \in Rest
            <4>1. shown[r.id] > 0
                BY <1>b, <2>8, <3>2, Zenon DEF CountedBy
            <4> QED
                BY <1>j, <1>n, <3>2, <4>1, Zenon
        <3>3. CASE r \notin Rest
            <4>1. page = 1 /\ ~Precedes(list, cursor, r)
                BY <1>m, <3>3, Zenon
            <4>2. Precedes(list, cursor, e)
                BY <1>l, <2>2, <4>1, Zenon
            <4>3. ~Precedes(list, e, r)
                BY <1>c, <1>h, <2>2, <4>1, <4>2, PrecedesTransitive, Zenon
            <4> QED
                BY <2>7, <2>8, <4>3, Zenon
        <3> QED
            BY <3>1, <3>2, <3>3, Zenon
    <2>9. ASSUME NEW r \in table, ~Precedes(list, cursor', r)
          PROVE  r.id \in moved \/ shown'[r.id] > 0 \/ Blurred(r)'
        <3>1. CASE r \in ShownBy(a)
            BY <1>b, <3>1, Zenon DEF CountedBy
        <3>2. CASE r \notin ShownBy(a) /\ r \in Rest
            <4>1. ~Precedes(list, r, e) /\ r # e /\ (e.id = r.id => e = r)
                BY <2>1, <2>2, <2>6, <3>2, Zenon DEF PgTyped
            <4>2. BlurredBy(list, e, r)
                BY <1>c, <2>2, <2>4, <2>9, <4>1, LaterFollows, Zenon
            <4> QED
                BY <1>e, <2>3, <4>2, Zenon DEF Blurred
        <3>3. CASE r \notin Rest
            BY <1>3, <1>4, <1>k, <3>3, Zenon
        <3> QED
            BY <3>1, <3>2, <3>3, Zenon
    <2> QED
        BY <2>8, <2>9, Zenon
<1>6. ASSUME ~a.more
      PROVE  \A r \in table : r.id \in moved \/ shown'[r.id] > 0 \/ Blurred(r)'
    <2> SUFFICES ASSUME NEW r \in table PROVE r.id \in moved \/ shown'[r.id] > 0 \/ Blurred(r)'
        BY Zenon
    <2>1. CASE r \in Rest
        <3>1. r \in ShownBy(a)
            BY <1>6, <1>a, <2>1, Zenon DEF Leads
        <3> QED
            BY <1>b, <3>1, Zenon DEF CountedBy
    <2>2. CASE r \notin Rest
        BY <1>3, <1>4, <1>k, <2>2, Zenon
    <2> QED
        BY <2>1, <2>2, Zenon
<1>7. cursor' \in Row
    <2>1. CASE a.more
        <3>1. PICK e \in ShownBy(a) : e = Last(a.rows)
            BY <1>a, <2>1, Zenon DEF Leads
        <3>2. cursor' = Cursor(a) /\ e \in Row
            BY <1>a, <1>b, <1>c, <1>d, <2>1, <3>1, Zenon DEF Arrives, Leads
        <3> QED
            BY <1>a, <3>1, <3>2, CursorIs, Zenon
    <2>2. CASE ~a.more
        <3>1. cursor' = cursor
            BY <2>2, Zenon DEF Arrives
        <3> QED
            BY <1>h, <3>1, Zenon
    <2> QED
        BY <2>1, <2>2, Zenon
<1>8. page' # 0
    BY <1>f
<1>9. (walk' = "walking" => a.more) /\ (walk' = "done" => ~a.more) /\ walk' \in {"walking", "done"}
    <2>1. "walking" # "done"
        OBVIOUS
    <2> QED
        BY <1>e, <2>1, Zenon
<1>10. CursorSound'
    BY <1>1, <1>2, <1>5, <1>7, <1>8, <1>9, <1>e, <1>f, Zenon DEF CursorSound
<1>11. NothingMissed'
    <2>1. \A r : Blurred(r)' => list \in CutLists /\ \E e \in edges' : Ms(e.at) = Ms(r.at) /\ e # r
        BY <1>e, Zenon DEF Blurred, BlurredBy
    <2> QED
        BY <1>6, <1>9, <1>e, <2>1, Zenon DEF NothingMissed
<1> QED
    BY <1>10, <1>11, <1>b, <1>f, <1>9, Zenon DEF CountedBy

\* The rows t of a sequence s, from the one after m on to n.
Piece(t, s, m, n) ==
    /\ \E d \in Nat : DOMAIN t = 1 .. d
    /\ \A k \in DOMAIN t : k \in Nat /\ k + m \in m + 1 .. n /\ t[k] = s[k + m]

\* What SubSeq returns, also when it starts after its end.
LEMMA SomeRows ==
    ASSUME NEW A, NEW s \in Seq(A), NEW m \in Nat, NEW n \in Nat, n <= Len(s), NEW t, t = SubSeq(s, m + 1, n)
    PROVE  Piece(t, s, m, n)
<1>1. CASE m + 1 <= n
    <2>1. DOMAIN t = 1 .. (n - m) /\ n - m \in Nat
        BY <1>1
    <2>2. \A k \in 1 .. (n - m) : t[k] = s[k + m]
        BY <1>1
    <2>3. \E d \in Nat : DOMAIN t = 1 .. d
        BY <2>1, Zenon
    <2>4. PICK d \in Nat : d = n - m
        BY <2>1, Zenon
    <2>5. \A k \in 1 .. d : k \in Nat /\ k + m \in m + 1 .. n
        BY <2>4
    <2>6. \A k \in DOMAIN t : k \in Nat /\ k + m \in m + 1 .. n /\ t[k] = s[k + m]
        BY <2>1, <2>2, <2>4, <2>5, Zenon
    <2> QED
        BY <2>3, <2>6, Zenon DEF Piece
<1>2. CASE ~(m + 1 <= n)
    <2>1. t = <<>>
        BY <1>2
    <2>2. DOMAIN t = 1 .. 0 /\ 0 \in Nat
        BY <2>1
    <2>3. (1 .. 0) = {}
        OBVIOUS
    <2> QED
        BY <2>2, <2>3, Zenon DEF Piece
<1> QED
    BY <1>1, <1>2

\* What a page by offset answers: some rows of a table in the order of their times.
Slice(s) ==
    [ok |-> TRUE, rows |-> SubSeq(s, page * limit + 1,
                                  IF Len(s) < (page + 1) * limit THEN Len(s) ELSE (page + 1) * limit),
     more |-> Len(s) > (page + 1) * limit, cut |-> FALSE]
Newest(s) == \A i, j \in DOMAIN s : i < j => s[j].at <= s[i].at

\* The answers of the lists by offset are such slices.
LEMMA OffsetAnswer ==
    ASSUME PgTyped, list \in OffsetLists, NEW a \in Answers
    PROVE  \E s \in SetToSeqs(table) : Newest(s) /\ a = Slice(s)
<1>1. CASE list \in {"audit", "admin_challenges"}
    <2>0. Answers = AuditLog \/ Answers = AdminChallenges
        <3>1. CASE list = "audit"
            BY <3>1, SMT DEF Answers
        <3>2. CASE list = "admin_challenges"
            BY <3>2, SMT DEF Answers
        <3> QED
            BY <1>1, <3>1, <3>2
    <2>1. a \in AuditLog \/ a \in AdminChallenges
        BY <2>0, Zenon
    <2>2. PICK s \in SetToSeqs(table) :
            (\A i, j \in DOMAIN s : i < j => ~(s[j].at > s[i].at)) /\ a = Slice(s)
        BY <2>1, Zenon DEF AuditLog, AdminChallenges, Offset, Sortings, Slice
    <2>3. \A k \in DOMAIN s : s[k] \in table
        <3>1. Orders(s, table)
            BY SetToSeqsOrder, TableFinite
        <3> QED
            BY <3>1 DEF Orders
    <2>4. \A r \in table : r.at \in Nat
        BY TableRows DEF Row
    <2>5. \A x, y \in Nat : ~(x > y) => x <= y
        OBVIOUS
    <2>6. Newest(s)
        BY <2>2, <2>3, <2>4, <2>5, Zenon DEF Newest
    <2> QED
        BY <2>2, <2>6, Zenon
<1>2. CASE list = "search"
    <2>1. Answers = Offset(IdUp)
        BY <1>2, SMT DEF Answers, SearchRoute, searchUsersByUsername
    <2>2. PICK s \in SetToSeqs(table) : a = Slice(s)
        BY <2>1, Zenon DEF Offset, Sortings, Slice
    <2>3. \A k \in DOMAIN s : s[k] \in table
        <3>1. Orders(s, table)
            BY SetToSeqsOrder, TableFinite
        <3> QED
            BY <3>1 DEF Orders
    <2>4. (\A r \in table : r.at = 0) /\ 0 <= 0
        BY <1>2, TableRows
    <2>6. Newest(s)
        BY <2>3, <2>4, Zenon DEF Newest
    <2> QED
        BY <2>2, <2>6, Zenon
<1> QED
    BY <1>1, <1>2 DEF OffsetLists

\* The place of a row alone at its time: after those above it.
LEMMA PlaceOfAlone ==
    ASSUME PgTyped, list \in OffsetLists, NEW s \in SetToSeqs(table), Newest(s),
           NEW k \in DOMAIN s, Alone(s[k])
    PROVE  k \in Nat /\ Cardinality(Above(s[k])) = k - 1
<1>1. Orders(s, table)
    BY SetToSeqsOrder, TableFinite
<1>2. Len(s) \in Nat /\ DOMAIN s = 1 .. Len(s) /\ \A i \in DOMAIN s : s[i] \in table
    BY <1>1 DEF Orders
<1>3. \A r \in table : r.at \in Nat
    BY TableRows DEF Row
<1>4. k \in Nat /\ k >= 1 /\ k - 1 \in Nat /\ 1 .. (k - 1) \subseteq 1 .. Len(s)
    BY <1>2
<1>5. PICK m \in Nat : m = k - 1
    BY <1>4, Zenon
<1>6. 1 .. m \subseteq DOMAIN s /\ \A i \in 1 .. m : i < k
    <2>1. \A i \in 1 .. m : i < k
        BY <1>4, <1>5
    <2> QED
        BY <1>2, <1>4, <1>5, <2>1, Zenon
<1>7. \A i \in DOMAIN s : i = k \/ i < k \/ k < i
    BY <1>2, <1>4
<1>8. \A i, j \in DOMAIN s : s[i] = s[j] => i = j
    BY <1>1, <1>2, Zenon DEF Orders
<1>9. \A x, y \in Nat : (x <= y /\ y # x => y > x) /\ (x <= y => ~(x > y)) /\ ~(x > x)
    OBVIOUS
<1>w. \A i \in 1 .. m : i # k
    BY <1>4, <1>5
<1>10. \A i \in 1 .. m : s[i] \in Above(s[k])
    <2> SUFFICES ASSUME NEW i \in 1 .. m PROVE s[i] \in Above(s[k])
        OBVIOUS
    <2>1. i \in DOMAIN s /\ i < k /\ i # k
        BY <1>6, <1>w, Zenon
    <2>2. s[i] \in table \ {s[k]}
        BY <1>2, <1>8, <2>1, Zenon
    <2>3. s[i].at # s[k].at /\ s[k].at <= s[i].at
        BY <2>1, <2>2, Zenon DEF Alone, Newest
    <2>4. s[i].at \in Nat /\ s[k].at \in Nat
        BY <1>2, <1>3, <2>1, Zenon
    <2>5. s[i].at > s[k].at
        BY <1>9, <2>3, <2>4, Zenon
    <2> QED
        BY <2>2, <2>5, Zenon DEF Above
<1>11. \A q \in Above(s[k]) : \E i \in 1 .. m : s[i] = q
    <2> SUFFICES ASSUME NEW q \in Above(s[k]) PROVE \E i \in 1 .. m : s[i] = q
        OBVIOUS
    <2>1. q \in table /\ q.at > s[k].at
        BY Zenon DEF Above
    <2>2. PICK i \in DOMAIN s : s[i] = q
        BY <1>1, <1>2, <2>1, Zenon DEF Orders
    <2>3. q.at \in Nat /\ s[k].at \in Nat
        BY <1>2, <1>3, <2>1, Zenon
    <2>4. i # k /\ ~(k < i)
        BY <1>9, <2>1, <2>2, <2>3, Zenon DEF Newest
    <2>5. i < k
        BY <1>7, <2>4, Zenon
    <2>6. i \in 1 .. m
        BY <1>2, <1>5, <1>4, <2>5
    <2> QED
        BY <2>2, <2>6, Zenon
<1> DEFINE f == [i \in 1 .. m |-> s[i]]
<1>12. f \in Injection(1 .. m, Above(s[k])) /\ f \in Surjection(1 .. m, Above(s[k]))
    <2>1. f \in [1 .. m -> Above(s[k])]
        BY <1>10, Zenon
    <2>2. \A i, j \in 1 .. m : f[i] = f[j] => i = j
        BY <1>6, <1>8, Zenon
    <2>3. \A q \in Above(s[k]) : \E i \in 1 .. m : f[i] = q
        BY <1>11, Zenon
    <2> HIDE DEF f
    <2> QED
        BY <2>1, <2>2, <2>3 DEF Injection, IsInjective, Surjection
<1>13. f \in Bijection(1 .. m, Above(s[k]))
    BY <1>12 DEF Bijection
<1>14. Cardinality(Above(s[k])) = m
    <2> HIDE DEF f
    <2>1. ExistsBijection(1 .. m, Above(s[k]))
        BY <1>13 DEF ExistsBijection
    <2> QED
        BY <2>1, FS_CountingElements
<1> QED
    BY <1>4, <1>5, <1>14

\* Arithmetic of pages.
LEMMA PagePlaces ==
    ASSUME NEW p \in Nat, NEW l \in Nat \ {0}
    PROVE  /\ p * l \in Nat /\ (p + 1) * l \in Nat
           /\ (p + 1) * l = p * l + l /\ p + 1 <= (p + 1) * l
<1>1. p * l \in Nat /\ (p + 1) * l = p * l + l
    OBVIOUS
<1>2. p <= p * l
    OBVIOUS
<1> QED
    BY <1>1, <1>2

\* What a slice shows: rows at the places of the page.
SliceShows(a, s) ==
    /\ \E d \in Nat : DOMAIN a.rows = 1 .. d
    /\ \A k \in DOMAIN a.rows : a.rows[k] \in table
    /\ \A i, j \in DOMAIN a.rows : a.rows[i] = a.rows[j] => i = j
    /\ \A r \in ShownBy(a) : \E k \in DOMAIN s : s[k] = r /\ page * limit < k /\ k <= (page + 1) * limit
    /\ a.ok = TRUE /\ a.more \in BOOLEAN
    /\ a.more => page + 1 < Cardinality(PgIds)

\* A slice shows what it should, and announces a page only if rows are left.
LEMMA SliceIs ==
    ASSUME PgTyped, NEW s \in SetToSeqs(table), NEW a, a = Slice(s)
    PROVE  SliceShows(a, s)
<1>1. Orders(s, table)
    BY SetToSeqsOrder, TableFinite
<1>2. Len(s) \in Nat /\ DOMAIN s = 1 .. Len(s) /\ s \in Seq(table)
    BY <1>1 DEF Orders
<1>3. page \in Nat /\ limit \in Nat \ {0}
    BY PgAssumption, TableFinite DEF PgTyped, PgTypeOK
<1>4. PICK m \in Nat : m = page * limit
    BY <1>3, PagePlaces, Zenon
<1>5. PICK h \in Nat : h = (page + 1) * limit
    BY <1>3, PagePlaces, Zenon
<1>6. PICK n \in Nat : n = IF Len(s) < h THEN Len(s) ELSE h
    BY <1>2, Zenon
<1>n. Len(s) \in Nat
    BY <1>2
<1>7. n <= Len(s) /\ n <= h
    BY <1>n, <1>6
<1>8. PICK t : t = SubSeq(s, m + 1, n)
    BY Zenon
<1> DEFINE big == Len(s) > h
<1>9. a = [ok |-> TRUE, rows |-> t, more |-> big, cut |-> FALSE]
    BY <1>4, <1>5, <1>6, <1>8, Zenon DEF Slice
<1>b. big \in BOOLEAN
    BY <1>n
<1>10. a.ok = TRUE /\ a.rows = t /\ a.more = big
    <2> HIDE DEF big
    <2> QED
        BY <1>9
<1>11. /\ \E d \in Nat : DOMAIN t = 1 .. d
       /\ \A k \in DOMAIN t : k \in Nat /\ k + m \in m + 1 .. n /\ t[k] = s[k + m]
    <2> HIDE DEF big
    <2>1. s \in Seq(table) /\ n <= Len(s)
        BY <1>2, <1>7, Zenon
    <2>2. Piece(t, s, m, n)
        BY <1>8, <2>1, SomeRows, Zenon
    <2> QED
        BY <2>2, Zenon DEF Piece
<1>12. \A k \in Nat : k + m \in m + 1 .. n => k + m \in 1 .. Len(s) /\ m < k + m /\ k + m <= h
    BY <1>n, <1>7
<1>13. \A i, j \in Nat : i + m = j + m => i = j
    OBVIOUS
<1>14. \A k \in DOMAIN t : k \in Nat /\ k + m \in DOMAIN s /\ t[k] = s[k + m] /\ m < k + m /\ k + m <= h
    BY <1>2, <1>11, <1>12, Zenon
<1>15. \A k \in DOMAIN s : s[k] \in table
    BY <1>2
<1>16. \A i, j \in DOMAIN t : t[i] = t[j] => i = j
    <2>1. \A i, j \in DOMAIN s : s[i] = s[j] => i = j
        BY <1>1, <1>2, Zenon DEF Orders
    <2> QED
        BY <1>13, <1>14, <2>1, Zenon
<1>17. big => page + 1 < Cardinality(PgIds)
    <2>1. Len(s) = Cardinality(table)
        BY <1>1, Zenon DEF Orders
    <2>2. page + 1 <= h
        BY <1>3, <1>5, PagePlaces, Zenon
    <2>3. Cardinality(table) \in Nat /\ Cardinality(PgIds) \in Nat /\ Cardinality(table) <= Cardinality(PgIds)
        BY TableFinite, Zenon
    <2> QED
        BY <1>3, <1>n, <2>1, <2>2, <2>3
<1>18. \A r \in ShownBy(a) : \E k \in DOMAIN s : s[k] = r /\ page * limit < k /\ k <= (page + 1) * limit
    BY <1>4, <1>5, <1>10, <1>14, Zenon DEF ShownBy
<1> QED
    <2> HIDE DEF big
    <2>1. /\ \E d \in Nat : DOMAIN t = 1 .. d
          /\ \A k \in DOMAIN t : t[k] \in table
        BY <1>11, <1>14, <1>15, Zenon
    <2>2. a.more \in BOOLEAN /\ (a.more => page + 1 < Cardinality(PgIds))
        BY <1>10, <1>17, <1>b
    <2>3. a.rows = t /\ a.ok = TRUE
        BY <1>10
    <2> QED
        BY <1>16, <1>18, <2>1, <2>2, <2>3, Zenon DEF SliceShows

\* A page of rows of the table, each once.
Page(a) ==
    /\ \E d \in Nat : DOMAIN a.rows = 1 .. d
    /\ \A k \in DOMAIN a.rows : a.rows[k] \in table
    /\ \A i, j \in DOMAIN a.rows : a.rows[i] = a.rows[j] => i = j
    /\ a.ok \in BOOLEAN /\ a.more \in BOOLEAN

\* Whatever the list, a page does this to the counts and to the walk.
LEMMA PageArrives ==
    ASSUME PgTyped, NEW a, Page(a), Arrives(a)
    PROVE  /\ CountedBy(a) /\ walk' \in {"walking", "done", "failed"}
           /\ list' = list /\ limit' = limit /\ table' = table /\ moved' = moved
<1>1. PICK d \in Nat : DOMAIN a.rows = 1 .. d
    BY Zenon DEF Page
<1>2. CountedBy(a)
    BY <1>1, PageCounts, Zenon DEF Page, Arrives
<1> QED
    BY <1>2, Zenon DEF Arrives

\* A page by offset keeps the walk sound.
LEMMA FetchByOffset ==
    ASSUME PgTyped, OffsetSound, list \in OffsetLists, NEW a \in Answers, Arrives(a)
    PROVE  Page(a) /\ OffsetSound' /\ page' \in 0 .. Cardinality(PgIds) + 1
<1>1. PICK s \in SetToSeqs(table) : Newest(s) /\ a = Slice(s)
    BY OffsetAnswer, Zenon
<1>2. SliceShows(a, s)
    BY <1>1, SliceIs, Zenon
<1>3. Page(a)
    BY <1>2, Zenon DEF SliceShows, Page
<1>4. CountedBy(a) /\ list' = list /\ limit' = limit /\ table' = table /\ moved' = moved
    BY <1>3, PageArrives, Zenon
<1>5. page' = page + 1
    BY Zenon DEF Arrives
<1>6. page \in Nat /\ limit \in Nat \ {0} /\ Cardinality(PgIds) \in Nat /\ page \in 0 .. Cardinality(PgIds) + 1
    BY PgAssumption, TableFinite DEF PgTyped, PgTypeOK
<1>7. walk = "walking" /\ (page = 0 \/ page < Cardinality(PgIds))
    BY Zenon DEF Arrives, OffsetSound
<1>8. page' \in 0 .. Cardinality(PgIds) + 1
    BY <1>5, <1>6, <1>7
<1>9. walk' = "walking" => page' < Cardinality(PgIds)
    <2>1. walk' = "walking" => a.more
        <3>1. "failed" # "walking" /\ "done" # "walking"
            OBVIOUS
        <3> QED
            BY <3>1, Zenon DEF Arrives
    <2> QED
        BY <1>2, <1>5, <2>1, Zenon DEF SliceShows
<1>10. /\ page * limit \in Nat /\ page' * limit \in Nat
       /\ page' * limit = page * limit + limit
    BY <1>5, <1>6, PagePlaces, Zenon
<1>o. Orders(s, table)
    BY SetToSeqsOrder, TableFinite
<1>p. \A k \in DOMAIN s : s[k] \in table
    BY <1>o DEF Orders
<1>q. \A r \in table : shown[r.id] \in 0 .. 2
    BY TableRows DEF PgTyped, PgTypeOK
<1>11. ASSUME moved = {}, NEW r \in table, Alone(r)
       PROVE  shown'[r.id] <= 1 /\ (shown'[r.id] > 0 => Cardinality(Above(r)) < page' * limit)
    <2>1. /\ shown[r.id] <= 1
          /\ shown[r.id] > 0 => Cardinality(Above(r)) < page * limit
        BY <1>11, Zenon DEF OffsetSound
    <2>2. CASE r \in ShownBy(a)
        <3>1. PICK k \in DOMAIN s : s[k] = r /\ page * limit < k /\ k <= (page + 1) * limit
            BY <1>2, <2>2, Zenon DEF SliceShows
        <3>2. k \in Nat /\ Cardinality(Above(r)) = k - 1
            BY <1>1, <1>11, <3>1, PlaceOfAlone, Zenon
        <3>3. k <= page' * limit
            BY <1>5, <3>1, Zenon
        <3>4. Cardinality(Above(r)) < page' * limit /\ ~(Cardinality(Above(r)) < page * limit)
            BY <1>10, <3>1, <3>2, <3>3
        <3>5. shown[r.id] = 0
            BY <1>q, <2>1, <3>4
        <3>6. shown'[r.id] = 1
            BY <1>4, <2>2, <3>5, Zenon DEF CountedBy
        <3> QED
            BY <3>4, <3>6
    <2>3. CASE r \notin ShownBy(a)
        <3>1. shown'[r.id] = shown[r.id]
            BY <1>4, <2>3, Zenon DEF CountedBy
        <3>2. Cardinality(Above(r)) \in Nat
            <4>1. Above(r) \subseteq table
                BY Zenon DEF Above
            <4> QED
                BY <4>1, TableFinite, FS_Subset, FS_CardinalityType
        <3>3. Cardinality(Above(r)) < page * limit => Cardinality(Above(r)) < page' * limit
            BY <1>6, <1>10, <3>2
        <3> QED
            BY <2>1, <3>1, <3>3, Zenon
    <2> QED
        BY <2>2, <2>3, Zenon
<1>12. \A r : (Alone(r)' <=> Alone(r)) /\ Above(r)' = Above(r)
    BY <1>4, Zenon DEF Alone, Above
<1>13. OffsetSound'
    BY <1>4, <1>9, <1>11, <1>12, Zenon DEF OffsetSound
<1> QED
    BY <1>3, <1>8, <1>13, Zenon

\* What the other lists answer: some rows of the table, or an error.
SomeProbed(a) ==
    \E S \in SUBSET table : \E s \in SetToSeqs(S) : \E c :
        a = [ok |-> TRUE, rows |-> SubSeq(s, 1, IF Len(s) < limit THEN Len(s) ELSE limit),
             more |-> Len(s) > limit, cut |-> c]
SomeFilled(a) == \E b : SomeProbed(b) /\ a = [b EXCEPT !.more = Len(b.rows) = limit]

\* Such an answer is a page.
LEMMA ProbedPage ==
    ASSUME PgTyped, NEW a, SomeProbed(a)
    PROVE  /\ Page(a) /\ Len(a.rows) \in Nat
           /\ \E t, x, c : a = [ok |-> TRUE, rows |-> t, more |-> x, cut |-> c]
<1>0. PICK S \in SUBSET table : \E s \in SetToSeqs(S) : \E c :
        a = [ok |-> TRUE, rows |-> SubSeq(s, 1, IF Len(s) < limit THEN Len(s) ELSE limit),
             more |-> Len(s) > limit, cut |-> c]
    BY Zenon DEF SomeProbed
<1>1. PICK s \in SetToSeqs(S) : \E c :
        a = [ok |-> TRUE, rows |-> SubSeq(s, 1, IF Len(s) < limit THEN Len(s) ELSE limit),
             more |-> Len(s) > limit, cut |-> c]
    BY <1>0, Zenon
<1>c. PICK c :
        a = [ok |-> TRUE, rows |-> SubSeq(s, 1, IF Len(s) < limit THEN Len(s) ELSE limit),
             more |-> Len(s) > limit, cut |-> c]
    BY <1>1, Zenon
<1>2. IsFiniteSet(S)
    BY TableFinite, FS_Subset
<1>3. Orders(s, S)
    BY <1>2, SetToSeqsOrder
<1>4. Len(s) \in Nat /\ s \in Seq(S)
    BY <1>3 DEF Orders
<1>5. limit \in Nat \ {0}
    BY PgAssumption DEF PgTyped, PgTypeOK
<1>6. PICK m \in Nat : m = Fit(Len(s), limit)
    BY <1>4, <1>5, FitIs, Zenon
<1>7. m <= Len(s)
    BY <1>4, <1>5, <1>6, FitIs, Zenon
<1>8. PICK t : t = SubSeq(s, 1, m)
    BY Zenon
<1>9. t \in Seq(S) /\ Len(t) = m /\ DOMAIN t = 1 .. m /\ \A k \in 1 .. m : t[k] = s[k]
    BY <1>4, <1>7, <1>8, FirstRows
<1> DEFINE big == Len(s) > limit
<1>10. big \in BOOLEAN
    BY <1>4, <1>5
<1>11. a = [ok |-> TRUE, rows |-> t, more |-> big, cut |-> c]
    BY <1>c, <1>6, <1>8, Zenon DEF Fit
<1> HIDE DEF big
<1>12. a.ok = TRUE /\ a.rows = t /\ a.more = big
    BY <1>11
<1>13. \A i, j \in DOMAIN t : t[i] = t[j] => i = j
    <2>1. Len(s) \in Nat
        BY <1>4
    <2>2. 1 .. m \subseteq 1 .. Len(s)
        BY <1>7, <2>1
    <2> QED
        BY <1>3, <1>9, <2>2, Zenon DEF Orders
<1>14. \A k \in DOMAIN t : t[k] \in table
    BY <1>9
<1>15. a.ok \in BOOLEAN /\ a.more \in BOOLEAN
    BY <1>10, <1>12
<1> QED
    BY <1>9, <1>11, <1>12, <1>13, <1>14, <1>15, Zenon DEF Page

\* So is one that announces another page whenever it is full.
LEMMA FilledPage ==
    ASSUME PgTyped, NEW a, SomeFilled(a)
    PROVE  Page(a)
<1>1. PICK b : SomeProbed(b) /\ a = [b EXCEPT !.more = Len(b.rows) = limit]
    BY Zenon DEF SomeFilled
<1>2. Page(b) /\ Len(b.rows) \in Nat
    BY <1>1, ProbedPage, Zenon
<1>3. PICK t, x, c : b = [ok |-> TRUE, rows |-> t, more |-> x, cut |-> c]
    BY <1>1, ProbedPage, Zenon
<1> DEFINE full == Len(b.rows) = limit
<1>4. full \in BOOLEAN
    OBVIOUS
<1>5. a = [b EXCEPT !.more = full]
    BY <1>1, Zenon
<1> HIDE DEF full
<1>6. a.ok = TRUE /\ a.rows = b.rows /\ a.more = full
    BY <1>3, <1>5
<1>7. a.ok \in BOOLEAN /\ a.more \in BOOLEAN
    BY <1>4, <1>6
<1> QED
    BY <1>2, <1>6, <1>7, Zenon DEF Page

\* An error shows nothing.
LEMMA FailingPage ==
    ASSUME NEW a \in Failing
    PROVE  Page(a)
<1>1. a = [ok |-> FALSE, rows |-> <<>>, more |-> FALSE, cut |-> FALSE]
    BY DEF Failing
<1>2. a.rows = <<>> /\ a.ok \in BOOLEAN /\ a.more \in BOOLEAN
    BY <1>1
<1>3. DOMAIN a.rows = 1 .. 0 /\ 0 \in Nat /\ (1 .. 0) = {}
    BY <1>2
<1> QED
    BY <1>2, <1>3, Zenon DEF Page

\* The full pages of a table without a cursor.
LEMMA FilledTable ==
    ASSUME PgTyped, NEW a, a \in Filled(table, TimeDown, TRUE) \/ a \in Filled(table, NumDown, FALSE)
    PROVE  Page(a)
<1>0. table \in SUBSET table
    OBVIOUS
<1>1. PICK b : /\ b \in Probed(table, TimeDown, TRUE) \/ b \in Probed(table, NumDown, FALSE)
               /\ a = [b EXCEPT !.more = Len(b.rows) = limit]
    BY Zenon DEF Filled
<1>2. SomeProbed(b)
    BY <1>0, <1>1, Zenon DEF Probed, Sortings, SomeProbed
<1>3. SomeFilled(a)
    BY <1>1, <1>2, Zenon DEF SomeFilled
<1> QED
    BY <1>3, FilledPage, Zenon

\* The pages of the lists that are neither by a sound cursor nor by offset.
LEMMA OtherAnswer ==
    ASSUME PgTyped, list \notin Keyset \cup OffsetLists, NEW a \in Answers
    PROVE  Page(a)
<1>1. CASE list = "brand"
    <2>1. a \in getChallengesByBrandId
        BY <1>1, SMT DEF Answers, ListChallenges
    <2>2. a \in Failing \/ a \in Filled(table, TimeDown, TRUE) \/ a \in Filled(table, NumDown, FALSE)
        BY <2>1, Zenon DEF getChallengesByBrandId, buildCursorWhereSimple
    <2> QED
        BY <2>2, FailingPage, FilledTable, Zenon
<1>2. CASE list = "filter"
    <2>1. a \in getFilteredChallenges
        BY <1>2, SMT DEF Answers, ListChallenges
    <2>2. SomeProbed(a)
        BY <2>1, Zenon DEF getFilteredChallenges, Probed, Sortings, After, SomeProbed
    <2> QED
        BY <2>2, ProbedPage, Zenon
<1>3. CASE list = "active_pool"
    <2>1. a \in getActiveChallenges
        BY <1>3, SMT DEF Answers
    <2>2. a \in Failing \/ a \in Filled(table, TimeDown, TRUE) \/ a \in Filled(table, NumDown, FALSE)
        BY <2>1, Zenon DEF getActiveChallenges, buildCursorWhereSimple
    <2> QED
        BY <2>2, FailingPage, FilledTable, Zenon
<1>4. CASE list = "ending_soon"
    <2>1. Answers = Probed(After(LAMBDA r : PastTimeUp(r) \/ (r.at = NoTime /\ cursor.at = NoTime
                                                   /\ r.id > cursor.id)), TimeUp, TRUE)
        BY <1>4, SMT DEF Answers, ActiveRoute, getActiveChallengesSorted
    <2>2. SomeProbed(a)
        BY <2>1, Zenon DEF Probed, Sortings, After, SomeProbed
    <2> QED
        BY <2>2, ProbedPage, Zenon
<1>5. CASE list = "gallery"
    <2>1. a \in getGalleryTemplates
        BY <1>5, SMT DEF Answers, GalleryRoute
    <2>2. SomeProbed(a)
        BY <2>1, Zenon DEF getGalleryTemplates, Probed, Sortings, After, SomeProbed
    <2> QED
        BY <2>2, ProbedPage, Zenon
<1>6. CASE list \in {"rank", "created_at"}
    <2>1. a \in getLeaderboard(list) /\ list # "score"
        <3>1. CASE list = "rank"
            BY <3>1, SMT DEF Answers, LeaderboardRoute
        <3>2. CASE list = "created_at"
            BY <3>2, SMT DEF Answers, LeaderboardRoute
        <3> QED
            BY <1>6, <3>1, <3>2
    <2>3. PICK S \in SUBSET table :
            a \in Filled(S, LAMBDA x, y : list = "rank" /\ ScoreBoard(x, y), TRUE)
        BY <2>1, Zenon DEF getLeaderboard, After
    <2>4. PICK b \in Probed(S, LAMBDA x, y : list = "rank" /\ ScoreBoard(x, y), TRUE) :
            a = [b EXCEPT !.more = Len(b.rows) = limit]
        BY <2>3, Zenon DEF Filled
    <2>5. SomeProbed(b)
        BY <2>4, Zenon DEF Probed, Sortings, SomeProbed
    <2>2. SomeFilled(a)
        BY <2>4, <2>5, Zenon DEF SomeFilled
    <2> QED
        BY <2>2, FilledPage, Zenon
<1>7. CASE list = "history"
    <2>1. a \in getSessionHistory
        BY <1>7, SMT DEF Answers, HistoryRoute
    <2>2. SomeProbed(a)
        BY <2>1, Zenon DEF getSessionHistory, Probed, Sortings, After, SomeProbed
    <2> QED
        BY <2>2, ProbedPage, Zenon
<1>8. CASE list = "payouts"
    <2>1. a \in getPayouts
        BY <1>8, SMT DEF Answers, AdminPayouts
    <2>2. a \in Failing \/ a \in Filled(table, TimeDown, TRUE) \/ a \in Filled(table, NumDown, FALSE)
        BY <2>1, Zenon DEF getPayouts, buildCursorWhereSimple
    <2> QED
        BY <2>2, FailingPage, FilledTable, Zenon
<1>9. CASE list = "fraud_flags"
    <2>1. a \in getFraudFlags
        BY <1>9, SMT DEF Answers, AdminFraudFlags
    <2>2. a \in Failing \/ a \in Filled(table, TimeDown, TRUE) \/ a \in Filled(table, NumDown, FALSE)
        BY <2>1, Zenon DEF getFraudFlags, buildCursorWhereSimple
    <2> QED
        BY <2>2, FailingPage, FilledTable, Zenon
<1>10. CASE list = "list_users"
    <2>1. a \in listUsers
        BY <1>10, SMT DEF Answers
    <2>2. a \in Failing \/ a \in Filled(table, TimeDown, TRUE) \/ a \in Filled(table, NumDown, FALSE)
        BY <2>1, Zenon DEF listUsers
    <2> QED
        BY <2>2, FailingPage, FilledTable, Zenon
<1>11. CASE list = "earnings"
    <2>1. a \in Failing
        BY <1>11, SMT DEF Answers, MyEarnings
    <2> QED
        BY <2>1, FailingPage, Zenon
<1> QED
    BY <1>1, <1>2, <1>3, <1>4, <1>5, <1>6, <1>7, <1>8, <1>9, <1>10, <1>11 DEF PgTyped, PgTypeOK, Lists, Keyset

\* A walk starts sound.
LEMMA PgStart ==
    ASSUME PgInit
    PROVE  PgInv
<1>1. PICK ids \in SUBSET PgIds : \E f \in [ids -> PgRows(list)] :
        (\A i \in ids : f[i].id = i) /\ table = {f[i] : i \in ids}
    BY Zenon DEF PgInit
<1>2. PICK f \in [ids -> PgRows(list)] :
        (\A i \in ids : f[i].id = i) /\ table = {f[i] : i \in ids}
    BY <1>1, Zenon
<1>3. table \subseteq PgRows(list) /\ \A q, r \in table : q.id = r.id => q = r
    <2>1. \A i \in ids : f[i] \in PgRows(list)
        OBVIOUS
    <2>2. \A r \in table : \E i \in ids : r = f[i] /\ r.id = i
        BY <1>2, Zenon
    <2>3. table \subseteq PgRows(list)
        BY <2>1, <2>2, Zenon
    <2>4. ASSUME NEW q \in table, NEW r \in table, q.id = r.id PROVE q = r
        <3>1. PICK i \in ids : q = f[i] /\ q.id = i
            BY <2>2, Zenon
        <3>2. PICK j \in ids : r = f[j] /\ r.id = j
            BY <2>2, Zenon
        <3> QED
            BY <2>4, <3>1, <3>2, Zenon
    <2> QED
        BY <2>3, <2>4, Zenon
<1>4. Cardinality(PgIds) \in Nat
    BY PgAssumption, FS_CardinalityType
<1>5. page = 0 /\ page \in 0 .. Cardinality(PgIds) + 1 /\ page \in 0 .. 1
    BY <1>4 DEF PgInit
<1>6. shown \in [PgIds -> 0 .. 2] /\ \A i \in PgIds : shown[i] = 0
    BY DEF PgInit
<1>7. PgTyped
    <2>1. walk \in {"walking", "done", "failed"} /\ list \in Lists /\ limit \in PgLimits /\ moved = {}
        BY DEF PgInit
    <2> QED
        BY <1>3, <1>5, <1>6, <2>1, Zenon DEF PgTyped, PgTypeOK
<1>8. \A r \in table : r.id \in PgIds
    BY <1>7 DEF PgTyped, PgTypeOK, PgRows
<1>9. ~(0 > 0) /\ ~(0 > 1) /\ 0 <= 1 /\ 0 # 1
    OBVIOUS
<1>10. cursor \in Row
    BY DEF PgInit, Row
<1>11. CursorSound
    BY <1>5, <1>6, <1>8, <1>9, <1>10, Zenon DEF CursorSound
<1>12. OffsetSound
    BY <1>5, <1>6, <1>8, <1>9, Zenon DEF OffsetSound
<1>13. OtherSound
    BY <1>5, Zenon DEF OtherSound
<1>14. NothingMissed
    <2>1. walk # "done"
        BY DEF PgInit
    <2> QED
        BY <2>1, Zenon DEF NothingMissed
<1> QED
    BY <1>7, <1>11, <1>12, <1>13, <1>14, Zenon DEF PgInv

\* An empty table to start with.
NoWalk ==
    /\ list = "audit" /\ limit = (CHOOSE l \in PgLimits : TRUE) /\ table = {} /\ page = 0
    /\ cursor = [id |-> 0, num |-> 0, at |-> 0]
    /\ shown = [i \in PgIds |-> 0] /\ edges = {} /\ moved = {} /\ walk = "walking"

\* It is one of the tables a walk may start with.
LEMMA NoWalkYet == ASSUME NoWalk PROVE PgInit
<1>1. limit \in PgLimits
    BY PgAssumption, Zenon DEF NoWalk
<1>2. list \in Lists
    BY DEF NoWalk, Lists, OffsetLists
<1> DEFINE f == [i \in {} |-> 0]
<1>3. f \in [{} -> PgRows(list)] /\ (\A i \in {} : f[i].id = i) /\ {} \in SUBSET PgIds
    OBVIOUS
<1>4. table = {f[i] : i \in {}}
    BY DEF NoWalk
<1> HIDE DEF f
<1>5. \E ids \in SUBSET PgIds : \E g \in [ids -> PgRows(list)] :
        (\A i \in ids : g[i].id = i) /\ table = {g[i] : i \in ids}
    BY <1>3, <1>4, Zenon
<1> QED
    BY <1>1, <1>2, <1>5, Zenon DEF NoWalk, PgInit

\* A list is walked in one of three ways.
LEMMA ListKinds ==
    /\ Keyset \cap OffsetLists = {} /\ CutLists \subseteq Keyset
    /\ Keyset = ExactLists \cup CutLists \cup BoardLists
BY DEF Keyset, OffsetLists, ExactLists, CutLists, BoardLists

\* A page keeps the walk sound.
LEMMA FetchKeeps ==
    ASSUME PgInv, FetchPage
    PROVE  PgInv'
<1>1. PICK a \in Answers : Arrives(a)
    BY FetchArrives, Zenon
<1>2. PgTyped /\ CursorSound /\ OffsetSound /\ OtherSound
    BY Zenon DEF PgInv
<1>3. Cardinality(PgIds) \in Nat
    BY <1>2, TableFinite
<1>4. 1 \in 0 .. Cardinality(PgIds) + 1 /\ 1 \in 0 .. 1
    BY <1>3
<1>5. list' = list /\ limit' = limit /\ table' = table /\ moved' = moved
    BY <1>1, Zenon DEF Arrives
<1>6. ASSUME page' \in 0 .. Cardinality(PgIds) + 1, shown' \in [PgIds -> 0 .. 2],
             walk' \in {"walking", "done", "failed"}
      PROVE  PgTyped'
    BY <1>2, <1>5, <1>6, Zenon DEF PgTyped, PgTypeOK
<1>7. CASE list \in Keyset
    <2>1. /\ CursorSound' /\ NothingMissed'
          /\ page' = 1 /\ shown' \in [PgIds -> 0 .. 2] /\ walk' \in {"walking", "done"}
        BY <1>1, <1>2, <1>7, FetchByCursor, Zenon
    <2>2. PgTyped'
        BY <1>4, <1>6, <2>1, Zenon
    <2>3. OffsetSound' /\ OtherSound'
        BY <1>5, <1>7, ListKinds, Zenon DEF OffsetSound, OtherSound
    <2> QED
        BY <2>1, <2>2, <2>3, Zenon DEF PgInv
<1>8. CASE list \in OffsetLists
    <2>1. Page(a) /\ OffsetSound' /\ page' \in 0 .. Cardinality(PgIds) + 1
        BY <1>1, <1>2, <1>8, FetchByOffset, Zenon
    <2>2. CountedBy(a) /\ walk' \in {"walking", "done", "failed"}
        BY <1>1, <1>2, <2>1, PageArrives, Zenon
    <2>3. PgTyped'
        BY <1>6, <2>1, <2>2, Zenon DEF CountedBy
    <2>4. CursorSound' /\ OtherSound'
        BY <1>5, <1>8, ListKinds, Zenon DEF CursorSound, OtherSound
    <2>5. NothingMissed'
        BY <1>5, <1>8, ListKinds, Zenon DEF NothingMissed
    <2> QED
        BY <2>1, <2>3, <2>4, <2>5, Zenon DEF PgInv
<1>9. CASE list \notin Keyset \cup OffsetLists
    <2>1. Page(a)
        BY <1>1, <1>2, <1>9, OtherAnswer, Zenon
    <2>2. CountedBy(a) /\ walk' \in {"walking", "done", "failed"}
        BY <1>1, <1>2, <2>1, PageArrives, Zenon
    <2>3. page' = 1
        BY <1>1, <1>9, Zenon DEF Arrives
    <2>4. PgTyped'
        BY <1>4, <1>6, <2>2, <2>3, Zenon DEF CountedBy
    <2>5. CursorSound' /\ OffsetSound' /\ OtherSound'
        BY <1>4, <1>5, <1>9, <2>3, Zenon DEF CursorSound, OffsetSound, OtherSound
    <2>6. NothingMissed'
        BY <1>5, <1>9, ListKinds, Zenon DEF NothingMissed
    <2> QED
        BY <2>4, <2>5, <2>6, Zenon DEF PgInv
<1> QED
    BY <1>7, <1>8, <1>9, Zenon

\* What a row that moves leaves alone.
Moves ==
    /\ walk = "walking"
    /\ UNCHANGED <<list, limit, page, cursor, shown, edges, walk>>

\* A moved row is on record, and the walk still goes on.
LEMMA MoveKeeps ==
    ASSUME Moves, PgTyped, NEW i \in PgIds, moved' = moved \cup {i}, table' \subseteq PgRows(list),
           \A q, r \in table' : q.id = r.id => q = r, OffsetSound, OtherSound
    PROVE  PgTyped' /\ OffsetSound' /\ OtherSound' /\ NothingMissed'
<1>1. /\ list' = list /\ limit' = limit /\ page' = page /\ cursor' = cursor /\ shown' = shown
      /\ edges' = edges /\ walk' = walk /\ walk = "walking"
    BY Zenon DEF Moves
<1>2. PgTyped'
    <2>1. moved' \subseteq PgIds
        BY DEF PgTyped
    <2> QED
        BY <1>1, <2>1, Zenon DEF PgTyped, PgTypeOK
<1>3. OffsetSound'
    <2>1. moved' # {}
        OBVIOUS
    <2> QED
        BY <1>1, <2>1, Zenon DEF OffsetSound
<1>4. OtherSound'
    BY <1>1, Zenon DEF OtherSound
<1>5. NothingMissed'
    <2>1. walk' # "done"
        BY <1>1
    <2> QED
        BY <2>1, Zenon DEF NothingMissed
<1> QED
    BY <1>2, <1>3, <1>4, <1>5, Zenon

\* A row that enters.
LEMMA EnterKeeps ==
    ASSUME PgInv, NEW x \in PgRows(list), RowEnters(x)
    PROVE  PgInv'
<1>1. /\ Moves /\ table' = table \cup {x} /\ moved' = moved \cup {x.id}
      /\ x.id \notin moved /\ \A q \in table : q.id # x.id
    BY Zenon DEF RowEnters, Moves
<1>2. PgTyped /\ CursorSound /\ OffsetSound /\ OtherSound
    BY Zenon DEF PgInv
<1>3. x.id \in PgIds
    BY DEF PgRows
<1>4. table' \subseteq PgRows(list) /\ \A q, r \in table' : q.id = r.id => q = r
    <2>1. table \subseteq PgRows(list)
        BY <1>2, Zenon DEF PgTyped, PgTypeOK
    <2> QED
        BY <1>1, <1>2, <2>1, Zenon DEF PgTyped
<1>5. PgTyped' /\ OffsetSound' /\ OtherSound' /\ NothingMissed'
    BY <1>1, <1>2, <1>3, <1>4, MoveKeeps, Zenon
<1>6. /\ list' = list /\ page' = page /\ cursor' = cursor /\ shown' = shown
      /\ edges' = edges /\ walk' = walk
    BY <1>1, Zenon DEF Moves
<1>7. \A r : (Twice(r)' <=> Twice(r)) /\ (Blurred(r)' <=> Blurred(r))
    BY <1>6, Zenon DEF Twice, Blurred
<1>8. CursorSound'
    <2> SUFFICES ASSUME list \in Keyset PROVE CursorSound'
        BY <1>6, Zenon DEF CursorSound
    <2>1. ~(shown[x.id] > 0)
        BY <1>1, <1>3, <1>2, Zenon DEF CursorSound
    <2>2. ~(shown[x.id] > 1)
        <3>1. shown[x.id] \in 0 .. 2
            BY <1>2, <1>3 DEF PgTyped, PgTypeOK
        <3> QED
            BY <2>1, <3>1
    <2>3. \A r \in table' : r \in table \/ r = x
        BY <1>1, Zenon
    <2>4. x.id \in moved' /\ moved \subseteq moved' /\ table \subseteq table'
        BY <1>1, Zenon
    <2>5. \A i \in PgIds : shown[i] > 0 => i \in moved' \/ \E r \in table' : r.id = i
        BY <1>2, <2>4, Zenon DEF CursorSound
    <2>6. \A r \in table' : shown[r.id] > 1 => Twice(r)
        BY <1>2, <2>2, <2>3, Zenon DEF CursorSound
    <2>7. walk = "walking" /\ page = 1 =>
              \A r \in table' :
                 /\ Precedes(list, cursor, r) /\ shown[r.id] > 0 => Twice(r)
                 /\ ~Precedes(list, cursor, r) => r.id \in moved' \/ shown[r.id] > 0 \/ Blurred(r)
        BY <1>2, <2>1, <2>3, <2>4, Zenon DEF CursorSound
    <2>8. page \in 0 .. 1 /\ cursor \in Row /\ (page = 0 => \A i \in PgIds : shown[i] = 0)
        BY <1>2, Zenon DEF CursorSound
    <2> QED
        BY <1>6, <1>7, <2>5, <2>6, <2>7, <2>8, Zenon DEF CursorSound
<1> QED
    BY <1>5, <1>8, Zenon DEF PgInv

\* A row that leaves.
LEMMA LeaveKeeps ==
    ASSUME PgInv, NEW x \in table, RowLeaves(x)
    PROVE  PgInv'
<1>1. Moves /\ table' = table \ {x} /\ moved' = moved \cup {x.id}
    BY Zenon DEF RowLeaves, Moves
<1>2. PgTyped /\ CursorSound /\ OffsetSound /\ OtherSound
    BY Zenon DEF PgInv
<1>3. x.id \in PgIds
    BY <1>2 DEF PgTyped, PgTypeOK, PgRows
<1>4. table' \subseteq PgRows(list) /\ \A q, r \in table' : q.id = r.id => q = r
    <2>1. table \subseteq PgRows(list)
        BY <1>2, Zenon DEF PgTyped, PgTypeOK
    <2> QED
        BY <1>1, <1>2, <2>1, Zenon DEF PgTyped
<1>5. PgTyped' /\ OffsetSound' /\ OtherSound' /\ NothingMissed'
    BY <1>1, <1>2, <1>3, <1>4, MoveKeeps, Zenon
<1>6. /\ list' = list /\ page' = page /\ cursor' = cursor /\ shown' = shown
      /\ edges' = edges /\ walk' = walk
    BY <1>1, Zenon DEF Moves
<1>7. \A r : (Twice(r)' <=> Twice(r)) /\ (Blurred(r)' <=> Blurred(r))
    BY <1>6, Zenon DEF Twice, Blurred
<1>8. CursorSound'
    <2> SUFFICES ASSUME list \in Keyset PROVE CursorSound'
        BY <1>6, Zenon DEF CursorSound
    <2>1. table' \subseteq table /\ moved \subseteq moved' /\ x.id \in moved' /\ \A r \in table : r \in table' \/ r = x
        BY <1>1, Zenon
    <2>2. \A i \in PgIds : shown[i] > 0 => i \in moved' \/ \E r \in table' : r.id = i
        BY <1>2, <2>1, Zenon DEF CursorSound
    <2>3. page \in 0 .. 1 /\ cursor \in Row /\ (page = 0 => \A i \in PgIds : shown[i] = 0)
        BY <1>2, Zenon DEF CursorSound
    <2>4. \A r \in table' : shown[r.id] > 1 => Twice(r)
        BY <1>2, <2>1, Zenon DEF CursorSound
    <2>5. walk = "walking" /\ page = 1 =>
              \A r \in table' :
                 /\ Precedes(list, cursor, r) /\ shown[r.id] > 0 => Twice(r)
                 /\ ~Precedes(list, cursor, r) => r.id \in moved' \/ shown[r.id] > 0 \/ Blurred(r)
        BY <1>2, <2>1, Zenon DEF CursorSound
    <2> QED
        BY <1>6, <1>7, <2>2, <2>3, <2>4, <2>5, Zenon DEF CursorSound
<1> QED
    BY <1>5, <1>8, Zenon DEF PgInv

\* Every step of a walk keeps it sound.
LEMMA PgMove ==
    ASSUME PgInv, [PgNext]_pgVars
    PROVE  PgInv'
<1>1. CASE FetchPage
    BY <1>1, FetchKeeps, Zenon
<1>2. ASSUME NEW r \in PgRows(list), RowEnters(r) PROVE PgInv'
    BY <1>2, EnterKeeps, Zenon
<1>3. ASSUME NEW r \in table, RowLeaves(r) PROVE PgInv'
    BY <1>3, LeaveKeeps, Zenon
<1>4. CASE UNCHANGED pgVars
    <2>1. /\ list' = list /\ limit' = limit /\ table' = table /\ page' = page /\ cursor' = cursor
          /\ shown' = shown /\ edges' = edges /\ moved' = moved /\ walk' = walk
        BY <1>4, Zenon DEF pgVars
    <2>2. \A r : /\ Twice(r)' <=> Twice(r)
                 /\ Blurred(r)' <=> Blurred(r)
                 /\ Alone(r)' <=> Alone(r)
                 /\ Above(r)' = Above(r)
        BY <2>1, Zenon DEF Twice, Blurred, Alone, Above
    <2>3. PgTyped'
        BY <2>1, Zenon DEF PgInv, PgTyped, PgTypeOK
    <2>4. CursorSound'
        BY <2>1, <2>2, Zenon DEF PgInv, CursorSound
    <2>5. OffsetSound'
        BY <2>1, <2>2, Zenon DEF PgInv, OffsetSound
    <2>6. OtherSound' /\ NothingMissed'
        BY <2>1, Zenon DEF PgInv, OtherSound, NothingMissed
    <2> QED
        BY <2>3, <2>4, <2>5, <2>6, Zenon DEF PgInv
<1> QED
    BY <1>1, <1>2, <1>3, <1>4, Zenon DEF PgNext

\* A sound walk shows each row once and misses none.
LEMMA PgSound ==
    ASSUME PgInv
    PROVE  PgTypeOK /\ ShownOnce /\ NothingMissed
<1>1. PgTyped /\ CursorSound /\ OffsetSound
    BY Zenon DEF PgInv
<1>2. ASSUME NEW r \in table, shown[r.id] > 1
      PROVE  \/ list \in BoardLists /\ \E e \in edges :
                   e.num = r.num /\ Ms(e.at) = Ms(r.at) /\ e.at # Ms(e.at)
             \/ list \in OffsetLists /\ (moved # {} \/ \E q \in table \ {r} : q.at = r.at)
             \/ list \notin ExactLists \cup CutLists \cup BoardLists \cup OffsetLists
    <2>1. CASE list \in Keyset
        BY <1>1, <1>2, <2>1, Zenon DEF CursorSound, Twice, TwiceBy
    <2>2. CASE list \in OffsetLists
        <3>1. r.id \in PgIds /\ shown[r.id] \in 0 .. 2
            BY <1>1 DEF PgTyped, PgTypeOK, PgRows
        <3>2. ~(shown[r.id] <= 1)
            BY <1>2, <3>1
        <3> QED
            BY <1>1, <1>2, <2>2, <3>2, Zenon DEF OffsetSound, Alone
    <2> QED
        BY <2>1, <2>2, ListKinds, Zenon
<1>3. ShownOnce
    BY <1>2, Zenon DEF ShownOnce
<1> QED
    BY <1>1, <1>3, Zenon DEF PgInv, PgTyped

-------------------------------------------------------------------------------
(* Types of the rows and requests *)

\* What the types of the rows leave out: the ids of questions are bounded, what is
\* hurt or late is a challenge, and flags are flags.
AuBounded ==
    /\ brandLive \in BOOLEAN /\ hurt \subseteq Chs /\ tardy \subseteq Chs
    /\ regens \in 1 .. MaxRegens
    /\ \A c \in Chs, k \in RoundNos : quest[c][k] \in 0 .. MaxRegens
RewroteTyped == rewrote \in BOOLEAN

\* At first no question has an id.
LEMMA AuBoundedStart == ASSUME AuInit PROVE AuBounded
<1>1. quest = [c \in Chs |-> [k \in RoundNos |-> 0]] /\ regens = 1
    BY DEF AuInit
<1>2. 1 \in 1 .. MaxRegens /\ 0 \in 0 .. MaxRegens
    BY AuAssumption
<1> QED
    BY <1>1, <1>2 DEF AuInit, AuBounded

\* Every handler keeps the bounds: a new question takes the next id.
LEMMA AuBoundedStep ==
    ASSUME AuInv, AuBounded, [AuNext]_auVars
    PROVE  AuBounded'
<1>0. /\ quest \in [Chs -> [RoundNos -> Nat]] /\ auReq \in [AuReqs -> AuRecords]
      /\ \A r \in AuReqs : AuHolds(auReq[r])
    BY DEF AuInv, AuTyped
<1>1. MaxRegens \in Nat /\ 1 \in 0 .. MaxRegens /\ 0 \in 0 .. MaxRegens
    BY AuAssumption
<1>2. regens < MaxRegens => regens + 1 \in 1 .. MaxRegens /\ regens + 1 \in 0 .. MaxRegens
    BY <1>1 DEF AuBounded
<1> DEFINE Flags == brandLive' \in BOOLEAN /\ hurt' \subseteq Chs /\ tardy' \subseteq Chs
           Ids == /\ regens' \in 1 .. MaxRegens
                  /\ \A c \in Chs, k \in RoundNos : quest'[c][k] \in 0 .. MaxRegens
<1>3. ASSUME UNCHANGED <<quest, regens>> PROVE Ids
    BY <1>3 DEF AuBounded
<1>4. ASSUME UNCHANGED <<brandLive, hurt, tardy>> PROVE Flags
    BY <1>4 DEF AuBounded
<1>5. ASSUME DeleteBrand PROVE Flags /\ Ids
    BY <1>3, <1>5 DEF DeleteBrand, AuBounded
<1>6. ASSUME NEW r \in AuReqs, CreateCheck(r) PROVE Flags /\ Ids
    BY <1>3, <1>4, <1>6 DEF CreateCheck
<1>7. ASSUME NEW r \in AuReqs, CreateChallenge(r) PROVE Flags /\ Ids
    <2>1. UNCHANGED <<brandLive, quest, regens, hurt>> /\ \E c \in Chs : tardy' = tardy \/ tardy' = tardy \cup {c}
        BY <1>7, Zenon DEF CreateChallenge
    <2> QED
        BY <1>3, <2>1 DEF AuBounded
<1>8. ASSUME NEW r \in AuReqs, InsertQuestion(r) PROVE Flags /\ Ids
    <2>1. /\ UNCHANGED <<brandLive, regens, hurt, tardy>>
          /\ \/ quest' = quest
             \/ quest' = [quest EXCEPT ![auReq[r].c][GeneratedRounds(kit)[auReq[r].round]] = 1]
        BY <1>8 DEF InsertQuestion
    <2>2. \A c \in Chs, k \in RoundNos : quest'[c][k] = quest[c][k] \/ quest'[c][k] = 1
        BY <1>0, <2>1
    <2> QED
        BY <1>1, <1>4, <2>1, <2>2 DEF AuBounded
<1>9. ASSUME NEW r \in AuReqs, HandlerDies(r) PROVE Flags /\ Ids
    <2>1. UNCHANGED <<brandLive, quest, regens, tardy>> /\ hurt' = hurt \cup ({auReq[r].c} \ {0})
        BY <1>9 DEF HandlerDies
    <2>2. auReq[r].c \in Chs \cup {0}
        BY <1>0 DEF AuRecords
    <2> QED
        BY <1>3, <2>1, <2>2 DEF AuBounded
<1>10. ASSUME NEW r \in AuReqs, DuplicateCopy(r) PROVE Flags /\ Ids
    <2>1. /\ AuAt(r, "copy") /\ UNCHANGED <<brandLive, regens, tardy>>
          /\ quest' = [quest EXCEPT ![auReq[r].c] = quest[auReq[r].id]]
          /\ hurt' = hurt \/ hurt' = hurt \cup {auReq[r].c}
        BY <1>10, Zenon DEF DuplicateCopy
    <2>2. auReq[r].id \in Chs /\ auReq[r].c \in Chs
        BY <1>0, <2>1 DEF AuHolds, OnChallenge, AuAt
    <2>3. \A c \in Chs : quest'[c] = quest[c] \/ quest'[c] = quest[auReq[r].id]
        BY <1>0, <2>1
    <2>4. Ids
        BY <2>1, <2>2, <2>3, Zenon DEF AuBounded
    <2> QED
        BY <2>1, <2>2, <2>4 DEF AuBounded
<1>11. ASSUME NEW r \in AuReqs, DeleteQuestion(r) PROVE Flags /\ Ids
    <2>1. /\ UNCHANGED <<brandLive, regens, hurt, tardy>>
          /\ \A c \in Chs, k \in RoundNos : quest'[c][k] = quest[c][k] \/ quest'[c][k] = 0
        BY <1>0, <1>11 DEF DeleteQuestion
    <2> QED
        BY <1>1, <1>4, <2>1 DEF AuBounded
<1>12. ASSUME NEW r \in AuReqs, WriteQuestion(r) PROVE Flags /\ Ids
    <2>1. /\ UNCHANGED <<brandLive, hurt, tardy>>
          /\ \/ regens' = regens /\ quest' = quest
             \/ /\ regens < MaxRegens /\ regens' = regens + 1
                /\ quest' = [quest EXCEPT ![auReq[r].c][auReq[r].round] = regens + 1]
        BY <1>12 DEF WriteQuestion
    <2>2. CASE regens' = regens /\ quest' = quest
        BY <1>3, <1>4, <2>1, <2>2
    <2>3. CASE /\ regens < MaxRegens /\ regens' = regens + 1
               /\ quest' = [quest EXCEPT ![auReq[r].c][auReq[r].round] = regens + 1]
        <3>1. \A c \in Chs, k \in RoundNos : quest'[c][k] = quest[c][k] \/ quest'[c][k] = regens + 1
            BY <1>0, <2>3
        <3>2. Ids
            BY <1>2, <2>3, <3>1, Zenon DEF AuBounded
        <3> QED
            BY <1>4, <2>1, <3>2
    <2> QED
        BY <2>1, <2>2, <2>3
<1>13. ASSUME NEW r \in AuReqs, NEW c \in Chs,
              DuplicateInsert(r, c) \/ \E k \in RoundNos : RegenRead(r, c, k)
       PROVE  Flags /\ Ids
    <2>1. UNCHANGED <<brandLive, quest, regens, hurt, tardy>>
        BY <1>13, Zenon DEF DuplicateInsert, RegenRead
    <2> QED
        BY <1>3, <1>4, <2>1
<1>14. ASSUME NEW c \in Chs, DepositCredited(c) \/ ChallengeEnds(c) \/ SoftDeleteChallenge(c)
       PROVE  Flags /\ Ids
    BY <1>3, <1>4, <1>14 DEF DepositCredited, ChallengeEnds, SoftDeleteChallenge
<1>15. ASSUME NEW c \in Chs, RestoreChallenge(c) PROVE Flags /\ Ids
    <2>1. UNCHANGED <<brandLive, quest, regens, hurt>> /\ (tardy' = tardy \/ tardy' = tardy \cup {c})
        BY <1>15, Zenon DEF RestoreChallenge
    <2> QED
        BY <1>3, <2>1 DEF AuBounded
<1>16. ASSUME UNCHANGED auVars PROVE Flags /\ Ids
    BY <1>3, <1>4, <1>16 DEF auVars
<1>17. Flags /\ Ids
    <2> HIDE DEF Flags, Ids
    <2> QED
        BY <1>5, <1>6, <1>7, <1>8, <1>9, <1>10, <1>11, <1>12, <1>13, <1>14, <1>15, <1>16, Zenon DEF AuNext
<1> QED
    BY <1>17, Zenon DEF AuBounded

\* At first no key was set again.
LEMMA RewroteStart == ASSUME UpInit PROVE RewroteTyped
BY DEF UpInit, RewroteTyped

\* What an upload or an avatar changes leaves the flag a flag.
LEMMA RewroteStep ==
    ASSUME RewroteTyped, [UpNext]_upVars
    PROVE  RewroteTyped'
<1>1. CASE UNCHANGED rewrote
    BY <1>1 DEF RewroteTyped
<1>2. ASSUME NEW r \in AvReqs, OptimizeAvatar(r) \/ PointAvatar(r) \/ DeleteOldAvatar(r) PROVE RewroteTyped'
    BY <1>2 DEF OptimizeAvatar, PointAvatar, DeleteOldAvatar, RewroteTyped
<1>3. \/ UNCHANGED rewrote
      \/ \E r \in AvReqs : OptimizeAvatar(r) \/ PointAvatar(r) \/ DeleteOldAvatar(r)
    BY DEF UpNext, upVars, avVars, Presign, PutObject, UrlExpires, RecordExpires, SendVerify, Verify,
       Answer, Abort, StoreAvatar
<1> QED
    BY <1>1, <1>2, <1>3

\* The types of the rows and requests of each component.
LEMMA ErTypes == ASSUME ErInv PROVE ErTypeOK
<1>1. /\ rows \in Seq(ErRows) /\ job \in ErJobs /\ worker \in ErWorkers /\ WorkerHasJob
    BY DEF ErInv, ErTyped
<1>2. Len(rows) \in Nat
    BY <1>1
<1>3. job.state \in {"none", "delayed", "active", "done", "failed"} /\ job.attempts \in Nat
    BY <1>1 DEF ErJobs
<1>4. job.row \in 0 .. Len(rows) /\ worker.row \in 0 .. Len(rows)
    BY <1>1, <1>2 DEF WorkerHasJob
<1>5. (worker.at # "idle") = (job.state = "active")
    BY <1>1 DEF WorkerHasJob
<1>6. job.attempts \in 0 .. MaxAttempts
    BY <1>1, <1>3, ErAssumption DEF WorkerHasJob
<1> QED
    BY <1>1, <1>3, <1>4, <1>5, <1>6 DEF ErTypeOK, WorkerHasJob

\* The same of names.
LEMMA UnTypes == ASSUME UnInv PROVE UnTypeOK
BY DEF UnInv, UnTyped, UnTypeOK, UnRecords, UnLabels

\* The same of uploads.
LEMMA UpTypes == ASSUME UpInv, RewroteTyped PROVE UpTypeOK
BY DEF UpInv, FileInv, FieldTyped, FieldLabels, AvInv, AvTyped, AvRecords, AvLabels, RewroteTyped, UpTypeOK

\* The same of challenges and questions.
LEMMA AuTypes == ASSUME AuInv, AuBounded PROVE AuTypeOK
<1>1. /\ ch \in [Chs -> ChRecords] /\ quest \in [Chs -> [RoundNos -> Nat]] /\ auReq \in [AuReqs -> AuRecords]
    BY DEF AuInv, AuTyped
<1>2. ASSUME NEW c \in Chs
      PROVE  /\ ch[c].st \in {"none", "pending_deposit", "active", "cancelled", "ended"}
             /\ quest[c] \in [RoundNos -> 0 .. MaxRegens]
    <2>1. ch[c] \in ChRecords /\ quest[c] \in [RoundNos -> Nat] /\ \A k \in RoundNos : quest[c][k] \in 0 .. MaxRegens
        BY <1>1 DEF AuBounded
    <2> QED
        BY <2>1 DEF ChRecords
<1>3. \A r \in AuReqs : auReq[r].at \in {"idle", "insert", "questions", "copy", "delete", "write"}
    BY <1>1 DEF AuRecords, AuLabels
<1> QED
    BY <1>2, <1>3 DEF AuTypeOK, AuBounded

-------------------------------------------------------------------------------
(* The account as a whole: each component keeps its own invariant, since every *)
(* step of AbSpec is a step of one of them and leaves the others alone.        *)

AbInv == RtInv /\ TfInv /\ ErInv /\ UnInv /\ PvInv /\ AaInv /\ UpInv /\ AuInv
         /\ SpInv /\ PaInv /\ ViInv /\ PgInv /\ AuBounded /\ RewroteTyped

\* A step of the account is a step of each component, or leaves it alone.
LEMMA EachMovesAlone ==
    ASSUME [AbNext]_abVars
    PROVE  /\ [RtNext]_rtVars /\ [TfNext]_tfVars /\ [ErNext]_erVars /\ [UnNext]_unVars
           /\ [PvNext]_pvVars /\ [AaNext]_aaVars /\ [UpNext]_upVars /\ [AuNext]_auVars
           /\ [SpNext]_spVars /\ [PaNext]_paVars /\ [ViNext]_viVars /\ [PgNext]_pgVars
<1> DEFINE each == /\ [RtNext]_rtVars /\ [TfNext]_tfVars /\ [ErNext]_erVars /\ [UnNext]_unVars
                   /\ [PvNext]_pvVars /\ [AaNext]_aaVars /\ [UpNext]_upVars
           brand == /\ [AuNext]_auVars /\ [SpNext]_spVars /\ [PaNext]_paVars /\ [ViNext]_viVars
                    /\ [PgNext]_pgVars
<1>1. ASSUME AccountNext, UNCHANGED <<spVars, paVars, pgVars, auVars, viVars>>
      PROVE  each /\ brand
    BY <1>1 DEF AccountNext
<1>2. ASSUME BrandNext, UNCHANGED <<rtVars, tfVars, erVars, unVars, pvVars, aaVars, upVars>>
      PROVE  each /\ brand
    BY <1>2 DEF BrandNext, SpNext
<1>3. ASSUME UNCHANGED abVars PROVE each /\ brand
    BY <1>3 DEF abVars
<1> QED
    BY <1>1, <1>2, <1>3 DEF AbNext

\* The invariant of the account and of the brand's challenges, for every number
\* of requests, tokens, batches, rows, names, callers, changes, files,
\* questions, users, runs, plays and rows of a list.
THEOREM AccountInvariance == AbSpec => []AbInv
<1>1. AbInit => AbInv
    <2> SUFFICES ASSUME AbInit PROVE AbInv
        OBVIOUS
    <2>1. /\ RtInit /\ TfInit /\ ErInit /\ UnInit /\ PvInit /\ AaInit /\ UpInit
          /\ AuInit /\ SpInit /\ PaInit /\ ViInit
        BY Zenon DEF AbInit
    <2>5. PgInit
        BY NoWalkYet, Zenon DEF AbInit, NoWalk
    <2>2. RtInv /\ TfInv /\ ErInv /\ UnInv /\ PvInv /\ AaInv
        BY <2>1, RtStart, TfStart, ErStart, UnStart, PvStart, AaStart, Zenon
    <2>3. UpInv /\ RewroteTyped /\ AuInv /\ AuBounded
        BY <2>1, UpStart, RewroteStart, AuStart, AuBoundedStart, Zenon
    <2>4. SpInv /\ PaInv /\ ViInv /\ PgInv
        BY <2>1, <2>5, SpStart, PaStart, ViStart, PgStart, Zenon
    <2> QED
        BY <2>2, <2>3, <2>4, Zenon DEF AbInv
<1>2. AbInv /\ [AbNext]_abVars => AbInv'
    <2> SUFFICES ASSUME AbInv, [AbNext]_abVars PROVE AbInv'
        OBVIOUS
    <2>1. RtInv' /\ TfInv'
        BY EachMovesAlone, RtStep, TfStep DEF AbInv
    <2>2. ErInv' /\ UnInv'
        BY EachMovesAlone, ErStep, UnStep DEF AbInv
    <2>3. PvInv' /\ AaInv'
        BY EachMovesAlone, PvStep, AaStep DEF AbInv
    <2>4. UpInv' /\ AuInv'
        BY EachMovesAlone, UpStep, AuStep DEF AbInv
    <2>5. SpInv' /\ PaInv' /\ ViInv'
        BY EachMovesAlone, SpStep, PaStep, ViStep DEF AbInv
    <2>6. PgInv' /\ AuBounded' /\ RewroteTyped'
        BY EachMovesAlone, PgMove, AuBoundedStep, RewroteStep DEF AbInv
    <2> QED
        BY <2>1, <2>2, <2>3, <2>4, <2>5, <2>6 DEF AbInv
<1> QED
    BY <1>1, <1>2, PTL DEF AbSpec

\* CredentialsSound: what lets a user in is what it should be (lib/tokens.ts,
\* auth.2fa.ts, totp.ts, api-key-auth.ts, admin/users.ts), however the requests
\* overlap and whatever their number.
THEOREM CredentialsSoundAlways == AbSpec => []CredentialsSound
<1>1. AbInv => CredentialsSound
    BY TfOneBatch DEF AbInv, RtInv, TfInv, AaInv, CredentialsSound
<1> QED
    BY <1>1, AccountInvariance, PTL

\* NothingRevives: no token used or revoked works again, 2FA goes off only where
\* somebody asked for it, a used backup code is matched by nobody.
THEOREM NothingRevivesEver == AbSpec => NothingRevives
<1>1. AbInv /\ [AbNext]_abVars =>
          [\A t \in Signed : jtiKey[t] # "none" => jtiKey'[t] # "none"]_rtVars
    BY EachMovesAlone, RtDeadStays DEF AbInv
<1>2. AbInv /\ [AbNext]_abVars =>
          [secret.confirmed /\ ~secret'.confirmed =>
             \E r \in TfReqs :
               TfAt(r, "delete") \/ (TfAt(r, "upsert") /\ ~tfReq[r].saw.confirmed)]_tfVars
    BY EachMovesAlone, TfKept DEF AbInv
<1>3. AbInv /\ [AbNext]_abVars =>
          [\A r \in TfReqs : TfAt(r, "match") /\ tfReq'[r].at = "mark"
             => uses[tfReq'[r].code] = 0]_tfVars
    BY EachMovesAlone, TfNotMatched DEF AbInv
<1>4. AbSpec => DeadTokenStaysDead
    BY <1>1, AccountInvariance, PTL DEF AbSpec, DeadTokenStaysDead
<1>5. AbSpec => SecondFactorKept
    BY <1>2, AccountInvariance, PTL DEF AbSpec, SecondFactorKept
<1>6. AbSpec => UsedCodeNotMatched
    BY <1>3, AccountInvariance, PTL DEF AbSpec, UsedCodeNotMatched
<1> QED
    BY <1>4, <1>5, <1>6 DEF NothingRevives

\* OtpGuarded: Twilio is asked at most OtpLimit times in a window and once more
\* for every request but one that was under way together, and a counter that
\* locks has its end, or its setting failed (services/phone.ts).
THEOREM OtpGuardedAlways == AbSpec => []OtpGuarded
<1>1. AbInv => OtpGuarded
    BY PvGuarded DEF AbInv, OtpGuarded
<1> QED
    BY <1>1, AccountInvariance, PTL

\* ErasureFollowsRequests: nobody is anonymised whose requests were all cancelled
\* before the worker came to them, no request of an administrator is cancelled,
\* and a pending request has its job unless one of the named ways lost it
\* (gdpr-erasure.processor.ts, db/queries/gdpr.ts).
THEOREM ErasureFollowsRequestsAlways == AbSpec => []ErasureFollowsRequests
<1>1. AbInv => ErasureFollowsRequests
    BY ErFollows DEF AbInv, ErasureFollowsRequests
<1> QED
    BY <1>1, AccountInvariance, PTL

\* LinksAlive: a player is found under his name and behind the redirects of old
\* ones, the file a form refers to is stored and accepted, a file said to be
\* removed is gone, and the avatar of a row is stored (routes/users.ts,
\* upload-field.tsx, routes/upload.ts).
THEOREM LinksAliveAlways == AbSpec => []LinksAlive
<1>1. AbInv => LinksAlive
    BY DEF AbInv, UnInv, UpInv, FileInv, AvInv, CommittedStays, SavedFileServed, LinksAlive
<1> QED
    BY <1>1, AccountInvariance, PTL

\* ChallengesSound: however creations, duplications, regenerations, deletions and
\* deaths of handlers overlap, who can be played has its questions, who belongs
\* to a deleted brand is closed, and deposits reach their own challenge
\* (routes/brands.ts, queries/brands.ts, routes/challenges.ts).
THEOREM ChallengesSoundAlways == AbSpec => []ChallengesSound
<1>1. AbInv => ChallengesSound
    BY AuSound DEF AbInv
<1> QED
    BY <1>1, AccountInvariance, PTL

\* RegenerationNotOverwritten: no question that is there is replaced without
\* having been deleted by its id first (routes/brands.ts:854).
THEOREM RegenerationNotOverwrittenEver == AbSpec => RegenerationNotOverwritten
<1>1. AbInv /\ [AbNext]_abVars =>
          [\A c \in Chs, k \in RoundNos :
             quest[c][k] # 0 /\ quest'[c][k] # quest[c][k] => quest'[c][k] = 0]_auVars
    BY EachMovesAlone, AuNotOverwritten DEF AbInv
<1> QED
    BY <1>1, AccountInvariance, PTL DEF AbSpec, RegenerationNotOverwritten

\* PaymentsBounded: however requests, reruns, crashes and lost answers overlap,
\* no more refunds and bonuses are paid than there were requests and runs that
\* found nothing done, and the runs of a payout together spend no more than the
\* pool and leave less than a stroop for each winner, whatever the scores, the
\* pool and the fee (refund.ts, referral-bonus.processor.ts, services/payout.ts).
THEOREM PaymentsBoundedAlways == AbSpec => []PaymentsBounded
<1>1. AbInv => PaymentsBounded
    BY SpSound, PoolHeld DEF AbInv, PaymentsBounded
<1> QED
    BY <1>1, AccountInvariance, PTL

\* BrandViewsHonest: every board, profile, card and statistic shows what the rows
\* say, and the numbers of different views agree, for every number of users,
\* challenges and brands (leaderboard-refresh.queue.ts, challenge-ratings.ts,
\* db/queries/brands.ts).
THEOREM BrandViewsHonestAlways == AbSpec => []BrandViewsHonest
<1>1. AbInv => BrandViewsHonest
    BY ViHonest DEF AbInv, BrandViewsHonest
<1> QED
    BY <1>1, AccountInvariance, PTL

\* WalksComplete: a client that follows the cursors or page numbers of a list sees
\* every row that stays, and no row twice, but for what the cut of a time stamp to
\* milliseconds and the offset lists allow; whatever enters or leaves meanwhile, for
\* every table and every page size (db/pagination.ts, db/queries/sessions.ts,
\* routes/admin/audit-log.ts).
THEOREM WalksCompleteAlways == AbSpec => []WalksComplete
<1>1. AbInv => WalksComplete
    BY PgSound DEF AbInv, WalksComplete
<1> QED
    BY <1>1, AccountInvariance, PTL

\* AbTypeOK: rows, requests, tokens, files, payments, boards and walks stay well
\* formed, ids and counters within their bounds, and no walk by offset asks for a
\* page past the end of its table (routes/admin/audit-log.ts).
THEOREM AccountsTypeCorrect == AbSpec => []AbTypeOK
<1>1. AbInv => RtTypeOK /\ TfTypeOK /\ PvTypeOK /\ AaTypeOK /\ PaTypeOK
    BY DEF AbInv, RtInv, TfInv, PvInv, AaInv, PaInv, PaTyped
<1>2. AbInv => ErTypeOK /\ UnTypeOK /\ UpTypeOK /\ AuTypeOK
    BY ErTypes, UnTypes, UpTypes, AuTypes DEF AbInv
<1>3. AbInv => SpTypeOK /\ ViTypeOK /\ PgTypeOK
    BY SpSound, ViHonest, PgSound DEF AbInv
<1>4. AbInv => AbTypeOK
    BY <1>1, <1>2, <1>3 DEF AbTypeOK
<1> QED
    BY <1>4, AccountInvariance, PTL
===============================================================================
