---------------------------- MODULE RefreshTokens ----------------------------
(***************************************************************************)
(* Sign-in and refresh tokens of one account: the Google callback, the     *)
(* refresh and logout routes (routes/auth.ts) and the token registry kept  *)
(* in Redis (lib/tokens.ts).  A key jti:<id> says a token was used or      *)
(* revoked; the set user_refresh_jtis:<uid> lists the tokens issued since  *)
(* the last revocation.  revokeAllUserRefreshTokens reads that set in one  *)
(* command and rewrites it in another, so requests interleave with it.     *)
(* Key lifetimes (30 days, a token's own life) are not modelled.           *)
(***************************************************************************)
EXTENDS Naturals, FiniteSets

CONSTANTS RtReqs,       \* requests under way at once
          MaxTokens,    \* bound on the tokens ever signed
          PkceStates    \* OAuth states the API may hand out

ASSUME RtAssumption == MaxTokens \in Nat

VARIABLES jtiKey,     \* Redis jti:<id>: "none", "used" or "revoked", per signed token
          jtiSet,     \* Redis user_refresh_jtis:<uid>
          pkce,       \* Redis oauth:google:pkce:<state>, the states stored
          totpOn,     \* what hasTotpEnabled would answer
          rtReq,      \* the requests: where each stands and what it has read
          unlisted,   \* history: tokens registered while a revocation was half done
          unrotated   \* history: refreshes refused as revoked whose token was live

rtVars == <<jtiKey, jtiSet, pkce, totpOn, rtReq, unlisted, unrotated>>

\* Tokens are numbered in the order they are signed.
Signed == DOMAIN jtiKey
Live == {t \in Signed : jtiKey[t] = "none"}

\* "for" is what follows the revocation: a login goes on to issue, a reused
\* token and an erased account end there.
RtIdle == [at |-> "idle", for |-> "none", jtis |-> {}, token |-> 0, state |-> "none"]
RtAt(r, l) == rtReq[r].at = l
RtGo(r, rec) == rtReq' = [rtReq EXCEPT ![r] = rec]

RtInit ==
  /\ jtiKey = <<>> /\ jtiSet = {} /\ pkce = {} /\ unlisted = {} /\ unrotated = {}
  /\ totpOn \in BOOLEAN
  /\ rtReq = [r \in RtReqs |-> RtIdle]

\* signRefreshToken, then registerRefreshJti: the new token joins the set.
IssueToken ==
  /\ Cardinality(Signed) < MaxTokens
  /\ LET t == Cardinality(Signed) + 1 IN
       /\ jtiKey' = [u \in Signed \cup {t} |-> IF u = t THEN "none" ELSE jtiKey[u]]
       /\ jtiSet' = jtiSet \cup {t}
       /\ unlisted' = IF \E q \in RtReqs : RtAt(q, "pipeline")
                      THEN unlisted \cup {t} ELSE unlisted

\* GET /auth/google/authorize: a fresh state is stored with SET NX.
Authorize(s) ==
  /\ s \notin pkce
  /\ pkce' = pkce \cup {s}
  /\ UNCHANGED <<jtiKey, jtiSet, totpOn, rtReq, unlisted, unrotated>>

\* The PKCE entry runs out (GOOGLE_OAUTH_PKCE_TTL_SECONDS).
PkceExpire(s) ==
  /\ s \in pkce
  /\ pkce' = pkce \ {s}
  /\ UNCHANGED <<jtiKey, jtiSet, totpOn, rtReq, unlisted, unrotated>>

\* POST /auth/google/callback with an id token Google vouches for, or with a
\* code and a state whose entry is there (consumeCodeVerifier's GET).
CallbackStart(r) ==
  /\ RtAt(r, "idle")
  /\ \/ RtGo(r, [RtIdle EXCEPT !.at = "smembers", !.for = "login"])
     \/ \E s \in pkce : RtGo(r, [RtIdle EXCEPT !.at = "exchange", !.state = s])
  /\ UNCHANGED <<jtiKey, jtiSet, pkce, totpOn, unlisted, unrotated>>

\* The entry is deleted and the code exchanged; Google may refuse it.
CallbackExchange(r) ==
  /\ RtAt(r, "exchange")
  /\ pkce' = pkce \ {rtReq[r].state}
  /\ \/ RtGo(r, RtIdle)
     \/ RtGo(r, [RtIdle EXCEPT !.at = "smembers", !.for = "login"])
  /\ UNCHANGED <<jtiKey, jtiSet, totpOn, unlisted, unrotated>>

\* revokeAllUserRefreshTokens, first command: SMEMBERS.
RevokeRead(r) ==
  /\ RtAt(r, "smembers")
  /\ RtGo(r, [rtReq[r] EXCEPT !.jtis = jtiSet,
                !.at = IF jtiSet # {} THEN "pipeline"
                       ELSE IF rtReq[r].for = "login" THEN "issue" ELSE "idle"])
  /\ UNCHANGED <<jtiKey, jtiSet, pkce, totpOn, unlisted, unrotated>>

\* Fault: only the set is deleted, the tokens read from it are left alone.
RevokePipelineKeepsKeys(r) ==
  /\ RtAt(r, "pipeline")
  /\ jtiSet' = {}
  /\ RtGo(r, [rtReq[r] EXCEPT !.at = IF rtReq[r].for = "login" THEN "issue" ELSE "idle"])
  /\ UNCHANGED <<jtiKey, pkce, totpOn, unlisted, unrotated>>

\* Second command, a pipeline: every token read is "revoked", the set deleted.
RevokePipeline(r) ==
  /\ RtAt(r, "pipeline")
  /\ jtiKey' = [t \in Signed |-> IF t \in rtReq[r].jtis THEN "revoked" ELSE jtiKey[t]]
  /\ jtiSet' = {}
  /\ RtGo(r, [rtReq[r] EXCEPT !.at = IF rtReq[r].for = "login" THEN "issue" ELSE "idle"])
  /\ UNCHANGED <<pkce, totpOn, unlisted, unrotated>>

\* The rest of the callback: with 2FA on only a pending token is returned,
\* otherwise a token pair is signed and registered.
CallbackIssue(r) ==
  /\ RtAt(r, "issue")
  /\ RtGo(r, RtIdle)
  /\ IF totpOn THEN UNCHANGED <<jtiKey, jtiSet, unlisted>> ELSE IssueToken
  /\ UNCHANGED <<pkce, totpOn, unrotated>>

\* POST /auth/2fa/verify, once the code is accepted: a token pair, and no
\* revocation (the callback has done it).
VerifyIssue ==
  /\ totpOn
  /\ IssueToken
  /\ UNCHANGED <<pkce, totpOn, rtReq, unrotated>>

\* POST /auth/refresh, markJtiUsed: SET NX.  A key that is there already is a
\* reuse, and every token of the account is revoked.
RefreshMark(r, t) ==
  /\ RtAt(r, "idle")
  /\ IF jtiKey[t] # "none"
     THEN /\ RtGo(r, [RtIdle EXCEPT !.at = "smembers", !.for = "reuse"])
          /\ UNCHANGED jtiKey
     ELSE /\ RtGo(r, [RtIdle EXCEPT !.at = "isRevoked", !.token = t])
          /\ jtiKey' = [jtiKey EXCEPT ![t] = "used"]
  /\ UNCHANGED <<jtiSet, pkce, totpOn, unlisted, unrotated>>

\* isJtiRevoked reads the same key and takes any value in it for a revocation.
RefreshCheck(r) ==
  /\ RtAt(r, "isRevoked")
  /\ RtGo(r, RtIdle)
  /\ IF jtiKey[rtReq[r].token] # "none"
     THEN /\ unrotated' = IF jtiKey[rtReq[r].token] = "used"
                          THEN unrotated \cup {rtReq[r].token} ELSE unrotated
          /\ UNCHANGED <<jtiKey, jtiSet, unlisted>>
     ELSE IssueToken /\ UNCHANGED unrotated
  /\ UNCHANGED <<pkce, totpOn>>

\* POST /auth/logout: SET NX, whatever its answer.
Logout(t) ==
  /\ t \in Live
  /\ jtiKey' = [jtiKey EXCEPT ![t] = "used"]
  /\ UNCHANGED <<jtiSet, pkce, totpOn, rtReq, unlisted, unrotated>>

\* The erasure worker revokes the account's tokens after anonymizeUser.
EraseRevoke(r) ==
  /\ RtAt(r, "idle")
  /\ RtGo(r, [RtIdle EXCEPT !.at = "smembers", !.for = "erasure"])
  /\ UNCHANGED <<jtiKey, jtiSet, pkce, totpOn, unlisted, unrotated>>

RtNext ==
  \/ \E s \in PkceStates : Authorize(s) \/ PkceExpire(s)
  \/ \E r \in RtReqs :
       \/ CallbackStart(r) \/ CallbackExchange(r) \/ CallbackIssue(r)
       \/ RevokeRead(r) \/ RevokePipeline(r)
       \/ RefreshCheck(r) \/ EraseRevoke(r)
       \/ \E t \in Signed : RefreshMark(r, t)
  \/ VerifyIssue
  \/ \E t \in Signed : Logout(t)

RtSpec == RtInit /\ [][RtNext]_rtVars
------------------------------------------------------------------------------
\* The registry and the requests are well formed.
RtTypeOK ==
  /\ Signed = 1 .. Cardinality(Signed)
  /\ \A t \in Signed : jtiKey[t] \in {"none", "used", "revoked"}
  /\ jtiSet \subseteq Signed /\ pkce \subseteq PkceStates /\ totpOn \in BOOLEAN
  /\ \A r \in RtReqs :
       /\ rtReq[r].at \in {"idle", "exchange", "smembers", "pipeline", "issue", "isRevoked"}
       /\ rtReq[r].jtis \subseteq Signed

\* A live token is one the next revocation will find: it is listed in the
\* account's set, or a revocation under way has read it, unless it was
\* registered between that revocation's SMEMBERS and its DEL (lib/tokens.ts:116).
LiveTokenRevocable ==
  \A t \in Live :
    \/ t \in jtiSet
    \/ t \in unlisted
    \/ \E r \in RtReqs : RtAt(r, "pipeline") /\ t \in rtReq[r].jtis

\* Session fixation prevention: when a login comes to issue its tokens, every
\* token its revocation read is dead (routes/auth.ts:82).
LoginKillsOldTokens ==
  \A r \in RtReqs : RtAt(r, "issue") => rtReq[r].jtis \cap Live = {}

\* A token that was used or revoked never works again, whichever order the
\* refresh, logout and revocation commands land in.
DeadTokenStaysDead == [][\A t \in Signed : jtiKey[t] # "none" => jtiKey'[t] # "none"]_rtVars

\* What the route's comment says of POST /auth/refresh: it "rotates tokens,
\* detects reuse" (routes/auth.ts:123), so a refusal as revoked is for a token
\* that somebody had revoked.
RefreshRotates == unrotated = {}
=============================================================================
