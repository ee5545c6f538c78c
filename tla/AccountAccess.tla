---------------------------- MODULE AccountAccess ----------------------------
(***************************************************************************)
(* Who may act for one account: its personal API key                       *)
(* (middleware/api-key-auth.ts, routes/users.ts), the impersonation tokens *)
(* an administrator takes out and the suspensions an administrator decides *)
(* (routes/admin/users.ts), and the middleware that looks at them          *)
(* (authenticate.ts).  Every handler reads the row, writes it and writes    *)
(* the audit row in statements of their own.                               *)
(***************************************************************************)
EXTENDS Naturals, FiniteSets

CONSTANTS AaReqs,      \* requests under way at once
          MaxChanges,  \* bound on the suspensions and their reversals
          MaxPasses    \* bound on the impersonation tokens taken out

ASSUME AaAssumption == {MaxChanges, MaxPasses} \subseteq Nat /\ IsFiniteSet(AaReqs)

VARIABLES keyRow,     \* the api_keys row: "none", "live" or "revoked"
          keyCache,   \* Redis apikey:hash:<hash> holds the row
          passes,     \* impersonation tokens that work, by number
          taken,      \* tokens signed so far
          suspended,  \* users.status = 'suspended'
          audit,      \* audit_log rows, counted by action
          changes,    \* history: updates that changed or rewrote the status
          lost,       \* history: handlers that died before their audit row
          lateFill,   \* history: a cache fill that began before the revocation
          aaReq       \* requests: where each stands

aaVars == <<keyRow, keyCache, passes, taken, suspended, audit, changes, lost, lateFill, aaReq>>
keyVars == <<keyRow, keyCache, lateFill>>
passVars == <<passes, taken>>
statusVars == <<suspended, audit, changes, lost>>

AuditKinds == {"impersonation_start", "impersonation_end", "user_suspend", "user_unsuspend"}
AaIdle == [at |-> "idle", op |-> "none"]
AaAt(r, l) == aaReq[r].at = l
AaGo(r, rec) == aaReq' = [aaReq EXCEPT ![r] = rec]

AaInit ==
  /\ keyRow = "none" /\ keyCache = FALSE /\ lateFill = FALSE
  /\ passes = {} /\ taken = 0
  /\ suspended = FALSE
  /\ audit = [a \in AuditKinds |-> 0] /\ changes = audit /\ lost = audit
  /\ aaReq = [r \in AaReqs |-> AaIdle]

\* POST /users/me/api-keys.
CreateKey ==
  /\ keyRow = "none"
  /\ keyRow' = "live"
  /\ UNCHANGED <<keyCache, lateFill, aaReq>> /\ UNCHANGED passVars /\ UNCHANGED statusVars

\* authenticateApiKey on a cache miss: SELECT the unrevoked row ...
KeyLookup(r) ==
  /\ AaAt(r, "idle") /\ ~keyCache /\ keyRow = "live"
  /\ AaGo(r, [at |-> "fill", op |-> "key"])
  /\ UNCHANGED keyVars /\ UNCHANGED passVars /\ UNCHANGED statusVars

\* ... and cache it for 300 s, whatever happened to the row meanwhile.
KeyFill(r) ==
  /\ AaAt(r, "fill")
  /\ keyCache' = TRUE
  /\ lateFill' = (lateFill \/ keyRow = "revoked")
  /\ AaGo(r, AaIdle)
  /\ UNCHANGED keyRow /\ UNCHANGED passVars /\ UNCHANGED statusVars

\* Redis drops the cached row after its 300 s.
KeyExpire ==
  /\ keyCache
  /\ keyCache' = FALSE /\ lateFill' = FALSE
  /\ UNCHANGED <<keyRow, aaReq>> /\ UNCHANGED passVars /\ UNCHANGED statusVars

\* DELETE /users/me/api-keys/:id: the conditional UPDATE; 404 otherwise.
RevokeKey(r) ==
  /\ AaAt(r, "idle") /\ keyRow = "live"
  /\ keyRow' = "revoked"
  /\ AaGo(r, [at |-> "uncache", op |-> "key"])
  /\ UNCHANGED <<keyCache, lateFill>> /\ UNCHANGED passVars /\ UNCHANGED statusVars

\* ... then the cached row is deleted.
UncacheKey(r) ==
  /\ AaAt(r, "uncache")
  /\ keyCache' = FALSE /\ lateFill' = FALSE
  /\ AaGo(r, AaIdle)
  /\ UNCHANGED keyRow /\ UNCHANGED passVars /\ UNCHANGED statusVars

\* POST /admin/users/:userId/impersonate-token: the token is signed, the audit
\* row inserted, and only then is the token handed out.
Impersonate(r) ==
  /\ AaAt(r, "idle") /\ taken < MaxPasses
  /\ audit' = [audit EXCEPT !["impersonation_start"] = @ + 1]
  /\ taken' = taken + 1 /\ passes' = passes \cup {taken + 1}
  /\ UNCHANGED <<suspended, changes, lost, aaReq>> /\ UNCHANGED keyVars

\* authenticate lets a token through that is neither expired nor revoked; an
\* impersonated session may only read, and ask for impersonate-exit.
ExitStart(r, p) ==
  /\ AaAt(r, "idle") /\ p \in passes
  /\ AaGo(r, [at |-> "exit", op |-> p])
  /\ UNCHANGED keyVars /\ UNCHANGED passVars /\ UNCHANGED statusVars

\* POST /admin/users/impersonate-exit: the revocation key is set, then the
\* audit row inserted, also for a second exit with the same token.
ExitRevoke(r) ==
  /\ AaAt(r, "exit")
  /\ passes' = passes \ {aaReq[r].op}
  /\ AaGo(r, [at |-> "audit", op |-> "impersonation_end"])
  /\ changes' = [changes EXCEPT !["impersonation_end"] = @ + 1]
  /\ UNCHANGED <<taken, suspended, audit, lost>> /\ UNCHANGED keyVars

\* The token's 15 minutes are over.
PassExpires(p) ==
  /\ p \in passes
  /\ passes' = passes \ {p}
  /\ UNCHANGED <<taken, aaReq>> /\ UNCHANGED keyVars /\ UNCHANGED statusVars

\* PATCH suspend, PATCH unsuspend, DELETE suspend and each user of bulk-suspend
\* read the row and refuse what is done already.
Decide(r, op) ==
  /\ AaAt(r, "idle")
  /\ suspended = (op = "user_unsuspend")
  /\ AaGo(r, [at |-> "write", op |-> op])
  /\ UNCHANGED keyVars /\ UNCHANGED passVars /\ UNCHANGED statusVars

\* suspendUser, unsuspendUser: an UPDATE that does not look at the status.
SetStatus(r) ==
  /\ AaAt(r, "write")
  /\ changes[aaReq[r].op] < MaxChanges
  /\ suspended' = (aaReq[r].op = "user_suspend")
  /\ changes' = [changes EXCEPT ![aaReq[r].op] = @ + 1]
  /\ AaGo(r, [aaReq[r] EXCEPT !.at = "audit"])
  /\ UNCHANGED <<audit, lost>> /\ UNCHANGED keyVars /\ UNCHANGED passVars

\* The audit row of the change, in a statement of its own: the process may die
\* before it, or the insert fail.
WriteAudit(r) ==
  /\ AaAt(r, "audit")
  /\ \/ audit' = [audit EXCEPT ![aaReq[r].op] = @ + 1] /\ UNCHANGED lost
     \/ lost' = [lost EXCEPT ![aaReq[r].op] = @ + 1] /\ UNCHANGED audit
  /\ AaGo(r, AaIdle)
  /\ UNCHANGED <<suspended, changes>> /\ UNCHANGED keyVars /\ UNCHANGED passVars

AaNext ==
  \/ CreateKey \/ KeyExpire
  \/ \E p \in 1 .. MaxPasses : PassExpires(p)
  \/ \E r \in AaReqs :
       \/ KeyLookup(r) \/ KeyFill(r) \/ RevokeKey(r) \/ UncacheKey(r)
       \/ Impersonate(r) \/ SetStatus(r) \/ WriteAudit(r)
       \/ ExitRevoke(r) \/ \E p \in 1 .. MaxPasses : ExitStart(r, p)
       \/ \E op \in {"user_suspend", "user_unsuspend"} : Decide(r, op)

AaSpec == AaInit /\ [][AaNext]_aaVars
------------------------------------------------------------------------------
\* Rows, tokens and requests are well formed.
AaTypeOK ==
  /\ keyRow \in {"none", "live", "revoked"} /\ {keyCache, suspended, lateFill} \subseteq BOOLEAN
  /\ passes \subseteq 1 .. taken /\ taken <= MaxPasses
  /\ {audit, changes, lost} \subseteq [AuditKinds -> Nat]
  /\ \A r \in AaReqs : aaReq[r].at \in {"idle", "fill", "uncache", "write", "audit", "exit"}

\* A revoked key is let in only until its cached row is deleted, or for the
\* 300 s of a row that was read before the revocation and cached after it
\* (middleware/api-key-auth.ts:72, routes/users.ts:366).
RevokedKeyRefused ==
  keyRow = "revoked" /\ keyCache => lateFill \/ \E r \in AaReqs : AaAt(r, "uncache")

\* Every change of status, and every impersonation ended, is in the audit log,
\* or its handler is about to write it, or died before (admin/users.ts:148).
ChangesAudited ==
  \A a \in AuditKinds \ {"impersonation_start"} :
    changes[a] = audit[a] + lost[a] + Cardinality({r \in AaReqs : AaAt(r, "audit") /\ aaReq[r].op = a})

\* No impersonation token works that the audit log does not know of.
TokensAudited == taken <= audit["impersonation_start"]
=============================================================================
