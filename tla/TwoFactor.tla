------------------------------ MODULE TwoFactor ------------------------------
(***************************************************************************)
(* TOTP two-factor authentication of one account: the routes of            *)
(* routes/auth.2fa.ts over db/queries/totp.ts.  Each request reads the     *)
(* secret's row or the backup codes in one statement and writes in a later *)
(* one, with no transaction and no condition on what it read, so two       *)
(* requests of the same account interleave between any two statements.     *)
(* Whether the code a request carries is right (an RFC 6238 code of the    *)
(* secret it read, a backup code it knows) is the request's own choice.    *)
(***************************************************************************)
EXTENDS Naturals, FiniteSets

CONSTANTS TfReqs,      \* requests under way at once
          MaxSecrets,  \* bound on the enrolments
          MaxBatches,  \* bound on the batches of backup codes
          BatchSize    \* codes in a batch (BACKUP_CODE_COUNT)

ASSUME TfAssumption == {MaxSecrets, MaxBatches} \subseteq Nat /\ BatchSize \in Nat \ {0}

VARIABLES secret,     \* user_totp_secrets: [key, confirmed], key 0 when there is no row
          secrets,    \* secrets generated so far
          codes,      \* user_totp_backup_codes: code -> used, a function on the rows
          batches,    \* batches of codes generated so far
          tfReq,      \* the requests
          proven,     \* history: secrets a right TOTP code was shown for
          crossed,    \* history: an enrolment stored a secret between a
                      \*   confirmation's look at the row and its update
          mixed,      \* history: two generations of codes overlapped
          uses        \* history: how often each code was accepted

tfVars == <<secret, secrets, codes, batches, tfReq, proven, crossed, mixed, uses>>

NoRow == [key |-> 0, confirmed |-> FALSE]
Codes == (1 .. MaxBatches) \X (1 .. BatchSize)
Unused == {c \in DOMAIN codes : ~codes[c]}
TfIdle == [at |-> "idle", op |-> "none", saw |-> NoRow, code |-> <<0, 0>>, batch |-> 0, n |-> 0]
TfAt(r, l) == tfReq[r].at = l
TfGo(r, rec) == tfReq' = [tfReq EXCEPT ![r] = rec]

TfInit ==
  /\ secret = NoRow /\ secrets = 0 /\ codes = <<>> /\ batches = 0
  /\ tfReq = [r \in TfReqs |-> TfIdle]
  /\ proven = {} /\ crossed = FALSE /\ mixed = FALSE
  /\ uses = [c \in Codes |-> 0]

\* POST /auth/2fa/enroll: refused (409) when a confirmed row is there.
Enroll(r) ==
  /\ TfAt(r, "idle") /\ secrets < MaxSecrets
  /\ ~secret.confirmed
  /\ TfGo(r, [TfIdle EXCEPT !.at = "upsert", !.op = "enroll", !.saw = secret])
  /\ UNCHANGED <<secret, secrets, codes, batches, proven, crossed, mixed, uses>>

\* upsertTotpSecret: a new secret, unconfirmed, over whatever row is there.
EnrollUpsert(r) ==
  /\ TfAt(r, "upsert") /\ secrets < MaxSecrets
  /\ secrets' = secrets + 1
  /\ secret' = [key |-> secrets + 1, confirmed |-> FALSE]
  /\ crossed' = (crossed \/ \E q \in TfReqs : TfAt(q, "confirm"))
  /\ TfGo(r, TfIdle)
  /\ UNCHANGED <<codes, batches, proven, mixed, uses>>

\* POST /auth/2fa/confirm: an unconfirmed row, and a right code of its secret.
Confirm(r) ==
  /\ TfAt(r, "idle") /\ batches < MaxBatches
  /\ secret.key # 0 /\ ~secret.confirmed
  /\ proven' = proven \cup {secret.key}
  /\ TfGo(r, [TfIdle EXCEPT !.at = "confirm", !.op = "confirm", !.saw = secret])
  /\ UNCHANGED <<secret, secrets, codes, batches, crossed, mixed, uses>>

\* confirmTotpEnrollment: UPDATE ... WHERE user_id, whatever secret is there now.
ConfirmUpdate(r) ==
  /\ TfAt(r, "confirm")
  /\ secret' = IF secret.key = 0 THEN secret ELSE [key |-> secret.key, confirmed |-> TRUE]
  /\ TfGo(r, [tfReq[r] EXCEPT !.at = "clear"])
  /\ UNCHANGED <<secrets, codes, batches, proven, crossed, mixed, uses>>

\* POST /auth/2fa/regenerate-backup-codes, with a right TOTP code.
Regenerate(r) ==
  /\ TfAt(r, "idle") /\ batches < MaxBatches
  /\ secret.confirmed
  /\ proven' = proven \cup {secret.key}
  /\ TfGo(r, [TfIdle EXCEPT !.at = "clear", !.op = "regenerate", !.saw = secret])
  /\ UNCHANGED <<secret, secrets, codes, batches, crossed, mixed, uses>>

\* generateAndStoreBackupCodes: delete the account's rows ...
ClearCodes(r) ==
  /\ TfAt(r, "clear") /\ batches < MaxBatches
  /\ codes' = <<>>
  /\ batches' = batches + 1
  /\ mixed' = (mixed \/ \E q \in TfReqs : TfAt(q, "insert"))
  /\ TfGo(r, [tfReq[r] EXCEPT !.at = "insert", !.batch = batches + 1, !.n = 1])
  /\ UNCHANGED <<secret, secrets, proven, crossed, uses>>

\* ... then insert the new ones, one statement each.
InsertCode(r) ==
  /\ TfAt(r, "insert")
  /\ LET c == <<tfReq[r].batch, tfReq[r].n>> IN
       codes' = [d \in DOMAIN codes \cup {c} |-> d # c /\ codes[d]]
  /\ TfGo(r, IF tfReq[r].n = BatchSize THEN TfIdle
             ELSE [tfReq[r] EXCEPT !.n = @ + 1])
  /\ UNCHANGED <<secret, secrets, batches, proven, crossed, mixed, uses>>

\* POST /auth/2fa/verify and DELETE /auth/2fa/disenroll read the row and refuse
\* unless it is confirmed; a right TOTP code settles it, otherwise the unused
\* codes are read and one of them has to match.
CheckCode(r, op) ==
  /\ TfAt(r, "idle")
  /\ secret.confirmed
  /\ \/ /\ proven' = proven \cup {secret.key}
        /\ TfGo(r, IF op = "verify" THEN TfIdle
                   ELSE [TfIdle EXCEPT !.at = "delete", !.op = op, !.saw = secret])
     \/ TfGo(r, [TfIdle EXCEPT !.at = "match", !.op = op, !.saw = secret]) /\ UNCHANGED proven
  /\ UNCHANGED <<secret, secrets, codes, batches, crossed, mixed, uses>>

\* Fault: the SELECT does not ask for used = FALSE.
MatchAnyCode(r) ==
  /\ TfAt(r, "match")
  /\ \/ TfGo(r, TfIdle)
     \/ \E c \in DOMAIN codes : TfGo(r, [tfReq[r] EXCEPT !.at = "mark", !.code = c])
  /\ UNCHANGED <<secret, secrets, codes, batches, proven, crossed, mixed, uses>>

\* consumeBackupCode: SELECT the unused rows, bcrypt.compare each of them.
MatchCode(r) ==
  /\ TfAt(r, "match")
  /\ \/ TfGo(r, TfIdle)
     \/ \E c \in Unused : TfGo(r, [tfReq[r] EXCEPT !.at = "mark", !.code = c])
  /\ UNCHANGED <<secret, secrets, codes, batches, proven, crossed, mixed, uses>>

\* ... and UPDATE used = TRUE by id, with no condition: the code is accepted.
MarkCode(r) ==
  LET c == tfReq[r].code IN
  /\ TfAt(r, "mark")
  /\ codes' = [d \in DOMAIN codes |-> d = c \/ codes[d]]
  /\ uses' = [uses EXCEPT ![c] = @ + 1]
  /\ TfGo(r, IF tfReq[r].op = "verify" THEN TfIdle ELSE [tfReq[r] EXCEPT !.at = "delete"])
  /\ UNCHANGED <<secret, secrets, batches, proven, crossed, mixed>>

\* deleteTotpSecret: the row goes; the backup codes' key is users(id), not it.
DisenrollDelete(r) ==
  /\ TfAt(r, "delete")
  /\ secret' = NoRow
  /\ TfGo(r, TfIdle)
  /\ UNCHANGED <<secrets, codes, batches, proven, crossed, mixed, uses>>

TfNext ==
  \E r \in TfReqs :
    \/ Enroll(r) \/ EnrollUpsert(r) \/ Confirm(r) \/ ConfirmUpdate(r)
    \/ Regenerate(r) \/ ClearCodes(r) \/ InsertCode(r)
    \/ \E op \in {"verify", "disenroll"} : CheckCode(r, op)
    \/ MatchCode(r) \/ MarkCode(r) \/ DisenrollDelete(r)

TfSpec == TfInit /\ [][TfNext]_tfVars
------------------------------------------------------------------------------
\* The rows and the requests are well formed.
TfTypeOK ==
  /\ secret \in [key : 0 .. MaxSecrets, confirmed : BOOLEAN]
  /\ DOMAIN codes \subseteq Codes /\ \A c \in DOMAIN codes : codes[c] \in BOOLEAN
  /\ \A r \in TfReqs : tfReq[r].at \in
       {"idle", "upsert", "confirm", "clear", "insert", "match", "mark", "delete"}

\* 2FA is only ever switched on for a secret the user has shown a code of,
\* unless a second enrolment replaced the secret while it was being confirmed
\* (routes/auth.2fa.ts:161).
ConfirmedWasProven == secret.confirmed => secret.key \in proven \/ crossed

\* 2FA that is on goes off only by a disenrolment, or by an enrolment that
\* looked before it was on (routes/auth.2fa.ts:122).
SecondFactorKept ==
  [][secret.confirmed /\ ~secret'.confirmed =>
       \E r \in TfReqs : TfAt(r, "delete") \/ (TfAt(r, "upsert") /\ ~tfReq[r].saw.confirmed)]_tfVars

\* A code is accepted again only by a request that had matched it while it was
\* unused: from the update on no further request can match it (totp.ts:218).
UsedCodeNotMatched ==
  [][\A r \in TfReqs : TfAt(r, "match") /\ tfReq'[r].at = "mark" => uses[tfReq'[r].code] = 0]_tfVars

\* The codes in the table are those of one batch, so none of a replaced batch
\* still works, unless two generations overlapped (totp.ts:183).
OneBatch ==
  mixed \/ (\E b \in 0 .. MaxBatches : \A c \in DOMAIN codes : c[1] = b)
=============================================================================
