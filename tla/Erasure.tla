------------------------------- MODULE Erasure -------------------------------
(***************************************************************************)
(* The right to erasure of one account: POST and DELETE /me/delete-account *)
(* (routes/me/delete-account.ts), POST /admin/users/:id/erase              *)
(* (routes/admin/users.ts), the table gdpr_erasure_requests                *)
(* (db/queries/gdpr.ts) and the gdpr-erasure queue and worker.  Both       *)
(* routes look for a pending row, insert one, then add a delayed job whose *)
(* id is the account's: a queue that still holds a job of that id, in any  *)
(* state, ignores the add.  The 30 days are any time: the job may start in *)
(* every state.                                                            *)
(***************************************************************************)
EXTENDS Naturals, Sequences, FiniteSets

CONSTANTS ErReqs,       \* requests under way at once
          MaxErasures,  \* bound on the rows
          MaxAttempts   \* gdprErasureJobOptions.attempts

ASSUME ErAssumption == MaxErasures \in Nat /\ MaxAttempts \in Nat \ {0}

VARIABLES rows,      \* gdpr_erasure_requests by created_at: [admin, cancelled, executed]
          job,       \* the job gdpr:<userId>: [state, row, attempts]
          worker,    \* the processor: [at, row]
          erased,    \* anonymizeUser has committed
          erReq,     \* the requests: [at, admin, row]
          causes     \* history: what went wrong that can leave a row without a job

erVars == <<rows, job, worker, erased, erReq, causes>>

NoJob == [state |-> "none", row |-> 0, attempts |-> 0]
ErIdle == [at |-> "idle", admin |-> FALSE, row |-> 0]
ErAt(r, l) == erReq[r].at = l
ErGo(r, rec) == erReq' = [erReq EXCEPT ![r] = rec]

\* findPendingErasureRequest: the newest row neither cancelled nor executed, 0 if none.
Pending == {i \in 1 .. Len(rows) : ~rows[i].cancelled /\ ~rows[i].executed}
LatestPending == IF Pending = {} THEN 0 ELSE CHOOSE i \in Pending : \A j \in Pending : j <= i

ErInit ==
  /\ rows = <<>> /\ job = NoJob /\ worker = [at |-> "idle", row |-> 0] /\ erased = FALSE
  /\ erReq = [r \in ErReqs |-> ErIdle]
  /\ causes = {}

\* POST /me/delete-account and POST /admin/users/:id/erase: 409 when a request
\* is pending, of whichever kind.
AskErasure(r, admin) ==
  /\ ErAt(r, "idle")
  /\ LatestPending = 0
  /\ ErGo(r, [ErIdle EXCEPT !.at = "insert", !.admin = admin])
  /\ UNCHANGED <<rows, job, worker, erased, causes>>

\* createErasureRequest.
InsertErasure(r) ==
  /\ ErAt(r, "insert") /\ Len(rows) < MaxErasures
  /\ rows' = Append(rows, [admin |-> erReq[r].admin, cancelled |-> FALSE, executed |-> FALSE])
  /\ causes' = causes \cup (IF Pending # {} THEN {"crossed"} ELSE {})
  /\ ErGo(r, [erReq[r] EXCEPT !.at = "enqueue", !.row = Len(rows) + 1])
  /\ UNCHANGED <<job, worker, erased>>

\* enqueueGdprErasure: Queue.add with the account's job id.
EnqueueErasure(r) ==
  /\ ErAt(r, "enqueue")
  /\ IF job.state = "none"
     THEN job' = [state |-> "delayed", row |-> erReq[r].row, attempts |-> 0] /\ UNCHANGED causes
     ELSE UNCHANGED job /\ causes' = causes \cup {"ignored"}
  /\ ErGo(r, ErIdle)
  /\ UNCHANGED <<rows, worker, erased>>

\* The API goes down between the row and the job.
AskCrash(r) ==
  /\ ErAt(r, "enqueue")
  /\ causes' = causes \cup {"crash"}
  /\ ErGo(r, ErIdle)
  /\ UNCHANGED <<rows, job, worker, erased>>

\* DELETE /me/delete-account: 404 without a pending row of the user's own.
CancelErasure(r) ==
  /\ ErAt(r, "idle")
  /\ \E i \in Pending : ~rows[i].admin
  /\ ErGo(r, [ErIdle EXCEPT !.at = "cancel"])
  /\ UNCHANGED <<rows, job, worker, erased, causes>>

\* cancelErasureRequest: the user's own pending rows.
CancelRows(r) ==
  /\ ErAt(r, "cancel")
  /\ rows' = [i \in DOMAIN rows |->
                IF i \in Pending /\ ~rows[i].admin THEN [rows[i] EXCEPT !.cancelled = TRUE]
                ELSE rows[i]]
  /\ causes' = causes \cup (IF worker.at # "idle" \/ erased THEN {"late cancel"} ELSE {})
  /\ ErGo(r, [ErIdle EXCEPT !.at = "remove"])
  /\ UNCHANGED <<job, worker, erased>>

\* cancelGdprErasure: the account's job is removed, whichever request it is
\* for; a job that is active is locked and the call throws.
RemoveJob(r) ==
  /\ ErAt(r, "remove")
  /\ job' = IF job.state = "active" THEN job ELSE NoJob
  /\ causes' = causes \cup (IF job.row \in Pending THEN {"other's job"} ELSE {})
  /\ ErGo(r, ErIdle)
  /\ UNCHANGED <<rows, worker, erased>>

\* The worker takes the job up once its delay has passed.
WorkerStart ==
  /\ job.state = "delayed" /\ worker.at = "idle"
  /\ job' = [job EXCEPT !.state = "active", !.attempts = @ + 1]
  /\ worker' = [at |-> "find", row |-> job.row]
  /\ UNCHANGED <<rows, erased, erReq, causes>>

\* Fault: the processor does not look the request up again.
WorkerTrusts ==
  /\ worker.at = "find"
  /\ worker' = [worker EXCEPT !.at = "anonymize"]
  /\ UNCHANGED <<rows, job, erased, erReq, causes>>

\* processGdprErasureJob looks for the newest pending request: none, or another
\* one than its own, and the job is complete.
WorkerFind ==
  /\ worker.at = "find"
  /\ IF LatestPending = worker.row
     THEN worker' = [worker EXCEPT !.at = "anonymize"] /\ UNCHANGED job
     ELSE worker' = [at |-> "idle", row |-> 0] /\ job' = [job EXCEPT !.state = "done"]
  /\ UNCHANGED <<rows, erased, erReq, causes>>

\* anonymizeUser: one transaction.
WorkerAnonymize ==
  /\ worker.at = "anonymize"
  /\ erased' = TRUE
  /\ worker' = [worker EXCEPT !.at = "mark"]
  /\ UNCHANGED <<rows, job, erReq, causes>>

\* revokeAllUserRefreshTokens, then markErasureExecuted by id.
WorkerMark ==
  /\ worker.at = "mark"
  /\ rows' = [rows EXCEPT ![worker.row].executed = TRUE]
  /\ worker' = [at |-> "idle", row |-> 0]
  /\ job' = [job EXCEPT !.state = "done"]
  /\ UNCHANGED <<erased, erReq, causes>>

\* A statement throws or the worker dies: the job is delayed again until its
\* attempts are spent, then kept as failed.
WorkerFail ==
  /\ worker.at # "idle"
  /\ worker' = [at |-> "idle", row |-> 0]
  /\ IF job.attempts < MaxAttempts
     THEN job' = [job EXCEPT !.state = "delayed"] /\ UNCHANGED causes
     ELSE job' = [job EXCEPT !.state = "failed"] /\ causes' = causes \cup {"attempts"}
  /\ UNCHANGED <<rows, erased, erReq>>

ErNext ==
  \/ \E r \in ErReqs :
       \/ \E admin \in BOOLEAN : AskErasure(r, admin)
       \/ InsertErasure(r) \/ EnqueueErasure(r) \/ AskCrash(r)
       \/ CancelErasure(r) \/ CancelRows(r) \/ RemoveJob(r)
  \/ WorkerStart \/ WorkerFind \/ WorkerAnonymize \/ WorkerMark \/ WorkerFail

ErSpec == ErInit /\ [][ErNext]_erVars
------------------------------------------------------------------------------
\* Rows, job and worker are well formed, and the worker's job is the active one.
ErTypeOK ==
  /\ Len(rows) <= MaxErasures
  /\ job.state \in {"none", "delayed", "active", "done", "failed"}
  /\ job.row \in 0 .. Len(rows) /\ job.attempts \in 0 .. MaxAttempts
  /\ (worker.at # "idle") = (job.state = "active")
  /\ worker.row \in 0 .. Len(rows)

\* The routes leave nothing behind: a request that is still pending has a job
\* to come that will find it the newest, or it is one of the ways this code
\* has of losing one - two requests that crossed, an add ignored because a job
\* of the account was still kept, a crash before the add, a cancellation that
\* met the worker or took another request's job, the attempts all spent.
PendingHasJob ==
  Pending # {} /\ (\A r \in ErReqs : ErAt(r, "idle") \/ ErAt(r, "insert"))
    => (job.state \in {"delayed", "active"} /\ job.row \in Pending) \/ causes # {}

\* Nobody is anonymised against their will: if the account is erased and
\* every request for it is cancelled, the cancellation came while the worker
\* was at it, or before the retry of a run that failed after anonymizeUser
\* (gdpr-erasure.processor.ts:37).
ErasedWasAsked ==
  erased => \/ \E i \in DOMAIN rows : ~rows[i].cancelled
            \/ "late cancel" \in causes

\* A request of the administrator's is never cancelled by the user
\* (db/queries/gdpr.ts:67), and a cancelled row is not run again.
AdminRequestsStand == \A i \in DOMAIN rows : rows[i].admin => ~rows[i].cancelled
=============================================================================
