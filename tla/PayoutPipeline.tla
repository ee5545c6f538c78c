---------------------------- MODULE PayoutPipeline ----------------------------
(***************************************************************************)
(* The payout of one challenge: the routes that ask for it, the BullMQ job *)
(* and the daily batch run that execute processPayout, the dead-letter     *)
(* queue, and the rows of the payouts table.  Every await of a run is a    *)
(* step, so that runs, admins and failures interleave.                     *)
(*                                                                         *)
(* submitBatchPayout and EscrowClient.settle appear here by their outcomes *)
(* (modules BatchPayout and EscrowContract have their insides): which      *)
(* winners were paid and which of them the caller was told about.          *)
(***************************************************************************)
EXTENDS Integers, Sequences, FiniteSets, SequencesExt

CONSTANTS Rank,          \* payoutAllocations: the winners in order
          Addresses,     \* Stellar addresses (users.stellar_address)
          Plans,         \* the plans to consider, see Plan
          Workers,       \* slots of the payout worker
          MaxAttempts,   \* payoutJobOptions.attempts
          MaxStalls,     \* BullMQ's maxStalledCount
          MaxFaults,     \* bound: failures, crashes and lock overruns
          MaxRetries,    \* bound: winners whose payout an admin retries
          MaxOps         \* bound: settle requests and batch runs

Winners == Range(Rank)
Plan == [batched : BOOLEAN, escrow : BOOLEAN,
         address : [Winners -> Addresses], blocked : SUBSET Winners]

ASSUME PipelineAssumption ==
    /\ Rank \in Seq(Winners) /\ IsInjective(Rank)
    /\ Plans \subseteq Plan
    /\ Workers # {}
    /\ MaxAttempts \in Nat \ {0}
    /\ {MaxStalls, MaxFaults, MaxRetries, MaxOps} \subseteq Nat

VARIABLES plan,          \* what is fixed before the payout: payout_schedule,
                         \* SOROBAN_CONTRACT_ID set, addresses, fraud blocks
          status,        \* challenges.status
          row,           \* payouts.status of each winner, or none
          paid,          \* payments each winner got (Stellar ledger)
          onChain,       \* the escrow contract has settled
          job,           \* BullMQ job payout:<challengeId>
          dlq,           \* its way to the dead-letter queue
          lock,          \* lock:payout:batch-daily is set
          run,           \* processPayout in each worker slot
          retry,         \* POST /admin/payouts/:id/retry, per row
          lost,          \* history: winners whose payment a run did not record,
                         \* or whom two runs worked on at once
          overrun,       \* history: a lock went while its run went on
          faults, ops

vars == <<plan, status, row, paid, onChain, job, dlq, lock, run, retry, lost,
          overrun, faults, ops>>

JobState == {"absent", "waiting", "active", "completed", "failed"}
Job == [state : JobState, attempts : 0 .. MaxAttempts,
        stalls : 0 .. MaxStalls, by : Workers]
Absent == [state |-> "absent", attempts |-> 0, stalls |-> 0,
           by |-> CHOOSE w \in Workers : TRUE]
Idle == [at |-> "idle"]
Labels == {"list", "check", "create", "settle", "note", "submit", "record",
           "end", "unlock"}
\* next: the loop index; ok: recipients of successful results; mine, noted
\* (history): winners this run has paid, rows it has set to sent.
Run == [at : Labels, batch : BOOLEAN, next : 1 .. Len(Rank) + 1,
        recs : SUBSET Winners, ok : SUBSET Winners,
        mine : SUBSET Winners, noted : SUBSET Winners]

At(w) == run[w].at
PastCheck == {"create", "settle", "note", "submit", "record"}
Goto(w, label) == run' = [run EXCEPT ![w].at = label]
Begin(w, label, b) ==
    run' = [run EXCEPT ![w] = [at |-> label, batch |-> b, next |-> 1,
                               recs |-> {}, ok |-> {}, mine |-> {}, noted |-> {}]]
Fault == faults < MaxFaults /\ faults' = faults + 1

Init ==
    /\ plan \in Plans
    /\ status = "active"
    /\ row = [u \in Winners |-> "none"]
    /\ paid = [u \in Winners |-> 0]
    /\ onChain = FALSE
    /\ job = Absent
    /\ dlq = "none"
    /\ lock = FALSE
    /\ run = [w \in Workers |-> Idle]
    /\ retry = [u \in Winners |-> "no"]
    /\ lost = {}
    /\ overrun = FALSE
    /\ faults = 0
    /\ ops = 0

rows == <<row, paid, onChain>>
queue == <<job, dlq>>
history == <<lost, overrun>>
bounds == <<faults, ops>>

-------------------------------------------------------------------------------
(* Requests *)

\* External: nothing under src/ writes 'ended'.
End ==
    /\ status = "active"
    /\ status' = "ended"
    /\ UNCHANGED <<plan, rows, queue, lock, run, retry, history, bounds>>

\* Queue.add with the id of a job that Redis still holds, whatever its state,
\* adds nothing.
Enqueue ==
    job' = IF job.state = "absent" THEN [Absent EXCEPT !.state = "waiting"] ELSE job

\* POST /admin/challenges/:id/settle and enqueuePayout, which adds no job for a
\* batched challenge
AdminSettle ==
    /\ ops < MaxOps
    /\ status # "settled"
    /\ ~plan.batched
    /\ Enqueue
    /\ ops' = ops + 1
    /\ UNCHANGED <<plan, status, rows, dlq, lock, run, retry, history, faults>>

\* POST /admin/payouts/:id/retry: SELECT, UPDATE in a transaction, enqueue.
\* Bound: MaxRetries requests
RetryRead(u) ==
    /\ retry[u] = "no"
    /\ Cardinality({v \in Winners : retry[v] # "no"}) < MaxRetries
    /\ row[u] = "failed"
    /\ retry' = [retry EXCEPT ![u] = "read"]
    /\ UNCHANGED <<plan, status, rows, queue, lock, run, history, bounds>>

RetryWrite(u) ==
    /\ retry[u] = "read"
    /\ row' = [row EXCEPT ![u] = "pending"]
    /\ lost' = IF row[u] = "sent" THEN lost \cup {u} ELSE lost
    /\ retry' = [retry EXCEPT ![u] = "written"]
    /\ UNCHANGED <<plan, status, paid, onChain, queue, lock, run, overrun, bounds>>

RetryEnqueue(u) ==
    /\ retry[u] = "written"
    /\ Enqueue
    /\ retry' = [retry EXCEPT ![u] = "done"]
    /\ UNCHANGED <<plan, status, rows, dlq, lock, run, history, bounds>>

-------------------------------------------------------------------------------
(* A run starts *)

StartJob(w) ==
    /\ run[w] = Idle
    /\ job.state = "waiting"
    /\ job' = [job EXCEPT !.state = "active", !.by = w]
    /\ Begin(w, "check", FALSE)
    /\ UNCHANGED <<plan, status, rows, dlq, lock, retry, history, bounds>>

\* Fault: the lock is set but not asked for.
StartBatchAnyway(w) ==
    /\ run[w] = Idle
    /\ plan.batched
    /\ ops < MaxOps
    /\ lock' = TRUE
    /\ ops' = ops + 1
    /\ Begin(w, "list", TRUE)
    /\ UNCHANGED <<plan, status, rows, queue, retry, history, faults>>

\* SET lock NX EX 1800; a run that does not get the lock returns at once.  For
\* an instant challenge a batch run does nothing but hold the lock.
StartBatch(w) ==
    /\ run[w] = Idle
    /\ plan.batched
    /\ ops < MaxOps
    /\ ~lock
    /\ lock' = TRUE
    /\ ops' = ops + 1
    /\ Begin(w, "list", TRUE)
    /\ UNCHANGED <<plan, status, rows, queue, retry, history, faults>>

\* getEndedBatchedChallenges
List(w) ==
    /\ At(w) = "list"
    /\ Goto(w, IF status = "ended" THEN "check" ELSE "unlock")
    /\ UNCHANGED <<plan, status, rows, queue, lock, retry, history, bounds>>

\* Two runs past the check at once: both may pay anybody.
Check(w) ==
    /\ At(w) = "check"
    /\ Goto(w, IF status = "ended" THEN "create" ELSE "end")
    /\ lost' = IF status = "ended" /\ \E v \in Workers \ {w} : At(v) \in PastCheck
               THEN Winners ELSE lost
    /\ UNCHANGED <<plan, status, rows, queue, lock, retry, overrun, bounds>>

\* Fault: ON CONFLICT DO UPDATE SET status = 'pending'
UpsertPending(u) == row' = [row EXCEPT ![u] = "pending"]

\* createPayout: a failed row becomes pending again, a sent one stays.
Upsert(u) ==
    row' = [row EXCEPT ![u] = IF @ \in {"none", "failed"} THEN "pending" ELSE @]

\* createPayout for one winner.  The fraud trigger refuses a blocked one.
Create(w) ==
    /\ At(w) = "create"
    /\ run[w].next <= Len(Rank)
    /\ LET u == Rank[run[w].next] IN
       /\ IF u \in plan.blocked THEN UNCHANGED row ELSE Upsert(u)
       /\ run' = [run EXCEPT ![w].next = @ + 1,
                             ![w].recs = IF u \in plan.blocked \/ row'[u] = "sent"
                                         THEN @ ELSE @ \cup {u}]
    /\ UNCHANGED <<plan, status, paid, onChain, queue, lock, retry, history, bounds>>

\* After the loop: nobody left to pay, or the choice of the way to pay.
Created(w) ==
    /\ At(w) = "create"
    /\ run[w].next > Len(Rank)
    /\ \/ /\ run[w].recs = {}
          /\ status' = "settled"
          /\ Goto(w, "end")
       \/ /\ run[w].recs # {}
          /\ Goto(w, IF plan.escrow THEN "settle" ELSE "submit")
          /\ UNCHANGED status
    /\ UNCHANGED <<plan, rows, queue, lock, retry, history, bounds>>

-------------------------------------------------------------------------------
(* Payment *)

Pay(w, us) ==
    paid' = [u \in Winners |-> IF u \in us THEN paid[u] + 1 ELSE paid[u]]

\* The contract pays all recipients in one settle, once.
ContractPays(w, yes) ==
    IF yes THEN ~onChain /\ onChain' = TRUE /\ Pay(w, run[w].recs)
           ELSE UNCHANGED <<paid, onChain>>

\* EscrowClient.settle returns a hash: sendTransaction did not answer ERROR.
\* Whether the contract call succeeds in a ledger is not looked at.
EscrowSettles(w) ==
    /\ At(w) = "settle"
    /\ \E yes \in BOOLEAN :
        /\ ContractPays(w, yes)
        /\ ~yes /\ ~onChain => Fault
        /\ yes \/ onChain => UNCHANGED faults
        /\ run' = [run EXCEPT ![w].at = "note", ![w].next = 1,
                              ![w].mine = IF yes THEN run[w].recs ELSE {}]
    /\ UNCHANGED <<plan, status, row, queue, lock, retry, history, ops>>

\* It throws (loadAccount, ERROR, or withRetry gave up on an answer): fall back.
EscrowFails(w) ==
    /\ At(w) = "settle"
    /\ Fault
    /\ \E yes \in BOOLEAN :
        /\ ContractPays(w, yes)
        /\ lost' = IF yes THEN lost \cup run[w].recs ELSE lost
        /\ run' = [run EXCEPT ![w].at = "submit",
                              ![w].mine = IF yes THEN run[w].recs ELSE {}]
    /\ UNCHANGED <<plan, status, row, queue, lock, retry, overrun, ops>>

\* updatePayoutStatus(record, 'sent'), then the user's earnings, referral bonus
\* and notification
Note(w) ==
    /\ At(w) = "note"
    /\ run[w].next <= Len(Rank)
    /\ LET u == Rank[run[w].next] IN
       IF u \in run[w].recs
       THEN /\ row' = [row EXCEPT ![u] = "sent"]
            /\ run' = [run EXCEPT ![w].next = @ + 1, ![w].noted = @ \cup {u}]
       ELSE /\ run' = [run EXCEPT ![w].next = @ + 1]
            /\ UNCHANGED row
    /\ UNCHANGED <<plan, status, paid, onChain, queue, lock, retry, history, bounds>>

Noted(w) ==
    /\ At(w) = "note"
    /\ run[w].next > Len(Rank)
    /\ status' = "settled"
    /\ Goto(w, "end")
    /\ UNCHANGED <<plan, rows, queue, lock, retry, history, bounds>>

\* Any of these awaits throws inside the try block, before or after the row is
\* written: the direct payment of all recipients follows.
NoteFails(w) ==
    /\ At(w) = "note"
    /\ Fault
    /\ \/ /\ UNCHANGED row
          /\ Goto(w, "submit")
       \/ /\ run[w].next <= Len(Rank)
          /\ LET u == Rank[run[w].next] IN
             /\ u \in run[w].recs
             /\ row' = [row EXCEPT ![u] = "sent"]
             /\ run' = [run EXCEPT ![w].at = "submit", ![w].noted = @ \cup {u}]
    /\ lost' = lost \cup run[w].mine
    /\ UNCHANGED <<plan, status, paid, onChain, queue, lock, retry, overrun, ops>>

\* Fault: a result without an answer is a success.
SubmitOptimistic(w) ==
    /\ At(w) = "submit"
    /\ \E ok \in SUBSET run[w].recs :
        /\ ok # run[w].recs => Fault
        /\ ok = run[w].recs => UNCHANGED faults
        /\ Pay(w, ok)
        /\ run' = [run EXCEPT ![w].at = "record", ![w].next = 1,
                              ![w].ok = run[w].recs, ![w].mine = @ \cup ok]
    /\ UNCHANGED <<plan, status, row, onChain, queue, lock, retry, history, ops>>

\* submitBatchPayout returns.  Without a failure everyone is paid; with one, some
\* results are failures, and of those some were applied after all.
Submit(w) ==
    /\ At(w) = "submit"
    /\ \E ok \in SUBSET run[w].recs : \E unanswered \in SUBSET (run[w].recs \ ok) :
        /\ ok # run[w].recs => Fault
        /\ ok = run[w].recs => UNCHANGED faults
        /\ Pay(w, ok \cup unanswered)
        /\ lost' = lost \cup unanswered
        /\ run' = [run EXCEPT ![w].at = "record", ![w].next = 1, ![w].ok = ok,
                              ![w].mine = @ \cup ok \cup unanswered]
    /\ UNCHANGED <<plan, status, row, onChain, queue, lock, retry, overrun, ops>>

\* payoutRecords.find((c) => c.address === recipient.address)
RecordOf(w, u) ==
    LET same == {i \in 1 .. Len(Rank) : /\ Rank[i] \in run[w].recs
                                        /\ plan.address[Rank[i]] = plan.address[u]}
    IN Rank[CHOOSE i \in same : \A j \in same : i <= j]

RecordResult(w, u) ==
    row' = [row EXCEPT ![RecordOf(w, u)] = IF u \in run[w].ok THEN "sent" ELSE "failed"]

NotedWith(w, u) ==
    IF u \in run[w].ok THEN run[w].noted \cup {RecordOf(w, u)}
                       ELSE run[w].noted \ {RecordOf(w, u)}

\* The loop over batchResults: status, earnings, notification, referral bonus
Record(w) ==
    /\ At(w) = "record"
    /\ run[w].next <= Len(Rank)
    /\ LET u == Rank[run[w].next] IN
       IF u \in run[w].recs
       THEN /\ RecordResult(w, u)
            /\ run' = [run EXCEPT ![w].next = @ + 1, ![w].noted = NotedWith(w, u)]
       ELSE /\ run' = [run EXCEPT ![w].next = @ + 1]
            /\ UNCHANGED row
    /\ UNCHANGED <<plan, status, paid, onChain, queue, lock, retry, history, bounds>>

Recorded(w) ==
    /\ At(w) = "record"
    /\ run[w].next > Len(Rank)
    /\ status' = IF run[w].ok = run[w].recs THEN "settled" ELSE "payout_failed"
    /\ Goto(w, "end")
    /\ UNCHANGED <<plan, rows, queue, lock, retry, history, bounds>>

-------------------------------------------------------------------------------
(* A run ends.  A run that BullMQ has given to another slot owns the job no    *)
(* more, and BullMQ refuses its result.                                        *)

Owns(w) == ~run[w].batch /\ job.state = "active" /\ job.by = w

ForwardOneLate(made) == dlq' = IF made <= MaxAttempts THEN dlq ELSE "due"  \* fault

\* forwardToDlq, from the worker's "failed" event
ForwardToDlq(made) == dlq' = IF made < MaxAttempts THEN dlq ELSE "due"

\* BullMQ: retry after a backoff, or the failed set
AttemptFails(retriable) ==
    /\ job' = [job EXCEPT !.attempts = @ + 1,
                          !.state = IF retriable /\ job.attempts + 1 < MaxAttempts
                                    THEN "waiting" ELSE "failed"]
    /\ ForwardToDlq(job.attempts + 1)

Finish(w) ==
    /\ At(w) = "end"
    /\ \/ /\ run[w].batch
          /\ Goto(w, "unlock")
          /\ UNCHANGED job
       \/ /\ Owns(w)
          /\ job' = [job EXCEPT !.state = "completed"]
          /\ run' = [run EXCEPT ![w] = Idle]
       \/ /\ ~run[w].batch
          /\ ~Owns(w)
          /\ run' = [run EXCEPT ![w] = Idle]
          /\ UNCHANGED job
    /\ UNCHANGED <<plan, status, rows, dlq, lock, retry, history, bounds>>

\* finally { redis.del(lockKey) }, whoever holds the lock by now
Unlock(w) ==
    /\ At(w) = "unlock"
    /\ lock' = FALSE
    /\ run' = [run EXCEPT ![w] = Idle]
    /\ UNCHANGED <<plan, status, rows, queue, retry, history, bounds>>

\* An await outside the escrow try block throws: a query of the database, the
\* integrity check, or submitBatchPayout itself (resetSequence), after it paid
\* some.  The batch run catches the error, a job's attempt fails.
Throws(w) ==
    /\ At(w) \in {"check", "create", "submit", "record"}
    /\ Fault
    /\ \E some \in SUBSET run[w].recs :
        /\ At(w) # "submit" => some = {}
        /\ Pay(w, some)
        /\ \/ /\ UNCHANGED row
              /\ lost' = lost \cup some \cup (run[w].mine \ run[w].noted)
           \/ /\ At(w) = "record"              \* the row was written before
              /\ run[w].next <= Len(Rank)
              /\ LET u == Rank[run[w].next] IN
                 /\ u \in run[w].recs
                 /\ RecordResult(w, u)
                 /\ lost' = lost \cup (run[w].mine \ NotedWith(w, u))
    /\ \/ /\ run[w].batch
          /\ Goto(w, "unlock")
          /\ UNCHANGED queue
       \/ /\ ~run[w].batch
          /\ run' = [run EXCEPT ![w] = Idle]
          /\ IF Owns(w) THEN AttemptFails(TRUE) ELSE UNCHANGED queue
    /\ UNCHANGED <<plan, status, onChain, lock, retry, overrun, ops>>

\* The process stops: the job stays active and the lock set.
Crash(w) ==
    /\ run[w] # Idle
    /\ Fault
    /\ lost' = lost \cup (run[w].mine \ run[w].noted)
    /\ run' = [run EXCEPT ![w] = Idle]
    /\ UNCHANGED <<plan, status, rows, queue, lock, retry, overrun, ops>>

\* Fault: nobody counts how often a job stalled.
StallForever ==
    /\ job.state = "active"
    /\ run[job.by] = Idle
    /\ job' = [job EXCEPT !.state = "waiting", !.stalls = @ + 1]
    /\ UNCHANGED <<plan, status, rows, dlq, lock, run, retry, history, bounds>>

\* BullMQ finds an active job whose lock is not renewed: its slot is gone, or
\* (a fault) is only late.  Back to waiting, or failed when it stalled before.
Stall ==
    /\ job.state = "active"
    /\ IF run[job.by] # Idle /\ ~run[job.by].batch
       THEN Fault /\ overrun' = TRUE
       ELSE UNCHANGED <<faults, overrun>>
    /\ \/ /\ job.stalls < MaxStalls
          /\ job' = [job EXCEPT !.state = "waiting", !.stalls = @ + 1]
          /\ UNCHANGED dlq
       \/ /\ job.stalls = MaxStalls
          /\ AttemptFails(FALSE)
    /\ UNCHANGED <<plan, status, rows, lock, run, retry, lost, ops>>

\* The 30 minutes of the batch lock are over, maybe during a run.
LockExpires ==
    /\ lock
    /\ IF \E w \in Workers : run[w] # Idle /\ run[w].batch
       THEN Fault /\ overrun' = TRUE
       ELSE UNCHANGED <<faults, overrun>>
    /\ lock' = FALSE
    /\ UNCHANGED <<plan, status, rows, queue, run, retry, lost, ops>>

\* removeOnComplete and removeOnFail: the last 100 and 50 jobs are kept.
Trim ==
    /\ job.state \in {"completed", "failed"}
    /\ job' = Absent
    /\ UNCHANGED <<plan, status, rows, dlq, lock, run, retry, history, bounds>>

-------------------------------------------------------------------------------
(* Dead letters *)

\* dlqQueue.add throws or the process stops first; or, with attempts: 1, the
\* reconciliation itself fails.
DlqFails ==
    /\ dlq \in {"due", "waiting"}
    /\ dlq' = "lost"
    /\ UNCHANGED <<plan, status, rows, job, lock, run, retry, history, bounds>>

Forward ==
    /\ dlq = "due"
    /\ dlq' = "waiting"
    /\ UNCHANGED <<plan, status, rows, job, lock, run, retry, history, bounds>>

StrandedAll == {u \in Winners : row[u] # "none"}     \* fault: no status filter

\* The rows processPayoutDlqJob may touch: status IN ('pending', 'processing')
Stranded == {u \in Winners : row[u] = "pending"}

\* processPayoutDlqJob
Reconcile ==
    /\ dlq = "waiting"
    /\ row' = [u \in Winners |-> IF u \in Stranded THEN "failed" ELSE row[u]]
    /\ dlq' = "none"
    /\ UNCHANGED <<plan, status, paid, onChain, job, lock, run, retry, history, bounds>>

-------------------------------------------------------------------------------
Step(w) ==
    \/ List(w) \/ Check(w) \/ Create(w) \/ Created(w)
    \/ EscrowSettles(w) \/ Note(w) \/ Noted(w)
    \/ Submit(w) \/ Record(w) \/ Recorded(w)
    \/ Finish(w) \/ Unlock(w)

Failure(w) == EscrowFails(w) \/ NoteFails(w) \/ Throws(w) \/ Crash(w)

Admin == \/ AdminSettle
         \/ \E u \in Winners : RetryRead(u) \/ RetryWrite(u) \/ RetryEnqueue(u)

Queues == Stall \/ LockExpires \/ Trim \/ Forward \/ Reconcile \/ DlqFails

Next == \/ End \/ Admin \/ Queues
        \/ \E w \in Workers : StartJob(w) \/ StartBatch(w) \/ Step(w) \/ Failure(w)

\* Workers go on with their jobs and take waiting ones; BullMQ checks for
\* stalled jobs on a timer and the DLQ worker runs beside.  Nothing makes an
\* admin act, a run start, a fault happen or a job be trimmed.
Fairness ==
    /\ \A w \in Workers : WF_vars(Step(w)) /\ WF_vars(StartJob(w))
    /\ WF_vars(Stall)
    /\ WF_vars(Forward)
    /\ WF_vars(Reconcile)

Spec == Init /\ [][Next]_vars /\ Fairness

-------------------------------------------------------------------------------
(* Properties *)

\* Rows, job, runs and requests keep their types, and a job its attempt limit.
PayoutTypeOK ==
    /\ plan \in Plan
    /\ status \in {"active", "ended", "settled", "payout_failed"}
    /\ row \in [Winners -> {"none", "pending", "sent", "failed"}]
    /\ paid \in [Winners -> Nat]
    /\ onChain \in BOOLEAN
    /\ job \in Job
    /\ dlq \in {"none", "due", "waiting", "lost"}
    /\ lock \in BOOLEAN
    /\ run \in [Workers -> Run \cup {Idle}]
    /\ retry \in [Winners -> {"no", "read", "written", "done"}]
    /\ lost \subseteq Winners
    /\ overrun \in BOOLEAN
    /\ faults \in 0 .. MaxFaults
    /\ ops \in 0 .. MaxOps

\* payoutRecords.find takes the first winner of an address: of winners who share
\* one, only the first one's row is ever written.
Shares(u) == \E v \in Winners \ {u} : plan.address[v] = plan.address[u]

\* A winner with an address of their own is paid a second time only when an
\* earlier payment was not recorded: the run that made it stopped before it
\* wrote 'sent', was told it had failed, or fell back from escrow to direct
\* payment; an admin's retry reset the row; or two runs overlapped.  Attempts
\* that fail anywhere else repeat nothing ("IDEMPOTENCY CHECK", processPayout).
PaidTwiceOnlyIfLost == \A u \in Winners : paid[u] > 1 => u \in lost \/ Shares(u)

\* The run that marked u's row when the escrow contract seemed to have settled fell
\* back to direct payment, and that failed.
TakenBack(u) ==
    \E w \in Workers : At(w) = "record" /\ u \in run[w].noted \ run[w].ok

\* A row that says 'sent' keeps saying so through retries, the dead-letter queue
\* and admin retries, with the same exceptions; or the run that wrote it takes it
\* back.
SentStaysSent ==
    [][\A u \in Winners : row[u] = "sent" =>
          row'[u] = "sent" \/ u \in lost' \/ Shares(u) \/ TakenBack(u)]_vars

\* Without escrow, 'sent' on a row means that its address got a payment.
SentMeansPaid ==
    \A u \in Winners : row[u] = "sent" /\ ~plan.escrow =>
        \E v \in Winners : plan.address[v] = plan.address[u] /\ paid[v] > 0

\* A settled challenge owes nothing: every winner no fraud flag blocks has a row
\* at their address that says 'sent', unless runs overlapped or lost payments.
SettledMeansSent ==
    status = "settled" /\ lost = {} =>
        \A u \in Winners \ plan.blocked : \E v \in Winners :
            plan.address[v] = plan.address[u] /\ row[v] = "sent"

\* The job id and the batch lock keep runs of one kind from overlapping as long
\* as neither lock is lost while its run goes on.
RunsAlone ==
    \A v, w \in Workers : v # w /\ run[v] # Idle /\ run[w] # Idle =>
        run[v].batch # run[w].batch \/ overrun

\* Rows left pending by a job that used up its attempts are marked failed by the
\* dead-letter queue, unless the dead letter is lost, an admin retried, or a run that
\* lost the job goes on and makes rows after the reconciliation.
Exhausted == job.state = "failed" /\ job.attempts = MaxAttempts
StrandedRowsReconciled ==
    \A u \in Winners : (Exhausted /\ row[u] = "pending") ~>
        (row[u] # "pending" \/ dlq = "lost" \/ retry[u] # "no" \/ overrun)

\* "If payout is already sent or confirmed ..., do NOT re-submit Stellar payout
\* for this recipient" (payout.ts).
SentNotResubmitted ==
    [][\A u \in Winners : paid'[u] > paid[u] => row[u] # "sent"]_vars

\* What the tables say of a payout happened: a row marked sent was paid on the
\* ledger, and a settled challenge has no winner left to pay (services/payout.ts).
RecordsHonest == SentMeansPaid /\ SettledMeansSent
===============================================================================
