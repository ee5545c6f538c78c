----------------------------- MODULE BatchPayout -----------------------------
(***************************************************************************)
(* submitBatchPayout (packages/stellar/src/payout.ts) run by concurrent    *)
(* workers over the shared sequence keys, and the Stellar ledger as the    *)
(* code sees it through Horizon.  A call pays its batches (chunkArray of   *)
(* the valid recipients) one transaction after the other; a transaction is *)
(* rebuilt after tx_bad_seq, and re-sent unchanged by withRetry when no    *)
(* answer came.                                                            *)
(*                                                                         *)
(* External, as the code relies on it: the ledger applies a transaction    *)
(* only with the account's next sequence number, and Horizon answers the   *)
(* re-submission of an applied transaction with its original result.       *)
(***************************************************************************)
EXTENDS SequenceAllocator, FiniteSets

CONSTANTS NBatches,      \* batches per call
          MaxBadSeq,     \* maxBadSeqRetries
          MaxTries,      \* withRetry's maxAttempts
          MaxCalls,      \* bound: calls per worker
          NetworkFaults, \* Horizon may time out or lose answers
          MayCrash       \* a process may stop in the middle of a call

ASSUME BatchAssumption ==
    /\ {NBatches, MaxTries, MaxCalls} \subseteq Nat \ {0}
    /\ MaxBadSeq \in Nat
    /\ {NetworkFaults, MayCrash} \subseteq BOOLEAN

VARIABLES call,          \* calls started by each worker
          batch,         \* batch a worker is paying
          attempts,      \* tx_bad_seq retries of this batch
          tries,         \* submissions of this transaction by withRetry
          seq,           \* sequence number of the transaction in hand
          result,        \* per batch of the current call: none, ok or failed
          applied,       \* payments made: <<worker, call, batch, attempt>>
          inFlight       \* accepted, unanswered, not yet in a ledger

callVars == <<call, batch, attempts, tries, seq, result>>
chain == <<onLedger, applied, inFlight>>
batchVars == <<allocVars, callVars, applied, inFlight>>

Batches == 1 .. NBatches
Tx(w) == <<w, call[w], batch[w], attempts[w]>>

BatchInit ==
    /\ AllocInit
    /\ call = [w \in Workers |-> 1]
    /\ batch = [w \in Workers |-> 1]
    /\ attempts = [w \in Workers |-> 0]
    /\ tries = [w \in Workers |-> 0]
    /\ seq = [w \in Workers |-> None]
    /\ result = [w \in Workers |-> [b \in Batches |-> "none"]]
    /\ applied = {}
    /\ inFlight = {}

-------------------------------------------------------------------------------
(* The loop of submitBatchPayout *)

\* results.push(r), then the next batch or the end of the call.
Push(w, r) ==
    /\ result' = [result EXCEPT ![w][batch[w]] = r]
    /\ attempts' = [attempts EXCEPT ![w] = 0]
    /\ tries' = [tries EXCEPT ![w] = 0]
    /\ \/ /\ batch[w] < NBatches
          /\ batch' = [batch EXCEPT ![w] = @ + 1]
          /\ Goto(w, "get")
       \/ /\ batch[w] = NBatches
          /\ Goto(w, "returned")
          /\ UNCHANGED batch
    /\ UNCHANGED <<call, seq>>

\* reserveSequence, step by step
ReserveStep(w) ==
    \/ /\ Ensure(w)
       /\ UNCHANGED <<callVars, applied, inFlight>>
    \/ /\ Incr(w)
       /\ seq' = [seq EXCEPT ![w] = TransactionSequence(w)]
       /\ UNCHANGED <<call, batch, attempts, tries, result, applied, inFlight,
                      reserved>>

\* loadAccount failed while reserving; every call that joined the load fails.
ReserveFails(w) ==
    /\ NetworkFaults
    /\ LoadFails(w)
    /\ UNCHANGED <<callVars, applied, inFlight>>

\* The catch block, for an error that is not tx_bad_seq.
PushFailure(w) ==
    /\ pc[w] = "failed"
    /\ Push(w, "failed")
    /\ UNCHANGED <<keys, loads, awaits, got, reserved, chain>>

-------------------------------------------------------------------------------
(* Answers of Horizon to one submission of the transaction in hand *)

Sending(w) == pc[w] = "reserved"
IsNext(w) == seq[w] = onLedger + 1

\* Applied now, or applied earlier and asked again.
Accepted(w) ==
    /\ Sending(w)
    /\ \/ /\ IsNext(w)
          /\ Tx(w) \notin applied
          /\ applied' = applied \cup {Tx(w)}
          /\ onLedger' = onLedger + 1
       \/ /\ Tx(w) \in applied
          /\ UNCHANGED <<applied, onLedger>>
    /\ Push(w, "ok")
    /\ UNCHANGED <<keys, loads, awaits, got, reserved, inFlight>>

\* tx_failed: a payment is refused, the sequence number is consumed.
Refused(w) ==
    /\ NetworkFaults
    /\ Sending(w)
    /\ IsNext(w)
    /\ onLedger' = onLedger + 1
    /\ Push(w, "failed")
    /\ UNCHANGED <<keys, loads, awaits, got, reserved, applied, inFlight>>

\* Fault: a submission without an answer is taken for a success.
UnansweredIsSuccess(w) ==
    /\ NetworkFaults
    /\ Sending(w)
    /\ Push(w, "ok")
    /\ UNCHANGED <<keys, loads, awaits, got, reserved, chain>>

\* No answer.  The transaction did not arrive, or waits for a ledger, or was
\* applied.  withRetry sends it again; the last error is final.
Unanswered(w) ==
    /\ NetworkFaults
    /\ Sending(w)
    /\ \/ UNCHANGED chain
       \/ /\ IsNext(w)
          /\ Tx(w) \notin applied
          /\ inFlight' = inFlight \cup {[tx |-> Tx(w), seq |-> seq[w]]}
          /\ UNCHANGED <<onLedger, applied>>
    /\ \/ /\ tries[w] + 1 < MaxTries
          /\ tries' = [tries EXCEPT ![w] = @ + 1]
          /\ UNCHANGED <<pc, call, batch, attempts, seq, result>>
       \/ /\ tries[w] + 1 >= MaxTries
          /\ Push(w, "failed")
    /\ UNCHANGED <<keys, loads, awaits, got, reserved>>

\* Fault: any error makes the batch a new transaction.
BadSeqAnyError(w) ==
    /\ Sending(w)
    /\ NetworkFaults \/ (~IsNext(w) /\ Tx(w) \notin applied)
    /\ \/ /\ attempts[w] < MaxBadSeq
          /\ attempts' = [attempts EXCEPT ![w] = @ + 1]
          /\ tries' = [tries EXCEPT ![w] = 0]
          /\ Goto(w, "reset")
          /\ UNCHANGED <<call, batch, seq, result>>
       \/ /\ attempts[w] >= MaxBadSeq
          /\ Push(w, "failed")
    /\ UNCHANGED <<keys, loads, awaits, got, reserved, chain>>

\* Fault: one retry too many.
BadSeqOffByOne(w) ==
    /\ Sending(w)
    /\ ~IsNext(w)
    /\ Tx(w) \notin applied
    /\ \/ /\ attempts[w] <= MaxBadSeq
          /\ attempts' = [attempts EXCEPT ![w] = @ + 1]
          /\ tries' = [tries EXCEPT ![w] = 0]
          /\ Goto(w, "reset")
          /\ UNCHANGED <<call, batch, seq, result>>
       \/ /\ attempts[w] > MaxBadSeq
          /\ Push(w, "failed")
    /\ UNCHANGED <<keys, loads, awaits, got, reserved, chain>>

\* tx_bad_seq: reset the keys and rebuild, once; then give up.
BadSeq(w) ==
    /\ Sending(w)
    /\ ~IsNext(w)
    /\ Tx(w) \notin applied
    /\ \/ /\ attempts[w] < MaxBadSeq
          /\ attempts' = [attempts EXCEPT ![w] = @ + 1]
          /\ tries' = [tries EXCEPT ![w] = 0]
          /\ Goto(w, "reset")
          /\ UNCHANGED <<call, batch, seq, result>>
       \/ /\ attempts[w] >= MaxBadSeq
          /\ Push(w, "failed")
    /\ UNCHANGED <<keys, loads, awaits, got, reserved, chain>>

ResetStep(w) ==
    /\ ResetLoad(w) \/ ResetSet(w) \/ ResetDel(w)
    /\ UNCHANGED <<callVars, applied, inFlight>>

\* loadAccount fails inside the catch block: the whole call throws.
ResetThrows(w) ==
    /\ NetworkFaults
    /\ pc[w] = "reset"
    /\ loads' = [loads EXCEPT ![HomeOf[w]] = None]
    /\ Goto(w, "threw")
    /\ UNCHANGED <<keys, awaits, got, reserved, chain, callVars>>

-------------------------------------------------------------------------------
(* The ledger and the processes *)

\* A transaction in flight enters a ledger, or expires (setTimeout(180)).
LedgerCloses ==
    \E f \in inFlight :
        /\ inFlight' = inFlight \ {f}
        /\ \/ /\ f.seq = onLedger + 1
              /\ applied' = applied \cup {f.tx}
              /\ onLedger' = onLedger + 1
           \/ UNCHANGED <<applied, onLedger>>
        /\ UNCHANGED <<keys, loads, local, reserved, callVars>>

\* A process stops: every worker of it leaves its call, the Redis keys stay.
Crash(p) ==
    LET gone == {w \in Workers : HomeOf[w] = p} IN
    /\ MayCrash
    /\ \E w \in gone : pc[w] \notin {"returned", "threw"}
    /\ pc' = [w \in Workers |-> IF w \in gone THEN "threw" ELSE pc[w]]
    /\ awaits' = [w \in Workers |-> IF w \in gone THEN None ELSE awaits[w]]
    /\ loads' = [loads EXCEPT ![p] = None]
    /\ UNCHANGED <<keys, got, reserved, chain, callVars>>

\* The worker is given the payouts of another challenge.
NewCall(w) ==
    /\ pc[w] \in {"returned", "threw"}
    /\ call[w] < MaxCalls
    /\ call' = [call EXCEPT ![w] = @ + 1]
    /\ batch' = [batch EXCEPT ![w] = 1]
    /\ attempts' = [attempts EXCEPT ![w] = 0]
    /\ tries' = [tries EXCEPT ![w] = 0]
    /\ seq' = [seq EXCEPT ![w] = None]
    /\ result' = [result EXCEPT ![w] = [b \in Batches |-> "none"]]
    /\ Goto(w, "get")
    /\ UNCHANGED <<keys, loads, awaits, got, reserved, chain>>

BatchStep(w) ==
    \/ ReserveStep(w)
    \/ PushFailure(w)
    \/ Accepted(w)
    \/ BadSeq(w)
    \/ ResetStep(w)

Disturb(w) == ReserveFails(w) \/ Refused(w) \/ Unanswered(w) \/ ResetThrows(w)

BatchNext ==
    \/ \E w \in Workers : BatchStep(w) \/ Disturb(w) \/ NewCall(w)
    \/ \E p \in Processes : Crash(p)
    \/ LedgerCloses

\* Workers that are not stopped go on, and Horizon answers in the end.
BatchFairness == \A w \in Workers : WF_batchVars(BatchStep(w))

BatchSpec == BatchInit /\ [][BatchNext]_batchVars /\ BatchFairness

-------------------------------------------------------------------------------
(* Properties *)

\* Counters, transactions and results of the calls keep their types, and the
\* retries stay within maxBadSeqRetries and maxAttempts.
BatchTypeOK ==
    /\ pc \in [Workers -> Labels \cup {"returned", "threw"}]
    /\ offset \in Nat
    /\ batch \in [Workers -> Batches]
    /\ attempts \in [Workers -> 0 .. MaxBadSeq]
    /\ tries \in [Workers -> 0 .. MaxTries - 1]
    /\ result \in [Workers -> [Batches -> {"none", "ok", "failed"}]]

\* Within one call a batch is paid at most once, whatever the number of
\* rebuilt transactions, unanswered submissions and colliding sequence
\* numbers of two workers.
PaidAtMostOnce ==
    \A s, t \in applied : SubSeq(s, 1, 3) = SubSeq(t, 1, 3) => s = t

\* A transaction that was replaced after tx_bad_seq can never be applied any
\* more, although an unanswered submission of it may still be in flight: the
\* ledger has passed its sequence number.
NoGhosts ==
    \A f \in inFlight : \A w \in Workers :
        SubSeq(f.tx, 1, 3) = SubSeq(Tx(w), 1, 3) /\ f.tx[4] < attempts[w]
            => f.seq <= onLedger

\* A batch reported as paid (success: true) is on the ledger.
SuccessIsPaid ==
    \A w \in Workers, b \in Batches : result[w][b] = "ok" =>
        \E k \in 0 .. MaxBadSeq : <<w, call[w], b, k>> \in applied

\* However calls, faults and crashes interleave, a batch is paid once: not again
\* by a retry, and not by a transaction left behind (packages/stellar/src/payout.ts).
PaidOnce == PaidAtMostOnce /\ NoGhosts
==============================================================================
