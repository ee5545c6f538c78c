----------------------------- MODULE SidePayments -----------------------------
(***************************************************************************)
(* What the hot wallet pays beside the winners: the refund of one funded   *)
(* challenge (services/refund.ts) and the bonus of one referral            *)
(* (services/referrals.ts, the referral-bonus worker).  The payout of the  *)
(* challenge itself is PayoutPipeline's; here it is the three steps a      *)
(* refund can meet.                                                        *)
(***************************************************************************)
EXTENDS Integers, FiniteSets

CONSTANTS
    SpReqs,          \* admin requests POST /admin/challenges/:id/refund
    SpCallers,       \* payout runs that call queueReferralBonusForPayout
    SpFaults,        \* bound on failed calls and crashes
    SpAttempts,      \* attempts of a referral-bonus job (3 in the code)
    StroopsPerUsdc,  \* 10^7 in the code
    BonusStroops     \* amount of the referral_payouts row

ASSUME SpAssumption ==
    /\ IsFiniteSet(SpReqs) /\ IsFiniteSet(SpCallers) /\ SpAttempts \in Nat \ {0}
    /\ {SpFaults, StroopsPerUsdc, BonusStroops} \subseteq Nat

VARIABLES
    chalStatus, due,           \* challenge row; is the refund amount positive
    walletSeq,                 \* sequence number of the hot wallet's account
    refundRow, refundTxs, refundAt, early,
    rq,                        \* refund requests: pc and account sequence
    payer, winnersPaid,        \* the payout of the same challenge
    rewarded, bonusRow, caller, bonusJob, bonusTxs, bonusSent, looks, fraud,
    spFaults

refundVars == <<chalStatus, due, refundRow, refundTxs, refundAt, early, rq,
                payer, winnersPaid>>
bonusVars == <<rewarded, bonusRow, caller, bonusJob, bonusTxs, bonusSent,
               looks, fraud>>
spVars == <<refundVars, bonusVars, walletSeq, spFaults>>

SpInit ==
    /\ chalStatus \in {"active", "ended"}
    /\ due \in BOOLEAN
    /\ walletSeq = 0
    /\ refundRow = FALSE /\ refundTxs = 0 /\ refundAt = 0 /\ early = 0
    /\ rq = [r \in SpReqs |-> [pc |-> "idle", seq |-> 0]]
    /\ payer = "idle" /\ winnersPaid = FALSE
    /\ rewarded = FALSE /\ bonusRow = "none"
    /\ caller = [c \in SpCallers |-> "idle"]
    /\ bonusJob = [c \in SpCallers |-> [pc |-> "none", tries |-> 0]]
    /\ bonusTxs = 0 /\ bonusSent = 0 /\ looks = 0 /\ fraud = FALSE
    /\ spFaults = 0

SpFault == spFaults < SpFaults /\ spFaults' = spFaults + 1

-----------------------------------------------------------------------------
(* The refund of the challenge. *)

ReqTo(r, pc) == rq' = [rq EXCEPT ![r].pc = pc]

\* Any awaited call of the handler may throw; nothing already done is undone.
RefundFails(r) ==
    /\ rq[r].pc \in {"looked", "sender", "load", "insert", "mark"}
    /\ SpFault
    /\ ReqTo(r, "failed")
    /\ UNCHANGED <<chalStatus, due, refundRow, refundTxs, refundAt, early,
                   payer, winnersPaid, bonusVars, walletSeq>>

\* findRefundByChallengeId
Found == refundRow

LookForRefund(r) ==
    /\ rq[r].pc = "idle"
    /\ ReqTo(r, IF Found THEN "returned" ELSE "looked")
    /\ early' = IF refundRow THEN early ELSE early + 1
    /\ UNCHANGED <<chalStatus, due, refundRow, refundTxs, refundAt,
                   payer, winnersPaid, bonusVars, walletSeq, spFaults>>

\* The challenge is read once: its status, its deposit and its policy
ReadForRefund(r) ==
    /\ rq[r].pc = "looked"
    /\ ReqTo(r, IF chalStatus = "settled" THEN "failed" ELSE "sender")
    /\ UNCHANGED <<chalStatus, due, refundRow, refundTxs, refundAt, early,
                   payer, winnersPaid, bonusVars, walletSeq, spFaults>>

\* The depositor comes from Horizon; a policy that owes nothing skips the payment
getDepositSender(r) ==
    /\ rq[r].pc = "sender"
    /\ ReqTo(r, IF due THEN "load" ELSE "insert")
    /\ UNCHANGED <<chalStatus, due, refundRow, refundTxs, refundAt, early,
                   payer, winnersPaid, bonusVars, walletSeq, spFaults>>

\* The account's sequence number is Horizon's, not the allocator's
LoadWallet(r) ==
    /\ rq[r].pc = "load"
    /\ rq' = [rq EXCEPT ![r] = [pc |-> "submit", seq |-> walletSeq]]
    /\ UNCHANGED <<chalStatus, due, refundRow, refundTxs, refundAt, early,
                   payer, winnersPaid, bonusVars, walletSeq, spFaults>>

\* The transaction is applied and its answer arrives, or is lost
RefundApplied(r) ==
    /\ rq[r].pc = "submit" /\ rq[r].seq = walletSeq
    /\ walletSeq' = walletSeq + 1 /\ refundAt' = walletSeq + 1
    /\ refundTxs' = refundTxs + 1
    /\ \/ ReqTo(r, "insert") /\ UNCHANGED spFaults
       \/ ReqTo(r, "failed") /\ SpFault
    /\ UNCHANGED <<chalStatus, due, refundRow, early, payer, winnersPaid,
                   bonusVars>>

\* tx_bad_seq when the number is used up; a transaction identical to the other
\* handler's, built in the same second, is answered as the one already applied
RefundRefused(r) ==
    /\ rq[r].pc = "submit" /\ rq[r].seq # walletSeq
    /\ \/ ReqTo(r, "failed")
       \/ refundAt = rq[r].seq + 1 /\ ReqTo(r, "insert")
    /\ UNCHANGED <<chalStatus, due, refundRow, refundTxs, refundAt, early,
                   payer, winnersPaid, bonusVars, walletSeq, spFaults>>

\* challenge_id is UNIQUE and the amount must be positive
createRefund(r) ==
    /\ rq[r].pc = "insert"
    /\ IF refundRow \/ ~due
       THEN ReqTo(r, "failed") /\ UNCHANGED refundRow
       ELSE ReqTo(r, "mark") /\ refundRow' = TRUE
    /\ UNCHANGED <<chalStatus, due, refundTxs, refundAt, early,
                   payer, winnersPaid, bonusVars, walletSeq, spFaults>>

\* updateChallengeStatus writes whatever the status has become meanwhile
MarkRefunded(r) ==
    /\ rq[r].pc = "mark"
    /\ ReqTo(r, "done")
    /\ chalStatus' = "refunded"
    /\ UNCHANGED <<due, refundRow, refundTxs, refundAt, early,
                   payer, winnersPaid, bonusVars, walletSeq, spFaults>>

\* The payout reads the status once, pays, and settles without a condition
PayoutOfWinners ==
    /\ \/ /\ payer = "idle" /\ chalStatus = "ended"
          /\ payer' = "paying" /\ UNCHANGED <<chalStatus, winnersPaid, walletSeq>>
       \/ /\ payer = "paying"
          /\ payer' = "settling" /\ winnersPaid' = TRUE
          /\ walletSeq' = walletSeq + 1 /\ UNCHANGED chalStatus
       \/ /\ payer = "settling"
          /\ payer' = "over" /\ chalStatus' = "settled"
          /\ UNCHANGED <<winnersPaid, walletSeq>>
    /\ UNCHANGED <<due, refundRow, refundTxs, refundAt, early, rq, bonusVars,
                   spFaults>>

-----------------------------------------------------------------------------
(* The referral bonus.  Caller c enqueues job c. *)

CallerTo(c, pc) == caller' = [caller EXCEPT ![c] = pc]
JobTo(c, pc) == bonusJob' = [bonusJob EXCEPT ![c].pc = pc]

\* A referral already rewarded, a flagged session, a missing address or a win
\* too small for a bonus ends it
queueReferralBonusForPayout(c) ==
    /\ caller[c] = "idle"
    /\ \/ CallerTo(c, "over")
       \/ ~rewarded /\ ~fraud /\ CallerTo(c, "create")
    /\ UNCHANGED <<refundVars, walletSeq, rewarded, bonusRow, bonusJob,
                   bonusTxs, bonusSent, looks, fraud, spFaults>>

\* ON CONFLICT (referral_id) returns the row that is there
createReferralPayout(c) ==
    /\ caller[c] = "create"
    /\ bonusRow' = IF bonusRow = "none" THEN "pending" ELSE bonusRow
    /\ CallerTo(c, IF bonusRow' = "pending" THEN "reward" ELSE "over")
    /\ UNCHANGED <<refundVars, walletSeq, rewarded, bonusJob, bonusTxs,
                   bonusSent, looks, fraud, spFaults>>

\* markReferralRewarded, then enqueueReferralBonus; a failure of either is logged
RewardAndQueue(c) ==
    /\ \/ /\ caller[c] = "reward"
          /\ \/ rewarded' = TRUE /\ CallerTo(c, "queue") /\ UNCHANGED spFaults
             \/ SpFault /\ CallerTo(c, "over") /\ UNCHANGED rewarded
          /\ UNCHANGED bonusJob
       \/ /\ caller[c] = "queue"
          /\ CallerTo(c, "over")
          /\ \/ JobTo(c, "waiting") /\ UNCHANGED spFaults
             \/ SpFault /\ UNCHANGED bonusJob
          /\ UNCHANGED rewarded
    /\ UNCHANGED <<refundVars, walletSeq, bonusRow, bonusTxs, bonusSent,
                   looks, fraud>>

\* A fraud flag may be raised at any time
FlagFraud ==
    /\ ~fraud /\ fraud' = TRUE
    /\ UNCHANGED <<refundVars, walletSeq, rewarded, bonusRow, caller, bonusJob,
                   bonusTxs, bonusSent, looks, spFaults>>

\* Only a pending row is paid
Payable == bonusRow = "pending"

\* processReferralBonusJob up to the payment: status, then the fraud check
JobLooks(c) ==
    /\ bonusJob[c].pc = "waiting"
    /\ JobTo(c, IF ~Payable THEN "over" ELSE IF fraud THEN "over" ELSE "pay")
    /\ bonusRow' = IF Payable /\ fraud THEN "failed" ELSE bonusRow
    /\ looks' = IF bonusRow = "pending" THEN looks + 1 ELSE looks
    /\ UNCHANGED <<refundVars, walletSeq, rewarded, caller, bonusTxs,
                   bonusSent, fraud, spFaults>>

\* submitBatchPayout takes the row's amount, in stroops, as an amount of USDC
PaidFor(stroops) == stroops * StroopsPerUsdc

JobPays(c) ==
    /\ bonusJob[c].pc = "pay"
    /\ \/ /\ bonusTxs' = bonusTxs + 1
          /\ bonusSent' = bonusSent + PaidFor(BonusStroops)
          /\ \/ JobTo(c, "sent") /\ UNCHANGED spFaults
             \/ JobTo(c, "failed") /\ SpFault      \* five answers lost
       \/ /\ SpFault /\ JobTo(c, "failed")         \* refused
          /\ UNCHANGED <<bonusTxs, bonusSent>>
    /\ UNCHANGED <<refundVars, walletSeq, rewarded, bonusRow, caller, looks, fraud>>

\* updateReferralPayoutStatus has no condition
JobRecords(c) ==
    /\ bonusJob[c].pc \in {"sent", "failed"}
    /\ bonusRow' = bonusJob[c].pc
    /\ JobTo(c, "over")
    /\ UNCHANGED <<refundVars, walletSeq, rewarded, caller, bonusTxs,
                   bonusSent, looks, fraud, spFaults>>

\* The job throws or its worker dies: it runs again, and after its last attempt
\* is dropped (the worker forwards nothing to the dead-letter queue)
JobDies(c) ==
    /\ bonusJob[c].pc \in {"pay", "sent", "failed"}
    /\ SpFault
    /\ LET n == bonusJob[c].tries + 1
       IN bonusJob' = [bonusJob EXCEPT ![c] =
                 [pc |-> IF n < SpAttempts THEN "waiting" ELSE "dropped",
                  tries |-> n]]
    /\ UNCHANGED <<refundVars, walletSeq, rewarded, bonusRow, caller, bonusTxs,
                   bonusSent, looks, fraud>>

-----------------------------------------------------------------------------
RefundStep(r) ==
    \/ RefundFails(r) \/ LookForRefund(r) \/ ReadForRefund(r)
    \/ getDepositSender(r) \/ LoadWallet(r) \/ RefundApplied(r)
    \/ RefundRefused(r) \/ createRefund(r) \/ MarkRefunded(r)

BonusStep(c) ==
    \/ queueReferralBonusForPayout(c) \/ createReferralPayout(c)
    \/ RewardAndQueue(c) \/ JobLooks(c) \/ JobPays(c) \/ JobRecords(c)
    \/ JobDies(c)

\* The two share the wallet only: a bonus, like the payout, uses up a sequence
\* number, and to a refund the payout stands for every other use of the wallet
RefundNext == PayoutOfWinners \/ \E r \in SpReqs : RefundStep(r)
BonusNext == FlagFraud \/ \E c \in SpCallers : BonusStep(c)

SpNext == RefundNext \/ BonusNext

SpSpec == SpInit /\ [][SpNext]_spVars

-----------------------------------------------------------------------------
\* Type correctness of the two tables, the requests and the jobs.
SpTypeOK ==
    /\ chalStatus \in {"active", "ended", "settled", "refunded"}
    /\ due \in BOOLEAN /\ refundRow \in BOOLEAN /\ winnersPaid \in BOOLEAN
    /\ rewarded \in BOOLEAN /\ fraud \in BOOLEAN
    /\ {walletSeq, refundTxs, refundAt, early, bonusTxs, bonusSent, looks,
        spFaults} \subseteq Nat
    /\ rq \in [SpReqs -> [pc : {"idle", "returned", "looked", "sender", "load",
                                "submit", "insert", "mark", "done", "failed"},
                          seq : Nat]]
    /\ payer \in {"idle", "paying", "settling", "over"}
    /\ bonusRow \in {"none", "pending", "sent", "failed"}
    /\ caller \in [SpCallers -> {"idle", "create", "reward", "queue", "over"}]
    /\ bonusJob \in [SpCallers -> [pc : {"none", "waiting", "pay", "sent",
                                         "failed", "over", "dropped"},
                                   tries : 0..SpAttempts]]

\* Whatever the interleaving of requests, lost answers and failures, the ledger
\* holds at most one refund for each request that began before the refunds row
\* was written (refund.ts:26), a row stands for a payment, and a challenge is
\* marked refunded only when its row exists.
RefundsBounded ==
    /\ refundTxs <= early
    /\ refundRow => refundTxs >= 1
    /\ chalStatus = "refunded" => refundRow

\* Duplicate jobs, reruns after a crash and lost answers included, a bonus is
\* paid at most once for each run that found its row still pending
\* (referral-bonus.processor.ts:33, :75), a job exists only for a referral marked
\* rewarded, and a row marked sent was paid.
BonusesBounded ==
    /\ bonusTxs <= looks
    /\ bonusRow = "sent" => bonusTxs >= 1
    /\ (\E c \in SpCallers : bonusJob[c].pc # "none") => rewarded

\* The recipients of submitBatchPayout carry amounts in USDC
\* (packages/stellar/src/payout.ts:30): what the ledger paid for the bonus is
\* the row's amount, once per payment.  The worker passes stroops, so it is not.
BonusWorth == bonusSent = bonusTxs * BonusStroops

\* No refund and no bonus beyond what overlapping requests and reruns explain
\* (refund.ts:26, referral-bonus.processor.ts:75).
SidePaymentsBounded == RefundsBounded /\ BonusesBounded
===============================================================================
