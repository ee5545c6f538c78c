---------------------------- MODULE PayoutAmounts ----------------------------
(***************************************************************************)
(* How processPayout (services/payout.ts) divides the pool of one          *)
(* challenge, over its runs.  A run reads the leaderboard, divides the     *)
(* whole pool among those it may pay now, writes a row for each and pays   *)
(* those whose row is not sent; a run that dies is followed by another,    *)
(* which divides again.  Runs follow one another and a payment is recorded *)
(* in the step that makes it: PayoutPipeline has overlaps and lost         *)
(* records.  Tiers do not appear: the ranking drops tier_id, so the tier   *)
(* pools are read and never used.                                          *)
(***************************************************************************)
EXTENDS Integers, FiniteSets, FiniteSetsExt

CONSTANTS PaUsers,     \* players, and the owner of a licensing brand
          PaPool,      \* challenges.pool_amount_stroops
          PaScores,    \* total scores; 0 also stands for no session
          PaFeeBps,    \* challenge_licenses.fee_bps
          BpsScale,    \* 10 000 in the code
          MaxShifts,   \* bound on the changes of who may be paid
          MaxRuns      \* bound on the runs

ASSUME PaAssumption ==
  /\ IsFiniteSet(PaUsers)
  /\ PaPool \in Nat \ {0} /\ PaScores \subseteq Nat /\ BpsScale \in Nat \ {0}
  /\ PaFeeBps \in 0 .. BpsScale /\ {MaxShifts, MaxRuns} \subseteq Nat

VARIABLES points,     \* game_sessions.total_score of each user
          licensor,   \* the owner of the licensing brand: {} or one user
          payable,    \* users with an address (users.stellar_address)
          prow,       \* payouts: [st, amount] of each user
          recipients, \* what the run has still to pay: user -> amount, a function
          got,        \* stroops each user was paid
          payRun,     \* "none", "paying" or, once the challenge's status is final, "over"
          runs, shifts,
          shifted     \* history: who may be paid changed after a payment

paVars == <<points, licensor, payable, prow, recipients, got, payRun, runs, shifts, shifted>>

TotalOf(f) == MapThenSumSet(LAMBDA u : f[u], DOMAIN f)

LicenseFee == IF licensor \cap payable = {} THEN 0 ELSE (PaPool * PaFeeBps) \div BpsScale
PlayerPool == PaPool - LicenseFee

\* calculatePayoutShareStroops rounds down; a share below one stroop is no share
calculatePayoutShareStroops(score, total, pool) ==
  IF total = 0 THEN 0 ELSE (pool * score) \div total

\* payoutAllocations: the winners' shares, and the fee on top of the licensor's
Allocations ==
  LET total == TotalOf([u \in payable |-> points[u]])
      share(u) == calculatePayoutShareStroops(points[u], total, PlayerPool)
      all == [u \in payable |-> share(u) + (IF u \in licensor THEN LicenseFee ELSE 0)]
  IN [u \in {v \in payable : all[v] > 0} |-> all[u]]

PaInit ==
  /\ points \in [PaUsers -> PaScores]
  /\ licensor \in {{}} \cup {{u} : u \in PaUsers}
  /\ payable \in SUBSET PaUsers
  /\ prow = [u \in PaUsers |-> [st |-> "none", amount |-> 0]]
  /\ recipients = <<>>
  /\ got = [u \in PaUsers |-> 0]
  /\ payRun = "none" /\ runs = 0 /\ shifts = 0 /\ shifted = FALSE

\* Fault: a run pays whom it allots something, sent or not
UnsentAnyhow(alloc) == DOMAIN alloc

\* The idempotency check of the loop over the allocations
Unsent(alloc) == {u \in DOMAIN alloc : prow[u].st # "sent"}

\* createPayout writes today's amount into every row, a sent one included; what
\* was sent is not among the recipients
StartRun ==
  /\ payRun = "none" /\ runs < MaxRuns
  /\ LET alloc == Allocations
         unsent == Unsent(alloc)
     IN /\ prow' = [u \in PaUsers |->
                      IF u \notin DOMAIN alloc THEN prow[u]
                      ELSE [st |-> IF prow[u].st = "sent" THEN "sent" ELSE "pending", amount |-> alloc[u]]]
        /\ recipients' = [u \in unsent |-> alloc[u]]
        /\ payRun' = IF unsent = {} THEN "over" ELSE "paying"
  /\ runs' = runs + 1
  /\ UNCHANGED <<points, licensor, payable, got, shifts, shifted>>

\* Part of the recipients (a batch) is paid or refused, and their rows say so;
\* after the last part the challenge is settled or payout_failed
PayPart(S, ok) ==
  /\ payRun = "paying" /\ S # {} /\ S \subseteq DOMAIN recipients
  /\ got' = [u \in PaUsers |-> got[u] + (IF ok /\ u \in S THEN recipients[u] ELSE 0)]
  /\ prow' = [u \in PaUsers |->
                IF u \in S THEN [prow[u] EXCEPT !.st = IF ok THEN "sent" ELSE "failed"] ELSE prow[u]]
  /\ recipients' = [u \in DOMAIN recipients \ S |-> recipients[u]]
  /\ payRun' = IF S = DOMAIN recipients THEN "over" ELSE "paying"
  /\ UNCHANGED <<points, licensor, payable, runs, shifts, shifted>>

\* The run throws or its process stops: the challenge is still 'ended'
RunDies ==
  /\ payRun = "paying"
  /\ payRun' = "none" /\ recipients' = <<>>
  /\ UNCHANGED <<points, licensor, payable, prow, got, runs, shifts, shifted>>

\* A player sets an address, or loses it with the account
Shift(u) ==
  /\ shifts < MaxShifts
  /\ payable' = SymDiff(payable, {u})
  /\ shifts' = shifts + 1
  /\ shifted' = (shifted \/ payRun = "paying" \/ \E v \in PaUsers : got[v] > 0)
  /\ UNCHANGED <<points, licensor, prow, recipients, got, payRun, runs>>

PaNext ==
  \/ StartRun \/ RunDies
  \/ \E S \in SUBSET PaUsers, ok \in BOOLEAN : PayPart(S, ok)
  \/ \E u \in PaUsers : Shift(u)

-----------------------------------------------------------------------------
PaTypeOK ==
  /\ points \in [PaUsers -> PaScores] /\ payable \subseteq PaUsers
  /\ prow \in [PaUsers -> [st : {"none", "pending", "sent", "failed"}, amount : 0 .. PaPool]]
  /\ DOMAIN recipients \subseteq PaUsers
  /\ got \in [PaUsers -> Nat] /\ payRun \in {"none", "paying", "over"}
  /\ runs \in 0 .. MaxRuns /\ shifts \in 0 .. MaxShifts /\ shifted \in BOOLEAN

Scorers == {u \in payable : points[u] > 0}

\* However often the payout runs, the pool is not overspent, every sent row
\* carries the amount that was paid, and a settled challenge leaves fewer
\* stroops in the pool than it has winners; unless an address came or went
\* between a payment and a later division (services/payout.ts:197).
PoolBounded ==
  shifted \/
    /\ TotalOf(got) <= PaPool
    /\ \A u \in PaUsers : prow[u].st = "sent" => prow[u].amount = got[u]
    /\ payRun = "over" /\ Scorers # {} /\ shifts = 0
         /\ (\A u \in PaUsers : prow[u].st # "failed")
         => PaPool - TotalOf(got) < Cardinality(Scorers)
=============================================================================
