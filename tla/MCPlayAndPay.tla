----------------------------- MODULE MCPlayAndPay -----------------------------
(* The two ends of a challenge: a player's session, and the batches of         *)
(* payments to the winners.  They share no state: `focus` says whose behaviour *)
(* this is, and the other stays where it begins.                              *)
EXTENDS SessionLifecycle, BatchPayout, TLC

VARIABLE focus

CONSTANTS a1, a2, p1, none

\* Two requests of the player; two workers of one process, for
\* PAYOUT_WORKER_CONCURRENCY defaults to 2
Two == {a1, a2}
MCProcesses == {p1}
TwoHomes == [w \in Two |-> p1]

\* They are interchangeable, and only safety is checked
PpSymmetry == Permutations(Two)

ppVars == <<vars, batchVars, focus>>

PpInit == focus \in {"session", "batches"} /\ Init /\ BatchInit

\* The bound on calls is reached and every call has ended
AllReturned == (\A w \in Workers : pc[w] \in {"returned", "threw"}) /\ UNCHANGED batchVars

PpNext ==
    /\ UNCHANGED focus
    /\ \/ focus = "session" /\ Next /\ UNCHANGED batchVars
       \/ focus = "batches" /\ (BatchNext \/ AllReturned) /\ UNCHANGED vars

PpSpec == PpInit /\ [][PpNext]_ppVars

\* Type correctness of the session's row, keys and requests, and of the calls,
\* transactions and results of submitBatchPayout.
PpTypeOK == SessionTypeOK /\ BatchTypeOK
===============================================================================
