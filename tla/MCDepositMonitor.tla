--------------------------- MODULE MCDepositMonitor ---------------------------
(* t1 and t3 pay the challenge c1 with its opaque memo; the memo of t2 is    *)
(* too long and names no challenge.                                          *)
EXTENDS DepositMonitor, TLC

CONSTANTS c1, none, t1, t2, t3, n1, s1, s2

MCChallenges == {c1}
MCTxs == {t1, t2, t3}
MCMemos == [t \in MCTxs |-> IF t = t2 THEN none ELSE c1]
MCPayouts == {}
MCSeries == {n1}
MCSlots == {s1, s2}
MCFormat == [m \in {c1, none} |-> IF m = none THEN "uuid" ELSE "opaque"]
MCPool == [c \in MCChallenges |-> 1]
==============================================================================
