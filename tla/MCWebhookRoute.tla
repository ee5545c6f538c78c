---------------------------- MODULE MCWebhookRoute ----------------------------
(* Two challenges with UUID memos and one unknown, opaque memo; two         *)
(* deposits and the hash of a payout.                                       *)
EXTENDS WebhookRoute, TLC

CONSTANTS c1, c2, none, t1, t2, p1, n1, n2, s1, s2

MCChallenges == {c1, c2}
MCTxs == {t1, t2, p1}
MCPayouts == {p1}
MCSeries == {n1, n2}
MCSlots == {s1, s2}
MCFormat == [m \in {c1, c2, none} |-> IF m = none THEN "opaque" ELSE "uuid"]
MCPool == [c \in MCChallenges |-> 1]
MCSymmetry == Permutations(MCChallenges) \cup Permutations({t1, t2})
              \cup Permutations(MCSeries) \cup Permutations(MCSlots)
==============================================================================
