--------------------------- MODULE MCPayoutPipeline ---------------------------
EXTENDS PayoutPipeline

CONSTANTS u1, u2, a1, a2

MCRank == <<u1, u2>>

\* Everyone with an own address; and, where the rows are written by address
\* (direct payment), also a shared address and a blocked winner
MCPlans ==
    LET own == (u1 :> a1 @@ u2 :> a2)
        shared == (u1 :> a1 @@ u2 :> a1)
    IN {p \in Plan : \/ p.address = own /\ p.blocked = {}
                     \/ p.address = own /\ p.blocked = {u1} /\ ~p.escrow
                     \/ p.address = shared /\ p.blocked = {} /\ ~p.escrow}

\* The escrow path alone
MCEscrowPlans == {p \in MCPlans : p.escrow /\ ~p.batched}
===============================================================================
