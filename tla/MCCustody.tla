------------------------------ MODULE MCCustody ------------------------------
(* Where the money waits: the escrow contract, the sequence numbers of the    *)
(* hot wallet and the webhook that opens a challenge for a deposit.  They     *)
(* share no state, so `focus` says whose behaviour this is, and the others    *)
(* stay where they begin.                                                     *)
EXTENDS EscrowContract, SequenceAllocator, WebhookRoute, TLC

VARIABLE focus

CONSTANTS hot, brand, player, escrow, nobody,
          w1, w2, w3, a1, a2,
          c1, c2, none, t1, t2, p1, n1, n2, s1, s2

\* i128 shrunk to 0..4, lists of up to two recipients, the same address twice
\* and refused amounts included
MCAccounts == {hot, brand, player}
MCAmounts == {0, 1, 2, 3}
MCLists ==
    {<<>>} \cup {<< <<player, n>> >> : n \in {0, 2, 3}}
           \cup {<< <<player, m>>, <<p, n>> >> :
                    m \in {1, 2}, n \in {1, 3}, p \in {player, brand}}

\* Three workers in two processes: two of them share pendingBaseLoads
MCWorkers == {w1, w2, w3}
MCProcesses == {a1, a2}
MCHomeOf == [w \in MCWorkers |-> IF w = w3 THEN a2 ELSE a1]

\* Two challenges with UUID memos and one unknown, opaque memo; two deposits
\* and the hash of a payout
MCChallenges == {c1, c2}
MCTxs == {t1, t2, p1}
MCPayouts == {p1}
MCSeries == {n1, n2}
MCSlots == {s1, s2}
MCFormat == [m \in {c1, c2, none} |-> IF m = none THEN "opaque" ELSE "uuid"]
MCPool == [c \in MCChallenges |-> 1]
MCSymmetry == Permutations(MCChallenges) \cup Permutations({t1, t2})
              \cup Permutations(MCSeries) \cup Permutations(MCSlots)
              \cup Permutations({w1, w2})

custodyVars == <<vars, allocVars, routeVars, focus>>

CustodyInit ==
    /\ focus \in {"escrow", "sequence", "webhook"}
    /\ Init /\ AllocInit /\ RouteInit

\* The workers stop when the bound on reservations is reached
AllReserved == Len(reserved) = MaxReserved /\ UNCHANGED allocVars

CustodyNext ==
    /\ UNCHANGED focus
    /\ \/ focus = "escrow" /\ Next /\ UNCHANGED <<allocVars, routeVars>>
       \/ focus = "sequence" /\ (AllocNext \/ AllReserved) /\ UNCHANGED <<vars, routeVars>>
       \/ focus = "webhook" /\ RouteNext /\ UNCHANGED <<vars, allocVars>>

CustodySpec == CustodyInit /\ [][CustodyNext]_custodyVars

\* Type correctness of the three components: the contract's storage, the two
\* Redis keys and the workers of reserveSequence, the rows and requests of the
\* webhook route.
CustodyTypeOK == TypeOK /\ AllocTypeOK /\ RouteTypeOK
===============================================================================
