---------------------------- MODULE EscrowPromise ----------------------------
(***************************************************************************)
(* What the BrandBlitz escrow promises a brand, without saying how: one    *)
(* payer fills a pot while the escrow is open, and the whole pot leaves it *)
(* in one step, once.  EscrowContract is shown to implement this.          *)
(***************************************************************************)
EXTENDS Integers

CONSTANTS Accounts,   \* Stellar addresses
          Nobody      \* no payer yet

VARIABLES payer,      \* the only account that may fill the pot
          pot,        \* USDC owed to winners or to the payer
          closed,     \* the pot has been released
          released    \* USDC that has left the escrow
vars == <<payer, pot, closed, released>>

Init == payer = Nobody /\ pot = 0 /\ closed = FALSE /\ released = 0

\* The payer adds to an open pot; the first payment fixes the payer.
Fill(a) ==
    /\ ~closed
    /\ payer \in {Nobody, a}
    /\ payer' = a
    /\ pot' > pot
    /\ UNCHANGED <<closed, released>>

\* Everything leaves at once; nothing can be added or released afterwards.
Release ==
    /\ ~closed
    /\ closed' = TRUE
    /\ released' = pot
    /\ pot' = 0
    /\ UNCHANGED payer

Next == Release \/ \E a \in Accounts : Fill(a)

Spec == Init /\ [][Next]_vars
==============================================================================
