---------------------------- MODULE EscrowContract ----------------------------
(***************************************************************************)
(* The Soroban escrow contract (contracts/contracts/escrow/src/lib.rs).    *)
(* A call runs to its end or not at all: an Err or a trap rolls back every *)
(* storage write and token transfer made before it, so one contract call   *)
(* is one action, and a refused call changes nothing but its outcome.      *)
(*                                                                         *)
(* The USDC token (a Stellar Asset Contract) is external: `held` is what   *)
(* it says the contract owns, `transfers` what it moved in and out of it.  *)
(***************************************************************************)
EXTENDS Integers, Sequences, FiniteSets

CONSTANTS Accounts,     \* addresses that may call the contract or be paid
          Escrow,       \* the contract's own address
          Nobody,       \* an unset Address storage key
          I128Max,      \* largest i128; checked_add fails above it
          CallAmounts,  \* amounts callers pass, invalid ones included
          CallLists     \* recipient lists callers pass to settle

ASSUME EscrowAssumption ==
    /\ Nobody \notin Accounts
    /\ Escrow \notin Accounts \cup {Nobody}
    /\ I128Max \in Nat \ {0}
    /\ CallAmounts \subseteq Int
    /\ CallLists \subseteq Seq(Accounts \X Int)

VARIABLES admin,        \* DataKey::Admin, set together with Token and Memo
          depositor,    \* DataKey::Depositor
          balance,      \* DataKey::Balance
          settled,      \* DataKey::Settled
          held,         \* USDC owned by the contract address (external)
          transfers,    \* USDC moved by this contract, in order (external)
          received,     \* history: sum of the `deposited` events
          released,     \* history: sum of the `settled`/`refunded` events
          outcome       \* what the last call returned

storage == <<admin, depositor, balance, settled>>
history == <<transfers, received, released>>
vars == <<admin, depositor, balance, settled, held, transfers, received,
          released, outcome>>

Transfer == [from : Accounts \cup {Escrow}, to : Accounts \cup {Escrow},
             amount : Int]

ContractError ==
    {"AlreadyInitialized", "NotInitialized", "AlreadySettled",
     "InvalidAmount", "InsufficientBalance", "NothingToRefund",
     "DepositorMismatch", "NoRecipients", "UndistributedBalance",
     "BalanceOverflow"}

\* "Trap": the host aborted the call (missing auth, failed token transfer).
Outcome == ContractError \cup {"Ok", "Trap"}

Init ==
    /\ admin = Nobody
    /\ depositor = Nobody
    /\ balance = 0
    /\ settled = FALSE
    /\ held = 0
    /\ transfers = <<>>
    /\ received = 0
    /\ released = 0
    /\ outcome = "Ok"

Initialized == admin # Nobody

\* The call is rolled back; the caller sees e.
Refuse(e) == outcome' = e /\ UNCHANGED <<storage, held, history>>

-------------------------------------------------------------------------------
(* initialize: no authorisation is asked; the first caller names the admin. *)

\* Fault: a second initialize is not refused.
InitializeAgain(a) ==
    /\ admin' = a
    /\ settled' = FALSE
    /\ balance' = 0
    /\ outcome' = "Ok"
    /\ UNCHANGED <<depositor, held, history>>

Initialize(a) ==
    \/ Initialized /\ Refuse("AlreadyInitialized")
    \/ /\ ~Initialized
       /\ admin' = a
       /\ settled' = FALSE
       /\ balance' = 0
       /\ outcome' = "Ok"
       /\ UNCHANGED <<depositor, held, history>>

-------------------------------------------------------------------------------
(* deposit: the checks in the order the contract makes them. *)

\* Fault: a closed escrow still takes deposits.
DepositErrorReopened(d, n) ==
    IF n <= 0 THEN "InvalidAmount"
    ELSE IF ~Initialized THEN "NotInitialized"
    ELSE IF depositor \notin {Nobody, d} THEN "DepositorMismatch"
    ELSE IF balance + n > I128Max THEN "BalanceOverflow"
    ELSE "Ok"

\* Fault: the addition is not checked.
DepositErrorUnchecked(d, n) ==
    IF n <= 0 THEN "InvalidAmount"
    ELSE IF settled THEN "AlreadySettled"
    ELSE IF ~Initialized THEN "NotInitialized"
    ELSE IF depositor \notin {Nobody, d} THEN "DepositorMismatch"
    ELSE "Ok"

DepositError(d, n) ==
    IF n <= 0 THEN "InvalidAmount"
    ELSE IF settled THEN "AlreadySettled"
    ELSE IF ~Initialized THEN "NotInitialized"
    ELSE IF depositor \notin {Nobody, d} THEN "DepositorMismatch"
    ELSE IF balance + n > I128Max THEN "BalanceOverflow"
    ELSE "Ok"

\* funded: whether the token lets d pay n (its allowance and its balance).
\* The transfer precedes checked_add, so an unfunded deposit traps before
\* an overflow is noticed.
Deposit(signer, d, n, funded) ==
    LET e == DepositError(d, n) IN
    \/ signer # d /\ Refuse("Trap")
    \/ /\ signer = d
       /\ e \in {"Ok", "BalanceOverflow"}
       /\ ~funded
       /\ Refuse("Trap")
    \/ /\ signer = d
       /\ e # "Ok"
       /\ e = "BalanceOverflow" => funded
       /\ Refuse(e)
    \/ /\ signer = d
       /\ e = "Ok"
       /\ funded
       /\ balance' = balance + n
       /\ depositor' = d
       /\ held' = held + n
       /\ transfers' = Append(transfers,
                              [from |-> d, to |-> Escrow, amount |-> n])
       /\ received' = received + n
       /\ outcome' = "Ok"
       /\ UNCHANGED <<admin, settled, released>>

-------------------------------------------------------------------------------
(* The common end of settle and refund.  The token traps if the contract   *)
(* does not own the total, or if a receiver cannot hold USDC (`accepted`). *)

Close(total, payments, accepted) ==
    \/ /\ ~accepted \/ held < total
       /\ Refuse("Trap")
    \/ /\ accepted
       /\ held >= total
       /\ held' = held - total
       /\ transfers' = transfers \o payments
       /\ released' = released + total
       /\ settled' = TRUE
       /\ balance' = 0
       /\ outcome' = "Ok"
       /\ UNCHANGED <<admin, depositor, received>>

(* settle: pay every recipient of the list, the whole balance, once. *)

\* The accumulation loop: total after i recipients, or the first error met.
AddUp(list) ==
    LET sum[i \in 0 .. Len(list)] ==
          IF i = 0 THEN [error |-> "Ok", total |-> 0]
          ELSE LET prev == sum[i - 1]
                   n == list[i][2]
               IN IF prev.error # "Ok" THEN prev
                  ELSE IF n <= 0 THEN [prev EXCEPT !.error = "InvalidAmount"]
                  ELSE IF prev.total + n > I128Max
                       THEN [prev EXCEPT !.error = "BalanceOverflow"]
                  ELSE [prev EXCEPT !.total = prev.total + n]
    IN sum[Len(list)]

\* Fault: part of the balance may stay undistributed.
SettleErrorPartial(list) ==
    LET sum == AddUp(list) IN
    IF settled THEN "AlreadySettled"
    ELSE IF list = <<>> THEN "NoRecipients"
    ELSE IF sum.error \in {"InvalidAmount", "BalanceOverflow"} THEN sum.error
    ELSE IF sum.total <= balance THEN "Ok"
    ELSE "InsufficientBalance"

SettleError(list) ==
    LET sum == AddUp(list) IN
    IF settled THEN "AlreadySettled"
    ELSE IF list = <<>> THEN "NoRecipients"
    ELSE IF sum.error \in {"InvalidAmount", "BalanceOverflow"} THEN sum.error
    ELSE IF sum.total = balance THEN "Ok"
    ELSE IF sum.total < balance THEN "UndistributedBalance"
    ELSE "InsufficientBalance"

\* Fault: a map keyed by address forgets the first of two equal recipients.
PaymentsByAddress(list) ==
    LET last == SelectSeq([i \in 1 .. Len(list) |-> i],
                          LAMBDA i : \A j \in i + 1 .. Len(list) :
                                        list[j][1] # list[i][1])
    IN [k \in 1 .. Len(last) |->
           [from |-> Escrow, to |-> list[last[k]][1],
            amount |-> list[last[k]][2]]]

PaymentsTo(list) ==
    [i \in 1 .. Len(list) |->
        [from |-> Escrow, to |-> list[i][1], amount |-> list[i][2]]]

Settle(signer, list, accepted) ==
    \/ ~Initialized /\ Refuse("NotInitialized")
    \/ Initialized /\ signer # admin /\ Refuse("Trap")
    \/ /\ Initialized
       /\ signer = admin
       /\ SettleError(list) # "Ok"
       /\ Refuse(SettleError(list))
    \/ /\ Initialized
       /\ signer = admin
       /\ SettleError(list) = "Ok"
       /\ Close(AddUp(list).total, PaymentsTo(list), accepted)

-------------------------------------------------------------------------------
(* refund: the whole balance goes back to the recorded depositor. *)

RefundError ==
    IF settled THEN "AlreadySettled"
    ELSE IF balance = 0 THEN "NothingToRefund"
    ELSE IF depositor = Nobody THEN "NotInitialized"
    ELSE "Ok"

Refund(signer, accepted) ==
    \/ ~Initialized /\ Refuse("NotInitialized")
    \/ Initialized /\ signer # admin /\ Refuse("Trap")
    \/ /\ Initialized
       /\ signer = admin
       /\ RefundError # "Ok"
       /\ Refuse(RefundError)
    \/ /\ Initialized
       /\ signer = admin
       /\ RefundError = "Ok"
       /\ Close(balance, <<[from |-> Escrow, to |-> depositor,
                            amount |-> balance]>>, accepted)

-------------------------------------------------------------------------------
(* Environment: anyone may send USDC to the contract address directly; the  *)
(* contract never learns of it.                                             *)

DirectTransfer(n) ==
    /\ n > 0
    /\ held + n <= I128Max
    /\ held' = held + n
    /\ UNCHANGED <<storage, history, outcome>>

Next ==
    \/ \E a \in Accounts : Initialize(a)
    \/ \E s, d \in Accounts, n \in CallAmounts, f \in BOOLEAN :
          Deposit(s, d, n, f)
    \/ \E s \in Accounts, list \in CallLists, ok \in BOOLEAN :
          Settle(s, list, ok)
    \/ \E s \in Accounts, ok \in BOOLEAN : Refund(s, ok)
    \/ \E n \in CallAmounts : DirectTransfer(n)

Spec == Init /\ [][Next]_vars

-------------------------------------------------------------------------------
(* Properties *)

\* Every storage key, event sum and outcome the contract can hold; balance
\* fits an i128 (BalanceOverflow is raised before it would not).
TypeOK ==
    /\ admin \in Accounts \cup {Nobody}
    /\ depositor \in Accounts \cup {Nobody}
    /\ balance \in 0 .. I128Max
    /\ settled \in BOOLEAN
    /\ held \in Nat
    /\ transfers \in Seq(Transfer)
    /\ received \in Nat
    /\ released \in Nat
    /\ outcome \in Outcome

\* The USDC the contract owes (DataKey::Balance) is always USDC it owns, so
\* the transfers of settle and refund can never trap for lack of funds.
Solvency == balance <= held

\* Every unit a deposit event announced is either still owed or was announced
\* by the settled/refunded event, and an unsettled escrow released nothing.
Conservation ==
    /\ received = balance + released
    /\ ~settled => released = 0

\* lib.rs refund: "100% of the pooled balance is returned to that recorded
\* depositor": all USDC that came in through deposit came from one account,
\* the recorded depositor, across top-ups and refused strangers.
OnePayer ==
    \A i \in 1 .. Len(transfers) :
        transfers[i].to = Escrow => transfers[i].from = depositor

Total(isOurs(_)) ==
    LET sum[i \in 0 .. Len(transfers)] ==
          IF i = 0 THEN 0
          ELSE sum[i - 1] + (IF isOurs(transfers[i]) THEN transfers[i].amount
                                                     ELSE 0)
    IN sum[Len(transfers)]

\* The events tell the truth: what they add up to is what the token moved,
\* recipient by recipient, even when one address is listed twice.
EventsMatchTransfers ==
    /\ Total(LAMBDA t : t.to = Escrow) = received
    /\ Total(LAMBDA t : t.from = Escrow) = released

\* is_settled is final: no later call moves USDC or touches the storage.
SettledIsFinal ==
    [][settled => UNCHANGED <<storage, history>>]_vars

Promise == INSTANCE EscrowPromise
    WITH payer <- depositor, pot <- balance, closed <- settled,
         released <- released

\* The contract implements what EscrowPromise states.
ImplementsPromise == Promise!Spec

\* The money is where the contract says: it holds what it owes, nothing is
\* created or lost, and one account paid all of it in (lib.rs).
FundsKept == Solvency /\ Conservation /\ OnePayer
==============================================================================
