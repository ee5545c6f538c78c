----------------------------- MODULE CustodyProofs -----------------------------
(***************************************************************************)
(* Proofs about the escrow contract and the sequence allocator, and about  *)
(* the two beside the webhook route, for every value of the constants.     *)
(*                                                                         *)
(* The contract.  The inductive invariant adds to the checked invariants   *)
(* the fact that an uninitialised contract is empty and open: without it,  *)
(* initialize (which writes Balance and Settled) could lose money or       *)
(* reopen a closed escrow.  That the events agree with the transfers is a  *)
(* statement about sums over sequences of any length; it rests on running  *)
(* sums (FlowSum) and an induction over their length.                      *)
(*                                                                         *)
(* The allocator.  Once some worker is about to increment, the base key    *)
(* exists and that worker holds the same base.  SET NX gives it: the key   *)
(* never changes once it is set.                                           *)
(***************************************************************************)
EXTENDS MCCustody, WebhookRouteProofs, WellFoundedInduction, TLAPS

-------------------------------------------------------------------------------
(* Induction and running sums *)

\* A non-empty set of numbers has a least one.
LEMMA LeastNumber ==
    ASSUME NEW S \in SUBSET Nat, S # {}
    PROVE  \E d \in S : \A e \in S : d <= e
<1>1. PICK d \in S : \A e \in S : ~ (<<e, d>> \in OpToRel(<, Nat))
    BY NatLessThanWellFounded, WFMin
<1>2. \A e \in Nat : e < d => <<e, d>> \in OpToRel(<, Nat)
    BY SMT DEF OpToRel
<1>3. \A e \in S : ~ (e < d)
    BY <1>1, <1>2, Zenon
<1> QED
    BY <1>3

\* Induction over the numbers, in the form the provers can use: a set of them.
LEMMA NumberInduction ==
    ASSUME NEW T, 0 \in T, \A n \in Nat : n \in T => n + 1 \in T
    PROVE  Nat \subseteq T
<1> DEFINE bad == Nat \ T
<1> SUFFICES ASSUME bad # {} PROVE FALSE
    OBVIOUS
<1>1. PICK d \in bad : \A e \in bad : d <= e
    BY LeastNumber
<1>2. d # 0 /\ d - 1 \in Nat /\ ~(d <= d - 1)
    BY SMT
<1>3. d - 1 \in T
    BY <1>1, <1>2
<1>4. (d - 1) + 1 \in T
    BY <1>2, <1>3
<1>5. (d - 1) + 1 = d
    OBVIOUS
<1> QED
    BY <1>4, <1>5

-------------------------------------------------------------------------------
\* f gives the sums of the first amounts of a: what Total adds up.
Sums(f, a, n) == f = [i \in 0 .. n |-> IF i = 0 THEN 0 ELSE f[i - 1] + a[i]]

\* The two halves of Sums.
LEMMA SumsAt ==
    ASSUME NEW n \in Nat, NEW a, NEW f, Sums(f, a, n)
    PROVE  /\ f[0] = 0
           /\ \A i \in Nat : i + 1 <= n => f[i + 1] = f[i] + a[i + 1]
<1>1. \A i \in 0 .. n : f[i] = IF i = 0 THEN 0 ELSE f[i - 1] + a[i]
    BY Zenon DEF Sums
<1>2. 0 \in 0 .. n
    OBVIOUS
<1>3. ASSUME NEW i \in Nat, i + 1 <= n PROVE f[i + 1] = f[i] + a[i + 1]
    <2>1. i + 1 \in 0 .. n /\ i + 1 # 0 /\ (i + 1) - 1 = i
        BY <1>3
    <2>2. f[i + 1] = f[(i + 1) - 1] + a[i + 1]
        BY <1>1, <2>1, Zenon
    <2> QED
        BY <2>1, <2>2, Zenon
<1>4. f[0] = 0
    BY <1>1, <1>2, Zenon
<1> QED
    BY <1>3, <1>4

\* There are such sums.
LEMMA SumsExist ==
    ASSUME NEW n \in Nat, NEW a \in [1 .. n -> Int]
    PROVE  \E f \in [0 .. n -> Int] : Sums(f, a, n)
<1> DEFINE T == {k \in Nat : k <= n => \E f \in [0 .. k -> Int] : Sums(f, a, k)}
<1>1. 0 \in T
    <2> DEFINE f == [i \in 0 .. 0 |-> 0]
    <2>1. f \in [0 .. 0 -> Int]
        OBVIOUS
    <2>2. f = [i \in 0 .. 0 |-> IF i = 0 THEN 0 ELSE f[i - 1] + a[i]]
        OBVIOUS
    <2>3. Sums(f, a, 0)
        BY <2>2, Zenon DEF Sums
    <2> QED
        BY <2>1, <2>3
<1>2. ASSUME NEW k \in Nat, k \in T PROVE k + 1 \in T
    <2> SUFFICES ASSUME k + 1 <= n PROVE \E f \in [0 .. k + 1 -> Int] : Sums(f, a, k + 1)
        BY DEF T
    <2>1. k <= n
        OBVIOUS
    <2>2. PICK f \in [0 .. k -> Int] : Sums(f, a, k)
        BY <1>2, <2>1
    <2> DEFINE g == [i \in 0 .. k + 1 |-> IF i = k + 1 THEN f[k] + a[k + 1] ELSE f[i]]
    <2>3. a[k + 1] \in Int /\ f[k] \in Int
        OBVIOUS
    <2>4. g \in [0 .. k + 1 -> Int]
        BY <2>3
    <2>5. \A i \in 0 .. k : f[i] = IF i = 0 THEN 0 ELSE f[i - 1] + a[i]
        BY <2>2, Zenon DEF Sums
    <2>6. \A i \in 0 .. k + 1 : g[i] = IF i = 0 THEN 0 ELSE g[i - 1] + a[i]
        <3> SUFFICES ASSUME NEW i \in 0 .. k + 1 PROVE g[i] = IF i = 0 THEN 0 ELSE g[i - 1] + a[i]
            BY Zenon
        <3>1. CASE i = k + 1
            <4>1. g[i] = f[k] + a[k + 1] /\ i - 1 = k /\ i # 0 /\ k \in 0 .. k + 1 /\ k # k + 1
                BY <3>1
            <4>2. g[i - 1] = f[k]
                BY <4>1
            <4> QED
                BY <3>1, <4>1, <4>2, Zenon
        <3>2. CASE i # k + 1
            <4>1. i \in 0 .. k /\ g[i] = f[i]
                BY <3>2
            <4>2. CASE i = 0
                BY <2>5, <4>1, <4>2
            <4>3. CASE i # 0
                <5>1. i - 1 \in 0 .. k + 1 /\ i - 1 # k + 1
                    BY <4>3, <3>2
                <5>2. g[i - 1] = f[i - 1]
                    BY <5>1
                <5> HIDE DEF g
                <5> QED
                    BY <2>5, <4>1, <4>3, <5>2, Zenon
            <4> QED
                BY <4>2, <4>3
        <3> QED
            BY <3>1, <3>2
    <2>7. g = [i \in 0 .. k + 1 |-> g[i]]
        OBVIOUS
    <2> HIDE DEF g
    <2>8. g = [i \in 0 .. k + 1 |-> IF i = 0 THEN 0 ELSE g[i - 1] + a[i]]
        BY <2>6, <2>7, Zenon
    <2>9. Sums(g, a, k + 1)
        BY <2>8, Zenon DEF Sums
    <2> QED
        BY <2>4, <2>9
<1> HIDE DEF T
<1>3. Nat \subseteq T
    BY <1>1, <1>2, NumberInduction
<1> QED
    BY <1>3 DEF T

\* The sum of the first n amounts.
FlowSum(a, n) == (CHOOSE f : Sums(f, a, n))[n]

\* Any function of the kind gives it, and it is a number.
LEMMA FlowSumIs ==
    ASSUME NEW n \in Nat, NEW a \in [1 .. n -> Int], NEW f, Sums(f, a, n)
    PROVE  FlowSum(a, n) = f[n] /\ \A i \in 0 .. n : f[i] \in Int
<1> DEFINE h == CHOOSE g : Sums(g, a, n)
<1>1. Sums(h, a, n)
    BY Zenon
<1> HIDE DEF h
<1>2. h[0] = 0 /\ \A i \in Nat : i + 1 <= n => h[i + 1] = h[i] + a[i + 1]
    BY <1>1, SumsAt
<1>3. f[0] = 0 /\ \A i \in Nat : i + 1 <= n => f[i + 1] = f[i] + a[i + 1]
    BY SumsAt
<1> DEFINE T == {i \in Nat : i <= n => f[i] = h[i] /\ f[i] \in Int}
<1>4. 0 \in T
    BY <1>2, <1>3
<1>5. ASSUME NEW i \in Nat, i \in T PROVE i + 1 \in T
    <2> SUFFICES ASSUME i + 1 <= n PROVE f[i + 1] = h[i + 1] /\ f[i + 1] \in Int
        OBVIOUS
    <2>1. f[i] = h[i] /\ f[i] \in Int
        BY <1>5
    <2>2. a[i + 1] \in Int
        OBVIOUS
    <2> QED
        BY <1>2, <1>3, <2>1, <2>2
<1> HIDE DEF T
<1>6. Nat \subseteq T
    BY <1>4, <1>5, NumberInduction
<1>7. n \in T /\ \A i \in 0 .. n : i \in T
    BY <1>6
<1>8. FlowSum(a, n) = h[n]
    BY DEF FlowSum, h
<1> QED
    BY <1>7, <1>8 DEF T

\* What SumsAt and FlowSumIs say, as one fact to cite.
Running(f, a, n) == f[0] = 0 /\ \A i \in Nat : i + 1 <= n => f[i + 1] = f[i] + a[i + 1]
Reaches(f, a, n) == FlowSum(a, n) = f[n] /\ \A i \in 0 .. n : f[i] \in Int

\* Every list of amounts has its running sum.
LEMMA RunningSum ==
    ASSUME NEW n \in Nat, NEW a \in [1 .. n -> Int]
    PROVE  \E f : Running(f, a, n) /\ Reaches(f, a, n)
<1>1. PICK f : Sums(f, a, n)
    BY SumsExist
<1>2. Running(f, a, n)
    <2>1. f[0] = 0 /\ \A i \in Nat : i + 1 <= n => f[i + 1] = f[i] + a[i + 1]
        BY <1>1, SumsAt
    <2> QED
        BY <2>1, Zenon DEF Running
<1>3. Reaches(f, a, n)
    <2>1. FlowSum(a, n) = f[n] /\ \A i \in 0 .. n : f[i] \in Int
        BY <1>1, FlowSumIs
    <2> QED
        BY <2>1, Zenon DEF Reaches
<1> QED
    BY <1>2, <1>3

\* The sum of c is the sum of a and the sum of b.
Joined(a, n, b, m, c, k) ==
    /\ FlowSum(c, k) = FlowSum(a, n) + FlowSum(b, m)
    /\ FlowSum(a, n) \in Int
    /\ FlowSum(b, m) \in Int

\* Amounts that follow one another are added up one after the other.
LEMMA FlowSumJoins ==
    ASSUME NEW n \in Nat, NEW m \in Nat, NEW k \in Nat, k = n + m,
           NEW a \in [1 .. n -> Int], NEW b \in [1 .. m -> Int], NEW c \in [1 .. k -> Int],
           \A i \in 1 .. n : c[i] = a[i], \A j \in 1 .. m : c[n + j] = b[j]
    PROVE  Joined(a, n, b, m, c, k)
<1>1. PICK f : Running(f, a, n) /\ Reaches(f, a, n)
    BY RunningSum
<1>2. PICK g : Running(g, b, m) /\ Reaches(g, b, m)
    BY RunningSum
<1>3. PICK h : Running(h, c, k) /\ Reaches(h, c, k)
    BY RunningSum
<1>4. f[0] = 0 /\ \A i \in Nat : i + 1 <= n => f[i + 1] = f[i] + a[i + 1]
    BY <1>1, Zenon DEF Running
<1>5. g[0] = 0 /\ \A i \in Nat : i + 1 <= m => g[i + 1] = g[i] + b[i + 1]
    BY <1>2, Zenon DEF Running
<1>6. h[0] = 0 /\ \A i \in Nat : i + 1 <= k => h[i + 1] = h[i] + c[i + 1]
    BY <1>3, Zenon DEF Running
<1>7. FlowSum(a, n) = f[n] /\ f[n] \in Int
    <2>1. n \in 0 .. n
        OBVIOUS
    <2> QED
        BY <1>1, <2>1, Zenon DEF Reaches
<1>8. FlowSum(b, m) = g[m] /\ (\A i \in 0 .. m : g[i] \in Int) /\ g[m] \in Int
    <2>1. m \in 0 .. m
        OBVIOUS
    <2> QED
        BY <1>2, <2>1, Zenon DEF Reaches
<1>9. FlowSum(c, k) = h[k]
    BY <1>3, Zenon DEF Reaches
<1> DEFINE T == {i \in Nat : i <= n => h[i] = f[i]}
           U == {j \in Nat : j <= m => h[n + j] = f[n] + g[j]}
<1>10. 0 \in T
    BY <1>4, <1>6
<1>11. ASSUME NEW i \in Nat, i \in T PROVE i + 1 \in T
    <2> SUFFICES ASSUME i + 1 <= n PROVE h[i + 1] = f[i + 1]
        OBVIOUS
    <2>1. h[i] = f[i] /\ i + 1 <= k /\ i + 1 \in 1 .. n
        BY <1>11
    <2>2. c[i + 1] = a[i + 1]
        BY <2>1
    <2>3. h[i + 1] = h[i] + c[i + 1] /\ f[i + 1] = f[i] + a[i + 1]
        BY <1>4, <1>6, <2>1, Zenon
    <2> QED
        BY <2>1, <2>2, <2>3, Zenon
<1>12. n \in T
    <2> HIDE DEF T
    <2>1. Nat \subseteq T
        BY <1>10, <1>11, NumberInduction
    <2> QED
        BY <2>1
<1>13. h[n] = f[n]
    BY <1>12
<1>14. 0 \in U
    BY <1>5, <1>7, <1>13
<1>15. ASSUME NEW j \in Nat, j \in U PROVE j + 1 \in U
    <2> SUFFICES ASSUME j + 1 <= m PROVE h[n + (j + 1)] = f[n] + g[j + 1]
        OBVIOUS
    <2>1. h[n + j] = f[n] + g[j] /\ n + j \in Nat /\ (n + j) + 1 <= k /\ j + 1 \in 1 .. m
          /\ (n + j) + 1 = n + (j + 1) /\ g[j] \in Int
        BY <1>8, <1>15
    <2>2. c[n + (j + 1)] = b[j + 1] /\ b[j + 1] \in Int
        BY <2>1
    <2>3. h[(n + j) + 1] = h[n + j] + c[(n + j) + 1] /\ g[j + 1] = g[j] + b[j + 1]
        BY <1>5, <1>6, <2>1, Zenon
    <2>4. h[n + (j + 1)] = (f[n] + g[j]) + b[j + 1]
        BY <2>1, <2>2, <2>3, Zenon
    <2> QED
        BY <1>7, <2>1, <2>2, <2>3, <2>4
<1>16. m \in U
    <2> HIDE DEF U
    <2>1. Nat \subseteq U
        BY <1>14, <1>15, NumberInduction
    <2> QED
        BY <2>1
<1>17. h[n + m] = f[n] + g[m]
    BY <1>16
<1> QED
    BY <1>7, <1>8, <1>9, <1>17 DEF Joined

\* Nothing is the sum of nothing, and one amount is its own sum.
LEMMA FlowSumShort ==
    ASSUME NEW a
    PROVE  /\ a \in [1 .. 0 -> Int] => FlowSum(a, 0) = 0
           /\ a \in [1 .. 1 -> Int] => FlowSum(a, 1) = a[1]
<1>1. ASSUME a \in [1 .. 0 -> Int] PROVE FlowSum(a, 0) = 0
    <2>1. PICK f : Sums(f, a, 0)
        BY <1>1, SumsExist
    <2>2. f[0] = 0
        BY <2>1, SumsAt
    <2> QED
        BY <1>1, <2>1, <2>2, FlowSumIs
<1>2. ASSUME a \in [1 .. 1 -> Int] PROVE FlowSum(a, 1) = a[1]
    <2>1. PICK f : Sums(f, a, 1)
        BY <1>2, SumsExist
    <2>2. f[0] = 0 /\ f[0 + 1] = f[0] + a[0 + 1]
        BY <2>1, SumsAt
    <2>3. a[1] \in Int
        BY <1>2
    <2>4. FlowSum(a, 1) = f[1]
        BY <1>2, <2>1, FlowSumIs
    <2> QED
        BY <2>2, <2>3, <2>4
<1> QED
    BY <1>1, <1>2

\* Amounts that are all zero add up to zero.
LEMMA FlowSumZero ==
    ASSUME NEW n \in Nat, NEW a \in [1 .. n -> Int], \A i \in 1 .. n : a[i] = 0
    PROVE  FlowSum(a, n) = 0
<1>1. PICK f : Sums(f, a, n)
    BY SumsExist
<1>2. f[0] = 0 /\ \A i \in Nat : i + 1 <= n => f[i + 1] = f[i] + a[i + 1]
    BY <1>1, SumsAt
<1> DEFINE T == {i \in Nat : i <= n => f[i] = 0}
<1>3. 0 \in T
    BY <1>2
<1>4. ASSUME NEW i \in Nat, i \in T PROVE i + 1 \in T
    <2> SUFFICES ASSUME i + 1 <= n PROVE f[i + 1] = 0
        OBVIOUS
    <2>1. f[i] = 0 /\ a[i + 1] = 0
        BY <1>4
    <2> QED
        BY <1>2, <2>1
<1> HIDE DEF T
<1>5. Nat \subseteq T
    BY <1>3, <1>4, NumberInduction
<1>6. f[n] = 0
    BY <1>5 DEF T
<1> QED
    BY <1>1, <1>6, FlowSumIs

-------------------------------------------------------------------------------
(* What the transfers move in and out of the escrow *)

\* What the transfers of ts moved, one by one, with the escrow at the end "to".
InFlow(ts) == [i \in 1 .. Len(ts) |-> IF ts[i].to = Escrow THEN ts[i].amount ELSE 0]
FlowIn(ts) == FlowSum(InFlow(ts), Len(ts))

\* They are numbers.
LEMMA InFlowType ==
    ASSUME NEW ts \in Seq(Transfer)
    PROVE  InFlow(ts) \in [1 .. Len(ts) -> Int] /\ Len(ts) \in Nat
<1>0. \A i \in 1 .. Len(ts) : ts[i] \in Transfer
    OBVIOUS
<1>1. \A i \in 1 .. Len(ts) : ts[i].amount \in Int
    BY <1>0 DEF Transfer
<1>2. \A i \in 1 .. Len(ts) : (IF ts[i].to = Escrow THEN ts[i].amount ELSE 0) \in Int
    BY <1>1
<1> QED
    BY <1>2 DEF InFlow

\* Total adds them up.
LEMMA TotalIn ==
    ASSUME transfers \in Seq(Transfer)
    PROVE  Total(LAMBDA t : t.to = Escrow) = FlowIn(transfers)
<1> DEFINE n == Len(transfers)
           a == InFlow(transfers)
           P(f) == f = [i \in 0 .. n |-> IF i = 0 THEN 0
                        ELSE f[i - 1] + (IF transfers[i].to = Escrow THEN transfers[i].amount ELSE 0)]
           h == CHOOSE f : P(f)
<1>1. n \in Nat /\ a \in [1 .. n -> Int]
    BY InFlowType
<1>2. \A i \in 1 .. n : a[i] = IF transfers[i].to = Escrow THEN transfers[i].amount ELSE 0
    BY DEF InFlow
<1>3. Total(LAMBDA t : t.to = Escrow) = h[n]
    BY DEF Total
<1>4. \A i \in 0 .. n : i # 0 => i \in 1 .. n
    BY <1>1
<1> HIDE DEF a, n
<1>5. ASSUME NEW f PROVE P(f) <=> Sums(f, a, n)
    <2>1. \A i \in 0 .. n : i # 0 => a[i] = IF transfers[i].to = Escrow THEN transfers[i].amount ELSE 0
        BY <1>2, <1>4, Zenon
    <2>2. [i \in 0 .. n |-> IF i = 0 THEN 0
              ELSE f[i - 1] + (IF transfers[i].to = Escrow THEN transfers[i].amount ELSE 0)]
          = [i \in 0 .. n |-> IF i = 0 THEN 0 ELSE f[i - 1] + a[i]]
        BY <2>1, Zenon
    <2> QED
        BY <2>2, Zenon DEF Sums
<1>6. PICK f : Sums(f, a, n)
    BY <1>1, SumsExist
<1> HIDE DEF P
<1>7. P(h)
    BY <1>5, <1>6, Zenon
<1> HIDE DEF h
<1>8. Sums(h, a, n)
    BY <1>5, <1>7, Zenon
<1>9. FlowSum(a, n) = h[n]
    BY <1>1, <1>8, FlowSumIs
<1> QED
    BY <1>3, <1>9, Zenon DEF FlowIn, a, n

\* Transfers that follow others add to what those moved.
LEMMA FlowInJoins ==
    ASSUME NEW ss \in Seq(Transfer), NEW ts \in Seq(Transfer)
    PROVE  /\ FlowIn(ss \o ts) = FlowIn(ss) + FlowIn(ts)
           /\ FlowIn(ss) \in Int /\ FlowIn(ts) \in Int
<1> DEFINE n == Len(ss)
           m == Len(ts)
           k == Len(ss \o ts)
           a == InFlow(ss)
           b == InFlow(ts)
           c == InFlow(ss \o ts)
<1>0. ss \o ts \in Seq(Transfer)
    OBVIOUS
<1>1. n \in Nat /\ m \in Nat /\ k \in Nat /\ k = n + m
    OBVIOUS
<1>2. a \in [1 .. n -> Int] /\ b \in [1 .. m -> Int]
    BY InFlowType
<1>3. c \in [1 .. k -> Int]
    BY <1>0, InFlowType
<1>4. \A i \in 1 .. n : c[i] = a[i]
    BY DEF InFlow
<1>5. \A j \in 1 .. m : c[n + j] = b[j]
    <2> SUFFICES ASSUME NEW j \in 1 .. m PROVE c[n + j] = b[j]
        OBVIOUS
    <2>1. n + j \in 1 .. k /\ (ss \o ts)[n + j] = ts[j]
        OBVIOUS
    <2> QED
        BY <2>1 DEF InFlow
<1> HIDE DEF n, m, k, a, b, c
<1>6. Joined(a, n, b, m, c, k)
    BY <1>1, <1>2, <1>3, <1>4, <1>5, FlowSumJoins
<1> QED
    BY <1>6, Zenon DEF Joined, FlowIn, a, b, c, n, m, k

\* One transfer moves its amount, or nothing of the escrow's.
LEMMA FlowInOne ==
    ASSUME NEW t \in Transfer
    PROVE  FlowIn(<<t>>) = IF t.to = Escrow THEN t.amount ELSE 0
<1>1. <<t>> \in Seq(Transfer) /\ Len(<<t>>) = 1 /\ <<t>>[1] = t /\ 1 \in 1 .. 1
    OBVIOUS
<1>2. InFlow(<<t>>) \in [1 .. 1 -> Int]
    BY <1>1, InFlowType
<1>3. InFlow(<<t>>)[1] = IF t.to = Escrow THEN t.amount ELSE 0
    BY <1>1 DEF InFlow
<1>4. FlowSum(InFlow(<<t>>), 1) = InFlow(<<t>>)[1]
    BY <1>2, FlowSumShort
<1> QED
    BY <1>1, <1>3, <1>4, Zenon DEF FlowIn

\* What the transfers of ts moved, one by one, with the escrow at the end "from".
OutFlow(ts) == [i \in 1 .. Len(ts) |-> IF ts[i].from = Escrow THEN ts[i].amount ELSE 0]
FlowOut(ts) == FlowSum(OutFlow(ts), Len(ts))

\* They are numbers.
LEMMA OutFlowType ==
    ASSUME NEW ts \in Seq(Transfer)
    PROVE  OutFlow(ts) \in [1 .. Len(ts) -> Int] /\ Len(ts) \in Nat
<1>0. \A i \in 1 .. Len(ts) : ts[i] \in Transfer
    OBVIOUS
<1>1. \A i \in 1 .. Len(ts) : ts[i].amount \in Int
    BY <1>0 DEF Transfer
<1>2. \A i \in 1 .. Len(ts) : (IF ts[i].from = Escrow THEN ts[i].amount ELSE 0) \in Int
    BY <1>1
<1> QED
    BY <1>2 DEF OutFlow

\* Total adds them up.
LEMMA TotalOut ==
    ASSUME transfers \in Seq(Transfer)
    PROVE  Total(LAMBDA t : t.from = Escrow) = FlowOut(transfers)
<1> DEFINE n == Len(transfers)
           a == OutFlow(transfers)
           P(f) == f = [i \in 0 .. n |-> IF i = 0 THEN 0
                        ELSE f[i - 1] + (IF transfers[i].from = Escrow THEN transfers[i].amount ELSE 0)]
           h == CHOOSE f : P(f)
<1>1. n \in Nat /\ a \in [1 .. n -> Int]
    BY OutFlowType
<1>2. \A i \in 1 .. n : a[i] = IF transfers[i].from = Escrow THEN transfers[i].amount ELSE 0
    BY DEF OutFlow
<1>3. Total(LAMBDA t : t.from = Escrow) = h[n]
    BY DEF Total
<1>4. \A i \in 0 .. n : i # 0 => i \in 1 .. n
    BY <1>1
<1> HIDE DEF a, n
<1>5. ASSUME NEW f PROVE P(f) <=> Sums(f, a, n)
    <2>1. \A i \in 0 .. n : i # 0 => a[i] = IF transfers[i].from = Escrow THEN transfers[i].amount ELSE 0
        BY <1>2, <1>4, Zenon
    <2>2. [i \in 0 .. n |-> IF i = 0 THEN 0
              ELSE f[i - 1] + (IF transfers[i].from = Escrow THEN transfers[i].amount ELSE 0)]
          = [i \in 0 .. n |-> IF i = 0 THEN 0 ELSE f[i - 1] + a[i]]
        BY <2>1, Zenon
    <2> QED
        BY <2>2, Zenon DEF Sums
<1>6. PICK f : Sums(f, a, n)
    BY <1>1, SumsExist
<1> HIDE DEF P
<1>7. P(h)
    BY <1>5, <1>6, Zenon
<1> HIDE DEF h
<1>8. Sums(h, a, n)
    BY <1>5, <1>7, Zenon
<1>9. FlowSum(a, n) = h[n]
    BY <1>1, <1>8, FlowSumIs
<1> QED
    BY <1>3, <1>9, Zenon DEF FlowOut, a, n

\* Transfers that follow others add to what those moved.
LEMMA FlowOutJoins ==
    ASSUME NEW ss \in Seq(Transfer), NEW ts \in Seq(Transfer)
    PROVE  /\ FlowOut(ss \o ts) = FlowOut(ss) + FlowOut(ts)
           /\ FlowOut(ss) \in Int /\ FlowOut(ts) \in Int
<1> DEFINE n == Len(ss)
           m == Len(ts)
           k == Len(ss \o ts)
           a == OutFlow(ss)
           b == OutFlow(ts)
           c == OutFlow(ss \o ts)
<1>0. ss \o ts \in Seq(Transfer)
    OBVIOUS
<1>1. n \in Nat /\ m \in Nat /\ k \in Nat /\ k = n + m
    OBVIOUS
<1>2. a \in [1 .. n -> Int] /\ b \in [1 .. m -> Int]
    BY OutFlowType
<1>3. c \in [1 .. k -> Int]
    BY <1>0, OutFlowType
<1>4. \A i \in 1 .. n : c[i] = a[i]
    BY DEF OutFlow
<1>5. \A j \in 1 .. m : c[n + j] = b[j]
    <2> SUFFICES ASSUME NEW j \in 1 .. m PROVE c[n + j] = b[j]
        OBVIOUS
    <2>1. n + j \in 1 .. k /\ (ss \o ts)[n + j] = ts[j]
        OBVIOUS
    <2> QED
        BY <2>1 DEF OutFlow
<1> HIDE DEF n, m, k, a, b, c
<1>6. Joined(a, n, b, m, c, k)
    BY <1>1, <1>2, <1>3, <1>4, <1>5, FlowSumJoins
<1> QED
    BY <1>6, Zenon DEF Joined, FlowOut, a, b, c, n, m, k

\* One transfer moves its amount, or nothing of the escrow's.
LEMMA FlowOutOne ==
    ASSUME NEW t \in Transfer
    PROVE  FlowOut(<<t>>) = IF t.from = Escrow THEN t.amount ELSE 0
<1>1. <<t>> \in Seq(Transfer) /\ Len(<<t>>) = 1 /\ <<t>>[1] = t /\ 1 \in 1 .. 1
    OBVIOUS
<1>2. OutFlow(<<t>>) \in [1 .. 1 -> Int]
    BY <1>1, OutFlowType
<1>3. OutFlow(<<t>>)[1] = IF t.from = Escrow THEN t.amount ELSE 0
    BY <1>1 DEF OutFlow
<1>4. FlowSum(OutFlow(<<t>>), 1) = OutFlow(<<t>>)[1]
    BY <1>2, FlowSumShort
<1> QED
    BY <1>1, <1>3, <1>4, Zenon DEF FlowOut

-------------------------------------------------------------------------------
(* The loop of settle: what AddUp returns. *)

\* The amounts of a list of recipients.
Amounts(list) == [i \in 1 .. Len(list) |-> list[i][2]]

Progress == [error : {"Ok", "InvalidAmount", "BalanceOverflow"}, total : Int]

\* One round of the loop.
Added(prev, n) ==
    IF prev.error # "Ok" THEN prev
    ELSE IF n <= 0 THEN [prev EXCEPT !.error = "InvalidAmount"]
    ELSE IF prev.total + n > I128Max THEN [prev EXCEPT !.error = "BalanceOverflow"]
    ELSE [prev EXCEPT !.total = prev.total + n]

\* It adds the amount or stops with an error.
LEMMA AddedType ==
    ASSUME NEW p \in Progress, NEW n \in Int
    PROVE  /\ Added(p, n) \in Progress
           /\ Added(p, n).error = "Ok" => p.error = "Ok" /\ Added(p, n).total = p.total + n
BY EscrowAssumption DEF Added, Progress

\* s holds what the loop has after each round.
Rounds(s, a, n) ==
    s = [i \in 0 .. n |-> IF i = 0 THEN [error |-> "Ok", total |-> 0] ELSE Added(s[i - 1], a[i])]

\* There are such rounds.
LEMMA RoundsExist ==
    ASSUME NEW n \in Nat, NEW a \in [1 .. n -> Int]
    PROVE  \E s \in [0 .. n -> Progress] : Rounds(s, a, n)
<1> DEFINE T == {k \in Nat : k <= n => \E s \in [0 .. k -> Progress] : Rounds(s, a, k)}
           z == [error |-> "Ok", total |-> 0]
<1>0. z \in Progress
    BY DEF Progress
<1> HIDE DEF z
<1>1. 0 \in T
    <2> DEFINE f == [i \in 0 .. 0 |-> z]
    <2>1. f \in [0 .. 0 -> Progress]
        BY <1>0
    <2>2. \A i \in 0 .. 0 : i = 0
        OBVIOUS
    <2>3. [i \in 0 .. 0 |-> IF i = 0 THEN z ELSE Added(f[i - 1], a[i])] = [i \in 0 .. 0 |-> z]
        BY <2>2, Zenon
    <2>4. Rounds(f, a, 0)
        BY <2>3, Zenon DEF Rounds, z
    <2> QED
        BY <2>1, <2>4
<1>2. ASSUME NEW k \in Nat, k \in T PROVE k + 1 \in T
    <2> SUFFICES ASSUME k + 1 <= n PROVE \E s \in [0 .. k + 1 -> Progress] : Rounds(s, a, k + 1)
        BY DEF T
    <2>1. k <= n
        OBVIOUS
    <2>2. PICK f \in [0 .. k -> Progress] : Rounds(f, a, k)
        BY <1>2, <2>1
    <2> DEFINE x == Added(f[k], a[k + 1])
               g == [i \in 0 .. k + 1 |-> IF i = k + 1 THEN x ELSE f[i]]
    <2>3. a[k + 1] \in Int /\ f[k] \in Progress
        OBVIOUS
    <2>4. x \in Progress
        BY <2>3, AddedType
    <2> HIDE DEF x
    <2>41. \A i \in 0 .. k + 1 : i # k + 1 => i \in 0 .. k
        OBVIOUS
    <2>42. \A i \in 0 .. k + 1 : (IF i = k + 1 THEN x ELSE f[i]) \in Progress
        BY <2>4, <2>41
    <2>43. g \in [0 .. k + 1 -> Progress]
        BY <2>42
    <2>5. \A i \in 0 .. k : f[i] = IF i = 0 THEN z ELSE Added(f[i - 1], a[i])
        BY <2>2, Zenon DEF Rounds, z
    <2>6. \A i \in 0 .. k + 1 : g[i] = IF i = 0 THEN z ELSE Added(g[i - 1], a[i])
        <3> SUFFICES ASSUME NEW i \in 0 .. k + 1 PROVE g[i] = IF i = 0 THEN z ELSE Added(g[i - 1], a[i])
            BY Zenon
        <3>1. CASE i = k + 1
            <4>1. g[i] = x /\ i - 1 = k /\ i # 0 /\ k \in 0 .. k + 1 /\ k # k + 1
                BY <3>1
            <4>2. g[i - 1] = f[k]
                BY <4>1
            <4> QED
                BY <3>1, <4>1, <4>2, Zenon DEF x
        <3>2. CASE i # k + 1
            <4>1. i \in 0 .. k /\ g[i] = f[i]
                BY <3>2
            <4>2. CASE i = 0
                <5> HIDE DEF g
                <5> QED
                    BY <2>5, <4>1, <4>2, Zenon
            <4>3. CASE i # 0
                <5>1. i - 1 \in 0 .. k + 1 /\ i - 1 # k + 1
                    BY <4>3, <3>2
                <5>2. g[i - 1] = f[i - 1]
                    BY <5>1
                <5> HIDE DEF g
                <5> QED
                    BY <2>5, <4>1, <4>3, <5>2, Zenon
            <4> QED
                BY <4>2, <4>3
        <3> QED
            BY <3>1, <3>2
    <2>7. g = [i \in 0 .. k + 1 |-> g[i]]
        OBVIOUS
    <2> HIDE DEF g
    <2>8. g = [i \in 0 .. k + 1 |-> IF i = 0 THEN z ELSE Added(g[i - 1], a[i])]
        BY <2>6, <2>7, Zenon
    <2>9. Rounds(g, a, k + 1)
        BY <2>8, Zenon DEF Rounds, z
    <2> QED
        BY <2>43, <2>9
<1> HIDE DEF T
<1>3. Nat \subseteq T
    BY <1>1, <1>2, NumberInduction
<1> QED
    BY <1>3 DEF T

\* The two halves of Rounds.
LEMMA RoundsAt ==
    ASSUME NEW n \in Nat, NEW a, NEW s, Rounds(s, a, n)
    PROVE  /\ s[0] = [error |-> "Ok", total |-> 0]
           /\ \A i \in Nat : i + 1 <= n => s[i + 1] = Added(s[i], a[i + 1])
<1>1. \A i \in 0 .. n : s[i] = IF i = 0 THEN [error |-> "Ok", total |-> 0] ELSE Added(s[i - 1], a[i])
    BY Zenon DEF Rounds
<1>2. 0 \in 0 .. n
    OBVIOUS
<1>3. ASSUME NEW i \in Nat, i + 1 <= n PROVE s[i + 1] = Added(s[i], a[i + 1])
    <2>1. i + 1 \in 0 .. n /\ i + 1 # 0 /\ (i + 1) - 1 = i
        BY <1>3
    <2>2. s[i + 1] = Added(s[(i + 1) - 1], a[i + 1])
        BY <1>1, <2>1, Zenon
    <2> QED
        BY <2>1, <2>2, Zenon
<1>4. s[0] = [error |-> "Ok", total |-> 0]
    BY <1>1, <1>2, Zenon
<1> QED
    BY <1>3, <1>4, Zenon

\* The rounds end with an error or with the sum of all amounts.
LEMMA RoundsAddUp ==
    ASSUME NEW n \in Nat, NEW a \in [1 .. n -> Int], NEW s, Rounds(s, a, n)
    PROVE  s[n] \in Progress /\ (s[n].error = "Ok" => s[n].total = FlowSum(a, n))
<1>1. s[0] = [error |-> "Ok", total |-> 0] /\ \A i \in Nat : i + 1 <= n => s[i + 1] = Added(s[i], a[i + 1])
    <2> HIDE DEF Added
    <2> QED
        BY RoundsAt, Zenon
<1>2. PICK f : Running(f, a, n) /\ Reaches(f, a, n)
    BY RunningSum
<1>3. f[0] = 0 /\ (\A i \in Nat : i + 1 <= n => f[i + 1] = f[i] + a[i + 1]) /\ FlowSum(a, n) = f[n]
    BY <1>2, Zenon DEF Running, Reaches
<1> DEFINE T == {i \in Nat : i <= n => s[i] \in Progress /\ (s[i].error = "Ok" => s[i].total = f[i])}
<1>4. 0 \in T
    <2>1. [error |-> "Ok", total |-> 0] \in Progress
        BY DEF Progress
    <2> QED
        BY <1>1, <1>3, <2>1
<1>5. ASSUME NEW i \in Nat, i \in T PROVE i + 1 \in T
    <2> SUFFICES ASSUME i + 1 <= n
                 PROVE  s[i + 1] \in Progress /\ (s[i + 1].error = "Ok" => s[i + 1].total = f[i + 1])
        OBVIOUS
    <2>1. s[i] \in Progress /\ (s[i].error = "Ok" => s[i].total = f[i]) /\ a[i + 1] \in Int
        BY <1>5
    <2>2. s[i + 1] = Added(s[i], a[i + 1]) /\ f[i + 1] = f[i] + a[i + 1]
        BY <1>1, <1>3, Zenon
    <2>3. /\ Added(s[i], a[i + 1]) \in Progress
          /\ Added(s[i], a[i + 1]).error = "Ok" =>
                s[i].error = "Ok" /\ Added(s[i], a[i + 1]).total = s[i].total + a[i + 1]
        BY <2>1, AddedType
    <2> QED
        BY <2>1, <2>2, <2>3, Zenon
<1> HIDE DEF T
<1>6. Nat \subseteq T
    BY <1>4, <1>5, NumberInduction
<1>7. n \in T
    BY <1>6
<1>8. n <= n
    OBVIOUS
<1> QED
    BY <1>3, <1>7, <1>8, Zenon DEF T

\* AddUp is the last of these rounds.
LEMMA AddUpIs ==
    ASSUME NEW list \in Seq(Accounts \X Int)
    PROVE  /\ AddUp(list) \in Progress
           /\ AddUp(list).error = "Ok" => AddUp(list).total = FlowSum(Amounts(list), Len(list))
<1> DEFINE n == Len(list)
           a == Amounts(list)
           P(f) == f = [i \in 0 .. n |-> IF i = 0 THEN [error |-> "Ok", total |-> 0]
                                         ELSE Added(f[i - 1], list[i][2])]
           h == CHOOSE f : P(f)
<1>1. n \in Nat /\ a \in [1 .. n -> Int]
    <2>1. \A i \in 1 .. n : list[i][2] \in Int
        OBVIOUS
    <2> QED
        BY <2>1 DEF Amounts
<1>2. \A i \in 1 .. n : a[i] = list[i][2]
    BY DEF Amounts
<1>3. AddUp(list) = h[n]
    BY DEF AddUp, Added
<1>4. \A i \in 0 .. n : i # 0 => i \in 1 .. n
    BY <1>1
<1> HIDE DEF a, n
<1>5. ASSUME NEW f PROVE P(f) <=> Rounds(f, a, n)
    <2>1. \A i \in 0 .. n : i # 0 => a[i] = list[i][2]
        BY <1>2, <1>4, Zenon
    <2>2. [i \in 0 .. n |-> IF i = 0 THEN [error |-> "Ok", total |-> 0] ELSE Added(f[i - 1], list[i][2])]
          = [i \in 0 .. n |-> IF i = 0 THEN [error |-> "Ok", total |-> 0] ELSE Added(f[i - 1], a[i])]
        BY <2>1, Zenon
    <2> QED
        BY <2>2, Zenon DEF Rounds
<1>6. PICK f : Rounds(f, a, n)
    BY <1>1, RoundsExist
<1> HIDE DEF P
<1>7. P(h)
    BY <1>5, <1>6, Zenon
<1> HIDE DEF h
<1>8. Rounds(h, a, n)
    BY <1>5, <1>7, Zenon
<1>9. h[n] \in Progress /\ (h[n].error = "Ok" => h[n].total = FlowSum(a, n))
    BY <1>1, <1>8, RoundsAddUp
<1> QED
    BY <1>3, <1>9, Zenon DEF a, n

\* An accepted settlement pays out exactly what it adds up, and nothing in.
LEMMA PaymentsFlow ==
    ASSUME NEW list \in CallLists, SettleError(list) = "Ok"
    PROVE  /\ FlowOut(PaymentsTo(list)) = AddUp(list).total
           /\ FlowIn(PaymentsTo(list)) = 0
<1> DEFINE pay == PaymentsTo(list)
<1>1. list \in Seq(Accounts \X Int) /\ Escrow \notin Accounts
    BY EscrowAssumption
<1>2. \A i \in 1 .. Len(list) : list[i][1] \in Accounts /\ list[i][2] \in Int
    BY <1>1
<1>3. Len(list) \in Nat
    BY <1>1
<1>4. pay \in [1 .. Len(list) -> Transfer]
    BY <1>2 DEF PaymentsTo, Transfer
<1>5. pay \in Seq(Transfer) /\ Len(pay) = Len(list)
    BY <1>3, <1>4
<1>6. \A i \in 1 .. Len(list) : pay[i].to = list[i][1] /\ pay[i].from = Escrow /\ pay[i].amount = list[i][2]
    BY DEF PaymentsTo
<1> HIDE DEF pay
<1>7. AddUp(list).error = "Ok"
    <2> DEFINE sum == AddUp(list)
    <2>1. sum \in Progress
        BY <1>1, AddUpIs
    <2>2. sum.error \notin {"InvalidAmount", "BalanceOverflow"}
        <3>1. SettleError(list) =
                IF settled THEN "AlreadySettled"
                ELSE IF list = <<>> THEN "NoRecipients"
                ELSE IF sum.error \in {"InvalidAmount", "BalanceOverflow"} THEN sum.error
                ELSE IF sum.total = balance THEN "Ok"
                ELSE IF sum.total < balance THEN "UndistributedBalance"
                ELSE "InsufficientBalance"
            BY DEF SettleError
        <3> HIDE DEF sum
        <3> QED
            BY <3>1
    <2> HIDE DEF sum
    <2>3. sum.error = "Ok"
        BY <2>1, <2>2 DEF Progress
    <2> QED
        BY <2>3 DEF sum
<1>8. AddUp(list).total = FlowSum(Amounts(list), Len(list))
    BY <1>1, <1>7, AddUpIs
<1>9. OutFlow(pay) = Amounts(list)
    <2>1. OutFlow(pay) = [i \in 1 .. Len(list) |-> IF pay[i].from = Escrow THEN pay[i].amount ELSE 0]
        BY <1>5, Zenon DEF OutFlow
    <2>2. [i \in 1 .. Len(list) |-> IF pay[i].from = Escrow THEN pay[i].amount ELSE 0]
          = [i \in 1 .. Len(list) |-> list[i][2]]
        BY <1>6, Zenon
    <2> QED
        BY <2>1, <2>2, Zenon DEF Amounts
<1>10. \A i \in 1 .. Len(pay) : InFlow(pay)[i] = 0
    <2>1. \A i \in 1 .. Len(pay) : pay[i].to # Escrow
        BY <1>1, <1>2, <1>5, <1>6, Zenon
    <2> QED
        BY <2>1, Zenon DEF InFlow
<1>11. InFlow(pay) \in [1 .. Len(pay) -> Int] /\ Len(pay) \in Nat
    BY <1>5, InFlowType
<1>12. FlowSum(InFlow(pay), Len(pay)) = 0
    BY <1>10, <1>11, FlowSumZero
<1> QED
    BY <1>5, <1>8, <1>9, <1>12, Zenon DEF FlowIn, FlowOut, pay

-------------------------------------------------------------------------------
(* The contract *)

\* An uninitialised contract is empty and open.
EscrowUntouched == ~Initialized => balance = 0 /\ ~settled

EscrowInv == TypeOK /\ Solvency /\ Conservation /\ OnePayer /\ EscrowUntouched

-------------------------------------------------------------------------------
(* What the checks of the contract tell about the state. *)

\* settle answers one of the declared errors, and accepts only a list that
\* adds up to exactly the balance of an open escrow.
LEMMA SettleAnswer ==
    ASSUME NEW list
    PROVE  /\ SettleError(list) \in Outcome
           /\ SettleError(list) = "Ok" =>
                 ~settled /\ AddUp(list).total = balance
<1> DEFINE sum == AddUp(list)
<1>1. SettleError(list) =
        IF settled THEN "AlreadySettled"
        ELSE IF list = <<>> THEN "NoRecipients"
        ELSE IF sum.error \in {"InvalidAmount", "BalanceOverflow"}
             THEN sum.error
        ELSE IF sum.total = balance THEN "Ok"
        ELSE IF sum.total < balance THEN "UndistributedBalance"
        ELSE "InsufficientBalance"
  BY DEF SettleError
<1> HIDE DEF sum
<1>2. /\ SettleError(list) \in Outcome
      /\ SettleError(list) = "Ok" => ~settled /\ sum.total = balance
  BY <1>1 DEF Outcome, ContractError
<1> QED
  BY <1>2 DEF sum

\* deposit answers one of the declared errors, or "Ok".
LEMMA DepositAnswer ==
    ASSUME NEW d, NEW n
    PROVE  DepositError(d, n) \in Outcome
BY DEF DepositError, Outcome, ContractError

\* So does refund.
LEMMA RefundAnswer == RefundError \in Outcome
BY DEF RefundError, Outcome, ContractError

\* The payments of a settlement are transfers out of the escrow.
LEMMA PaymentsType ==
    ASSUME NEW list \in CallLists
    PROVE  /\ PaymentsTo(list) \in Seq(Transfer)
           /\ \A i \in 1 .. Len(PaymentsTo(list)) :
                 PaymentsTo(list)[i].to # Escrow
<1>1. list \in Seq(Accounts \X Int) /\ Escrow \notin Accounts
  BY EscrowAssumption
<1>2. \A i \in 1 .. Len(list) : list[i][1] \in Accounts /\ list[i][2] \in Int
  BY <1>1
<1>3. Len(list) \in Nat
  BY <1>1
<1>4. PaymentsTo(list) \in [1 .. Len(list) -> Transfer]
  BY <1>2 DEF PaymentsTo, Transfer
<1>5. PaymentsTo(list) \in Seq(Transfer) /\ Len(PaymentsTo(list)) = Len(list)
  BY <1>3, <1>4
<1>6. \A i \in 1 .. Len(list) : PaymentsTo(list)[i].to = list[i][1]
  BY DEF PaymentsTo
<1> QED
  BY <1>1, <1>2, <1>5, <1>6

-------------------------------------------------------------------------------
(* Preservation, operation by operation. *)

\* A refused call leaves the invariant alone.
LEMMA RefusePreserves ==
    ASSUME NEW e \in Outcome, EscrowInv, Refuse(e)
    PROVE  EscrowInv'
BY DEF EscrowInv, TypeOK, Solvency, Conservation, OnePayer, EscrowUntouched, Initialized,
       Refuse, storage, history

\* A release of the whole balance, by settle or refund, keeps the invariant.
LEMMA ClosePreserves ==
    ASSUME EscrowInv, Initialized, ~settled,
           NEW payments \in Seq(Transfer),
           \A i \in 1 .. Len(payments) : payments[i].to # Escrow,
           NEW accepted \in BOOLEAN,
           Close(balance, payments, accepted)
    PROVE  EscrowInv'
<1>1. CASE Refuse("Trap")
  BY <1>1, RefusePreserves DEF Outcome
<1>2. CASE ~Refuse("Trap")
  <2>1. /\ held >= balance
        /\ held' = held - balance
        /\ transfers' = transfers \o payments
        /\ released' = released + balance
        /\ settled' = TRUE
        /\ balance' = 0
        /\ outcome' = "Ok"
        /\ UNCHANGED <<admin, depositor, received>>
    BY <1>2 DEF Close
  <2>2. TypeOK'
    BY <2>1, EscrowAssumption DEF EscrowInv, TypeOK, Outcome
  <2>3. Solvency' /\ Conservation' /\ EscrowUntouched'
    BY <2>1 DEF EscrowInv, TypeOK, Solvency, Conservation, EscrowUntouched, Initialized
  <2>4. OnePayer'
    <3>1. transfers \in Seq(Transfer)
      BY DEF EscrowInv, TypeOK
    <3> SUFFICES ASSUME NEW i \in 1 .. Len(transfers'),
                        transfers'[i].to = Escrow
                 PROVE  transfers'[i].from = depositor
      BY <2>1 DEF OnePayer
    <3>2. CASE i \in 1 .. Len(transfers)
      BY <2>1, <3>1, <3>2 DEF EscrowInv, OnePayer
    <3>3. CASE i \notin 1 .. Len(transfers)
      <4>1. /\ i - Len(transfers) \in 1 .. Len(payments)
            /\ transfers'[i] = payments[i - Len(transfers)]
        BY <2>1, <3>1, <3>3
      <4> QED
        BY <4>1
    <3> QED
      BY <3>2, <3>3
  <2> QED
    BY <2>2, <2>3, <2>4 DEF EscrowInv
<1> QED
  BY <1>1, <1>2

\* initialize changes an untouched contract only.
LEMMA InitializePreserves ==
    ASSUME EscrowInv, NEW a \in Accounts, Initialize(a)
    PROVE  EscrowInv'
<1>1. CASE Refuse("AlreadyInitialized")
  BY <1>1, RefusePreserves DEF Outcome, ContractError
<1>2. CASE ~Refuse("AlreadyInitialized")
  <2>1. /\ ~Initialized
        /\ admin' = a
        /\ settled' = FALSE
        /\ balance' = 0
        /\ outcome' = "Ok"
        /\ UNCHANGED <<depositor, held, history>>
    BY <1>2 DEF Initialize
  <2> QED
    BY <2>1, EscrowAssumption
    DEF EscrowInv, TypeOK, Solvency, Conservation, OnePayer, EscrowUntouched,
        Initialized, history, Outcome
<1> QED
  BY <1>1, <1>2

\* deposit, accepted or refused.
LEMMA DepositPreserves ==
    ASSUME EscrowInv, NEW s \in Accounts, NEW d \in Accounts,
           NEW n \in CallAmounts, NEW f \in BOOLEAN, Deposit(s, d, n, f)
    PROVE  EscrowInv'
<1>1. CASE Refuse("Trap") \/ Refuse(DepositError(d, n))
  BY <1>1, RefusePreserves, DepositAnswer DEF Outcome
<1>2. CASE ~(Refuse("Trap") \/ Refuse(DepositError(d, n)))
  <2>1. /\ DepositError(d, n) = "Ok"
        /\ balance' = balance + n
        /\ depositor' = d
        /\ held' = held + n
        /\ transfers' = Append(transfers,
                               [from |-> d, to |-> Escrow, amount |-> n])
        /\ received' = received + n
        /\ outcome' = "Ok"
        /\ UNCHANGED <<admin, settled, released>>
    BY <1>2 DEF Deposit
  <2>2. /\ n \in Int /\ n > 0
        /\ ~settled
        /\ Initialized
        /\ depositor \in {Nobody, d}
        /\ balance + n <= I128Max
    BY <2>1, EscrowAssumption DEF DepositError, EscrowInv, TypeOK
  <2>3. TypeOK'
    BY <2>1, <2>2, EscrowAssumption DEF EscrowInv, TypeOK, Transfer, Outcome
  <2>4. Solvency' /\ Conservation' /\ EscrowUntouched'
    BY <2>1, <2>2
    DEF EscrowInv, TypeOK, Solvency, Conservation, EscrowUntouched, Initialized
  <2>5. OnePayer'
    <3>1. transfers \in Seq(Transfer)
      BY DEF EscrowInv, TypeOK
    <3> SUFFICES ASSUME NEW i \in 1 .. Len(transfers'),
                        transfers'[i].to = Escrow
                 PROVE  transfers'[i].from = d
      BY <2>1 DEF OnePayer
    <3>2. CASE i \in 1 .. Len(transfers)
      <4>1. transfers'[i] = transfers[i]
        BY <2>1, <3>1, <3>2
      <4>2. transfers[i].from = depositor
        BY <3>2, <4>1 DEF EscrowInv, OnePayer
      <4>3. transfers[i] \in Transfer
        BY <3>1, <3>2
      <4>4. transfers[i].from # Nobody
        BY <4>3, EscrowAssumption DEF Transfer
      <4> QED
        BY <2>2, <4>1, <4>2, <4>4
    <3>3. CASE i \notin 1 .. Len(transfers)
      BY <2>1, <3>1, <3>3
    <3> QED
      BY <3>2, <3>3
  <2> QED
    BY <2>3, <2>4, <2>5 DEF EscrowInv
<1> QED
  BY <1>1, <1>2

\* settle releases exactly the balance or changes nothing.
LEMMA SettlePreserves ==
    ASSUME EscrowInv, NEW s \in Accounts, NEW list \in CallLists,
           NEW ok \in BOOLEAN, Settle(s, list, ok)
    PROVE  EscrowInv'
<1>1. CASE Refuse("NotInitialized") \/ Refuse("Trap")
  BY <1>1, RefusePreserves DEF Outcome, ContractError
<1>2. CASE Refuse(SettleError(list))
  BY <1>2, RefusePreserves, SettleAnswer
<1>3. CASE /\ Initialized
           /\ SettleError(list) = "Ok"
           /\ Close(AddUp(list).total, PaymentsTo(list), ok)
  <2>1. ~settled /\ Close(balance, PaymentsTo(list), ok)
    BY <1>3, SettleAnswer
  <2> QED
    BY <1>3, <2>1, PaymentsType, ClosePreserves
<1> QED
  BY <1>1, <1>2, <1>3 DEF Settle

\* refund releases exactly the balance or changes nothing.
LEMMA RefundPreserves ==
    ASSUME EscrowInv, NEW s \in Accounts, NEW ok \in BOOLEAN, Refund(s, ok)
    PROVE  EscrowInv'
<1> DEFINE pay == <<[from |-> Escrow, to |-> depositor, amount |-> balance]>>
<1>1. CASE Refuse("NotInitialized") \/ Refuse("Trap")
  BY <1>1, RefusePreserves DEF Outcome, ContractError
<1>2. CASE Refuse(RefundError)
  BY <1>2, RefusePreserves, RefundAnswer
<1>3. CASE Initialized /\ RefundError = "Ok" /\ Close(balance, pay, ok)
  <2>1. ~settled /\ depositor \in Accounts
    BY <1>3 DEF RefundError, EscrowInv, TypeOK
  <2>2. /\ pay \in Seq(Transfer)
        /\ \A i \in 1 .. Len(pay) : pay[i].to # Escrow
    BY <2>1, EscrowAssumption DEF EscrowInv, TypeOK, Transfer
  <2> HIDE DEF pay
  <2> QED
    BY <1>3, <2>1, <2>2, ClosePreserves
<1> QED
  BY <1>1, <1>2, <1>3 DEF Refund

\* USDC sent to the address without a call only adds to what it owns.
LEMMA DirectTransferPreserves ==
    ASSUME EscrowInv, NEW n \in CallAmounts, DirectTransfer(n)
    PROVE  EscrowInv'
BY EscrowAssumption
DEF EscrowInv, TypeOK, Solvency, Conservation, OnePayer, EscrowUntouched, Initialized,
    DirectTransfer, storage, history

\* A step that changes nothing keeps the invariant.
LEMMA StutterPreserves ==
    ASSUME EscrowInv, UNCHANGED vars
    PROVE  EscrowInv'
BY DEF EscrowInv, TypeOK, Solvency, Conservation, OnePayer, EscrowUntouched, Initialized,
       vars

-------------------------------------------------------------------------------

\* A contract just deployed satisfies it.
LEMMA EscrowStart == Init => EscrowInv
<1> SUFFICES ASSUME Init PROVE EscrowInv
  OBVIOUS
<1>0. <<>> \in Seq(Transfer)
  OBVIOUS
<1>1. TypeOK
  <2>1. transfers \in Seq(Transfer)
    BY <1>0 DEF Init
  <2>2. balance \in 0 .. I128Max /\ {held, received, released} \subseteq Nat
    BY EscrowAssumption DEF Init
  <2>3. settled \in BOOLEAN /\ outcome \in Outcome
    BY DEF Init, Outcome
  <2>4. {admin, depositor} \subseteq Accounts \cup {Nobody}
    BY DEF Init
  <2> QED
    BY <2>1, <2>2, <2>3, <2>4 DEF TypeOK
<1>2. Len(transfers) = 0
  BY DEF Init
<1>3. OnePayer
  BY <1>2 DEF OnePayer
<1>4. Solvency /\ Conservation /\ EscrowUntouched
  BY DEF Init, Solvency, Conservation, EscrowUntouched
<1> QED
  BY <1>1, <1>3, <1>4 DEF EscrowInv

\* Every call, and every transfer beside the contract, keeps it.
LEMMA EscrowStep == EscrowInv /\ [Next]_vars => EscrowInv'
<1> SUFFICES ASSUME EscrowInv, [Next]_vars PROVE EscrowInv'
  OBVIOUS
<1>1. ASSUME NEW a \in Accounts, Initialize(a) PROVE EscrowInv'
  BY <1>1, InitializePreserves
<1>2. ASSUME NEW s \in Accounts, NEW d \in Accounts, NEW n \in CallAmounts,
             NEW f \in BOOLEAN, Deposit(s, d, n, f)
      PROVE  EscrowInv'
  BY <1>2, DepositPreserves
<1>3. ASSUME NEW s \in Accounts, NEW list \in CallLists, NEW ok \in BOOLEAN,
             Settle(s, list, ok)
      PROVE  EscrowInv'
  BY <1>3, SettlePreserves
<1>4. ASSUME NEW s \in Accounts, NEW ok \in BOOLEAN, Refund(s, ok)
      PROVE  EscrowInv'
  BY <1>4, RefundPreserves
<1>5. ASSUME NEW n \in CallAmounts, DirectTransfer(n) PROVE EscrowInv'
  BY <1>5, DirectTransferPreserves
<1>6. CASE UNCHANGED vars
  BY <1>6, StutterPreserves
<1> QED
  BY <1>1, <1>2, <1>3, <1>4, <1>5, <1>6 DEF Next

\* The strengthened invariant holds in every state of the contract.
THEOREM EscrowInvariance == Spec => []EscrowInv
BY EscrowStart, EscrowStep, PTL DEF Spec

\* Storage and event sums keep their types; the balance fits an i128.
THEOREM EscrowTypeCorrect == Spec => []TypeOK
<1>1. EscrowInv => TypeOK
  BY DEF EscrowInv
<1> QED
  BY <1>1, EscrowInvariance, PTL

\* The contract always owns the USDC it owes.
THEOREM AlwaysSolvent == Spec => []Solvency
<1>1. EscrowInv => Solvency
  BY DEF EscrowInv
<1> QED
  BY <1>1, EscrowInvariance, PTL

\* What came in is owed or was released, and an open escrow released nothing.
THEOREM NothingLost == Spec => []Conservation
<1>1. EscrowInv => Conservation
  BY DEF EscrowInv
<1> QED
  BY <1>1, EscrowInvariance, PTL

\* Everything deposited came from the recorded depositor.
THEOREM SinglePayer == Spec => []OnePayer
<1>1. EscrowInv => OnePayer
  BY DEF EscrowInv
<1> QED
  BY <1>1, EscrowInvariance, PTL

\* The three together: the money is where the contract says it is.
THEOREM FundsSafe == Spec => []FundsKept
<1>1. EscrowInv => FundsKept
  BY DEF EscrowInv, FundsKept
<1> QED
  BY <1>1, EscrowInvariance, PTL

\* After settle or refund no call changes the storage or moves USDC again.
THEOREM Finality == Spec => SettledIsFinal
<1>1. EscrowInv /\ [Next]_vars => [settled => UNCHANGED <<storage, history>>]_vars
  <2> SUFFICES ASSUME EscrowInv, Next, settled
               PROVE  UNCHANGED <<storage, history>>
    BY DEF vars, storage, history
  <2>1. Initialized
    BY DEF EscrowInv, EscrowUntouched
  <2>2. ASSUME NEW e, Refuse(e) PROVE UNCHANGED <<storage, history>>
    BY <2>2 DEF Refuse
  <2>3. ASSUME NEW a \in Accounts, Initialize(a)
        PROVE  UNCHANGED <<storage, history>>
    BY <2>1, <2>2, <2>3 DEF Initialize
  <2>4. ASSUME NEW s \in Accounts, NEW d \in Accounts, NEW n \in CallAmounts,
               NEW f \in BOOLEAN, Deposit(s, d, n, f)
        PROVE  UNCHANGED <<storage, history>>
    <3>1. DepositError(d, n) # "Ok"
      BY DEF DepositError
    <3> QED
      BY <2>2, <2>4, <3>1 DEF Deposit
  <2>5. ASSUME NEW s \in Accounts, NEW list \in CallLists, NEW ok \in BOOLEAN,
               Settle(s, list, ok)
        PROVE  UNCHANGED <<storage, history>>
    <3>1. SettleError(list) # "Ok"
      BY SettleAnswer
    <3> QED
      BY <2>2, <2>5, <3>1 DEF Settle
  <2>6. ASSUME NEW s \in Accounts, NEW ok \in BOOLEAN, Refund(s, ok)
        PROVE  UNCHANGED <<storage, history>>
    <3>1. RefundError # "Ok"
      BY DEF RefundError
    <3> QED
      BY <2>2, <2>6, <3>1 DEF Refund
  <2>7. ASSUME NEW n \in CallAmounts, DirectTransfer(n)
        PROVE  UNCHANGED <<storage, history>>
    BY <2>7 DEF DirectTransfer
  <2> QED
    BY <2>3, <2>4, <2>5, <2>6, <2>7 DEF Next
<1> QED
  BY <1>1, EscrowInvariance, PTL DEF Spec, SettledIsFinal

-------------------------------------------------------------------------------
(* Refinement: every contract call is a step of EscrowPromise or a stutter. *)

\* Money leaves the escrow in one step, completely, and closes it.
LEMMA CloseReleases ==
    ASSUME EscrowInv, ~settled, NEW payments, NEW accepted,
           Close(balance, payments, accepted)
    PROVE  [Promise!Next]_Promise!vars
<1>1. CASE Refuse("Trap")
  BY <1>1 DEF Refuse, storage, history, Promise!vars
<1>2. CASE ~Refuse("Trap")
  <2>1. /\ released' = released + balance
        /\ settled' = TRUE
        /\ balance' = 0
        /\ depositor' = depositor
    BY <1>2 DEF Close
  <2>2. released = 0 /\ balance \in Int
    BY DEF EscrowInv, Conservation, TypeOK
  <2>3. Promise!Release
    BY <2>1, <2>2 DEF Promise!Release
  <2> QED
    BY <2>3 DEF Promise!Next
<1> QED
  BY <1>1, <1>2

\* The contract implements EscrowPromise: one payer, one complete release.
THEOREM Refinement == Spec => ImplementsPromise
<1>1. Init => Promise!Init
  BY DEF Init, Promise!Init
<1>2. EscrowInv /\ [Next]_vars => [Promise!Next]_Promise!vars
  <2> SUFFICES ASSUME EscrowInv, [Next]_vars PROVE [Promise!Next]_Promise!vars
    OBVIOUS
  <2>1. ASSUME NEW e, Refuse(e) PROVE [Promise!Next]_Promise!vars
    BY <2>1 DEF Refuse, storage, history, Promise!vars
  <2>2. ASSUME NEW a \in Accounts, Initialize(a)
        PROVE  [Promise!Next]_Promise!vars
    <3>1. CASE Initialized
      BY <2>1, <2>2, <3>1 DEF Initialize
    <3>2. CASE ~Initialized
      BY <2>2, <3>2
      DEF Initialize, EscrowInv, EscrowUntouched, TypeOK, history, Promise!vars
    <3> QED
      BY <3>1, <3>2
  <2>3. ASSUME NEW s \in Accounts, NEW d \in Accounts, NEW n \in CallAmounts,
               NEW f \in BOOLEAN, Deposit(s, d, n, f)
        PROVE  [Promise!Next]_Promise!vars
    <3>1. CASE Refuse("Trap") \/ Refuse(DepositError(d, n))
      BY <2>1, <3>1
    <3>2. CASE ~(Refuse("Trap") \/ Refuse(DepositError(d, n)))
      <4>1. /\ DepositError(d, n) = "Ok"
            /\ balance' = balance + n
            /\ depositor' = d
            /\ UNCHANGED <<settled, released>>
        BY <2>3, <3>2 DEF Deposit
      <4>2. n \in Int /\ n > 0 /\ ~settled /\ depositor \in {Nobody, d}
        BY <4>1, EscrowAssumption DEF DepositError
      <4>3. Promise!Fill(d)
        BY <4>1, <4>2 DEF Promise!Fill, EscrowInv, TypeOK
      <4> QED
        BY <4>3 DEF Promise!Next
    <3> QED
      BY <3>1, <3>2
  <2>4. ASSUME NEW s \in Accounts, NEW list \in CallLists, NEW ok \in BOOLEAN,
               Settle(s, list, ok)
        PROVE  [Promise!Next]_Promise!vars
    <3>1. CASE \E e \in Outcome : Refuse(e)
      BY <2>1, <3>1
    <3>2. CASE SettleError(list) = "Ok"
               /\ Close(AddUp(list).total, PaymentsTo(list), ok)
      <4>1. ~settled /\ Close(balance, PaymentsTo(list), ok)
        BY <3>2, SettleAnswer
      <4> QED
        BY <4>1, CloseReleases
    <3>3. "NotInitialized" \in Outcome /\ "Trap" \in Outcome
      BY DEF Outcome, ContractError
    <3> QED
      BY <2>4, <3>1, <3>2, <3>3, SettleAnswer DEF Settle
  <2>5. ASSUME NEW s \in Accounts, NEW ok \in BOOLEAN, Refund(s, ok)
        PROVE  [Promise!Next]_Promise!vars
    <3> DEFINE pay == <<[from |-> Escrow, to |-> depositor,
                         amount |-> balance]>>
    <3>1. CASE Refuse("NotInitialized") \/ Refuse("Trap")
               \/ Refuse(RefundError)
      BY <2>1, <3>1
    <3>2. CASE RefundError = "Ok" /\ Close(balance, pay, ok)
      <4>1. ~settled
        BY <3>2 DEF RefundError
      <4> HIDE DEF pay
      <4> QED
        BY <3>2, <4>1, CloseReleases
    <3> QED
      BY <2>5, <3>1, <3>2 DEF Refund
  <2>6. ASSUME NEW n \in CallAmounts, DirectTransfer(n)
        PROVE  [Promise!Next]_Promise!vars
    BY <2>6 DEF DirectTransfer, storage, history, Promise!vars
  <2>7. CASE UNCHANGED vars
    BY <2>7 DEF vars, Promise!vars
  <2> QED
    BY <2>2, <2>3, <2>4, <2>5, <2>6, <2>7 DEF Next
<1> QED
  BY <1>1, <1>2, EscrowInvariance, PTL DEF Spec, ImplementsPromise, Promise!Spec

-------------------------------------------------------------------------------
(* The events and the transfers *)

\* The token moved what the events add up to, in and out.
FlowsRecorded == FlowIn(transfers) = received /\ FlowOut(transfers) = released

\* Nothing has moved in a new contract.
LEMMA FlowsStart == Init => FlowsRecorded
<1> SUFFICES ASSUME Init PROVE FlowsRecorded
    OBVIOUS
<1>1. transfers \in Seq(Transfer) /\ Len(transfers) = 0
    <2>1. <<>> \in Seq(Transfer) /\ Len(<<>>) = 0
        OBVIOUS
    <2> QED
        BY <2>1, Zenon DEF Init
<1>2. received = 0 /\ released = 0
    BY DEF Init
<1>3. InFlow(transfers) \in [1 .. 0 -> Int] /\ OutFlow(transfers) \in [1 .. 0 -> Int]
    <2>1. InFlow(transfers) \in [1 .. Len(transfers) -> Int]
        BY <1>1, InFlowType
    <2>2. OutFlow(transfers) \in [1 .. Len(transfers) -> Int]
        BY <1>1, OutFlowType
    <2> QED
        BY <1>1, <2>1, <2>2, Zenon
<1>4. FlowSum(InFlow(transfers), 0) = 0
    BY <1>3, FlowSumShort
<1>5. FlowSum(OutFlow(transfers), 0) = 0
    BY <1>3, FlowSumShort
<1> QED
    BY <1>1, <1>2, <1>4, <1>5, Zenon DEF FlowsRecorded, FlowIn, FlowOut

\* A release moves out what its event announces, recipient by recipient.
LEMMA CloseRecorded ==
    ASSUME EscrowInv, FlowsRecorded, NEW total \in Int, NEW payments \in Seq(Transfer),
           FlowOut(payments) = total, FlowIn(payments) = 0, NEW accepted,
           Close(total, payments, accepted)
    PROVE  FlowsRecorded'
<1>1. CASE Refuse("Trap")
    BY <1>1, Zenon DEF Refuse, history, FlowsRecorded
<1>2. CASE ~Refuse("Trap")
    <2>1. /\ transfers' = transfers \o payments
          /\ released' = released + total
          /\ received' = received
        BY <1>2 DEF Close
    <2>2. transfers \in Seq(Transfer) /\ received \in Int /\ released \in Int
        BY DEF EscrowInv, TypeOK
    <2>3. FlowIn(transfers \o payments) = FlowIn(transfers) + FlowIn(payments)
        BY <2>2, FlowInJoins
    <2>4. FlowOut(transfers \o payments) = FlowOut(transfers) + FlowOut(payments)
        BY <2>2, FlowOutJoins
    <2>5. FlowIn(transfers \o payments) = received
        BY <2>2, <2>3 DEF FlowsRecorded
    <2>6. FlowOut(transfers \o payments) = released + total
        BY <2>2, <2>4 DEF FlowsRecorded
    <2> QED
        BY <2>1, <2>5, <2>6, Zenon DEF FlowsRecorded
<1> QED
    BY <1>1, <1>2

\* Every call that moves USDC announces what it moves.
LEMMA FlowsStep == EscrowInv /\ FlowsRecorded /\ [Next]_vars => FlowsRecorded'
<1> SUFFICES ASSUME EscrowInv, FlowsRecorded, [Next]_vars PROVE FlowsRecorded'
    OBVIOUS
<1>0. ASSUME UNCHANGED <<transfers, received, released>> PROVE FlowsRecorded'
    BY <1>0, Zenon DEF FlowsRecorded
<1>1. ASSUME NEW e, Refuse(e) PROVE FlowsRecorded'
    BY <1>0, <1>1 DEF Refuse, history
<1>2. ASSUME NEW a \in Accounts, Initialize(a) PROVE FlowsRecorded'
    BY <1>0, <1>1, <1>2 DEF Initialize, history
<1>3. ASSUME NEW s \in Accounts, NEW d \in Accounts, NEW n \in CallAmounts,
             NEW f \in BOOLEAN, Deposit(s, d, n, f)
      PROVE  FlowsRecorded'
    <2>1. CASE Refuse("Trap") \/ Refuse(DepositError(d, n))
        BY <1>1, <2>1
    <2>2. CASE ~(Refuse("Trap") \/ Refuse(DepositError(d, n)))
        <3> DEFINE t == [from |-> d, to |-> Escrow, amount |-> n]
        <3>1. /\ transfers' = Append(transfers, t)
              /\ received' = received + n
              /\ released' = released
            BY <1>3, <2>2 DEF Deposit
        <3>2. transfers \in Seq(Transfer) /\ received \in Int /\ released \in Int
            BY DEF EscrowInv, TypeOK
        <3>3. t \in Transfer /\ n \in Int /\ t.to = Escrow /\ t.from = d /\ t.amount = n /\ d # Escrow
            BY EscrowAssumption DEF Transfer
        <3> HIDE DEF t
        <3>4. <<t>> \in Seq(Transfer) /\ Append(transfers, t) = transfers \o <<t>>
            BY <3>2, <3>3
        <3>5. FlowIn(<<t>>) = n
            BY <3>3, FlowInOne, Zenon
        <3>6. FlowOut(<<t>>) = 0
            BY <3>3, FlowOutOne, Zenon
        <3>7. FlowIn(transfers \o <<t>>) = FlowIn(transfers) + FlowIn(<<t>>)
            BY <3>2, <3>4, FlowInJoins
        <3>8. FlowOut(transfers \o <<t>>) = FlowOut(transfers) + FlowOut(<<t>>)
            BY <3>2, <3>4, FlowOutJoins
        <3>9. FlowIn(transfers \o <<t>>) = received + n
            BY <3>5, <3>7, Zenon DEF FlowsRecorded
        <3>10. FlowOut(transfers \o <<t>>) = released
            BY <3>2, <3>6, <3>8 DEF FlowsRecorded
        <3> QED
            BY <3>1, <3>4, <3>9, <3>10, Zenon DEF FlowsRecorded
    <2> QED
        BY <2>1, <2>2
<1>4. ASSUME NEW s \in Accounts, NEW list \in CallLists, NEW ok \in BOOLEAN, Settle(s, list, ok)
      PROVE  FlowsRecorded'
    <2>1. CASE Refuse("NotInitialized") \/ Refuse("Trap") \/ Refuse(SettleError(list))
        BY <1>1, <2>1
    <2>2. CASE SettleError(list) = "Ok" /\ Close(AddUp(list).total, PaymentsTo(list), ok)
        <3>1. PaymentsTo(list) \in Seq(Transfer)
            BY PaymentsType
        <3>2. FlowOut(PaymentsTo(list)) = AddUp(list).total /\ FlowIn(PaymentsTo(list)) = 0
            BY <2>2, PaymentsFlow
        <3>3. AddUp(list).total \in Int
            <4>1. AddUp(list).total = balance /\ balance \in Int
                BY <2>2, SettleAnswer DEF EscrowInv, TypeOK
            <4> QED
                BY <4>1, Zenon
        <3> QED
            BY <2>2, <3>1, <3>2, <3>3, CloseRecorded
    <2> QED
        BY <1>4, <2>1, <2>2 DEF Settle
<1>5. ASSUME NEW s \in Accounts, NEW ok \in BOOLEAN, Refund(s, ok) PROVE FlowsRecorded'
    <2> DEFINE t == [from |-> Escrow, to |-> depositor, amount |-> balance]
               pay == <<t>>
    <2>1. CASE Refuse("NotInitialized") \/ Refuse("Trap") \/ Refuse(RefundError)
        BY <1>1, <2>1
    <2>2. CASE RefundError = "Ok" /\ Close(balance, pay, ok)
        <3>1. depositor \in Accounts /\ balance \in Int
            BY <2>2 DEF RefundError, EscrowInv, TypeOK
        <3>2. t \in Transfer /\ t.from = Escrow /\ t.to # Escrow /\ t.amount = balance
            BY <3>1, EscrowAssumption DEF Transfer
        <3> HIDE DEF t
        <3>3. pay \in Seq(Transfer)
            BY <3>2
        <3>4. FlowOut(pay) = balance
            BY <3>2, FlowOutOne, Zenon
        <3>5. FlowIn(pay) = 0
            BY <3>2, FlowInOne, Zenon
        <3> HIDE DEF pay
        <3> QED
            BY <2>2, <3>1, <3>3, <3>4, <3>5, CloseRecorded
    <2> QED
        BY <1>5, <2>1, <2>2 DEF Refund
<1>6. ASSUME NEW n \in CallAmounts, DirectTransfer(n) PROVE FlowsRecorded'
    BY <1>0, <1>6 DEF DirectTransfer, history
<1>7. CASE UNCHANGED vars
    BY <1>0, <1>7 DEF vars
<1> QED
    BY <1>2, <1>3, <1>4, <1>5, <1>6, <1>7 DEF Next

\* So the events agree with the token, whatever list was settled.
LEMMA FlowsTold == EscrowInv /\ FlowsRecorded => EventsMatchTransfers
<1> SUFFICES ASSUME EscrowInv, FlowsRecorded PROVE EventsMatchTransfers
    OBVIOUS
<1>1. transfers \in Seq(Transfer)
    BY DEF EscrowInv, TypeOK
<1>2. Total(LAMBDA t : t.to = Escrow) = FlowIn(transfers)
    BY <1>1, TotalIn
<1>3. Total(LAMBDA t : t.from = Escrow) = FlowOut(transfers)
    BY <1>1, TotalOut
<1> QED
    BY <1>2, <1>3 DEF EventsMatchTransfers, FlowsRecorded

\* What the deposited, settled and refunded events add up to is what the token
\* moved in and out of the contract, for every list of recipients, one address
\* listed twice included.
THEOREM EventsMatchTransfersAlways == Spec => []EventsMatchTransfers
<1>1. EscrowInv /\ FlowsRecorded /\ [Next]_vars => EscrowInv' /\ FlowsRecorded'
    BY EscrowStep, FlowsStep
<1>2. Init => EscrowInv /\ FlowsRecorded
    BY EscrowStart, FlowsStart
<1> QED
    BY <1>1, <1>2, FlowsTold, PTL DEF Spec

-------------------------------------------------------------------------------
(* The sequence allocator *)

\* Workers past the load hold the base that is stored.
SameBase ==
    /\ \A w \in Workers : pc[w] = "incr" => base # None /\ got[w] = base
    /\ \A w \in Workers : pc[w] = "reget" => base # None
    /\ base = None => offset = 0

AllocInv == AllocTypeOK /\ DenseAndUnique /\ SameBase

USE AllocatorAssumption

-------------------------------------------------------------------------------
\* A step that touches neither key nor the history keeps the numbers dense.
LEMMA AllocUntouched ==
    ASSUME AllocInv, UNCHANGED <<keys, reserved>>
    PROVE  DenseAndUnique' /\ (base' = None => offset' = 0)
BY DEF AllocInv, DenseAndUnique, SameBase, keys

\* The end of a load: everyone who joined it gets the base that is stored.
LEMMA ResolveOk ==
    ASSUME AllocInv, NEW w \in Workers, NEW value \in Int, value = base',
           base' \in Int \cup {None}, base # None => base' = base,
           Resolve(w, value, "incr"), UNCHANGED <<offset, onLedger, reserved>>
    PROVE  AllocInv'
<1>1. AllocTypeOK'
  <2>1. /\ loads' \in [Processes -> Workers \cup {None}]
        /\ awaits' \in [Workers -> Workers \cup {None}]
    BY DEF AllocInv, AllocTypeOK, Resolve
  <2>2. /\ got' \in [Workers -> Int \cup {None}]
        /\ pc' \in [Workers -> Labels]
    BY DEF AllocInv, AllocTypeOK, Resolve, Labels
  <2>3. \A v \in Workers : pc'[v] \in {"setnx", "reget", "incr"} => got'[v] # None
    BY DEF AllocInv, AllocTypeOK, Resolve
  <2> QED
    BY <2>1, <2>2, <2>3 DEF AllocInv, AllocTypeOK
<1>2. DenseAndUnique'
  <2>1. CASE base = None
    BY <2>1 DEF AllocInv, AllocTypeOK, DenseAndUnique, SameBase
  <2>2. CASE base # None
    BY <2>2 DEF AllocInv, DenseAndUnique
  <2> QED
    BY <2>1, <2>2
<1>3. SameBase'
  BY DEF AllocInv, SameBase, Resolve
<1> QED
  BY <1>1, <1>2, <1>3 DEF AllocInv

-------------------------------------------------------------------------------
\* Reading the base key.
LEMMA GetBaseOk == ASSUME AllocInv, NEW w \in Workers, GetBase(w) PROVE AllocInv'
<1>1. AllocTypeOK'
  BY DEF AllocInv, AllocTypeOK, GetBase, Goto, Labels, keys
<1>2. SameBase'
  BY DEF AllocInv, AllocTypeOK, SameBase, GetBase, Goto, keys
<1> QED
  BY <1>1, <1>2, AllocUntouched DEF AllocInv, GetBase

\* Joining a pending load, or starting one.
LEMMA JoinOrLoadOk == ASSUME AllocInv, NEW w \in Workers, JoinOrLoad(w) PROVE AllocInv'
<1>1. AllocTypeOK'
  <2>1. HomeOf[w] \in Processes
    OBVIOUS
  <2>2. loads' \in [Processes -> Workers \cup {None}]
    BY <2>1 DEF AllocInv, AllocTypeOK, JoinOrLoad
  <2>3. awaits' \in [Workers -> Workers \cup {None}]
    BY <2>1 DEF AllocInv, AllocTypeOK, JoinOrLoad
  <2>4. pc' \in [Workers -> Labels]
    BY DEF AllocInv, AllocTypeOK, JoinOrLoad, Goto, Labels
  <2>5. \A v \in Workers : pc'[v] \in {"setnx", "reget", "incr"} => pc'[v] = pc[v]
    BY DEF AllocInv, AllocTypeOK, JoinOrLoad, Goto
  <2> QED
    BY <2>2, <2>3, <2>4, <2>5 DEF AllocInv, AllocTypeOK, JoinOrLoad, keys
<1>2. SameBase'
  BY DEF AllocInv, AllocTypeOK, SameBase, JoinOrLoad, Goto, keys
<1> QED
  BY <1>1, <1>2, AllocUntouched DEF AllocInv, JoinOrLoad

\* Horizon answers the load.
LEMMA LoadBaseOk == ASSUME AllocInv, NEW w \in Workers, LoadBase(w) PROVE AllocInv'
<1>1. AllocTypeOK'
  BY DEF AllocInv, AllocTypeOK, LoadBase, Goto, Labels, keys
<1>2. SameBase'
  BY DEF AllocInv, AllocTypeOK, SameBase, LoadBase, Goto, keys
<1> QED
  BY <1>1, <1>2, AllocUntouched DEF AllocInv, LoadBase

\* SET NX stores the first base and never replaces one.
LEMMA SetIfAbsentOk ==
    ASSUME AllocInv, NEW w \in Workers, SetIfAbsent(w) PROVE AllocInv'
<1>0. got[w] \in Int
  BY DEF AllocInv, AllocTypeOK, SetIfAbsent
<1>1. CASE base = None
  BY <1>0, <1>1, ResolveOk DEF SetIfAbsent
<1>2. CASE base # None
  <2>1. AllocTypeOK'
    BY <1>0, <1>2 DEF AllocInv, AllocTypeOK, SetIfAbsent, Goto, Labels
  <2>2. SameBase'
    BY <1>2 DEF AllocInv, AllocTypeOK, SameBase, SetIfAbsent, Goto
  <2> QED
    BY <1>2, <2>1, <2>2, AllocUntouched DEF AllocInv, SetIfAbsent, keys
<1> QED
  BY <1>1, <1>2

\* The base read again is there: SET NX failed because the key existed.
LEMMA GetAgainOk ==
    ASSUME AllocInv, NEW w \in Workers, GetAgain(w) PROVE AllocInv'
BY ResolveOk DEF AllocInv, AllocTypeOK, SameBase, GetAgain, keys

\* A failed load takes its joiners with it, and none of them gets a number.
LEMMA LoadFailsOk == ASSUME AllocInv, NEW w \in Workers, LoadFails(w) PROVE AllocInv'
<1>1. AllocTypeOK'
  <2>1. /\ loads' \in [Processes -> Workers \cup {None}]
        /\ awaits' \in [Workers -> Workers \cup {None}]
    BY DEF AllocInv, AllocTypeOK, LoadFails, Resolve
  <2>2. /\ got' \in [Workers -> Int \cup {None}]
        /\ pc' \in [Workers -> Labels]
    BY DEF AllocInv, AllocTypeOK, LoadFails, Resolve, Labels
  <2>3. \A v \in Workers : pc'[v] \in {"setnx", "reget", "incr"} => got'[v] # None
    BY DEF AllocInv, AllocTypeOK, LoadFails, Resolve
  <2> QED
    BY <2>1, <2>2, <2>3 DEF AllocInv, AllocTypeOK, LoadFails, keys
<1>2. SameBase'
  BY DEF AllocInv, AllocTypeOK, SameBase, LoadFails, Resolve, keys
<1> QED
  BY <1>1, <1>2, AllocUntouched DEF AllocInv, LoadFails

\* INCR hands out the next number of the common base.
LEMMA IncrOk ==
    ASSUME AllocInv, NEW w \in Workers, Incr(w),
           reserved' = Append(reserved, TransactionSequence(w))
    PROVE  AllocInv'
<1>1. got[w] = base /\ base \in Int
  BY DEF AllocInv, AllocTypeOK, SameBase, Incr
<1>2. AllocTypeOK'
  BY <1>1 DEF AllocInv, AllocTypeOK, Incr, Goto, Labels, TransactionSequence
<1>3. DenseAndUnique'
  <2>1. /\ reserved \in Seq(Int) /\ offset \in Nat /\ Len(reserved) = offset
        /\ \A i \in 1 .. Len(reserved) : reserved[i] = base + i
    BY DEF AllocInv, AllocTypeOK, DenseAndUnique
  <2>2. reserved' = Append(reserved, base + offset + 1) /\ base' = base /\ offset' = offset + 1
    BY <1>1 DEF Incr, TransactionSequence
  <2>3. Len(reserved') = offset + 1
    BY <1>1, <2>1, <2>2
  <2>4. \A i \in 1 .. Len(reserved') : reserved'[i] = base + i
    BY <1>1, <2>1, <2>2, <2>3
  <2> QED
    BY <2>2, <2>3, <2>4 DEF DenseAndUnique
<1>4. SameBase'
  BY <1>1 DEF AllocInv, AllocTypeOK, SameBase, Incr, Goto
<1> QED
  BY <1>2, <1>3, <1>4 DEF AllocInv

\* A caller starts again.
LEMMA AgainOk == ASSUME AllocInv, NEW w \in Workers, Again(w) PROVE AllocInv'
<1>1. AllocTypeOK'
  BY DEF AllocInv, AllocTypeOK, Again, Goto, Labels, keys
<1>2. SameBase'
  BY DEF AllocInv, AllocTypeOK, SameBase, Again, Goto, keys
<1> QED
  BY <1>1, <1>2, AllocUntouched DEF AllocInv, Again

-------------------------------------------------------------------------------

\* Before the first reservation it holds.
LEMMA AllocStart == AllocInit => AllocInv
<1> SUFFICES ASSUME AllocInit PROVE AllocInv
  OBVIOUS
<1>1. reserved \in Seq(Int) /\ Len(reserved) = 0
  BY DEF AllocInit
<1>2. AllocTypeOK
  BY <1>1 DEF AllocInit, AllocTypeOK, Labels
<1>3. DenseAndUnique /\ SameBase
  BY <1>1 DEF AllocInit, DenseAndUnique, SameBase
<1> QED
  BY <1>2, <1>3 DEF AllocInv

\* Every step of a worker, and every move of the ledger, keeps it.
LEMMA AllocStep == AllocInv /\ [AllocNext]_allocVars => AllocInv'
<1> SUFFICES ASSUME AllocInv, [AllocNext]_allocVars PROVE AllocInv'
  OBVIOUS
<1>1. ASSUME NEW w \in Workers, Ensure(w) PROVE AllocInv'
  BY <1>1, GetBaseOk, JoinOrLoadOk, LoadBaseOk, SetIfAbsentOk, GetAgainOk
  DEF Ensure
<1>2. ASSUME NEW w \in Workers, Reserve(w) PROVE AllocInv'
  BY <1>1, <1>2, LoadFailsOk, IncrOk, AgainOk DEF Reserve
<1>3. CASE LedgerMoves
  BY <1>3 DEF AllocInv, AllocTypeOK, DenseAndUnique, SameBase, LedgerMoves,
              keys, local
<1>4. CASE UNCHANGED allocVars
  BY <1>4 DEF AllocInv, AllocTypeOK, DenseAndUnique, SameBase, allocVars
<1> QED
  BY <1>2, <1>3, <1>4 DEF AllocNext

\* The strengthened invariant holds throughout concurrent reservations.
THEOREM AllocInvariance == AllocSpec => []AllocInv
BY AllocStart, AllocStep, PTL DEF AllocSpec

\* Keys, map and program counters keep their types.
THEOREM AllocTypeCorrect == AllocSpec => []AllocTypeOK
<1>1. AllocInv => AllocTypeOK
  BY DEF AllocInv
<1> QED
  BY <1>1, AllocInvariance, PTL

\* reserveSequence hands out base + 1, base + 2, ... to any number of workers.
THEOREM ConsecutiveNumbers == AllocSpec => []DenseAndUnique
<1>1. AllocInv => DenseAndUnique
  BY DEF AllocInv
<1> QED
  BY <1>1, AllocInvariance, PTL

-------------------------------------------------------------------------------
(* The three together *)

CustodyInv == EscrowInv /\ FlowsRecorded /\ AllocInv /\ RouteInv

\* The contract, the allocator and the route share no state: a step of one is a
\* step or a stutter of each.
LEMMA CustodyEach ==
    ASSUME [CustodyNext]_custodyVars
    PROVE  [Next]_vars /\ [AllocNext]_allocVars /\ [RouteNext]_routeVars
<1>1. CASE UNCHANGED custodyVars
    <2>1. UNCHANGED <<vars, allocVars, routeVars>>
        BY <1>1 DEF custodyVars
    <2> QED
        BY <2>1
<1>2. CASE CustodyNext
    BY <1>2 DEF CustodyNext, AllReserved
<1> QED
    BY <1>1, <1>2

\* Every part of the invariant holds whoever moves.
THEOREM CustodyInvariance == CustodySpec => []CustodyInv
<1>1. CustodyInit => CustodyInv
    BY EscrowStart, FlowsStart, AllocStart, RouteStart DEF CustodyInit, CustodyInv
<1>2. CustodyInv /\ [CustodyNext]_custodyVars => CustodyInv'
    <2> SUFFICES ASSUME CustodyInv, [CustodyNext]_custodyVars PROVE CustodyInv'
        OBVIOUS
    <2>1. [Next]_vars /\ [AllocNext]_allocVars /\ [RouteNext]_routeVars
        BY CustodyEach
    <2>2. EscrowInv' /\ FlowsRecorded'
        BY <2>1, EscrowStep, FlowsStep DEF CustodyInv
    <2>3. AllocInv'
        BY <2>1, AllocStep DEF CustodyInv
    <2>4. RouteInv'
        BY <2>1, RouteStep DEF CustodyInv
    <2> QED
        BY <2>2, <2>3, <2>4 DEF CustodyInv
<1> QED
    BY <1>1, <1>2, PTL DEF CustodySpec

\* The contract's storage, the Redis keys and workers of reserveSequence and the
\* rows and requests of the webhook keep their types together.
THEOREM CustodyTypeCorrect == CustodySpec => []CustodyTypeOK
<1>1. CustodyInv => CustodyTypeOK
    BY DEF CustodyInv, CustodyTypeOK, EscrowInv, AllocInv, RouteInv
<1> QED
    BY <1>1, CustodyInvariance, PTL
================================================================================
