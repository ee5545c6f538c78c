-------------------------- MODULE BatchPayoutProofs --------------------------
(***************************************************************************)
(* Within a call of submitBatchPayout a batch is paid at most once, and a  *)
(* batch reported as paid is on the ledger, for any number of workers,     *)
(* processes, batches and retries.                                         *)
(*                                                                         *)
(* The ledger's sequence number does the work.  A transaction enters the   *)
(* network only with the next number, so whatever is in flight has at most *)
(* that number (NotAhead), and applying any transaction kills everything   *)
(* in flight.  tx_bad_seq says that the number of the transaction in hand  *)
(* is not the next one, so at the moment it is replaced an earlier, still  *)
(* unanswered submission of it is already dead.                            *)
(***************************************************************************)
EXTENDS BatchPayout, SequenceTheorems, TLAPS

Transaction == Workers \X Nat \X Nat \X Nat
SameBatch(s, t) == s[1] = t[1] /\ s[2] = t[2] /\ s[3] = t[3]

Active(w) == pc[w] \in Labels
\* t pays the batch its worker is at.
OfNow(t) == t[2] = call[t[1]] /\ t[3] = batch[t[1]]
\* No transaction is of a call or batch its worker has not come to.
Reached(t) == t[2] <= call[t[1]] /\ (t[2] = call[t[1]] => t[3] <= batch[t[1]])

BatchTyped ==
    /\ BatchTypeOK
    /\ call \in [Workers -> Nat]
    /\ onLedger \in Nat
    /\ applied \subseteq Transaction
    /\ inFlight \subseteq [tx : Transaction, seq : Int]

\* A payment of the batch a worker is at was made by the transaction in hand.
AppliedSound(t) ==
    /\ Reached(t)
    /\ OfNow(t) /\ Active(t[1]) => t[4] = attempts[t[1]] /\ pc[t[1]] = "reserved"

\* What is in flight for the batch a worker is at is the transaction in hand, with
\* its number, or was replaced and is dead.
FlightSound(f) ==
    /\ Reached(f.tx)
    /\ OfNow(f.tx) /\ f.tx[4] < attempts[f.tx[1]] => f.seq <= onLedger
    /\ OfNow(f.tx) /\ Active(f.tx[1]) =>
          \/ f.tx[4] < attempts[f.tx[1]]
          \/ /\ f.tx[4] = attempts[f.tx[1]]
             /\ pc[f.tx[1]] = "reserved" /\ f.seq = seq[f.tx[1]]

CallsSound ==
    /\ \A t \in applied : AppliedSound(t)
    /\ \A f \in inFlight : FlightSound(f)

NotAhead == \A f \in inFlight : f.seq <= onLedger + 1
\* A transaction that may still be applied pays for no batch that is paid.
LiveUnpaid ==
    \A f \in inFlight, t \in applied :
        f.seq = onLedger + 1 /\ SameBatch(f.tx, t) => t = f.tx
Once == \A s, t \in applied : SameBatch(s, t) => s = t

ChainSound == NotAhead /\ LiveUnpaid /\ Once

BatchInv == BatchTyped /\ CallsSound /\ ChainSound /\ SuccessIsPaid

USE AllocatorAssumption, BatchAssumption

-------------------------------------------------------------------------------
(* Transactions *)

\* The transaction in hand names its worker, call, batch and rebuild.
LEMMA TxType ==
    ASSUME BatchTyped, NEW w \in Workers
    PROVE  /\ Tx(w) \in Transaction /\ Tx(w)[1] = w /\ Tx(w)[2] = call[w]
           /\ Tx(w)[3] = batch[w] /\ Tx(w)[4] = attempts[w]
BY DEF BatchTyped, BatchTypeOK, Batches, Tx, Transaction

\* Two transactions for one batch that are the same rebuild are one transaction.
LEMMA TxEqual ==
    ASSUME NEW s \in Transaction, NEW t \in Transaction, SameBatch(s, t), s[4] = t[4]
    PROVE  s = t
BY DEF Transaction, SameBatch

\* The key of the properties is the worker, the call and the batch.
LEMMA KeyOf ==
    ASSUME NEW s \in Transaction, NEW t \in Transaction,
           SubSeq(s, 1, 3) = SubSeq(t, 1, 3)
    PROVE  SameBatch(s, t)
<1> DEFINE S == Workers \cup Nat
<1>1. (\A i \in 1 .. 3 : s[i] \in S) /\ (\A i \in 1 .. 3 : t[i] \in S)
  BY DEF Transaction
<1>2. /\ SubSeq(s, 1, 3)[1] = s[1] /\ SubSeq(s, 1, 3)[2] = s[2] /\ SubSeq(s, 1, 3)[3] = s[3]
      /\ SubSeq(t, 1, 3)[1] = t[1] /\ SubSeq(t, 1, 3)[2] = t[2] /\ SubSeq(t, 1, 3)[3] = t[3]
  BY <1>1, SubSeqProperties
<1> QED
  BY <1>2 DEF SameBatch

-------------------------------------------------------------------------------
(* Steps of the calls *)

\* Who sends nothing sends nothing after other steps of the allocation, and a call
\* that breaks off leaves what it has sent to the ledger.
LEMMA Preparing ==
    ASSUME BatchInv,
           pc' \in [Workers -> Labels \cup {"returned", "threw"}],
           \A v \in Workers : \/ pc'[v] = pc[v] \/ pc'[v] = "threw"
                              \/ pc[v] # "reserved" /\ pc[v] \in Labels
                                 /\ pc'[v] # "reserved",
           offset' \in Nat,
           UNCHANGED <<callVars, onLedger, applied, inFlight>>
    PROVE  BatchInv'
<1>1. UNCHANGED <<call, batch, attempts, tries, seq, result>>
  BY DEF callVars
<1>2. BatchTyped'
  BY <1>1 DEF BatchInv, BatchTyped, BatchTypeOK
<1>3. ASSUME NEW t \in applied' PROVE AppliedSound(t)'
  <2>1. t \in Transaction /\ AppliedSound(t) /\ t[1] \in Workers
    BY <1>3 DEF BatchInv, BatchTyped, CallsSound, Transaction
  <2> QED
    BY <1>1, <2>1 DEF AppliedSound, Reached, OfNow, Active, Labels
<1>4. ASSUME NEW f \in inFlight' PROVE FlightSound(f)'
  <2>1. f.tx \in Transaction /\ FlightSound(f) /\ f.tx[1] \in Workers
    BY <1>4 DEF BatchInv, BatchTyped, CallsSound, Transaction
  <2> QED
    BY <1>1, <2>1 DEF FlightSound, Reached, OfNow, Active, Labels
<1>5. ChainSound'
  BY DEF BatchInv, ChainSound, NotAhead, LiveUnpaid, Once
<1>6. SuccessIsPaid'
  BY <1>1 DEF BatchInv, SuccessIsPaid
<1> QED
  BY <1>2, <1>3, <1>4, <1>5, <1>6 DEF BatchInv, CallsSound

\* results.push: the worker goes on to a batch nothing was sent for, or returns.
LEMMA PushType ==
    ASSUME BatchTyped, NEW w \in Workers, NEW r \in {"ok", "failed"}, Push(w, r)
    PROVE  /\ pc' \in [Workers -> Labels \cup {"returned", "threw"}]
           /\ batch' \in [Workers -> Batches]
           /\ attempts' \in [Workers -> 0 .. MaxBadSeq]
           /\ tries' \in [Workers -> 0 .. MaxTries - 1]
           /\ result' \in [Workers -> [Batches -> {"none", "ok", "failed"}]]
<1>1. batch[w] \in Batches /\ batch[w] \in Nat
  BY DEF BatchTyped, BatchTypeOK, Batches
<1>2. pc' \in [Workers -> Labels \cup {"returned", "threw"}]
  BY DEF BatchTyped, BatchTypeOK, Push, Goto, Labels
<1>3. batch' \in [Workers -> Batches]
  <2>1. CASE batch' = batch
    BY <2>1 DEF BatchTyped, BatchTypeOK
  <2>2. CASE batch[w] < NBatches /\ batch' = [batch EXCEPT ![w] = batch[w] + 1]
    <3>1. batch[w] + 1 \in Batches
      BY <1>1, <2>2 DEF Batches
    <3> QED
      BY <2>2, <3>1 DEF BatchTyped, BatchTypeOK
  <2> QED
    BY <2>1, <2>2 DEF Push
<1>4. attempts' \in [Workers -> 0 .. MaxBadSeq] /\ tries' \in [Workers -> 0 .. MaxTries - 1]
  BY DEF BatchTyped, BatchTypeOK, Push
<1>5. result' \in [Workers -> [Batches -> {"none", "ok", "failed"}]]
  BY <1>1 DEF BatchTyped, BatchTypeOK, Push
<1> QED
  BY <1>2, <1>3, <1>4, <1>5

\* When a call goes on to its next batch or ends, what the other workers have in
\* hand stays sound.
LEMMA PushCalls ==
    ASSUME BatchTyped, NEW w \in Workers, NEW r, Push(w, r),
           onLedger' \in Nat, onLedger <= onLedger',
           \A t \in applied' : t \in Transaction /\ Reached(t)
                               /\ (t[1] # w => AppliedSound(t)),
           \A f \in inFlight' : f.tx \in Transaction /\ f.seq \in Int /\ Reached(f.tx)
                                /\ (f.tx[1] # w => FlightSound(f))
    PROVE  CallsSound'
<1>1. /\ call' = call /\ seq' = seq /\ attempts'[w] = 0
      /\ \/ batch'[w] = batch[w] + 1
         \/ batch'[w] = batch[w] /\ pc'[w] = "returned"
  BY DEF BatchTyped, BatchTypeOK, Push, Goto
<1>2. \A v \in Workers : v # w =>
         pc'[v] = pc[v] /\ batch'[v] = batch[v] /\ attempts'[v] = attempts[v]
  BY DEF BatchTyped, BatchTypeOK, Push, Goto
<1>3. \A v \in Workers : batch[v] \in Nat /\ call[v] \in Nat
  BY DEF BatchTyped, BatchTypeOK, Batches
<1>4. ASSUME NEW t \in applied' PROVE AppliedSound(t)'
  <2>1. t \in Transaction /\ Reached(t) /\ (t[1] # w => AppliedSound(t)) /\ t[1] \in Workers
        /\ t[3] \in Nat
    BY <1>4 DEF Transaction
  <2>2. CASE t[1] = w
    BY <1>1, <1>3, <2>1, <2>2 DEF AppliedSound, Reached, OfNow, Active, Labels
  <2>3. CASE t[1] # w
    BY <1>1, <1>2, <2>1, <2>3 DEF AppliedSound, Reached, OfNow, Active
  <2> QED
    BY <2>2, <2>3
<1>5. ASSUME NEW f \in inFlight' PROVE FlightSound(f)'
  <2>1. /\ f.tx \in Transaction /\ f.seq \in Int /\ Reached(f.tx)
        /\ (f.tx[1] # w => FlightSound(f))
        /\ f.tx[1] \in Workers /\ f.tx[3] \in Nat /\ f.tx[4] \in Nat
    BY <1>5 DEF Transaction
  <2>2. CASE f.tx[1] = w
    BY <1>1, <1>3, <2>1, <2>2 DEF FlightSound, Reached, OfNow, Active, Labels
  <2>3. CASE f.tx[1] # w
    BY <1>1, <1>2, <2>1, <2>3 DEF BatchTyped, FlightSound, Reached, OfNow, Active
  <2> QED
    BY <2>2, <2>3
<1> QED
  BY <1>4, <1>5 DEF CallsSound

\* A result other than success, or success with the transaction applied.
LEMMA PushResult ==
    ASSUME BatchInv, NEW w \in Workers, NEW r, Push(w, r), applied \subseteq applied',
           r = "ok" => Tx(w) \in applied'
    PROVE  SuccessIsPaid'
<1>1. /\ call' = call /\ result' = [result EXCEPT ![w][batch[w]] = r]
      /\ result \in [Workers -> [Batches -> {"none", "ok", "failed"}]]
      /\ batch[w] \in Batches /\ attempts[w] \in 0 .. MaxBadSeq
  BY DEF BatchInv, BatchTyped, BatchTypeOK, Push
<1>2. ASSUME NEW v \in Workers, NEW b \in Batches, result'[v][b] = "ok"
      PROVE  \E k \in 0 .. MaxBadSeq : <<v, call'[v], b, k>> \in applied'
  <2>1. CASE v = w /\ b = batch[w]
    BY <1>1, <1>2, <2>1 DEF Tx
  <2>2. CASE ~(v = w /\ b = batch[w])
    <3>1. result[v][b] = "ok"
      BY <1>1, <1>2, <2>2
    <3> QED
      BY <1>1, <3>1 DEF BatchInv, SuccessIsPaid
  <2> QED
    BY <2>1, <2>2
<1> QED
  BY <1>2 DEF SuccessIsPaid

-------------------------------------------------------------------------------
(* Steps of the ledger *)

\* What a worker with a transaction in hand knows of it.
LEMMA InHand ==
    ASSUME BatchInv, NEW w \in Workers, Sending(w)
    PROVE  /\ \A t \in applied : SameBatch(t, Tx(w)) => t = Tx(w)
           /\ \A f \in inFlight : f.tx = Tx(w) => f.seq = seq[w]
           /\ Tx(w) \in Transaction /\ Reached(Tx(w)) /\ OfNow(Tx(w))
<1>1. /\ Tx(w) \in Transaction /\ Tx(w)[1] = w /\ Tx(w)[2] = call[w]
      /\ Tx(w)[3] = batch[w] /\ Tx(w)[4] = attempts[w]
  BY TxType DEF BatchInv
<1>2. Active(w) /\ pc[w] = "reserved" /\ call[w] \in Nat /\ batch[w] \in Nat
      /\ attempts[w] \in Nat
  BY DEF Active, Sending, Labels, BatchInv, BatchTyped, BatchTypeOK, Batches
<1>3. Reached(Tx(w)) /\ OfNow(Tx(w))
  BY <1>1, <1>2 DEF Reached, OfNow
<1>4. ASSUME NEW t \in applied, SameBatch(t, Tx(w)) PROVE t = Tx(w)
  <2>1. t \in Transaction /\ AppliedSound(t)
    BY DEF BatchInv, BatchTyped, CallsSound
  <2>2. t[4] = Tx(w)[4]
    BY <1>1, <1>2, <1>4, <2>1 DEF AppliedSound, OfNow, SameBatch
  <2> QED
    BY <1>1, <1>4, <2>1, <2>2, TxEqual
<1>5. ASSUME NEW f \in inFlight, f.tx = Tx(w) PROVE f.seq = seq[w]
  <2>1. FlightSound(f)
    BY DEF BatchInv, CallsSound
  <2> QED
    BY <1>1, <1>2, <1>3, <1>5, <2>1 DEF FlightSound
<1> QED
  BY <1>1, <1>3, <1>4, <1>5

\* A transaction enters a ledger with the next number: everything else in flight
\* is dead from now on.
LEMMA LedgerStep ==
    ASSUME BatchInv, onLedger' = onLedger + 1, inFlight' \subseteq inFlight,
           \/ applied' = applied
           \/ \E x \in Transaction : /\ applied' = applied \cup {x}
                                     /\ \A t \in applied : SameBatch(t, x) => t = x
    PROVE  ChainSound' /\ onLedger' \in Nat /\ onLedger <= onLedger'
<1>1. onLedger \in Nat /\ (\A f \in inFlight : f.seq \in Int /\ f.seq <= onLedger + 1)
  BY DEF BatchInv, BatchTyped, ChainSound, NotAhead
<1>2. NotAhead' /\ LiveUnpaid'
  BY <1>1 DEF NotAhead, LiveUnpaid
<1>3. Once'
  BY DEF BatchInv, ChainSound, Once, SameBatch
<1> QED
  BY <1>1, <1>2, <1>3 DEF ChainSound

\* Horizon applies the transaction in hand and says so.
LEMMA AcceptedStep == ASSUME BatchInv, NEW w \in Workers, Accepted(w) PROVE BatchInv'
<1>0. Sending(w) /\ Push(w, "ok") /\ inFlight' = inFlight
  BY DEF Accepted
<1>1. /\ Tx(w) \in Transaction /\ Reached(Tx(w)) /\ Tx(w)[1] = w
      /\ \A t \in applied : SameBatch(t, Tx(w)) => t = Tx(w)
  BY <1>0, InHand, TxType DEF BatchInv
<1>2. applied' = applied \cup {Tx(w)}
  BY DEF Accepted
<1>3. ChainSound' /\ onLedger' \in Nat /\ onLedger <= onLedger'
  <2>1. CASE onLedger' = onLedger + 1
    BY <1>0, <1>1, <1>2, <2>1, LedgerStep
  <2>2. CASE UNCHANGED <<applied, onLedger>>
    BY <1>0, <2>2 DEF BatchInv, BatchTyped, ChainSound, NotAhead, LiveUnpaid, Once
  <2> QED
    BY <2>1, <2>2 DEF Accepted
<1>4. offset' = offset /\ call' = call
  BY DEF Accepted, Push, keys
<1>5. BatchTyped'
  <2>1. applied' \subseteq Transaction
    BY <1>1, <1>2 DEF BatchInv, BatchTyped
  <2> QED
    BY <1>0, <1>3, <1>4, <2>1, PushType DEF BatchInv, BatchTyped, BatchTypeOK
<1>6. CallsSound'
  <2>1. \A t \in applied' : t \in Transaction /\ Reached(t) /\ (t[1] # w => AppliedSound(t))
    BY <1>1, <1>2 DEF BatchInv, BatchTyped, CallsSound, AppliedSound
  <2>2. \A f \in inFlight' : /\ f.tx \in Transaction /\ f.seq \in Int /\ Reached(f.tx)
                             /\ (f.tx[1] # w => FlightSound(f))
    BY <1>0 DEF BatchInv, BatchTyped, CallsSound, FlightSound
  <2> QED
    BY <1>0, <1>3, <2>1, <2>2, PushCalls DEF BatchInv
<1>7. SuccessIsPaid'
  BY <1>0, <1>2, PushResult
<1> QED
  BY <1>3, <1>5, <1>6, <1>7 DEF BatchInv

\* A batch that is given up: the ledger may have moved, nothing was applied.
LEMMA FailedStep ==
    ASSUME BatchInv, NEW w \in Workers, Push(w, "failed"), ChainSound',
           applied' = applied, onLedger' \in Nat, onLedger <= onLedger', offset' = offset,
           \A f \in inFlight' : \/ f \in inFlight
                                \/ /\ f \in [tx : Transaction, seq : Int]
                                   /\ f.tx[1] = w /\ Reached(f.tx)
    PROVE  BatchInv'
<1>1. inFlight' \subseteq [tx : Transaction, seq : Int] /\ call' = call
  BY DEF BatchInv, BatchTyped, Push
<1>2. BatchTyped'
  BY <1>1, PushType DEF BatchInv, BatchTyped, BatchTypeOK
<1>3. CallsSound'
  <2>1. \A t \in applied' : t \in Transaction /\ Reached(t) /\ (t[1] # w => AppliedSound(t))
    BY DEF BatchInv, BatchTyped, CallsSound, AppliedSound
  <2>2. \A f \in inFlight' : /\ f.tx \in Transaction /\ f.seq \in Int /\ Reached(f.tx)
                             /\ (f.tx[1] # w => FlightSound(f))
    BY <1>1 DEF BatchInv, BatchTyped, CallsSound, FlightSound
  <2> QED
    BY <2>1, <2>2, PushCalls DEF BatchInv
<1>4. SuccessIsPaid'
  BY PushResult
<1> QED
  BY <1>2, <1>3, <1>4 DEF BatchInv

\* The catch block reports the batch as failed.
LEMMA PushFailureStep == ASSUME BatchInv, NEW w \in Workers, PushFailure(w) PROVE BatchInv'
<1>1. Push(w, "failed") /\ UNCHANGED <<offset, onLedger, applied, inFlight>>
  BY DEF PushFailure, keys, chain
<1>2. ChainSound' /\ onLedger' \in Nat /\ onLedger <= onLedger'
  BY <1>1 DEF BatchInv, BatchTyped, ChainSound, NotAhead, LiveUnpaid, Once
<1> QED
  BY <1>1, <1>2, FailedStep

\* tx_failed: the number of the transaction in hand is used up, nothing is paid.
LEMMA RefusedStep == ASSUME BatchInv, NEW w \in Workers, Refused(w) PROVE BatchInv'
<1>1. /\ Push(w, "failed") /\ onLedger' = onLedger + 1
      /\ UNCHANGED <<offset, applied, inFlight>>
  BY DEF Refused, keys
<1>2. ChainSound' /\ onLedger' \in Nat /\ onLedger <= onLedger'
  BY <1>1, LedgerStep
<1> QED
  BY <1>1, <1>2, FailedStep

\* An unanswered submission may wait for a ledger, with the next number.
LEMMA FlightAdded ==
    ASSUME BatchInv, NEW w \in Workers, Unanswered(w)
    PROVE  /\ ChainSound' /\ UNCHANGED <<onLedger, applied, offset>>
           /\ \A f \in inFlight' : \/ f \in inFlight
                                   \/ /\ f \in [tx : Transaction, seq : Int]
                                      /\ f.tx = Tx(w) /\ f.seq = seq[w]
<1>0. UNCHANGED <<onLedger, applied, offset>>
  BY DEF Unanswered, chain, keys
<1>1. CASE inFlight' = inFlight
  BY <1>0, <1>1 DEF BatchInv, ChainSound, NotAhead, LiveUnpaid, Once
<1>2. CASE /\ IsNext(w) /\ Tx(w) \notin applied
           /\ inFlight' = inFlight \cup {[tx |-> Tx(w), seq |-> seq[w]]}
  <2> DEFINE g == [tx |-> Tx(w), seq |-> seq[w]]
  <2>1. Sending(w) /\ onLedger \in Nat
    BY DEF Unanswered, BatchInv, BatchTyped
  <2>2. /\ Tx(w) \in Transaction
        /\ \A t \in applied : ~SameBatch(Tx(w), t)
    BY <1>2, <2>1, InHand DEF SameBatch
  <2>3. g \in [tx : Transaction, seq : Int] /\ g.tx = Tx(w) /\ g.seq = onLedger + 1
        /\ g.seq = seq[w]
    BY <1>2, <2>1, <2>2 DEF IsNext
  <2> HIDE DEF g
  <2>4. inFlight' = inFlight \cup {g}
    BY <1>2 DEF g
  <2>5. NotAhead'
    BY <1>0, <2>1, <2>3, <2>4 DEF BatchInv, ChainSound, NotAhead
  <2>6. LiveUnpaid'
    BY <1>0, <2>2, <2>3, <2>4 DEF BatchInv, ChainSound, LiveUnpaid
  <2>7. Once'
    BY <1>0 DEF BatchInv, ChainSound, Once
  <2> QED
    BY <1>0, <2>3, <2>4, <2>5, <2>6, <2>7 DEF ChainSound
<1> QED
  BY <1>1, <1>2 DEF Unanswered, chain

\* The submission times out; the transaction may be in flight.
LEMMA UnansweredStep == ASSUME BatchInv, NEW w \in Workers, Unanswered(w) PROVE BatchInv'
<1>1. /\ ChainSound' /\ onLedger' = onLedger /\ applied' = applied /\ offset' = offset
      /\ \A f \in inFlight' : \/ f \in inFlight
                              \/ /\ f \in [tx : Transaction, seq : Int]
                                 /\ f.tx = Tx(w) /\ f.seq = seq[w]
  BY FlightAdded
<1>2. onLedger \in Nat /\ onLedger' \in Nat /\ onLedger <= onLedger'
  BY <1>1 DEF BatchInv, BatchTyped
<1>3. /\ Tx(w)[1] = w /\ Tx(w)[4] = attempts[w] /\ attempts[w] \in Nat
      /\ Reached(Tx(w)) /\ OfNow(Tx(w)) /\ pc[w] = "reserved"
  BY TxType, InHand DEF BatchInv, BatchTyped, BatchTypeOK, Unanswered, Sending
<1>4. CASE Push(w, "failed")
  BY <1>1, <1>2, <1>3, <1>4, FailedStep
<1>5. CASE /\ tries[w] + 1 < MaxTries /\ tries' = [tries EXCEPT ![w] = @ + 1]
           /\ UNCHANGED <<pc, call, batch, attempts, seq, result>>
  <2>1. tries' \in [Workers -> 0 .. MaxTries - 1]
    <3>1. tries[w] \in 0 .. MaxTries - 1 /\ MaxTries \in Nat
      BY DEF BatchInv, BatchTyped, BatchTypeOK
    <3>2. tries[w] + 1 \in 0 .. MaxTries - 1
      BY <1>5, <3>1
    <3> QED
      BY <1>5, <3>2 DEF BatchInv, BatchTyped, BatchTypeOK
  <2>2. BatchTyped'
    BY <1>1, <1>5, <2>1 DEF BatchInv, BatchTyped, BatchTypeOK
  <2>3. \A t \in applied' : AppliedSound(t)'
    BY <1>1, <1>5 DEF BatchInv, CallsSound, AppliedSound, Reached, OfNow, Active
  <2>4. ASSUME NEW f \in inFlight' PROVE FlightSound(f)'
    <3>1. CASE f \in inFlight
      BY <1>1, <1>5, <3>1 DEF BatchInv, CallsSound, FlightSound, Reached, OfNow, Active
    <3>2. CASE f.tx = Tx(w) /\ f.seq = seq[w]
      BY <1>3, <1>5, <3>2 DEF FlightSound, Reached, OfNow
    <3> QED
      BY <1>1, <2>4, <3>1, <3>2
  <2>5. SuccessIsPaid'
    BY <1>1, <1>5 DEF BatchInv, SuccessIsPaid
  <2> QED
    BY <1>1, <2>2, <2>3, <2>4, <2>5 DEF BatchInv, CallsSound
<1> QED
  BY <1>4, <1>5 DEF Unanswered

\* tx_bad_seq: what is still in flight of the transaction is dead when it is
\* replaced.
LEMMA BadSeqStep == ASSUME BatchInv, NEW w \in Workers, BadSeq(w) PROVE BatchInv'
<1>1. /\ Sending(w) /\ seq[w] # onLedger + 1 /\ Tx(w) \notin applied
      /\ UNCHANGED <<offset, onLedger, applied, inFlight>>
  BY DEF BadSeq, IsNext, keys, chain
<1>2. ChainSound' /\ onLedger' \in Nat /\ onLedger <= onLedger' /\ onLedger \in Nat
  BY <1>1 DEF BatchInv, BatchTyped, ChainSound, NotAhead, LiveUnpaid, Once
<1>3. CASE Push(w, "failed")
  BY <1>1, <1>2, <1>3, FailedStep
<1>4. CASE /\ attempts[w] < MaxBadSeq /\ attempts' = [attempts EXCEPT ![w] = @ + 1]
           /\ tries' = [tries EXCEPT ![w] = 0] /\ Goto(w, "reset")
           /\ UNCHANGED <<call, batch, seq, result>>
  <2>1. attempts[w] \in Nat /\ attempts[w] + 1 \in 0 .. MaxBadSeq /\ 0 \in 0 .. MaxTries - 1
    BY <1>4 DEF BatchInv, BatchTyped, BatchTypeOK
  <2>2. BatchTyped'
    BY <1>1, <1>4, <2>1 DEF BatchInv, BatchTyped, BatchTypeOK, Goto, Labels
  <2>3. /\ attempts'[w] = attempts[w] + 1 /\ pc'[w] = "reset"
        /\ \A v \in Workers : v # w => pc'[v] = pc[v] /\ attempts'[v] = attempts[v]
    BY <1>4 DEF BatchInv, BatchTyped, BatchTypeOK, Goto
  <2>4. /\ Tx(w) \in Transaction /\ Tx(w)[1] = w /\ Tx(w)[4] = attempts[w]
        /\ Tx(w)[2] = call[w] /\ Tx(w)[3] = batch[w]
    BY TxType DEF BatchInv
  <2>5. ASSUME NEW t \in applied' PROVE AppliedSound(t)'
    <3>1. t \in applied /\ t \in Transaction /\ AppliedSound(t) /\ t[1] \in Workers
      BY <1>1, <2>5 DEF BatchInv, BatchTyped, CallsSound, Transaction
    <3>2. t[1] = w => ~OfNow(t)
      BY <1>1, <2>4, <3>1, InHand DEF SameBatch, OfNow
    <3> QED
      BY <1>4, <2>3, <3>1, <3>2 DEF AppliedSound, Reached, OfNow, Active
  <2>6. ASSUME NEW f \in inFlight' PROVE FlightSound(f)'
    <3>1. /\ f \in inFlight /\ f.tx \in Transaction /\ FlightSound(f) /\ f.tx[1] \in Workers
          /\ f.tx[4] \in Nat /\ f.seq \in Int /\ f.seq <= onLedger + 1
      BY <1>1, <2>6 DEF BatchInv, BatchTyped, CallsSound, ChainSound, NotAhead, Transaction
    <3>2. CASE f.tx[1] # w
      BY <1>1, <1>4, <2>3, <3>1, <3>2 DEF FlightSound, Reached, OfNow, Active
    <3>3. CASE f.tx[1] = w /\ OfNow(f.tx)
      <4>1. Active(w)
        BY <1>1 DEF Sending, Active, Labels
      <4>2. f.tx[4] < attempts[w] => f.seq <= onLedger
        BY <3>1, <3>3 DEF FlightSound
      <4>3. f.tx[4] = attempts[w] => f.seq = seq[w]
        BY <2>1, <3>1, <3>3, <4>1 DEF FlightSound
      <4>4. f.tx[4] < attempts[w] + 1 /\ f.seq <= onLedger
        BY <1>1, <1>2, <2>1, <3>1, <3>3, <4>1, <4>2, <4>3 DEF FlightSound
      <4> QED
        BY <1>1, <1>4, <2>3, <3>1, <3>3, <4>4 DEF FlightSound, Reached, OfNow, Active
    <3>4. CASE f.tx[1] = w /\ ~OfNow(f.tx)
      BY <1>4, <3>1, <3>4 DEF FlightSound, Reached, OfNow
    <3> QED
      BY <3>2, <3>3, <3>4
  <2>7. SuccessIsPaid'
    BY <1>1, <1>4 DEF BatchInv, SuccessIsPaid
  <2> QED
    BY <1>2, <2>2, <2>5, <2>6, <2>7 DEF BatchInv, CallsSound
<1> QED
  BY <1>3, <1>4 DEF BadSeq

\* A ledger closes with a transaction in flight, or the transaction expires.
LEMMA LedgerClosesStep == ASSUME BatchInv, LedgerCloses PROVE BatchInv'
<1>1. UNCHANGED <<offset, pc, call, batch, attempts, tries, seq, result>>
  BY DEF LedgerCloses, keys, local, callVars
<1>2. PICK f \in inFlight :
        /\ inFlight' = inFlight \ {f}
        /\ \/ /\ f.seq = onLedger + 1 /\ applied' = applied \cup {f.tx}
              /\ onLedger' = onLedger + 1
           \/ UNCHANGED <<applied, onLedger>>
  BY DEF LedgerCloses
<1>3. f.tx \in Transaction /\ f.seq \in Int /\ FlightSound(f)
      /\ f.tx[1] \in Workers /\ f.tx[4] \in Nat /\ onLedger \in Nat
  BY DEF BatchInv, BatchTyped, CallsSound, Transaction
<1>4. ChainSound' /\ onLedger' \in Nat /\ onLedger <= onLedger'
  <2>1. CASE f.seq = onLedger + 1 /\ applied' = applied \cup {f.tx} /\ onLedger' = onLedger + 1
    <3>1. \A t \in applied : SameBatch(t, f.tx) => t = f.tx
      BY <2>1 DEF BatchInv, ChainSound, LiveUnpaid, SameBatch
    <3> QED
      BY <1>2, <1>3, <2>1, <3>1, LedgerStep
  <2>2. CASE UNCHANGED <<applied, onLedger>>
    BY <1>2, <1>3, <2>2 DEF BatchInv, ChainSound, NotAhead, LiveUnpaid, Once
  <2> QED
    BY <1>2, <2>1, <2>2
<1>5. applied' \subseteq applied \cup {f.tx} /\ applied \subseteq applied'
      /\ inFlight' \subseteq inFlight /\ (f.tx \in applied' \ applied => f.seq = onLedger + 1)
  BY <1>2
<1>6. BatchTyped'
  BY <1>1, <1>3, <1>4, <1>5 DEF BatchInv, BatchTyped, BatchTypeOK
<1>7. ASSUME NEW t \in applied' PROVE AppliedSound(t)'
  <2>1. CASE t \in applied
    BY <1>1, <2>1 DEF BatchInv, CallsSound, AppliedSound, Reached, OfNow, Active
  <2>2. CASE t = f.tx /\ f.seq = onLedger + 1
    <3>1. attempts[f.tx[1]] \in Nat
      BY <1>3 DEF BatchInv, BatchTyped, BatchTypeOK
    <3>2. OfNow(f.tx) /\ Active(f.tx[1]) =>
             f.tx[4] = attempts[f.tx[1]] /\ pc[f.tx[1]] = "reserved"
      BY <1>3, <2>2, <3>1 DEF FlightSound
    <3> QED
      BY <1>1, <1>3, <2>2, <3>2 DEF FlightSound, AppliedSound, Reached, OfNow, Active
  <2> QED
    BY <1>5, <1>7, <2>1, <2>2
<1>8. ASSUME NEW g \in inFlight' PROVE FlightSound(g)'
  <2>1. g \in inFlight /\ g.seq \in Int /\ FlightSound(g)
    BY <1>5, <1>8 DEF BatchInv, BatchTyped, CallsSound
  <2> QED
    BY <1>1, <1>3, <1>4, <2>1 DEF FlightSound, Reached, OfNow, Active
<1>9. SuccessIsPaid'
  BY <1>1, <1>5 DEF BatchInv, SuccessIsPaid
<1> QED
  BY <1>4, <1>6, <1>7, <1>8, <1>9 DEF BatchInv, CallsSound

-------------------------------------------------------------------------------
(* Sequence numbers, crashes and new calls *)

\* The end of a load moves its owner and whoever joined it, none of them sending.
LEMMA ResolveMoves ==
    ASSUME BatchTyped, NEW w \in Workers, NEW value, NEW label \in {"incr", "failed"},
           pc[w] \in {"load", "setnx", "reget"}, Resolve(w, value, label)
    PROVE  /\ pc' \in [Workers -> Labels \cup {"returned", "threw"}]
           /\ \A v \in Workers : \/ pc'[v] = pc[v]
                                 \/ pc[v] # "reserved" /\ pc[v] \in Labels
                                    /\ pc'[v] # "reserved"
BY DEF BatchTyped, BatchTypeOK, Resolve, Awaiting, Labels

\* Loading the base moves only workers without a reserved number.
LEMMA EnsureMoves ==
    ASSUME BatchTyped, NEW w \in Workers, Ensure(w)
    PROVE  /\ pc' \in [Workers -> Labels \cup {"returned", "threw"}]
           /\ \A v \in Workers : \/ pc'[v] = pc[v]
                                 \/ pc[v] # "reserved" /\ pc[v] \in Labels
                                    /\ pc'[v] # "reserved"
           /\ offset' = offset /\ onLedger' = onLedger
<1>1. CASE GetBase(w)
  BY <1>1 DEF BatchTyped, BatchTypeOK, GetBase, Goto, Labels, keys
<1>2. CASE JoinOrLoad(w)
  BY <1>2 DEF BatchTyped, BatchTypeOK, JoinOrLoad, Goto, Labels, keys
<1>3. CASE LoadBase(w)
  BY <1>3 DEF BatchTyped, BatchTypeOK, LoadBase, Goto, Labels, keys
<1>4. CASE SetIfAbsent(w)
  <2>1. CASE Resolve(w, got[w], "incr")
    BY <1>4, <2>1, ResolveMoves DEF SetIfAbsent
  <2>2. CASE Goto(w, "reget")
    BY <1>4, <2>2 DEF BatchTyped, BatchTypeOK, SetIfAbsent, Goto, Labels
  <2> QED
    BY <1>4, <2>1, <2>2 DEF SetIfAbsent
<1>5. CASE GetAgain(w)
  BY <1>5, ResolveMoves DEF GetAgain, keys
<1> QED
  BY <1>1, <1>2, <1>3, <1>4, <1>5 DEF Ensure

\* A number is reserved for a transaction nothing was sent of.
LEMMA IncrStep ==
    ASSUME BatchInv, NEW w \in Workers, Incr(w),
           seq' = [seq EXCEPT ![w] = TransactionSequence(w)],
           UNCHANGED <<call, batch, attempts, tries, result, applied, inFlight>>
    PROVE  BatchInv'
<1>1. /\ pc[w] = "incr" /\ offset' \in Nat /\ onLedger' = onLedger
      /\ pc' = [pc EXCEPT ![w] = "reserved"]
  BY DEF BatchInv, BatchTyped, BatchTypeOK, Incr, Goto
<1>2. BatchTyped'
  BY <1>1 DEF BatchInv, BatchTyped, BatchTypeOK, Labels
<1>3. \A v \in Workers : v # w => pc'[v] = pc[v] /\ seq'[v] = seq[v]
  BY <1>1 DEF BatchInv, BatchTyped, BatchTypeOK
<1>4. Active(w) /\ pc[w] # "reserved"
  BY <1>1 DEF Active, Labels
<1>5. ASSUME NEW t \in applied' PROVE AppliedSound(t)'
  <2>1. AppliedSound(t) /\ t[1] \in Workers
    BY <1>5 DEF BatchInv, BatchTyped, CallsSound, Transaction
  <2>2. t[1] = w => ~OfNow(t)
    BY <1>4, <2>1 DEF AppliedSound
  <2> QED
    BY <1>3, <2>1, <2>2 DEF AppliedSound, Reached, OfNow, Active
<1>6. ASSUME NEW f \in inFlight' PROVE FlightSound(f)'
  <2>1. FlightSound(f) /\ f.tx[1] \in Workers
    BY <1>6 DEF BatchInv, BatchTyped, CallsSound, Transaction
  <2>2. f.tx[1] = w /\ OfNow(f.tx) => f.tx[4] < attempts[w]
    BY <1>4, <2>1 DEF FlightSound
  <2> QED
    BY <1>1, <1>3, <2>1, <2>2 DEF FlightSound, Reached, OfNow, Active
<1>7. ChainSound' /\ SuccessIsPaid'
  BY <1>1 DEF BatchInv, ChainSound, NotAhead, LiveUnpaid, Once, SuccessIsPaid
<1> QED
  BY <1>2, <1>5, <1>6, <1>7 DEF BatchInv, CallsSound

\* Reserving a number, or failing to, touches neither the ledger nor the batches.
LEMMA ReserveBatchStep ==
    ASSUME BatchInv, NEW w \in Workers, ReserveStep(w) \/ ReserveFails(w) PROVE BatchInv'
<1>0. offset \in Nat /\ BatchTyped
  BY DEF BatchInv, BatchTyped, BatchTypeOK
<1>1. CASE Ensure(w) /\ UNCHANGED <<callVars, applied, inFlight>>
  BY <1>0, <1>1, EnsureMoves, Preparing
<1>2. CASE /\ Incr(w) /\ seq' = [seq EXCEPT ![w] = TransactionSequence(w)]
           /\ UNCHANGED <<call, batch, attempts, tries, result, applied, inFlight>>
  BY <1>2, IncrStep
<1>3. CASE ReserveFails(w)
  <2>1. LoadFails(w) /\ UNCHANGED <<callVars, applied, inFlight>>
    BY <1>3 DEF ReserveFails
  <2>2. pc[w] = "load" /\ Resolve(w, None, "failed") /\ offset' = offset
        /\ onLedger' = onLedger
    BY <2>1 DEF LoadFails, keys
  <2>3. /\ pc' \in [Workers -> Labels \cup {"returned", "threw"}]
        /\ \A v \in Workers : \/ pc'[v] = pc[v]
                              \/ pc[v] # "reserved" /\ pc[v] \in Labels
                                 /\ pc'[v] # "reserved"
    BY <1>0, <2>2, ResolveMoves
  <2> QED
    BY <1>0, <2>1, <2>2, <2>3, Preparing
<1> QED
  BY <1>1, <1>2, <1>3 DEF ReserveStep

\* resetSequence, or its failure, changes Redis keys and its worker's label only.
LEMMA ResetBatchStep ==
    ASSUME BatchInv, NEW w \in Workers, ResetStep(w) \/ ResetThrows(w) PROVE BatchInv'
<1>1. /\ pc[w] \in {"reset", "resetSet", "resetDel"} /\ offset' \in Nat
      /\ UNCHANGED <<callVars, onLedger, applied, inFlight>>
      /\ \E l \in {"resetSet", "resetDel", "get", "threw"} : pc' = [pc EXCEPT ![w] = l]
  BY DEF BatchInv, BatchTyped, BatchTypeOK, ResetStep, ResetThrows, ResetLoad, ResetSet,
     ResetDel, Goto, keys, chain
<1>2. /\ pc' \in [Workers -> Labels \cup {"returned", "threw"}]
      /\ \A v \in Workers : \/ pc'[v] = pc[v] \/ pc'[v] = "threw"
                            \/ pc[v] # "reserved" /\ pc[v] \in Labels
                               /\ pc'[v] # "reserved"
  BY <1>1 DEF BatchInv, BatchTyped, BatchTypeOK, Labels
<1> QED
  BY <1>1, <1>2, Preparing

\* A process that stops leaves its transactions to the ledger.
LEMMA CrashStep == ASSUME BatchInv, NEW p \in Processes, Crash(p) PROVE BatchInv'
<1>1. offset' \in Nat /\ UNCHANGED <<callVars, onLedger, applied, inFlight>>
  BY DEF BatchInv, BatchTyped, BatchTypeOK, Crash, keys, chain
<1>2. /\ pc' \in [Workers -> Labels \cup {"returned", "threw"}]
      /\ \A v \in Workers : pc'[v] = pc[v] \/ pc'[v] = "threw"
  BY DEF BatchInv, BatchTyped, BatchTypeOK, Crash
<1> QED
  BY <1>1, <1>2, Preparing

\* Nothing was sent yet for a new call.
LEMMA NewCallStep == ASSUME BatchInv, NEW w \in Workers, NewCall(w) PROVE BatchInv'
<1>1. /\ UNCHANGED <<offset, onLedger, applied, inFlight>>
      /\ pc' = [pc EXCEPT ![w] = "get"] /\ call' = [call EXCEPT ![w] = @ + 1]
      /\ batch' = [batch EXCEPT ![w] = 1] /\ attempts' = [attempts EXCEPT ![w] = 0]
      /\ tries' = [tries EXCEPT ![w] = 0] /\ seq' = [seq EXCEPT ![w] = None]
      /\ result' = [result EXCEPT ![w] = [b \in Batches |-> "none"]]
  BY DEF NewCall, Goto, keys, chain
<1>2. BatchTyped'
  <2>1. 1 \in Batches /\ 0 \in 0 .. MaxBadSeq /\ 0 \in 0 .. MaxTries - 1
    BY DEF Batches
  <2>2. call' \in [Workers -> Nat] /\ batch' \in [Workers -> Batches]
        /\ attempts' \in [Workers -> 0 .. MaxBadSeq] /\ tries' \in [Workers -> 0 .. MaxTries - 1]
    BY <1>1, <2>1 DEF BatchInv, BatchTyped, BatchTypeOK
  <2>3. result' \in [Workers -> [Batches -> {"none", "ok", "failed"}]]
        /\ pc' \in [Workers -> Labels \cup {"returned", "threw"}]
    BY <1>1 DEF BatchInv, BatchTyped, BatchTypeOK, Labels
  <2> QED
    BY <1>1, <2>2, <2>3 DEF BatchInv, BatchTyped, BatchTypeOK
<1>3. /\ call'[w] = call[w] + 1 /\ call[w] \in Nat
      /\ \A v \in Workers : v # w => /\ pc'[v] = pc[v] /\ seq'[v] = seq[v]
                                     /\ call'[v] = call[v] /\ batch'[v] = batch[v]
                                     /\ attempts'[v] = attempts[v] /\ result'[v] = result[v]
  BY <1>1 DEF BatchInv, BatchTyped, BatchTypeOK
<1>4. ASSUME NEW t \in applied' PROVE AppliedSound(t)'
  <2>1. AppliedSound(t) /\ t[1] \in Workers /\ t[2] \in Nat
    BY <1>1, <1>4 DEF BatchInv, BatchTyped, CallsSound, Transaction
  <2> QED
    BY <1>3, <2>1 DEF AppliedSound, Reached, OfNow, Active
<1>5. ASSUME NEW f \in inFlight' PROVE FlightSound(f)'
  <2>1. FlightSound(f) /\ f.tx[1] \in Workers /\ f.tx[2] \in Nat
    BY <1>1, <1>5 DEF BatchInv, BatchTyped, CallsSound, Transaction
  <2> QED
    BY <1>1, <1>3, <2>1 DEF FlightSound, Reached, OfNow, Active
<1>6. ChainSound'
  BY <1>1 DEF BatchInv, ChainSound, NotAhead, LiveUnpaid, Once
<1>7. SuccessIsPaid'
  <2>1. \A b \in Batches : result'[w][b] = "none"
    BY <1>1 DEF BatchInv, BatchTyped, BatchTypeOK
  <2> QED
    BY <1>1, <1>3, <2>1 DEF BatchInv, SuccessIsPaid
<1> QED
  BY <1>2, <1>4, <1>5, <1>6, <1>7 DEF BatchInv, CallsSound

-------------------------------------------------------------------------------

\* No call, no transaction: it holds.
LEMMA BatchStart == BatchInit => BatchInv
<1> SUFFICES ASSUME BatchInit PROVE BatchInv
  OBVIOUS
<1>1. 1 \in Batches /\ 0 \in 0 .. MaxBadSeq /\ 0 \in 0 .. MaxTries - 1
  BY DEF Batches
<1>2. BatchTypeOK
  BY <1>1 DEF BatchInit, AllocInit, BatchTypeOK, Labels
<1>3. BatchTyped
  BY <1>2 DEF BatchInit, AllocInit, BatchTyped
<1>4. CallsSound /\ ChainSound
  BY DEF BatchInit, CallsSound, ChainSound, NotAhead, LiveUnpaid, Once
<1>5. SuccessIsPaid
  BY DEF BatchInit, SuccessIsPaid
<1> QED
  BY <1>3, <1>4, <1>5 DEF BatchInv

\* Every step of a worker, a new call, a crash and a ledger keep it.
LEMMA BatchMove == BatchInv /\ [BatchNext]_batchVars => BatchInv'
<1> SUFFICES ASSUME BatchInv, [BatchNext]_batchVars PROVE BatchInv'
  OBVIOUS
<1>1. ASSUME NEW w \in Workers, BatchStep(w) PROVE BatchInv'
  BY <1>1, ReserveBatchStep, PushFailureStep, AcceptedStep, BadSeqStep, ResetBatchStep
  DEF BatchStep
<1>2. ASSUME NEW w \in Workers, Disturb(w) PROVE BatchInv'
  BY <1>2, ReserveBatchStep, RefusedStep, UnansweredStep, ResetBatchStep DEF Disturb
<1>3. CASE UNCHANGED batchVars
  <2>1. UNCHANGED <<pc, offset, onLedger, applied, inFlight, callVars>>
    BY <1>3 DEF batchVars, allocVars
  <2> QED
    BY <2>1, Preparing DEF BatchInv, BatchTyped, BatchTypeOK
<1> QED
  BY <1>1, <1>2, <1>3, NewCallStep, CrashStep, LedgerClosesStep DEF BatchNext

\* The strengthened invariant holds however calls, faults, crashes and ledgers
\* interleave.
THEOREM BatchInvariance == BatchSpec => []BatchInv
BY BatchStart, BatchMove, PTL DEF BatchSpec

\* Counters, retries and results of submitBatchPayout keep their types and limits.
THEOREM BatchTypeCorrect == BatchSpec => []BatchTypeOK
<1>1. BatchInv => BatchTypeOK
  BY DEF BatchInv, BatchTyped
<1> QED
  BY <1>1, BatchInvariance, PTL

\* No batch is paid twice, by a retry or by a transaction left behind, for any
\* number of workers, batches, retries, lost answers and crashes.
THEOREM PaidOnceAlways == BatchSpec => []PaidOnce
<1>1. BatchInv => PaidOnce
  <2> SUFFICES ASSUME BatchInv PROVE PaidOnce
    OBVIOUS
  <2>1. PaidAtMostOnce
    BY KeyOf DEF BatchInv, BatchTyped, ChainSound, Once, PaidAtMostOnce
  <2>2. ASSUME NEW f \in inFlight, NEW w \in Workers,
               SubSeq(f.tx, 1, 3) = SubSeq(Tx(w), 1, 3), f.tx[4] < attempts[w]
        PROVE  f.seq <= onLedger
    <3>1. f.tx \in Transaction /\ FlightSound(f)
      BY DEF BatchInv, BatchTyped, CallsSound
    <3>2. Tx(w) \in Transaction /\ Tx(w)[1] = w /\ Tx(w)[2] = call[w] /\ Tx(w)[3] = batch[w]
      BY TxType DEF BatchInv
    <3>3. SameBatch(f.tx, Tx(w))
      BY <2>2, <3>1, <3>2, KeyOf
    <3> QED
      BY <2>2, <3>1, <3>2, <3>3 DEF FlightSound, OfNow, SameBatch
  <2> QED
    BY <2>1, <2>2 DEF PaidOnce, NoGhosts
<1> QED
  BY <1>1, BatchInvariance, PTL

\* A batch reported as paid is on the ledger.
THEOREM SuccessIsPaidAlways == BatchSpec => []SuccessIsPaid
<1>1. BatchInv => SuccessIsPaid
  BY DEF BatchInv
<1> QED
  BY <1>1, BatchInvariance, PTL
===============================================================================
