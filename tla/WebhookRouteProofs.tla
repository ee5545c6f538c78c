-------------------------- MODULE WebhookRouteProofs --------------------------
(***************************************************************************)
(* The safety invariants of the deposit webhook for any number of          *)
(* challenges, transactions, callers and overlapping requests.             *)
(*                                                                         *)
(* None of them is inductive alone.  That no two requests with one id are  *)
(* past the replay key needs to know that whoever is past it holds the key *)
(* (KeyHeld).  That an active challenge was covered needs to know that a   *)
(* request about to activate has seen the balance (Checked), which the     *)
(* highest balance so far remembers (PeakKept).                            *)
(***************************************************************************)
EXTENDS WebhookRoute, TLAPS

Requests == {Free} \cup Request \cup Answered

\* req is a function; RouteTypeOK speaks of its values only.
ReqTyped == req \in [Slots -> Requests]

\* The replay key of a request that passed verifyWebhook is live.
KeyHeld == \A s \in Slots : At(s) \in Working => req[s].id \in seen

\* The balance never exceeded its highest value.
PeakKept == wallet <= peak

\* A request past the memo look-up is for a challenge, and one past the balance
\* check saw a balance that covers it.
Checked ==
    \A s \in Slots :
        /\ At(s) \in {"balance", "update"} => req[s].memo \in Challenges
        /\ At(s) = "update" => peak >= Pool[req[s].memo]

RouteInv ==
    /\ RouteTypeOK
    /\ ReqTyped
    /\ KeyHeld
    /\ NoConcurrentReplay
    /\ DepositUsedOnce
    /\ PeakKept
    /\ Checked
    /\ ActivationCovered

-------------------------------------------------------------------------------
(* What a step does to the requests *)

\* A slot that is neither free nor answered holds a request that is under way.
LEMMA UnderWay ==
    ASSUME ReqTyped, NEW s \in Slots, At(s) \in Working \cup {"verify"}
    PROVE  req[s] \in Request
<1>1. req[s] \in Requests
    BY DEF ReqTyped
<1>2. req[s] # Free
    BY DEF At, Free, Working
<1>3. req[s] \notin Answered
    BY DEF At, Answered, Working
<1> QED
    BY <1>1, <1>2, <1>3 DEF Requests

\* RouteGoto moves one request to another label and keeps the rest of it.
LEMMA GotoStep ==
    ASSUME ReqTyped, NEW s \in Slots, req[s] \in Request,
           NEW label \in Working, RouteGoto(s, label)
    PROVE  /\ ReqTyped'
           /\ req'[s] \in Request
           /\ At(s)' = label
           /\ req'[s].id = req[s].id
           /\ req'[s].memo = req[s].memo
           /\ req'[s].tx = req[s].tx
           /\ \A r \in Slots \ {s} : req'[r] = req[r]
<1> DEFINE moved == [at |-> label, tx |-> req[s].tx, memo |-> req[s].memo,
                     id |-> req[s].id]
<1>1. req' = [req EXCEPT ![s] = moved]
    BY DEF RouteGoto
<1>2. /\ moved \in Request
      /\ moved.at = label
      /\ moved.id = req[s].id
      /\ moved.memo = req[s].memo
      /\ moved.tx = req[s].tx
    BY DEF Request
<1> HIDE DEF moved
<1>3. req'[s] = moved /\ \A r \in Slots \ {s} : req'[r] = req[r]
    BY <1>1 DEF ReqTyped
<1>4. ReqTyped'
    BY <1>1, <1>2 DEF ReqTyped, Requests
<1> QED
    BY <1>2, <1>3, <1>4 DEF At

\* Answer ends one request and keeps the others.
LEMMA AnswerStep ==
    ASSUME ReqTyped, NEW s \in Slots, req[s] \in Request,
           NEW a \in Ok200 \cup Failure, Answer(s, a), ok200 \subseteq Txs \X Memos
    PROVE  /\ ReqTyped'
           /\ req'[s] \in Answered
           /\ At(s)' = "done"
           /\ \A r \in Slots \ {s} : req'[r] = req[r]
           /\ ok200' \subseteq Txs \X Memos
<1> DEFINE ans == [at |-> "done", tx |-> req[s].tx, memo |-> req[s].memo,
                   id |-> req[s].id, answer |-> a]
<1>1. req' = [req EXCEPT ![s] = ans]
    BY DEF Answer
<1>2. ans \in Answered /\ ans.at = "done"
    BY DEF Answered, Request
<1>3. <<req[s].tx, req[s].memo>> \in Txs \X Memos
    BY DEF Request
<1>4. ok200' \subseteq Txs \X Memos
    BY <1>3 DEF Answer
<1> HIDE DEF ans
<1>5. req'[s] = ans /\ \A r \in Slots \ {s} : req'[r] = req[r]
    BY <1>1 DEF ReqTyped
<1>6. ReqTyped'
    BY <1>1, <1>2 DEF ReqTyped, Requests
<1> QED
    BY <1>2, <1>4, <1>5, <1>6 DEF At

-------------------------------------------------------------------------------
(* What is left of the invariant when the columns do not change *)

\* A request that ends takes nothing from the invariant.
LEMMA AnswerKeeps ==
    ASSUME RouteInv, NEW s \in Slots, req[s] \in Request,
           NEW a \in Ok200 \cup Failure, Answer(s, a),
           UNCHANGED <<status, depositTx, seen, Outside>>,
           faults' \in 0 .. MaxFaults
    PROVE  RouteInv'
<1> USE DEF RouteInv
<1>1. /\ ReqTyped'
      /\ At(s)' = "done"
      /\ req'[s] \in Answered
      /\ \A r \in Slots \ {s} : req'[r] = req[r]
      /\ ok200' \subseteq Txs \X Memos
    <2>1. ok200 \subseteq Txs \X Memos
        BY DEF RouteTypeOK
    <2> QED
        BY <2>1, AnswerStep
<1>2. \A r \in Slots : At(r)' \in Working \cup {"verify"} => req'[r] = req[r] /\ At(r)' = At(r)
    BY <1>1 DEF At, Working
<1>3. RouteTypeOK'
    BY <1>1 DEF RouteTypeOK, Outside, ReqTyped, Requests
<1>4. KeyHeld'
    BY <1>2 DEF KeyHeld
<1>5. NoConcurrentReplay'
    BY <1>2 DEF NoConcurrentReplay
<1>6. Checked'
    BY <1>2 DEF Checked, Outside, Working
<1>7. DepositUsedOnce' /\ PeakKept' /\ ActivationCovered'
    BY DEF DepositUsedOnce, PeakKept, ActivationCovered, Outside
<1> QED
    BY <1>1, <1>3, <1>4, <1>5, <1>6, <1>7

\* A request that moves on keeps it if what the new label promises holds.
LEMMA GotoKeeps ==
    ASSUME RouteInv, NEW s \in Slots, req[s] \in Request,
           NEW label \in Working, At(s) \in Working, RouteGoto(s, label),
           label \in {"balance", "update"} => req[s].memo \in Challenges,
           label = "update" => peak >= Pool[req[s].memo],
           UNCHANGED <<status, depositTx, seen, Outside, faults, ok200>>
    PROVE  RouteInv'
<1> USE DEF RouteInv
<1>1. /\ ReqTyped'
      /\ req'[s] \in Request
      /\ At(s)' = label
      /\ req'[s].id = req[s].id
      /\ req'[s].memo = req[s].memo
      /\ \A r \in Slots \ {s} : req'[r] = req[r]
    BY GotoStep
<1>2. \A r \in Slots : At(r)' \in Working => At(r) \in Working /\ req'[r].id = req[r].id
    BY <1>1 DEF At
<1>3. RouteTypeOK'
    BY <1>1 DEF RouteTypeOK, Outside, ReqTyped, Requests
<1>4. KeyHeld'
    BY <1>2 DEF KeyHeld
<1>5. NoConcurrentReplay'
    BY <1>2 DEF NoConcurrentReplay
<1>6. Checked'
    BY <1>1 DEF Checked, Outside, At
<1>7. DepositUsedOnce' /\ PeakKept' /\ ActivationCovered'
    BY DEF DepositUsedOnce, PeakKept, ActivationCovered, Outside
<1> QED
    BY <1>1, <1>3, <1>4, <1>5, <1>6, <1>7

-------------------------------------------------------------------------------
(* verifyWebhook *)

\* A new key is set by SET NX only when nobody holds it, so whoever passes is
\* alone with its id.
LEMMA VerifyPasses ==
    ASSUME RouteInv, NEW s \in Slots, At(s) = "verify", req[s].id \notin seen,
           seen' = seen \cup {req[s].id}, RouteGoto(s, "parse"),
           UNCHANGED <<status, depositTx, Outside, faults, ok200>>
    PROVE  RouteInv'
<1> USE DEF RouteInv
<1>1. req[s] \in Request
    BY UnderWay
<1>2. /\ ReqTyped'
      /\ req'[s] \in Request
      /\ At(s)' = "parse"
      /\ req'[s].id = req[s].id
      /\ \A r \in Slots \ {s} : req'[r] = req[r]
    <2>1. "parse" \in Working
        BY DEF Working
    <2> QED
        BY <1>1, <2>1, GotoStep
<1>3. RouteTypeOK'
    <2>1. req[s].id \in WebhookId
        BY <1>1 DEF Request
    <2> QED
        BY <1>2, <2>1 DEF RouteTypeOK, Outside, ReqTyped, Requests
<1>4. \A r \in Slots \ {s} : At(r) \in Working => req[r].id # req[s].id
    BY DEF KeyHeld
<1>5. KeyHeld'
    BY <1>2 DEF KeyHeld, At
<1>6. NoConcurrentReplay'
    BY <1>2, <1>4 DEF NoConcurrentReplay, At
<1>7. Checked'
    BY <1>2 DEF Checked, Outside, At
<1>8. DepositUsedOnce' /\ PeakKept' /\ ActivationCovered'
    BY DEF DepositUsedOnce, PeakKept, ActivationCovered, Outside
<1> QED
    BY <1>2, <1>3, <1>5, <1>6, <1>7, <1>8

\* verifyWebhook, whatever it answers.
LEMMA VerifyStep ==
    ASSUME RouteInv, NEW s \in Slots, Verify(s)
    PROVE  RouteInv'
<1>1. req[s] \in Request
    BY UnderWay DEF RouteInv, Verify
<1>2. faults' \in 0 .. MaxFaults
    BY DEF RouteInv, RouteTypeOK, Verify
<1>3. CASE req[s].id \in seen
    <2>1. "duplicate" \in Ok200 \cup Failure
        BY DEF Ok200
    <2> QED
        BY <1>1, <1>2, <1>3, <2>1, AnswerKeeps DEF Verify
<1>4. CASE req[s].id \notin seen
    BY <1>4, VerifyPasses DEF Verify
<1> QED
    BY <1>3, <1>4

\* A failure is counted within its bound.
LEMMA FaultCounted ==
    ASSUME RouteTypeOK, Fault
    PROVE  faults' \in 0 .. MaxFaults
BY RouteAssumption DEF RouteTypeOK, Fault

\* A request refused by a signature check.
LEMMA UnverifiedStep ==
    ASSUME RouteInv, NEW s \in Slots, Unverified(s)
    PROVE  RouteInv'
<1>1. req[s] \in Request
    BY UnderWay DEF RouteInv, Unverified
<1>2. faults' \in 0 .. MaxFaults
    BY FaultCounted DEF RouteInv, Unverified
<1>3. "401" \in Ok200 \cup Failure
    BY DEF Failure
<1> QED
    BY <1>1, <1>2, <1>3, AnswerKeeps DEF Unverified

\* A query or the Horizon request throws, at any step of the handler.
LEMMA ThrowsStep ==
    ASSUME RouteInv, NEW s \in Slots, Throws(s)
    PROVE  RouteInv'
<1>1. req[s] \in Request
    BY UnderWay DEF RouteInv, Throws, Working
<1>2. faults' \in 0 .. MaxFaults
    BY FaultCounted DEF RouteInv, Throws
<1>3. "500" \in Ok200 \cup Failure
    BY DEF Failure
<1> QED
    BY <1>1, <1>2, <1>3, AnswerKeeps DEF Throws

\* A replay key expires: never one that a request under way relies on.
LEMMA ExpireStep ==
    ASSUME RouteInv, NEW i \in seen, Expire(i)
    PROVE  RouteInv'
<1> USE DEF RouteInv
<1>1. faults' \in 0 .. MaxFaults
    BY FaultCounted DEF Expire
<1>2. \A s \in Slots : At(s)' = At(s)
    BY DEF Expire, At
<1>3. RouteTypeOK' /\ ReqTyped'
    BY <1>1 DEF RouteTypeOK, ReqTyped, Expire, Outside
<1>4. KeyHeld'
    BY <1>2 DEF KeyHeld, Expire
<1>5. NoConcurrentReplay'
    BY <1>2 DEF NoConcurrentReplay, Expire
<1>6. Checked'
    BY <1>2 DEF Checked, Expire, Outside
<1>7. DepositUsedOnce' /\ PeakKept' /\ ActivationCovered'
    BY DEF DepositUsedOnce, PeakKept, ActivationCovered, Expire, Outside
<1> QED
    BY <1>3, <1>4, <1>5, <1>6, <1>7

-------------------------------------------------------------------------------
(* The handler *)

\* The memo's format is tested.
LEMMA ParseStep ==
    ASSUME RouteInv, NEW s \in Slots, Parse(s)
    PROVE  RouteInv'
<1>1. req[s] \in Request /\ At(s) \in Working
    BY UnderWay DEF RouteInv, Parse, Working
<1>2. faults' \in 0 .. MaxFaults
    BY DEF RouteInv, RouteTypeOK, Parse
<1>3. "400" \in Ok200 \cup Failure /\ "lookup" \in Working
    BY DEF Failure, Working
<1>4. CASE Answer(s, "400")
    BY <1>1, <1>2, <1>3, <1>4, AnswerKeeps DEF Parse
<1>5. CASE RouteGoto(s, "lookup") /\ UNCHANGED ok200
    BY <1>1, <1>3, <1>5, GotoKeeps DEF Parse
<1> QED
    BY <1>4, <1>5 DEF Parse

\* The transaction is looked up.
LEMMA LookupStep ==
    ASSUME RouteInv, NEW s \in Slots, Lookup(s)
    PROVE  RouteInv'
<1>1. req[s] \in Request /\ At(s) \in Working
    BY UnderWay DEF RouteInv, Lookup, Working
<1>2. faults' \in 0 .. MaxFaults
    BY DEF RouteInv, RouteTypeOK, Lookup
<1>3. "duplicate_tx_ignored" \in Ok200 \cup Failure /\ "memo" \in Working
    BY DEF Ok200, Working
<1>4. CASE Answer(s, "duplicate_tx_ignored")
    BY <1>1, <1>2, <1>3, <1>4, AnswerKeeps DEF Lookup
<1>5. CASE RouteGoto(s, "memo") /\ UNCHANGED ok200
    BY <1>1, <1>3, <1>5, GotoKeeps DEF Lookup
<1> QED
    BY <1>4, <1>5 DEF Lookup

\* The challenge is looked up; only a challenge gets to the balance check.
LEMMA CheckMemoStep ==
    ASSUME RouteInv, NEW s \in Slots, CheckMemo(s)
    PROVE  RouteInv'
<1>1. req[s] \in Request /\ At(s) \in Working
    BY UnderWay DEF RouteInv, CheckMemo, Working
<1>2. faults' \in 0 .. MaxFaults
    BY DEF RouteInv, RouteTypeOK, CheckMemo
<1>3. /\ "404" \in Ok200 \cup Failure
      /\ "already_processed" \in Ok200 \cup Failure
      /\ "balance" \in Working
    BY DEF Ok200, Failure, Working
<1>4. CASE Answer(s, "404")
    BY <1>1, <1>2, <1>3, <1>4, AnswerKeeps DEF CheckMemo
<1>5. CASE Answer(s, "already_processed")
    BY <1>1, <1>2, <1>3, <1>5, AnswerKeeps DEF CheckMemo
<1>6. CASE req[s].memo \in Challenges /\ RouteGoto(s, "balance") /\ UNCHANGED ok200
    BY <1>1, <1>3, <1>6, GotoKeeps DEF CheckMemo
<1> QED
    BY <1>4, <1>5, <1>6 DEF CheckMemo

\* The balance that passes the test is at most the highest one.
LEMMA CheckBalanceStep ==
    ASSUME RouteInv, NEW s \in Slots, CheckBalance(s)
    PROVE  RouteInv'
<1>1. req[s] \in Request /\ At(s) \in Working
    BY UnderWay DEF RouteInv, CheckBalance, Working
<1>2. faults' \in 0 .. MaxFaults
    BY DEF RouteInv, RouteTypeOK, CheckBalance
<1>3. "422" \in Ok200 \cup Failure /\ "update" \in Working
    BY DEF Failure, Working
<1>4. req[s].memo \in Challenges
    BY DEF RouteInv, Checked, CheckBalance
<1>5. CASE Answer(s, "422")
    BY <1>1, <1>2, <1>3, <1>5, AnswerKeeps DEF CheckBalance
<1>6. CASE wallet >= Pool[req[s].memo] /\ RouteGoto(s, "update") /\ UNCHANGED ok200
    <2>1. wallet \in Int /\ peak \in Int /\ Pool[req[s].memo] \in Int
        BY <1>4, RouteAssumption DEF RouteInv, RouteTypeOK
    <2>2. peak >= Pool[req[s].memo]
        BY <1>6, <2>1 DEF RouteInv, PeakKept
    <2> QED
        BY <1>1, <1>3, <1>4, <1>6, <2>2, GotoKeeps DEF CheckBalance
<1> QED
    BY <1>5, <1>6 DEF CheckBalance

\* The UPDATE that activates: the UNIQUE index keeps the hashes apart, and the
\* request has seen the balance.
LEMMA ActivateStep ==
    ASSUME RouteInv, NEW s \in Slots, Activate(s)
    PROVE  RouteInv'
<1> USE DEF RouteInv
<1> DEFINE c == req[s].memo
<1>1. At(s) = "update" /\ req[s] \in Request /\ At(s) \in Working
    BY UnderWay DEF Activate, Working
<1>2. c \in Challenges /\ peak >= Pool[c]
    BY <1>1 DEF Checked
<1>3. faults' \in 0 .. MaxFaults
    BY DEF RouteTypeOK, Activate
<1>4. CASE /\ Answer(s, "409")
           /\ UNCHANGED <<status, depositTx>>
    <2>1. "409" \in Ok200 \cup Failure
        BY DEF Failure
    <2> QED
        BY <1>1, <1>3, <1>4, <2>1, AnswerKeeps DEF Activate
<1>5. CASE /\ ~\E d \in Challenges \ {c} : depositTx[d] = req[s].tx
           /\ status' = [status EXCEPT ![c] = "active"]
           /\ depositTx' = [depositTx EXCEPT ![c] = req[s].tx]
           /\ Answer(s, "activated")
    <2>0. req[s].tx \in Txs /\ req[s].tx # Unknown
        BY <1>1, RouteAssumption DEF Request
    <2>1. /\ ReqTyped'
          /\ At(s)' = "done"
          /\ req'[s] \in Answered
          /\ \A r \in Slots \ {s} : req'[r] = req[r]
          /\ ok200' \subseteq Txs \X Memos
        <3>1. ok200 \subseteq Txs \X Memos /\ "activated" \in Ok200 \cup Failure
            BY DEF RouteTypeOK, Ok200
        <3> QED
            BY <1>1, <1>5, <3>1, AnswerStep
    <2>2. \A r \in Slots : At(r)' \in Working => req'[r] = req[r] /\ At(r)' = At(r)
        BY <2>1 DEF At, Working
    <2>3. status \in [Challenges -> Status] /\ depositTx \in [Challenges -> Txs \cup {Unknown}]
        BY DEF RouteTypeOK
    <2>4. UNCHANGED <<seen, Outside, faults>>
        BY DEF Activate
    <2>5. RouteTypeOK'
        <3>1. status' \in [Challenges -> Status]
            BY <1>5, <2>3 DEF Status
        <3>2. depositTx' \in [Challenges -> Txs \cup {Unknown}]
            BY <1>5, <2>0, <2>3
        <3> QED
            BY <2>1, <2>4, <3>1, <3>2 DEF RouteTypeOK, Outside, ReqTyped, Requests
    <2>6. KeyHeld' /\ NoConcurrentReplay'
        BY <2>2, <2>4 DEF KeyHeld, NoConcurrentReplay
    <2>7. Checked'
        BY <2>2, <2>4 DEF Checked, Outside, Working
    <2>8. PeakKept'
        BY <2>4 DEF PeakKept, Outside
    <2>9. DepositUsedOnce'
        BY <1>2, <1>5, <2>0, <2>3 DEF DepositUsedOnce
    <2>10. ActivationCovered'
        BY <1>2, <1>5, <2>0, <2>3, <2>4 DEF ActivationCovered, Outside
    <2> QED
        BY <2>1, <2>5, <2>6, <2>7, <2>8, <2>9, <2>10
<1> QED
    BY <1>4, <1>5 DEF Activate

-------------------------------------------------------------------------------
(* Everybody else *)

\* A caller opens a request in a free slot; it is not past the replay key yet.
LEMMA CallerPostsStep ==
    ASSUME RouteInv, NEW s \in Slots, NEW t \in Txs, NEW m \in Memos,
           NEW n \in Series, CallerPosts(s, t, m, n)
    PROVE  RouteInv'
<1> USE DEF RouteInv
<1> DEFINE new == [at |-> "verify", tx |-> t, memo |-> m, id |-> <<t, m, n>>]
<1>1. req' = [req EXCEPT ![s] = new]
    BY DEF CallerPosts, Open
<1>2. new \in Request /\ new.at = "verify"
    <2>1. <<t, m, n>> \in WebhookId
        BY DEF WebhookId
    <2> QED
        BY <2>1 DEF Request
<1> HIDE DEF new
<1>3. req'[s] = new /\ \A r \in Slots \ {s} : req'[r] = req[r]
    BY <1>1 DEF ReqTyped
<1>4. \A r \in Slots : At(r)' \in Working => req'[r] = req[r] /\ At(r)' = At(r)
    BY <1>2, <1>3 DEF At, Working
<1>5. ReqTyped'
    BY <1>1, <1>2 DEF ReqTyped, Requests
<1>6. posts' \in 0 .. MaxPosts
    BY RouteAssumption DEF CallerPosts, RouteTypeOK
<1>7. RouteTypeOK'
    BY <1>5, <1>6 DEF RouteTypeOK, ReqTyped, Requests, CallerPosts
<1>8. KeyHeld' /\ NoConcurrentReplay'
    BY <1>4 DEF KeyHeld, NoConcurrentReplay, CallerPosts
<1>9. Checked'
    BY <1>4 DEF Checked, Working, CallerPosts
<1>10. DepositUsedOnce' /\ PeakKept' /\ ActivationCovered'
    BY DEF DepositUsedOnce, PeakKept, ActivationCovered, CallerPosts
<1> QED
    BY <1>5, <1>7, <1>8, <1>9, <1>10

\* A caller reads its answer and the slot is free again.
LEMMA ReleaseStep ==
    ASSUME RouteInv, NEW s \in Slots, Release(s)
    PROVE  RouteInv'
<1> USE DEF RouteInv
<1>1. req' = [req EXCEPT ![s] = Free]
    BY DEF Release
<1>2. req'[s] = Free /\ \A r \in Slots \ {s} : req'[r] = req[r]
    BY <1>1 DEF ReqTyped
<1>3. Free.at = "free"
    BY DEF Free
<1>4. \A r \in Slots : At(r)' \in Working => req'[r] = req[r] /\ At(r)' = At(r)
    BY <1>2, <1>3 DEF At, Working
<1>5. ReqTyped'
    BY <1>1 DEF ReqTyped, Requests
<1>6. RouteTypeOK'
    BY <1>5 DEF RouteTypeOK, ReqTyped, Requests, Release, Outside
<1>7. KeyHeld' /\ NoConcurrentReplay'
    BY <1>4 DEF KeyHeld, NoConcurrentReplay, Release
<1>8. Checked'
    BY <1>4 DEF Checked, Working, Release, Outside
<1>9. DepositUsedOnce' /\ PeakKept' /\ ActivationCovered'
    BY DEF DepositUsedOnce, PeakKept, ActivationCovered, Release, Outside
<1> QED
    BY <1>5, <1>6, <1>7, <1>8, <1>9

\* Deleting a brand, deleting a challenge and restoring it never activate.
LEMMA AdminStep ==
    ASSUME RouteInv, NEW c \in Challenges,
           DeleteBrand(c) \/ SoftDelete(c) \/ Restore(c)
    PROVE  RouteInv'
<1> USE DEF RouteInv
<1>1. UNCHANGED <<depositTx, seen, req, wallet, posts, peak, ok200, faults>>
    BY DEF DeleteBrand, SoftDelete, Restore, Outside
<1>2. deleted' \subseteq Challenges
    BY DEF DeleteBrand, SoftDelete, Restore, Outside, RouteTypeOK
<1>3. status' \in [Challenges -> Status]
    BY DEF DeleteBrand, SoftDelete, Restore, RouteTypeOK, Status
<1>4. \A d \in Challenges : status'[d] = "active" => status[d] = "active"
    BY DEF DeleteBrand, SoftDelete, Restore, RouteTypeOK
<1>5. RouteTypeOK' /\ ReqTyped'
    BY <1>1, <1>2, <1>3 DEF RouteTypeOK, ReqTyped
<1>6. KeyHeld' /\ NoConcurrentReplay' /\ Checked'
    BY <1>1 DEF KeyHeld, NoConcurrentReplay, Checked, At
<1>7. DepositUsedOnce' /\ PeakKept'
    BY <1>1 DEF DepositUsedOnce, PeakKept
<1>8. ActivationCovered'
    BY <1>1, <1>4 DEF ActivationCovered
<1> QED
    BY <1>5, <1>6, <1>7, <1>8

\* The hot wallet's balance goes up or down; the highest one only up.
LEMMA WalletMovesStep ==
    ASSUME RouteInv, WalletMoves
    PROVE  RouteInv'
<1> USE DEF RouteInv
<1>1. UNCHANGED <<status, deleted, depositTx, seen, req, posts, ok200, faults>>
    BY DEF WalletMoves
<1>2. /\ wallet' \in 0 .. MaxWallet
      /\ peak' \in 0 .. MaxWallet
      /\ peak \in 0 .. MaxWallet
      /\ peak' >= peak
      /\ wallet' <= peak'
    BY RouteAssumption DEF WalletMoves, RouteTypeOK, PeakKept
<1>3. \A c \in Challenges : Pool[c] \in Int /\ (peak >= Pool[c] => peak' >= Pool[c])
    BY <1>2, RouteAssumption
<1>4. RouteTypeOK' /\ ReqTyped'
    BY <1>1, <1>2 DEF RouteTypeOK, ReqTyped
<1>5. KeyHeld' /\ NoConcurrentReplay'
    BY <1>1 DEF KeyHeld, NoConcurrentReplay, At
<1>6. Checked'
    BY <1>1, <1>3 DEF Checked, At
<1>7. DepositUsedOnce' /\ PeakKept'
    BY <1>1, <1>2 DEF DepositUsedOnce, PeakKept
<1>8. ActivationCovered'
    BY <1>1, <1>3 DEF ActivationCovered
<1> QED
    BY <1>4, <1>5, <1>6, <1>7, <1>8

-------------------------------------------------------------------------------
(* The theorems *)

\* Every challenge starts unfunded, every slot free, and no key is set.
LEMMA RouteStart ==
    ASSUME RouteInit
    PROVE  RouteInv
<1> USE DEF RouteInit
<1>1. Free.at = "free"
    BY DEF Free
<1>2. \A s \in Slots : At(s) = "free" /\ req[s] = Free
    BY <1>1 DEF At
<1>3. RouteTypeOK
    <2>1. /\ wallet \in 0 .. MaxWallet /\ peak \in 0 .. MaxWallet
          /\ posts \in 0 .. MaxPosts /\ faults \in 0 .. MaxFaults
        BY RouteAssumption
    <2>2. status \in [Challenges -> Status] /\ depositTx \in [Challenges -> Txs \cup {Unknown}]
        BY DEF Status
    <2> QED
        BY <1>2, <2>1, <2>2 DEF RouteTypeOK
<1>4. ReqTyped
    BY DEF ReqTyped, Requests
<1>5. KeyHeld /\ NoConcurrentReplay /\ Checked
    BY <1>2 DEF KeyHeld, NoConcurrentReplay, Checked, Working
<1>6. DepositUsedOnce /\ PeakKept /\ ActivationCovered
    BY DEF DepositUsedOnce, PeakKept, ActivationCovered
<1> QED
    BY <1>3, <1>4, <1>5, <1>6 DEF RouteInv

\* No step of the webhook or of anybody else breaks the invariant.
LEMMA RouteStep == RouteInv /\ [RouteNext]_routeVars => RouteInv'
<1> SUFFICES ASSUME RouteInv, [RouteNext]_routeVars PROVE RouteInv'
    OBVIOUS
<1>1. ASSUME NEW s \in Slots, Handle(s) PROVE RouteInv'
    BY <1>1, VerifyStep, ParseStep, LookupStep, CheckMemoStep,
       CheckBalanceStep, ActivateStep DEF Handle
<1>2. ASSUME NEW s \in Slots, Unverified(s) \/ Throws(s) PROVE RouteInv'
    BY <1>2, UnverifiedStep, ThrowsStep
<1>3. ASSUME NEW s \in Slots, NEW t \in Txs, NEW m \in Memos, NEW n \in Series,
             CallerPosts(s, t, m, n)
      PROVE RouteInv'
    BY <1>3, CallerPostsStep
<1>4. ASSUME NEW i \in seen, Expire(i) PROVE RouteInv'
    BY <1>4, ExpireStep
<1>5. ASSUME NEW s \in Slots, Release(s) PROVE RouteInv'
    BY <1>5, ReleaseStep
<1>6. ASSUME NEW c \in Challenges, DeleteBrand(c) \/ SoftDelete(c) \/ Restore(c)
      PROVE RouteInv'
    BY <1>6, AdminStep
<1>7. CASE WalletMoves
    BY <1>7, WalletMovesStep
<1>8. CASE UNCHANGED routeVars
    BY <1>8 DEF routeVars, RouteInv, RouteTypeOK, ReqTyped, KeyHeld,
       NoConcurrentReplay, DepositUsedOnce, PeakKept, Checked,
       ActivationCovered, At
<1> QED
    BY <1>1, <1>2, <1>3, <1>4, <1>5, <1>6, <1>7, <1>8 DEF RouteNext, RequestStep

\* The invariant holds in every reachable state of the webhook.
THEOREM RouteInvariance == RouteSpec => []RouteInv
BY RouteStart, RouteStep, PTL DEF RouteSpec

\* Columns, replay keys and requests keep their types.
THEOREM RouteTypeCorrect == RouteSpec => []RouteTypeOK
<1>1. RouteInv => RouteTypeOK
    BY DEF RouteInv
<1> QED
    BY <1>1, RouteInvariance, PTL

\* verifyWebhook never lets two overlapping requests with one id through,
\* however many callers post it.
THEOREM ReplayExcluded == RouteSpec => []NoConcurrentReplay
<1>1. RouteInv => NoConcurrentReplay
    BY DEF RouteInv
<1> QED
    BY <1>1, RouteInvariance, PTL

\* No two challenges are ever funded by one deposit transaction.
THEOREM OneChallengePerDeposit == RouteSpec => []DepositUsedOnce
<1>1. RouteInv => DepositUsedOnce
    BY DEF RouteInv
<1> QED
    BY <1>1, RouteInvariance, PTL

\* Every active challenge names its deposit, and the hot wallet once held its
\* pool.
THEOREM ActiveWasCovered == RouteSpec => []ActivationCovered
<1>1. RouteInv => ActivationCovered
    BY DEF RouteInv
<1> QED
    BY <1>1, RouteInvariance, PTL

\* Whatever a request is refused for, and whatever else happens meanwhile, a
\* challenge is funded only by the step that answers "activated".
THEOREM RefusalsChangeNothing == RouteSpec => FailuresChangeNothing
<1>1. RouteInv /\ [RouteNext]_routeVars
          => [\A c \in Challenges : Funded(c) => AnsweredActivated(c)]_routeVars
    <2> SUFFICES ASSUME RouteInv, RouteNext, NEW c \in Challenges, Funded(c)
                 PROVE  AnsweredActivated(c)
        BY DEF routeVars, Funded
    <2>1. ASSUME NEW s \in Slots, Handle(s) PROVE AnsweredActivated(c)
        <3>1. ~UNCHANGED <<status, depositTx>>
            BY DEF Funded
        <3>2. Activate(s)
            BY <2>1, <3>1 DEF Handle, Verify, Parse, Lookup, CheckMemo, CheckBalance
        <3>3. /\ At(s) = "update"
              /\ status' = [status EXCEPT ![req[s].memo] = "active"]
              /\ depositTx' = [depositTx EXCEPT ![req[s].memo] = req[s].tx]
              /\ Answer(s, "activated")
            BY <3>1, <3>2 DEF Activate
        <3>4. req[s].memo = c
            BY <3>3 DEF Funded, RouteInv, RouteTypeOK
        <3>5. req'[s].at = "done" /\ req'[s].answer = "activated"
            BY <3>3 DEF Answer, RouteInv, ReqTyped
        <3>6. depositTx'[c] = req[s].tx
            BY <3>3, <3>4 DEF RouteInv, RouteTypeOK
        <3> QED
            BY <3>3, <3>4, <3>5, <3>6 DEF AnsweredActivated
    <2>2. ASSUME NEW d \in Challenges, DeleteBrand(d) PROVE FALSE
        BY <2>2 DEF DeleteBrand, Funded, RouteInv, RouteTypeOK
    <2>3. ASSUME UNCHANGED <<status, depositTx>> PROVE FALSE
        BY <2>3 DEF Funded
    <2> QED
        BY <2>1, <2>2, <2>3 DEF RouteNext, RequestStep, Unverified, Throws,
           CallerPosts, Expire, Release, SoftDelete, Restore, WalletMoves
<1> QED
    BY <1>1, RouteInvariance, PTL DEF RouteSpec, FailuresChangeNothing

===============================================================================
