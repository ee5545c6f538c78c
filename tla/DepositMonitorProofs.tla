------------------------- MODULE DepositMonitorProofs -------------------------
(***************************************************************************)
(* The deposit monitor together with the webhook it posts to, for any      *)
(* number of deposits, ledgers, pages and overlapping requests.            *)
(*                                                                         *)
(* That the cursor passes no deposit unanswered is a promise about a poll  *)
(* that has ended.  What makes it inductive is the same promise for the    *)
(* poll under way (PollAccounts): of the deposits between the ledger it    *)
(* started from and the tip it will save, each is still to be sent, was    *)
(* left out by the fetch, or was answered 2xx.  A deposit leaves the list  *)
(* of those to be sent when its answer arrives, so the slot the monitor    *)
(* waits on must hold the request for that very deposit (PostInSlot) and   *)
(* an answer 2xx must have been recorded for it (AnswersRecorded).  Ledgers*)
(* that close during the poll are above the tip it saves (TipSeen).        *)
(***************************************************************************)
EXTENDS DepositMonitor, WebhookRouteProofs, TLAPS

\* A request answered 2xx is remembered with its transaction and memo.
AnswersRecorded ==
    \A s \in Slots :
        At(s) = "done" /\ req[s].answer \in Ok200
            => <<req[s].tx, req[s].memo>> \in ok200

\* While the monitor waits, its slot holds the request for the event it is at,
\* which is still on its list.
PostInSlot ==
    mon.pc = "wait" =>
        /\ mon.tx \in mon.todo
        /\ req[mon.slot] # Free
        /\ req[mon.slot].tx = mon.tx
        /\ req[mon.slot].memo = MemoOf[mon.tx]

\* A poll started at the cursor, and will save a tip the network has reached.
TipSeen ==
    mon.pc # "idle" => mon.from = cursor /\ mon.from <= mon.to /\ mon.to <= latest

\* Every deposit the poll is about to pass is accounted for.
PollAccounts ==
    mon.pc # "idle" /\ mon.from # 0 =>
        \A t \in Txs :
            ledger[t] \in mon.from .. mon.to
                => t \in mon.todo \/ t \in mon.missed \/ <<t, MemoOf[t]>> \in ok200

MonitorInv ==
    /\ RouteInv
    /\ MonitorTypeOK
    /\ AnswersRecorded
    /\ PostInSlot
    /\ TipSeen
    /\ PollAccounts
    /\ NothingPassedUnanswered

-------------------------------------------------------------------------------
(* Frames *)

\* What the monitor is doing, by its label.
LEMMA MonShape ==
    ASSUME MonitorTypeOK
    PROVE  /\ mon.pc = "idle" <=> mon = Idle
           /\ mon.pc = "send" <=> mon \in Polling
           /\ mon.pc = "wait" <=> mon \in Waiting
           /\ mon.pc \in {"idle", "send", "wait"}
BY DEF MonitorTypeOK, Idle, Polling, Waiting

\* A step of the webhook that keeps what a request is for, forgets no answer
\* and records the new ones leaves the monitor's part of the invariant alone.
LEMMA RouteFrame ==
    ASSUME MonitorInv, RouteInv', UNCHANGED monVars,
           AnswersRecorded', ok200 \subseteq ok200',
           mon.pc = "wait" => /\ req'[mon.slot] # Free
                              /\ req'[mon.slot].tx = req[mon.slot].tx
                              /\ req'[mon.slot].memo = req[mon.slot].memo
    PROVE  MonitorInv'
<1> USE DEF MonitorInv
<1>1. MonitorTypeOK'
    BY DEF MonitorTypeOK, RouteInv, monVars
<1>2. PostInSlot'
    BY DEF PostInSlot, monVars
<1>3. TipSeen'
    BY DEF TipSeen, monVars
<1>4. PollAccounts'
    BY DEF PollAccounts, monVars
<1>5. NothingPassedUnanswered'
    BY DEF NothingPassedUnanswered, monVars
<1> QED
    BY <1>1, <1>2, <1>3, <1>4, <1>5

\* Free is no request.
LEMMA FreeIsNoRequest == Free \notin Request \cup Answered
BY DEF Free, Request, Answered, Working

\* A request that moves on in the handler.
LEMMA GotoFrame ==
    ASSUME MonitorInv, RouteInv', UNCHANGED monVars,
           NEW s \in Slots, req[s] \in Request,
           NEW label \in Working, RouteGoto(s, label), UNCHANGED ok200
    PROVE  MonitorInv'
<1>1. ReqTyped
    BY DEF MonitorInv, RouteInv
<1>2. /\ req'[s] \in Request
      /\ At(s)' = label
      /\ req'[s].memo = req[s].memo
      /\ req'[s].tx = req[s].tx
      /\ \A r \in Slots \ {s} : req'[r] = req[r]
    BY <1>1, GotoStep
<1>3. AnswersRecorded'
    <2> SUFFICES ASSUME NEW r \in Slots, At(r)' = "done", req'[r].answer \in Ok200
                 PROVE  <<req'[r].tx, req'[r].memo>> \in ok200'
        BY DEF AnswersRecorded
    <2>1. r # s
        BY <1>2 DEF Working
    <2> QED
        BY <1>2, <2>1 DEF MonitorInv, AnswersRecorded, At
<1>4. ASSUME mon.pc = "wait"
      PROVE  /\ req'[mon.slot] # Free
             /\ req'[mon.slot].tx = req[mon.slot].tx
             /\ req'[mon.slot].memo = req[mon.slot].memo
    <2>1. mon.slot \in Slots /\ req[mon.slot] # Free
        BY <1>4, MonShape DEF MonitorInv, PostInSlot, Waiting
    <2> QED
        BY <1>2, <2>1, FreeIsNoRequest
<1> QED
    BY <1>3, <1>4, RouteFrame

\* A request that is answered.
LEMMA AnswerFrame ==
    ASSUME MonitorInv, RouteInv', UNCHANGED monVars,
           NEW s \in Slots, req[s] \in Request,
           NEW a \in Ok200 \cup Failure, Answer(s, a)
    PROVE  MonitorInv'
<1> DEFINE ans == [at |-> "done", tx |-> req[s].tx, memo |-> req[s].memo,
                   id |-> req[s].id, answer |-> a]
<1>1. req' = [req EXCEPT ![s] = ans]
    BY DEF Answer
<1>2. ans # Free /\ ans.tx = req[s].tx /\ ans.memo = req[s].memo /\ ans.answer = a
    BY DEF Free
<1> HIDE DEF ans
<1>3. req'[s] = ans /\ \A r \in Slots \ {s} : req'[r] = req[r]
    BY <1>1 DEF ReqTyped, MonitorInv, RouteInv
<1>4. /\ ok200 \subseteq ok200'
      /\ a \in Ok200 => <<req[s].tx, req[s].memo>> \in ok200'
    BY DEF Answer
<1>5. AnswersRecorded'
    <2> SUFFICES ASSUME NEW r \in Slots, At(r)' = "done", req'[r].answer \in Ok200
                 PROVE  <<req'[r].tx, req'[r].memo>> \in ok200'
        BY DEF AnswersRecorded
    <2>1. CASE r = s
        BY <1>2, <1>3, <1>4, <2>1
    <2>2. CASE r # s
        BY <1>3, <1>4, <2>2 DEF MonitorInv, AnswersRecorded, At
    <2> QED
        BY <2>1, <2>2
<1>6. ASSUME mon.pc = "wait"
      PROVE  /\ req'[mon.slot] # Free
             /\ req'[mon.slot].tx = req[mon.slot].tx
             /\ req'[mon.slot].memo = req[mon.slot].memo
    <2>1. mon.slot \in Slots /\ req[mon.slot] # Free
        BY <1>6, MonShape DEF MonitorInv, PostInSlot, Waiting
    <2> QED
        BY <1>2, <1>3, <2>1
<1> QED
    BY <1>4, <1>5, <1>6, RouteFrame

\* A step that leaves every request where it is.
LEMMA RequestsStay ==
    ASSUME MonitorInv, RouteInv', UNCHANGED <<monVars, req, ok200>>
    PROVE  MonitorInv'
<1>1. AnswersRecorded'
    BY DEF MonitorInv, AnswersRecorded, At
<1>2. mon.pc = "wait" => req'[mon.slot] # Free
    BY DEF MonitorInv, PostInSlot
<1> QED
    BY <1>1, <1>2, RouteFrame

-------------------------------------------------------------------------------
(* The webhook *)

\* The handler of one request: it moves on or answers, and records a 2xx.
LEMMA HandleKeeps ==
    ASSUME MonitorInv, RouteInv', UNCHANGED monVars, NEW s \in Slots,
           Handle(s) \/ Unverified(s) \/ Throws(s)
    PROVE  MonitorInv'
<1>1. At(s) \in Working \cup {"verify"}
    BY DEF Handle, Verify, Parse, Lookup, CheckMemo, CheckBalance, Activate,
       Unverified, Throws, Working
<1>2. req[s] \in Request
    BY <1>1, UnderWay DEF MonitorInv, RouteInv
<1>3. \/ \E a \in Ok200 \cup Failure : Answer(s, a)
      \/ \E label \in Working : RouteGoto(s, label) /\ UNCHANGED ok200
    <2>1. /\ {"duplicate", "duplicate_tx_ignored", "already_processed", "activated",
              "400", "401", "404", "409", "422", "500"} \subseteq Ok200 \cup Failure
          /\ {"parse", "lookup", "memo", "balance", "update"} \subseteq Working
        BY DEF Ok200, Failure, Working
    <2> QED
        BY <2>1 DEF Handle, Verify, Parse, Lookup, CheckMemo, CheckBalance, Activate,
           Unverified, Throws
<1> QED
    BY <1>2, <1>3, AnswerFrame, GotoFrame

\* A request is opened in a free slot, which the monitor is not waiting on.
LEMMA OpenKeeps ==
    ASSUME MonitorInv, RouteInv', UNCHANGED <<monVars, ok200>>, NEW s \in Slots,
           NEW t, NEW m, NEW i, Open(s, t, m, i)
    PROVE  MonitorInv'
<1> DEFINE new == [at |-> "verify", tx |-> t, memo |-> m, id |-> i]
<1>1. req[s] = Free /\ req' = [req EXCEPT ![s] = new]
    BY DEF Open
<1>2. new.at = "verify"
    OBVIOUS
<1> HIDE DEF new
<1>3. req'[s] = new /\ \A r \in Slots \ {s} : req'[r] = req[r]
    BY <1>1 DEF ReqTyped, MonitorInv, RouteInv
<1>4. AnswersRecorded'
    BY <1>2, <1>3 DEF MonitorInv, AnswersRecorded, At
<1>5. mon.pc = "wait" => mon.slot \in Slots \ {s} /\ req[mon.slot] # Free
    BY <1>1, MonShape DEF MonitorInv, PostInSlot, Waiting
<1> QED
    BY <1>3, <1>4, <1>5, RouteFrame

\* The webhook's steps keep the whole invariant.
LEMMA RequestKeeps ==
    ASSUME MonitorInv, RequestStep, UNCHANGED monVars
    PROVE  MonitorInv'
<1>1. RouteInv'
    BY RouteStep DEF MonitorInv, RouteNext
<1>2. ASSUME NEW s \in Slots, Handle(s) \/ Unverified(s) \/ Throws(s)
      PROVE  MonitorInv'
    BY <1>1, <1>2, HandleKeeps
<1>3. ASSUME NEW s \in Slots, NEW t \in Txs, NEW m \in Memos, NEW n \in Series,
             CallerPosts(s, t, m, n)
      PROVE  MonitorInv'
    BY <1>1, <1>3, OpenKeeps DEF CallerPosts
<1>4. ASSUME NEW i \in seen, Expire(i)
      PROVE  MonitorInv'
    BY <1>1, <1>4, RequestsStay DEF Expire
<1> QED
    BY <1>2, <1>3, <1>4 DEF RequestStep

\* The answer to a forgotten post is dropped: never the one waited for.
LEMMA ForgottenKeeps ==
    ASSUME MonitorInv, NEW s \in Slots, Forgotten(s)
    PROVE  MonitorInv'
<1>1. RouteInv'
    BY RouteStep DEF MonitorInv, RouteNext, Forgotten
<1>2. req' = [req EXCEPT ![s] = Free] /\ UNCHANGED <<monVars, ok200>>
    BY DEF Forgotten, Release
<1>3. req'[s] = Free /\ \A r \in Slots \ {s} : req'[r] = req[r]
    BY <1>2 DEF ReqTyped, MonitorInv, RouteInv
<1>4. AnswersRecorded'
    BY <1>2, <1>3 DEF MonitorInv, AnswersRecorded, At, Free
<1>5. mon.pc = "wait" => mon.slot \in Slots \ {s} /\ req[mon.slot] # Free
    BY MonShape DEF MonitorInv, PostInSlot, Waiting, Forgotten
<1> QED
    BY <1>1, <1>2, <1>3, <1>4, <1>5, RouteFrame

-------------------------------------------------------------------------------
(* The network *)

\* A ledger closes above every cursor and every tip a poll has seen.
LEMMA LedgerKeeps ==
    ASSUME MonitorInv, NEW S \in SUBSET {t \in Txs \ PayoutTxs : ledger[t] = 0},
           LedgerCloses(S)
    PROVE  MonitorInv'
<1> USE DEF MonitorInv
<1>1. UNCHANGED <<status, deleted, depositTx, seen, req, posts, ok200, faults,
                  cursor, baseline, mon, passed>>
    BY DEF LedgerCloses
<1>2. /\ wallet' \in 0 .. MaxWallet
      /\ peak \in 0 .. MaxWallet
      /\ peak' = IF wallet' > peak THEN wallet' ELSE peak
    BY DEF LedgerCloses, RouteInv, RouteTypeOK
<1>3. /\ peak' \in 0 .. MaxWallet
      /\ peak' >= peak
      /\ wallet' <= peak'
    BY <1>2, RouteAssumption
<1>4. \A c \in Challenges : Pool[c] \in Int /\ (peak >= Pool[c] => peak' >= Pool[c])
    BY <1>2, <1>3, RouteAssumption
<1>5. RouteInv'
    <2>1. RouteTypeOK' /\ ReqTyped'
        BY <1>1, <1>2, <1>3 DEF RouteInv, RouteTypeOK, ReqTyped
    <2>2. KeyHeld' /\ NoConcurrentReplay'
        BY <1>1 DEF RouteInv, KeyHeld, NoConcurrentReplay, At
    <2>3. Checked'
        BY <1>1, <1>4 DEF RouteInv, Checked, At
    <2>4. DepositUsedOnce' /\ PeakKept'
        BY <1>1, <1>3 DEF RouteInv, DepositUsedOnce, PeakKept
    <2>5. ActivationCovered'
        BY <1>1, <1>4 DEF RouteInv, ActivationCovered
    <2> QED
        BY <2>1, <2>2, <2>3, <2>4, <2>5 DEF RouteInv
<1>6. /\ latest \in 1 .. MaxLedger /\ latest' = latest + 1 /\ latest' \in 1 .. MaxLedger
      /\ ledger \in [Txs -> 0 .. latest]
      /\ ledger' \in [Txs -> 0 .. latest']
      /\ cursor \in 0 .. latest /\ baseline \in 0 .. cursor
    <2>1. latest \in 1 .. MaxLedger /\ latest' = latest + 1 /\ latest' \in 1 .. MaxLedger
        BY MonitorAssumption DEF MonitorTypeOK, LedgerCloses
    <2>2. ledger \in [Txs -> 0 .. latest] /\ cursor \in 0 .. latest /\ baseline \in 0 .. cursor
        BY DEF MonitorTypeOK
    <2>3. ledger' = [t \in Txs |-> IF t \in S THEN latest + 1 ELSE ledger[t]]
        BY DEF LedgerCloses
    <2> QED
        BY <2>1, <2>2, <2>3
<1>7. \A t \in Txs : ledger'[t] = ledger[t] \/ ledger'[t] = latest + 1
    BY DEF LedgerCloses
<1>8. MonitorTypeOK'
    <2>1. cursor' \in 0 .. latest' /\ baseline' \in 0 .. cursor'
        BY <1>1, <1>6
    <2> QED
        BY <1>1, <1>5, <1>6, <2>1 DEF MonitorTypeOK, RouteInv
<1>9. AnswersRecorded' /\ PostInSlot'
    BY <1>1 DEF AnswersRecorded, PostInSlot, At
<1>10. mon.pc # "idle" => mon.from \in Int /\ mon.to \in Int /\ mon.to <= latest
    BY MonShape DEF TipSeen, Polling, Waiting
<1>11. TipSeen'
    BY <1>1, <1>6, <1>10 DEF TipSeen
<1>12. PollAccounts'
    <2> SUFFICES ASSUME mon.pc # "idle", mon.from # 0, NEW t \in Txs,
                        ledger'[t] \in mon.from .. mon.to
                 PROVE  t \in mon.todo \/ t \in mon.missed \/ <<t, MemoOf[t]>> \in ok200
        BY <1>1 DEF PollAccounts
    <2>1. ledger'[t] = ledger[t]
        BY <1>6, <1>7, <1>10
    <2> QED
        BY <2>1 DEF PollAccounts
<1>13. NothingPassedUnanswered'
    <2> SUFFICES ASSUME NEW t \in Txs, ledger'[t] \in baseline .. cursor,
                        baseline < cursor, t \notin passed
                 PROVE  <<t, MemoOf[t]>> \in ok200
        BY <1>1 DEF NothingPassedUnanswered
    <2>1. ledger'[t] = ledger[t]
        BY <1>6, <1>7
    <2> QED
        BY <2>1 DEF NothingPassedUnanswered
<1> QED
    BY <1>5, <1>8, <1>9, <1>11, <1>12, <1>13

-------------------------------------------------------------------------------
(* The poll loop *)

\* A step that ends the poll, or has none: nothing is promised about it.
LEMMA IdleFrame ==
    ASSUME MonitorInv, RouteInv', AnswersRecorded', mon' = Idle,
           UNCHANGED <<latest, ledger, cursor, baseline, passed, ok200>>
    PROVE  MonitorInv'
<1> USE DEF MonitorInv
<1>1. mon'.pc = "idle"
    BY DEF Idle
<1>2. MonitorTypeOK'
    BY DEF MonitorTypeOK, RouteInv
<1>3. PostInSlot' /\ TipSeen' /\ PollAccounts'
    BY <1>1 DEF PostInSlot, TipSeen, PollAccounts
<1>4. NothingPassedUnanswered'
    BY DEF NothingPassedUnanswered
<1> QED
    BY <1>2, <1>3, <1>4

\* A step that only changes the failure count keeps the webhook's invariant.
LEMMA FaultFrame ==
    ASSUME MonitorInv, faults' \in 0 .. MaxFaults,
           UNCHANGED <<status, deleted, depositTx, seen, req, wallet, posts, peak, ok200>>
    PROVE  RouteInv' /\ AnswersRecorded'
<1> USE DEF MonitorInv, RouteInv
<1>1. RouteTypeOK' /\ ReqTyped'
    BY DEF RouteTypeOK, ReqTyped
<1>2. KeyHeld' /\ NoConcurrentReplay' /\ Checked' /\ AnswersRecorded'
    BY DEF KeyHeld, NoConcurrentReplay, Checked, AnswersRecorded, At
<1>3. DepositUsedOnce' /\ PeakKept' /\ ActivationCovered'
    BY DEF DepositUsedOnce, PeakKept, ActivationCovered
<1> QED
    BY <1>1, <1>2, <1>3

\* The fetch sorts the deposits of its range into those to send and those it
\* leaves out; the range reaches to the tip.
LEMMA PollFetchKeeps ==
    ASSUME MonitorInv, NEW F \in SUBSET Txs, NEW dropped \in SUBSET F,
           PollFetch(F, dropped)
    PROVE  MonitorInv'
<1> USE DEF MonitorInv
<1> DEFINE range == {t \in Txs : ledger[t] # 0 /\ ledger[t] >= cursor}
           todo == IF cursor = 0 THEN {} ELSE {t \in F \ dropped : ValidMemo(t)}
           missed == IF cursor = 0 THEN {} ELSE range \ todo
           poll == [pc |-> "send", from |-> cursor, to |-> latest, todo |-> todo,
                    missed |-> missed]
<1>1. /\ mon' = poll
      /\ UNCHANGED <<status, deleted, depositTx, seen, req, wallet, posts, peak, ok200>>
      /\ UNCHANGED <<latest, ledger, cursor, baseline, passed>>
    BY DEF PollFetch
<1>2. faults' \in 0 .. MaxFaults
    <2>1. UNCHANGED faults \/ Fault
        BY DEF PollFetch
    <2> QED
        BY <2>1, FaultCounted DEF RouteInv, RouteTypeOK
<1>3. RouteInv' /\ AnswersRecorded'
    BY <1>1, <1>2, FaultFrame
<1>4. todo \subseteq Txs /\ missed \subseteq Txs
    OBVIOUS
<1>5. /\ latest \in 1 .. MaxLedger /\ ledger \in [Txs -> 0 .. latest]
      /\ cursor \in 0 .. latest /\ MaxLedger \in Nat
    BY MonitorAssumption DEF MonitorTypeOK
<1>6. \A t \in Txs : cursor # 0 /\ ledger[t] \in cursor .. latest => t \in todo \/ t \in missed
    BY <1>5
<1> HIDE DEF todo, missed
<1>7. /\ poll.pc = "send" /\ poll.from = cursor /\ poll.to = latest
      /\ poll.todo = todo /\ poll.missed = missed
    OBVIOUS
<1>8. poll \in Polling
    <2>1. cursor \in 0 .. MaxLedger
        BY <1>5
    <2> QED
        BY <1>4, <1>5, <2>1 DEF Polling
<1> HIDE DEF poll
<1>9. MonitorTypeOK'
    BY <1>1, <1>3, <1>8 DEF MonitorTypeOK, RouteInv
<1>10. PostInSlot'
    BY <1>1, <1>7 DEF PostInSlot
<1>11. TipSeen'
    BY <1>1, <1>5, <1>7 DEF TipSeen
<1>12. PollAccounts'
    BY <1>1, <1>6, <1>7 DEF PollAccounts
<1>13. NothingPassedUnanswered'
    BY <1>1 DEF NothingPassedUnanswered
<1> QED
    BY <1>3, <1>9, <1>10, <1>11, <1>12, <1>13

\* The next event is posted, in a slot that was free.
LEMMA SendKeeps ==
    ASSUME MonitorInv, NEW s \in Slots, NEW t \in Txs, Send(s, t)
    PROVE  MonitorInv'
<1> USE DEF MonitorInv
<1> DEFINE new == [at |-> "verify", tx |-> t, memo |-> MemoOf[t], id |-> t]
           post == [pc |-> "wait", from |-> mon.from, to |-> mon.to, todo |-> mon.todo,
                    missed |-> mon.missed, tx |-> t, slot |-> s]
<1>1. /\ mon.pc = "send" /\ t \in mon.todo
      /\ req' = [req EXCEPT ![s] = new]
      /\ mon' = post
      /\ UNCHANGED <<status, deleted, depositTx, seen, wallet, posts, peak, ok200, faults>>
      /\ UNCHANGED <<latest, ledger, cursor, baseline, passed>>
    BY DEF Send, Open
<1>2. MemoOf[t] \in Memos /\ t \in WebhookId
    BY MonitorAssumption DEF Memos, WebhookId
<1>3. /\ new \in Request /\ new.at = "verify" /\ new # Free
      /\ new.tx = t /\ new.memo = MemoOf[t]
    BY <1>2 DEF Request, Free
<1>4. mon \in Polling
    BY <1>1, MonShape
<1>5. /\ post \in Waiting
      /\ post.pc = "wait" /\ post.from = mon.from /\ post.to = mon.to
      /\ post.todo = mon.todo /\ post.missed = mon.missed
      /\ post.tx = t /\ post.slot = s
    BY <1>4 DEF Polling, Waiting
<1> HIDE DEF new, post
<1>6. req'[s] = new /\ \A r \in Slots \ {s} : req'[r] = req[r]
    BY <1>1 DEF ReqTyped, RouteInv
<1>7. \A r \in Slots : At(r)' \in Working \cup {"done"} => req'[r] = req[r] /\ At(r)' = At(r)
    BY <1>3, <1>6 DEF At, Working
<1>8. RouteInv'
    <2> USE DEF RouteInv
    <2>1. ReqTyped'
        BY <1>1, <1>3 DEF ReqTyped, Requests
    <2>2. RouteTypeOK'
        BY <1>1, <2>1 DEF RouteTypeOK, ReqTyped, Requests
    <2>3. KeyHeld' /\ NoConcurrentReplay'
        BY <1>1, <1>7 DEF KeyHeld, NoConcurrentReplay
    <2>4. Checked'
        BY <1>1, <1>7 DEF Checked, Working
    <2>5. DepositUsedOnce' /\ PeakKept' /\ ActivationCovered'
        BY <1>1 DEF DepositUsedOnce, PeakKept, ActivationCovered
    <2> QED
        BY <2>1, <2>2, <2>3, <2>4, <2>5
<1>9. AnswersRecorded'
    BY <1>1, <1>7 DEF AnswersRecorded
<1>10. MonitorTypeOK'
    BY <1>1, <1>5, <1>8 DEF MonitorTypeOK, RouteInv
<1>11. PostInSlot'
    BY <1>1, <1>3, <1>5, <1>6 DEF PostInSlot
<1>12. TipSeen'
    BY <1>1, <1>5 DEF TipSeen
<1>13. PollAccounts'
    BY <1>1, <1>5 DEF PollAccounts
<1>14. NothingPassedUnanswered'
    BY <1>1 DEF NothingPassedUnanswered
<1> QED
    BY <1>8, <1>9, <1>10, <1>11, <1>12, <1>13, <1>14

\* The answer arrives.  The event leaves the list only with a 2xx, which is on
\* record for its transaction and its memo.
LEMMA ReceiveKeeps ==
    ASSUME MonitorInv, Receive
    PROVE  MonitorInv'
<1> USE DEF MonitorInv
<1>1. mon.pc = "wait" /\ At(mon.slot) = "done"
    BY DEF Receive
<1>2. mon \in Waiting /\ mon.slot \in Slots /\ mon.tx \in Txs
    BY <1>1, MonShape DEF Waiting
<1>3. /\ req' = [req EXCEPT ![mon.slot] = Free]
      /\ UNCHANGED <<status, deleted, depositTx, seen, wallet, posts, peak, ok200, faults>>
      /\ UNCHANGED <<latest, ledger, cursor, baseline, passed>>
    BY DEF Receive
<1>4. RouteInv'
    <2>1. Release(mon.slot)
        BY <1>1, <1>3 DEF Release, Outside
    <2> QED
        BY <1>2, <2>1, ReleaseStep
<1>5. AnswersRecorded'
    <2>1. req'[mon.slot] = Free /\ \A r \in Slots \ {mon.slot} : req'[r] = req[r]
        BY <1>2, <1>3 DEF ReqTyped, RouteInv
    <2> QED
        BY <1>3, <2>1 DEF AnswersRecorded, At, Free
<1>6. CASE req[mon.slot].answer \notin Ok200
    <2>1. mon' = Idle
        BY <1>6 DEF Receive
    <2> QED
        BY <1>3, <1>4, <1>5, <2>1, IdleFrame
<1>7. CASE req[mon.slot].answer \in Ok200
    <2> DEFINE poll == [pc |-> "send", from |-> mon.from, to |-> mon.to,
                        todo |-> mon.todo \ {mon.tx}, missed |-> mon.missed]
    <2>1. mon' = poll
        BY <1>7 DEF Receive
    <2>2. /\ poll \in Polling
          /\ poll.pc = "send" /\ poll.from = mon.from /\ poll.to = mon.to
          /\ poll.todo = mon.todo \ {mon.tx} /\ poll.missed = mon.missed
        BY <1>2 DEF Polling, Waiting
    <2> HIDE DEF poll
    <2>3. <<mon.tx, MemoOf[mon.tx]>> \in ok200
        BY <1>1, <1>2, <1>7 DEF AnswersRecorded, PostInSlot
    <2>4. MonitorTypeOK'
        BY <1>3, <1>4, <2>1, <2>2 DEF MonitorTypeOK, RouteInv
    <2>5. PostInSlot' /\ TipSeen'
        BY <1>1, <1>3, <2>1, <2>2 DEF PostInSlot, TipSeen
    <2>6. PollAccounts'
        BY <1>1, <1>3, <2>1, <2>2, <2>3 DEF PollAccounts
    <2>7. NothingPassedUnanswered'
        BY <1>3 DEF NothingPassedUnanswered
    <2> QED
        BY <1>4, <1>5, <2>4, <2>5, <2>6, <2>7
<1> QED
    BY <1>6, <1>7

\* The cursor moves.  Below the old one the promise was kept before; from there
\* to the tip the poll has accounted for every deposit, and has none to send.
LEMMA SaveCursorKeeps ==
    ASSUME MonitorInv, SaveCursor
    PROVE  MonitorInv'
<1> USE DEF MonitorInv
<1>1. mon.pc = "send" /\ mon.todo = {} /\ mon' = Idle /\ UNCHANGED <<routeVars, latest, ledger>>
    BY DEF SaveCursor
<1>2. mon \in Polling /\ mon'.pc = "idle"
    BY <1>1, MonShape DEF Idle
<1>3. RouteInv' /\ AnswersRecorded'
    <2>1. RouteInv'
        BY <1>1, RouteStep
    <2> QED
        BY <1>1, <2>1 DEF AnswersRecorded, At, routeVars
<1>4. PostInSlot' /\ TipSeen' /\ PollAccounts'
    BY <1>2 DEF PostInSlot, TipSeen, PollAccounts
<1>5. /\ latest \in Int /\ ledger \in [Txs -> 0 .. latest] /\ cursor \in 0 .. latest
      /\ baseline \in 0 .. cursor /\ passed \subseteq Txs
    BY DEF MonitorTypeOK
<1>6. /\ mon.from \in Int /\ mon.to \in Int /\ 1 <= mon.to
      /\ mon.from = cursor /\ mon.from <= mon.to /\ mon.to <= latest
      /\ mon.missed \subseteq Txs
    BY <1>1, <1>2 DEF TipSeen, Polling
<1>7. /\ cursor' \in 0 .. latest
      /\ baseline' \in 0 .. cursor'
      /\ passed' \subseteq Txs
    BY <1>5, <1>6 DEF SaveCursor
<1>8. MonitorTypeOK'
    BY <1>1, <1>3, <1>7 DEF MonitorTypeOK, RouteInv
<1>9. ok200' = ok200 /\ ledger' = ledger
    BY <1>1 DEF routeVars
<1>10. NothingPassedUnanswered'
    <2>1. CASE mon.from = 0
        <3>1. baseline' = cursor' /\ cursor' \in Int
            BY <1>6, <2>1 DEF SaveCursor
        <3> QED
            BY <3>1 DEF NothingPassedUnanswered
    <2>2. CASE mon.from # 0 /\ mon.to > mon.from
        <3>1. cursor' = mon.to /\ passed' = passed \cup mon.missed /\ baseline' = baseline
            BY <1>6, <2>2 DEF SaveCursor
        <3> SUFFICES ASSUME NEW t \in Txs, ledger[t] \in baseline .. mon.to,
                            t \notin passed, t \notin mon.missed
                     PROVE  <<t, MemoOf[t]>> \in ok200
            BY <1>9, <3>1 DEF NothingPassedUnanswered
        <3>2. CASE ledger[t] < cursor
            <4>1. ledger[t] \in baseline .. cursor /\ baseline < cursor
                BY <1>5, <3>2
            <4> QED
                BY <4>1 DEF NothingPassedUnanswered
        <3>3. CASE ledger[t] >= cursor
            <4>1. ledger[t] \in mon.from .. mon.to
                BY <1>5, <1>6, <3>3
            <4> QED
                BY <1>1, <2>2, <4>1 DEF PollAccounts
        <3> QED
            BY <1>5, <3>2, <3>3
    <2>3. CASE mon.from # 0 /\ mon.to <= mon.from
        <3>1. UNCHANGED <<cursor, baseline, passed>>
            BY <1>6, <2>3 DEF SaveCursor
        <3> QED
            BY <1>9, <3>1 DEF NothingPassedUnanswered
    <2> QED
        BY <1>6, <2>1, <2>2, <2>3
<1> QED
    BY <1>3, <1>4, <1>8, <1>10

\* A poll is cut short: the cursor stays, and its list is forgotten.
LEMMA InterruptedKeeps ==
    ASSUME MonitorInv, Interrupted
    PROVE  MonitorInv'
<1>1. faults' \in 0 .. MaxFaults
    BY FaultCounted DEF Interrupted, MonitorInv, RouteInv
<1>2. RouteInv' /\ AnswersRecorded'
    BY <1>1, FaultFrame DEF Interrupted
<1> QED
    BY <1>2, IdleFrame DEF Interrupted

-------------------------------------------------------------------------------
(* The theorems *)

\* Nothing is known, sent or passed at the start.
LEMMA MonitorStart ==
    ASSUME MonitorInit
    PROVE  MonitorInv
<1> USE DEF MonitorInit
<1>1. RouteInv
    BY RouteStart
<1>2. mon.pc = "idle"
    BY DEF Idle
<1>3. MonitorTypeOK
    <2>1. /\ latest \in 1 .. MaxLedger /\ ledger \in [Txs -> 0 .. latest]
          /\ cursor \in 0 .. latest /\ baseline \in 0 .. cursor
        BY MonitorAssumption
    <2> QED
        BY <1>1, <2>1 DEF MonitorTypeOK, RouteInv
<1>4. AnswersRecorded
    BY DEF RouteInit, AnswersRecorded, At, Free
<1>5. PostInSlot /\ TipSeen /\ PollAccounts
    BY <1>2 DEF PostInSlot, TipSeen, PollAccounts
<1>6. NothingPassedUnanswered
    BY DEF NothingPassedUnanswered
<1> QED
    BY <1>1, <1>3, <1>4, <1>5, <1>6 DEF MonitorInv

\* The invariant holds in every reachable state of the monitor and the webhook.
THEOREM MonitorInvariance == Spec => []MonitorInv
<1>1. MonitorInit => MonitorInv
    BY MonitorStart
<1>2. MonitorInv /\ [Next]_vars => MonitorInv'
    <2> SUFFICES ASSUME MonitorInv, [Next]_vars PROVE MonitorInv'
        OBVIOUS
    <2>1. ASSUME NEW F \in SUBSET Txs, NEW dropped \in SUBSET F, PollFetch(F, dropped)
          PROVE  MonitorInv'
        BY <2>1, PollFetchKeeps
    <2>2. ASSUME NEW s \in Slots, NEW t \in Txs, Send(s, t) PROVE MonitorInv'
        BY <2>2, SendKeeps
    <2>3. CASE Receive
        BY <2>3, ReceiveKeeps
    <2>4. CASE SaveCursor
        BY <2>4, SaveCursorKeeps
    <2>5. CASE Interrupted
        BY <2>5, InterruptedKeeps
    <2>6. ASSUME NEW S \in SUBSET {t \in Txs \ PayoutTxs : ledger[t] = 0}, LedgerCloses(S)
          PROVE  MonitorInv'
        BY <2>6, LedgerKeeps
    <2>7. ASSUME NEW s \in Slots, Forgotten(s) PROVE MonitorInv'
        BY <2>7, ForgottenKeeps
    <2>8. CASE RequestStep /\ UNCHANGED monVars
        BY <2>8, RequestKeeps
    <2>9. CASE UNCHANGED vars
        <3>1. RouteInv'
            BY <2>9, RouteStep DEF vars, MonitorInv
        <3> QED
            BY <2>9, <3>1, RequestsStay DEF vars, routeVars
    <2> QED
        BY <2>1, <2>2, <2>3, <2>4, <2>5, <2>6, <2>7, <2>8, <2>9 DEF Next, Monitor
<1> QED
    BY <1>1, <1>2, PTL DEF Spec

\* The monitor's state keeps its type, and the cursor is never ahead of the
\* network, for any number of deposits and ledgers.
THEOREM MonitorTypeCorrect == Spec => []MonitorTypeOK
<1>1. MonitorInv => MonitorTypeOK
    BY DEF MonitorInv
<1> QED
    BY <1>1, MonitorInvariance, PTL

\* Whatever fails, is interrupted or arrives meanwhile, the cursor passes a
\* deposit only if the API answered 2xx for it or the fetch left it out.
THEOREM NothingPassedUnansweredAlways == Spec => []NothingPassedUnanswered
<1>1. MonitorInv => NothingPassedUnanswered
    BY DEF MonitorInv
<1> QED
    BY <1>1, MonitorInvariance, PTL

\* The webhook keeps its promises inside the composition too: one deposit funds
\* one challenge, no request is replayed beside itself, and every active
\* challenge was covered, also when the deposits the monitor reports are what
\* fills the hot wallet.
THEOREM RoutePromisesKept ==
    Spec => [](DepositUsedOnce /\ NoConcurrentReplay /\ ActivationCovered)
<1>1. MonitorInv => DepositUsedOnce /\ NoConcurrentReplay /\ ActivationCovered
    BY DEF MonitorInv, RouteInv
<1> QED
    BY <1>1, MonitorInvariance, PTL

===============================================================================
