---------------------------- MODULE DepositMonitor ----------------------------
(***************************************************************************)
(* The deposit monitor (apps/deposit-monitor) composed with the webhook    *)
(* route it posts to.  The monitor keeps one number, the ledger it has     *)
(* processed, in Redis.  A poll reads it, asks RPC for the transfers to    *)
(* the hot wallet since that ledger, posts them one after the other in     *)
(* ledger order, stops at the first failure, and moves the cursor to the   *)
(* latest ledger RPC reported only when every post was answered 2xx.       *)
(*                                                                         *)
(* The monitor sees only the answers to its requests, which Handle and     *)
(* Throws already produce in every way; the brand and admin actions and    *)
(* the other uses of the hot wallet are left to WebhookRoute.              *)
(***************************************************************************)
EXTENDS WebhookRoute, FiniteSetsExt

CONSTANTS MemoOf,         \* the memo of each deposit on the ledger
          PageLimit,      \* events per getEvents response (200 in the code)
          MaxLedger       \* bound: ledgers that close

ASSUME MonitorAssumption ==
    /\ MemoOf \in [Txs -> Challenges \cup {Unknown}]
    /\ {PageLimit, MaxLedger} \subseteq Nat \ {0}

VARIABLES latest,         \* the network's latest ledger
          ledger,         \* the ledger of each deposit, 0 before it is made
          cursor,         \* stellar:deposit_monitor:last_ledger, 0 if missing
          baseline,       \* history: where the first poll put the cursor
          mon,            \* what the poll loop is doing
          passed          \* history: events the cursor passed without a post

monVars == <<latest, ledger, cursor, baseline, mon, passed>>
vars == <<routeVars, monVars>>

Idle == [pc |-> "idle"]
Polling == [pc : {"send"}, from : 0 .. MaxLedger, to : 1 .. MaxLedger,
            todo : SUBSET Txs, missed : SUBSET Txs]
Waiting == [pc : {"wait"}, from : 0 .. MaxLedger, to : 1 .. MaxLedger,
            todo : SUBSET Txs, missed : SUBSET Txs, tx : Txs, slot : Slots]

MonitorInit ==
    /\ RouteInit
    /\ latest = 1
    /\ ledger = [t \in Txs |-> 0]
    /\ cursor = 0
    /\ baseline = 0
    /\ mon = Idle
    /\ passed = {}

\* What some deposits add to the hot wallet: each pays the exact pool.
Received(S) ==
    MapThenSumSet(LAMBDA t : IF MemoOf[t] = Unknown THEN 0 ELSE Pool[MemoOf[t]], S)

\* The network: a ledger closes with some deposits.
LedgerCloses(S) ==
    /\ latest < MaxLedger
    /\ latest' = latest + 1
    /\ ledger' = [t \in Txs |-> IF t \in S THEN latest + 1 ELSE ledger[t]]
    /\ wallet' = wallet + Received(S)
    /\ wallet' \in 0 .. MaxWallet
    /\ peak' = IF wallet' > peak THEN wallet' ELSE peak
    /\ UNCHANGED <<status, deleted, depositTx, seen, req, posts, ok200, faults>>
    /\ UNCHANGED <<cursor, baseline, mon, passed>>

\* validateDepositMemo: at most 28 bytes, so the 36 of a UUID never pass.
ValidMemo(t) == FormatOf[MemoOf[t]] = "opaque"

\* getEvents from startLedger: the oldest PageLimit events of the range.
Page(range) ==
    {F \in SUBSET range :
        /\ Cardinality(F) = Min({PageLimit, Cardinality(range)})
        /\ \A t \in F, u \in range \ F : ledger[t] <= ledger[u]}

\* fetchDepositEvents, after reading the cursor.  An event whose getTransaction
\* fails three times, or whose memo is invalid, is left out.  Without a cursor
\* the events are ignored.
PollFetch(F, dropped) ==
    LET range == {t \in Txs : ledger[t] # 0 /\ ledger[t] >= cursor}
        todo  == IF cursor = 0 THEN {} ELSE {t \in F \ dropped : ValidMemo(t)}
    IN
    /\ mon = Idle
    /\ F \in Page(range)
    /\ IF dropped = {} THEN UNCHANGED faults ELSE Fault
    /\ mon' = [pc |-> "send", from |-> cursor, to |-> latest, todo |-> todo,
               missed |-> IF cursor = 0 THEN {} ELSE range \ todo]
    /\ UNCHANGED <<status, deleted, depositTx, seen, req, wallet, posts, peak, ok200>>
    /\ UNCHANGED <<latest, ledger, cursor, baseline, passed>>

\* sendDepositWebhook posts the next event.
Send(s, t) ==
    /\ mon.pc = "send"
    /\ t \in mon.todo
    /\ \A u \in mon.todo : ledger[t] <= ledger[u]
    /\ Open(s, t, MemoOf[t], t)
    /\ mon' = [pc |-> "wait", from |-> mon.from, to |-> mon.to, todo |-> mon.todo,
               missed |-> mon.missed, tx |-> t, slot |-> s]
    /\ UNCHANGED <<status, deleted, depositTx, seen, wallet, posts, peak, ok200, faults>>
    /\ UNCHANGED <<latest, ledger, cursor, baseline, passed>>

\* Fault: after a failure the loop goes on with the next event.
ReceiveAndGoOn ==
    /\ mon.pc = "wait"
    /\ At(mon.slot) = "done"
    /\ req' = [req EXCEPT ![mon.slot] = Free]
    /\ mon' = [pc |-> "send", from |-> mon.from, to |-> mon.to,
               todo |-> mon.todo \ {mon.tx}, missed |-> mon.missed]
    /\ UNCHANGED <<status, deleted, depositTx, seen, wallet, posts, peak, ok200, faults>>
    /\ UNCHANGED <<latest, ledger, cursor, baseline, passed>>

\* Fault: only "activated" counts as delivered.
ReceiveStrict ==
    /\ mon.pc = "wait"
    /\ At(mon.slot) = "done"
    /\ req' = [req EXCEPT ![mon.slot] = Free]
    /\ mon' = IF req[mon.slot].answer = "activated"
              THEN [pc |-> "send", from |-> mon.from, to |-> mon.to,
                    todo |-> mon.todo \ {mon.tx}, missed |-> mon.missed]
              ELSE Idle
    /\ UNCHANGED <<status, deleted, depositTx, seen, wallet, posts, peak, ok200, faults>>
    /\ UNCHANGED <<latest, ledger, cursor, baseline, passed>>

\* The answer arrives: 2xx goes on with the next event, anything else ends
\* the poll with the cursor where it was.
Receive ==
    /\ mon.pc = "wait"
    /\ At(mon.slot) = "done"
    /\ req' = [req EXCEPT ![mon.slot] = Free]
    /\ mon' = IF req[mon.slot].answer \in Ok200
              THEN [pc |-> "send", from |-> mon.from, to |-> mon.to,
                    todo |-> mon.todo \ {mon.tx}, missed |-> mon.missed]
              ELSE Idle
    /\ UNCHANGED <<status, deleted, depositTx, seen, wallet, posts, peak, ok200, faults>>
    /\ UNCHANGED <<latest, ledger, cursor, baseline, passed>>

\* Fault: the cursor is put after the tip, as if startLedger were exclusive.
SavePlusOne ==
    /\ mon.pc = "send"
    /\ mon.todo = {}
    /\ mon' = Idle
    /\ cursor' = mon.to + 1
    /\ baseline' = IF mon.from = 0 THEN mon.to ELSE baseline
    /\ passed' = passed \cup mon.missed
    /\ UNCHANGED <<routeVars, latest, ledger>>

\* Everything was posted: the cursor moves to the tip the fetch saw.
SaveCursor ==
    /\ mon.pc = "send"
    /\ mon.todo = {}
    /\ mon' = Idle
    /\ \/ /\ mon.from = 0
          /\ cursor' = mon.to
          /\ baseline' = mon.to
          /\ UNCHANGED passed
       \/ /\ mon.from # 0 /\ mon.to > mon.from
          /\ cursor' = mon.to
          /\ passed' = passed \cup mon.missed
          /\ UNCHANGED baseline
       \/ /\ mon.from # 0 /\ mon.to <= mon.from
          /\ UNCHANGED <<cursor, baseline, passed>>
    /\ UNCHANGED <<routeVars, latest, ledger>>

\* RPC or Redis fails, the connection to the API breaks, or the process is
\* restarted: the poll is forgotten, a request already sent goes on.
Interrupted ==
    /\ Fault
    /\ mon # Idle
    /\ mon' = Idle
    /\ UNCHANGED <<status, deleted, depositTx, seen, req, wallet, posts, peak, ok200>>
    /\ UNCHANGED <<latest, ledger, cursor, baseline, passed>>

Forgotten(s) ==
    /\ mon.pc = "wait" => mon.slot # s
    /\ Release(s)
    /\ UNCHANGED monVars

Monitor ==
    \/ \E F \in SUBSET Txs : \E dropped \in SUBSET F : PollFetch(F, dropped)
    \/ \E s \in Slots, t \in Txs : Send(s, t)
    \/ Receive
    \/ SaveCursor

Next ==
    \/ Monitor
    \/ Interrupted
    \/ \E S \in SUBSET {t \in Txs \ PayoutTxs : ledger[t] = 0} : LedgerCloses(S)
    \/ \E s \in Slots : Forgotten(s)
    \/ RequestStep /\ UNCHANGED monVars

\* The poll loop runs for ever, and the API answers.
Spec ==
    /\ MonitorInit
    /\ [][Next]_vars
    /\ WF_vars(Monitor)
    /\ \A s \in Slots : WF_vars(Handle(s) /\ UNCHANGED monVars) /\ WF_vars(Forgotten(s))

-------------------------------------------------------------------------------
(* Properties *)

\* The monitor's state keeps its type; the cursor is not ahead of the network.
MonitorTypeOK ==
    /\ RouteTypeOK
    /\ latest \in 1 .. MaxLedger
    /\ ledger \in [Txs -> 0 .. latest]
    /\ cursor \in 0 .. latest
    /\ baseline \in 0 .. cursor
    /\ mon = Idle \/ mon \in Polling \cup Waiting
    /\ passed \subseteq Txs

\* Across failed posts, interrupted polls and ledgers closing meanwhile, the
\* cursor passes an event only if the API answered 2xx for it, or the fetch
\* left it out ("Update cursor only if all events were processed",
\* apps/deposit-monitor/src/index.ts).
NothingPassedUnanswered ==
    \A t \in Txs :
        /\ ledger[t] \in baseline .. cursor
        /\ baseline < cursor
        /\ t \notin passed
        => <<t, MemoOf[t]>> \in ok200

\* The monitor is never stuck: once failures stop, the cursor catches up with
\* every ledger, also past deposits that the API keeps refusing.
CursorCatchesUp ==
    \A l \in 1 .. MaxLedger : latest = l ~> cursor >= l

\* docs/guides/funding-a-challenge.md: "Once confirmed on the Stellar network,
\* the challenge status transitions from `pending_deposit` to `active`".
FundedChallengeActivates ==
    \A t \in {u \in Txs : MemoOf[u] \in Challenges} :
        (ledger[t] > baseline /\ baseline > 0)
            ~> (status[MemoOf[t]] # "pending_deposit")
==============================================================================
