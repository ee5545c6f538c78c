----------------------------- MODULE WebhookRoute -----------------------------
(***************************************************************************)
(* POST /webhooks/stellar/deposit: the verifyWebhook middleware (signature *)
(* checks, then the replay key in Redis) and the handler that activates a  *)
(* challenge.  Every await of a request is a step, and requests of several *)
(* callers interleave with each other and with the deletion of a brand.    *)
(*                                                                         *)
(* A memo is the challenge it names (deposit_memo is UNIQUE), or Unknown.  *)
(* Besides that only its format matters: "opaque" (24 characters of        *)
(* base64url, generateDepositMemo) or "uuid" (36 characters, the           *)
(* challengeId default of createChallenge).                                *)
(***************************************************************************)
EXTENDS Integers, Sequences, FiniteSets

CONSTANTS Challenges,
          Unknown,        \* a memo of no challenge
          Txs,            \* deposit transactions
          Series,         \* numbers other callers make x-webhook-ids from
          Slots,          \* concurrent requests
          PayoutTxs,      \* transactions that paid winners (payouts.tx_hash)
          FormatOf,       \* the format of each memo
          Pool,           \* pool_amount of each challenge
          MaxWallet,      \* bound: hot-wallet balance
          MaxPosts,       \* bound: requests made by other signed callers
          MaxFaults       \* bound: failures of the database, Horizon, RPC or a
                          \* process, and expiries of replay keys

ASSUME RouteAssumption ==
    /\ Unknown \notin Challenges \cup Txs
    /\ PayoutTxs \subseteq Txs
    /\ FormatOf \in [Challenges \cup {Unknown} -> {"uuid", "opaque"}]
    /\ Pool \in [Challenges -> Nat]
    /\ {MaxWallet, MaxPosts, MaxFaults} \subseteq Nat

VARIABLES status,         \* challenges.status
          deleted,        \* challenges with a deleted_at
          depositTx,      \* challenges.deposit_tx_hash (UNIQUE), or Unknown
          seen,           \* live webhook:id:* keys
          req,            \* the request in each slot
          wallet,         \* hot-wallet USDC balance (external)
          posts,          \* requests made so far by other callers
          faults,         \* failures and expiries so far
          peak,           \* history: the highest balance so far
          ok200           \* history: <<tx, memo>> some caller got a 200 for

routeVars == <<status, deleted, depositTx, seen, req, wallet, posts, faults, peak, ok200>>

Memos == Challenges \cup {Unknown}
Status == {"pending_deposit", "active", "cancelled"}
Ok200 == {"duplicate", "duplicate_tx_ignored", "already_processed", "activated"}
Failure == {"400", "401", "404", "409", "422", "500"}
Free == [at |-> "free"]
At(s) == req[s].at
\* x-webhook-id: "deposit-<txHash>" for the monitor; other callers use one id
\* for all attempts of one delivery ("Unique identifier for this delivery").
WebhookId == Txs \cup (Txs \X Memos \X Series)
Working == {"parse", "lookup", "memo", "balance", "update"}   \* past verifyWebhook
Request == [at : Working \cup {"verify"},
            tx : Txs, memo : Memos, id : WebhookId]
Answered == [at : {"done"}, tx : Txs, memo : Memos, id : WebhookId,
             answer : Ok200 \cup Failure]

RouteInit ==
    /\ status = [c \in Challenges |-> "pending_deposit"]
    /\ deleted = {}
    /\ depositTx = [c \in Challenges |-> Unknown]
    /\ seen = {}
    /\ req = [s \in Slots |-> Free]
    /\ wallet = 0
    /\ peak = 0
    /\ posts = 0
    /\ faults = 0
    /\ ok200 = {}

RouteGoto(s, label) ==
    req' = [req EXCEPT ![s] = [at |-> label, tx |-> req[s].tx,
                               memo |-> req[s].memo, id |-> req[s].id]]

Answer(s, a) ==
    /\ req' = [req EXCEPT ![s] = [at |-> "done", tx |-> req[s].tx,
                                  memo |-> req[s].memo, id |-> req[s].id,
                                  answer |-> a]]
    /\ ok200' = IF a \in Ok200 THEN ok200 \cup {<<req[s].tx, req[s].memo>>}
                               ELSE ok200

Open(s, t, m, i) ==
    /\ req[s] = Free
    /\ req' = [req EXCEPT ![s] = [at |-> "verify", tx |-> t, memo |-> m, id |-> i]]

\* What only other parts of the system change.
Outside == <<deleted, wallet, posts, peak>>

Fault == faults < MaxFaults /\ faults' = faults + 1

-------------------------------------------------------------------------------
(* verifyWebhook *)

\* Fault: the key is stored by whoever finishes, not by whoever starts.
VerifyMarkingLater(s) ==
    /\ At(s) = "verify"
    /\ \/ req[s].id \in seen /\ Answer(s, "duplicate")
       \/ req[s].id \notin seen /\ RouteGoto(s, "parse") /\ UNCHANGED ok200
    /\ UNCHANGED <<status, depositTx, seen, Outside, faults>>

\* SET webhook:id:<id> EX 600 NX, after every signature check passed.
Verify(s) ==
    /\ At(s) = "verify"
    /\ \/ /\ req[s].id \in seen
          /\ Answer(s, "duplicate")
          /\ UNCHANGED seen
       \/ /\ req[s].id \notin seen
          /\ seen' = seen \cup {req[s].id}
          /\ RouteGoto(s, "parse")
          /\ UNCHANGED ok200
    /\ UNCHANGED <<status, depositTx, Outside, faults>>

\* Wrong or rotated secret, stale timestamp, missing header: no key is set.
Unverified(s) ==
    /\ Fault
    /\ At(s) = "verify"
    /\ Answer(s, "401")
    /\ UNCHANGED <<status, depositTx, seen, Outside>>

\* The key lives longer than any request that set it.
Expire(i) ==
    /\ Fault
    /\ \A s \in Slots : At(s) \in Working => req[s].id # i
    /\ seen' = seen \ {i}
    /\ UNCHANGED <<status, depositTx, req, Outside, ok200>>

-------------------------------------------------------------------------------
(* The handler *)

\* DepositWebhookSchema: memo must be a UUID.
Parse(s) ==
    /\ At(s) = "parse"
    /\ \/ /\ FormatOf[req[s].memo] # "uuid"
          /\ Answer(s, "400")
       \/ /\ FormatOf[req[s].memo] = "uuid"
          /\ RouteGoto(s, "lookup")
          /\ UNCHANGED ok200
    /\ UNCHANGED <<status, depositTx, seen, Outside, faults>>

\* getChallengeByDepositTxHash, which skips deleted challenges, and
\* findPayoutByTxHash
Processed(t) ==
    \/ \E c \in Challenges \ deleted : depositTx[c] = t
    \/ t \in PayoutTxs

Lookup(s) ==
    /\ At(s) = "lookup"
    /\ \/ /\ Processed(req[s].tx)
          /\ Answer(s, "duplicate_tx_ignored")
       \/ /\ ~Processed(req[s].tx)
          /\ RouteGoto(s, "memo")
          /\ UNCHANGED ok200
    /\ UNCHANGED <<status, depositTx, seen, Outside, faults>>

\* getChallengeByMemo and the test of its status
CheckMemo(s) ==
    LET c == req[s].memo IN
    /\ At(s) = "memo"
    /\ \/ /\ c \in deleted \cup {Unknown}
          /\ Answer(s, "404")
       \/ /\ c \in Challenges \ deleted
          /\ status[c] # "pending_deposit"
          /\ Answer(s, "already_processed")
       \/ /\ c \in Challenges \ deleted
          /\ status[c] = "pending_deposit"
          /\ RouteGoto(s, "balance")
          /\ UNCHANGED ok200
    /\ UNCHANGED <<status, depositTx, seen, Outside, faults>>

\* Fault: the balance is not compared with the pool.
CheckBalanceSkipped(s) ==
    /\ At(s) = "balance"
    /\ RouteGoto(s, "update")
    /\ UNCHANGED <<status, depositTx, seen, Outside, ok200, faults>>

\* The whole hot wallet must hold the pool of this challenge.
CheckBalance(s) ==
    /\ At(s) = "balance"
    /\ \/ /\ wallet < Pool[req[s].memo]
          /\ Answer(s, "422")
       \/ /\ wallet >= Pool[req[s].memo]
          /\ RouteGoto(s, "update")
          /\ UNCHANGED ok200
    /\ UNCHANGED <<status, depositTx, seen, Outside, faults>>

\* Fault: deposit_tx_hash without its UNIQUE index.
ActivateNotUnique(s) ==
    LET c == req[s].memo IN
    /\ At(s) = "update"
    /\ status' = [status EXCEPT ![c] = "active"]
    /\ depositTx' = [depositTx EXCEPT ![c] = req[s].tx]
    /\ Answer(s, "activated")
    /\ UNCHANGED <<seen, Outside, faults>>

\* updateChallengeStatus(id, "active", { depositTx }): one UPDATE by id, with
\* no test of the status, that the UNIQUE deposit_tx_hash refuses with 23505.
Activate(s) ==
    LET c == req[s].memo
        taken == \E d \in Challenges \ {c} : depositTx[d] = req[s].tx
    IN
    /\ At(s) = "update"
    /\ \/ /\ taken
          /\ Answer(s, "409")
          /\ UNCHANGED <<status, depositTx>>
       \/ /\ ~taken
          /\ status' = [status EXCEPT ![c] = "active"]
          /\ depositTx' = [depositTx EXCEPT ![c] = req[s].tx]
          /\ Answer(s, "activated")
    /\ UNCHANGED <<seen, Outside, faults>>

\* Fault: status and hash are two statements, and the second one throws.
ThrowsHalfway(s) ==
    /\ Fault
    /\ At(s) = "update"
    /\ status' = [status EXCEPT ![req[s].memo] = "active"]
    /\ Answer(s, "500")
    /\ UNCHANGED <<depositTx, seen, Outside>>

\* A query or the Horizon request of any step throws: 500.
Throws(s) ==
    /\ Fault
    /\ At(s) \in {"lookup", "memo", "balance", "update"}
    /\ Answer(s, "500")
    /\ UNCHANGED <<status, depositTx, seen, Outside>>

Handle(s) ==
    \/ Verify(s)
    \/ Parse(s)
    \/ Lookup(s)
    \/ CheckMemo(s)
    \/ CheckBalance(s)
    \/ Activate(s)

-------------------------------------------------------------------------------
(* Everybody else *)

\* Another signed caller (an operator redelivering by hand) posts a
\* deposit, for the first time or again.
CallerPosts(s, t, m, n) ==
    /\ posts < MaxPosts
    /\ Open(s, t, m, <<t, m, n>>)
    /\ posts' = posts + 1
    /\ UNCHANGED <<status, deleted, depositTx, seen, wallet, peak, ok200, faults>>

\* The caller reads the answer.
Release(s) ==
    /\ At(s) = "done"
    /\ req' = [req EXCEPT ![s] = Free]
    /\ UNCHANGED <<status, depositTx, seen, Outside, ok200, faults>>

\* deleteBrand cancels the brand's open challenges.
DeleteBrand(c) ==
    /\ c \notin deleted
    /\ status[c] \in {"pending_deposit", "active"}
    /\ status' = [status EXCEPT ![c] = "cancelled"]
    /\ UNCHANGED <<depositTx, seen, req, Outside, ok200, faults>>

\* An admin deletes or restores a challenge; its status and hash stay.
SoftDelete(c) ==
    /\ c \notin deleted
    /\ deleted' = deleted \cup {c}
    /\ UNCHANGED <<status, depositTx, seen, req, wallet, posts, peak, ok200, faults>>

Restore(c) ==
    /\ c \in deleted
    /\ deleted' = deleted \ {c}
    /\ UNCHANGED <<status, depositTx, seen, req, wallet, posts, peak, ok200, faults>>

\* USDC arrives at the hot wallet, or pays another challenge's winners.
WalletMoves ==
    /\ \/ wallet < MaxWallet /\ wallet' = wallet + 1
       \/ wallet > 0 /\ wallet' = wallet - 1
    /\ peak' = IF wallet' > peak THEN wallet' ELSE peak
    /\ UNCHANGED <<status, deleted, depositTx, seen, req, posts, ok200, faults>>

RequestStep ==
    \/ \E s \in Slots : Handle(s) \/ Unverified(s) \/ Throws(s)
    \/ \E s \in Slots, t \in Txs, m \in Memos, n \in Series : CallerPosts(s, t, m, n)
    \/ \E i \in seen : Expire(i)

RouteNext ==
    \/ RequestStep
    \/ \E s \in Slots : Release(s)
    \/ \E c \in Challenges : DeleteBrand(c) \/ SoftDelete(c) \/ Restore(c)
    \/ WalletMoves

RouteSpec == RouteInit /\ [][RouteNext]_routeVars

-------------------------------------------------------------------------------
(* Properties *)

\* Columns, keys and requests keep their types.
RouteTypeOK ==
    /\ status \in [Challenges -> Status]
    /\ deleted \subseteq Challenges
    /\ depositTx \in [Challenges -> Txs \cup {Unknown}]
    /\ seen \subseteq WebhookId
    /\ \A s \in Slots : req[s] = Free \/ req[s] \in Request \cup Answered
    /\ {wallet, peak} \subseteq 0 .. MaxWallet
    /\ posts \in 0 .. MaxPosts
    /\ faults \in 0 .. MaxFaults
    /\ ok200 \subseteq Txs \X Memos

\* While one request with an id is past the replay key, no other one with
\* the same id gets past it: SET NX is the only test, and the key outlives
\* the request.
NoConcurrentReplay ==
    \A r, s \in Slots :
        At(r) \in Working /\ At(s) \in Working /\ req[r].id = req[s].id => r = s

\* One deposit funds one challenge, whatever ids and memos it is posted with
\* and however the requests overlap: two requests can both find the
\* transaction unused, and the UNIQUE index refuses the later one.
DepositUsedOnce ==
    \A c, d \in Challenges : depositTx[c] = depositTx[d] => c = d \/ depositTx[c] = Unknown

\* A challenge that is active was, at some time, covered by the hot wallet:
\* no path to "active" goes round the balance check.
ActivationCovered ==
    \A c \in Challenges : status[c] = "active" => peak >= Pool[c] /\ depositTx[c] # Unknown

\* A challenge becomes active, or its hash is written.
Funded(c) ==
    \/ depositTx'[c] # depositTx[c]
    \/ status'[c] = "active" /\ status[c] # "active"

\* A request for the challenge is answered "activated".
AnsweredActivated(c) ==
    \E s \in Slots : /\ At(s) = "update" /\ req[s].memo = c
                     /\ req'[s].at = "done"
                     /\ req'[s].answer = "activated"
                     /\ depositTx'[c] = req[s].tx

\* A refused request changes nothing (docs/api/webhooks.md: "an appropriate
\* error is returned without modifying the challenge state"): a challenge
\* becomes active, and its hash is written, only in the step that answers
\* "activated", and both at once.
FailuresChangeNothing ==
    [][\A c \in Challenges : Funded(c) => AnsweredActivated(c)]_routeVars

\* docs/api/webhooks.md, activation flow, step 3: "Verify the challenge is
\* still in `pending_deposit` status" before it is made active.
OnlyPendingActivated ==
    [][\A c \in Challenges :
          status[c] # "active" /\ status'[c] = "active"
              => status[c] = "pending_deposit"]_routeVars

\* docs/api/webhooks.md, response codes: "200 OK | Webhook processed or
\* idempotent duplicate | No retry needed".  Once no request for it is under
\* way, a deposit that was answered 200 left its challenge processed.
OkMeansProcessed ==
    \A d \in ok200 :
        (\A s \in Slots : At(s) \in Working \cup {"verify"} => req[s].tx # d[1])
            => \/ d[1] \in PayoutTxs
               \/ \E c \in Challenges : depositTx[c] = d[1]
               \/ d[2] # Unknown /\ status[d[2]] # "pending_deposit"
==============================================================================
