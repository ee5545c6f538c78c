# BrandBlitz: a TLA+ verification project

BrandBlitz runs sponsored quiz challenges. A brand deposits USDC on Stellar for
a challenge, players answer timed questions about the brand, and the pool is
paid out to the winners. The money, and the order in which independent
processes touch it, is where the program is hard to get right. This project
models those parts, checks them with TLC on small instances, and proves with
TLAPS what holds for every instance.

`PROJECT.json` has the machine-readable side: every component and its status,
the runs, the source lines behind every definition, the mutants that show each
property can fail, the hazards and the findings. Paths below are relative to
`src/`.

- [1. The system](#1-the-system)
- [2. What is hard about it](#2-what-is-hard-about-it)
- [3. Modules and how they correspond to the code](#3-modules-and-how-they-correspond-to-the-code)
- [4. Runs, bounds and fairness](#4-runs-bounds-and-fairness)
- [5. Proofs](#5-proofs)
- [6. Where code and documents disagree](#6-where-code-and-documents-disagree)
- [7. What the models assume](#7-what-the-models-assume)
- [8. What is not modelled, and the plan](#8-what-is-not-modelled-and-the-plan)

## 1. The system

| Component | State it keeps | Operations | Interacts with | Correct when |
|---|---|---|---|---|
| Escrow contract (`contracts/contracts/escrow`) | admin, depositor, balance, settled | initialize, deposit, settle, refund | the USDC token; the API's hot wallet is its admin | it owns what it owes, one payer, one complete release |
| Sequence allocator (`packages/stellar/src/sequence.ts`, `apps/api/src/lib/redis.ts`) | `base` and `offset` in Redis, a per-process map of pending loads | ensureBaseSequence, reserveSequence, resetSequence | Horizon (the account's sequence), every payout worker | numbers are consecutive and unique; nobody joins a settled load |
| Batch payout (`packages/stellar/src/payout.ts`, `client.ts`) | none of its own | submitBatchPayout: chunk, reserve, submit, retry, reset after `tx_bad_seq` | the allocator, the ledger | a batch of a call is paid at most once, a reported success is on the ledger, every call ends |
| Webhook route (`apps/api/src/middleware/verify-webhook.ts`, `routes/webhooks.ts`) | replay keys in Redis, `challenges.status`, `deposit_tx_hash` | verify, deduplicate, activate | the monitor, other signed callers, Horizon (balance), brand and admin routes | one deposit funds one challenge, refused requests change nothing |
| Deposit monitor (`apps/deposit-monitor`, `packages/stellar/src/deposit.ts`) | one ledger number in Redis (`stellar:deposit_monitor:last_ledger`) | poll: fetch events, post webhooks, move the cursor | Soroban RPC, the webhook route | the cursor passes only answered events and catches up |
| Payout service (`apps/api/src/services/payout.ts`) | payouts rows, `challenges.status` | enqueuePayout, processPayout, the daily batch run | BullMQ, escrow contract, batch payout | nobody is paid twice, rows tell the truth, settled means paid |
| Payout queue and dead letters (`apps/api/src/queues`) | the BullMQ job, the dead letter | retry, stall, forwardToDlq, processPayoutDlqJob | the payout service | one run at a time, stranded rows are reconciled |
| Admin payout routes (`apps/api/src/routes/admin`) | none | settle, retry | queue, payouts rows | a retry never undoes a sent row |
| Game sessions (`apps/api/src/routes/sessions.ts`, `db/queries/sessions.ts`, `middleware/anti-cheat.ts`) | one row per player and challenge, unlock keys, challenge tokens | warm-up, start, answer, quit, sweep, finish, seal | the user's totals, the payout's integrity check | a session counts once, its total is its rounds, its seal matches |
| Payout amounts (`services/payout.ts`, `lib/usdc.ts`) | payouts rows | divide the pool, licence fee, re-divide in a later run | sessions, licences, addresses | over all runs no more than the pool leaves, rows say what was paid |
| Refunds (`services/refund.ts`) | refunds rows, `challenges.status` | refundChallenge | ledger, payout service | no payment beyond what overlapping requests explain |
| Referral bonus (`services/referrals.ts`, `queues/processors/referral-bonus.processor.ts`) | referral_payouts row, job | reward, enqueue, pay | payout service, batch payout | paid once per look at a pending row, and its worth |
| Sign-in and tokens (`routes/auth.ts`, `lib/tokens.ts`) | Redis: used and revoked tokens, tokens per user, PKCE states | callback, refresh, logout, revoke all | 2FA, erasure | a dead token stays dead, a live one can be revoked |
| Two-factor codes (`routes/auth.2fa.ts`, `db/queries/totp.ts`) | secret row, backup codes | enrol, confirm, verify, regenerate, disenrol | sign-in | only a proven secret is on; a used code is used |
| Erasure (`routes/me/delete-account.ts`, gdpr-erasure queue) | request rows, a delayed job | request, cancel, run | tokens, administrators | who is erased asked for it; a pending request has its job |
| Names, phones, keys, status (`routes/users.ts`, `services/phone.ts`, `middleware/api-key-auth.ts`, `routes/admin/users.ts`) | users rows, redirects, counters and cached keys in Redis, audit rows | rename, verify, revoke, suspend, impersonate | Twilio, every authenticated route | names lead to their owner, the limit limits, a revoked key is refused, changes are audited |
| Files (`routes/upload.ts`, `components/brand/upload-field.tsx`, avatars) | objects, pending records | presign, put, verify, abort, replace avatar | object storage | what a row or form points to exists |
| Brands, challenges, questions (`routes/brands.ts`, `routes/challenges.ts`, `routes/challenge-management.ts`) | rows | create, clone, duplicate, regenerate, delete, restore | deposits, players | who plays finds questions, deposits reach their own row, a closed brand is closed |
| Recurring templates (`services/challenge-templates.ts`) | template row, spawned challenges | daily sweep, pause, resume, delete | challenges | one challenge per start, a sweep ends |
| Lists (`db/pagination.ts` and its users) | none | a page after a cursor or by number | every table | a walk shows each row that stayed once |
| Boards, profiles, statistics (`db/queries/*.ts`, `leaderboard-refresh.queue.ts`) | a materialised view and its cache | the reads | sessions, payouts, ratings, brands | they show what the rows say |
| Read cache (`lib/cache.ts`, `lib/cache-tags.ts`) | a value and a lock in Redis | cached, withCoalescing, invalidate | loaders and writers | fresh, one loader, every caller answered |
| Web pages (`apps/web/src/app`, `components`) | rows, flags and choices of a React component | load, filter, poll, append, write, retry | the API | the screen shows its own choice and the visitor's own write, a failure is no empty list, a spinner ends |
| Leagues, multisig, chat, rate limits, notifications, brand webhooks, archive | see `PROJECT.json` | | | section 8 |

A deposit travels monitor → webhook route → `challenges.status = 'active'`. Sessions
then fill the leaderboard; an admin request or the daily run makes processPayout
create a row per winner, pay through the escrow contract or through batch
payments, and write the outcome. Every one of these arrows is an asynchronous
call that can fail, be repeated, or overlap with another one.

## 2. What is hard about it

- **Interleavings without locks.** API handlers read a row, await something (Horizon,
  Redis, another query) and then write without a condition on what they read.
- **At-least-once work.** BullMQ jobs are retried and, when a slot is only late,
  given to a second slot; webhooks are posted again when an answer is lost.
- **Two stores.** A payment is on the ledger before the row says so, and a process
  can stop in between.
- **Ambiguous answers.** A submission that timed out may be applied now, later, or never.
- **Keys with a life time.** Replay keys, the batch lock and the job lock expire
  while the work they protect may still go on.
- **Windows of two commands.** Token revocation, attempt counters, redirects, question
  regeneration and cache locks are a read and a write, or two writes, with nothing
  between them that stops another request or a crash.
- **Answers out of order.** A page starts a load per click and applies what comes last.
- **Replaced rows.** An abandoned session row is replaced by one with a new id
  while requests still carry the old id.

The list, each item at its line and with the properties that cover it, is
`"hazards"` in `PROJECT.json`.

## 3. Modules and how they correspond to the code

| Module | Models | Composed with |
|---|---|---|
| `EscrowPromise` | abstract: a pot with one payer, released once | |
| `EscrowContract` | `escrow/src/lib.rs` | implements `EscrowPromise` (`INSTANCE ... WITH`) |
| `SequenceAllocator` | `sequence.ts` over the Redis store | |
| `BatchPayout` | `submitBatchPayout`, `withRetry`, the ledger as Horizon shows it | extends `SequenceAllocator` |
| `WebhookRoute` | `verifyWebhook` and the deposit handler | |
| `DepositMonitor` | `poll`, `fetchDepositEvents`, `sendDepositWebhook` | extends `WebhookRoute`: one step of either at a time, the monitor waits for the request it posted |
| `PayoutPipeline` | processPayout, the queue, the batch lock, the dead letters, the admin routes | takes `BatchPayout` and `EscrowContract` by their outcomes |
| `PayoutAmounts` | how successive runs of processPayout divide the pool | takes `PayoutPipeline`'s runs one at a time |
| `SidePayments` | refunds and referral bonuses beside the payout | takes the payout as three steps |
| `SessionLifecycle` | the session routes, the sweep, the error handler | |
| `RefreshTokens`, `TwoFactor`, `Erasure`, `Usernames`, `PhoneVerification`, `AccountAccess`, `Uploads` | one account each: sign-in and tokens, second factor, right to erasure, names, phone, keys and status, files | |
| `Authoring` | challenges and questions of one brand | takes deposits and settlement as status changes |
| `RecurringTemplates` | the sweep that spawns challenges | |
| `Pagination` | every paged list, walked while rows move | |
| `Views` | every read that aggregates brands, challenges, plays, ratings, payouts | |
| `ReadCache` | `cached`, `withCoalescing`, invalidation | |
| `WebPages` | the pages and panels that load data | takes the API as answers, late, failed or out of order |
| `CustodyProofs` | theorems about the contract, the allocator and the two beside the webhook route | extends `MCCustody` and the route's proofs |
| `WebhookRouteProofs`, `DepositMonitorProofs`, `BatchPayoutProofs`, `PayoutPipelineProofs` | theorems about the module of that name | extend it; `DepositMonitorProofs` also the route's proofs |
| `SessionLifecycleProofs` | theorems about sessions, and about sessions beside batches | extends `MCPlayAndPay` and `BatchPayoutProofs` |
| `AccountProofs` | theorems about the account modules, `Authoring`, `SidePayments`, `PayoutAmounts`, `Views` and `Pagination` | extends `MCAccountsAndBrands`, whose `AbSpec` they are about |
| `ProgressProofs` | theorems about `ReadCache`, `WebPages` and `RecurringTemplates` | extends `MCProgress`, whose `ProgressSpec` they are about, and `BatchPayoutProofs` |
| `MCCustody`, `MCPlayAndPay`, `MCAccountsAndBrands`, `MCProgress` | runs over several components | extend them, `focus` chooses one |
| `MCDepositMonitor`, `MCPayoutPipeline`, `MCWebhookRoute` | constants of the other runs | |

**Components in one run.** Four MC modules put components that share no state into
one run. A variable `focus`, chosen in the initial state, says which of them moves;
the others stay in one of their initial states. Nothing is lost: a component's
variables appear in no action of another, so every behaviour of a component is a
behaviour of the run with that focus, and an interleaving with a component it
shares nothing with shows no property of either anything new. Components that do
interact are composed in the module itself (`DepositMonitor` with `WebhookRoute`,
`BatchPayout` with `SequenceAllocator`), or one appears in the other by the
outcomes it can have.

**Granularity.** In the TypeScript components every `await` that other actors can
see is a step; what happens between two awaits is atomic because JavaScript is
single-threaded per process. Consecutive reads are merged where nothing can tell
the difference (said at the definition). A contract call is one step, because the
host rolls back everything when it fails. One SQL statement is one step, a
transaction that locks the row is one step.

**State.** `EscrowContract` has the storage keys by name and, outside it, what the
token did (`held`, `transfers`). `SequenceAllocator` has the two Redis keys,
`pendingBaseLoads` (`loads`) and per worker a program counter and the base it
holds. `BatchPayout` adds per worker the loop variables (batch, retries, tries)
and the set of applied transactions; a transaction is identified by worker, call,
batch and rebuild, so re-sending is the same transaction and rebuilding is
another one. `WebhookRoute` has the columns of `challenges`, the live replay keys
and the request in each slot; a memo is the challenge it names plus its format,
because the two ends of the flow disagree about formats. `DepositMonitor` adds
ledgers, cursor and the poll in progress. `PayoutPipeline` has one challenge, its
rows, the job, the lock and a run per worker slot; what is decided before the
payout (schedule, escrow or not, addresses, fraud blocks) is a plan chosen in
`Init`. `SessionLifecycle` has the one row of a player in a challenge and the
player's overlapping requests. `PayoutAmounts` has the rows with their amounts
and what each user got. The account modules have the Redis keys and rows of one
account and a record per request under way: where it stands and what it has read.
`Authoring` has the brand, its challenges and the question of each round.
`Pagination` has a table of rows reduced to what lists order by (an id, a number, a
time stamp in microsecond ticks) and the client's cursor, which keeps milliseconds;
each list is an operator named after its query. `Views` has the rows the statistics
read, and one operator per view. `WebPages` has one page open at a time; a page is
a record of the details in which its code differs from the others (does the loader
drop an overtaken answer, does a failure set a flag or empty the rows, does a write
reload or patch), so that some forty components are as many definitions over one set of actions.

**History variables** (marked in the declarations) exist only for properties:
`received`, `released`, `reserved`, `peak`, `ok200`, `passed`, `lost`, `overrun`,
`counted`, `exposed`, `early`, `late`, `reopened`, `shifted`, `unlisted`, `crossed`,
`mixed`, `causes`, `retaken`, `overlapped`, `stuckOtp`, `lateFill`, `rewrote`, `hurt`,
`tardy`, `moved`, `edges`, `crossedBy`, `ran`, and `mine`/`noted` in a run.
No guard reads them, except that `reserved` also bounds the allocator's runs.

**Named faults.** An operator whose comment starts with "Fault" is not part of
the specification: it is the form a definition would have if the code had a
plausible bug (a missing `NX`, a dropped status filter, an off-by-one), and it
is used to show that the property named in `"mutants"` would notice.

## 4. Runs, bounds and fairness

| Run | Instance | States | Checks |
|---|---|---|---|
| `custody` | escrow: 3 accounts, i128 shrunk to 0..4, amounts 0..3, lists of up to 2 recipients (one address twice included); allocator: 3 workers in 2 processes, 4 reservations; webhook: 2 challenges, 2 deposits and a payout hash, 2 requests at a time, 2 posts, 2 failures | 218 000 | `FundsKept`, `EventsMatchTransfers`, `SettledIsFinal`, refinement of `EscrowPromise`; `DenseAndUnique`; `NoConcurrentReplay`, `DepositUsedOnce`, `ActivationCovered`, `FailuresChangeNothing` |
| `deposit_monitor` | 1 challenge, 3 deposits, 3 ledgers, pages of 2 events, 1 failure | 84 000 | `NothingPassedUnanswered`; liveness: `CursorCatchesUp` |
| `payout_pipeline` | 2 winners, 2 slots, 2 attempts, 1 stall, 2 failures, 1 admin retry, 2 requests, 8 plans | 527 000 | `PaidTwiceOnlyIfLost`, `RecordsHonest`, `RunsAlone`, `SentStaysSent`; liveness: `StrandedRowsReconciled` |
| `play_and_pay` | sessions: 2 overlapping requests, 2 successive sessions, 2 rounds; batches: 2 workers of one process, 2 batches, 1 rebuild, 2 tries | 4.4 million | `CountedTruly`, `FairPlay`; `PaidOnce`, `SuccessIsPaid` |
| `accounts_and_brands` | 2 overlapping requests everywhere (3 for the attempt limit), 2 to 3 objects of a kind, 1 or 2 failures, 3 rows in 6 orders of number and time, 2 events under a view, 2 runs of a payout for 3 users | 621 000 | `CredentialsSound`, `NothingRevives`, `ErasureFollowsRequests`, `OtpGuarded`, `LinksAlive`, `PaymentsBounded`, `WalksComplete`, `ChallengesSound`, `RegenerationNotOverwritten`, `BrandViewsHonest` |
| `progress` | 2 callers of the cache, 1 write; every page with 3 loads and 2 writes; 2 sweeps on 4 days around the turn of a year; 2 workers, 2 calls of 1 batch | 321 000 | `CacheSound`, `PagesTruthful`, `OneChallengePerPeriod`; liveness: `NobodyWaitsForever` |
| `ok_means_processed`, `only_pending_activated`, `funded_challenge_activates`, `sent_not_resubmitted`, `refresh_rotates`, `bonus_worth` | small instances of the same modules | | violated: section 6 |

Each run has one type invariant beside these. Several properties are conjunctions
(`FundsKept` is solvency, conservation and one payer; `FairPlay` is `PlayedOnce`,
`AbandonedNeverCounted` and `WarmupRespected`): the parts are named definitions in the
module, each with its comment.

**What the runs show.**
- `custody`: no order of contract calls by any signer, with refused, unfunded and
  trapping ones, loses a unit, pays twice or lets a second payer in. SET NX makes all
  processes use one base even when they loaded different ones. Two webhook requests
  can both find a transaction unused; the UNIQUE index, and only it, decides.
- `deposit_monitor`: a crash between posts and cursor repeats posts and loses none; the
  cursor catches up even past deposits that are refused for ever, because the retry
  meets the replay key.
- `payout_pipeline`: double payment has exactly the causes `PaidTwiceOnlyIfLost` names,
  each of them a payment the rows did not record or an overlap of two runs; everything
  else that can fail repeats nothing.
- `play_and_pay`: the row lock of finishSession makes a session count once. Although
  `resetSequence` is two Redis commands and a reset can hand out numbers another worker
  still holds, the ledger's sequence check keeps a batch of a call from being paid
  twice, and a replaced transaction still in flight can never be applied.
- `accounts_and_brands`: what overlapping requests can do to an account is exactly what
  the exceptions name: a token registered inside a revocation escapes it, a backup code
  can be used by two requests that overlap, a rename that overlaps another can lose
  its redirect, the attempt limit can be passed by as many requests as are under way.
  Nothing that is spent comes back, no handler that dies half-way leaves a playable
  challenge without questions unless it was that challenge's own creation or
  regeneration, and cursors skip or repeat only rows that share a millisecond or move.
  Repeated runs of a payout stay within the pool unless an address came or went between
  a payment and a later division.
- `progress`: waiting is bounded everywhere, by a deadline (cache), an answer or an
  error (pages), the statement time-out (a sweep that waits for its own lock) or the
  bound on tries (payments). Meanwhile a cache never serves a version older than the last
  invalidation no load crossed, and a page shows overtaken rows only where its
  definition says that it does not drop overtaken answers.

**Properties with exceptions.** `PaidTwiceOnlyIfLost`, `SentStaysSent`, the parts of
`RecordsHonest`, `FairPlay` and `CountedTruly`, `PaymentsBounded`, and most parts of the
properties of `accounts_and_brands` and `progress` hold up to an exception that is a
history variable, set only by the step that is the race. Without the exception they
fail: "1 competitive session per account per challenge" (`anti-cheat.ts`) fails when a
repeated start sets a completed session to `active` (`db/queries/sessions.ts:193`),
"Round 3 is idempotent" (`docs/api/sessions.md:195`) says nothing about rounds 1 and 2,
whose late answers change the rounds after the total was computed, and "server validates
≥20s elapsed" (`README.md:616`) is skipped while warmup-start has not yet stored its
key. The properties say that nothing else goes wrong.

**Why the bounds are enough.** The interesting cases are collisions of two actors
on one key, row or number, and one failure between two steps of each; a third
actor only adds to the sequence allocator, where two workers of one process and
one of another can disagree, hence three. Two winners are the least for which
rows and results can be mixed up. Two rounds are the last one, which ends the
session, and another. Two sessions are a row and its replacement. Two batches are
the least for a call to go on after a failure. An i128 of 0..4 overflows with two
deposits. Pages of 2 of 3 events overflow a page. Failures are bounded by
`MaxFaults` because every await may fail at any time; with two, a failure during
the recovery from a failure is included.

A token, a code, a name, a file and a page of rows each need one that is current and
one that replaces it, hence bounds of 2. Three rows are the least for a page with one
before and one after it; time stamps 0, 1 and 2 have two in one millisecond. The days
0, 1, 360 and 366 of the sweep lie in weeks whose keys are alike. The pool of 5 among
scores 0 to 2 leaves a remainder, and a licence fee of one third leaves another.

**Symmetry** is used where only safety is checked and the permuted values appear
in no order, no CHOOSE and no constant that tells them apart: the workers of one
process, challenges, deposits, series and slots (`custody`), requests and workers
(`play_and_pay`), requests, challenges and users (`accounts_and_brands`).

**Deadlock** is checked in `custody`, `play_and_pay` and `deposit_monitor`. Where a
bound is reached there (reservations, calls) the MC module says so with a step that
changes nothing. It is not checked where the modelled activity really ends: a payout
that is done, and requests, sweeps and pages that are bounded in number and all
answered (`payout_pipeline`, `accounts_and_brands`, `progress`).

**Fairness.**
- `progress`: weak fairness of the steps of one actor at a time. For `BatchPayout` these
  are a worker's own steps (a step of the event loop that is ready is run, and Horizon
  or its client-side timeout answers); for `ReadCache` a caller's own steps, with the
  poll timer and the deadline among them; for `RecurringTemplates` a sweep's
  statements, which the database answers or ends (`statement_timeout`, `db/index.ts:17`);
  for `WebPages` the end of a request, which axios times out after 10 s
  (`lib/api.ts:64`). Nothing is assumed about other actors, visitors, writers or the ledger.
- `DepositMonitor`: weak fairness of the poll loop (`while (isRunning)` until the process
  ends), of the API's handling of a request that was accepted, and of the end of a
  request nobody waits for. None for ledgers closing, failures or other callers.
- `PayoutPipeline`: weak fairness of a run's steps, of taking a waiting job
  (an idle BullMQ worker blocks on the queue), of BullMQ's stall check (a timer) and
  of the dead-letter worker. Nothing makes an admin act, the daily run start, a fault
  happen or a job be trimmed.
- The other modules state no fairness: nothing obliges a caller to call.

## 5. Proofs

All theorems hold for every value of the constants that satisfies the named
assumptions; TLC evaluates the assumptions for the instances of the runs.

**`CustodyProofs`** is about the three components of `custody`, of which a step moves
one.

*The contract*, from `EscrowAssumption` (the escrow is none of the accounts, amounts
are integers, lists are sequences of address and amount, the width is any positive
number). `EscrowTypeCorrect`, `AlwaysSolvent`, `NothingLost`, `SinglePayer`, and with
them `FundsSafe` (the invariant `FundsKept` of the run), follow from the inductive
invariant `TypeOK /\ Solvency /\ Conservation /\ OnePayer /\ EscrowUntouched`.
`EscrowUntouched` (an uninitialised contract is empty and open) is what the checked
invariants lack: `initialize` writes `Balance` and `Settled`, so without it the
induction step would allow an initialize that wipes a balance. `Finality` (no call
changes storage or moves USDC after the release) and `Refinement` (every step is a
step of `EscrowPromise` or a stutter) use the same invariant. The argument for
settle is that it answers "Ok" only for a list whose checked sum is exactly the
balance (lemma `SettleAnswer`). `EventsMatchTransfersAlways` is about sums over the
transfers of a whole history: what went into the escrow and what came out of it add up
to what the events announced (`FlowsRecorded`). It rests on running sums (`FlowSum`) of
sequences of any length and on how they behave when one is appended to another.

*The allocator*, from `AllocatorAssumption` (each worker has a process; `None` is no
worker and no number). `AllocTypeCorrect` and `ConsecutiveNumbers`: any number of
workers in any number of processes get `base + 1`, `base + 2`, ... The strengthening
`SameBase` says that whoever is about to increment holds the base that is stored, and
that there is no offset without a base. It is inductive because SET NX never replaces a
base, and it is false once `resetSequence` runs; what resets allow is `BatchPayout`'s
subject.

*Together.* `CustodyInvariance` says that the composed specification keeps the
invariants of all three (`RouteInv` from `WebhookRouteProofs`), and
`CustodyTypeCorrect` that it keeps `CustodyTypeOK`.

**`BatchPayoutProofs`** from `AllocatorAssumption` and `BatchAssumption` (the bounds are
numbers; at least one batch, try and call). `PaidOnceAlways` and `SuccessIsPaidAlways` hold
for any number of workers, processes, batches, rebuilds, lost answers, resets and crashes. Nothing is
assumed about the numbers workers hold, because resets can hand one out twice; the
ledger does the work. `NotAhead`: whatever is in flight was next when it was sent, so
applying any transaction kills it. `FlightSound`: what is in flight for the batch a
worker is at is the transaction in hand, or was replaced and is dead, because
`tx_bad_seq` says that the number in hand is not the next one. `LiveUnpaid` and `Once`
then say that a transaction that can still be applied pays for no batch that is paid.

**`WebhookRouteProofs`** from `RouteAssumption` (`Unknown` is neither a challenge nor
a transaction, pools are natural numbers). `RouteTypeCorrect`, `ReplayExcluded`,
`OneChallengePerDeposit`, `ActiveWasCovered` and the action property
`RefusalsChangeNothing` follow from `RouteInv`. It adds three facts: whoever is past
verifyWebhook holds its replay key (`KeyHeld`, without which a second SET NX could
succeed), the highest balance bounds the current one (`PeakKept`), and a request that
passed the balance check saw a balance that covers its challenge (`Checked`), which
stays true while the wallet is spent because it speaks of the highest balance.
There is one lemma per action; the steps that only answer, and those that only
move on, share `AnswerKeeps` and `GotoKeeps`.

**`DepositMonitorProofs`** from the same assumption and `MonitorAssumption`.
`MonitorTypeCorrect`, `NothingPassedUnansweredAlways` and `RoutePromisesKept` (the
invariants of the route, with the monitor among its callers) follow from `MonitorInv`.
The promise is about a poll that has ended; what is inductive is the same promise for
the poll under way (`PollAccounts`: each deposit it will pass is still to be sent, was
left out by the fetch, or was answered 2xx). It needs that the slot the monitor waits
on holds the request for the event it is at (`PostInSlot`), that a 2xx answer was
recorded for it (`AnswersRecorded`), and that ledgers closing during a poll lie above
the tip it saves (`TipSeen`). Every step of the route is re-used from its own proof.

**`PayoutPipelineProofs`** from `PipelineAssumption` (the ranking lists each winner
once, there is a worker, at least one attempt). `PayoutTypeCorrect`,
`PaidTwiceOnlyIfLostAlways`, `RecordsHonestAlways`, `RunsAloneAlways` and the action
property `SentStaysSentAlways` hold for any winners, plans, workers, attempts, stalls
and failures. The invariant has two halves. `LockInv` says that a run holds what keeps
the others out (`Holds`). `LedgerInv` is about the run past the status check: it is
alone or everybody is lost (`Alone`, `Underway`), its notes and the rows agree
(`InStep`), whom it has yet to pay is unpaid (`Unrepeated`), and its loop leaves nobody
out (`Handled`, `Complete`). Since two such runs make every winner lost, each statement
about a winner who is not lost is about one run, which is why the halves separate.

**`SessionLifecycleProofs`** from `SessionAssumption` (at least one round and one row).
`CountedTrulyAlways` and `FairPlayAlways` hold for any number of requests, rounds and
replaced rows. Added are facts about rows that are gone: ids count up (`IdsFresh`), so
a request with the id of
a replaced row finds nothing; a request about to write carries what the row said and
cannot have changed since (`Carried`: once a row is done its total stays); the columns
agree (`RowSound`); and only a completed row has counted (`OnlyCompletedCounts`).
`PlayAndPayTypeCorrect` composes this invariant with that of `BatchPayoutProofs`: the
whole specification of `play_and_pay` keeps `PpTypeOK`.

**`AccountProofs`** is about the specification of `accounts_and_brands`. In it one
component moves at a time and the others stand still (lemma `EachMovesAlone`), so
`AbInv` is the conjunction of the invariants of twelve components, each proved from its
own component's actions, for any number of overlapping requests, rows, runs and events.
`AccountsTypeCorrect` (`AbTypeOK`) follows from it, with `AuBounded` and `RewroteTyped`
for the few bounds no other theorem needs.

| Part | Theorem | What its invariant adds |
|---|---|---|
| `RtInv` | `CredentialsSoundAlways`, `NothingRevivesEver` | the tokens a revocation has read still cover the set, but for those registered since (`ReadStillCovers`) |
| `TfInv` | the same two | each generation of codes has a batch of its own, and unless two overlapped only the last is stored (`BatchesApart`, `LastBatchOnly`); a code that was accepted is marked used while it is there (`AcceptedIsUsed`) |
| `AaInv` | `CredentialsSoundAlways` | changes are counted against audit rows, lost ones and the handlers still to write theirs, as cardinalities (`ChangesCounted`) |
| `ErInv` | `ErasureFollowsRequestsAlways` | unless something named went wrong at most one request is pending (`OnePending`), and it has its job or a handler about to add one (`PendingCovered`) |
| `PvInv` | `OtpGuardedAlways` | each check of a code is in the counter or its request is about to add it, and the counter with all that may still add to it is bounded (`ChecksCounted`, `CounterBounded`: cardinalities of sets of requests) |
| `UnInv` | `LinksAliveAlways` | unless renames overlapped, the name a rename has read stands until it writes (`ReadNameStands`), and the name it is about to redirect to leads on (`NewNameLeadsOn`) |
| `UpInv` | `LinksAliveAlways` | a file that was confirmed is stored and stays (`CommittedStays`); the avatar a request is about to save is stored, the one it is about to delete has left the row, unless its name was set again (`NewAvatarStored`, `OldAvatarLeft`) |
| `AuInv` | `ChallengesSoundAlways`, `RegenerationNotOverwrittenEver` | a challenge's row comes before its questions and one request writes them first (`RowsComeFirst`, `OneAuthor`); every round has its question or somebody about to write it (`AllServed`), because what a kit that is not sparse generates covers every round |
| `SpInv` | `PaymentsBoundedAlways` | refunds made, with the requests that may still make one, are at most the requests that began before the row (`RefundCounted`); bonuses likewise against looks at a row not yet sent (`BonusCounted`) |
| `PaInv` | `PaymentsBoundedAlways` | unless an address came or went, whom a run has yet to pay and whom it paid get what the division owes them (`ToPayOwed`, `PaidOwed`), and whoever is owed is paid, refused or still to be paid (`NobodyLost`); that what is owed adds up to no more than the pool, short of it by less than one unit a scorer, is a statement about sums over any finite set of users |
| `ViInv` | `BrandViewsHonestAlways` | what is in the materialised view, in the cached board, in a reader's hands or paid was a real play when it was ranked (`RankedWasReal`), and a play that changed since is known as drift; whatever is still active under a deleted brand was hidden when that happened (`ActiveEscaped`) |
| `PgInv` | `WalksCompleteAlways` | by cursor (`CursorSound`): what follows the cursor was not shown and what does not was, but for the rows the millisecond cut repeats (`Twice`) or steps over (`Blurred`); by offset (`OffsetSound`): a row alone at its time has one place, one more than the number of rows above it, so that it was shown at most once, and only if that place is inside the pages fetched |

`TfAssumption` says that a batch of codes is not empty, `PvAssumption` that the limit is
not zero; requests are finitely many where they are counted (`PvAssumption`,
`AaAssumption`, `SpAssumption`), as are users and challenges (`PaAssumption`,
`ViAssumption`) and the ids of a list (`PgAssumption`, which also wants a page size
above zero). `PaAssumption` has a positive pool and a fee of at most the whole of it,
`ViAssumption` gives each challenge a brand, `AuAssumption` lets a first question have an id.
TLC checked `TfInv` and `AuInv` on small instances before they were proved.

**`ProgressProofs`** is about the specification of `progress`; `ProgressInv` is the
conjunction of the invariants of the cache, the pages, the sweep and the batches, and
`ProgressInvariance` and `ProgressTypeCorrect` are about all four.

- `CacheSoundAlways`, from `CcAssumption`, for any number of callers and writes: what a
  loader is about to store is the data unless a write crossed its load (`LoadsFresh`), a
  stale value is about to be deleted by its writer or was stored by such a caller, who has
  not loaded again since (`StaleHasCause`), and who got the lock has it unless a lock ran out (`LockInv`).
- `OneChallengePerPeriodAlways`, from `RtpAssumption` (days are numbers, there is one),
  for any number of sweeps on any days: the row's lock has one holder, who is inside the
  transaction is that one (`LockSound`), and whoever is about to insert still counts no
  challenge of its period (`StillFirst`).
- `PagesTruthfulAlways`, from `WpAssumption`, for any number of loads and writes. Pages
  differ in details only, so the invariant speaks of kinds of pages (those with a choice,
  those that empty their rows, that patch, that reload) and not of single ones; which
  details always come together is a set of rules (`PageRules`) proved page by page. Then:
  the newest request is for the choice that stands (`NewestKey`), and once it succeeded so
  are the rows (`RowsMatch`); where loads cannot overlap, what is under way is the newest
  (`OneLoad`); rows that are patched, or reloaded after a write, contain every write that
  was acknowledged (`PatchSound`, `ReloadSound`); and a list whose newest load did not
  succeed has something to show for it (`Explained`).

**Sums, sorts and counting.** tlapm cannot instantiate an induction theorem that takes an
operator as its parameter. Where a statement is about a sum or a sort of any length, the
induction is therefore done on sets: the numbers for which the statement fails have a
least member (`LeastNumber`, from `WFMin` and the well-foundedness of the natural
numbers), and that member leads to a contradiction. A sorted list is one of
`SetToSeqs`, each of which lists every member of its set once (`SetToSeqsOrder`).

**What the proofs changed.** Attempts that failed for a good reason:

- `SentStaysSent` was false from the third failure on: after a settlement that
  only seemed to succeed and a mark that threw, the direct payment can fail and the same
  run takes its own mark back. `TakenBack` names this case; the
  theorem says that there is no other. The run has two failures and does not reach it.
- `StrandedRowsReconciled` was false with three failures for a run that outlived its
  lock; the exception `overrun` is part of the property now.
- A mark that throws after the row was written counts as noted (`NoteFails`).
- `OwnNameFound` and `RemovedMeansGone` had exceptions the induction did not need; they
  are gone, and both properties are stronger. A first avatar no longer sets `rewrote`,
  which had excused more of `AvatarStored` than it should.
- A list that is not the one under way had a page size of 1 at the start of
  `accounts_and_brands`, which need not be one of the sizes the list allows; it is one of
  them now. The bound on the pages fetched in `PgTypeOK` is derived from the
  number of rows.
- `AbTypeOK` needs `MaxRegens >= 1`: with none, a first question has no id. It is part of
  `AuAssumption` now.

**Only model-checked.** Liveness: `CursorCatchesUp`, `StrandedRowsReconciled` and
`NobodyWaitsForever`, which need fairness and ENABLED, both outside what tlapm 1.4.5
proves. Every invariant and every action property of the passing runs is a theorem.

## 6. Where code and documents disagree

Six runs are expected to be violated; each quotes the line it refutes in
`"findings"`.

| Run | The document | What the code does |
|---|---|---|
| `ok_means_processed` | `docs/api/webhooks.md:74`: 200 means processed, no retry needed | the replay key is stored before the handler runs and stays when it fails, so the retry of a failed delivery is answered 200 "duplicate" |
| `only_pending_activated` | `docs/api/webhooks.md:132`: the challenge must still be `pending_deposit` | the status is read before Horizon is awaited; the UPDATE has no status condition and revives a challenge cancelled meanwhile |
| `funded_challenge_activates` | `docs/guides/funding-a-challenge.md:56`: a confirmed deposit activates the challenge | the memo the brand is given is refused by the route's UUID schema, and a UUID is too long for the monitor: no deposit with the given memo activates, under fair polling and without any failure |
| `sent_not_resubmitted` | `services/payout.ts:261`: a sent payout is not re-submitted | an error while rows are written after an escrow settlement falls back to paying all recipients directly |
| `refresh_rotates` | `routes/auth.ts:123`: POST /auth/refresh rotates tokens | the route marks the token used and then takes any mark for a revocation: no refresh succeeds |
| `bonus_worth` | `packages/stellar/src/payout.ts:30`: amounts are in USDC | the referral worker passes stroops |

Met while modelling. The models follow the code; the disagreement is not a run of its own:

- Two overlapping requests can use one backup code (`db/queries/totp.ts:205`).
- An administrator's erasure whose `add` meets a finished job of the same id is recorded
  and never runs (`routes/admin/users.ts:441`); unsuspending an account updates the user
  and writes the audit row in separate statements (`:363`).
- `docs/guides/scoring-explained.md:98` describes an order that decides ties; sorted by
  score the board's cursor cuts microseconds, so tied rows may repeat or be skipped.
- `docs/api/brands.md:443` describes one challenge per period: a weekly key joins the
  calendar year with the ISO week, so the last days of December and the first of January
  can share a key with weeks eleven months away. `services/questions.ts:112` speaks of three
  rounds; a sparse brand kit yields two questions of one round and none of another.
- `GET /challenges/:id/deposit-info` (`routes/challenges.ts:449`) shows the memo of the row,
  and the route of the webhook expects its id.
- The share card of a session is served for abandoned ones too (`db/queries/sessions.ts:126`);
  the brand's spent total counts payouts with status `'completed'`, which no payout has
  (`db/queries/brands.ts:168`).
- `docs/guides/wallet-and-payouts.md` promises that shares below 1 USDC are rolled over;
  processPayout pays every share of at least one stroop and drops the others. Tier
  pools are read and never used, because the ranking drops `tier_id`.
- `getLeaderboard` returns `{ sessions, nextCursor }`, and processPayout iterates over
  the result as an array. `PayoutPipeline` models the loop over the sessions.
- No statement under `src/` sets `challenges.status` to `'ended'`, which processPayout
  requires; `End` is external.
- The migrations' `payouts` table (`apps/api/migrations/00000-initial.sql:186`,
  `0014-fee-bump-payouts.sql`) has no `'sent'` status and no `stellar_address`; the model
  follows the `PayoutStatus` type and the queries of `db/queries/payouts.ts`.
- `docs/runbooks/horizon-outage.md:17` says payout jobs retry until Horizon recovers.
  submitBatchPayout catches the error, the challenge becomes `payout_failed` and the job
  completes; a retry of it is skipped because the status is no longer `'ended'`.
- A failed enqueue after markReferralRewarded strands the bonus (`services/referrals.ts:272`),
  and the referral worker forwards nothing to a dead-letter queue. A crash between
  createRefund and the status update leaves a refunded challenge open
  (`services/refund.ts:68`).
- `flagSession`, `getDueScheduledConfigChanges`, `calculateTeamPayoutAllocations` and
  `rankAndFlagWeek` have no caller.

## 7. What the models assume

- The ledger applies a transaction only with the account's next sequence number, and
  Horizon answers the re-submission of an applied transaction with its result.
- A replay key (600 s) outlives the request that set it.
- Soroban RPC accepts a start ledger of 0, and one monitor runs.
- BullMQ as pinned (5.71.1): `add` with the id of a job Redis still holds does nothing,
  whatever the job's state; a job that stalls too often fails with attempts left; a
  slot that lost its job's lock cannot finish it.
- Redis commands and single SQL statements are atomic; Redis is not flushed. Life times
  of keys are modelled where a property is about them (replay keys, locks, attempt
  windows, cached API keys), not for tokens and redirects.
- The scoring of an answer is right or wrong; HMAC, signatures and codes are not forged.
- A page of the web client has one choice (filter, range, page number or record) that
  a load depends on; requests of one page may be answered in any order.

## 8. What is not modelled, and the plan

Not modelled, because the code cannot get there:

- **Escrow multisig.** Every look-up of an operation calls JSON.parse on a column the
  driver has already parsed, and submission sets `updated_at`, which
  `multisig_operations` does not have: nothing is ever co-signed, listed or submitted.
- **Leagues.** The weekly job runs `SELECT recalculate_league(...)`, and the migrations
  create it as a PROCEDURE; the points queries use the reserved word `window` as a name.
- **Archive job.** Its transaction asks for `challenges.ended_at`, which does not exist.
- **Brand digest.** Its query names `brands.contact_email`, which does not exist.
- `POST /upload/complete`, `POST /challenges/:id/report`, `GET /admin/users/:id` and
  `POST /brands/:id/members` fail on every call.
- **The game page** (`challenge-page.tsx`). Its main effect calls `React.useEffect` inside
  an effect, which React refuses.

Not modelled, because there is no state to go wrong beyond a library or the database:
rate limiting, chat, notifications, badges and streaks, brand webhooks, scheduled
configuration, plain column edits, the scoring of one answer, the event stream of the
live board, forms that only collect input. `PROJECT.json` has the reason for each.

Modelled so far, in this order: escrow contract (with its promise), sequence allocator,
batch payout over it, webhook route, monitor over it, payout pipeline, sessions; then
accounts, side payments, templates, authoring, lists, views, cache, pages, amounts.

Every safety property that a run checks is proved. What would extend the project is more
of the code: the parts of `components` marked "partly", and those above should they
come to work.
