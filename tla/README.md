# lotus-rfq-service in TLA+

TLA+ models of the parts of this service in which several processes meet over
Redis and Postgres, the TLC runs that check them on small instances, and proofs
of the most important theorems for instances of any size. Paths are relative to
the repository root; line numbers refer to the commit this directory lives beside.

Contents: [the system](#the-system), [the modules](#the-modules),
[the runs](#the-runs), [fairness](#fairness), [proofs](#proofs),
[known disagreements](#where-code-and-documentation-disagree),
[what is left out](#what-is-not-modelled), [plan](#plan).

## The system

The service takes requests for quotes on prediction markets, collects quotes from
liquidity providers, crosses what it can inside the house, routes the rest to
venues, and keeps each user's exposure. Postgres holds the books of record, Redis
holds locks, caches and an order book, and every instance of the process runs the
same code concurrently with the others.

| Part | State | Operations | Hard behaviour | What makes it correct |
|---|---|---|---|---|
| **Order locker** `src/core/internal-engine/locker.ts` | Redis keys `lock:order:<id>` with a ttl | acquire a pair, release, back off | a pair is taken key by key; keys expire; owners die; GET and DEL are two commands | nothing leaks, nobody waits in a circle, a handle excludes others while its keys live |
| **Crossing engine** `.../engine.ts` | rows `internal_orders`, `trades`; locals of each call | `attemptCross`, `matchMakerOrder` | the book is stale, the lock may expire, COMMIT may be answered by nobody, a call may be repeated | rows and trades agree; nobody trades with themselves; profiles are respected; a report is true; a call ends |
| **Match transaction** `.../engine.ts`, `risk-utils.ts` | rows `exposure`, `exposure_journal`, row locks | the statements between BEGIN and COMMIT | read-modify-write in the program, first insert of an account, deadlock between two accounts | exposure is the sum of the trades, the journal is a chain |
| **Redis book** `.../order-book.ts`, `rebuild-book.ts` | a sorted set per side, a JSON key per order | add, remove, update, read the best | no command touches set and key together; errors are swallowed; a rebuild and a repair job write at the same time | open orders stay, closed orders leave |
| **SOR plan runner** `src/core/sor/plan-runner.ts` | `routing_plans`, `route_steps`, Redis step locks | run, lock, claim, execute, retry, fall back, resolve | locks that expire in use and are deleted by anyone, late fills, crashes, two runs of one plan | one executor per step, fills are real, a leg is given up only when its providers are exhausted, a run ends |
| **Risk engine** `src/core/risk-engine.ts`, `src/repositories/exposure.repository.ts`, `exposure-redis-cache.ts` | `exposure`, `exposure_journal`, idempotency rows, a Redis lock and a rolling key | reserve, roll back, book an execution | claim and booking are two transactions; the reservation lock lives 5 s; read-modify-write of exposure | one reservation per RFQ; an execution is booked at most once; exposure is the sum of what is booked; a grant respects the cap |
| **RFQ lifecycle, acceptance, router, execution control** `src/api/server.ts` (`acceptRFQ`), `src/core/rfq-engine`, `src/core/execution-router`, `src/execution-control`, `src/execution` | `rfq_sessions.status`, the session lock, idempotency keys, execution records, the background job | accept, plan, submit internally, to a plan or to ranked quotes, settle or fail | status is read, checked and written by three statements; the session is read before its lock; DEL by anybody; handlers throw after the venue has answered | venues see an RFQ once; only legal transitions are persisted; what began to execute ends |
| **Combo engine** `src/core/combo-engine` | combos, legs, matches, clearing rounds, a Redis registry, locks and row locks | accept: net, clear in rounds, send the rest to venues; reconcile the registry | sizes computed from stale reads, rows locked in no order, a COMMIT nobody answers, stale indexes | what is left and what is matched add up; matches balance; a replay is a true repetition |
| **Execution system** `src/execution-system`, `src/repositories/execution-routing.repository.ts` | the order row, the bundle record (Postgres and process memory), fills, positions, venues | place, sign, submit in the background or past the order, refresh, watch, recover | four copies of the truth, whole-row writes, overlapping submissions, restarts, lost answers | a recorded bundle is not sent again; a fill is in the position once; nothing stays SUBMITTING |
| **Funding** `src/core/funding`, `src/repositories/funding.repository.ts` | intents, route legs, reconciliation records | quote, submit a hash, refresh, verify at the venue, watch, clean up | every writer overwrites; a new quote deletes the legs; money moves on chains meanwhile | ready is evidenced; a submitted intent is not cancelled; credited money becomes usable |
| **Reconciliation** `src/jobs/reconciliation-v2.job.ts` | nothing of its own | compare and repair | repairs racing live writers | a repair never undoes a later write |

How they meet: accepting an RFQ (`acceptRFQ` in `src/api/server.ts`) takes a risk
reservation, asks `attemptCross`, which reads the Redis book, takes two order locks
and runs one match transaction per resting order; what is left goes, behind the gateway of
execution control, to the plan runner or to the execution router, whose fills reach the
risk engine. The rebuild script and the reconciliation job write the Redis book behind
the engine's back, and the reconciliation job registers combos for clearing. Orders that
a user signs (execution system) and the money that pays for them (funding) are two
protocols of their own, each with jobs of the process that race the user's requests.
Nothing under `src/` inserts or cancels a row of `internal_orders`: the models start with
the resting orders in place. Nothing moves an RFQ from BROADCAST to AWAITING_USER either, nor
starts the expiration listener: `AcceptRfq` starts with RFQs that can be accepted.

Not in the table, because no module models them: SOR planning, withdrawals, degradation manager, replay and qualification records, streams and caches,
reports, market data; see [what is left out](#what-is-not-modelled).

## The modules

| Module | Models | Notes |
|---|---|---|
| `LockGrants` | what a caller of the locker relies on | atomic grants of disjoint sets of orders |
| `OrderLocker` | `locker.ts`, one Redis command per step | `SetKey`/`SetRefused` are the two answers of `SET NX PX`, `GetOwn`/`GetForeign`/`DelKey` the loop of `releaseLocks`, `Wake` the backoff, `Expire` the ttl, `Abandon` a command that throws or a process that dies |
| `CrossLedger` | what crossing promises about rows and trades | a pair trades once and never more than is there |
| `InternalCross` | `attemptCross` of any number of callers | extends `OrderLocker`: its workers are the attempts, and the locker's commands interleave with the engine's steps. A match transaction is one step, reading the book is one step, and bringing an entry up to date is one step with the outcomes done, half done and not done |
| `MatchTransaction` | the statements inside `matchMakerOrder` | Postgres at READ COMMITTED: row locks, uncommitted inserts that others wait for, deadlock detection. Shows that the one step of `InternalCross` is justified: both implement `CrossLedger` |
| `OrderBook` | `order-book.ts` under attempts, rebuilds and the repair job | one Redis command per step. The order locks are left out on purpose: they may expire, so nothing here may rely on them |
| `PlanRunner` | `plan-runner.ts`, and `updateExposureAfterExecution` as it calls it | calls of `run` on one plan; a task per step; every command another call could notice is a step; `RetryStep` and `ForceUnwind` are the operator's (`sor-admin-service.ts`). A `scene` fixes the calls, the plan and the faults |
| `ReservationBook` | what acceptance relies on | a reservation is granted to one call per RFQ, and given back |
| `RiskEngine` | `risk-engine.ts` over the exposure repository and the Redis cache | a step is one Redis command or one SQL statement; a row that does not exist cannot be locked. Refines `ReservationBook` |
| `RfqStates` | `rfq-state-machine.ts`, `execution-transition-guard.ts` | the two tables of transitions, shared |
| `AcceptRfq` | `acceptRFQ`, the three submission handlers, `transitionRFQState`, the gateway, idempotency, audit and orchestrator of execution control, the execution router | composes `ReservationBook` and `RfqStates` with a `call` and a `job` per acceptance; the job of a plan may outlive its call. A reservation is looked for (`FindReservation`) and committed (`GrantReservation`) in two steps; that nobody else is between them is `LockOutlives`, as in `RiskEngine` |
| `ComboEngine` | `acceptCombo`: netting (2A), clearing rounds (2B), the venues; the registry and its repair | a leg is a signed size; a row lock is a variable, and a Redis lock of any set of combos is one step, as `LockGrants` allows |
| `ExecutionOrders` | `execution-order-orchestrator.ts`, `signed-trade-bundle.ts`, `execution-status-watcher.ts`, their repository | one order; `place`, `sign`, `refresh`, `submit` and `watcher` are tasks that load, think and write back. `Directs` are requests to `submit-signed-bundle`, which call the service past the order and past `submitInFlight`; a record names whose order each leg is, and `Merge` puts two records together. `Listed` is the watcher's list |
| `Funding` | `funding-service.ts`, `funding-readiness-watcher.ts`, the cleanup in `funding.repository.ts`, the verdict of `venue-readiness.ts` | one intent; `wallet`, `user`, `watcher` and `cleanup` are its clients, each between two statements; `paid`, `bridged` and `credited` are the chains |
| `MC*` | bounds for TLC | definitions of the orders, pairs, plans and scenes the configurations name |
| `InternalCrossProofs`, `MatchTransactionProofs`, `PlanRunnerProofs`, `RiskEngineProofs`, `AcceptRfqProofs`, `ComboEngineProofs`, `ExecutionOrdersProofs` | theorems | `InternalCrossProofs` is also about `OrderLocker` and `Funding`, `MatchTransactionProofs` about `OrderBook`; see [proofs](#proofs) |
| `Sums` | nothing of the service | what a sum over a finite set of numbers does when one of them changes; cited by the proofs about amounts |

Abstractions that matter when reading them:

* **Order ids** are numbers in the order `localeCompare` sorts them. **Sizes and
  prices** are small naturals, exact as the `Decimal` arithmetic of the code is.
* **An owner id** (a fresh uuid per acquisition) is the worker while the
  acquisition lives; the keys of one that died are `Orphan`, an id nobody presents.
* **A Redis error in the locker** ends the acquisition (`Abandon`), because it
  propagates and nothing retries the release.
* **The profile** of an order is in its Redis entry and in the incoming order; the
  table has no column for it, so `RebuildOrder` writes `NoProfile`.
* **A late provider fill** after a timeout is counted when the attempt fails:
  nothing in the runner could tell the two moments apart.
* **Reconciliation pages** are read as one load: a later page is only fresher.
* **A plan** has at most as many steps as the runner's concurrency (4), so every
  step of a call has a worker.
* **Row locks** are variables where two statements of a transaction can be overtaken or
  deadlock (`MatchTransaction`, `RiskEngine`, `ComboEngine`). A transaction whose rows
  stay locked from its first write to COMMIT is one step (`cancelFundingIntents`).
* **A combo's price** is left out: two legs of one outcome with opposite signs cross.
* **The order of the user's signatures and of provider answers** is a choice; what a venue says
  about a leg is true or is no answer, except where a fault makes it wrong.
* **`old` and `expired`** stand for clocks. In `Funding` a quote expires (60 to 300 s) before the
  cleanup waits long enough (300 s at least, 7200 by default), and with `SlowRequests`
  FALSE a submission that began with a live quote ends before the intent is that old,
  no hash is submitted between the two statements of one cleanup, and the watcher
  leaves alone what was written within its `staleAfterSeconds`. In `ExecutionOrders` `old` is the
  30 s after which a SUBMITTING order counts as interrupted, and `aged` says that a record is out of the watcher's list:
  not written for 900 s, or 50 records were written after it (execution-routing.repository.ts:323-343).
  `nextCheckAfter` only delays a look and is left out.
* **Scenes**: `OrderBook`, `PlanRunner`, `ExecutionOrders` and `Funding` choose one of several
  small casts in `Init`, so that one run covers them without their product.
* **Bounds**: `MaxRetries`, `MaxAttempts`, `Ranks`, `BatchSize` are the code's own options;
  `MaxFaults` (crashes, failed commands, wrong answers, expired keys in `OrderBook`),
  `MaxSteps` (rows in `route_steps`), `quotes` of a funding scene and one answer for each direct submission are the only
  bounds the models add. `MaxSteps` is set so that no fallback is cut off where a
  property speaks of fallbacks.

The type invariant of a module (`TypeOK`, `LockerTypeOK`, `BookTypeOK`, `FundingTypeOK`) is the first conjunct of one of its deeper
invariants, so that a run checks both at once.

Definitions marked `Mutant` in the modules are never used by a specification. Each
is a plausible mistake in the operator that follows it, and replacing that operator
by it makes the corresponding property fail.

## The runs

`tlc -config <cfg> <module>` in this directory. Runs marked ✗ are expected to
find a counterexample; see [below](#where-code-and-documentation-disagree).

| Run | Instance | Checks | Why it is enough |
|---|---|---|---|
| `order_locker` | 2 workers, 3 orders, 3 tries, keys expire in use, owners die | `NoLeakedLocks`, `NoWaitCycle`, `AcquireTerminates` | pairs overlap in one key or two, a retry meets what an earlier try left; all but termination are also proved for any number of workers |
| `cross_sweep` | 2 attempts, 2 resting orders, expiry in use, retries, every failure | `TakerNotOverfilled`, `ReportIsTrue`, `ImplementsLedger`, `AttemptTerminates` | sizes 3, 1 against 3, 2: a trade fills one order, leaves a rest on another, both attempts want both |
| `cross_rebuild` | a call and its retry on the other side of the book, an unsafe profile and an own order in it, keys expire, rebuild at any time; locks do not expire in use | `NoSelfTrade`, `MakerConserved`, `ImplementsGrants` | every branch of the candidate loop fires while entries are stale, and a pair that has traded meets again; the locker works under its real client |
| `match_transaction` | 4 transactions, 5 orders, 2 users | `ExposureIsSumOfTrades`, `TransactionEnds`, `ImplementsLedger` | a repeated pair, a contended order, first insert of an account by two transactions, and accounts locked in both orders |
| `order_book` | 2 attempts on 2 orders; an attempt, a rebuild and the job on one order with expiring keys; 2 faults | `OpenOrdersStay`, `ClosedOrdersLeave` | two updates of one order overlap and either may break off; orders are independent in the book, so one is enough when every kind of writer is there; `ClosedOrdersLeave` is conditional on the job being kept running |
| `plan_runner` | 1 call on 2 legs; 1 call with 2 tries and 2 providers; 2 calls on 1 step and its fallback; a call beside an operator on 1 step that gets no fallback; crashes, throws and locks that expire in use | `ResultMatchesSteps`, `GivenUpOnlyWhenExhausted`, `OneExecutorPerStep`, `FillsAreReal`, `RunEnds` | every result, with and without ALL_OR_NONE; the legs share a provider; two calls are what a lock is for, and one call meets an operator's in every state of a step |
| `risk_engine` | 3 acceptances of 2 RFQs of one account, 3 bookings of 2 executions (one twice), 1 fault | `ExposureIsBooked`, `ImplementsReservations`, `GrantIsWithinCap` | the cap is 2 and the calls want 1, 1 and 2, so a grant depends on what is booked meanwhile |
| `accept_rfq` | 3 acceptances of one RFQ, 2 ranked quotes, SOR on or off, awaited or not, 1 fault; the risk lock outlives its transaction | `SentOnce`, `StatusFollowsMachine`, `ExecutionEnds` | one acceptance executes, one is overtaken between its read and its lock, one meets what the other two left |
| `combo_engine` | 3 combos on 2 outcomes, acceptances of two of them, locks expire in use, 1 fault | `BooksAgree`, `MatchesBalance`, `NoFalseReplay`, `InternalMeansFilled`, `AcceptancesEnd` | the best round of all three leaves a residual two could keep, and netting 1 with 2 leaves a rest for a round |
| `execution_orders` | three scenes: one leg placed and signed while the clocks run; two legs, the second checked, waiting for signatures, with faults and clocks; one leg submitted by the order and past it at the same time; slow submissions; 1 fault | `PositionIsFill`, `FilledIsReal`, `RecordedIsNotResent`, `SubmitEnds`, `FillIsRecorded` | a leg before and a leg after the one that fails; both requests of an order race; two submissions both look before either records. Nothing fails and no clock runs while two submissions overlap: for that, and for more of them, there are the theorems |
| `interrupted_submit` ✗ | the first two scenes, submissions are fast | `InterruptedWasNotSent` | |
| `funding` | two legs (bridge and direct transfer) under the watcher; one leg under user and watcher; one leg with a second quote under the cleanup; one leg quoted again after it was submitted; 1 fault | `ReadyIsEvidenced`, `SubmittedIsNotCancelled`, `FundsBecomeUsable`, `IntentBecomesReady` | the two legs are the two providers and one of them is verified again when ready; two refreshers are what a stale write needs |

Deadlock is checked for the locker. It is not for the others, which stop when every
call has ended.

What the properties say beyond the obvious:

* `NoLeakedLocks`: a key whose owner id is alive lies between the last key its owner
  visited in a release and the last it has set, so someone is still going to remove it.
* `ImplementsLedger` and `MakerConserved` hold **although the locks may expire** under
  a working attempt. `cross_sweep` checks the first with expiry; `cross_rebuild` checks the second without it, and its
  theorem covers every expiry. What protects the rows is the row lock and `uq_trades_match`, and
  the proofs confirm it: they never mention a lock of the locker.
* `ImplementsGrants` is the opposite: it holds only while no key expires in use. With expiry the GET and
  the DEL of `releaseLocks` can delete a foreign lock.
* `TakerNotOverfilled` is about one call. It fails as soon as two calls share an
  incoming order (`TakerOf` not injective): the incoming order has no row.
* `TransactionEnds` needs deadlock detection: the incoming user's account is locked
  before the resting user's, which is no fixed order.
* `OpenOrdersStay` is checked where no rebuild runs and no key expires. With a rebuild
  it does not hold: `getBestOppositeOrders` (order-book.ts:81) removes a member because
  its key was missing a moment ago, when the rebuild has just put both back. Once the
  member is gone and the key is not, neither the job (reconciliation-v2.job.ts:612) nor an
  attempt finds the order again.
* `ClosedOrdersLeave` has a condition, `KeptRunning`: attempts keep coming and the repair job is run again and again with
  `dryRun` false and `autoFix` true. Nothing under `src/` schedules `ReconciliationV2Job`, and `run()` neither writes nor
  repairs by default (reconciliation-v2.job.ts:233-234). Without the job a ghost that a swallowed error has left may stay:
  a key without its member is met by nobody else.
* `OneExecutorPerStep` holds although the step's Redis lock expires in use and is
  deleted by whoever comes last (plan-runner.ts:312): the claim in Postgres
  (plan-runner.ts:562) carries it. The price is that a step whose call died stays
  EXECUTING.
* With an operator, `OneExecutorPerStep` needs `careful`: `retryStep` resets a step that a call
  is executing, and the operator's own call then claims it. A step that was booked and is retried fills a second
  time and finds its execution claimed, so the second fill is in no exposure; a step of a finished plan is
  reset and never run (plan-runner.ts:109), and a plan that was unwound by force while a call
  worked on it ends as that call sees fit.
* `FillsAreReal` is one-directional. A provider may fill more than is recorded: after a
  timeout, after a failing statement, or by the original and the fallback both.
* `GivenUpOnlyWhenExhausted`, `ResultMatchesSteps` and `RunEnds` are about a call that is
  alone. A second call on the same plan skips the steps that are locked, finds nothing
  failed, and marks the plan COMPLETED (plan-runner.ts:378) while the first is still working.
* `ImplementsReservations` needs the lock to outlive its transaction. With `LockOutlives`
  FALSE two calls reserve for one RFQ: the 5 s lock is all there is between them
  (the test "ensures only 1 reservation succeeds under concurrency",
  `test/integration/risk-reservation.integration.test.ts:67`, allows for it: line 85 wants at least one success).
* `GrantIsWithinCap` is about one reservation. A reservation adds nothing to the exposure
  row, so reservations for several RFQs of an account do not count against the cap together.
* `ExposureIsBooked` says at most once. A booking that fails after its claim
  (risk-engine.ts:225) is not made up for: the retry finds the claim and returns.
* `SentOnce` and `StatusFollowsMachine` need `LockOutlives` too. With it FALSE both fail: two acceptances of one RFQ hold a
  reservation and are past it at the same time, are both sent to venues, and each moves the status the other has read.
* `SentOnce` rests on the reservation, not on the session lock (which anyone deletes,
  rfq-session-manager.ts:171) nor on the idempotency key (a repetition with the same binding is
  REUSED and submitted again). It is about venues. An INTERNAL_CROSS acceptance gives its
  reservation back before it moves the RFQ, SETTLED is refused from ACCEPTED, and the RFQ can be
  accepted and crossed again.
* `StatusFollowsMachine` holds across reads and writes that are statements apart, again because
  one acceptance at a time is past its reservation.
* `ExecutionEnds` lets a handler that threw or died off: nothing recovers its RFQ.
* `BooksAgree`, `MatchesBalance` and `InternalMeansFilled` hold although the combo locks
  expire in use; row locks carry them. What they do not cover is the venues: the residual sent
  there is some steps old (combo-engine.ts:474), and `external` in the model can exceed what is left
  ("routes only residual legs externally under concurrent partial-clearing load",
  `test/integration/internal-clearing-rollout-validation.integration.test.ts:756`, gives every caller a market of its own).
* `NoFalseReplay`: the hash of an attempt is made of the combos, the legs and the amount, not of
  when it was, so it has to be shown that no match still to be made has the id of one that was.
* `RecordedIsNotResent` says that who is named in the record does not send again, although late writes make the order
  signable again, a restart forgets the map, and other submissions of the bundle come and go. It does not say
  that a leg is sent once: two submissions that both look (signed-trade-bundle.ts:266) before either records send
  every leg twice, and the later record replaces the leg of the earlier one (`Prevails`). `submitInFlight` does not
  prevent that: it is a map of one process, and `submit-signed-bundle` (execution.ts:559) does not ask it. Here
  another process's submission is one more of `Directs`; that it writes the order's row at its end is not modelled.
  Nor is a leg whose bundle was interrupted before the record in any record, and no watcher sees its fill.
* `PositionIsFill` holds for overlapping submissions: `signed_trade_bundle_position_applications` has a row for each order of
  a venue, so a leg that was filled twice can be in the position twice, each order once.
* `FillIsRecorded` speaks of a record in the watcher's list. After 900 s without a write, or below 50 newer ones, it is out
  of it, and a process that was down for longer records the fill only when somebody asks for the order. A bundle with a failed leg is
  not looked at either (execution-status-watcher.ts:161).
* `FilledIsReal` is one-directional too: a late write can put FILLED back to NEEDS_SIGNATURE or EXPIRED.
* `ReadyIsEvidenced` speaks of the intent only if it was not quoted again: `quoteIntent`
  looks at no status and deletes the legs with their records, and a refresh that began earlier still
  writes its verdict.
* `SubmittedIsNotCancelled` needs `SlowRequests` FALSE: the cleanup selects
  and cancels in two statements, and only the age of what it selects keeps a submission away from it.
* `IntentBecomesReady` is about the watcher alone: with a second refresher, one can collect
  `CREDIT_PENDING`, the other write `READY_TO_TRADE`, and the first overwrite it with
  ROUTES_SUBMITTED, which nobody watches when its legs are all ready
  (funding.repository.ts:468-494 wants a leg that is not). `FundsBecomeUsable` holds in that case: a balance counts by its
  record (`hasReadyVenueBalance`).

## Fairness

* A call that has begun goes on: the code awaits every command and every statement,
  and a live process runs its continuations. Hence weak fairness of each attempt's,
  worker's, transaction's and task's next step. None is assumed of starting a call.
* A lock of a dead owner expires: `PX` obliges Redis. None is assumed of keys whose
  owner is alive, nor of the 24 h ttl of a book key.
* Postgres breaks deadlocks by itself: `DeadlockDetected` is among the fair steps.
* In `OrderBook` nothing is assumed to be started, not even the reconciliation job; `ClosedOrdersLeave` has the
  fairness of the job and of new attempts as its premise. A rebuild is started by hand; once started it goes on.
* `ExecutionOrders`: the refresh job (`RefreshOpenOrders`) and the watcher (`RefreshActive`) are intervals of
  the process, restarted with it; time passes for a SUBMITTING order.
* `Funding`: a request goes on once begun, and the readiness watcher is an interval
  (funding-readiness-watcher.ts:62). Nothing is assumed of the user, the cleanup's start or the chains.
* In the second scene of `PlanRunner` with two calls, a call may stop anywhere without a crash
  of its own: the properties of that scene are invariants, for which a call that
  takes no further step is as good as dead.
* Failures (`Abandon`, `Throw`, `Fails`, `Stop`, `Crash`, `JobThrows`, `StatementFails`,
  `PrepareThrows`, `AnswerLost`, every `Fault`, and the other answers of a provider) are never fair, and never excluded.

## Proofs

All theorems hold for every value of the constants that satisfies the `ASSUME`s of
the modules: any set of workers and of attempts, finite sets of order ids, any sizes
and prices, any retry limit, any plan and any number of calls on it.

**`InternalCrossProofs`**, the locker by itself

| Theorem | Says |
|---|---|
| `LockerInvariant` | `LockerSpec => []IInv` |
| `TypeCorrect` | `LockerSpec => []LockerTypeOK` |
| `LocksNeverLeak` | `LockerSpec => []NoLeakedLocks` |
| `DeadlockFree` | `LockerSpec => []NoWaitCycle` |
| `HandlesOwnTheirKeys` | `LockerSpec => []HandleOwnsKeys` |
| `LockerImplementsGrants` | if `~TtlMayExpire`, `LockerSpec => ImplementsGrants` |

`NoLeakedLocks` says where a live key may be, not that the counters of an
acquisition are consistent, so it is not inductive. `IInv` adds the shape of the
state and, for each control point, how `acquired`, `released` and the length of
`ids` relate. `DeadlockFree` follows from the invariant and the sorted ids: every
worker that is refused while collecting waits for a key above those it has, so in a set of
workers refused by each other the one that waits for the greatest key refutes the circle;
a greatest key exists because the ids of the waiting workers form a finite set of naturals. For the
last two theorems the invariant is strengthened by `WindowsOwned`: without expiry in
use, a key in a worker's window *is* that worker's. Each locker step then maps to one
`Take`, one `GiveBack`, or a stutter.

**`InternalCrossProofs`**, the crossing engine

| Theorem | Says |
|---|---|
| `CrossInvariant` | `Spec => []CrossInv` |
| `CrossTypeCorrect` | `Spec => []TypeOK` |
| `CrossLocksAreSound` | `Spec => [](NoLeakedLocks /\ NoWaitCycle)` |
| `CrossImplementsGrants` | if `~TtlMayExpire`, `Spec => ImplementsGrants` |
| `NobodyTradesWithThemselves` | `Spec => []NoSelfTrade` |
| `CrossImplementsLedger` | `Spec => ImplementsLedger` |
| `MakersAreConserved` | `Spec => []MakerConserved` |
| `TakersAreNotOverfilled` | if `OneCallPerOrder`, `Spec => []TakerNotOverfilled` |
| `ReportsAreTrue` | if `OneCallPerOrder`, `Spec => []ReportIsTrue` |

`CrossInv` adds to the shape of tables and attempts that the entry an attempt is
matching has passed the owner check against the incoming order, and that what is
left of it never exceeds its size. That is what `NoSelfTrade` and the
ledger's bound on a trade need when rows are written. It says nothing about the locks, so
`CrossImplementsLedger` covers every expiry. `CrossTypeCorrect`, `CrossLocksAreSound` and `CrossImplementsGrants` also
need the locker's invariant: lemma `LockerUse` shows that every step of the engine is a step of
`LockerNext` or leaves the locker alone, so what was proved of the locker by itself holds of it under its client.
`MakersAreConserved` follows from the ledger: a step of it moves an amount from a row to
one trade that was nothing before, and the sum over the takers moves with it (`Sums`). The incoming
order has no row, so what is known about it is in the locals of its call: `Tallied` says that
what a call counts as filled is what its order has traded, and adds up with what it believes to be left to
the size of the order, until it meets an error. After one (a COMMIT that nobody answers) its count may be short, but it trades no more
and reports nothing; a call that has met an order of its own user reports nothing left. `OneCallPerOrder` is that no two calls carry one incoming order; without it both
properties fail.

**`InternalCrossProofs`**, funding

| Theorem | Says |
|---|---|
| `ReadyIsAlwaysEvidenced` | `FundingSpec => []ReadyIsEvidenced` |
| `SubmittedStaysUncancelled` | if `~SlowRequests`, `FundingSpec => []SubmittedIsNotCancelled` |

Every client of an intent writes from what it read some statements before, so `MoneyInv` is about what each has in its hands
(`Known`). What a refresh takes for ready has a ready record, if the intent is not quoted again; a verdict it is about to write to a leg is on
record if the leg is still the one it was about; and nothing is ready before something was paid. That last part is what
lets a new quote through (`QuoteReplaces`): an intent that may not be quoted again after a payment is replaced
only while nobody can know of a ready leg, and one that may be is excepted from what is said of the intent. `CancelInv` adds what the cleanup's
two statements rely on: an old intent has expired quotes or is just being quoted, so nothing of it is being
submitted when it is selected, nor until it is cancelled; a new quote in between may still be submitted afterwards, and then the
wallet is not done until it has written the status itself.

**`MatchTransactionProofs`**, the transaction

| Theorem | Says |
|---|---|
| `TypeCorrect` | `Spec => []TypeOK` |
| `TransactionsImplementLedger` | `Spec => ImplementsLedger` |
| `ExposureAddsUp` | `Spec => []ExposureIsSumOfTrades` |

`TxInv` says what the row locks are good for: a transaction that has read a row or an account has it locked, and
what it read is what is committed. With that COMMIT is one step of the ledger, whatever was interleaved before it. For the
accounts the invariant adds `AccountOK`, that each row of `exposure` is the sum of the shares of its trades and the
end of its journal's chain; COMMIT changes one trade, so the sum changes by the two deltas it writes
(`SumAfterChange`). The proof has a case for the first insert of an account, where there is no
row to lock, and uses that two orders that trade are on different sides (`TxAssumption`), so the two
accounts of a transaction are two.

**`MatchTransactionProofs`**, the Redis book

| Theorem | Says |
|---|---|
| `OpenOrdersStayInBook` | `BookSpec => []OpenOrdersStay` |

An attempt takes an entry out of the book when it has found its order closed, in the table or by its own trade, or the key of a member missing.
An open order has its key (`OpenIsThere`), and a closed one never opens again, so whatever is on its way out is
closed between any two commands (`LeavingIsClosed`). That is only so where attempts alone are at work
and no key expires (`Undisturbed`), which is what the property says; a rebuild takes entries out to put
them back, and for the three together `ClosedOrdersLeave` is checked. `BookInv` keeps the types for any clients.

**`PlanRunnerProofs`**

| Theorem | Says |
|---|---|
| `RunnerTypeCorrect` | `Spec => []TypeOK` |
| `RecordedFillsAreReal` | `Spec => []FillsAreReal` |
| `StepsHaveOneExecutor` | if operators are careful in every scene, `Spec => []OneExecutorPerStep` |
| `LegsAreTriedToTheEnd` | if no lone call is an operator's, `Spec => []GivenUpOnlyWhenExhausted` |
| `ResultsAreTrue` | if no lone call is an operator's, `Spec => []ResultMatchesSteps` |

They hold for any crashes, throws, late answers, and locks that expire in use or are deleted by
somebody else. `FillsAreReal` is about rows and claims; `Filled` adds the tasks that have had the
provider's answer and have yet to write it (`Recording`), which is where a row or a claim comes from.
`TypeOK` has a conjunct that is no mere type: a call that has resolved the plan has a
result, without which `Finish` could persist a state that no plan has. `OneExecutorPerStep` needs to know
what refuses the second executor: `RowsAreClaimed` says that the row of a step in execution is
EXECUTING or already FILLED, so `markStepExecuting` does not claim it again. Locks appear nowhere
in the argument. Careful means that nobody calls `retryStep` on a step a call is
working on; the code does not enforce that (sor-admin-service.ts:208 resets a row in any state), and
without it the property fails.
The last two need to know all that one call has done. `LoneInv` says it chain by chain (`ChainOK`): the row of a task's step is in a state
that fits where the task is, no two tasks have one step, and every provider a chain has tried has failed on its leg, but for
the one in hand; and row by row (`RowKept`): a row is in the hands of a task, or it has failed and a task
took over its leg. When every task has ended, the two together are the properties. An operator's call is left out because `forceUnwind`
and `retryStep` change the plan and its rows under the call.

**`RiskEngineProofs`**

| Theorem | Says |
|---|---|
| `TypeCorrect` | `Spec => []TypeOK` |
| `GrantsAreWithinCap` | `Spec => GrantIsWithinCap` |
| `ExposureMatchesBookings` | `Spec => []ExposureIsBooked` |
| `EngineImplementsReservations` | if `LockOutlives`, `Spec => ImplementsReservations` |
| `OneReservationPerRfq` | if `LockOutlives`, `Spec => []Promise!OneReservation` |

`RowInv` says that a transaction that has read an exposure row holds its lock and that the row is what it
read (`RowsAreHeld`), so the check against the cap still holds when the reservation is written, and an amount
added to what was read is added to what is there. `BookedOnce` ties the idempotency rows to the calls that won them and
`SumsMatch` the row to the sum of what is booked, and bounds the rolling key by what of it has been added there. The refinement adds
`Guarded`: while the Redis lock outlives its transaction, a call in its transaction owns the lock of its RFQ, and the
reservation it has not found is still not there. `OneReservationPerRfq` is then a property of `ReservationBook` alone.

**`AcceptRfqProofs`**

| Theorem | Says |
|---|---|
| `InvHolds` | if `LockOutlives`, `Spec => []Inv` |
| `SentToVenuesOnce` | if `LockOutlives`, `Spec => []SentOnce` |
| `StatusIsMovedByMachine` | if `LockOutlives`, `Spec => StatusFollowsMachine` |

`Inv` says which acceptance may be on its way for an RFQ. Nobody else is between its look at the reservations and its own row, nor has one: that is
what `LockOutlives` is for, and the only use of it. From there a call holds the reservation until it has bound its
idempotency key (`Reserved`), it gets to its job only while the key is bound to it or to its kind (`Bound`), and the
call of a quote never gives the reservation back. So two acceptances of one RFQ that have got to a job are
both internal (lemma `Alone`), and `SentOnce` is a consequence. For `StatusFollowsMachine` the invariant also keeps what each job has read of the
status true until it writes (`JobOK`), because nobody else is in a position to write, and an RFQ that is only crossed
internally goes no further than ACCEPTED (`RfqOK`). The session lock is nowhere in the argument.

**`ComboEngineProofs`**

| Theorem | Says |
|---|---|
| `ComboInvariant` | `Spec => []ComboInv` |
| `BooksAgreeAlways` | `Spec => []BooksAgree` |
| `MatchesBalanceAlways` | `Spec => []MatchesBalance` |
| `NoFalseReplayEver` | `Spec => []NoFalseReplay` |
| `InternalMeansFilledAlways` | `Spec => []InternalMeansFilled` |

`ComboInv` rests on two facts about whatever writes sizes. The rows are the writer's own: between its two SELECTs a
netting holds the row it has read, and a round holds every row of its group (`RowsHeld`); the Redis locks are
nowhere in the argument. And what is left of a leg only moves towards zero (`Shrinks`), so everything the invariant says of other
calls and of older records survives the step (`StepKeeps`): a call that believes nothing is left
is right (`DoneIsDone`), an attempt in the table has a pair with a leg used up (`UsedUp`), and the combos of a
round in the table are all on one side of every key (`OneSided`). A match still to be made has pairs of opposite legs,
so it is not in the tables, which is `NoFalseReplay`. `LedgerOK` has the two sums. A netting takes the same amount from opposite legs
(`PairKeeps`); for a round the lemma `KeptTotal` says that what `allocateParticipantResiduals` lets the participants keep of a key adds up to
the group's residual: the oldest keep as much as they have until the residual is used up (`AllIsTaken`, by way of
a smallest prefix of the participants it fails for, less its youngest), and nobody keeps more than it had, nor on the other side (`KeptWithin`).

**`ExecutionOrdersProofs`**

| Theorem | Says |
|---|---|
| `InvHolds` | `Spec => []Inv` |
| `RecordedIsNeverResent` | `Spec => RecordedIsNotResent` |
| `PositionsAreFills` | `Spec => []PositionIsFill` |
| `FilledOrdersAreReal` | `Spec => []FilledIsReal` |

Tasks write whole records that they have read some steps before, so the invariant is about what a task has in hand (`Fit`) as
well as about the four copies: whatever any of them says is filled has been settled by its venue and stays so (`Real`); a task
that is about to write FILLED into the order row knows of orders for all legs that have settled (`Done`).
Any number of submissions may overlap, so "there is no record yet" does not keep a sender from sending. What does is that it is
`Barred`: the bundle has a record and the sender is not between its look and its own record; from then on it finds one each time. Whoever a record names is
barred (`Known`), and a task may have in hand only legs of barred senders and its own (`Own`), so nobody who is still
sending is named by anyone else. A leg is sent again only
when a fault has made the process forget it (`Sends`), and a position follows from the flag its transaction sets with it (`Booked`).

**`Sums`** holds the lemmas about `SumFunctionOnSet` and `SumFunction` of the community module `Functions`. They are
defined by a recursive function over subsets, and the library's rule for induction over finite sets takes an
operator, which the provers cannot instantiate. The lemmas are proved from well-foundedness of the
subset ordering instead: a smallest set for which a sum is wrong does not exist. `SumOfSums`, `SumOfNegated` and `SumBeyond` serve the signed sizes of
the combo engine; `FiniteHasLeast` is what lets `Min` be used, and `FiniteHasGreatest` gives a set of participants its youngest.

**Assumptions** about the constants are the `ASSUME`s of the modules: the kinds of client do not overlap, the sets that are
summed over are finite, every call accepts a combo there is, sizes and bounds are naturals, a direct submission is not one of the order's own tasks (`DirectsAssumption`), an id for "nobody", "no row" or "no key" is not a value, the legs of an intent are numbered, and
an order and the orders it can trade with are on different sides. `BindingAssumption` of `AcceptRfq` says that the hash a plan is bound
by is not the name of a kind of execution.

**Only model-checked**: liveness (`AcquireTerminates`, `AttemptTerminates`,
`TransactionEnds`, `ClosedOrdersLeave`, `RunEnds`, `ExecutionEnds`, `AcceptancesEnd`, `SubmitEnds`,
`FillIsRecorded`, `FundsBecomeUsable`, `IntentBecomesReady`), which is
beyond the prover. Every invariant, action property and refinement that a run checks has a theorem, except `InterruptedWasNotSent`, which is false.
**Only proved**, without a run of their own: `LockerTypeOK`, `HandleOwnsKeys`, `OneReservation` and the
`TypeOK`s as separate statements.

**What the proofs found** in the models: some CASE expressions had overlapping guards, which in
TLA+ is a choice among the values of all that hold, while TLC takes the first. `AfterStatus` of `AcceptRfq` and two operators of `ComboEngine`
now have guards that exclude each other, in the order the code tests them.

## Where code and documentation disagree

The run `interrupted_submit` shows one of these; the others were met while modelling, and the
behaviour is in the module named.

* **`interrupted_submit`** (`ExecutionOrders`): execution-order-orchestrator.ts:1523 tells the user "Order submit was
  interrupted before the venue received it." of an order that `recoverInterruptedSubmit` (854) has failed
  because its process died before it wrote an execution id, which is also the case when the venue
  had taken a leg.
* `OrderLocker`: `locker.ts:68` promises not to delete a lock "that expired
  and was subsequently acquired by another worker". `releaseLocks` reads the owner
  (79) and deletes (81) in two commands, and the lock may change hands in between.
* `InternalCross`: "rejects non-safe cross-profile crossing candidates fail-closed"
  (`test/unit/internal-crossing-engine.test.ts:327`). A rebuilt entry has no profile
  (rebuild-book.ts:178), and an absent profile is eligible for every incoming order.
* `PlanRunner`, `RiskEngine`: "Exposure already updated for this execution (idempotent)."
  (risk-engine.ts:227). The claim commits before the booking (225); when the booking
  fails, the retry finds the claim and returns, and the fill is in no exposure.
* `AcceptRfq`: the record of an unknown outcome. `SYNC_PENDING` and `RECONCILING` are refused from
  APPROVED (execution-control-gateway.ts:237-243), where the record is when a handler throws.
* `AcceptRfq`: `SETTLED: []` (execution-transition-guard.ts:14) against ON CONFLICT DO UPDATE
  (execution-record.repository.ts:41): acceptances of one kind in one market share a record key, so
  a settled record starts again at CREATED. With a plan in the background the record says
  SETTLED while the plan runs.
* `RiskEngine`, `AcceptRfq`: "ensures only 1 reservation succeeds under concurrency"
  (`test/integration/risk-reservation.integration.test.ts:67`), whose line 85 accepts more than one, because the lock of
  5 s may expire first.
* `ExecutionOrders`: "returns the stored Polymarket failure without resubmitting a duplicate signed bundle"
  (`tests/signed-trade-bundle.test.ts:1011`) is so for a duplicate that comes after the record, not for one that overlaps.
* `AcceptRfq`: a failure to record the execution after the venue's success leaves the RFQ EXECUTING.
* `RiskEngine`: the router never passes the reservation to `updateExposureAfterExecution`, so a
  reservation of a quote execution is never released.
* `ComboEngine`: the reconciliation job registers every combo with something left, whatever its
  state; a member without a snapshot then makes the planner of every acceptance in that bucket throw.
  `execute-plan-runner.ts:104` reports REJECTED on a timeout although the trade may fill.
* `ExecutionOrders`: an EXPIRED order is not refreshed although it may have filled; a venue's
  PARTIAL never reaches a position.
* `Funding`: a quote that expires between the user's transaction and its hash is refused by `isQuoteExpired`
  (funding-service.ts:430), and the money arrives without a leg; a venue's balance is not
  attributed to the leg that brought it (venue-readiness.ts:391); a refresh of a cancelled intent writes FAILED.

## What is not modelled

* `previewCross` (read-only), replay envelopes and qualification events of the
  crossing engine, `route_history` rows and log lines: no decision reads them back.
* Book entries whose JSON does not parse: nothing writes one.
* Of `ReconciliationV2`, the domains that only report. Of the risk engine, `validateBeforeRFQCreation` (read-only).
* Of acceptance, the branch of the execution system's sandbox, the preflight of fees, the replay
  protector (it only ever records CLEAR), the fail-safe switch. Creating an RFQ and receiving quotes.
* Of the combo engine, quotes and their ranking, the legs of a venue plan (`Venues` is one step), shadow
  modes. Its classes are constructed in tests only.
* Of the execution system, preview, `reconcileFailedSell`, partial
  fills, and the sandbox orchestrator behind its flag.
* Of funding, `createIntent`, withdrawals, wallets, the adapters of each venue, intents with two legs of one venue,
  and signed Solana submissions. Verification at the venue is taken to be enabled.
* SOR planning (pure arithmetic on `Decimal`), the flags SOR administration writes, the degradation manager.
* HTTP routes, venue adapters, streams, caches, ingestion, market discovery and
  matching, reports, simulation, rollout and administration: I/O, read-only views or
  heuristics without a protocol. They are most of the repository's lines, so the modules map a
  small share of it; what they map is where processes meet.

## Plan

Done: the locker, crossing, its transaction, its book, the plan runner, the risk engine, acceptance with
execution control and the router, the combo engine, orders signed by users, funding; the theorems above.

Next:

1. That `InternalCross`'s way of bringing a book entry up to date in one step is what the commands of `OrderBook` do.
2. Withdrawals, the sandbox orchestrator, the degradation manager.
