# Verification of the Camunda 8 (Zeebe) resilient Go worker

TLA+ models of the worker daemon, of the processes it serves, and of the review
of user tasks from the page an operator sees to the broker, model-checked with
TLC and, for every safety property the passing runs check and every refinement,
proved with TLAPS. Every definition is
translated from the source; `PROJECT.json` maps each one to its lines.

## 1. The system

```
 web/app.js --HTTP--> cmd/server --REST--> Tasklist --.
                           |                           v
                           '----------gRPC-------> Zeebe broker <--gRPC-- cmd/starter
                                                    |  ^
                                   jobs of 6 types  v  |  complete / throw / fail
                                      cmd/worker: Manager, 6 workers
                                      each: middleware -> [breaker] -> handler
```

The broker runs instances of two BPMN processes. A service task creates a job;
the worker daemon activates jobs, runs a handler on a copy of the instance's
variables and sends one command back. A user task waits for a person, who
decides it through the web UI or the command line.

### 1.1 Inventory

| Component | State it keeps | Operations | Interacts with | What makes it correct |
|---|---|---|---|---|
| Circuit breaker, `internal/resilience/circuitbreaker.go` | state, two counters, time of the last state change, under one mutex | `Execute` (two locked sections around an unlocked call), `State`, `Reset` | called by the goroutines of the payment worker | counters belong to the state they are in; it trips on consecutive failures only, rejects for the recovery time, closes after enough successes |
| Resilience middleware, `middleware.go` | none of its own; per job a context with a deadline and a recovered panic | run the handler, choose complete / throw / fail, `failJob` | handler, breaker, broker | each job ends in the way its handler did, or fails and is retried; retries end in an incident |
| Error taxonomy, `errors.go` | none | `BusinessError`, `RetriableError`, `IsBusinessError` | middleware | business errors are thrown, all others retried |
| Exponential backoff, `backoff.go` | random source under a mutex | `CalculateBackoff` | `failJob` | a job waits within the cap and no longer than its failures justify, from whatever copy it is computed |
| Worker manager and daemon, `internal/worker/handler.go`, `cmd/worker` | the subscriptions, one breaker, one backoff, the shared connection | `RegisterWorkers`, `startWorker`, `Close`; connect, wait for a signal, disconnect | Zeebe client | right handler for each job type; breaker around payments only; a shutdown cuts no handler off and ends; restart loses nothing |
| Handlers, `internal/worker/*.go` | none (functions of the job's variables), the payment gateway outside | validate, charge, ship, notify, discount, reserve | middleware, gateway | their results compose: amounts, flags and the order agree |
| Order process, `bpmn/order-fulfillment.bpmn` | tokens, variables, jobs | tasks, gateways, boundary event | handlers, reviewer | large amounts are approved first; instances end |
| Risk process, `bpmn/order-risk-fulfillment.bpmn` | the same, and the tokens waiting in the join | decision table, review, fork, join, payment | handlers, reviewer, table | only cleared orders are charged; instances end |
| Decision table, `bpmn/order-risk-rules.dmn` | none | first rule that hits | risk process | no rule is hidden by an earlier one |
| Web server, `cmd/server` | one Tasklist session shared by all requests | health, deploy, start, search, decide | Tasklist, broker, UI | what an operator is told is what happened |
| Tasklist client, `internal/tasklist` | session cookie | login, search, assign, complete | server | an expired session is renewed |
| Starter, `cmd/starter` | none | deploy, start a scenario, list, approve, reject | broker | its scenarios are orders the processes expect; its decisions reach the tasks it fetched |
| Web UI, `web/` | the task cards it shows, searches in flight | search, decide, search again | server | an operator may decide from an old page, but the page catches up and every task appears on it |
| Configuration, `internal/config` | none | parse the environment | all | defaults for bad values; settings that fit each other |
| Deployment, Docker files | none | restart policy of the containers | worker | the worker comes back after a crash |

### 1.2 What is hard

* **Unlocked call between two locked sections.** `Execute` reads the state, runs
  the payment without the lock, and reports to whatever state the circuit is in
  by then. Any number of late results cross state changes.
* **Stale copies.** `failJob` computes the retries from the job as it was handed
  out; handlers write back the whole `order` they were given, two of them in
  parallel; the reviewer command works through a list it fetched before.
* **Two clocks.** The lock of a job and the deadline of its handler both last
  `WorkerTimeout` but start at different times, and the deadline also bounds the
  command that reports the result. Jobs are worked on twice and results lost.
* **Rejections cost retries.** A call the breaker rejects fails its job.
* **Join of parallel branches**, one of which may leave through an error event.
* **Executions that outlive their lock.** A handler is not stopped when its job is
  handed out again; it charges, or reports, when the process has moved on.
* **Shutdown order.** Workers are closed one after the other over one connection,
  while the later ones take jobs; a kill may come at any point of it.
* **Two ways to decide a task**, the second taken after any error of the first.
* **Answers out of order.** Searches of the page overlap, are answered from a read
  model that lags or by locking the tasks, and each answer replaces the page.
* **Boundaries**: thresholds, zero configuration, 40 / 80 / 5000, 1000 dollars.

Each is a hazard in `PROJECT.json`, at its line, with the properties that would
catch it going wrong.

## 2. Modules

| Module | Models | Actions and state |
|---|---|---|
| `CircuitBreaker` | `circuitbreaker.go` | one action per locked section: `Reject`/`Admit` (first), `Succeed`/`Fail` (second), `Observe` (`State()`), `Reset`; `Panic` is a call that never reaches the second section; `Tick` is the clock |
| `BreakerGate` | abstract: what a breaker promises, without counters or lazy evaluation | `LetIn`, `TurnAway`, `Success`, `Failure`, ... |
| `CircuitBreakerGate` | the refinement mapping between the two | `ImplementsGate` |
| `CircuitBreakerHistory` | the failures really reported in a row | `failStreak` |
| `JobWorker` | `middleware.go`, `handler.go`, with the broker's jobs | `Activate` (a copy of the retries), `Start`, `CtxExpire`, `Finish`, `Deliver`/`SendExpired`/`SendLost`, `Crash`; the broker's `LockExpire`, `BackoffElapse` |
| `JobWorkerHistory` | what the handlers of each job returned | `returned`, `failures` |
| `Backoff` | `backoff.go`, `config.go` and the conversions between them | `Config`, `NewExponentialBackoff`, `CalculateBackoff`, `AskedFor`, in 32-bit arithmetic scaled down to `Word` |
| `RetrySchedule` | which copy of the job each backoff was computed from | `asked` |
| `RetryBudget` | the failure reports executed for each job, and its locks that expired | `spent`, `expired`, followed up to `Expiries` of them |
| `WorkerDaemon` | `cmd/worker` and the `Manager` around `JobWorker` | `OpenWorker`, `Ready`, `Signal`, `CloseWorker`, `AwaitClose`, `Disconnect`, `Exit`, `Kill`, `Up`; `Take` and `TakeInVain` (a job locked for a worker that is gone) |
| `PaymentWorker` | composition: `JobWorker` with `CircuitBreaker` around the handler, as `RegisterWorkers` wires process-payment | joint steps `StartAdmitted`, `StartRejected`, `FinishRejected`, `FinishRun`, `LeaveExecute`; `Restart` resets both |
| `TaskHandlers` | the six handlers and the order model | functions from variables to results |
| `RiskDecision` | the decision table, hit policy FIRST | `Decide` |
| `OrderStarts` | the two ways an order is started: `POST /api/instances` with custom variables, and the scenarios of the starter | `ServerStart`, `StarterStart` |
| `ServiceTasks` | one service task between broker and worker, at process level | `runs` holds every execution with the variables it was given; `Activate`, `Overrun` (the lock expires, the handler goes on), `Succeed`, `Throw`, `Retry`, `Redo`, `GiveUp`, `Uncaught` |
| `OrderLifecycle` | abstract: what both processes promise of an order | `Clear`, `Charge`, `Pay`, `Ship`, `Refuse` |
| `OrderRiskProcess` | `order-risk-fulfillment.bpmn` | one action per task with the gateway or end event behind it; branches interleave |
| `OrderFulfillment` | `order-fulfillment.bpmn` | the same |
| `TaskReview` | decisions about user tasks: server, Tasklist client, reviewer command, UI | `Submit`, `Complete*` (Tasklist), `Fallback*` (broker), `TakesLate`, `CliFetch`, `CliDecide`, session and locks |
| `TaskFeed` | `TaskReview` with the page: `app.js`, the search handler and Tasklist's read model | `Search`, `SearchAgain`, `SearchTasks`/`SearchJobs`/`SearchFails`, `Arrive`, `Decision`, `DecisionAnswered`, `IndexSync` |
| `*Proofs` | theorems | section 5 |
| `MC*` | instances for TLC | sets of model values, starting variables |

`PaymentWorker` composes the two components by conjoining their actions, so a
behaviour of the composition projects to a behaviour of each (proved, but that a
restart, for the breaker, begins a new one). `WorkerDaemon`
extends `JobWorker` with the process it runs in and adds the two things that
`JobWorker` does not know, a job locked for nobody and a queue dropped. `TaskFeed`
extends `TaskReview`; every step of the page is a step of `TaskReview` or none,
which is proved. `ServiceTasks` does not repeat `JobWorker`: what a process can
see of the delivery of results is that an execution may count for nothing
(`Retry`: nothing was done; `Redo`: the gateway was charged and the result counts
for nothing), that it counts once, that it goes on after its lock has expired
(`Overrun`), or that the retries run out (`GiveUp`). The broker and Tasklist are
external, modelled as far as the code relies on them; definitions for them are
marked in `PROJECT.json`.

Abstractions worth knowing:

* The breaker's clock is the number of ticks since `lastStateChange`, saturated
  at the recovery time, the only value it is compared with.
* Intervals are multiples of 500 ms, the default of the first one; `Word` stands
  for 2^31. Jitter only shortens a wait and is left out.
* Amounts are multiples of 100 dollars, so that a percentage is exact; a customer
  is how the gateway answers it; items are absent, malformed, in stock or not.
* Instances start with an order nobody has worked on: unpaid, not shipped, without a
  decision (`StartsAreNew` in both processes). The server would accept custom
  variables that say otherwise.
* `BACKOFF_MAX_RETRIES` is no number that `int32` turns into one near -2^31, so that its
  difference to the retries of the task is computed without wrapping (`DifferenceFits`).
* Formatting, logging, identifiers and time stamps are left out. Search filters are
  the sets of tasks they let through. Payloads that do not unmarshal are left out:
  server and starter send typed orders.
* Mutants, operators whose comment starts with "Mutant of", are not part of any
  specification. Each is a plausible bug that makes one property fail.

## 3. Runs

### 3.1 Runs that pass

**CircuitBreaker** (three callers, failure threshold 0, which is normalised to 3,
recovery time 2, success threshold 2; 12 204 states). Three callers allow two
late results to cross a third caller's state change; recovery time 2 separates
"one tick too early" from "on time"; threshold 3 separates consecutive from
accumulated failures.
`CountersMatchState` (no counter outlives its state), `StreakBound` and
`TripsOnlyOnStreak` (the circuit opens only on as many failures in a row as
configured, counted by an observer), `ImplementsGate` (refinement of
`BreakerGate`), and the liveness properties `KeepsProbing` (during an outage calls
are let through again and again) and `Recovers` (when calls stop failing, traffic
closes the circuit for good).

**JobWorker** (one job, three interchangeable slots, concurrency 2, three retries,
21 settings of the backoff, a job followed until its lock has expired three times;
433 967 states up to symmetry). The job can be held
three times from copies of different age; jobs do not interact except through
slots, so one job is enough. The settings are unset, useless and plausible ones,
with fewer and more retries than the three that the task definition grants, a cap
below and above the intervals, and numbers of retries that the conversion to `int32`
turns into another positive one and into a negative one.
`EndJustified` (a job completes or throws only if one of
its executions did), `RetriesPaidFor` (no retry is spent for nothing, although
stale reports overwrite each other), `RetriesAreSpent` (and none comes back for
nothing: a job fails at most `Retries` times, and `Retries - 1` times more for each
lock that expired and may have left an old copy of it behind; one and two expiries
reach that bound), `WaitsAsFailed` (a job never waits longer
than the cap, nor longer than its failures so far justify, although the interval
is computed from an old copy and from a number of retries of another source).

**PaymentWorker** (one job, two slots, two retries, failure threshold 2 and the
success threshold 2 that `handler.go` sets; 217 552 states). Two slots are the least with an execution that has lost its lock beside
another one; one failure below the threshold and one at it both occur.
`EndsOnlyAsHandled` (an order is paid, or its payment declined, only if the
handler said so; a rejected call is never taken for a result),
`GatedPayments` (wired around the handler, with the slots as its callers, the breaker
still keeps the promise of `BreakerGate`; only a restart opens the gate out of turn),
`SettlesBehindBreaker` (liveness: an open circuit holds no job up for ever).

**WorkerDaemon** (two job types, one job of each, two slots for the worker that is
closed first and one for the other, one retry; 61 427 states). Two types are the
least for which one worker is waited for while another takes jobs; two slots of one
worker let a job run twice while its worker closes.
`DTypeOK` (a worker that is not subscribed holds no job), `NothingCutOff` (when the
connection is closed no handler is left that could still want to report), and the
liveness properties `StopsWhenAsked` (an orderly shutdown ends) and `RecoversJobs`
(whatever restarts, kills and lost polls did, jobs settle once the daemon stays up).

**OrderRisk** (97 462 states). Starts come from `OrderStarts`: requests to the server
with every tier, amounts and scores on both sides of each boundary of the table,
declined and unreachable gateway, negative totals; requests whose custom variables
put an order out of stock or the amount the table sees at odds with the order's; and
the scenarios of the starter. At most one execution per task has lost its lock, and
two charges are told apart.
`ChargedOnlyIfCleared`, `JoinWaitsForBoth`, `BranchesKept` (what each branch returns
in a variable of its own survives the other), `DecisionIsTheTable` (an
order is decided about once, as the table of README.md, read without the order of its
rules, classifies its tier, amount and score: who is stopped, who is reviewed, and each
discount), `ImplementsLifecycle` (refinement of
`OrderLifecycle`: nobody is charged before the branches have joined nor for an order
that is refused, by whatever execution), `InStockEnds` (liveness).

**OrderFulfillment** (amounts on both sides of 1000 and above the gateway's limit,
declared totals that differ from the items, invalid orders; 3 648 states).
`LargeChargeApproved`, `ChargedAsOrdered`, `ImplementsLifecycle`, `ValidOrderEnds`
(liveness).

**TaskFeed** (one task, a page with one request and two searches in flight, the
reviewer command; 188 264 states). Two searches are the least whose answers arrive
in the other order; the request and the reviewer command are the least that
disagree through different paths; all are reused without bound.
`SuccessIsTrue` (an operator who is told "success" made the decision that was
taken), and the liveness properties `ShownTasksAreDecided` (every task appears on
the page and is decided, although searches lock it, the read model lags, older
answers overwrite newer ones and the session expires) and `PageCatchesUp` (no stale
answer offers a decided task for ever).

The processes may stop, so their runs do not check for deadlock; what ends and
how is the subject of their properties. All others do.

### 3.2 Runs that refute a claim

| Run | The claim | What the code does |
|---|---|---|
| `OrderRiskStock` | README.md:15, errors are caught "for graceful compensation" | the inventory branch ends in "Order Cancelled (No Stock)" and never reaches the join; the instance waits there for ever |
| `OrderRiskDiscount` | apply_discount.go:54, the discounted total is "used for payment step" | the payment charges `order.totalAmount`, which the discount leaves alone |
| `OrderFulfillmentErrors` | AGENT.md:63, business errors are caught by a boundary event | `ERR_INVALID_ORDER` has none: an incident |
| `JobWorkerTimeouts` | AGENT.md:65-67, a timeout decrements the retries and ends in an incident | the expired context also bounds `FailJob`; the retries never change |
| `TaskReviewFailure` | server main.go:466, the fallback is for a completion that "did not execute" | it follows any error, a lost answer included: Tasklist takes the decision, the broker is asked for it again and rejects it, and the operator is told that it failed |

### 3.3 Noticed while reading

Worth knowing, and not worth a run:

* Workers. Declined cards alone open the circuit (`circuitbreaker.go:119` counts
  business errors; AGENT.md:72 speaks of outages). Only payments go through the
  breaker, README.md:17 speaks of shipping services as well. A stale report can
  raise the retries again (`JobWorker` allows it). `BACKOFF_MAX_RETRIES` from 2^31
  to 2^32 - 1 becomes negative as an `int32`: every failure then counts as the first,
  and if it comes so near -2^31 that the difference wraps as well, every wait is drawn
  up to the cap (left out by `DifferenceFits`). A second signal during the shutdown is
  never read, and workers closed one after the other may together take longer than
  the container's grace period.
* Processes. `notify_failure.go` reports "Payment Declined" for fraud and missing
  stock as well. Of two parallel results the later one wins the variable `order`, so
  the discount or the reservation recorded in it is lost. The risk process does not
  validate, and charges totals that are not positive.
* Server and page. The order identifier is the second of the clock modulo 100000
  (`main.go:181`). The fallback search ignores the state and the candidate user it is
  asked for. Overlapping searches are not told apart (`app.js:386-388`), so a page
  may show an old answer until the next search. `app.js:271` reads the length of a
  list that the fallback search sends as `null` when no task is open.
* Starter. `-approve -reject` approves and logs REJECTED; its scenario for a transient
  failure starts the same order as the successful one; `-user` filters by assignee
  only, and a variable value is always a string; `-tasklist-query` and `-list-tasks`
  return before the flags that come after them.

## 4. Fairness

* `CircuitBreaker`: the clock runs; a call that was let through returns, because its
  context has a deadline; a rejected one has nothing to wait for. No caller is
  made to call: the liveness properties have continued traffic as a hypothesis,
  because the code only evaluates the recovery time in a call.
* `JobWorker`, `PaymentWorker`: the broker hands out available jobs, locks and
  backoffs end, the dispatcher works through its queue, handlers return and sends
  end. Weak fairness throughout, and none on which outcome a handler or a send
  has: a job may fail for ever. `SettlesBehindBreaker` excludes from some point on
  exactly the losses that may recur for ever without using up retries (a used-up
  deadline, an unreachable gateway, a restart).
* `WorkerDaemon`: main goes on from each of its statements to the next, and the
  container is restarted; jobs as above. Nobody has to send a signal or to kill the
  process. `RecoversJobs` excludes, from some point on, signals, kills and losses.
* Processes: tokens move and reviewers decide (weak); a task that is handed out
  again and again is in the end reported by an execution that holds the lock, and in
  `OrderFulfillment` its uncaught error raised (strong). Executions that have lost
  their lock owe nothing. Reporting is what the middleware gives when
  `SettlesBehindBreaker`'s hypotheses hold; the assumption about people is stated in
  `Fairness`. The other end of a job, the incident, is excluded by the hypothesis
  `[](stuck = {})`.
* `TaskFeed`: locks expire and the read model catches up; searches are answered, by
  whichever path, and their answers arrive; a request is served to its end by the
  handler's own deadlines. The operator searches for all open tasks again and again
  (weak), decides a task that keeps turning up and reads the answer (strong, since
  another action of the page may come in between). Which of the outcomes a call has
  is not fair: Tasklist may refuse every call. `TaskReview` has no fairness of its
  own; what it promises in the end depends on the page.

## 5. Proofs

TLAPS checks these for every value of the constants.

| Module | Theorems | Assumptions on constants |
|---|---|---|
| `CircuitBreakerProofs` | `TypeCorrect`, `CountersCorrect`, `StreakCorrect`, `TripsCorrect`, `RefinesGate` | the settings are integers, negative ones included |
| `JobWorkerProofs` | `TypeCorrect`, `EndsCorrect`, `RetriesCorrect`, `RetriesSpentCorrect`, `WaitsCorrect` | at least one retry; `NoJob` is no job; for `RetriesSpentCorrect` finitely many slots, `Expiries` positive; for `WaitsCorrect` a positive `Word`, settings that are integers, `DifferenceFits` |
| `PaymentWorkerProofs` | `EndsAsHandled`, `BreakerInWorker`, `GateInWorker` | those of the two components |
| `WorkerDaemonProofs` | `DaemonTypes`, `GracefulClose` | those of `JobWorker`; at least one job type, each slot and job has one (`WiringOK`) |
| `OrderFulfillmentProofs`, on `ServiceTasksProofs` | `FulfillmentTypes`, `LargeChargesApproved`, `ChargesAsOrdered`, `ProcessImplementsLifecycle` | instances start with an order nobody has worked on (`StartsAreNew`), at least one charge is told apart |
| `OrderRiskProofs`, on `ServiceTasksProofs` | `RiskTypes`, `OnlyClearedCharged`, `JoinWaits`, `BothBranchesKept`, `DecisionsFollowTable`, `RiskProcessImplementsLifecycle` | the same two |
| `TaskFeedProofs` | of `TaskReview`: `TypeCorrect`, `SuccessCorrect`; of `TaskFeed`: `FeedImplementsReview`, `FeedTypes`, `FeedSuccessIsTrue` | `NoTask` is no task |

The arguments:

* **Breaker.** `IInv` is the types with `CountersMatchState`, which is inductive:
  every change of state goes through `Enter`, which sets both counters, and a late
  result is interpreted in the state it meets. For the streak, the history
  invariant says that while the circuit is closed the counter is at most the
  number of failures reported in a row: a success anywhere resets both. Tripping
  then needs a counter one below the threshold and one more failure. The
  refinement maps state, clock and passes to the gate and shows, action by action
  under `IInv`, that a step of the breaker is a step of the gate or changes
  nothing the gate sees (a failure below the threshold).
* **Worker.** `IInv` is the types and that a job is in an incident exactly when it has
  no retries left, which the broker sees to; the type of a slot
  includes that a held copy has retries left, which is what makes an incident
  follow only from the last one. The two history properties are not inductive:
  a command is executed from the copy in a slot, so the copy must be as well
  founded as the job. `SlotFounded` says so: a copy's retries, less the failure it
  is about to report, are at least the retries not yet paid for, and an outcome to
  be sent has been returned. `HInv` adds it; `Activate` copies the bound from the
  job to the slot and `Deliver` back.
* **Retries.** What a report may give back depends on how old its copy is, and several
  slots may hold copies. `BudgetInv` says: the failures reported, the retries left, and
  what the copies in slots without the lock may still give back are together at most
  what was granted. A copy gives back at most one retry less than it has, so the copies
  are counted as pairs of a slot and such a retry, and their sum is the cardinality of a
  set (`RowAdded`, `RowTaken`). A lock that expires adds the row of its slot and grants
  `Retries - 1`; a report takes the row of its slot away and spends one.
* **Waits.** `WaitsAsFailed` speaks of the copy an interval was computed from, which is
  gone when the job waits. `AskedFounded` keeps what `SlotFounded` said of it: the
  retries of the copy, less the failure just reported, are at least those not yet paid
  for. Only the delivery of a failure sends a job into backoff (`OnlyReportsDelay`), and
  failures are never forgotten (`FailuresGrow`), so the bound stays true while the job
  waits. The rest is arithmetic for any settings: the conversion to `int32` does nothing
  to a number that fits (`Int32Fits`), and a power of two grows with its exponent,
  proved without induction by counting the subsets of an interval
  (`PowerCountsSubsets`).
* **Payments.** What `JobWorker` guarantees carries over because each step behind the
  breaker is, for the jobs, a step of `JobWorker` or none. `PInv` adds to its `IInv`
  that the calls are where the slots are (`ExecuteMatchesSlot`), and that a command to be sent says what its own handler has
  returned (`ReportIsHandled`). A rejected call then can only be reported as a
  failure, and an order ends only as some handler has seen it end. In the other
  direction `PStepIsBreakers` says that each step is, for the breaker, one of its own or
  none, unless the daemon is restarted, so that the invariant of `CircuitBreakerProofs`
  holds inside the worker (`BreakerInWorker`), and between restarts the promise of
  `BreakerGate` with it (`GateInWorker`, the theorem of `GatedPayments`).
* **Daemon.** `DInv` is `JobWorker`'s `IInv`, `DTypeOK` and `Ordered`: the connection is
  given up only by a main that is leaving or gone, and then no worker is subscribed.
  `NothingCutOff` follows, because a worker that is not subscribed has no slot that is
  not free. The jobs' part carries over because
  everything that happens to them is a step of `JobWorker`, a job locked for nobody,
  or a queue dropped, neither of which touches a retry count.
* **Order fulfillment.** `FInv` says where the token is, what each place says of the
  variables (past validation the total is what the items add up to, past the gateway
  a large one is approved) and of the payment gateway, and, for the executions that
  may still come, what they were given: an execution of the task that holds the token
  was given the variables as they are, and one of a payment, however late, the amount
  and the customer of a validated order. The last part makes it inductive, since a
  late payment charges whatever it was given. A late charge cannot fall into a refused
  order because the gateway answers the same customer and amount in the same way.
  One lemma per outcome (`ValidateKeeps`, ..., `AttemptKeeps`); `Travels` sums up the
  ways of the token, and each way is a step of `OrderLifecycle` or none.
  `ServiceTasksProofs` has what both processes need: what each handler leaves alone,
  and that an execution stays what it was when it was handed out.
* **Order risk.** `RInv` has the same parts for two tokens. `Shape` lists where they
  can be: one token before the fork, every combination of the two branches between fork
  and join, one token behind the join; `JoinWaitsForBoth` needs no more. `RunFits` ties
  the executions to the tokens: those of a task the token has never reached do not
  exist (`Begun`), and one whose task still holds a token was given the customer, the
  total, the decision and the flags of the order as they are, although the other branch
  may have written `order` since. Only what the branches may overwrite of each other is
  left out of that agreement, which is why `BranchesKept` can only speak of the variables
  each branch has for itself. `VarFits` and `LedgerFits` say what each place implies of
  variables and gateway. `TableAnswers` follows the six rules in their order and shows
  that the first one that applies answers as the classification does. For
  `DecisionsFollowTable` it remains that only the business rule task sets a decision, and
  sets it where none has been (`DecisionKept`): no handler returns one. One lemma per outcome again, and `Travels` for the ways of the
  tokens: a cancelled stock branch refuses the order whatever the discount branch does,
  and a late charge finds the place behind the join.
* **Reviews.** `TypeOK` and `SuccessIsTrue` are inductive together. `OneMoves` sums
  up a step as a change of at most one request; `DecidedStays` says that no step
  changes a decided task. Success is reported only by the step that decides the
  task with the request's own decision, and is kept because the task is. With the
  page in between, every step is a step of `TaskReview` or none
  (`FeedImplementsReview`), which carries `SuccessIsTrue` over.

Only model-checked:

* liveness, which the prover cannot do under fairness: `KeepsProbing`, `Recovers`,
  `SettlesBehindBreaker`, `StopsWhenAsked`, `RecoversJobs`, `InStockEnds`,
  `ValidOrderEnds`, `ShownTasksAreDecided`, `PageCatchesUp`.

The claims that section 3.2 refutes are refuted by TLC's counterexamples alone.

## 6. Not modelled

* Deploying resources, reading one task and the variables of a task, serving files,
  rendering pages, logging: no state the other parts depend on.
* Settings other than those of breaker and backoff: addresses and credentials.
* Payloads that do not unmarshal, and custom variables that start an instance with an
  order already paid, shipped or decided.
* How much a wait is shortened by jitter: any shorter wait is covered by
  `BackoffElapse`, which may happen at any time.
* That a customer is charged at most once: the request carries no idempotency key and
  the code promises it nowhere. The model does repeat charges, by late executions as
  well, and every property holds with them.

## 7. Plan

1. A process composed with `JobWorker`, replacing the summary in `ServiceTasks` and
   shown to implement it.
2. `TaskFeed` with two tasks: locks of several tasks, filters that separate them, and
   the reviewer command in the middle of its list.
