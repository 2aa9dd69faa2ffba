# Arrakin settlement verification

TLA+ models of Arrakin, a Go service that settles matured investments: a
scheduler finds due maturities and creates one settlement job each, workers pay
the jobs through a gateway and post them to a double-entry ledger, and an HTTP
API lets operators trigger ticks, replay dead-lettered jobs and requeue failed
ones. Everything meets in one Postgres database; several instances may run on it.

## 1. Inventory

| Part | State | Operations | Hard behaviour |
|---|---|---|---|
| Scheduler, orchestrator (`internal/scheduler`, `internal/settlement/orchestrator`) | `maturity_schedules`, new rows of `settlement_jobs` | enqueue tick, stale-lease reaper, admin-triggered tick | concurrent ticks; one bad row inside a batch |
| Worker pool, processor (`internal/worker`) | one open transaction per worker | claim, pay, post, mark settled, schedule retry, dead-letter | crash after the payout; row locks; claim order |
| Job store (`internal/store`, `sql/queries`) | `settlement_jobs`, `payout_attempts` | the conditional updates of a job | read-committed interleavings |
| Payout simulator (`internal/settlement/payout`) | none | answer for a profile and an attempt number | repeated questions after a rollback |
| Ledger (`internal/ledger`, `internal/store/ledger.go`) | `ledger_entries`, `ledger_accounts` | idempotent posting of four lines | zero lines; account row locks |
| Calculator, money (`internal/settlement/calculator`, `internal/domain`) | the breakdown stored with the job | terms to amounts | rounding; int64 overflow |
| Admin replay, requeue (`internal/api/services/settlement.go`) | - | read, check, conditional update | stale read |
| Idempotency keys (`internal/idempotency`, `internal/api/handlers/helpers.go`) | `idempotency_keys`, the connection pool | lookup, reserve, run the handler, complete, expire | two commits; concurrent duplicates; pool exhaustion |
| Retry backoff (`internal/settlement/retry`) | `next_retry_at` | delay for a retry count | overflow of the doubling; two clocks |
| Reconciliation (`internal/reconciliation`) | `reconciliation_snapshots` | take a snapshot, read the latest, compute flags | several statements while workers commit; overlapping runs |
| List endpoints (`internal/platform/httpx/pagination.go`, handlers) | the client's cursor | first page, next page | rows appear, with tied or older timestamps, and change status during a walk |
| Audit trail (`internal/audit`, `internal/store/audit.go`) | `audit_events` | one event per change of a job, in the same transaction | events of transactions that roll back; racing requests |
| Start, shutdown (`cmd/arrakin`, `internal/worker/pool.go`, `internal/platform/db`) | contexts, the connection pool | start, signal, drain, deferred calls | goroutines nobody joins; a timeout with requests running; a pool that closes under them |
| HTTP layer, web console, generated code | - | formatting, reads | none of their own |

How they interact: the scheduler's only message to the workers is the `pending`
row; a worker's only messages back are the rows it commits. The engine calls
calculator, gateway and ledger inside its transactions. The HTTP wrapper
`runIdempotent` runs the admin operations inside a transaction of its own.

What makes each part correct is what the properties below say. The hazards, each
at its source line and with the properties aimed at it, are in `PROJECT.json`.

## 2. Modules

| Module | What it is |
|---|---|
| `SettlementLifecycle` | abstract: the life of a job, each change one atomic step |
| `SettlementEngine` | scheduler, reaper, workers, gateway, ledger, replay and requeue as transactions over committed tables |
| `AuditTrail` | the engine's actions, each with the events it publishes |
| `RetryBackoff` | the retry delay, the clock that writes it and the clock that compares it |
| `ServiceProcess` | one process: `run`, its goroutines, its requests and their connections |
| `SettlementAmounts` | calculator, money arithmetic, posting lines |
| `IdempotentRequests` | keyed HTTP requests, their two transactions and the connection pool |
| `Reconciliation` | snapshot and flag requests, composed with the lifecycle |
| `CursorPages` | a client paging through a list while transactions add rows |
| `MC...` | constants for TLC |
| `...Proofs` | theorems and proofs of each detailed module |

### SettlementEngine

`job`, `attempts`, `ledger`, `settled` are the committed tables. `worker`,
`sched` and `admin` hold what each open transaction has read and written; a
commit installs it, a rollback forgets it. A step is one statement or one group
of statements that takes no lock another process could hold in between:

- `ListDue`, `EnqueueDue` / `EnqueueFails`, `TickCommit` are a tick;
  `ExpireStaleLeases`, `ReapCommit` the reaper;
- `Claim`, `Execute`, then `PostSettlement` / `PostingRejected`, `MarkSettled`
  or `HandleFailure`, then `WorkerCommit` are `ProcessOne`;
- `AdminCheck`, `AdminUpdate` / `AdminConflict`, `AdminCommit` are replay and
  requeue;
- `...Rollback` is a crash, a lost connection or a cancelled context, possible
  at every step until `FaultsCease`.

`FOR UPDATE SKIP LOCKED` is the guard `~JobLocked` / `~MaturityLocked`; an
UPDATE that waits for a row is simply not enabled. `created_at` order is kept as
a partial order (`older`): jobs of one tick tie, because `now()` is the start of
the transaction. Time is two events, a maturity coming due and a backoff
elapsing. Amounts are left out: a maturity is `Calculable` or not and `Postable`
or not, and `SettlementAmounts` says which are which (`Accepted`,
`LinesAccepted`). `paid` is a ghost: the jobs the gateway has reported paid,
which no rollback undoes.

### SettlementLifecycle

A job is opened once, charged at most `MaxRetries - 1` failures, and ends settled
(job, ledger and maturity in one step) or dead-lettered, from where only a
replay reopens it. `SettlementEngine!LifecycleSpec` is the refinement: `pending`
and `failed` map to open, and only committed rows count.

### AuditTrail

Extends `SettlementEngine`: `AuditNext` conjoins to every engine action what that
action publishes (`PublishClaimed` with `Claim`, `PublishSucceeded` with
`MarkSettled`, and so on), so a behaviour of `AuditSpec` is one of the engine's
with two variables more. `unsaved` is what a transaction has inserted, `audit`
what is committed, per job and in the order of commits; the job's ledger group is
counted with the job. That order is a ghost: the table stores `occurred_at`, the
start of the transaction, and a random id, so the properties say what was recorded
and in which order it happened, not how the API lists it (section 5).
Of a payload the module keeps the one number the
properties speak of: `attempt_number` of `claimed`, `retry_count` of `failed`.
`ActionMaturitySettled` is declared in the code and never published; the action
`settlement_job.requeued` is published and not declared. The properties are
stated of one trail at a time (`TellsTheRow`, `TellsTheAttempts`, `IsARun` of a
sequence of events), so that the proofs can say what a commit appends to it.

### RetryBackoff

`NextRetryAt` in `time.Duration`'s arithmetic at a parametric width, with the
clamped shift, the cap and the jitter. `handleFailure` adds the delay to the
clock of its instance, which is off by at most `Skew`; the claim compares with
`now()` of the database, the start of the claiming transaction. `at` is a
ghost: the database's time when the failure was handled. `created_at` does not
order the claims here (it does in `SettlementEngine`): among equal
`next_retry_at` any job may be taken.

### ServiceProcess

`main` is where `run` stands, from `start` through the select, `server.Shutdown`
and the deferred calls to `exited`. Each engine goroutine is in its `select`,
waiting for a connection, in a transaction, or stopped; a request is waiting for
its key's connection (`reserve`), for its handler's (`acquire`), in the handler's
transaction, or storing the response (`complete`). Connections are counted from
their holders (`Held`). What comes from libraries: `pool.Close` refuses new
acquisitions at once and waits for the connections that are out; those already
waiting learn of it only when a connection comes back (`PoolClosed`); a ticker
and `Done` that are ready together are chosen between at random (`Ticker` has no
guard on `cancelled`). A connection that is open when the listener closes may still
deliver a request, while `server.Shutdown` waits for it and after it has timed out
(`Connected`).

### SettlementAmounts

`ProratedReturn`, `ApplyBasisPoints`, `Calculate`, both `Validate` methods,
`buildPostingLines` and `validateBalanced`, with Go's int64: `Wrap` is
two's-complement overflow, `Quo` truncating division. The width is the parameter
`MaxInt`, so that TLC can overflow it with small numbers; the theorems hold for
every width. `Terms` are the rows the schema admits, which is more than the
calculator accepts (a rate above 100 %, a blank-padded currency).

### IdempotentRequests

A request is one HTTP call; a retry by the client is another with the same key.
`Begin`, `LookupMiss` / `LookupHit`, `Reserve` / `ReserveConflict`,
`BeginHandler`, `HandlerCommits` / `HandlerFails`, `Complete` follow
`runIdempotent` and `Service.Execute`. An INSERT waits for an uncommitted
duplicate (`KeyLocked`). `expires_at > now()` is decided when the transaction
begins (`lapsed`), because that is what `now()` means. `Rollback`,
`HandlerCommitLost` and `CompleteLost` are faults, the last two a commit that
was carried out and not confirmed. Handlers that fail after their own commit are
left out: the only code there maps columns that are NOT NULL. A duplicate that
loses the INSERT is answered with an error (`ReserveConflict`): the unique
violation aborts the transaction in which the winner's row is to be read, so the
"poll/read winner row" of the implementation spec does not happen.

### Reconciliation

The engine enters as `Engine == INSTANCE SettlementLifecycle`: statements read
committed rows, and `SettlementEngine` is proved to change those only as the
lifecycle does. A request is a sequence of statements, each at its own instant:
`Begin`, `CreateSnapshot` or `GetLatest`, then the three counts of `FlagCounts`,
then `Finish`; `Fail` is an error at any of them. A snapshot keeps the sets of
jobs it counted, from which the counts and sums of the code follow. A sum of
amounts is the number of cents in it (`CentsOf`, `TotalCents`): that is a
cardinality, about which there are theorems, where a fold would need an induction.
`MCReconciliation` assumes, and TLC evaluates, that on its jobs the two agree
(`TotalIsSum`). Which
pending jobs are older than an hour is left open.

### CursorPages

`rows` are keys (timestamp, id) of any of the four lists. A transaction stamps
its rows with its start and they appear at its commit, so rows tie and arrive out
of order. `IsPage` is `WHERE ... ORDER BY ... LIMIT`, `PageLimit` and
`StoreLimit` the two caps, `HasMore` and `NextCursor` what the handlers compute.
`steady` is a ghost: the rows that have matched the filter since the walk began.

## 3. Runs

Passing runs:

| Run | Instance | Shows |
|---|---|---|
| `engine_safety` | 2 workers, 2 schedulers, 2 admin requests, 3 maturities (one retried, one the ledger refuses, one the calculator refuses), 2 retries; 337,312 states under symmetry | tables agree (`BooksAgree`), claims exclude (`ClaimSound`), budgets hold (`RetryBudget`), ticks do not collide (`TicksDisjoint`), nothing is stranded, a paid job is never given up (`PaidIsNotGivenUp`), a refused posting settles nothing and charges nobody (`RefusedPostingSettlesNothing`), settled is final, dead letters need a replay, the lifecycle is implemented |
| `audit` | 2 workers, 2 schedulers, 2 admin requests, 3 maturities (retried, refused by the ledger, refused by the calculator); 457,360 states under symmetry | what open transactions have published and what is committed fit together (`AInv`, the inductive invariant of the proofs), and in particular, in commit order, the trail tells the row (`TrailTellsTheRow`) and the attempts (`TrailTellsTheAttempts`) and is a run of the job's state machine (`TrailIsARun`), whatever races or is rolled back |
| `engine_liveness` | 1 worker, 1 scheduler, 1 admin request | due is enqueued, jobs are decided, paid is posted |
| `idem` | 3 requests under one key, one without, 3 connections; 21,152 states | the key is a mutex, successful answers agree, a handler runs twice only after a loss, no key is stuck, and every request is answered unless keyed requests exhaust the pool for ever (`EveryRequestIsAnswered`) |
| `amounts` | real denominators, fee and tax 90 %, 289 terms around the rounding boundaries, some of which overflow | half-up rounding, conservation, acceptance, balance |
| `reconciliation` | 2 jobs, 2 requests, 2 snapshots; 1.8m states | ledger flags are never raised by mixing instants (`NoFalseAlarm`), snapshots form one history, none understates what is owed (`NeverUnderstates`) |
| `pages` | 2 writers, 4 rows, page sizes 0 (refused), 1 and 3 (capped at 2); 328,461 states | nothing is listed twice or out of order (`WalkOrdered`), a finished walk has missed no steady row (`WalkComplete`) |
| `process` | 1 worker, 1 scheduler, 3 requests (2 keyed), 2 connections, batches of 2; 8,581 states | the process never ends inside a transaction (`NoTransactionCutOff`), a clean exit has answered everyone, and nothing but keyed requests that exhaust the pool keeps a shutdown from ending (`ShutdownEnds`) or an accepted request from its answer (`RequestsAnswered`) |
| `backoff` | 2 jobs, 2 workers, clocks off by one, 5 retries whose delay doubles, meets the cap and overflows; 7.3m states | no failed job is claimed before its backoff while the product fits (`BackoffRespected`), none waits longer than cap, jitter and skew (`WaitIsBounded`) |

Runs that show the code and its documents disagree (`findings` quotes both):

| Run | What happens |
|---|---|
| `poison_maturity` | one maturity the calculator refuses rolls back every tick, for all maturities |
| `unpostable_payout` | a job with a zero fee or tax is paid, rolled back and paid again for ever |
| `idem_expired_key` | an expired key is neither replayed nor free |

Each rollback of `unpostable_payout` also takes the `payout_attempts` row of a
payout that happened with it, although FR-43 has "Each attempt is recorded" and the
table is described as an "Append-only execution history"; the same goes for an
attempt whose commit fails. Another consequence has no run of its own: the job keeps its
`created_at` and an empty `next_retry_at`, so it stays at the head of the claim
order, and with as many such jobs as workers nothing behind them runs.

Two more disagreements are characterised by passing properties, proved for all
constants, rather than by a counterexample. A fault between the handler's commit
and the key's executes a retry again, although the spec has "no double replay":
`DoubleExecutionNeedsLoss` says that this loss is the only way. A principal within
the "safe calculation bounds" of `money.go` may still overflow
`principal * rate * days` (with int64: about $8.4bn at 10 % over 30 years):
`GrossIsRounded` and `SafeTermsAreAccepted` hold exactly for the terms whose
product fits.

More that the passing runs show. `NothingStranded`: claim and outcome share
one transaction, so the status `processing` is never committed, and the lease and
the reaper, described in the implementation spec as crash recovery, have nothing
to act on; the rollback is the recovery. A keyed request holds one connection while it
waits for a second, so as many of them as there are connections (`MaxConns` is 20)
stop each other, and everyone else: `Exhausted`. Under one key it takes only a
winner and duplicates that wait for it at the unique index. `EveryRequestIsAnswered`,
`RequestsAnswered` and `ShutdownEnds` are checked where this happens, and say that it
is the only way for a request not to be answered and for a shutdown not to end: when
`SHUTDOWN_TIMEOUT` expires, `pool.Close` waits for the requests and they for a
connection. With more connections than keyed requests at once `Exhausted` cannot
hold, and the three properties are unconditional.
`BackoffRespected` carries the condition `InRange`: with a
`RETRY_BASE_DELAY` of more than about 8.6 s and enough retries (30, fewer for a
longer delay) the product leaves int64, passes the comparison with the cap as a
negative number or zero, and the job is due at once; `WaitIsBounded` needs no
such condition.

### Bounds

`MaxAttempts` bounds replays of one job (a dead-lettered job with that many
attempts is not replayed); retries are bounded by the code. Two processes of a
kind are enough for every pairwise race over a row lock, and two jobs for every
mixture of one job's fate with another's; the theorems have no such bounds.
The retry budget is 2 or 3, so that exhausting it, one short of it, and the
third, successful, attempt of `transient_then_success` all occur. Three requests
under a key allow a winner, a waiter and a late retry. `amounts` needs no more
than three digits of cents, because rounding depends on remainders. Symmetry is
used only in safety runs, over processes and in `backoff` over jobs, none of which a
property names. `MaxSnapshots`
is 2, since a history is a matter of pairs; `Ids` allows more rows than the
largest page holds, and `MaxClock` both ties and strict order. In `process` one
goroutine of each kind is enough, since they only compete for connections, and
two connections are enough for two keyed requests to take all, or not; `idem` has
three for the same reason;
`backoff` stops the clock at 5, past the longest wait that its delays allow.

Deadlock is checked in the engine and its trail, in `Reconciliation`,
`CursorPages` and `RetryBackoff`. The other modules end: requests are answered, a
settlement is posted or refused, the process exits.

### Fairness

Engine: the ticker fires and transactions go on when they can (weak fairness),
faults cease at some point, and strong fairness is assumed at three places where
two claimants alternate: the tick, which shares its goroutine with the reaper
(Go's `select` picks at random among ready channels), and posting and
`MarkSettled`, which wait for row locks that Postgres hands out in the order of
arrival. Admin requests and the reaper are never owed.
Requests: each request takes its next step when it can. No fault and no
client's hanging up is owed: the server's `WriteTimeout` does not cancel a
handler's context.
Process: `run` goes on when it can, but no signal and no failure of the server is
owed; the shutdown timer, the tickers and open transactions come to their end
(weak fairness). Strong fairness is assumed where Go or the pool chooses: a
goroutine that keeps returning to its `select` takes the `Done` case at some
point, and the pool serves its waiters in order.

## 4. Proofs

Assumptions: only the named `ASSUME`s on constants (any sets of maturities,
processes, requests, keys; `NoJob` and the like outside them; the maturities of
`Reconciliation` finitely many; denominators even and more than one; an integer
type wide enough for the return's denominator). The `ASSUME`s are evaluated by
TLC on the instances.

**SettlementEngineProofs.** The safety properties are not inductive: they speak
of committed rows, and a commit is right only because of what the transaction
believed since it began. `IInv` adds that: `WorkersInv` (a worker's row image is
the committed row with the change its program counter says), `SchedsInv`,
`AdminsInv`, `LocksInv` (row locks exclude each other), `TablesInv` (what the
tables promise). A worker that has called the gateway also knows that the answer
it holds is the gateway's for this attempt, and past the posting that its job is
`Postable` (`Attempted`); that is what `RefusedPostingSettlesNothing` needs.
One lemma per action shows that it preserves `IInv`; a
lemma on table steps gives the action properties; `StepImplements` maps each
step to a step or a stutter of `SettlementLifecycle`. Proved for all constants:
`TypeOK`, `IInv`, `BooksAgree`, `ClaimSound`, `PaidIsNotGivenUp`, `RetryBudget`,
`TicksDisjoint`, `NothingStranded`, `RefusedPostingSettlesNothing`, `SettledIsFinal`,
`DeadLetterNeedsReplay`, `LifecycleSpec`.

**AuditTrailProofs.** Every step with its events is by construction a step of the
engine (`TrailOnlyObserves`), so all of the engine's theorems hold here.
The properties of the trail are not inductive, because a commit appends events
that were inserted steps earlier. `AInv` adds to the engine's `IInv` what
`unsaved` holds at each program counter (`UnsavedInv`: a worker that has claimed
has published `claimed` with its attempt number, one that is ready to commit the
outcome its row image shows, too) and that no committed trail stops in the middle
of a transaction (`EndsATransaction`). The work is in the lemmas on extended
trails: if a trail tells a row and its attempts and is a run, then so does the
trail with the events of one tick, one attempt (settled, failed or dead-lettered)
or one admin request appended, for the row that transaction installs; appending
moves no earlier event, and so neither a claim nor the outcome after it. Then one
lemma per action: steps inside a transaction change `unsaved` only, a rollback
empties it, a commit applies the lemma for what it appends. Proved: `AInv`,
`AuditTypeOK`, `TrailTellsTheRow`, `TrailTellsTheAttempts`, `TrailIsARun`.

**IdempotentRequestsProofs.** `IInv`: how far a request has got decides what it
has executed, and an answer once given is backed by the stored row. Proved:
`KeyExclusive`, `AnswersAgree`, `DoubleExecutionNeedsLoss`, `NoKeyStuck`.

**SettlementAmountsProofs.** From bounds on integer division: the idiom
`(n + d/2) / d` rounds half up while the sum fits (`RoundQuoHalfUp`); a cut never
exceeds its base (`CutRounds`); a return that is not negative, overflowed or
not, is small enough for everything after it (`GrossFits`). With the invariant
that the stored breakdown is the calculated one (`Snapshot`) these give
`GrossIsRounded`, `CutsAreRounded`, `MoneyConserved`, `SafeTermsAreAccepted` and
`OnlyZeroCutsAreRejected`: the only overflow in the money code is the product in
`ProratedReturn`, and the only refusal after a payout is a cut of zero.

**CursorPagesProofs.** `Newer` is a strict total order on keys; a finite page
that is not empty has exactly one last row, so there is exactly one cursor
(`FiniteSetTheorems` gives finiteness and cardinalities, `WFMin` the last row).
`IInv`: everything listed is at or before the cursor, every steady row not yet
listed is after it, and the two caps agree. Proved: `WalkOrdered`,
`WalkComplete`.

**ReconciliationProofs.** `IInv`: the ledger holds exactly the succeeded jobs,
and what a snapshot counted is still counted now, because jobs never disappear
and succeeded is final; in particular what a snapshot counted as succeeded is
among the jobs it counted and is in the ledger. The discrepancy is then the cents of
the jobs counted and not succeeded (`CentsDiffer`), and those not posted are among
them (`CentsMonotonic`). Proved:
`NoFalseAlarm`, `SnapshotsFormHistory`, `NeverUnderstates`.

**RetryBackoffProofs.** `WrapFacts`, `DelayFacts` and `NextRetryAtFacts` give what
one `NextRetryAt` promises, overflowed or not; `IInv` carries it from the row image of the
failing transaction to the committed row and to the claim (`Scheduled`,
`TxKnows`), across other workers, rollbacks and requeues. Proved: `BackoffRespected`, `WaitIsBounded`.

**ServiceProcessProofs.** `IInv`: no request is active once `run` has returned nil,
and once `pool.Close` has returned no connection is held or can be had; a pool
whose count is zero has no holder (`NoneHeld`, from `FiniteSetTheorems`). Proved:
`NoTransactionCutOff`, `CleanExitAnswersAll`. An exhausted pool
has no connection free (`NoneFree`) and those who wait in it go on waiting
(`WaitersWait`), so that only the abort of one of these requests relieves it, and
`run` does not return before (`OnlyAbortsRelieve`): the `[]Exhausted` of
`ShutdownEnds` and `RequestsAnswered` is a real deadlock, for any pool.

Every invariant and every action property that a run checks is proved, and the
refinement too. Model-checked only: the liveness properties (`DueIsEnqueued`,
`JobIsDecided`, `PaidIsPosted`, `EveryRequestIsAnswered`, `ShutdownEnds`,
`RequestsAnswered`), because fairness is out of the prover's reach. The `IInv`s of
`CursorPages`, `Reconciliation`, `RetryBackoff` and `ServiceProcess`, and
`OnlyAbortsRelieve`, were checked on the instances of their runs before they were
proved, and are not run any more.

## 5. Not modelled

- HTTP routing, authentication and DTOs: stateless; what a request holds and
  waits for is in `IdempotentRequests` and `ServiceProcess`.
- The order in which the audit API lists events: by `occurred_at`, the start of
  the transaction, then by random id. It is not the order of the changes (a
  worker whose transaction began before a tick committed lists `claimed` before
  `created`, and a requeue that waited for a worker begun after it is listed before
  that worker's `failed`); no document says it is, and `AuditTrail` keeps the order of commits.
- The metrics counters, incremented before the transaction commits and read by
  nothing.
- Account rows of the ledger one by one: they are upserted in one fixed order,
  so `SettlementEngine` has one lock for all of them.
- The web console, generated bindings, logging, Redis (pinged, and otherwise
  unused), configuration parsing, the test harness.
- The handlers' own work in `IdempotentRequests`, and the connections of workers
  there: `Conns` is what they leave. `ServiceProcess` counts them all, and leaves
  out what the transactions do.
- `IdempotentRequests` composed with replay and requeue: the conditional UPDATE
  turns a second execution into a conflict, which `DeadLetterNeedsReplay` and
  `SettledIsFinal` cover without the keys.

## 6. Plan

Done: the engine with its lifecycle and its audit trail, amounts, retry backoff,
idempotent requests, reconciliation, cursor pages, the process; theorems about
all of them, which state every invariant and action property the runs check.

1. `Calculable` and `Postable` of the engine's instances taken from
   `SettlementAmounts` through INSTANCE, and the theorem that connects the two:
   what the calculator accepts with non-zero cuts, the engine can post.
2. A run of `AuditTrail` with a terminally failing job beside the others: with two
   processes of each kind it is too large for TLC here, and the proof covers it.
