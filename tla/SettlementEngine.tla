--------------------------- MODULE SettlementEngine ---------------------------
(***************************************************************************)
(* The core of Arrakin: the scheduler that enqueues due maturities, the    *)
(* workers that pay and post them, the stale-lease reaper, and the admin   *)
(* replay and requeue endpoints, all meeting in one Postgres database.     *)
(*                                                                         *)
(* job, attempts, ledger and settled are the COMMITTED tables.  A running  *)
(* transaction keeps its writes to itself (worker, sched and admin below)  *)
(* and installs them at Commit; until then nobody else sees them, and the  *)
(* rows it wrote are locked.  A job is named by its maturity: the schema   *)
(* makes settlement_jobs.maturity_schedule_id unique.                      *)
(***************************************************************************)
EXTENDS Naturals, Sequences, FiniteSets

CONSTANTS
    Maturities,     \* rows of maturity_schedules
    Workers,        \* worker goroutines, of all instances
    Schedulers,     \* scheduler goroutines and admin-triggered ticks
    Admins,         \* concurrent replay and requeue requests
    NoJob,          \* "no job" in a worker or an admin request
    Profile,        \* [Maturities -> Profiles], investments.simulation_profile
    Calculable,     \* maturities whose terms the calculator accepts
    Postable,       \* maturities whose four ledger lines are all positive
    MaxRetries,     \* settlement_jobs.max_retries
    MaxAttempts     \* bound: no replay of a job with this many attempts

Profiles == {"success", "transient_then_success", "terminal_failure"}

ASSUME NoJobAssumption == NoJob \notin Maturities
ASSUME ProfileAssumption == Profile \in [Maturities -> Profiles]
ASSUME TermsAssumption ==
    Calculable \subseteq Maturities /\ Postable \subseteq Maturities
ASSUME RetryAssumption == MaxRetries \in Nat /\ MaxAttempts \in Nat

VARIABLES
    due,        \* maturities with matures_at <= now()
    faults,     \* whether connections and processes may still fail
    job,        \* settlement_jobs, by maturity
    attempts,   \* payout_attempts: the committed outcomes of each job
    ledger,     \* maturities whose entry group is in ledger_entries
    settled,    \* maturities with maturity_schedules.status = 'settled'
    paid,       \* jobs for which the gateway has reported a payout
    worker,     \* each worker's open transaction
    sched,      \* each scheduler's open transaction
    admin       \* each admin request's open transaction

tables == <<job, attempts, ledger, settled>>
vars == <<due, faults, job, attempts, ledger, settled, paid,
          worker, sched, admin>>

-----------------------------------------------------------------------------
(* Rows and transactions.                                                  *)

Statuses == {"absent", "pending", "processing", "failed",
             "succeeded", "dead_letter"}

(* next_retry_at: NULL, in the future, or not after now().                 *)
RetryTimes == {"null", "waiting", "elapsed"}

(* older: the jobs known to have an earlier created_at.  created_at is the *)
(* start of the creating tick's transaction, so the jobs of one tick tie,  *)
(* and so may those of ticks that overlapped.                              *)
Rows == [status : Statuses, retry : Nat, next : RetryTimes,
         older : SUBSET Maturities]

AbsentRow == [status |-> "absent", retry |-> 0, next |-> "null", older |-> {}]

(* What the statements of settlement_jobs.sql make of a row.               *)
WithStatus(row, status) == [status |-> status, retry |-> row.retry,
                            next |-> row.next, older |-> row.older]

CreateSettlementJob(older) == [status |-> "pending", retry |-> 0,
                               next |-> "null", older |-> older]

ClaimSettlementJob(row) == WithStatus(row, "processing")

MarkJobSucceeded(row) == WithStatus(row, "succeeded")

MarkJobDeadLetter(row) == WithStatus(row, "dead_letter")

MarkJobFailedRetryable(row) == [status |-> "failed", retry |-> row.retry + 1,
                                next |-> "waiting", older |-> row.older]

(* ReplayDeadLetterJob and RequeueFailedJob: next_retry_at is cleared and  *)
(* retry_count kept.                                                       *)
BackToPending(row) == [status |-> "pending", retry |-> row.retry,
                       next |-> "null", older |-> row.older]

ExpireStaleProcessingJob(row) == WithStatus(row, "pending")

Outcomes == {"ok", "transient", "terminal"}

WorkerStates ==
    [pc : {"idle", "claimed", "executed", "posted", "ready"},
     job : Maturities \union {NoJob},
     row : Rows,                          \* its own image of the job row
     attempt : Nat,                       \* the attempt number it started
     result : Outcomes \union {"none"},   \* what the gateway answered
     writes : SUBSET {"ledger", "maturity"}]

IdleWorker == [pc |-> "idle", job |-> NoJob, row |-> AbsentRow,
               attempt |-> 0, result |-> "none", writes |-> {}]

SchedStates ==
    [pc : {"idle", "listed", "enqueued", "reap"},
     rows : SUBSET Maturities,      \* maturity rows locked by ListDue
     created : SUBSET Maturities,   \* jobs inserted, not yet committed
     older : SUBSET Maturities,     \* jobs that existed when the tick began
     leases : SUBSET Maturities]    \* jobs whose lease the reaper expires

IdleSched == [pc |-> "idle", rows |-> {}, created |-> {}, older |-> {},
              leases |-> {}]

AdminOps == {"replay", "requeue"}

AdminStates == [pc : {"idle", "checked", "updated"},
                op : AdminOps \union {"none"},
                job : Maturities \union {NoJob}]

IdleAdmin == [pc |-> "idle", op |-> "none", job |-> NoJob]

TypeOK ==
    /\ due \subseteq Maturities
    /\ faults \in {"possible", "ceased"}
    /\ job \in [Maturities -> Rows]
    /\ attempts \in [Maturities -> Seq(Outcomes)]
    /\ ledger \subseteq Maturities
    /\ settled \subseteq Maturities
    /\ paid \subseteq Maturities
    /\ worker \in [Workers -> WorkerStates]
    /\ sched \in [Schedulers -> SchedStates]
    /\ admin \in [Admins -> AdminStates]

Init ==
    /\ due = {}
    /\ faults = "possible"
    /\ job = [m \in Maturities |-> AbsentRow]
    /\ attempts = [m \in Maturities |-> <<>>]
    /\ ledger = {}
    /\ settled = {}
    /\ paid = {}
    /\ worker = [w \in Workers |-> IdleWorker]
    /\ sched = [s \in Schedulers |-> IdleSched]
    /\ admin = [a \in Admins |-> IdleAdmin]

-----------------------------------------------------------------------------
(* Row locks, read off the open transactions.                              *)

(* Mutant: workers do not lock the rows they claim.                        *)
ClaimDoesNotLock(m) ==
    \/ \E a \in Admins : admin[a].pc = "updated" /\ admin[a].job = m
    \/ \E s \in Schedulers : m \in sched[s].leases

(* Mutant: an admin's UPDATE does not lock the row.                        *)
UpdateDoesNotLock(m) ==
    \/ \E w \in Workers : worker[w].job = m
    \/ \E s \in Schedulers : m \in sched[s].leases

JobLocked(m) ==
    \/ \E w \in Workers : worker[w].job = m
    \/ \E a \in Admins : admin[a].pc = "updated" /\ admin[a].job = m
    \/ \E s \in Schedulers : m \in sched[s].leases

(* Mutant: ListDue without FOR UPDATE.                                     *)
ListDueDoesNotLock(m) ==
    \E w \in Workers : worker[w].job = m /\ "maturity" \in worker[w].writes

MaturityLocked(m) ==
    \/ \E s \in Schedulers : m \in sched[s].rows
    \/ \E w \in Workers : worker[w].job = m /\ "maturity" \in worker[w].writes

(* Every posting upserts the same fee and tax account rows, so postings    *)
(* exclude each other from the first upsert to the end of the transaction. *)
AccountsLocked == \E w \in Workers : "ledger" \in worker[w].writes

-----------------------------------------------------------------------------
(* Time, and the end of the faults.                                        *)

MaturityComesDue(m) ==
    /\ m \notin due
    /\ due' = due \union {m}
    /\ UNCHANGED <<faults, tables, paid, worker, sched, admin>>

BackoffElapses(m) ==
    /\ job[m].next = "waiting"
    /\ job' = [job EXCEPT ![m] = [status |-> @.status, retry |-> @.retry,
                                  next |-> "elapsed", older |-> @.older]]
    /\ UNCHANGED <<due, faults, attempts, ledger, settled, paid,
                   worker, sched, admin>>

FaultsCease ==
    /\ faults = "possible"
    /\ faults' = "ceased"
    /\ UNCHANGED <<due, tables, paid, worker, sched, admin>>

-----------------------------------------------------------------------------
(* Scheduler: EnqueueDueMaturities, one transaction.                       *)

(* ListDue takes, and locks, every due unsettled maturity that no other    *)
(* transaction has locked (FOR UPDATE SKIP LOCKED), whether or not it      *)
(* already has a job.                                                      *)
ListDue(s) ==
    LET rows == {m \in due \ settled : ~MaturityLocked(m)}
    IN  /\ sched[s].pc = "idle"
        /\ sched' = [sched EXCEPT ![s] =
              [IdleSched EXCEPT !.pc = "listed", !.rows = rows,
                 !.older = {m \in Maturities : job[m].status # "absent"}]]
        /\ UNCHANGED <<due, faults, tables, paid, worker, admin>>

(* Mutant: the test for an existing job is inverted.                       *)
ExistingOnly(rows) == {m \in rows : job[m].status # "absent"}

(* The rows that get a job; one that has a job keeps it.                   *)
CreateIdempotent(rows) == {m \in rows : job[m].status = "absent"}

(* The loop over the rows: calculate each, then CreateIdempotent.  The     *)
(* rows are locked and the inserts private, so nobody can tell its         *)
(* iterations apart.                                                       *)
EnqueueDue(s) ==
    /\ sched[s].pc = "listed"
    /\ sched[s].rows \subseteq Calculable
    /\ sched' = [sched EXCEPT ![s].pc = "enqueued",
          ![s].created = CreateIdempotent(sched[s].rows)]
    /\ UNCHANGED <<due, faults, tables, paid, worker, admin>>

(* A calculation error is returned out of WithTx: the whole tick is lost.  *)
EnqueueFails(s) ==
    /\ sched[s].pc = "listed"
    /\ ~(sched[s].rows \subseteq Calculable)
    /\ sched' = [sched EXCEPT ![s] = IdleSched]
    /\ UNCHANGED <<due, faults, tables, paid, worker, admin>>

TickCommit(s) ==
    /\ sched[s].pc = "enqueued"
    /\ job' = [m \in Maturities |->
                 IF m \in sched[s].created
                 THEN CreateSettlementJob(sched[s].older) ELSE job[m]]
    /\ sched' = [sched EXCEPT ![s] = IdleSched]
    /\ UNCHANGED <<due, faults, attempts, ledger, settled, paid, worker, admin>>

(* reapStaleLeases: the UPDATE of the expired processing rows (which ones  *)
(* have expired is left open), their audit events, then the commit.        *)
ExpireStaleLeases(s) ==
    /\ sched[s].pc = "idle"
    /\ \E stale \in SUBSET {m \in Maturities : job[m].status = "processing"} :
          /\ \A m \in stale : ~JobLocked(m)
          /\ sched' = [sched EXCEPT ![s] =
                [IdleSched EXCEPT !.pc = "reap", !.leases = stale]]
    /\ UNCHANGED <<due, faults, tables, paid, worker, admin>>

ReapCommit(s) ==
    /\ sched[s].pc = "reap"
    /\ job' = [m \in Maturities |->
                 IF m \in sched[s].leases
                 THEN ExpireStaleProcessingJob(job[m]) ELSE job[m]]
    /\ sched' = [sched EXCEPT ![s] = IdleSched]
    /\ UNCHANGED <<due, faults, attempts, ledger, settled, paid, worker, admin>>

SchedRollback(s) ==
    /\ faults = "possible"
    /\ sched[s].pc # "idle"
    /\ sched' = [sched EXCEPT ![s] = IdleSched]
    /\ UNCHANGED <<due, faults, tables, paid, worker, admin>>

-----------------------------------------------------------------------------
(* Worker: ProcessOne, one transaction.                                    *)

(* Mutant: failed jobs are never picked up again.                          *)
PendingOnly(m) ==
    /\ job[m].status = "pending"
    /\ job[m].next # "waiting"
    /\ ~JobLocked(m)

(* Mutant: everything unfinished is claimable.                             *)
UnfinishedClaimable(m) ==
    /\ job[m].status \notin {"absent", "processing", "succeeded"}
    /\ job[m].next # "waiting"
    /\ ~JobLocked(m)

(* The WHERE clause and the SKIP LOCKED of ClaimSettlementJob.             *)
Claimable(m) ==
    /\ job[m].status \in {"pending", "failed"}
    /\ job[m].next # "waiting"
    /\ ~JobLocked(m)

(* ORDER BY next_retry_at ASC NULLS FIRST, created_at ASC.  The order of   *)
(* two elapsed retry times is not kept.                                    *)
Before(k, m) ==
    /\ job[k].next = "null"
    /\ \/ job[m].next # "null"
       \/ k \in job[m].older

(* Attempts are numbered from one, by the committed history of the job.    *)
GetNextAttemptNumber(m) == Len(attempts[m]) + 1

(* Claim, the investment lookup, PayoutAttempts.Start and the audit event. *)
Claim(w, m) ==
    /\ worker[w].pc = "idle"
    /\ Claimable(m)
    /\ \A k \in Maturities : Claimable(k) => ~Before(k, m)
    /\ worker' = [worker EXCEPT ![w] =
          [IdleWorker EXCEPT !.pc = "claimed", !.job = m,
             !.row = ClaimSettlementJob(job[m]),
             !.attempt = GetNextAttemptNumber(m)]]
    /\ UNCHANGED <<due, faults, tables, paid, sched, admin>>

(* Simulator.Execute: a function of the profile and the attempt number.    *)
GatewayResult(m, attempt) ==
    CASE Profile[m] = "terminal_failure" -> "terminal"
      [] Profile[m] = "transient_then_success" /\ attempt < 3 -> "transient"
      [] OTHER -> "ok"

Execute(w) ==
    LET m == worker[w].job
        result == GatewayResult(m, worker[w].attempt)
    IN  /\ worker[w].pc = "claimed"
        /\ worker' = [worker EXCEPT ![w].pc = "executed", ![w].result = result]
        /\ paid' = IF result = "ok" THEN paid \union {m} ELSE paid
        /\ UNCHANGED <<due, faults, tables, sched, admin>>

(* Mutant: the test of the group lookup's error is inverted.               *)
GroupLookupInverted(w) ==
    LET m == worker[w].job
    IN  /\ worker[w].pc = "executed"
        /\ worker[w].result = "ok"
        /\ m \in Postable
        /\ ~AccountsLocked
        /\ worker' = [worker EXCEPT
              ![w].pc = "posted",
              ![w].row = MarkJobSucceeded(@),
              ![w].writes = IF m \in ledger THEN @ \union {"ledger"} ELSE @]
        /\ UNCHANGED <<due, faults, tables, paid, sched, admin>>

(* completeSuccess up to MarkSucceeded of the job.  A group that is        *)
(* already there is returned as it is; otherwise the lines are checked     *)
(* and written under the account locks.                                    *)
PostSettlement(w) ==
    LET m == worker[w].job
    IN  /\ worker[w].pc = "executed"
        /\ worker[w].result = "ok"
        /\ m \in ledger \/ m \in Postable
        /\ m \in ledger \/ ~AccountsLocked
        /\ worker[w].row.status = "processing"
        /\ worker' = [worker EXCEPT
              ![w].pc = "posted",
              ![w].row = MarkJobSucceeded(@),
              ![w].writes = IF m \in ledger THEN @ ELSE @ \union {"ledger"}]
        /\ UNCHANGED <<due, faults, tables, paid, sched, admin>>

(* Mutant: a posting error is handled like a payout failure.               *)
PostingErrorDeadLetters(w) ==
    /\ worker[w].pc = "executed"
    /\ worker[w].result = "ok"
    /\ worker[w].job \notin ledger \union Postable
    /\ worker' = [worker EXCEPT ![w].pc = "ready",
                                ![w].result = "terminal",
                                ![w].row.status = "dead_letter"]
    /\ UNCHANGED <<due, faults, tables, paid, sched, admin>>

(* validateBalanced refuses a line that is not positive: ProcessOne        *)
(* returns the error and the transaction, attempt row included, is gone.   *)
PostingRejected(w) ==
    /\ worker[w].pc = "executed"
    /\ worker[w].result = "ok"
    /\ worker[w].job \notin ledger \union Postable
    /\ worker' = [worker EXCEPT ![w] = IdleWorker]
    /\ UNCHANGED <<due, faults, tables, paid, sched, admin>>

(* Mutant: the maturity is not closed with its job.                        *)
MaturityLeftOpen(w) ==
    /\ worker[w].pc = "posted"
    /\ worker' = [worker EXCEPT ![w].pc = "ready"]
    /\ UNCHANGED <<due, faults, tables, paid, sched, admin>>

(* Maturities.MarkSettled waits for a tick that holds the maturity row.    *)
MarkSettled(w) ==
    LET m == worker[w].job
    IN  /\ worker[w].pc = "posted"
        /\ ~MaturityLocked(m)
        /\ m \notin settled
        /\ worker' = [worker EXCEPT ![w].pc = "ready",
                                    ![w].writes = @ \union {"maturity"}]
        /\ UNCHANGED <<due, faults, tables, paid, sched, admin>>

(* Mutant: the budget comparison is off by one.                            *)
OneRetryTooMany(row, result) ==
    result = "terminal" \/ row.retry + 1 > MaxRetries

(* The branch condition of handleFailure.                                  *)
GiveUp(row, result) == result = "terminal" \/ row.retry + 1 >= MaxRetries

(* handleFailure: the attempt fails; the job is dead-lettered when the     *)
(* error is terminal or the retry budget is used up, and otherwise waits   *)
(* for its next retry.                                                     *)
HandleFailure(w) ==
    LET row == worker[w].row
    IN  /\ worker[w].pc = "executed"
        /\ worker[w].result # "ok"
        /\ row.status = "processing"
        /\ worker' = [worker EXCEPT
              ![w].pc = "ready",
              ![w].row = IF GiveUp(row, worker[w].result)
                         THEN MarkJobDeadLetter(row)
                         ELSE MarkJobFailedRetryable(row)]
        /\ UNCHANGED <<due, faults, tables, paid, sched, admin>>

(* The attempt's row, with what the gateway answered.                      *)
FinishPayoutAttempt(history, result) == Append(history, result)

(* WithTx commits: every write becomes visible at once.                    *)
WorkerCommit(w) ==
    LET tx == worker[w]
        m == tx.job
    IN  /\ tx.pc = "ready"
        /\ job' = [job EXCEPT ![m] = tx.row]
        /\ attempts' = [attempts EXCEPT ![m] = FinishPayoutAttempt(@, tx.result)]
        /\ ledger' = IF "ledger" \in tx.writes THEN ledger \union {m}
                                               ELSE ledger
        /\ settled' = IF "maturity" \in tx.writes THEN settled \union {m}
                                                  ELSE settled
        /\ worker' = [worker EXCEPT ![w] = IdleWorker]
        /\ UNCHANGED <<due, faults, paid, sched, admin>>

(* Mutant: the claim was committed on its own before the payout.           *)
ClaimSurvives(w) ==
    /\ faults = "possible"
    /\ worker[w].pc # "idle"
    /\ job' = [job EXCEPT ![worker[w].job].status = "processing"]
    /\ worker' = [worker EXCEPT ![w] = IdleWorker]
    /\ UNCHANGED <<due, faults, attempts, ledger, settled, paid, sched, admin>>

(* A cancelled context, a lost connection or a crash before the commit.    *)
WorkerRollback(w) ==
    /\ faults = "possible"
    /\ worker[w].pc # "idle"
    /\ worker' = [worker EXCEPT ![w] = IdleWorker]
    /\ UNCHANGED <<due, faults, tables, paid, sched, admin>>

-----------------------------------------------------------------------------
(* Admin: ReplayDeadLetter and RequeueFailed.                              *)

StatusFor(op) == IF op = "replay" THEN "dead_letter" ELSE "failed"

(* GetByID reads the committed row without locking it.                     *)
AdminCheck(a, op, m) ==
    /\ admin[a].pc = "idle"
    /\ job[m].status = StatusFor(op)
    /\ op = "replay" => Len(attempts[m]) < MaxAttempts
    /\ admin' = [admin EXCEPT ![a] = [pc |-> "checked", op |-> op, job |-> m]]
    /\ UNCHANGED <<due, faults, tables, paid, worker, sched>>

(* Mutant: the status read by AdminCheck is trusted.                       *)
StaleCheckTrusted(a) ==
    /\ admin[a].pc = "checked"
    /\ ~JobLocked(admin[a].job)
    /\ admin' = [admin EXCEPT ![a].pc = "updated"]
    /\ UNCHANGED <<due, faults, tables, paid, worker, sched>>

(* The UPDATE waits for the row lock and then tests the status again.      *)
AdminUpdate(a) ==
    LET m == admin[a].job
    IN  /\ admin[a].pc = "checked"
        /\ ~JobLocked(m)
        /\ job[m].status = StatusFor(admin[a].op)
        /\ admin' = [admin EXCEPT ![a].pc = "updated"]
        /\ UNCHANGED <<due, faults, tables, paid, worker, sched>>

(* No row matched: ErrConflict, and the transaction is rolled back.        *)
AdminConflict(a) ==
    LET m == admin[a].job
    IN  /\ admin[a].pc = "checked"
        /\ ~JobLocked(m)
        /\ job[m].status # StatusFor(admin[a].op)
        /\ admin' = [admin EXCEPT ![a] = IdleAdmin]
        /\ UNCHANGED <<due, faults, tables, paid, worker, sched>>

AdminCommit(a) ==
    LET m == admin[a].job
    IN  /\ admin[a].pc = "updated"
        /\ job' = [job EXCEPT ![m] = BackToPending(@)]
        /\ admin' = [admin EXCEPT ![a] = IdleAdmin]
        /\ UNCHANGED <<due, faults, attempts, ledger, settled, paid,
                       worker, sched>>

AdminRollback(a) ==
    /\ faults = "possible"
    /\ admin[a].pc # "idle"
    /\ admin' = [admin EXCEPT ![a] = IdleAdmin]
    /\ UNCHANGED <<due, faults, tables, paid, worker, sched>>

-----------------------------------------------------------------------------
TimeNext == \E m \in Maturities : MaturityComesDue(m) \/ BackoffElapses(m)

SchedNext(s) ==
    \/ ListDue(s)
    \/ EnqueueDue(s)
    \/ EnqueueFails(s)
    \/ TickCommit(s)
    \/ ExpireStaleLeases(s)
    \/ ReapCommit(s)
    \/ SchedRollback(s)

WorkerNext(w) ==
    \/ \E m \in Maturities : Claim(w, m)
    \/ Execute(w)
    \/ PostSettlement(w)
    \/ PostingRejected(w)
    \/ MarkSettled(w)
    \/ HandleFailure(w)
    \/ WorkerCommit(w)
    \/ WorkerRollback(w)

AdminNext(a) ==
    \/ \E op \in AdminOps, m \in Maturities : AdminCheck(a, op, m)
    \/ AdminUpdate(a)
    \/ AdminConflict(a)
    \/ AdminCommit(a)
    \/ AdminRollback(a)

Next ==
    \/ TimeNext
    \/ FaultsCease
    \/ \E s \in Schedulers : SchedNext(s)
    \/ \E w \in Workers : WorkerNext(w)
    \/ \E a \in Admins : AdminNext(a)

Spec == Init /\ [][Next]_vars

(***************************************************************************)
(* Fairness.  Time passes, tickers fire, a transaction takes its next step *)
(* when it can, and faults cease at some point.  Strong fairness where two *)
(* claimants alternate: the tick shares its goroutine with the reaper (Go  *)
(* selects among ready channels at random), and a waiter for a row lock    *)
(* is not overtaken for ever (Postgres queues them).  Admin requests and   *)
(* the reaper are never owed.                                              *)
(***************************************************************************)
Fairness ==
    /\ WF_vars(FaultsCease)
    /\ \A m \in Maturities : WF_vars(MaturityComesDue(m))
                          /\ WF_vars(BackoffElapses(m))
    /\ \A s \in Schedulers :
          /\ SF_vars(ListDue(s))
          /\ WF_vars(EnqueueDue(s) \/ EnqueueFails(s))
          /\ WF_vars(TickCommit(s))
          /\ WF_vars(ReapCommit(s))
    /\ \A w \in Workers :
          /\ WF_vars(\E m \in Maturities : Claim(w, m))
          /\ WF_vars(Execute(w))
          /\ SF_vars(PostSettlement(w) \/ PostingRejected(w))
          /\ SF_vars(MarkSettled(w))
          /\ WF_vars(HandleFailure(w))
          /\ WF_vars(WorkerCommit(w))
    /\ \A a \in Admins : WF_vars(AdminCommit(a))

FairSpec == Spec /\ Fairness

-----------------------------------------------------------------------------
(* Safety.                                                                 *)

Payments(m) == {i \in DOMAIN attempts[m] : attempts[m][i] = "ok"}

(* The four tables tell the same story: a job is 'succeeded' exactly when  *)
(* its ledger group exists, its maturity is settled, and its last payout   *)
(* attempt, and no other, succeeded (completeSuccess in one transaction).  *)
BooksAgree ==
    \A m \in Maturities :
        /\ job[m].status = "succeeded" <=> m \in ledger
        /\ job[m].status = "succeeded" <=> m \in settled
        /\ Payments(m) = IF job[m].status = "succeeded"
                         THEN {Len(attempts[m])} ELSE {}

(* Two workers never process the same job, and a job in process is, for    *)
(* everyone else, still the claimable row it was: its status, its retry    *)
(* budget and its attempt history do not move under the worker's feet      *)
(* (ClaimSettlementJob's FOR UPDATE SKIP LOCKED, held to the commit).      *)
ClaimSound ==
    \A w \in Workers : worker[w].pc # "idle" =>
        LET m == worker[w].job
        IN  /\ \A v \in Workers \ {w} : worker[v].job # m
            /\ \A a \in Admins : admin[a].job = m => admin[a].pc # "updated"
            /\ job[m].status \in {"pending", "failed"}
            /\ job[m].next # "waiting"
            /\ worker[w].attempt = Len(attempts[m]) + 1
            /\ worker[w].pc # "ready" => worker[w].row.retry = job[m].retry

(* A job the gateway has paid is never given up or charged another         *)
(* failure, however often the worker dies between the payout and its       *)
(* commit: the attempt number is rolled back with the rest, so the retry   *)
(* asks the gateway the same question and gets the same answer.            *)
PaidIsNotGivenUp ==
    \A m \in paid :
        /\ job[m].status \in {"pending", "failed", "succeeded"}
        /\ job[m].status # "succeeded" =>
              GatewayResult(m, Len(attempts[m]) + 1) = "ok"

(* A posting that validateBalanced refuses after the payout settles        *)
(* nothing, in part or in whole, however often the job is claimed, paid    *)
(* and rolled back; and it is not taken for a failure of the payout: a job *)
(* whose payouts succeed is not charged a retry or dead-lettered for it    *)
(* (completeSuccess returns the error out of WithTx).                      *)
RefusedPostingSettlesNothing ==
    \A m \in Maturities \ Postable :
        /\ m \notin ledger \union settled
        /\ Profile[m] = "success" => job[m].status \in {"absent", "pending"}

(* A retry is scheduled only while the budget lasts (handleFailure), and   *)
(* neither replay nor requeue lets a job exceed it.                        *)
RetryBudget ==
    \A m \in Maturities :
        /\ job[m].retry > 0 => job[m].retry < MaxRetries
        /\ job[m].status = "failed" => job[m].retry > 0
        /\ job[m].next # "null" => job[m].retry > 0

(* Concurrent ticks never insert a job for the same maturity, and none     *)
(* inserts one that exists: the unique violation CreateIdempotent          *)
(* recovers from, which would abort the tick's transaction, cannot arise.  *)
TicksDisjoint ==
    \A s \in Schedulers : \A m \in sched[s].created :
        /\ job[m].status = "absent"
        /\ \A t \in Schedulers \ {s} : m \notin sched[t].created

(* No committed row is 'processing': a worker that dies leaves nothing     *)
(* behind, and the reaper finds nothing to expire.                         *)
NothingStranded ==
    /\ \A m \in Maturities : job[m].status # "processing"
    /\ \A s \in Schedulers : sched[s].leases = {}

-----------------------------------------------------------------------------
(* Action properties.                                                      *)

(* A settled job stays settled, with its amounts, history and ledger       *)
(* group: no replay or requeue that read an older status brings it back.   *)
SettledIsFinal ==
    [][\A m \in Maturities : job[m].status = "succeeded" =>
          /\ job'[m].status = "succeeded"
          /\ attempts'[m] = attempts[m]
          /\ m \in ledger' /\ m \in settled']_vars

(* Dead-lettered jobs re-enter the queue only by an admin replay, and with *)
(* the retry budget they had.                                              *)
DeadLetterNeedsReplay ==
    [][\A m \in Maturities :
          job[m].status = "dead_letter" /\ job'[m].status # "dead_letter" =>
             /\ job'[m].status = "pending"
             /\ job'[m].retry = job[m].retry
             /\ \E a \in Admins : /\ admin[a].pc = "updated"
                                  /\ admin[a].op = "replay"
                                  /\ admin[a].job = m]_vars

-----------------------------------------------------------------------------
(* Liveness, under FairSpec.                                               *)

(* Every maturity is enqueued once it is due.                              *)
DueIsEnqueued ==
    \A m \in Maturities : m \in due ~> job[m].status # "absent"

(* Every job is decided: settled, or dead-lettered.                        *)
JobIsDecided ==
    \A m \in Maturities :
        job[m].status = "pending"
            ~> job[m].status \in {"succeeded", "dead_letter"}

(* A payout the gateway has made ends up in the ledger.                    *)
PaidIsPosted == \A m \in Maturities : m \in paid ~> m \in ledger

-----------------------------------------------------------------------------
(* The inductive invariant: what each open transaction knows about the     *)
(* committed tables, which its row locks keep true until it ends.          *)

(* The row image of a transaction that has recorded a failure.             *)
FailedRow(m, result) ==
    IF GiveUp(job[m], result) THEN MarkJobDeadLetter(job[m])
                              ELSE MarkJobFailedRetryable(job[m])

(* An open worker transaction holds the only lock on its job, started the  *)
(* next attempt, and carries the image of the row its program counter      *)
(* says it should.                                                         *)
WorkerKnows(w) ==
    LET tx == worker[w]
        m == tx.job
    IN  /\ m \in Maturities
        /\ job[m].status \in {"pending", "failed"}
        /\ job[m].next # "waiting"
        /\ tx.attempt = Len(attempts[m]) + 1
        /\ tx.pc \in {"claimed", "executed"} =>
              /\ tx.row = ClaimSettlementJob(job[m])
              /\ tx.writes = {}
        /\ tx.pc # "claimed" => tx.result = GatewayResult(m, tx.attempt)
        /\ tx.pc # "claimed" /\ tx.result = "ok" => m \in paid
        /\ tx.pc = "posted" => /\ tx.result = "ok"
                               /\ tx.row = MarkJobSucceeded(job[m])
                               /\ tx.writes = {"ledger"}
                               /\ m \in Postable
        /\ tx.pc = "ready" /\ tx.result = "ok" =>
              /\ tx.row = MarkJobSucceeded(job[m])
              /\ tx.writes = {"ledger", "maturity"}
              /\ m \in Postable
        /\ tx.pc = "ready" /\ tx.result # "ok" =>
              /\ tx.row = FailedRow(m, tx.result)
              /\ tx.writes = {}

WorkersInv ==
    \A w \in Workers :
        /\ worker[w].pc = "idle" => worker[w] = IdleWorker
        /\ worker[w].pc # "idle" => WorkerKnows(w)

SchedsInv ==
    \A s \in Schedulers :
        /\ sched[s].leases = {}
        /\ sched[s].created \subseteq sched[s].rows
        /\ \A m \in sched[s].created : job[m].status = "absent"

AdminsInv ==
    \A a \in Admins :
        /\ admin[a].pc = "idle" => admin[a] = IdleAdmin
        /\ admin[a].pc # "idle" =>
              admin[a].job \in Maturities /\ admin[a].op \in AdminOps
        /\ admin[a].pc = "updated" =>
              job[admin[a].job].status = StatusFor(admin[a].op)

(* Row locks exclude each other.                                           *)
LocksInv ==
    /\ \A v, w \in Workers :
          v # w /\ worker[v].pc # "idle" => worker[v].job # worker[w].job
    /\ \A a \in Admins, w \in Workers :
          admin[a].pc = "updated" => worker[w].job # admin[a].job
    /\ \A a, b \in Admins :
          a # b /\ admin[a].pc = "updated" /\ admin[b].pc = "updated"
             => admin[a].job # admin[b].job
    /\ \A s, t \in Schedulers :
          s # t => sched[s].rows \intersect sched[t].rows = {}

TablesInv ==
    /\ BooksAgree
    /\ RetryBudget
    /\ PaidIsNotGivenUp
    /\ \A m \in Maturities :
          /\ job[m].status # "processing"
          /\ job[m].status = "absent" => job[m] = AbsentRow

(* The inductive invariant of the engine's committed tables and of the     *)
(* transactions that WithTx keeps open on them.                            *)
IInv == TypeOK /\ WorkersInv /\ SchedsInv /\ AdminsInv /\ LocksInv /\ TablesInv

-----------------------------------------------------------------------------
(* Refinement: pending and failed are both "open" to an observer of the    *)
(* lifecycle, and only committed rows are observed.                        *)

PhaseOf(status) ==
    IF status = "absent" THEN "unknown"
    ELSE IF status \in {"succeeded", "dead_letter"} THEN status
    ELSE "open"

Lifecycle == INSTANCE SettlementLifecycle WITH
    phase <- [m \in Maturities |-> PhaseOf(job[m].status)],
    failures <- [m \in Maturities |-> job[m].retry],
    posted <- ledger,
    closed <- settled

(* The engine implements SettlementLifecycle.                              *)
LifecycleSpec == Lifecycle!Spec
=============================================================================
