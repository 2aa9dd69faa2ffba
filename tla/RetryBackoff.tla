----------------------------- MODULE RetryBackoff -----------------------------
(***************************************************************************)
(* Retry timing.  SettlementEngine only knows that a failed job waits and  *)
(* then no longer does; here the wait is computed, stored and compared     *)
(* with clocks.                                                            *)
(*                                                                         *)
(* next_retry_at is time.Now() of the instance that saw the failure, plus  *)
(* a delay in int64 arithmetic; the claim compares it with now() of the    *)
(* database, which is the start of the claiming transaction.  Instances'   *)
(* clocks differ from the database's by at most Skew.  Times and delays    *)
(* count in one unit, the database's resolution.                           *)
(***************************************************************************)
EXTENDS Integers

CONSTANTS
    Jobs, Workers,
    NoJob,          \* "no job" in a worker
    Null,           \* SQL NULL
    BaseDelay,      \* Policy.BaseDelay, from RETRY_BASE_DELAY
    MaxDelay,       \* Policy.MaxDelay, from RETRY_MAX_DELAY
    DefaultBase,    \* 5 s
    DefaultCap,     \* 15 min
    JitterBound,    \* 1 s
    MaxShift,       \* 30
    MaxInt,         \* largest value of time.Duration
    MaxRetries,     \* settlement_jobs.max_retries
    Skew,           \* bound on |instance clock - database clock|
    MaxTime         \* bound: the clock stops here

ASSUME NoJobAssumption == NoJob \notin Jobs
ASSUME NullAssumption == Null \notin Int
ASSUME DelayAssumption ==
    /\ BaseDelay \in Int /\ MaxDelay \in Int
    /\ DefaultBase \in Nat \ {0} /\ DefaultCap \in Nat \ {0}
    /\ JitterBound \in Nat \ {0}
    /\ MaxShift \in Nat /\ MaxInt \in Nat /\ MaxRetries \in Nat
    /\ BaseDelay <= MaxInt /\ MaxDelay <= MaxInt
    /\ DefaultBase <= MaxInt /\ DefaultCap <= MaxInt
ASSUME ClockAssumption == Skew \in Nat /\ MaxTime \in Nat

VARIABLES
    clock,      \* the database's clock
    job,        \* committed rows
    tx          \* each worker's open transaction

vars == <<clock, job, tx>>

-----------------------------------------------------------------------------
(* The policy.                                                             *)

(* Two's complement addition and multiplication.                           *)
Wrap(x) == ((x + MaxInt + 1) % (2 * (MaxInt + 1))) - (MaxInt + 1)

Base == IF BaseDelay <= 0 THEN DefaultBase ELSE BaseDelay
Cap == IF MaxDelay <= 0 THEN DefaultCap ELSE MaxDelay

Shift(retryCount) == IF retryCount > MaxShift THEN MaxShift ELSE retryCount

(* Mutant: the product is not compared with the cap.                       *)
Uncapped(retryCount) == Wrap(Base * 2^Shift(retryCount))

(* Mutant: linear backoff from zero.                                       *)
Linear(retryCount) == LET product == Wrap(Base * Shift(retryCount))
                      IN  IF product > Cap THEN Cap ELSE product

(* The delay of NextRetryAt before the jitter.                             *)
Delay(retryCount) == LET product == Wrap(Base * 2^Shift(retryCount))
                     IN  IF product > Cap THEN Cap ELSE product

NextRetryAt(retryCount, now, jitter) == now + Wrap(Delay(retryCount) + jitter)

-----------------------------------------------------------------------------
(* Rows and transactions.                                                  *)

(* at: the database's time when the failure of a failed job was handled,   *)
(* for the properties to speak of; the code does not store it.             *)
Rows == [status : {"pending", "failed", "succeeded", "dead_letter"},
         retry : Nat, next : Int \union {Null}, at : Nat]

FreshRow == [status |-> "pending", retry |-> 0, next |-> Null, at |-> 0]

TxStates == [pc : {"idle", "begun", "claimed", "done"},
             now : Nat,                      \* now() of the transaction
             job : Jobs \union {NoJob},      \* the row it has locked
             row : Rows]                     \* its own image of that row

IdleTx == [pc |-> "idle", now |-> 0, job |-> NoJob, row |-> FreshRow]

TypeOK ==
    /\ clock \in Nat
    /\ job \in [Jobs -> Rows]
    /\ tx \in [Workers -> TxStates]

Init ==
    /\ clock = 0
    /\ job = [j \in Jobs |-> FreshRow]
    /\ tx = [w \in Workers |-> IdleTx]

Locked(j) == \E w \in Workers : tx[w].job = j

Tick ==
    /\ clock < MaxTime
    /\ clock' = clock + 1
    /\ UNCHANGED <<job, tx>>

-----------------------------------------------------------------------------
(* Workers.                                                                *)

Begin(w) ==
    /\ tx[w].pc = "idle"
    /\ tx' = [tx EXCEPT ![w] = [IdleTx EXCEPT !.pc = "begun", !.now = clock]]
    /\ UNCHANGED <<clock, job>>

(* The WHERE clause of ClaimSettlementJob.                                 *)
Due(j, now) ==
    /\ job[j].status \in {"pending", "failed"}
    /\ job[j].next # Null => job[j].next <= now

(* ORDER BY next_retry_at ASC NULLS FIRST; created_at is not kept here.    *)
Before(i, j) ==
    /\ job[j].next # Null
    /\ job[i].next # Null => job[i].next < job[j].next

Claim(w, j) ==
    /\ tx[w].pc = "begun"
    /\ Due(j, tx[w].now) /\ ~Locked(j)
    /\ \A i \in Jobs : Due(i, tx[w].now) /\ ~Locked(i) => ~Before(i, j)
    /\ tx' = [tx EXCEPT ![w].pc = "claimed", ![w].job = j, ![w].row = job[j]]
    /\ UNCHANGED <<clock, job>>

(* ErrNoJobAvailable.                                                      *)
NoJobAvailable(w) ==
    /\ tx[w].pc = "begun"
    /\ \A j \in Jobs : Due(j, tx[w].now) => Locked(j)
    /\ tx' = [tx EXCEPT ![w] = IdleTx]
    /\ UNCHANGED <<clock, job>>

(* handleFailure, for a transient error within the budget.                 *)
ScheduleRetry(w) ==
    LET row == tx[w].row
    IN  /\ tx[w].pc = "claimed"
        /\ row.retry + 1 < MaxRetries
        /\ \E offset \in -Skew..Skew, jitter \in 0..(JitterBound - 1) :
              tx' = [tx EXCEPT ![w].pc = "done", ![w].row =
                       [status |-> "failed", retry |-> row.retry + 1,
                        next |-> NextRetryAt(row.retry, clock + offset, jitter),
                        at |-> clock]]
        /\ UNCHANGED <<clock, job>>

(* handleFailure, for a terminal error or the last transient one, and      *)
(* completeSuccess: both leave the retry columns alone.                    *)
Decide(w, status) ==
    /\ tx[w].pc = "claimed"
    /\ tx' = [tx EXCEPT ![w].pc = "done", ![w].row.status = status,
                        ![w].row.at = 0]
    /\ UNCHANGED <<clock, job>>

Commit(w) ==
    /\ tx[w].pc = "done"
    /\ job' = [job EXCEPT ![tx[w].job] = tx[w].row]
    /\ tx' = [tx EXCEPT ![w] = IdleTx]
    /\ UNCHANGED clock

Rollback(w) ==
    /\ tx[w].pc # "idle"
    /\ tx' = [tx EXCEPT ![w] = IdleTx]
    /\ UNCHANGED <<clock, job>>

(* ReplayDeadLetterJob and RequeueFailedJob.                               *)
BackToPending(j) ==
    /\ ~Locked(j)
    /\ job[j].status \in {"failed", "dead_letter"}
    /\ job' = [job EXCEPT ![j].status = "pending", ![j].next = Null,
                          ![j].at = 0]
    /\ UNCHANGED <<clock, tx>>

-----------------------------------------------------------------------------
Next ==
    \/ Tick
    \/ \E w \in Workers :
          \/ Begin(w)
          \/ \E j \in Jobs : Claim(w, j)
          \/ NoJobAvailable(w)
          \/ ScheduleRetry(w)
          \/ \E status \in {"succeeded", "dead_letter"} : Decide(w, status)
          \/ Commit(w)
          \/ Rollback(w)
    \/ \E j \in Jobs : BackToPending(j)

Spec == Init /\ [][Next]_vars

-----------------------------------------------------------------------------
(* Properties.                                                             *)

(* The documented delay, and where int64 and the clamped shift allow it.   *)
Owed(retryCount) == LET product == Base * 2^retryCount
                    IN  IF product > Cap THEN Cap ELSE product

InRange(retryCount) ==
    /\ retryCount <= MaxShift
    /\ Base * 2^retryCount \in 0..MaxInt
    /\ Cap + (JitterBound - 1) <= MaxInt

(* No worker has a failed job in hand before the backoff its retry count   *)
(* calls for has passed, but for the clocks' disagreement: whichever       *)
(* instance wrote next_retry_at and however long before the claim its      *)
(* transaction began.  It holds as long as base * 2^retryCount fits        *)
(* (NextRetryAt); beyond that the product wraps and the job is claimed     *)
(* again at once.                                                          *)
BackoffRespected ==
    \A w \in Workers : tx[w].pc \in {"claimed", "done"} =>
        LET row == job[tx[w].job]
        IN  row.status = "failed" /\ InRange(row.retry - 1)
               => tx[w].now >= row.at + Owed(row.retry - 1) - Skew

(* No failed job is kept back for longer than the cap, the jitter and the  *)
(* clocks' disagreement, whatever its retry count and even if the product  *)
(* overflows: a transaction that begins later finds it due.                *)
WaitIsBounded ==
    \A j \in Jobs :
        /\ job[j].status = "failed"
        /\ clock >= job[j].at + Cap + (JitterBound - 1) + Skew
        => Due(j, clock)

-----------------------------------------------------------------------------
(* The inductive invariant.                                                *)

(* What NextRetryAt promises of the time it returns.                       *)
Scheduled(row) ==
    row.status = "failed" =>
        /\ row.retry > 0
        /\ row.next \in Int
        /\ row.next <= row.at + Skew + Cap + (JitterBound - 1)
        /\ InRange(row.retry - 1)
              => row.next >= row.at + Owed(row.retry - 1) - Skew

(* A worker holds the only lock on its job, whose row was due when its     *)
(* transaction began.                                                      *)
TxKnows(w) ==
    /\ tx[w].pc \in {"idle", "begun"} => tx[w].job = NoJob
    /\ tx[w].pc \in {"claimed", "done"} =>
          /\ tx[w].job \in Jobs
          /\ Due(tx[w].job, tx[w].now)
          /\ \A v \in Workers \ {w} : tx[v].job # tx[w].job
    /\ tx[w].pc = "claimed" => tx[w].row = job[tx[w].job]
    /\ tx[w].pc = "done" => Scheduled(tx[w].row)

(* The inductive invariant of the retry times that handleFailure stores    *)
(* and the claim compares.                                                 *)
IInv ==
    /\ TypeOK
    /\ \A j \in Jobs : Scheduled(job[j])
    /\ \A w \in Workers : TxKnows(w)
=============================================================================
