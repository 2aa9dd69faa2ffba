----------------------- MODULE SettlementEngineProofs -----------------------
(***************************************************************************)
(* Proofs about SettlementEngine, for any number of maturities, workers,   *)
(* schedulers and admin requests, any profiles and terms, and any retry    *)
(* budget.  IInv is inductive: one lemma per action shows that the action  *)
(* preserves it, conjunct by conjunct.                                     *)
(***************************************************************************)
EXTENDS SettlementEngine, TLAPS

(* Abbreviations inside actions.                                           *)
USE DEF CreateIdempotent, GetNextAttemptNumber, FinishPayoutAttempt

(* Every statement of settlement_jobs.sql turns a row into a row.          *)
LEMMA RowTypes ==
    /\ AbsentRow \in Rows
    /\ \A older \in SUBSET Maturities : CreateSettlementJob(older) \in Rows
    /\ \A row \in Rows :
          /\ ClaimSettlementJob(row) \in Rows
          /\ MarkJobSucceeded(row) \in Rows
          /\ MarkJobDeadLetter(row) \in Rows
          /\ MarkJobFailedRetryable(row) \in Rows
          /\ BackToPending(row) \in Rows
          /\ ExpireStaleProcessingJob(row) \in Rows
BY DEF Rows, Statuses, RetryTimes, AbsentRow, CreateSettlementJob, WithStatus,
       ClaimSettlementJob, MarkJobSucceeded, MarkJobDeadLetter,
       MarkJobFailedRetryable, BackToPending, ExpireStaleProcessingJob

(* The gateway always answers with one of the three outcomes.              *)
LEMMA GatewayAnswers ==
    ASSUME NEW m, NEW n
    PROVE  GatewayResult(m, n) \in Outcomes
BY DEF GatewayResult, Outcomes

(* Idle transactions are well typed.                                       *)
LEMMA IdleTypes ==
    /\ IdleWorker \in WorkerStates
    /\ IdleSched \in SchedStates
    /\ IdleAdmin \in AdminStates
BY RowTypes DEF IdleWorker, WorkerStates, IdleSched, SchedStates, IdleAdmin,
                AdminStates

(* Appending an outcome adds a payment exactly when the outcome is "ok".   *)
LEMMA PaymentsAppend ==
    ASSUME NEW s \in Seq(Outcomes), NEW e \in Outcomes,
           {i \in DOMAIN s : s[i] = "ok"} = {}
    PROVE  {i \in DOMAIN Append(s, e) : Append(s, e)[i] = "ok"}
              = IF e = "ok" THEN {Len(Append(s, e))} ELSE {}
<1>1. /\ Len(Append(s, e)) = Len(s) + 1 /\ Len(s) \in Nat
      /\ DOMAIN s = 1..Len(s)
      /\ DOMAIN Append(s, e) = 1..(Len(s) + 1)
      /\ Append(s, e)[Len(s) + 1] = e
      /\ \A i \in 1..Len(s) : Append(s, e)[i] = s[i]
    OBVIOUS
<1>2. \A i \in 1..(Len(s) + 1) : Append(s, e)[i] = "ok" <=> (i = Len(s) + 1 /\ e = "ok")
    BY <1>1
<1>3. QED
    BY <1>1, <1>2

(* What a worker knows about its job stays true while that job's committed *)
(* row and attempts stay as they are.                                      *)
LEMMA KnowledgeKept ==
    ASSUME NEW v \in Workers,
           WorkerKnows(v),
           worker'[v] = worker[v],
           job'[worker[v].job] = job[worker[v].job],
           attempts'[worker[v].job] = attempts[worker[v].job],
           paid \subseteq paid'
    PROVE  WorkerKnows(v)'
BY DEF WorkerKnows, FailedRow, GiveUp

(* The empty database, with nobody connected, satisfies the invariant.     *)
LEMMA InitIInv == Init => IInv
<1> SUFFICES ASSUME Init PROVE IInv
    OBVIOUS
<1> USE DEF Init
<1>1. TypeOK
    BY IdleTypes, RowTypes DEF TypeOK
<1>2. WorkersInv
    BY DEF WorkersInv, IdleWorker
<1>3. SchedsInv
    BY DEF SchedsInv, IdleSched
<1>4. AdminsInv
    BY DEF AdminsInv, IdleAdmin
<1>5. LocksInv
    BY DEF LocksInv, IdleWorker, IdleAdmin, IdleSched
<1>6. TablesInv
    BY DEF TablesInv, BooksAgree, Payments, RetryBudget, PaidIsNotGivenUp,
           AbsentRow
<1>7. QED
    BY <1>1, <1>2, <1>3, <1>4, <1>5, <1>6 DEF IInv

(* ListDue locks only maturity rows no other tick holds (SKIP LOCKED), so  *)
(* the batches of two ticks stay disjoint.                                 *)
LEMMA ListDueIInv ==
    ASSUME IInv, NEW s \in Schedulers, ListDue(s)
    PROVE  IInv'
<1> USE DEF IInv
<1>1. TypeOK'
    BY IdleTypes DEF ListDue, TypeOK, tables, SchedStates, IdleSched
<1>2. WorkersInv'
    BY KnowledgeKept DEF ListDue, WorkersInv, tables
<1>3. SchedsInv'
    BY DEF ListDue, SchedsInv, TypeOK, tables, SchedStates, IdleSched
<1>4. AdminsInv'
    BY DEF ListDue, AdminsInv, tables
<1>5. LocksInv'
    BY DEF ListDue, LocksInv, TypeOK, SchedStates, IdleSched, MaturityLocked
<1>6. TablesInv'
    BY DEF ListDue, TablesInv, BooksAgree, Payments, RetryBudget,
        PaidIsNotGivenUp, tables
<1>7. QED
    BY <1>1, <1>2, <1>3, <1>4, <1>5, <1>6

(* A tick creates jobs only for rows it has locked, and only where no job  *)
(* exists.                                                                 *)
LEMMA EnqueueDueIInv ==
    ASSUME IInv, NEW s \in Schedulers, EnqueueDue(s)
    PROVE  IInv'
<1> USE DEF IInv
<1>1. TypeOK'
    BY IdleTypes DEF EnqueueDue, TypeOK, tables, SchedStates
<1>2. WorkersInv'
    BY KnowledgeKept DEF EnqueueDue, WorkersInv, tables
<1>3. SchedsInv'
    BY DEF EnqueueDue, SchedsInv, TypeOK, tables, SchedStates
<1>4. AdminsInv'
    BY DEF EnqueueDue, AdminsInv, tables
<1>5. LocksInv'
    BY DEF EnqueueDue, LocksInv, TypeOK, SchedStates
<1>6. TablesInv'
    BY DEF EnqueueDue, TablesInv, BooksAgree, Payments, RetryBudget,
        PaidIsNotGivenUp, tables
<1>7. QED
    BY <1>1, <1>2, <1>3, <1>4, <1>5, <1>6

(* A failed tick gives up its locks and inserts nothing.                   *)
LEMMA EnqueueFailsIInv ==
    ASSUME IInv, NEW s \in Schedulers, EnqueueFails(s)
    PROVE  IInv'
<1> USE DEF IInv
<1>1. TypeOK'
    BY IdleTypes DEF EnqueueFails, TypeOK, tables
<1>2. WorkersInv'
    BY KnowledgeKept DEF EnqueueFails, WorkersInv, tables
<1>3. SchedsInv'
    BY DEF EnqueueFails, SchedsInv, TypeOK, tables, IdleSched
<1>4. AdminsInv'
    BY DEF EnqueueFails, AdminsInv, tables
<1>5. LocksInv'
    BY DEF EnqueueFails, LocksInv, TypeOK, IdleSched
<1>6. TablesInv'
    BY DEF EnqueueFails, TablesInv, BooksAgree, Payments, RetryBudget,
        PaidIsNotGivenUp, tables
<1>7. QED
    BY <1>1, <1>2, <1>3, <1>4, <1>5, <1>6

(* The reaper finds no committed processing row: its UPDATE matches        *)
(* nothing.                                                                *)
LEMMA ExpireStaleLeasesIInv ==
    ASSUME IInv, NEW s \in Schedulers, ExpireStaleLeases(s)
    PROVE  IInv'
<1> USE DEF IInv
<1>1. TypeOK'
  <2>1. PICK stale \in SUBSET Maturities :
           sched' = [sched EXCEPT ![s] =
              [IdleSched EXCEPT !.pc = "reap", !.leases = stale]]
      BY DEF ExpireStaleLeases
  <2>2. [IdleSched EXCEPT !.pc = "reap", !.leases = stale] \in SchedStates
      BY DEF IdleSched, SchedStates
  <2>3. QED
      BY <2>1, <2>2 DEF ExpireStaleLeases, TypeOK, tables
<1>2. WorkersInv'
    BY KnowledgeKept DEF ExpireStaleLeases, WorkersInv, tables
<1>3. SchedsInv'
    BY DEF ExpireStaleLeases, SchedsInv, TypeOK, tables, SchedStates,
        IdleSched, TablesInv
<1>4. AdminsInv'
    BY DEF ExpireStaleLeases, AdminsInv, tables
<1>5. LocksInv'
    BY DEF ExpireStaleLeases, LocksInv, TypeOK, SchedStates, IdleSched
<1>6. TablesInv'
    BY DEF ExpireStaleLeases, TablesInv, BooksAgree, Payments, RetryBudget,
        PaidIsNotGivenUp, tables
<1>7. QED
    BY <1>1, <1>2, <1>3, <1>4, <1>5, <1>6

(* Rolling a tick or a reaper pass back touches no table.                  *)
LEMMA SchedRollbackIInv ==
    ASSUME IInv, NEW s \in Schedulers, SchedRollback(s)
    PROVE  IInv'
<1> USE DEF IInv
<1>1. TypeOK'
    BY IdleTypes DEF SchedRollback, TypeOK, tables
<1>2. WorkersInv'
    BY KnowledgeKept DEF SchedRollback, WorkersInv, tables
<1>3. SchedsInv'
    BY DEF SchedRollback, SchedsInv, TypeOK, tables, IdleSched
<1>4. AdminsInv'
    BY DEF SchedRollback, AdminsInv, tables
<1>5. LocksInv'
    BY DEF SchedRollback, LocksInv, TypeOK, IdleSched
<1>6. TablesInv'
    BY DEF SchedRollback, TablesInv, BooksAgree, Payments, RetryBudget,
        PaidIsNotGivenUp, tables
<1>7. QED
    BY <1>1, <1>2, <1>3, <1>4, <1>5, <1>6

(* A claim takes a free, eligible row and starts the attempt after the     *)
(* last committed one.                                                     *)
LEMMA ClaimIInv ==
    ASSUME IInv, NEW w \in Workers, NEW m \in Maturities, Claim(w, m)
    PROVE  IInv'
<1> USE DEF IInv
<1>1. TypeOK'
  <2>1. [IdleWorker EXCEPT !.pc = "claimed", !.job = m,
            !.row = ClaimSettlementJob(job[m]),
            !.attempt = Len(attempts[m]) + 1] \in WorkerStates
    <3>1. ClaimSettlementJob(job[m]) \in Rows /\ Len(attempts[m]) + 1 \in Nat
        BY RowTypes DEF TypeOK
    <3>2. QED
        BY <3>1 DEF IdleWorker, WorkerStates
  <2>2. QED
      BY <2>1 DEF Claim, TypeOK, tables
<1>2. WorkersInv'
  <2> SUFFICES ASSUME NEW v \in Workers
               PROVE  /\ worker'[v].pc = "idle" => worker'[v] = IdleWorker
                      /\ worker'[v].pc # "idle" => WorkerKnows(v)'
      BY DEF WorkersInv
  <2>1. CASE v = w
      BY <2>1 DEF Claim, Claimable, TypeOK, IdleWorker, WorkerKnows, tables
  <2>2. CASE v # w
    <3>1. worker'[v] = worker[v] /\ UNCHANGED tables /\ paid \subseteq paid'
        BY <2>2 DEF Claim, TypeOK
    <3>2. QED
        BY <3>1, KnowledgeKept DEF WorkersInv, tables
  <2>3. QED
      BY <2>1, <2>2
<1>3. SchedsInv'
    BY DEF Claim, SchedsInv, tables
<1>4. AdminsInv'
    BY DEF Claim, AdminsInv, tables
<1>5. LocksInv'
    BY NoJobAssumption DEF Claim, LocksInv, TypeOK, IdleWorker, Claimable,
        JobLocked, WorkersInv
<1>6. TablesInv'
    BY DEF Claim, TablesInv, BooksAgree, Payments, RetryBudget,
        PaidIsNotGivenUp, tables
<1>7. QED
    BY <1>1, <1>2, <1>3, <1>4, <1>5, <1>6

(* The gateway's answer is a function of the job and the attempt number,   *)
(* so a payout is recorded only for a job that will be paid again if this  *)
(* transaction is lost.                                                    *)
LEMMA ExecuteIInv ==
    ASSUME IInv, NEW w \in Workers, Execute(w)
    PROVE  IInv'
<1> USE DEF IInv
<1>1. TypeOK'
  <2> DEFINE m == worker[w].job
             result == GatewayResult(m, worker[w].attempt)
  <2>1. m \in Maturities /\ result \in Outcomes /\ worker[w] \in WorkerStates
      BY GatewayAnswers DEF Execute, TypeOK, WorkersInv, WorkerKnows
  <2>2. worker' \in [Workers -> WorkerStates]
      BY <2>1 DEF Execute, TypeOK, WorkerStates
  <2>3. paid' \subseteq Maturities
      BY <2>1 DEF Execute, TypeOK
  <2>4. QED
      BY <2>2, <2>3 DEF Execute, TypeOK, tables
<1>2. WorkersInv'
  <2> SUFFICES ASSUME NEW v \in Workers
               PROVE  /\ worker'[v].pc = "idle" => worker'[v] = IdleWorker
                      /\ worker'[v].pc # "idle" => WorkerKnows(v)'
      BY DEF WorkersInv
  <2>1. CASE v = w
      BY <2>1 DEF Execute, TypeOK, WorkerStates, WorkersInv, WorkerKnows,
          tables
  <2>2. CASE v # w
    <3>1. worker'[v] = worker[v] /\ UNCHANGED tables /\ paid \subseteq paid'
        BY <2>2 DEF Execute, TypeOK
    <3>2. QED
        BY <3>1, KnowledgeKept DEF WorkersInv, tables
  <2>3. QED
      BY <2>1, <2>2
<1>3. SchedsInv'
    BY DEF Execute, SchedsInv, tables
<1>4. AdminsInv'
    BY DEF Execute, AdminsInv, tables
<1>5. LocksInv'
    BY NoJobAssumption DEF Execute, LocksInv, TypeOK, WorkerStates
<1>6. TablesInv'
    BY DEF Execute, TablesInv, BooksAgree, Payments, RetryBudget,
        PaidIsNotGivenUp, tables, WorkersInv, WorkerKnows
<1>7. QED
    BY <1>1, <1>2, <1>3, <1>4, <1>5, <1>6

(* A job in process is in no ledger group yet, so the posting is written.  *)
LEMMA PostSettlementIInv ==
    ASSUME IInv, NEW w \in Workers, PostSettlement(w)
    PROVE  IInv'
<1> USE DEF IInv
<1>1. TypeOK'
  <2>1. MarkJobSucceeded(worker[w].row) \in Rows
      BY RowTypes DEF TypeOK, WorkerStates
  <2>2. \A row \in Rows, writes \in SUBSET {"ledger", "maturity"} :
           [worker[w] EXCEPT !.pc = "posted", !.row = row, !.writes = writes]
              \in WorkerStates
      BY DEF TypeOK, WorkerStates
  <2>3. PICK writes \in SUBSET {"ledger", "maturity"} :
           worker' = [worker EXCEPT ![w] =
              [worker[w] EXCEPT !.pc = "posted",
                                !.row = MarkJobSucceeded(worker[w].row),
                                !.writes = writes]]
      BY DEF PostSettlement, TypeOK, WorkerStates
  <2>4. worker' \in [Workers -> WorkerStates]
      BY <2>1, <2>2, <2>3 DEF TypeOK
  <2>5. QED
      BY <2>4 DEF PostSettlement, TypeOK, tables
<1>2. WorkersInv'
  <2> SUFFICES ASSUME NEW v \in Workers
               PROVE  /\ worker'[v].pc = "idle" => worker'[v] = IdleWorker
                      /\ worker'[v].pc # "idle" => WorkerKnows(v)'
      BY DEF WorkersInv
  <2>1. CASE v = w
      BY <2>1 DEF PostSettlement, TypeOK, WorkerStates, WorkersInv,
          WorkerKnows, tables, TablesInv, BooksAgree, WithStatus,
          ClaimSettlementJob, MarkJobSucceeded, MarkJobDeadLetter,
          MarkJobFailedRetryable
  <2>2. CASE v # w
    <3>1. worker'[v] = worker[v] /\ UNCHANGED tables /\ paid \subseteq paid'
        BY <2>2 DEF PostSettlement, TypeOK
    <3>2. QED
        BY <3>1, KnowledgeKept DEF WorkersInv, tables
  <2>3. QED
      BY <2>1, <2>2
<1>3. SchedsInv'
    BY DEF PostSettlement, SchedsInv, tables
<1>4. AdminsInv'
    BY DEF PostSettlement, AdminsInv, tables
<1>5. LocksInv'
    BY NoJobAssumption DEF PostSettlement, LocksInv, TypeOK, WorkerStates
<1>6. TablesInv'
    BY DEF PostSettlement, TablesInv, BooksAgree, Payments, RetryBudget,
        PaidIsNotGivenUp, tables
<1>7. QED
    BY <1>1, <1>2, <1>3, <1>4, <1>5, <1>6

(* A rejected posting rolls the transaction back whole.                    *)
LEMMA PostingRejectedIInv ==
    ASSUME IInv, NEW w \in Workers, PostingRejected(w)
    PROVE  IInv'
<1> USE DEF IInv
<1>1. TypeOK'
    BY IdleTypes DEF PostingRejected, TypeOK, tables
<1>2. WorkersInv'
  <2> SUFFICES ASSUME NEW v \in Workers
               PROVE  /\ worker'[v].pc = "idle" => worker'[v] = IdleWorker
                      /\ worker'[v].pc # "idle" => WorkerKnows(v)'
      BY DEF WorkersInv
  <2>1. CASE v = w
      BY <2>1 DEF PostingRejected, TypeOK, IdleWorker
  <2>2. CASE v # w
    <3>1. worker'[v] = worker[v] /\ UNCHANGED tables /\ paid \subseteq paid'
        BY <2>2 DEF PostingRejected, TypeOK
    <3>2. QED
        BY <3>1, KnowledgeKept DEF WorkersInv, tables
  <2>3. QED
      BY <2>1, <2>2
<1>3. SchedsInv'
    BY DEF PostingRejected, SchedsInv, tables
<1>4. AdminsInv'
    BY DEF PostingRejected, AdminsInv, tables
<1>5. LocksInv'
    BY NoJobAssumption DEF PostingRejected, LocksInv, TypeOK, IdleWorker,
        WorkersInv, WorkerKnows, AdminsInv
<1>6. TablesInv'
    BY DEF PostingRejected, TablesInv, BooksAgree, Payments, RetryBudget,
        PaidIsNotGivenUp, tables
<1>7. QED
    BY <1>1, <1>2, <1>3, <1>4, <1>5, <1>6

(* Closing the maturity touches only the worker's own transaction.         *)
LEMMA MarkSettledIInv ==
    ASSUME IInv, NEW w \in Workers, MarkSettled(w)
    PROVE  IInv'
<1> USE DEF IInv
<1>1. TypeOK'
    BY IdleTypes DEF MarkSettled, TypeOK, tables, WorkerStates
<1>2. WorkersInv'
  <2> SUFFICES ASSUME NEW v \in Workers
               PROVE  /\ worker'[v].pc = "idle" => worker'[v] = IdleWorker
                      /\ worker'[v].pc # "idle" => WorkerKnows(v)'
      BY DEF WorkersInv
  <2>1. CASE v = w
      BY <2>1 DEF MarkSettled, TypeOK, WorkerStates, WorkersInv,
          WorkerKnows, tables
  <2>2. CASE v # w
    <3>1. worker'[v] = worker[v] /\ UNCHANGED tables /\ paid \subseteq paid'
        BY <2>2 DEF MarkSettled, TypeOK
    <3>2. QED
        BY <3>1, KnowledgeKept DEF WorkersInv, tables
  <2>3. QED
      BY <2>1, <2>2
<1>3. SchedsInv'
    BY DEF MarkSettled, SchedsInv, tables
<1>4. AdminsInv'
    BY DEF MarkSettled, AdminsInv, tables
<1>5. LocksInv'
    BY NoJobAssumption DEF MarkSettled, LocksInv, TypeOK, WorkerStates
<1>6. TablesInv'
    BY DEF MarkSettled, TablesInv, BooksAgree, Payments, RetryBudget,
        PaidIsNotGivenUp, tables
<1>7. QED
    BY <1>1, <1>2, <1>3, <1>4, <1>5, <1>6

(* The recorded failure is the one handleFailure computes from the         *)
(* committed row.                                                          *)
LEMMA HandleFailureIInv ==
    ASSUME IInv, NEW w \in Workers, HandleFailure(w)
    PROVE  IInv'
<1> USE DEF IInv
<1>1. TypeOK'
  <2>1. /\ MarkJobDeadLetter(worker[w].row) \in Rows
        /\ MarkJobFailedRetryable(worker[w].row) \in Rows
      BY RowTypes DEF TypeOK, WorkerStates
  <2>2. \A row \in Rows :
           [worker[w] EXCEPT !.pc = "ready", !.row = row] \in WorkerStates
      BY DEF TypeOK, WorkerStates
  <2>3. PICK row \in Rows :
           worker' = [worker EXCEPT ![w] =
              [worker[w] EXCEPT !.pc = "ready", !.row = row]]
      BY <2>1 DEF HandleFailure
  <2>4. worker' \in [Workers -> WorkerStates]
      BY <2>2, <2>3 DEF TypeOK
  <2>5. QED
      BY <2>4 DEF HandleFailure, TypeOK, tables
<1>2. WorkersInv'
  <2> SUFFICES ASSUME NEW v \in Workers
               PROVE  /\ worker'[v].pc = "idle" => worker'[v] = IdleWorker
                      /\ worker'[v].pc # "idle" => WorkerKnows(v)'
      BY DEF WorkersInv
  <2>1. CASE v = w
    <3>1. WorkerKnows(w) /\ worker[w].row = ClaimSettlementJob(job[worker[w].job])
        BY DEF HandleFailure, WorkersInv, WorkerKnows
    <3>2. /\ GiveUp(worker[w].row, worker[w].result)
                <=> GiveUp(job[worker[w].job], worker[w].result)
          /\ MarkJobDeadLetter(worker[w].row)
                = MarkJobDeadLetter(job[worker[w].job])
          /\ MarkJobFailedRetryable(worker[w].row)
                = MarkJobFailedRetryable(job[worker[w].job])
        BY <3>1 DEF GiveUp, WithStatus, ClaimSettlementJob, MarkJobDeadLetter,
                    MarkJobFailedRetryable
    <3>3. /\ worker'[w].pc = "ready" /\ worker'[w].job = worker[w].job
          /\ worker'[w].row = FailedRow(worker[w].job, worker[w].result)
          /\ worker'[w].result = worker[w].result
          /\ worker'[w].writes = worker[w].writes
          /\ worker'[w].attempt = worker[w].attempt
        BY <3>2 DEF HandleFailure, TypeOK, WorkerStates, FailedRow
    <3>4. UNCHANGED <<tables, paid>> /\ worker[w].pc = "executed"
             /\ worker[w].result # "ok"
        BY DEF HandleFailure
    <3>5. FailedRow(worker[w].job, worker[w].result)'
             = FailedRow(worker'[w].job, worker'[w].result)
        BY <3>3, <3>4 DEF FailedRow, GiveUp, tables
    <3>6. WorkerKnows(w)'
        BY <3>1, <3>3, <3>4 DEF WorkerKnows, FailedRow, GiveUp, tables
    <3>7. QED
        BY <2>1, <3>3, <3>6
  <2>2. CASE v # w
    <3>1. worker'[v] = worker[v] /\ UNCHANGED tables /\ paid \subseteq paid'
        BY <2>2 DEF HandleFailure, TypeOK
    <3>2. QED
        BY <3>1, KnowledgeKept DEF WorkersInv, tables
  <2>3. QED
      BY <2>1, <2>2
<1>3. SchedsInv'
    BY DEF HandleFailure, SchedsInv, tables
<1>4. AdminsInv'
    BY DEF HandleFailure, AdminsInv, tables
<1>5. LocksInv'
    BY NoJobAssumption DEF HandleFailure, LocksInv, TypeOK, WorkerStates
<1>6. TablesInv'
    BY DEF HandleFailure, TablesInv, BooksAgree, Payments, RetryBudget,
        PaidIsNotGivenUp, tables
<1>7. QED
    BY <1>1, <1>2, <1>3, <1>4, <1>5, <1>6

(* A worker that dies gives up its locks and changes no table.             *)
LEMMA WorkerRollbackIInv ==
    ASSUME IInv, NEW w \in Workers, WorkerRollback(w)
    PROVE  IInv'
<1> USE DEF IInv
<1>1. TypeOK'
    BY IdleTypes DEF WorkerRollback, TypeOK, tables
<1>2. WorkersInv'
  <2> SUFFICES ASSUME NEW v \in Workers
               PROVE  /\ worker'[v].pc = "idle" => worker'[v] = IdleWorker
                      /\ worker'[v].pc # "idle" => WorkerKnows(v)'
      BY DEF WorkersInv
  <2>1. CASE v = w
      BY <2>1 DEF WorkerRollback, TypeOK, IdleWorker
  <2>2. CASE v # w
    <3>1. worker'[v] = worker[v] /\ UNCHANGED tables /\ paid \subseteq paid'
        BY <2>2 DEF WorkerRollback, TypeOK
    <3>2. QED
        BY <3>1, KnowledgeKept DEF WorkersInv, tables
  <2>3. QED
      BY <2>1, <2>2
<1>3. SchedsInv'
    BY DEF WorkerRollback, SchedsInv, tables
<1>4. AdminsInv'
    BY DEF WorkerRollback, AdminsInv, tables
<1>5. LocksInv'
    BY NoJobAssumption DEF WorkerRollback, LocksInv, TypeOK, IdleWorker,
        WorkersInv, WorkerKnows, AdminsInv
<1>6. TablesInv'
    BY DEF WorkerRollback, TablesInv, BooksAgree, Payments, RetryBudget,
        PaidIsNotGivenUp, tables
<1>7. QED
    BY <1>1, <1>2, <1>3, <1>4, <1>5, <1>6

(* A read without a lock promises nothing about the row.                   *)
LEMMA AdminCheckIInv ==
    ASSUME IInv, NEW a \in Admins, NEW op \in AdminOps, NEW m \in
    Maturities, AdminCheck(a, op, m)
    PROVE  IInv'
<1> USE DEF IInv
<1>1. TypeOK'
    BY IdleTypes DEF AdminCheck, TypeOK, tables, AdminStates
<1>2. WorkersInv'
    BY KnowledgeKept DEF AdminCheck, WorkersInv, tables
<1>3. SchedsInv'
    BY DEF AdminCheck, SchedsInv, tables
<1>4. AdminsInv'
    BY DEF AdminCheck, AdminsInv, TypeOK, tables, AdminStates
<1>5. LocksInv'
    BY DEF AdminCheck, LocksInv, TypeOK, AdminStates
<1>6. TablesInv'
    BY DEF AdminCheck, TablesInv, BooksAgree, Payments, RetryBudget,
        PaidIsNotGivenUp, tables
<1>7. QED
    BY <1>1, <1>2, <1>3, <1>4, <1>5, <1>6

(* An UPDATE takes a free row and has just seen its status.                *)
LEMMA AdminUpdateIInv ==
    ASSUME IInv, NEW a \in Admins, AdminUpdate(a)
    PROVE  IInv'
<1> USE DEF IInv
<1>1. TypeOK'
    BY IdleTypes DEF AdminUpdate, TypeOK, tables, AdminStates
<1>2. WorkersInv'
    BY KnowledgeKept DEF AdminUpdate, WorkersInv, tables
<1>3. SchedsInv'
    BY DEF AdminUpdate, SchedsInv, tables
<1>4. AdminsInv'
    BY DEF AdminUpdate, AdminsInv, TypeOK, tables, AdminStates
<1>5. LocksInv'
    BY DEF AdminUpdate, LocksInv, TypeOK, AdminStates, JobLocked
<1>6. TablesInv'
    BY DEF AdminUpdate, TablesInv, BooksAgree, Payments, RetryBudget,
        PaidIsNotGivenUp, tables
<1>7. QED
    BY <1>1, <1>2, <1>3, <1>4, <1>5, <1>6

(* A conflicting request ends without a trace.                             *)
LEMMA AdminConflictIInv ==
    ASSUME IInv, NEW a \in Admins, AdminConflict(a)
    PROVE  IInv'
<1> USE DEF IInv
<1>1. TypeOK'
    BY IdleTypes DEF AdminConflict, TypeOK, tables
<1>2. WorkersInv'
    BY KnowledgeKept DEF AdminConflict, WorkersInv, tables
<1>3. SchedsInv'
    BY DEF AdminConflict, SchedsInv, tables
<1>4. AdminsInv'
    BY DEF AdminConflict, AdminsInv, TypeOK, tables, IdleAdmin
<1>5. LocksInv'
    BY DEF AdminConflict, LocksInv, TypeOK, IdleAdmin
<1>6. TablesInv'
    BY DEF AdminConflict, TablesInv, BooksAgree, Payments, RetryBudget,
        PaidIsNotGivenUp, tables
<1>7. QED
    BY <1>1, <1>2, <1>3, <1>4, <1>5, <1>6

(* Rolling a request back touches no table.                                *)
LEMMA AdminRollbackIInv ==
    ASSUME IInv, NEW a \in Admins, AdminRollback(a)
    PROVE  IInv'
<1> USE DEF IInv
<1>1. TypeOK'
    BY IdleTypes DEF AdminRollback, TypeOK, tables
<1>2. WorkersInv'
    BY KnowledgeKept DEF AdminRollback, WorkersInv, tables
<1>3. SchedsInv'
    BY DEF AdminRollback, SchedsInv, tables
<1>4. AdminsInv'
    BY DEF AdminRollback, AdminsInv, TypeOK, tables, IdleAdmin
<1>5. LocksInv'
    BY DEF AdminRollback, LocksInv, TypeOK, IdleAdmin
<1>6. TablesInv'
    BY DEF AdminRollback, TablesInv, BooksAgree, Payments, RetryBudget,
        PaidIsNotGivenUp, tables
<1>7. QED
    BY <1>1, <1>2, <1>3, <1>4, <1>5, <1>6

(* The due date of a maturity and the end of the faults concern no         *)
(* transaction.                                                            *)
LEMMA ClockIInv ==
    ASSUME IInv, (\E m \in Maturities : MaturityComesDue(m)) \/ FaultsCease
    PROVE  IInv'
<1> USE DEF IInv, MaturityComesDue, FaultsCease, tables
<1>1. TypeOK'
    BY DEF TypeOK
<1>2. WorkersInv'
    BY KnowledgeKept DEF WorkersInv
<1>3. SchedsInv' /\ AdminsInv' /\ LocksInv'
    BY DEF SchedsInv, AdminsInv, LocksInv
<1>4. TablesInv'
    BY DEF TablesInv, BooksAgree, Payments, RetryBudget, PaidIsNotGivenUp
<1>5. QED
    BY <1>1, <1>2, <1>3, <1>4

(* A waiting row is locked by no worker, so the passing of its retry time  *)
(* disturbs nobody.                                                        *)
LEMMA BackoffElapsesIInv ==
    ASSUME IInv, NEW m \in Maturities, BackoffElapses(m)
    PROVE  IInv'
<1> USE DEF IInv
<1>0. /\ job'[m] = [status |-> job[m].status, retry |-> job[m].retry,
                    next |-> "elapsed", older |-> job[m].older]
      /\ job[m].next = "waiting"
      /\ \A k \in Maturities : k # m => job'[k] = job[k]
      /\ DOMAIN job' = Maturities
      /\ UNCHANGED <<due, faults, attempts, ledger, settled, paid, worker,
                     sched, admin>>
    BY DEF BackoffElapses, TypeOK
<1>1. TypeOK'
    BY <1>0 DEF BackoffElapses, TypeOK, Rows, RetryTimes
<1>2. WorkersInv'
  <2>1. \A v \in Workers : worker[v].pc # "idle" =>
           WorkerKnows(v) /\ worker[v].job \in Maturities /\ worker[v].job # m
      BY <1>0 DEF WorkersInv, WorkerKnows
  <2>2. QED
      BY <1>0, <2>1, KnowledgeKept DEF WorkersInv
<1>3. \A k \in Maturities : /\ job'[k].status = job[k].status
                            /\ job'[k].retry = job[k].retry
                            /\ job[k].status = "absent" => job'[k] = job[k]
    BY <1>0 DEF TablesInv, AbsentRow
<1>4. SchedsInv' /\ LocksInv'
    BY <1>0, <1>3 DEF SchedsInv, LocksInv, TypeOK, SchedStates
<1>5. AdminsInv'
    BY <1>0, <1>3 DEF AdminsInv
<1>6. TablesInv'
  <2>1. BooksAgree'
      BY <1>0, <1>3 DEF TablesInv, BooksAgree, Payments
  <2>2. RetryBudget'
      BY <1>0, <1>3 DEF TablesInv, RetryBudget
  <2>3. PaidIsNotGivenUp'
      BY <1>0, <1>3 DEF TablesInv, PaidIsNotGivenUp, TypeOK
  <2>4. QED
      BY <1>3, <2>1, <2>2, <2>3 DEF TablesInv
<1>7. QED
    BY <1>1, <1>2, <1>3, <1>4, <1>5, <1>6

(* The jobs a tick inserts were absent, hence claimed by nobody and locked *)
(* by no admin.                                                            *)
LEMMA TickCommitIInv ==
    ASSUME IInv, NEW s \in Schedulers, TickCommit(s)
    PROVE  IInv'
<1> USE DEF IInv
<1>0. /\ \A m \in Maturities : job'[m] = IF m \in sched[s].created
                                  THEN CreateSettlementJob(sched[s].older)
                                  ELSE job[m]
      /\ \A m \in sched[s].created : m \in Maturities /\ job[m] = AbsentRow
      /\ sched' = [sched EXCEPT ![s] = IdleSched]
      /\ UNCHANGED <<due, faults, attempts, ledger, settled, paid, worker, admin>>
    BY DEF TickCommit, SchedsInv, TablesInv, TypeOK, SchedStates
<1>1. TypeOK'
    BY <1>0, IdleTypes, RowTypes DEF TickCommit, TypeOK, SchedStates
<1>2. WorkersInv'
  <2>1. \A v \in Workers : worker[v].pc # "idle" =>
           /\ WorkerKnows(v) /\ worker[v].job \in Maturities
           /\ worker[v].job \notin sched[s].created
      BY <1>0 DEF WorkersInv, WorkerKnows, AbsentRow
  <2>2. QED
      BY <1>0, <2>1, KnowledgeKept DEF WorkersInv
<1>3. SchedsInv'
  <2>1. \A t \in Schedulers : t # s => \A m \in sched[t].created :
           m \in Maturities /\ m \notin sched[s].created
      BY DEF SchedsInv, LocksInv, TypeOK, SchedStates
  <2>2. QED
      BY <1>0, <2>1 DEF SchedsInv, TypeOK, IdleSched
<1>4. AdminsInv'
    BY <1>0 DEF AdminsInv, StatusFor, AbsentRow
<1>5. LocksInv'
    BY <1>0 DEF LocksInv, TypeOK, IdleSched
<1>6. TablesInv'
  <2>1. \A m \in Maturities :
           \/ job'[m] = job[m]
           \/ /\ job[m].status = "absent" /\ job'[m].status = "pending"
              /\ job'[m].retry = 0 /\ job'[m].next = "null"
      BY <1>0 DEF CreateSettlementJob, AbsentRow
  <2>2. BooksAgree'
      BY <1>0, <2>1 DEF TablesInv, BooksAgree, Payments
  <2>3. RetryBudget'
      BY <2>1 DEF TablesInv, RetryBudget
  <2>4. PaidIsNotGivenUp'
      BY <1>0, <2>1 DEF TablesInv, PaidIsNotGivenUp, TypeOK
  <2>5. QED
      BY <2>1, <2>2, <2>3, <2>4 DEF TablesInv
<1>7. QED
    BY <1>1, <1>2, <1>3, <1>4, <1>5, <1>6

(* With no lease to expire, the reaper's commit changes no row.            *)
LEMMA ReapCommitIInv ==
    ASSUME IInv, NEW s \in Schedulers, ReapCommit(s)
    PROVE  IInv'
<1> USE DEF IInv
<1>0. /\ job' = job
      /\ sched' = [sched EXCEPT ![s] = IdleSched]
      /\ UNCHANGED <<due, faults, attempts, ledger, settled, paid, worker, admin>>
    BY DEF ReapCommit, SchedsInv, TypeOK
<1>1. TypeOK'
    BY <1>0, IdleTypes DEF TypeOK
<1>2. WorkersInv'
    BY <1>0, KnowledgeKept DEF WorkersInv
<1>3. SchedsInv'
    BY <1>0 DEF SchedsInv, TypeOK, IdleSched
<1>4. AdminsInv'
    BY <1>0 DEF AdminsInv
<1>5. LocksInv'
    BY <1>0 DEF LocksInv, TypeOK, IdleSched
<1>6. TablesInv'
    BY <1>0 DEF TablesInv, BooksAgree, Payments, RetryBudget, PaidIsNotGivenUp
<1>7. QED
    BY <1>1, <1>2, <1>3, <1>4, <1>5, <1>6

(* The commit installs job, attempt, ledger group and maturity together,   *)
(* and nobody else had a claim on that job.                                *)
LEMMA WorkerCommitIInv ==
    ASSUME IInv, NEW w \in Workers, WorkerCommit(w)
    PROVE  IInv'
<1> USE DEF IInv
<1>m. PICK m \in Maturities : m = worker[w].job
    BY DEF WorkerCommit, WorkersInv, WorkerKnows
<1>r. PICK result \in Outcomes : result = worker[w].result
    BY <1>m, GatewayAnswers DEF WorkerCommit, WorkersInv, WorkerKnows
<1>0. /\ m = worker[w].job /\ result = worker[w].result
      /\ job[m].status \in {"pending", "failed"}
      /\ result = GatewayResult(m, Len(attempts[m]) + 1)
      /\ worker[w].row \in Rows
      /\ m \notin ledger /\ m \notin settled
      /\ Payments(m) = {}
    BY <1>m, <1>r DEF WorkerCommit, WorkersInv, WorkerKnows, TypeOK,
                      WorkerStates, TablesInv, BooksAgree
<1>1. TypeOK'
    BY <1>0, IdleTypes DEF WorkerCommit, TypeOK
<1>2. WorkersInv'
  <2> SUFFICES ASSUME NEW v \in Workers
               PROVE  /\ worker'[v].pc = "idle" => worker'[v] = IdleWorker
                      /\ worker'[v].pc # "idle" => WorkerKnows(v)'
      BY DEF WorkersInv
  <2>1. CASE v = w
      BY <2>1 DEF WorkerCommit, TypeOK, IdleWorker
  <2>2. CASE v # w
    <3>1. worker'[v] = worker[v] /\ paid' = paid
        BY <2>2 DEF WorkerCommit, TypeOK
    <3>2. CASE worker[v].pc = "idle"
        BY <3>1, <3>2 DEF WorkersInv
    <3>3. CASE worker[v].pc # "idle"
      <4>1. WorkerKnows(v) /\ worker[v].job \in Maturities /\ worker[v].job # m
          BY <1>0, <2>2, <3>3 DEF WorkersInv, WorkerKnows, LocksInv
      <4>2. /\ job'[worker[v].job] = job[worker[v].job]
            /\ attempts'[worker[v].job] = attempts[worker[v].job]
          BY <1>0, <4>1 DEF WorkerCommit, TypeOK
      <4>3. QED
          BY <3>1, <3>3, <4>1, <4>2, KnowledgeKept
    <3>4. QED
        BY <3>2, <3>3
  <2>3. QED
      BY <2>1, <2>2
<1>3. SchedsInv'
    BY <1>0 DEF WorkerCommit, SchedsInv, TypeOK, SchedStates
<1>4. AdminsInv'
    BY <1>0 DEF WorkerCommit, AdminsInv, LocksInv, TypeOK, AdminStates
<1>5. LocksInv'
  <2>1. \A v \in Workers : worker[v].pc # "idle" => worker[v].job \in Maturities
      BY DEF WorkersInv, WorkerKnows
  <2>2. \A a \in Admins : admin[a].pc = "updated" => admin[a].job \in Maturities
      BY DEF AdminsInv
  <2>3. /\ worker' = [worker EXCEPT ![w] = IdleWorker]
        /\ IdleWorker.job = NoJob /\ IdleWorker.pc = "idle"
        /\ UNCHANGED <<admin, sched>>
      BY DEF WorkerCommit, IdleWorker
  <2>4. QED
      BY <2>1, <2>2, <2>3, NoJobAssumption DEF LocksInv, TypeOK
<1>6. TablesInv'
  <2>1. /\ \A k \in Maturities : k # m =>
              job'[k] = job[k] /\ attempts'[k] = attempts[k]
        /\ job'[m] = worker[w].row
        /\ attempts'[m] = Append(attempts[m], result)
        /\ paid' = paid
      BY <1>0 DEF WorkerCommit, TypeOK
  <2>2. \A k \in Maturities : k # m =>
           (k \in ledger' <=> k \in ledger) /\ (k \in settled' <=> k \in settled)
      BY <1>0 DEF WorkerCommit
  <2>3. CASE result = "ok"
    <3>1. /\ job'[m] = MarkJobSucceeded(job[m])
          /\ m \in ledger' /\ m \in settled'
        BY <1>0, <2>1, <2>3 DEF WorkerCommit, WorkersInv, WorkerKnows
    <3>2. Payments(m)' = {Len(attempts'[m])}
      <4>1. attempts[m] \in Seq(Outcomes)
          BY <1>0 DEF TypeOK
      <4>2. Payments(m)' = {i \in DOMAIN attempts'[m] : attempts'[m][i] = "ok"}
          BY <1>0 DEF Payments
      <4>3. QED
          BY <1>0, <2>1, <2>3, <4>1, <4>2, PaymentsAppend DEF Payments
    <3>3. /\ job'[m].status = "succeeded"
          /\ job'[m].retry = job[m].retry /\ job'[m].next = job[m].next
        BY <3>1 DEF MarkJobSucceeded, WithStatus
    <3>4. BooksAgree'
        BY <2>1, <2>2, <3>1, <3>2, <3>3 DEF TablesInv, BooksAgree, Payments
    <3>5. RetryBudget'
        BY <2>1, <3>3 DEF TablesInv, RetryBudget
    <3>6. PaidIsNotGivenUp'
        BY <2>1, <3>3 DEF TablesInv, PaidIsNotGivenUp, TypeOK
    <3>7. QED
        BY <2>1, <3>3, <3>4, <3>5, <3>6 DEF TablesInv
  <2>4. CASE result # "ok"
    <3>1. /\ job'[m] = FailedRow(m, result)
          /\ m \notin ledger' /\ m \notin settled'
        BY <1>0, <2>1, <2>4 DEF WorkerCommit, WorkersInv, WorkerKnows
    <3>2. Payments(m)' = {}
      <4>1. attempts[m] \in Seq(Outcomes)
          BY <1>0 DEF TypeOK
      <4>2. Payments(m)' = {i \in DOMAIN attempts'[m] : attempts'[m][i] = "ok"}
          BY <1>0 DEF Payments
      <4>3. QED
          BY <1>0, <2>1, <2>4, <4>1, <4>2, PaymentsAppend DEF Payments
    <3>3. /\ job'[m].status \in {"failed", "dead_letter"}
          /\ job'[m].retry > 0 => job'[m].retry < MaxRetries
          /\ job'[m].status = "failed" => job'[m].retry > 0
          /\ job'[m].next # "null" => job'[m].retry > 0
        BY <1>0, <3>1, RetryAssumption
           DEF FailedRow, GiveUp, MarkJobDeadLetter, MarkJobFailedRetryable,
               WithStatus, TablesInv, RetryBudget, TypeOK, Rows
    <3>4. m \notin paid
        BY <1>0, <2>4 DEF TablesInv, PaidIsNotGivenUp
    <3>5. BooksAgree'
        BY <2>1, <2>2, <3>1, <3>2, <3>3 DEF TablesInv, BooksAgree, Payments
    <3>6. RetryBudget'
        BY <2>1, <3>3 DEF TablesInv, RetryBudget
    <3>7. PaidIsNotGivenUp'
        BY <2>1, <3>4 DEF TablesInv, PaidIsNotGivenUp, TypeOK
    <3>8. QED
        BY <2>1, <3>3, <3>5, <3>6, <3>7 DEF TablesInv
  <2>5. QED
      BY <2>3, <2>4
<1>7. QED
    BY <1>1, <1>2, <1>3, <1>4, <1>5, <1>6

(* A replayed or requeued row was locked by this request alone; it keeps   *)
(* its retry count, and a job the gateway has paid was never dead-         *)
(* lettered.                                                               *)
LEMMA AdminCommitIInv ==
    ASSUME IInv, NEW a \in Admins, AdminCommit(a)
    PROVE  IInv'
<1> DEFINE m == admin[a].job
<1> USE DEF IInv
<1>0. /\ m \in Maturities
      /\ job[m].status \in {"dead_letter", "failed"}
      /\ job' = [job EXCEPT ![m] = BackToPending(job[m])]
      /\ job'[m] = BackToPending(job[m])
      /\ \A k \in Maturities : k # m => job'[k] = job[k]
      /\ admin' = [admin EXCEPT ![a] = IdleAdmin]
      /\ UNCHANGED <<due, faults, attempts, ledger, settled, paid, worker, sched>>
    BY DEF AdminCommit, AdminsInv, StatusFor, TypeOK
<1>1. TypeOK'
    BY <1>0, IdleTypes, RowTypes DEF TypeOK
<1>2. WorkersInv'
  <2>1. \A v \in Workers : worker[v].pc # "idle" =>
           /\ WorkerKnows(v) /\ worker[v].job \in Maturities
           /\ worker[v].job # m
      BY DEF WorkersInv, WorkerKnows, LocksInv, AdminCommit
  <2>2. QED
      BY <1>0, <2>1, KnowledgeKept DEF WorkersInv
<1>3. SchedsInv'
    BY <1>0 DEF SchedsInv, TypeOK, SchedStates
<1>4. AdminsInv'
  <2>1. \A b \in Admins : b # a /\ admin[b].pc = "updated" => admin[b].job # m
      BY DEF LocksInv, AdminCommit
  <2>2. QED
      BY <1>0, <2>1 DEF AdminsInv, TypeOK, IdleAdmin
<1>5. LocksInv'
    BY <1>0 DEF LocksInv, TypeOK, IdleAdmin
<1>6. TablesInv'
    BY <1>0 DEF TablesInv, BooksAgree, Payments, RetryBudget,
                PaidIsNotGivenUp, BackToPending, TypeOK
<1>7. QED
    BY <1>1, <1>2, <1>3, <1>4, <1>5, <1>6

-----------------------------------------------------------------------------
(* Every step of the engine, and every stuttering step, preserves IInv.    *)
LEMMA NextIInv == IInv /\ [Next]_vars => IInv'
<1> SUFFICES ASSUME IInv, [Next]_vars PROVE IInv'
    OBVIOUS
<1>1. CASE TimeNext \/ FaultsCease
    BY <1>1, ClockIInv, BackoffElapsesIInv DEF TimeNext
<1>2. CASE \E s \in Schedulers : SchedNext(s)
    BY <1>2, ListDueIInv, EnqueueDueIInv, EnqueueFailsIInv, TickCommitIInv,
       ExpireStaleLeasesIInv, ReapCommitIInv, SchedRollbackIInv DEF SchedNext
<1>3. CASE \E w \in Workers : WorkerNext(w)
    BY <1>3, ClaimIInv, ExecuteIInv, PostSettlementIInv, PostingRejectedIInv,
       MarkSettledIInv, HandleFailureIInv, WorkerCommitIInv, WorkerRollbackIInv
       DEF WorkerNext
<1>4. CASE \E a \in Admins : AdminNext(a)
    BY <1>4, AdminCheckIInv, AdminUpdateIInv, AdminConflictIInv,
       AdminCommitIInv, AdminRollbackIInv DEF AdminNext
<1>5. CASE UNCHANGED vars
  <2> USE <1>5 DEF vars, IInv
  <2>1. TypeOK' /\ SchedsInv' /\ AdminsInv' /\ LocksInv'
      BY DEF TypeOK, SchedsInv, AdminsInv, LocksInv
  <2>2. WorkersInv'
      BY KnowledgeKept DEF WorkersInv
  <2>3. TablesInv'
      BY DEF TablesInv, BooksAgree, Payments, RetryBudget, PaidIsNotGivenUp
  <2>4. QED
      BY <2>1, <2>2, <2>3
<1>6. QED
    BY <1>1, <1>2, <1>3, <1>4, <1>5 DEF Next

(* IInv holds in every reachable state: what an open transaction believes  *)
(* about its rows stays true until it commits or is rolled back.           *)
THEOREM InductiveInvariant == Spec => []IInv
BY InitIInv, NextIInv, PTL DEF Spec

(* The tables and the open transactions keep their types.                  *)
THEOREM TypeCorrect == Spec => []TypeOK
<1>1. IInv => TypeOK
    BY DEF IInv
<1>2. QED
    BY <1>1, InductiveInvariant, PTL

(* completeSuccess leaves job, ledger, maturity and attempts in agreement. *)
THEOREM BooksAlwaysAgree == Spec => []BooksAgree
<1>1. IInv => BooksAgree
    BY DEF IInv, TablesInv
<1>2. QED
    BY <1>1, InductiveInvariant, PTL

(* No two transactions ever process the same job, and the row a worker     *)
(* claimed does not change under it.                                       *)
THEOREM ClaimsAreSound == Spec => []ClaimSound
<1>1. IInv => ClaimSound
  <2> SUFFICES ASSUME IInv, NEW w \in Workers, worker[w].pc # "idle",
                      NEW m, m = worker[w].job
               PROVE  /\ \A v \in Workers \ {w} : worker[v].job # m
                      /\ \A a \in Admins : admin[a].job = m => admin[a].pc # "updated"
                      /\ job[m].status \in {"pending", "failed"}
                      /\ job[m].next # "waiting"
                      /\ worker[w].attempt = Len(attempts[m]) + 1
                      /\ worker[w].pc # "ready" => worker[w].row.retry = job[m].retry
      BY DEF ClaimSound
  <2>1. WorkerKnows(w)
      BY DEF IInv, WorkersInv
  <2>2. /\ \A v \in Workers \ {w} : worker[v].job # m
        /\ \A a \in Admins : admin[a].job = m => admin[a].pc # "updated"
      BY DEF IInv, LocksInv
  <2>3. worker[w].pc \in {"idle", "claimed", "executed", "posted", "ready"}
      BY DEF IInv, TypeOK, WorkerStates
  <2>4. worker[w].pc # "ready" => worker[w].row.retry = job[m].retry
      BY <2>1, <2>3 DEF WorkerKnows, ClaimSettlementJob, MarkJobSucceeded,
                        WithStatus
  <2>5. QED
      BY <2>1, <2>2, <2>4 DEF WorkerKnows
<1>2. QED
    BY <1>1, InductiveInvariant, PTL

(* A payout the gateway made is never followed by a dead letter.           *)
THEOREM PaidIsNeverGivenUp == Spec => []PaidIsNotGivenUp
<1>1. IInv => PaidIsNotGivenUp
    BY DEF IInv, TablesInv
<1>2. QED
    BY <1>1, InductiveInvariant, PTL

(* handleFailure keeps every job within its retry budget.                  *)
THEOREM RetryBudgetKept == Spec => []RetryBudget
<1>1. IInv => RetryBudget
    BY DEF IInv, TablesInv
<1>2. QED
    BY <1>1, InductiveInvariant, PTL

(* Concurrent ticks never insert the same job.                             *)
THEOREM TicksAreDisjoint == Spec => []TicksDisjoint
<1>1. IInv => TicksDisjoint
    BY DEF IInv, SchedsInv, LocksInv, TicksDisjoint
<1>2. QED
    BY <1>1, InductiveInvariant, PTL

(* A dead worker strands nothing, and the reaper finds nothing.            *)
THEOREM NothingIsStranded == Spec => []NothingStranded
<1>1. IInv => NothingStranded
    BY DEF IInv, SchedsInv, TablesInv, NothingStranded
<1>2. QED
    BY <1>1, InductiveInvariant, PTL

-----------------------------------------------------------------------------
(* What a step may do to the committed tables: nothing, let a retry time   *)
(* pass, create a tick's jobs, settle or fail one attempt, or put one      *)
(* failed or dead-lettered job back to pending.                            *)
Untouched == UNCHANGED tables

Elapsed(m) ==
    /\ job'[m].status = job[m].status /\ job'[m].retry = job[m].retry
    /\ \A k \in Maturities \ {m} : job'[k] = job[k]
    /\ UNCHANGED <<attempts, ledger, settled>>

Created(S) ==
    /\ \A k \in S : job[k] = AbsentRow /\ job'[k].status = "pending"
                      /\ job'[k].retry = 0
    /\ \A k \in Maturities \ S : job'[k] = job[k]
    /\ UNCHANGED <<attempts, ledger, settled>>

Attempted(m, row, result) ==
    /\ job[m].status \in {"pending", "failed"}
    /\ result = GatewayResult(m, Len(attempts[m]) + 1)
    /\ job'[m] = row
    /\ \A k \in Maturities \ {m} : job'[k] = job[k] /\ attempts'[k] = attempts[k]
    /\ IF result = "ok"
       THEN /\ row = MarkJobSucceeded(job[m])
            /\ m \in Postable /\ m \notin ledger
            /\ ledger' = ledger \union {m}
            /\ settled' = settled \union {m}
       ELSE row = FailedRow(m, result) /\ UNCHANGED <<ledger, settled>>

Returned(a, m) ==
    /\ admin[a].pc = "updated" /\ admin[a].job = m
    /\ job[m].status = StatusFor(admin[a].op) /\ admin[a].op \in AdminOps
    /\ job'[m] = BackToPending(job[m])
    /\ \A k \in Maturities \ {m} : job'[k] = job[k]
    /\ UNCHANGED <<attempts, ledger, settled>>

(* Every step changes the committed tables in one of these ways.           *)
LEMMA TableSteps ==
    ASSUME IInv, [Next]_vars
    PROVE  /\ job \in [Maturities -> Rows] /\ job' \in [Maturities -> Rows]
           /\ \/ Untouched
              \/ \E m \in Maturities : Elapsed(m)
              \/ \E S \in SUBSET Maturities : Created(S)
              \/ \E m \in Maturities, row \in Rows, result \in Outcomes :
                    Attempted(m, row, result)
              \/ \E a \in Admins, m \in Maturities : Returned(a, m)
<1>0. job \in [Maturities -> Rows] /\ job' \in [Maturities -> Rows]
    BY NextIInv DEF IInv, TypeOK
<1>1. ASSUME NEW m \in Maturities, BackoffElapses(m) PROVE Elapsed(m)
    BY <1>0, <1>1 DEF BackoffElapses, Elapsed
<1>2. ASSUME NEW s \in Schedulers, TickCommit(s)
      PROVE  \E S \in SUBSET Maturities : Created(S)
  <2>1. sched[s].created \in SUBSET Maturities
      BY DEF IInv, TypeOK, SchedStates
  <2>2. \A k \in sched[s].created : job[k] = AbsentRow
      BY <2>1 DEF IInv, SchedsInv, TablesInv
  <2>3. Created(sched[s].created)
      BY <1>2, <2>1, <2>2 DEF TickCommit, Created, CreateSettlementJob
  <2>4. QED
      BY <2>1, <2>3
<1>3. ASSUME NEW s \in Schedulers, ReapCommit(s) PROVE Untouched
    BY <1>0, <1>3 DEF ReapCommit, Untouched, tables, IInv, SchedsInv
<1>4. ASSUME NEW w \in Workers, WorkerCommit(w)
      PROVE  \E m \in Maturities, row \in Rows, result \in Outcomes :
                Attempted(m, row, result)
  <2>1. WorkerKnows(w) /\ worker[w].row \in Rows /\ worker[w].pc = "ready"
      BY <1>4 DEF WorkerCommit, IInv, WorkersInv, TypeOK, WorkerStates
  <2>2. PICK m \in Maturities : m = worker[w].job
      BY <2>1 DEF WorkerKnows
  <2>3. PICK result \in Outcomes : result = worker[w].result
      BY <2>1, GatewayAnswers DEF WorkerKnows
  <2>4. /\ job[m].status \in {"pending", "failed"}
        /\ m \notin ledger
        /\ job'[m] = worker[w].row
        /\ \A k \in Maturities \ {m} : job'[k] = job[k] /\ attempts'[k] = attempts[k]
      BY <1>4, <2>1, <2>2 DEF WorkerCommit, WorkerKnows, IInv, TypeOK,
                              TablesInv, BooksAgree
  <2>5. CASE result = "ok"
      BY <1>4, <2>1, <2>2, <2>3, <2>4, <2>5
         DEF WorkerCommit, WorkerKnows, Attempted
  <2>6. CASE result # "ok"
      BY <1>4, <2>1, <2>2, <2>3, <2>4, <2>6
         DEF WorkerCommit, WorkerKnows, Attempted
  <2>7. QED
      BY <2>5, <2>6
<1>5. ASSUME NEW a \in Admins, AdminCommit(a)
      PROVE  \E m \in Maturities : Returned(a, m)
    BY <1>0, <1>5 DEF AdminCommit, Returned, IInv, AdminsInv
<1>6. CASE UNCHANGED vars
    BY <1>0, <1>6 DEF vars, Untouched, tables
<1>7. CASE TimeNext \/ FaultsCease
    BY <1>0, <1>1, <1>7 DEF TimeNext, MaturityComesDue, FaultsCease, Untouched
<1>8. CASE \E s \in Schedulers : SchedNext(s)
    BY <1>0, <1>2, <1>3, <1>8
       DEF SchedNext, ListDue, EnqueueDue, EnqueueFails, ExpireStaleLeases,
           SchedRollback, Untouched
<1>9. CASE \E w \in Workers : WorkerNext(w)
    BY <1>0, <1>4, <1>9
       DEF WorkerNext, Claim, Execute, PostSettlement, PostingRejected,
           MarkSettled, HandleFailure, WorkerRollback, Untouched
<1>10. CASE \E a \in Admins : AdminNext(a)
    BY <1>0, <1>5, <1>10
       DEF AdminNext, AdminCheck, AdminUpdate, AdminConflict, AdminRollback,
           Untouched
<1>11. QED
    BY <1>6, <1>7, <1>8, <1>9, <1>10 DEF Next

(* A posting that validateBalanced refuses settles nothing and is charged  *)
(* to nobody: the only attempts on a paid job that reach a commit are      *)
(* posted, and this one cannot be posted.                                  *)
THEOREM RefusedPostingsSettleNothing == Spec => []RefusedPostingSettlesNothing
<1>1. Init => RefusedPostingSettlesNothing
    BY DEF Init, RefusedPostingSettlesNothing, AbsentRow
<1>2. ASSUME IInv, RefusedPostingSettlesNothing, [Next]_vars
      PROVE  RefusedPostingSettlesNothing'
  <2> DEFINE Fresh(row) == row.status \in {"absent", "pending"}
  <2> SUFFICES ASSUME NEW m \in Maturities \ Postable
               PROVE  /\ m \notin ledger' \union settled'
                      /\ Profile[m] = "success" => Fresh(job'[m])
      BY DEF RefusedPostingSettlesNothing
  <2>1. /\ m \notin ledger \union settled
        /\ Profile[m] = "success" => Fresh(job[m])
      BY <1>2 DEF RefusedPostingSettlesNothing
  <2>2. Profile[m] = "success" => \A n : GatewayResult(m, n) = "ok"
      BY DEF GatewayResult
  <2>3. CASE Untouched
      BY <2>1, <2>3 DEF Untouched, tables
  <2>4. CASE \E k \in Maturities : Elapsed(k)
      BY <2>1, <2>4 DEF Elapsed
  <2>5. CASE \E S \in SUBSET Maturities : Created(S)
      BY <2>1, <2>5 DEF Created
  <2>6. ASSUME NEW k \in Maturities, NEW row \in Rows, NEW result \in Outcomes,
               Attempted(k, row, result)
        PROVE  /\ m \notin ledger' \union settled'
               /\ Profile[m] = "success" => Fresh(job'[m])
    <3>1. k = m => result # "ok"
        BY <2>6 DEF Attempted
    <3>2. m \notin ledger' \union settled'
        BY <2>1, <2>6, <3>1 DEF Attempted
    <3>3. Profile[m] = "success" => k # m
        BY <2>2, <2>6, <3>1 DEF Attempted
    <3>4. Profile[m] = "success" => job'[m] = job[m]
        BY <2>6, <3>3 DEF Attempted
    <3>5. QED
        BY <2>1, <3>2, <3>4
  <2>7. ASSUME NEW a \in Admins, NEW k \in Maturities, Returned(a, k)
        PROVE  /\ m \notin ledger' \union settled'
               /\ Profile[m] = "success" => Fresh(job'[m])
    <3>1. Profile[m] = "success" => k # m
        BY <2>1, <2>7 DEF Returned, StatusFor
    <3>2. QED
        BY <2>1, <2>7, <3>1 DEF Returned
  <2>8. QED
      BY <1>2, <2>3, <2>4, <2>5, <2>6, <2>7, TableSteps
<1>3. QED
    BY <1>1, <1>2, InductiveInvariant, PTL DEF Spec

(* A settled job never changes again.                                      *)
THEOREM SettledStaysSettled == Spec => SettledIsFinal
<1> DEFINE A == \A m \in Maturities : job[m].status = "succeeded" =>
                   /\ job'[m].status = "succeeded"
                   /\ attempts'[m] = attempts[m]
                   /\ m \in ledger' /\ m \in settled'
<1>1. ASSUME IInv, [Next]_vars PROVE A
  <2> SUFFICES ASSUME NEW m \in Maturities, job[m].status = "succeeded"
               PROVE  /\ job'[m].status = "succeeded"
                      /\ attempts'[m] = attempts[m]
                      /\ m \in ledger' /\ m \in settled'
      OBVIOUS
  <2>1. m \in ledger /\ m \in settled
      BY <1>1 DEF IInv, TablesInv, BooksAgree
  <2>2. QED
      BY <1>1, <2>1, TableSteps
         DEF Untouched, tables, Elapsed, Created, AbsentRow, Attempted,
             Returned, StatusFor
<1>2. QED
    BY <1>1, InductiveInvariant, PTL DEF Spec, SettledIsFinal

(* Only an admin replay takes a job out of dead_letter.                    *)
THEOREM DeadLetterNeedsAdmin == Spec => DeadLetterNeedsReplay
<1> DEFINE A == \A m \in Maturities :
          job[m].status = "dead_letter" /\ job'[m].status # "dead_letter" =>
             /\ job'[m].status = "pending"
             /\ job'[m].retry = job[m].retry
             /\ \E a \in Admins : /\ admin[a].pc = "updated"
                                  /\ admin[a].op = "replay"
                                  /\ admin[a].job = m
<1>1. ASSUME IInv, [Next]_vars PROVE A
  <2> SUFFICES ASSUME NEW m \in Maturities, job[m].status = "dead_letter",
                      job'[m].status # "dead_letter"
               PROVE  /\ job'[m].status = "pending"
                      /\ job'[m].retry = job[m].retry
                      /\ \E a \in Admins : /\ admin[a].pc = "updated"
                                           /\ admin[a].op = "replay"
                                           /\ admin[a].job = m
      OBVIOUS
  <2>1. PICK a \in Admins, k \in Maturities : Returned(a, k)
      BY <1>1, TableSteps
         DEF Untouched, tables, Elapsed, Created, AbsentRow, Attempted
  <2>2. k = m
      BY <2>1 DEF Returned
  <2>3. admin[a].op = "replay"
      BY <2>1, <2>2 DEF Returned, StatusFor, AdminOps
  <2>4. QED
      BY <2>1, <2>2, <2>3 DEF Returned, BackToPending
<1>2. QED
    BY <1>1, InductiveInvariant, PTL DEF Spec, DeadLetterNeedsReplay

-----------------------------------------------------------------------------
(* The engine implements the lifecycle.                                    *)

(* The empty tables are the initial state of the lifecycle.                *)
LEMMA InitImplements == Init => Lifecycle!Init
BY DEF Init, AbsentRow, PhaseOf, Lifecycle!Init

(* A step that leaves every job's phase, retry count and books alone is a  *)
(* stuttering step of the lifecycle.                                       *)
LEMMA SamePhases ==
    ASSUME \A k \in Maturities :
              /\ PhaseOf(job'[k].status) = PhaseOf(job[k].status)
              /\ job'[k].retry = job[k].retry,
           UNCHANGED <<ledger, settled>>
    PROVE  UNCHANGED Lifecycle!vars
BY DEF Lifecycle!vars

(* Every step of the engine is a step of the lifecycle or leaves it alone. *)
LEMMA StepImplements ==
    ASSUME IInv, [Next]_vars
    PROVE  [Lifecycle!Next]_(Lifecycle!vars)
<1>0. job \in [Maturities -> Rows] /\ job' \in [Maturities -> Rows]
    BY TableSteps
<1>1. CASE Untouched
    BY <1>1, SamePhases DEF Untouched, tables
<1>2. ASSUME NEW m \in Maturities, Elapsed(m) PROVE UNCHANGED Lifecycle!vars
  <2>1. \A k \in Maturities : job'[k].status = job[k].status /\ job'[k].retry = job[k].retry
      BY <1>2 DEF Elapsed
  <2>2. QED
      BY <1>2, <2>1, SamePhases DEF Elapsed
<1>3. ASSUME NEW S \in SUBSET Maturities, Created(S) PROVE Lifecycle!Open(S)
    BY <1>0, <1>3 DEF Created, AbsentRow, PhaseOf, Lifecycle!Open
<1>4. ASSUME NEW m \in Maturities, NEW row \in Rows, NEW result \in Outcomes,
             Attempted(m, row, result)
      PROVE  Lifecycle!Settle(m) \/ Lifecycle!ChargeFailure(m) \/
      Lifecycle!GiveUp(m)
  <2>1. CASE result = "ok"
    <3>1. /\ row.status = "succeeded" /\ row.retry = job[m].retry
          /\ m \notin ledger /\ ledger' = ledger \union {m}
          /\ settled' = settled \union {m}
        BY <1>4, <2>1 DEF Attempted, MarkJobSucceeded, WithStatus
    <3>2. Lifecycle!Settle(m)
        BY <1>0, <1>4, <3>1 DEF Attempted, PhaseOf, Lifecycle!Settle
    <3>3. QED
        BY <3>2
  <2>2. CASE result # "ok" /\ GiveUp(job[m], result)
    <3>1. /\ row.status = "dead_letter" /\ row.retry = job[m].retry
          /\ UNCHANGED <<ledger, settled>>
        BY <1>4, <2>2 DEF Attempted, FailedRow, MarkJobDeadLetter, WithStatus
    <3>2. Lifecycle!GiveUp(m)
        BY <1>0, <1>4, <3>1 DEF Attempted, PhaseOf, Lifecycle!GiveUp
    <3>3. QED
        BY <3>2
  <2>3. CASE result # "ok" /\ ~GiveUp(job[m], result)
    <3>1. /\ row.status = "failed" /\ row.retry = job[m].retry + 1
          /\ job[m].retry + 1 < MaxRetries
          /\ UNCHANGED <<ledger, settled>>
        BY <1>0, <1>4, <2>3, RetryAssumption
           DEF Attempted, FailedRow, MarkJobFailedRetryable, GiveUp, Rows
    <3>2. Lifecycle!ChargeFailure(m)
        BY <1>0, <1>4, <3>1 DEF Attempted, PhaseOf, Lifecycle!ChargeFailure
    <3>3. QED
        BY <3>2
  <2>4. QED
      BY <2>1, <2>2, <2>3
<1>5. ASSUME NEW a \in Admins, NEW m \in Maturities, Returned(a, m)
      PROVE  Lifecycle!Reopen(m) \/ UNCHANGED Lifecycle!vars
  <2>1. /\ job'[m].status = "pending" /\ job'[m].retry = job[m].retry
        /\ job[m].status \in {"dead_letter", "failed"}
        /\ \A k \in Maturities \ {m} : job'[k] = job[k]
        /\ UNCHANGED <<ledger, settled>>
      BY <1>5 DEF Returned, BackToPending, StatusFor
  <2>2. CASE job[m].status = "dead_letter"
      BY <1>0, <2>1, <2>2 DEF PhaseOf, Lifecycle!Reopen
  <2>3. CASE job[m].status = "failed"
    <3>1. \A k \in Maturities : /\ PhaseOf(job'[k].status) = PhaseOf(job[k].status)
                                /\ job'[k].retry = job[k].retry
        BY <2>1, <2>3 DEF PhaseOf
    <3>2. QED
        BY <2>1, <3>1, SamePhases
  <2>4. QED
      BY <2>1, <2>2, <2>3
<1>6. QED
    BY <1>1, <1>2, <1>3, <1>4, <1>5, TableSteps DEF Lifecycle!Next

(* Seen through its committed rows, the engine with all its transactions,  *)
(* locks, crashes and races is the atomic job lifecycle.                   *)
THEOREM ImplementsLifecycle == Spec => LifecycleSpec
<1>1. Init => Lifecycle!Init
    BY InitImplements
<1>2. IInv /\ [Next]_vars => [Lifecycle!Next]_(Lifecycle!vars)
    BY StepImplements
<1>3. QED
    BY <1>1, <1>2, InductiveInvariant, PTL
       DEF Spec, LifecycleSpec, Lifecycle!Spec

=============================================================================
