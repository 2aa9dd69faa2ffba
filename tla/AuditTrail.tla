------------------------------ MODULE AuditTrail ------------------------------
(***************************************************************************)
(* The audit trail of the settlement engine.  Every step of the engine     *)
(* that changes a job publishes an event with the same transaction (q),    *)
(* so that it is committed, or lost, with the change it reports.           *)
(*                                                                         *)
(* The module adds two variables to SettlementEngine and conjoins to each  *)
(* of its actions what that action publishes; without them a behaviour is  *)
(* a behaviour of SettlementEngine.                                        *)
(***************************************************************************)
EXTENDS SettlementEngine

VARIABLES
    audit,      \* audit_events of each job and its ledger group, as committed;
                \* the order of the commits is a ghost, no column stores it
    unsaved     \* the events each open transaction has inserted

trail == <<audit, unsaved>>
auditVars == <<due, faults, job, attempts, ledger, settled, paid,
               worker, sched, admin, audit, unsaved>>

Processes == Workers \union Schedulers \union Admins

ASSUME ProcessesAssumption ==
    /\ Workers \intersect Schedulers = {}
    /\ Workers \intersect Admins = {}
    /\ Schedulers \intersect Admins = {}

-----------------------------------------------------------------------------
(* Events.                                                                 *)

(* The actions some caller publishes.  ActionMaturitySettled is declared   *)
(* too, and never used; "requeued" is used, and not declared.              *)
EventActions == {"created", "claimed", "succeeded", "failed", "dead_letter",
                 "replayed", "requeued", "lease_expired", "ledger_posted"}

(* n: the number in the payload, attempt_number of "claimed" and           *)
(* retry_count of "failed".                                                *)
Events == [action : EventActions, n : Nat]

Event(action, n) == [action |-> action, n |-> n]

NoEvents == [m \in Maturities |-> <<>>]

AuditTypeOK ==
    /\ TypeOK
    /\ audit \in [Maturities -> Seq(Events)]
    /\ unsaved \in [Processes -> [Maturities -> Seq(Events)]]

AuditInit ==
    /\ Init
    /\ audit = NoEvents
    /\ unsaved = [p \in Processes |-> NoEvents]

(* Mutant: Publish writes through the pool and not through q.              *)
PublishOutsideTx(p, M, events) ==
    /\ audit' = [m \in Maturities |-> IF m \in M THEN audit[m] \o events
                                                 ELSE audit[m]]
    /\ UNCHANGED unsaved

(* Publish for the jobs in M, inside the transaction of p.                 *)
Publish(p, M, events) ==
    /\ unsaved' = [unsaved EXCEPT ![p] =
          [m \in Maturities |-> IF m \in M THEN unsaved[p][m] \o events
                                           ELSE unsaved[p][m]]]
    /\ UNCHANGED audit

(* The transaction of p commits, or is rolled back.  A commit appends; the *)
(* rows have only occurred_at, the start of their transaction, and a       *)
(* random id, by which the API lists them in another order.                *)
SaveEvents(p) ==
    /\ audit' = [m \in Maturities |-> audit[m] \o unsaved[p][m]]
    /\ unsaved' = [unsaved EXCEPT ![p] = NoEvents]

LoseEvents(p) ==
    /\ unsaved' = [unsaved EXCEPT ![p] = NoEvents]
    /\ UNCHANGED audit

-----------------------------------------------------------------------------
(* What the engine's steps publish.                                        *)

(* EnqueueDueMaturities, for the jobs CreateIdempotent inserted.           *)
PublishCreated(s) ==
    Publish(s, CreateIdempotent(sched[s].rows), <<Event("created", 0)>>)

(* reapStaleLeases, for the jobs the UPDATE returned.                      *)
PublishLeaseExpired(s) ==
    Publish(s, sched'[s].leases, <<Event("lease_expired", 0)>>)

(* ProcessOne, after PayoutAttempts.Start.                                 *)
PublishClaimed(w, m) ==
    Publish(w, {m}, <<Event("claimed", GetNextAttemptNumber(m))>>)

(* Mutant: the job's event before PublishLedgerPosted.                     *)
JobBeforeLedger(w) ==
    Publish(w, {worker[w].job},
            <<Event("succeeded", 0), Event("ledger_posted", 0)>>)

(* completeSuccess, after MarkSettled: PublishLedgerPosted, then the job.  *)
PublishSucceeded(w) ==
    Publish(w, {worker[w].job},
            <<Event("ledger_posted", 0), Event("succeeded", 0)>>)

(* Mutant: the retry_count of the claimed row, without the increment.      *)
StaleRetryCount(row, result) ==
    IF GiveUp(row, result) THEN Event("dead_letter", 0)
                           ELSE Event("failed", row.retry)

(* handleFailure, at the end of either branch.                             *)
FailureEvent(row, result) ==
    IF GiveUp(row, result) THEN Event("dead_letter", 0)
                           ELSE Event("failed", row.retry + 1)

PublishFailure(w) ==
    Publish(w, {worker[w].job},
            <<FailureEvent(worker[w].row, worker[w].result)>>)

(* ReplayDeadLetter and RequeueFailed, once the UPDATE has found the row.  *)
PublishAdminAction(a) ==
    Publish(a, {admin[a].job},
            <<Event(IF admin[a].op = "replay" THEN "replayed"
                                              ELSE "requeued", 0)>>)

-----------------------------------------------------------------------------
AuditSched(s) ==
    \/ ListDue(s) /\ UNCHANGED trail
    \/ EnqueueDue(s) /\ PublishCreated(s)
    \/ EnqueueFails(s) /\ LoseEvents(s)
    \/ TickCommit(s) /\ SaveEvents(s)
    \/ ExpireStaleLeases(s) /\ PublishLeaseExpired(s)
    \/ ReapCommit(s) /\ SaveEvents(s)
    \/ SchedRollback(s) /\ LoseEvents(s)

AuditWorker(w) ==
    \/ \E m \in Maturities : Claim(w, m) /\ PublishClaimed(w, m)
    \/ Execute(w) /\ UNCHANGED trail
    \/ PostSettlement(w) /\ UNCHANGED trail
    \/ PostingRejected(w) /\ LoseEvents(w)
    \/ MarkSettled(w) /\ PublishSucceeded(w)
    \/ HandleFailure(w) /\ PublishFailure(w)
    \/ WorkerCommit(w) /\ SaveEvents(w)
    \/ WorkerRollback(w) /\ LoseEvents(w)

AuditAdmin(a) ==
    \/ /\ \E op \in AdminOps, m \in Maturities : AdminCheck(a, op, m)
       /\ UNCHANGED trail
    \/ AdminUpdate(a) /\ PublishAdminAction(a)
    \/ AdminConflict(a) /\ LoseEvents(a)
    \/ AdminCommit(a) /\ SaveEvents(a)
    \/ AdminRollback(a) /\ LoseEvents(a)

AuditNext ==
    \/ TimeNext /\ UNCHANGED trail
    \/ FaultsCease /\ UNCHANGED trail
    \/ \E s \in Schedulers : AuditSched(s)
    \/ \E w \in Workers : AuditWorker(w)
    \/ \E a \in Admins : AuditAdmin(a)

AuditSpec == AuditInit /\ [][AuditNext]_auditVars

-----------------------------------------------------------------------------
(* Properties.                                                             *)

(* The status of a job after these events, in the order of their commits.  *)
StatusTold(events) ==
    IF events = <<>> THEN "absent"
    ELSE LET last == events[Len(events)].action
         IN  IF last \in {"succeeded", "failed", "dead_letter"} THEN last
             ELSE "pending"

(* Whether events[i+1] reports this outcome of the attempt claimed at i.   *)
OutcomeTold(events, i, outcome) ==
    /\ i + 1 \in DOMAIN events
    /\ outcome = "ok"        => events[i + 1].action = "ledger_posted"
    /\ outcome = "terminal"  => events[i + 1].action = "dead_letter"
    /\ outcome = "transient" => events[i + 1].action
                                    \in {"failed", "dead_letter"}

(* The event committed last gives the status, and the last "failed" the    *)
(* retry_count.                                                            *)
TellsTheRow(events, row) ==
    LET failures == {i \in DOMAIN events : events[i].action = "failed"}
    IN  /\ StatusTold(events) = row.status
        /\ failures = {} => row.retry = 0
        /\ \A i \in failures :
              (\A j \in failures : j <= i) => events[i].n = row.retry

(* In the order of the commits the trail accounts for the job row: the     *)
(* event committed last gives its status, and the last "failed" event its  *)
(* retry_count.  Every change of a row is recorded with it, none that was  *)
(* rolled back is, and a status that two requests raced to change was      *)
(* changed, and recorded, once (PublishJobTransition inside each WithTx).  *)
(* It does not say that the listing by occurred_at ends with that event.   *)
TrailTellsTheRow == \A m \in Maturities : TellsTheRow(audit[m], job[m])

(* The "claimed" events number the attempts, and their outcomes follow.    *)
TellsTheAttempts(events, history) ==
    LET claims == {i \in DOMAIN events : events[i].action = "claimed"}
    IN  /\ \A k \in DOMAIN history : \E i \in claims :
              events[i].n = k /\ OutcomeTold(events, i, history[k])
        /\ \A i \in claims : events[i].n \in DOMAIN history
        /\ \A i, j \in claims : i < j => events[i].n < events[j].n

(* It accounts for the payout attempts too: the "claimed" events           *)
(* number exactly the committed attempts, in order, and each is followed   *)
(* by the event of that attempt's outcome, whatever the workers, the       *)
(* rollbacks and the requeues in between (ProcessOne).                     *)
TrailTellsTheAttempts ==
    \A m \in Maturities : TellsTheAttempts(audit[m], attempts[m])

(* What may follow an event in the trail of one job.                       *)
Successors(action) ==
    CASE action = "claimed"       -> {"ledger_posted", "failed", "dead_letter"}
      [] action = "ledger_posted" -> {"succeeded"}
      [] action = "succeeded"     -> {}
      [] action = "failed"        -> {"claimed", "requeued"}
      [] action = "dead_letter"   -> {"replayed"}
      [] OTHER                    -> {"claimed"}

IsARun(events) ==
    /\ events # <<>> => events[1].action = "created"
    /\ \A i \in 2..Len(events) :
          events[i].action \in Successors(events[i - 1].action)

(* In that order the trail is a run of the state machine: it starts with   *)
(* one "created", never requeues a job in process or already pending,      *)
(* never leaves dead_letter but by a replay, and ends with the settlement. *)
TrailIsARun == \A m \in Maturities : IsARun(audit[m])

-----------------------------------------------------------------------------
(* The inductive invariant: the events of an open transaction say how far  *)
(* it has got, and no committed trail stops in the middle of one.          *)

WorkerEvents(tx) ==
    LET claimed == Event("claimed", tx.attempt)
    IN  IF tx.pc # "ready" THEN <<claimed>>
        ELSE IF tx.row.status = "succeeded"
             THEN <<claimed, Event("ledger_posted", 0), Event("succeeded", 0)>>
        ELSE IF tx.row.status = "failed"
             THEN <<claimed, Event("failed", tx.row.retry)>>
        ELSE <<claimed, Event("dead_letter", 0)>>

AdminEvent(op) == Event(IF op = "replay" THEN "replayed" ELSE "requeued", 0)

WorkerTells(w) == unsaved[w] = [m \in Maturities |->
    IF m = worker[w].job THEN WorkerEvents(worker[w]) ELSE <<>>]

SchedTells(s) ==
    /\ sched[s].pc # "enqueued" => sched[s].created = {}
    /\ unsaved[s] = [m \in Maturities |->
          IF m \in sched[s].created THEN <<Event("created", 0)>> ELSE <<>>]

AdminTells(a) == unsaved[a] = [m \in Maturities |->
    IF admin[a].pc = "updated" /\ m = admin[a].job
    THEN <<AdminEvent(admin[a].op)>> ELSE <<>>]

UnsavedInv ==
    /\ \A w \in Workers : WorkerTells(w)
    /\ \A s \in Schedulers : SchedTells(s)
    /\ \A a \in Admins : AdminTells(a)

EndsATransaction(events) ==
    events # <<>> => events[Len(events)].action \notin {"claimed", "ledger_posted"}

WellTold(events, row, history) ==
    /\ EndsATransaction(events)
    /\ TellsTheRow(events, row)
    /\ TellsTheAttempts(events, history)
    /\ IsARun(events)

TrailInv == \A m \in Maturities : WellTold(audit[m], job[m], attempts[m])

(* The inductive invariant of the engine with its trail: besides the       *)
(* engine's own, an open transaction has inserted exactly the events of    *)
(* the changes it has made so far (Publish on its q), and each committed   *)
(* trail tells its row, its attempts and a run, and ends where a           *)
(* transaction ended (Store.WithTx).                                       *)
AInv == AuditTypeOK /\ IInv /\ UnsavedInv /\ TrailInv
=============================================================================
