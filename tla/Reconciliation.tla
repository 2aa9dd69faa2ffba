--------------------------- MODULE Reconciliation ---------------------------
(***************************************************************************)
(* Reconciliation: requests that take a snapshot of the job totals, or     *)
(* read the latest one, and flag discrepancies, while the engine goes on   *)
(* settling.                                                               *)
(*                                                                         *)
(* The engine is SettlementLifecycle, which SettlementEngine implements: a *)
(* statement reads committed rows, and those change as the lifecycle says. *)
(* A statement sees one instant; two statements, even of one transaction,  *)
(* may see two (read committed).  The history endpoint is CursorPages.     *)
(***************************************************************************)
EXTENDS Naturals, FiniteSets

CONSTANTS
    Maturities, MaxRetries,     \* of the engine
    Net,        \* [Maturities -> cents], settlement_jobs.net_payout_cents
    Requests,   \* concurrent POST /run and GET /latest requests
    MaxClock,       \* bound: on the clock
    MaxSnapshots    \* bound: no run begins with this many snapshots stored

ASSUME MaturitiesAssumption == IsFiniteSet(Maturities)
(* Breakdown.Validate accepts no job without a positive net payout.        *)
ASSUME NetAssumption == Net \in [Maturities -> Nat \ {0}]
ASSUME BoundAssumption == MaxClock \in Nat /\ MaxSnapshots \in Nat

VARIABLES
    phase, failures, posted, closed,    \* the engine's committed rows
    clock,      \* now()
    snapshots,  \* reconciliation_snapshots
    request     \* the progress of each request

engineVars == <<phase, failures, posted, closed>>
vars == <<engineVars, clock, snapshots, request>>

Engine == INSTANCE SettlementLifecycle

-----------------------------------------------------------------------------
(* jobs and succeeded are the rows AggregateSettlementJobStats counted and *)
(* added up; counts and totals follow from them.                           *)
Snapshots == [at : Nat, jobs : SUBSET Maturities,
              succeeded : SUBSET Maturities]

NoSnapshot == [at |-> 0, jobs |-> {}, succeeded |-> {}]

(* SUM(net_payout_cents): how many cents there are in these jobs.  Sums as *)
(* cardinalities can be reasoned about for any set of jobs.                *)
CentsOf(m) == {m} \X (1..Net[m])

TotalCents(jobs) == Cardinality(UNION {CentsOf(m) : m \in jobs})

DiscrepancyCents(s) == TotalCents(s.jobs) - TotalCents(s.succeeded)

(* The flag that is computed from the snapshot itself.                     *)
AmountMismatch(s) == DiscrepancyCents(s) # 0

CountFlags == {"missing_ledger", "orphan_ledger", "stale_pending"}

RequestStates ==
    [pc : {"idle", "begun", "row", "missing", "orphan", "flagged"},
     op : {"none", "run", "latest"},
     row : Snapshots,           \* its snapshot; until then only now()
     flags : SUBSET CountFlags]

IdleRequest == [pc |-> "idle", op |-> "none", row |-> NoSnapshot, flags |-> {}]

TypeOK ==
    /\ phase \in [Maturities -> Engine!Phases]
    /\ posted \subseteq Maturities
    /\ closed \subseteq Maturities
    /\ clock \in Nat
    /\ snapshots \subseteq Snapshots
    /\ request \in [Requests -> RequestStates]

Init ==
    /\ Engine!Init
    /\ clock = 0
    /\ snapshots = {}
    /\ request = [r \in Requests |-> IdleRequest]

EngineStep == Engine!Next /\ UNCHANGED <<clock, snapshots, request>>

ClockTicks ==
    /\ clock < MaxClock
    /\ clock' = clock + 1
    /\ UNCHANGED <<engineVars, snapshots, request>>

-----------------------------------------------------------------------------
(* What the statements count.                                              *)

(* Mutant: dead letters are not expected to be paid.                       *)
WithoutDeadLetters == {m \in Maturities : phase[m] \in {"open", "succeeded"}}

ExistingJobs == {m \in Maturities : phase[m] # "unknown"}

(* Mutant: everything that is over counts as settled.                      *)
OverJobs == {m \in Maturities : phase[m] \in {"succeeded", "dead_letter"}}

SucceededJobs == {m \in Maturities : phase[m] = "succeeded"}

OpenJobs == {m \in Maturities : phase[m] = "open"}

-----------------------------------------------------------------------------
(* POST /run: one transaction.  GET /latest: statements of their own.      *)

Begin(r) ==
    /\ request[r].pc = "idle"
    /\ Cardinality(snapshots) < MaxSnapshots
    /\ request' = [request EXCEPT ![r] =
          [pc |-> "begun", op |-> "run", flags |-> {},
           row |-> [at |-> clock, jobs |-> {}, succeeded |-> {}]]]
    /\ UNCHANGED <<engineVars, clock, snapshots>>

(* One SELECT for all counts and sums, then the INSERT, which nobody sees  *)
(* before the commit.  snapshot_at is now(), the start of the transaction. *)
CreateSnapshot(r) ==
    /\ request[r].pc = "begun"
    /\ request' = [request EXCEPT ![r] =
          [pc |-> "row", op |-> "run", flags |-> {},
           row |-> [at |-> @.row.at, jobs |-> ExistingJobs,
                    succeeded |-> SucceededJobs]]]
    /\ UNCHANGED <<engineVars, clock, snapshots>>

(* ORDER BY snapshot_at DESC LIMIT 1; without a snapshot, 404.             *)
GetLatest(r) ==
    /\ request[r].pc = "idle"
    /\ \E s \in snapshots :
          /\ \A t \in snapshots : t.at <= s.at
          /\ request' = [request EXCEPT ![r] =
                [pc |-> "row", op |-> "latest", flags |-> {}, row |-> s]]
    /\ UNCHANGED <<engineVars, clock, snapshots>>

(* A statement of FlagCounts: the request goes from pc to next, and raises *)
(* the flag if the statement counts something.                             *)
Count(r, pc, next, flag, counted) ==
    /\ request[r].pc = pc
    /\ request' = [request EXCEPT ![r] =
          [pc |-> next, op |-> @.op, row |-> @.row,
           flags |-> IF counted # {} THEN @.flags \union {flag} ELSE @.flags]]
    /\ UNCHANGED <<engineVars, clock, snapshots>>

CountSucceededJobsWithoutLedger(r) ==
    Count(r, "row", "missing", "missing_ledger", SucceededJobs \ posted)

(* Mutant: the ledger is compared with the jobs the snapshot found settled. *)
OrphansOfSnapshot(r) ==
    Count(r, "missing", "orphan", "orphan_ledger",
          posted \ request[r].row.succeeded)

CountOrphanLedgerJobGroups(r) ==
    Count(r, "missing", "orphan", "orphan_ledger", posted \ SucceededJobs)

(* Which open jobs are pending and an hour old is left open.               *)
CountStalePendingJobs(r) ==
    \E stale \in SUBSET OpenJobs :
        Count(r, "orphan", "flagged", "stale_pending", stale)

(* The request is answered; a run commits its snapshot.                    *)
Finish(r) ==
    /\ request[r].pc = "flagged"
    /\ snapshots' = IF request[r].op = "run"
                    THEN snapshots \union {request[r].row} ELSE snapshots
    /\ request' = [request EXCEPT ![r] = IdleRequest]
    /\ UNCHANGED <<engineVars, clock>>

(* An error of any statement ends the request; a run is rolled back.       *)
Fail(r) ==
    /\ request[r].pc # "idle"
    /\ request' = [request EXCEPT ![r] = IdleRequest]
    /\ UNCHANGED <<engineVars, clock, snapshots>>

Next ==
    \/ EngineStep
    \/ ClockTicks
    \/ \E r \in Requests :
          \/ Begin(r) \/ CreateSnapshot(r) \/ GetLatest(r)
          \/ CountSucceededJobsWithoutLedger(r)
          \/ CountOrphanLedgerJobGroups(r)
          \/ CountStalePendingJobs(r)
          \/ Finish(r) \/ Fail(r)

Spec == Init /\ [][Next]_vars

-----------------------------------------------------------------------------
(* Properties.                                                             *)

(* Snapshots stored, and those of requests under way.                      *)
TakenSnapshots == snapshots \union {request[r].row : r \in Requests}

(* The ledger flags are never raised: they would accuse an engine that     *)
(* posts and settles in one transaction, and although each flag is counted *)
(* by a statement of its own, at an instant of its own, none mixes two     *)
(* instants.                                                               *)
NoFalseAlarm == \A r \in Requests : request[r].flags \subseteq {"stale_pending"}

(* Snapshots are points of one history: of any two, one has at least the   *)
(* jobs and the settlements of the other, even if their transactions       *)
(* overlapped and their snapshot_at say otherwise.                         *)
SnapshotsFormHistory ==
    \A s, t \in TakenSnapshots :
        \/ s.jobs \subseteq t.jobs /\ s.succeeded \subseteq t.succeeded
        \/ t.jobs \subseteq s.jobs /\ t.succeeded \subseteq s.succeeded

(* A snapshot never understates what is owed: the jobs it counted that are *)
(* not in the ledger, now or at any later time, amount to no more than its *)
(* discrepancy.  One without amount_mismatch is proof of settlement.       *)
NeverUnderstates ==
    \A s \in TakenSnapshots :
        /\ TotalCents(s.jobs \ posted) <= DiscrepancyCents(s)
        /\ ~AmountMismatch(s) => s.jobs \subseteq posted \intersect closed

(* The inductive invariant: the engine's books agree, and what a snapshot  *)
(* has seen is still so.                                                   *)
IInv ==
    /\ TypeOK
    /\ NoFalseAlarm
    /\ SnapshotsFormHistory
    /\ posted = SucceededJobs /\ closed = posted
    /\ \A s \in TakenSnapshots :
          /\ s.jobs \subseteq ExistingJobs
          /\ s.succeeded \subseteq SucceededJobs \intersect s.jobs
=============================================================================
