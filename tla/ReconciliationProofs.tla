------------------------ MODULE ReconciliationProofs ------------------------
(***************************************************************************)
(* Proofs about Reconciliation, for any number of jobs and requests.       *)
(***************************************************************************)
EXTENDS Reconciliation, FiniteSetTheorems, TLAPS

(* An empty database with no request under way.                            *)
LEMMA InitIInv == Init => IInv
<1> SUFFICES ASSUME Init PROVE IInv
    OBVIOUS
<1>1. TypeOK
    BY DEF Init, TypeOK, Engine!Init, Engine!Phases, IdleRequest, NoSnapshot,
           RequestStates, Snapshots
<1>2. NoFalseAlarm /\ posted = SucceededJobs /\ closed = posted
    BY DEF Init, Engine!Init, NoFalseAlarm, IdleRequest, SucceededJobs
<1>3. \A s \in TakenSnapshots : s.jobs = {} /\ s.succeeded = {}
    BY DEF Init, TakenSnapshots, IdleRequest, NoSnapshot
<1>4. QED
    BY <1>1, <1>2, <1>3 DEF IInv, SnapshotsFormHistory

(* A step of the engine: jobs and settlements only grow, and a settlement  *)
(* is in the ledger at once.                                               *)
LEMMA EngineGrows ==
    ASSUME IInv, EngineStep
    PROVE  /\ phase' \in [Maturities -> Engine!Phases]
           /\ posted' \subseteq Maturities
           /\ posted' = SucceededJobs' /\ closed' = posted'
           /\ ExistingJobs \subseteq ExistingJobs'
           /\ SucceededJobs \subseteq SucceededJobs'
<1>1. CASE \E S \in SUBSET Maturities : Engine!Open(S)
    BY <1>1 DEF IInv, TypeOK, Engine!Open, Engine!Phases, ExistingJobs,
                SucceededJobs
<1>2. ASSUME NEW m \in Maturities, Engine!Settle(m)
      PROVE  /\ phase' \in [Maturities -> Engine!Phases]
             /\ posted' \subseteq Maturities
             /\ posted' = SucceededJobs' /\ closed' = posted'
             /\ ExistingJobs \subseteq ExistingJobs'
             /\ SucceededJobs \subseteq SucceededJobs'
    <2>1. SucceededJobs' = SucceededJobs \union {m}
        BY <1>2 DEF IInv, TypeOK, Engine!Settle, SucceededJobs
    <2>2. QED
        BY <1>2, <2>1 DEF IInv, TypeOK, Engine!Settle, Engine!Phases,
                          ExistingJobs
<1>3. ASSUME NEW m \in Maturities,
             Engine!ChargeFailure(m) \/ Engine!GiveUp(m) \/ Engine!Reopen(m)
      PROVE  /\ phase' \in [Maturities -> Engine!Phases]
             /\ posted' \subseteq Maturities
             /\ posted' = SucceededJobs' /\ closed' = posted'
             /\ ExistingJobs \subseteq ExistingJobs'
             /\ SucceededJobs \subseteq SucceededJobs'
    <2>1. SucceededJobs' = SucceededJobs
        BY <1>3 DEF IInv, TypeOK, Engine!ChargeFailure, Engine!GiveUp,
                    Engine!Reopen, SucceededJobs
    <2>2. QED
        BY <1>3, <2>1 DEF IInv, TypeOK, Engine!ChargeFailure, Engine!GiveUp,
                          Engine!Reopen, Engine!Phases, ExistingJobs
<1>4. QED
    BY <1>1, <1>2, <1>3 DEF EngineStep, Engine!Next

(* A committed change of the engine invalidates nothing a request has      *)
(* read.                                                                   *)
LEMMA EngineIInv ==
    ASSUME IInv, EngineStep
    PROVE  IInv'
<1>1. UNCHANGED <<clock, snapshots, request>>
    BY DEF EngineStep
<1>2. TakenSnapshots' = TakenSnapshots
    BY <1>1 DEF TakenSnapshots
<1>3. TypeOK'
    BY <1>1, EngineGrows DEF IInv, TypeOK
<1>4. QED
    BY <1>1, <1>2, <1>3, EngineGrows
       DEF IInv, NoFalseAlarm, SnapshotsFormHistory

(* A request that moves on keeps the invariant if its snapshot is one that *)
(* was taken before, an empty one, or what the tables say now.             *)
LEMMA RequestIInv ==
    ASSUME IInv, NEW r \in Requests, NEW q \in RequestStates,
           request' = [request EXCEPT ![r] = q],
           q.flags \subseteq {"stale_pending"},
           \/ q.row \in TakenSnapshots
           \/ q.row.jobs = {} /\ q.row.succeeded = {}
           \/ q.row.jobs = ExistingJobs /\ q.row.succeeded = SucceededJobs,
           snapshots' \subseteq TakenSnapshots,
           UNCHANGED <<engineVars, clock>>
    PROVE  IInv'
<1>1. TakenSnapshots \subseteq Snapshots
    BY DEF IInv, TypeOK, TakenSnapshots, RequestStates
<1>2. TypeOK'
    BY <1>1 DEF IInv, TypeOK, engineVars
<1>3. NoFalseAlarm'
    BY DEF IInv, TypeOK, NoFalseAlarm
<1>4. ExistingJobs' = ExistingJobs /\ SucceededJobs' = SucceededJobs
    BY DEF ExistingJobs, SucceededJobs, engineVars
<1>5. TakenSnapshots' \subseteq TakenSnapshots \union {q.row}
    BY DEF IInv, TypeOK, TakenSnapshots
<1>6. \A s \in TakenSnapshots \union {q.row} :
         /\ s.jobs \subseteq ExistingJobs
         /\ s.succeeded \subseteq SucceededJobs \intersect s.jobs
    BY DEF IInv, SucceededJobs, ExistingJobs
<1>7. ASSUME NEW s \in TakenSnapshots \union {q.row},
             NEW t \in TakenSnapshots \union {q.row}
      PROVE  \/ s.jobs \subseteq t.jobs /\ s.succeeded \subseteq t.succeeded
             \/ t.jobs \subseteq s.jobs /\ t.succeeded \subseteq s.succeeded
    <2>1. CASE s \in TakenSnapshots /\ t \in TakenSnapshots
        BY <2>1 DEF IInv, SnapshotsFormHistory
    <2>2. CASE s = q.row
        BY <1>6, <2>2 DEF IInv, SnapshotsFormHistory
    <2>3. CASE t = q.row
        BY <1>6, <2>3 DEF IInv, SnapshotsFormHistory
    <2>4. QED
        BY <2>1, <2>2, <2>3
<1>8. SnapshotsFormHistory'
    BY <1>5, <1>7 DEF SnapshotsFormHistory
<1>9. QED
    BY <1>2, <1>3, <1>4, <1>5, <1>6, <1>8 DEF IInv, engineVars

(* A statement of FlagCounts keeps the invariant if it raises no alarm.    *)
LEMMA CountIInv ==
    ASSUME IInv, NEW r \in Requests, NEW pc,
           NEW next \in {"missing", "orphan", "flagged"},
           NEW flag \in CountFlags, NEW counted,
           Count(r, pc, next, flag, counted),
           counted = {} \/ flag = "stale_pending"
    PROVE  IInv'
<1> DEFINE q == [pc |-> next, op |-> request[r].op, row |-> request[r].row,
                 flags |-> IF counted # {} THEN request[r].flags \union {flag}
                           ELSE request[r].flags]
<1>1. request[r] \in RequestStates /\ request[r].flags \subseteq {"stale_pending"}
    BY DEF IInv, TypeOK, NoFalseAlarm
<1>2. q \in RequestStates /\ q.flags \subseteq {"stale_pending"}
    BY <1>1 DEF RequestStates
<1>3. q.row \in TakenSnapshots /\ snapshots \subseteq TakenSnapshots
    BY DEF TakenSnapshots
<1>4. request' = [request EXCEPT ![r] = q] /\ UNCHANGED <<engineVars, clock, snapshots>>
    BY DEF Count, IInv, TypeOK
<1> HIDE DEF q
<1>5. QED
    BY <1>2, <1>3, <1>4, RequestIInv

(* One statement of a snapshot or flag request.                            *)
LEMMA RequestStepIInv ==
    ASSUME IInv, NEW r \in Requests,
           \/ Begin(r) \/ CreateSnapshot(r) \/ GetLatest(r)
           \/ CountSucceededJobsWithoutLedger(r)
           \/ CountOrphanLedgerJobGroups(r)
           \/ CountStalePendingJobs(r)
           \/ Finish(r) \/ Fail(r)
    PROVE  IInv'
<1>1. /\ request[r] \in RequestStates /\ request[r].row \in Snapshots
      /\ snapshots \subseteq TakenSnapshots
      /\ request[r].row \in TakenSnapshots
      /\ request[r].row.at \in Nat
    BY DEF IInv, TypeOK, TakenSnapshots, RequestStates, Snapshots
<1>2. CASE Begin(r)
    <2> DEFINE q == [pc |-> "begun", op |-> "run", flags |-> {},
                     row |-> [at |-> clock, jobs |-> {}, succeeded |-> {}]]
    <2>1. q \in RequestStates
        BY DEF IInv, TypeOK, RequestStates, Snapshots
    <2>2. q.row.jobs = {} /\ q.row.succeeded = {} /\ q.flags = {}
        OBVIOUS
    <2>3. request' = [request EXCEPT ![r] = q]
          /\ UNCHANGED <<engineVars, clock, snapshots>>
        BY <1>2 DEF Begin
    <2> HIDE DEF q
    <2>4. QED
        BY <1>1, <2>1, <2>2, <2>3, RequestIInv
<1>3. CASE CreateSnapshot(r)
    <2> DEFINE q == [pc |-> "row", op |-> "run", flags |-> {},
                     row |-> [at |-> request[r].row.at, jobs |-> ExistingJobs,
                              succeeded |-> SucceededJobs]]
    <2>1. q \in RequestStates
        BY <1>1 DEF RequestStates, Snapshots, ExistingJobs, SucceededJobs
    <2>2. /\ q.row.jobs = ExistingJobs /\ q.row.succeeded = SucceededJobs
          /\ q.flags = {}
        OBVIOUS
    <2>3. request' = [request EXCEPT ![r] = q]
          /\ UNCHANGED <<engineVars, clock, snapshots>>
        BY <1>3 DEF CreateSnapshot, IInv, TypeOK
    <2> HIDE DEF q
    <2>4. QED
        BY <1>1, <2>1, <2>2, <2>3, RequestIInv
<1>4. CASE GetLatest(r)
    <2>1. PICK s \in snapshots : request' = [request EXCEPT ![r] =
                [pc |-> "row", op |-> "latest", flags |-> {}, row |-> s]]
        BY <1>4 DEF GetLatest
    <2> DEFINE q == [pc |-> "row", op |-> "latest", flags |-> {}, row |-> s]
    <2>2. q \in RequestStates
        BY DEF IInv, TypeOK, RequestStates
    <2>3. q.row \in TakenSnapshots /\ q.flags = {}
        BY <1>1
    <2>4. request' = [request EXCEPT ![r] = q]
          /\ UNCHANGED <<engineVars, clock, snapshots>>
        BY <1>4, <2>1 DEF GetLatest
    <2> HIDE DEF q
    <2>5. QED
        BY <1>1, <2>2, <2>3, <2>4, RequestIInv
<1>5. CASE CountSucceededJobsWithoutLedger(r)
    <2>1. SucceededJobs \ posted = {}
        BY DEF IInv
    <2>2. QED
        BY <1>5, <2>1, CountIInv
           DEF CountSucceededJobsWithoutLedger, CountFlags
<1>6. CASE CountOrphanLedgerJobGroups(r)
    <2>1. posted \ SucceededJobs = {}
        BY DEF IInv
    <2>2. QED
        BY <1>6, <2>1, CountIInv DEF CountOrphanLedgerJobGroups, CountFlags
<1>7. CASE CountStalePendingJobs(r)
    <2>1. PICK stale : Count(r, "orphan", "flagged", "stale_pending", stale)
        BY <1>7 DEF CountStalePendingJobs
    <2>2. QED
        BY <2>1, CountIInv DEF CountFlags
<1>8. CASE Finish(r) \/ Fail(r)
    <2>1. IdleRequest \in RequestStates /\ IdleRequest.flags = {}
          /\ IdleRequest.row.jobs = {} /\ IdleRequest.row.succeeded = {}
        BY DEF IdleRequest, RequestStates, NoSnapshot, Snapshots
    <2>2. /\ request' = [request EXCEPT ![r] = IdleRequest]
          /\ UNCHANGED <<engineVars, clock>>
          /\ snapshots' \subseteq TakenSnapshots
        BY <1>1, <1>8 DEF Finish, Fail
    <2>3. QED
        BY <2>1, <2>2, RequestIInv
<1>9. QED
    BY <1>2, <1>3, <1>4, <1>5, <1>6, <1>7, <1>8

(* The inductive invariant of reconciliation beside the engine: the books  *)
(* agree, and what a snapshot has seen of them is still so.                *)
THEOREM InductiveInvariant == Spec => []IInv
<1>1. ASSUME IInv, [Next]_vars PROVE IInv'
    <2>1. CASE EngineStep
        BY <1>1, <2>1, EngineIInv
    <2>2. CASE ClockTicks \/ UNCHANGED vars
        <3>1. /\ UNCHANGED <<engineVars, snapshots, request>>
              /\ clock' \in Nat
            BY <1>1, <2>2 DEF ClockTicks, vars, IInv, TypeOK
        <3>2. QED
            BY <1>1, <3>1
               DEF IInv, TypeOK, engineVars, NoFalseAlarm, TakenSnapshots,
                   SnapshotsFormHistory, ExistingJobs, SucceededJobs
    <2>3. ASSUME NEW r \in Requests,
                 \/ Begin(r) \/ CreateSnapshot(r) \/ GetLatest(r)
                 \/ CountSucceededJobsWithoutLedger(r)
                 \/ CountOrphanLedgerJobGroups(r)
                 \/ CountStalePendingJobs(r)
                 \/ Finish(r) \/ Fail(r)
          PROVE  IInv'
        BY <1>1, <2>3, RequestStepIInv
    <2>4. QED
        BY <1>1, <2>1, <2>2, <2>3 DEF Next
<1>2. QED
    BY InitIInv, <1>1, PTL DEF Spec

(* No request ever reports missing_ledger or orphan_ledger, however its    *)
(* statements interleave with settlements.                                 *)
THEOREM NoAlarmIsFalse == Spec => []NoFalseAlarm
<1>1. IInv => NoFalseAlarm
    BY DEF IInv
<1>2. QED
    BY <1>1, InductiveInvariant, PTL

(* Any two snapshots are comparable: they are points of one history.       *)
THEOREM SnapshotsAreHistory == Spec => []SnapshotsFormHistory
<1>1. IInv => SnapshotsFormHistory
    BY DEF IInv
<1>2. QED
    BY <1>1, InductiveInvariant, PTL

-----------------------------------------------------------------------------
(* Sums of cents.                                                          *)

(* The cents of a set of jobs are a finite set.                            *)
LEMMA CentsFinite ==
    ASSUME NEW jobs \in SUBSET Maturities
    PROVE  IsFiniteSet(UNION {CentsOf(m) : m \in jobs})
<1> DEFINE f == [m \in jobs |-> CentsOf(m)]
           T == {CentsOf(m) : m \in jobs}
<1>1. IsFiniteSet(jobs)
    BY MaturitiesAssumption, FS_Subset
<1>2. f \in Surjection(jobs, T)
    BY DEF Surjection
<1>3. IsFiniteSet(T)
    BY <1>1, <1>2, FS_Surjection
<1>4. \A m \in jobs : IsFiniteSet(CentsOf(m))
  <2> SUFFICES ASSUME NEW m \in jobs PROVE IsFiniteSet(CentsOf(m))
      OBVIOUS
  <2>1. IsFiniteSet({m})
      BY FS_Singleton
  <2>2. 1 \in Int /\ Net[m] \in Int
      BY NetAssumption
  <2>3. IsFiniteSet(1..Net[m])
      BY <2>2, FS_Interval
  <2>4. QED
      BY <2>1, <2>3, FS_Product DEF CentsOf
<1>5. QED
    BY <1>3, <1>4, FS_UNION

(* Taking part of the jobs away takes their cents away, and every job has  *)
(* at least one.                                                           *)
LEMMA CentsDiffer ==
    ASSUME NEW jobs \in SUBSET Maturities, NEW part \in SUBSET jobs
    PROVE  /\ TotalCents(jobs) \in Nat /\ TotalCents(part) \in Nat
           /\ TotalCents(jobs \ part) = TotalCents(jobs) - TotalCents(part)
           /\ TotalCents(jobs) = TotalCents(part) => jobs = part
<1> DEFINE C == UNION {CentsOf(m) : m \in jobs}
           P == UNION {CentsOf(m) : m \in part}
           R == UNION {CentsOf(m) : m \in jobs \ part}
<1>1. IsFiniteSet(C) /\ IsFiniteSet(P)
    BY CentsFinite
<1>2. P \subseteq C
    OBVIOUS
<1>3. \A m, n : \A x \in CentsOf(m) : x \in CentsOf(n) => m = n
    BY DEF CentsOf
<1>4. R = C \ P
  <2>1. ASSUME NEW x \in R PROVE x \in C \ P
    <3>1. PICK m \in jobs \ part : x \in CentsOf(m)
        BY <2>1
    <3>2. \A n \in part : x \notin CentsOf(n)
        BY <1>3, <3>1
    <3>3. QED
        BY <3>1, <3>2
  <2>2. ASSUME NEW x \in C \ P PROVE x \in R
    <3>1. PICK m \in jobs : x \in CentsOf(m)
        BY <2>2
    <3>2. m \notin part
        BY <2>2, <3>1
    <3>3. QED
        BY <3>1, <3>2
  <2>3. QED
      BY <2>1, <2>2
<1>5. C = P => jobs = part
  <2> SUFFICES ASSUME C = P, NEW m \in jobs PROVE m \in part
      OBVIOUS
  <2>1. <<m, 1>> \in CentsOf(m)
      BY NetAssumption DEF CentsOf
  <2>2. <<m, 1>> \in P
      BY <2>1
  <2>3. PICK n \in part : <<m, 1>> \in CentsOf(n)
      BY <2>2
  <2>4. QED
      BY <1>3, <2>1, <2>3
<1> HIDE DEF C, P, R
<1>6. C \intersect P = P
    BY <1>2
<1>7. /\ Cardinality(C) \in Nat /\ Cardinality(P) \in Nat
      /\ Cardinality(C \ P) = Cardinality(C) - Cardinality(P)
    BY <1>1, <1>6, FS_CardinalityType, FS_Difference
<1>8. Cardinality(C) = Cardinality(P) => C = P
    BY <1>1, <1>2, FS_Subset
<1>9. /\ TotalCents(jobs) = Cardinality(C) /\ TotalCents(part) = Cardinality(P)
      /\ TotalCents(jobs \ part) = Cardinality(R)
    BY DEF TotalCents, C, P, R
<1>10. QED
    BY <1>4, <1>5, <1>7, <1>8, <1>9

(* Fewer jobs have no more cents.                                          *)
LEMMA CentsMonotonic ==
    ASSUME NEW jobs \in SUBSET Maturities, NEW part \in SUBSET jobs
    PROVE  TotalCents(part) <= TotalCents(jobs)
<1> DEFINE C == UNION {CentsOf(m) : m \in jobs}
           P == UNION {CentsOf(m) : m \in part}
<1>1. IsFiniteSet(C) /\ P \in SUBSET C
    BY CentsFinite
<1> HIDE DEF C, P
<1>2. Cardinality(P) <= Cardinality(C)
    BY <1>1, FS_Subset
<1>3. QED
    BY <1>2 DEF TotalCents, C, P

(* What a snapshot reports as not yet settled covers, from then on, all    *)
(* that is not in the ledger of the jobs it counted; one that reports no   *)
(* discrepancy proves them settled (AggregateSettlementJobStats, one       *)
(* statement for both totals).                                             *)
THEOREM SnapshotsNeverUnderstate == Spec => []NeverUnderstates
<1>1. ASSUME IInv, NEW s \in TakenSnapshots
      PROVE  /\ TotalCents(s.jobs \ posted) <= DiscrepancyCents(s)
             /\ ~AmountMismatch(s) => s.jobs \subseteq posted \intersect closed
  <2>1. s \in Snapshots
      BY <1>1 DEF IInv, TypeOK, TakenSnapshots, RequestStates
  <2>2. s.jobs \in SUBSET Maturities /\ s.succeeded \in SUBSET s.jobs
      BY <1>1, <2>1 DEF IInv, Snapshots
  <2>3. s.succeeded \subseteq posted /\ closed = posted
      BY <1>1 DEF IInv
  <2>4. DiscrepancyCents(s) = TotalCents(s.jobs \ s.succeeded)
      BY <2>2, CentsDiffer DEF DiscrepancyCents
  <2>5. TotalCents(s.jobs \ posted) <= TotalCents(s.jobs \ s.succeeded)
      BY <2>2, <2>3, CentsMonotonic
  <2>6. ~AmountMismatch(s) => s.jobs = s.succeeded
    <3>1. /\ TotalCents(s.jobs) \in Nat /\ TotalCents(s.succeeded) \in Nat
          /\ TotalCents(s.jobs) = TotalCents(s.succeeded) => s.jobs = s.succeeded
        BY <2>2, CentsDiffer
    <3>2. QED
        BY <3>1 DEF AmountMismatch, DiscrepancyCents
  <2>7. QED
      BY <2>3, <2>4, <2>5, <2>6
<1>2. IInv => NeverUnderstates
    BY <1>1 DEF NeverUnderstates
<1>3. QED
    BY <1>2, InductiveInvariant, PTL
=============================================================================
