-------------------------- MODULE RetryBackoffProofs --------------------------
(***************************************************************************)
(* Proofs about RetryBackoff, for any policy, width of time.Duration,      *)
(* number of jobs and workers, and disagreement of clocks.                 *)
(***************************************************************************)
EXTENDS RetryBackoff, TLAPS

(* Two's complement: exact in range, and never above a value that is not   *)
(* below the range.                                                        *)
LEMMA WrapFacts ==
    ASSUME NEW x \in Int
    PROVE  /\ Wrap(x) \in Int
           /\ Wrap(x) <= MaxInt /\ Wrap(x) >= -(MaxInt + 1)
           /\ x >= -(MaxInt + 1) => Wrap(x) <= x
           /\ x >= -(MaxInt + 1) /\ x <= MaxInt => Wrap(x) = x
<1> DEFINE m == 2 * (MaxInt + 1)
           y == x + MaxInt + 1
<1>1. m \in Nat /\ m > 0 /\ y \in Int
  BY DelayAssumption
<1>2. y % m \in 0..(m - 1) /\ (y >= 0 => y % m <= y) /\ (y \in 0..(m - 1) => y % m = y)
  <2> HIDE DEF m, y
  <2>1. y % m \in 0..(m - 1)
    BY <1>1
  <2>2. y = m * (y \div m) + (y % m)
    BY <1>1
  <2>3. y \div m \in Int
    BY <1>1
  <2>4. ASSUME y >= 0 PROVE y \div m >= 0
    BY <1>1, <2>1, <2>2, <2>3, <2>4
  <2>5. ASSUME y >= 0 PROVE y % m <= y
    <3>1. m * (y \div m) >= 0
      BY <1>1, <2>3, <2>4, <2>5
    <3> QED BY <3>1, <2>1, <2>2, <1>1
  <2>6. ASSUME y \in 0..(m - 1) PROVE y % m = y
    BY <2>6, <1>1
  <2> QED BY <2>1, <2>5, <2>6
<1>3. Wrap(x) = (y % m) - (MaxInt + 1)
  BY DEF Wrap
<1> QED BY <1>1, <1>2, <1>3, DelayAssumption

(* The delays the policy is configured with fit a time.Duration.           *)
LEMMA PolicyTypes == Base \in Nat \ {0} /\ Cap \in Nat \ {0} /\ Cap <= MaxInt
BY DelayAssumption DEF Base, Cap

(* The delay is never above the cap, and it is the documented one as long  *)
(* as the product fits (NextRetryAt).                                      *)
LEMMA DelayFacts ==
    ASSUME NEW n \in Nat
    PROVE  /\ Delay(n) \in Int
           /\ Delay(n) <= Cap /\ Delay(n) >= -(MaxInt + 1)
           /\ Owed(n) \in Int
           /\ InRange(n) => Delay(n) = Owed(n) /\ Delay(n) >= 0
<1>1. Shift(n) \in Nat
  BY DelayAssumption DEF Shift
<1>2. 2^Shift(n) \in Int /\ 2^n \in Int
  BY <1>1
<1>3. Base * 2^Shift(n) \in Int /\ Base * 2^n \in Int
  BY <1>2, PolicyTypes
<1> DEFINE p == Base * 2^Shift(n)
<1>4. Wrap(p) \in Int /\ Wrap(p) >= -(MaxInt + 1)
  BY <1>3, WrapFacts
<1>5. Delay(n) \in Int /\ Delay(n) <= Cap /\ Delay(n) >= -(MaxInt + 1)
  BY <1>4, PolicyTypes, DelayAssumption DEF Delay
<1>6. Owed(n) \in Int
  BY <1>3, PolicyTypes DEF Owed
<1>7. ASSUME InRange(n) PROVE Delay(n) = Owed(n) /\ Delay(n) >= 0
  <2>1. Shift(n) = n /\ p >= 0 /\ p <= MaxInt
    BY <1>7, DelayAssumption DEF Shift, InRange
  <2>2. Wrap(p) = p
    BY <2>1, <1>3, WrapFacts, DelayAssumption
  <2> QED BY <2>1, <2>2, <1>3, PolicyTypes DEF Delay, Owed
<1> QED BY <1>5, <1>6, <1>7

(* The time NextRetryAt returns lies where Scheduled says.                 *)
LEMMA NextRetryAtFacts ==
    ASSUME NEW n \in Nat, NEW t \in Nat,
           NEW offset \in -Skew..Skew, NEW jitter \in 0..(JitterBound - 1)
    PROVE  LET next == NextRetryAt(n, t + offset, jitter)
           IN  /\ next \in Int
               /\ next <= t + Skew + Cap + (JitterBound - 1)
               /\ InRange(n) => next >= t + Owed(n) - Skew
<1> DEFINE d == Delay(n)
           x == d + jitter
<1>1. d \in Int /\ d <= Cap /\ d >= -(MaxInt + 1) /\ Owed(n) \in Int
  BY DelayFacts
<1>2. x \in Int /\ x >= -(MaxInt + 1) /\ x <= Cap + (JitterBound - 1)
  BY <1>1, PolicyTypes, DelayAssumption
<1>3. Wrap(x) \in Int /\ Wrap(x) <= x
  BY <1>2, WrapFacts
<1>4. NextRetryAt(n, t + offset, jitter) = t + offset + Wrap(x)
  BY DEF NextRetryAt
<1>5. ASSUME InRange(n) PROVE Wrap(x) >= Owed(n)
  <2>1. d = Owed(n) /\ d >= 0
    BY <1>5, DelayFacts
  <2>2. Cap + (JitterBound - 1) <= MaxInt
    BY <1>5 DEF InRange
  <2>3. Wrap(x) = x
    BY <1>2, <2>2, WrapFacts, PolicyTypes, DelayAssumption
  <2> QED BY <2>1, <2>3, <1>1, DelayAssumption
<1> HIDE DEF d, x
<1> QED BY <1>1, <1>2, <1>3, <1>4, <1>5, ClockAssumption, PolicyTypes, DelayAssumption

-----------------------------------------------------------------------------
(* Induction, one lemma per kind of step.                                  *)

(* Jobs that have not been tried yet.                                      *)
LEMMA InitInv == Init => IInv
BY ClockAssumption, NullAssumption
   DEF Init, IInv, TypeOK, Rows, FreshRow, TxStates, IdleTx, Scheduled, TxKnows

(* A step of one worker that leaves the rows and the other workers alone.  *)
LEMMA WorkerStep ==
    ASSUME IInv, NEW w \in Workers, NEW new \in TxStates,
           tx' = [tx EXCEPT ![w] = new], UNCHANGED <<clock, job>>,
           new.pc \in {"idle", "begun"} => new.job = NoJob,
           new.pc \in {"claimed", "done"} =>
              /\ new.job \in Jobs
              /\ Due(new.job, new.now)
              /\ \A v \in Workers \ {w} : tx[v].job # new.job,
           new.pc = "claimed" => new.row = job[new.job],
           new.pc = "done" => Scheduled(new.row)
    PROVE  IInv'
<1>1. TypeOK'
  BY DEF IInv, TypeOK
<1>2. ASSUME NEW j \in Jobs PROVE Scheduled(job[j])'
  BY DEF IInv, Scheduled, InRange, Owed
<1>3. tx'[w] = new /\ \A v \in Workers \ {w} : tx'[v] = tx[v]
  BY DEF IInv, TypeOK
<1>4. TxKnows(w)'
  BY <1>3 DEF TxKnows, Due, Scheduled, InRange, Owed
<1>5. ASSUME NEW v \in Workers, v # w PROVE TxKnows(v)'
  <2>1. TxKnows(v) /\ TxKnows(w)
    BY DEF IInv
  <2>2. tx[v].pc \in {"claimed", "done"} =>
           tx[v].job \in Jobs /\ new.job # tx[v].job
    BY <2>1, <1>5, NoJobAssumption DEF TxKnows, TxStates
  <2> QED BY <2>1, <2>2, <1>3, <1>5
          DEF TxKnows, Due, Scheduled, InRange, Owed
<1> QED BY <1>1, <1>2, <1>4, <1>5 DEF IInv

(* One statement of a worker, a requeue or a step of the clock.            *)
LEMMA NextInv == IInv /\ [Next]_vars => IInv'
<1> SUFFICES ASSUME IInv, [Next]_vars PROVE IInv'
  OBVIOUS
<1>0. TypeOK /\ (\A j \in Jobs : Scheduled(job[j])) /\ \A w \in Workers : TxKnows(w)
  BY DEF IInv
<1>i. IdleTx \in TxStates /\ IdleTx.pc = "idle" /\ IdleTx.job = NoJob
  BY NullAssumption DEF IdleTx, TxStates, FreshRow, Rows
<1>1. CASE Tick
  BY <1>0, <1>1, ClockAssumption
     DEF Tick, IInv, TypeOK, Scheduled, InRange, Owed, TxKnows, Due
<1>2. ASSUME NEW w \in Workers, Begin(w) PROVE IInv'
  <2> DEFINE new == [IdleTx EXCEPT !.pc = "begun", !.now = clock]
  <2>1. new \in TxStates /\ new.pc = "begun" /\ new.job = NoJob
    BY <1>0, NullAssumption DEF IdleTx, TxStates, FreshRow, Rows, TypeOK
  <2> HIDE DEF new
  <2> QED BY <1>2, <2>1, WorkerStep DEF Begin, new
<1>3. ASSUME NEW w \in Workers, NEW j \in Jobs, Claim(w, j) PROVE IInv'
  <2> DEFINE new == [tx[w] EXCEPT !.pc = "claimed", !.job = j, !.row = job[j]]
  <2>1. /\ new \in TxStates /\ new.pc = "claimed" /\ new.job = j
        /\ new.row = job[j] /\ new.now = tx[w].now
    BY <1>0 DEF TypeOK, TxStates
  <2>2. tx' = [tx EXCEPT ![w] = new]
    BY <1>3, <1>0 DEF Claim, TypeOK, TxStates
  <2>3. Due(j, new.now) /\ \A v \in Workers : tx[v].job # j
    BY <1>3, <2>1 DEF Claim, Locked
  <2>4. UNCHANGED <<clock, job>>
    BY <1>3 DEF Claim
  <2> HIDE DEF new
  <2> QED BY <2>1, <2>2, <2>3, <2>4, WorkerStep
<1>4. ASSUME NEW w \in Workers, NoJobAvailable(w) \/ Rollback(w) PROVE IInv'
  BY <1>4, <1>i, WorkerStep DEF NoJobAvailable, Rollback
<1>5. ASSUME NEW w \in Workers, ScheduleRetry(w) PROVE IInv'
  <2>1. tx[w] \in TxStates /\ tx[w].row \in Rows /\ TxKnows(w)
    BY <1>0 DEF TypeOK, TxStates
  <2>2. PICK offset \in -Skew..Skew, jitter \in 0..(JitterBound - 1) :
           tx' = [tx EXCEPT ![w].pc = "done", ![w].row =
                    [status |-> "failed", retry |-> tx[w].row.retry + 1,
                     next |-> NextRetryAt(tx[w].row.retry, clock + offset, jitter),
                     at |-> clock]]
    BY <1>5 DEF ScheduleRetry
  <2> DEFINE n == tx[w].row.retry
             next == NextRetryAt(n, clock + offset, jitter)
             row == [status |-> "failed", retry |-> n + 1, next |-> next, at |-> clock]
             new == [tx[w] EXCEPT !.pc = "done", !.row = row]
  <2>3. n \in Nat /\ clock \in Nat
    BY <2>1, <1>0 DEF Rows, TypeOK
  <2>4. /\ next \in Int
        /\ next <= clock + Skew + Cap + (JitterBound - 1)
        /\ InRange(n) => next >= clock + Owed(n) - Skew
    BY <2>3, NextRetryAtFacts
  <2> HIDE DEF next
  <2>5. row \in Rows /\ row.retry = n + 1 /\ row.retry - 1 = n
    BY <2>3, <2>4 DEF Rows
  <2>6. Scheduled(row)
    BY <2>3, <2>4, <2>5 DEF Scheduled
  <2> HIDE DEF n, row
  <2>7. /\ new \in TxStates /\ new.pc = "done" /\ new.job = tx[w].job
        /\ new.row = row /\ new.now = tx[w].now
    BY <2>1, <2>5 DEF TxStates
  <2>8. tx' = [tx EXCEPT ![w] = new]
    BY <2>1, <2>2, <1>0 DEF TypeOK, TxStates, new, row, next, n
  <2>9. tx[w].pc = "claimed" /\ UNCHANGED <<clock, job>>
    BY <1>5 DEF ScheduleRetry
  <2> HIDE DEF new
  <2>10. /\ new.job \in Jobs /\ Due(new.job, new.now)
         /\ \A v \in Workers \ {w} : tx[v].job # new.job
    BY <2>1, <2>7, <2>9 DEF TxKnows
  <2> QED BY <2>6, <2>7, <2>8, <2>9, <2>10, WorkerStep
<1>6. ASSUME NEW w \in Workers, NEW status \in {"succeeded", "dead_letter"},
             Decide(w, status)
      PROVE  IInv'
  <2>1. tx[w] \in TxStates /\ tx[w].row \in Rows /\ TxKnows(w)
    BY <1>0 DEF TypeOK, TxStates
  <2> DEFINE row == [tx[w].row EXCEPT !.status = status, !.at = 0]
             new == [tx[w] EXCEPT !.pc = "done", !.row = row]
  <2>2. row \in Rows /\ row.status # "failed"
    BY <2>1, <1>6 DEF Rows
  <2>3. tx' = [tx EXCEPT ![w] = new]
    BY <1>6, <2>1, <1>0 DEF Decide, TypeOK, TxStates, Rows
  <2> HIDE DEF row
  <2>4. /\ new \in TxStates /\ new.pc = "done" /\ new.job = tx[w].job
        /\ new.row = row /\ new.now = tx[w].now
    BY <2>1, <2>2 DEF TxStates
  <2>5. tx[w].pc = "claimed" /\ UNCHANGED <<clock, job>>
    BY <1>6 DEF Decide
  <2> HIDE DEF new
  <2>6. /\ new.job \in Jobs /\ Due(new.job, new.now)
        /\ \A v \in Workers \ {w} : tx[v].job # new.job
    BY <2>1, <2>4, <2>5 DEF TxKnows
  <2>7. Scheduled(row)
    BY <2>2 DEF Scheduled
  <2> QED BY <2>3, <2>4, <2>5, <2>6, <2>7, WorkerStep
<1>7. ASSUME NEW w \in Workers, Commit(w) PROVE IInv'
  <2>1. /\ tx[w].pc = "done" /\ tx[w].job \in Jobs /\ tx[w].row \in Rows
        /\ Scheduled(tx[w].row) /\ \A v \in Workers \ {w} : tx[v].job # tx[w].job
    BY <1>7, <1>0 DEF Commit, TxKnows, TypeOK, TxStates
  <2>2. job' = [job EXCEPT ![tx[w].job] = tx[w].row] /\ tx' = [tx EXCEPT ![w] = IdleTx]
        /\ clock' = clock
    BY <1>7 DEF Commit
  <2>3. TypeOK'
    BY <2>1, <2>2, <1>i, <1>0 DEF TypeOK
  <2>4. ASSUME NEW j \in Jobs PROVE Scheduled(job[j])'
    BY <2>1, <2>2, <1>0 DEF TypeOK, Scheduled, InRange, Owed
  <2>5. ASSUME NEW v \in Workers PROVE TxKnows(v)'
    <3>1. CASE v = w
      BY <3>1, <2>2, <1>i, <1>0 DEF TypeOK, TxKnows
    <3>2. CASE v # w
      <4>1. tx'[v] = tx[v] /\ TxKnows(v) /\ tx[v].job # tx[w].job
        BY <3>2, <2>1, <2>2, <1>0 DEF TypeOK
      <4>2. tx[v].job \in Jobs => job'[tx[v].job] = job[tx[v].job]
        BY <4>1, <2>1, <2>2, <1>0 DEF TypeOK
      <4>3. \A u \in Workers \ {v} : tx[v].job \in Jobs /\ tx[u].job # tx[v].job
                                     => tx'[u].job # tx[v].job
        BY <2>2, <1>i, <1>0, NoJobAssumption DEF TypeOK
      <4> QED BY <4>1, <4>2, <4>3 DEF TxKnows, Due, Scheduled, InRange, Owed
    <3> QED BY <3>1, <3>2
  <2> QED BY <2>3, <2>4, <2>5 DEF IInv
<1>8. ASSUME NEW j \in Jobs, BackToPending(j) PROVE IInv'
  <2>1. /\ job' = [job EXCEPT ![j].status = "pending", ![j].next = Null, ![j].at = 0]
        /\ tx' = tx /\ clock' = clock /\ \A w \in Workers : tx[w].job # j
    BY <1>8 DEF BackToPending, Locked
  <2>2. job'[j] \in Rows /\ job'[j].status = "pending"
    BY <2>1, <1>0 DEF TypeOK, Rows
  <2>3. \A i \in Jobs \ {j} : job'[i] = job[i]
    BY <2>1, <1>0 DEF TypeOK
  <2>4. TypeOK'
    BY <2>1, <2>2, <2>3, <1>0 DEF TypeOK
  <2>5. ASSUME NEW i \in Jobs PROVE Scheduled(job[i])'
    BY <2>2, <2>3, <1>0 DEF Scheduled, InRange, Owed
  <2>6. ASSUME NEW w \in Workers PROVE TxKnows(w)'
    <3>1. TxKnows(w) /\ tx[w].job # j
      BY <2>1, <1>0
    <3>2. tx[w].job \in Jobs => job'[tx[w].job] = job[tx[w].job]
      BY <3>1, <2>3
    <3>3. tx' = tx
      BY <2>1
    <3> QED BY <3>1, <3>2, <3>3 DEF TxKnows, Due, Scheduled, InRange, Owed
  <2> QED BY <2>4, <2>5, <2>6 DEF IInv
<1>9. CASE UNCHANGED vars
  BY <1>0, <1>9 DEF vars, IInv, TypeOK, Scheduled, InRange, Owed, TxKnows, Due
<1> QED BY <1>1, <1>2, <1>3, <1>4, <1>5, <1>6, <1>7, <1>8, <1>9 DEF Next

(* For any policy and any clocks within the skew, every stored retry time  *)
(* lies where NextRetryAt should put it, and every claim was due when its  *)
(* transaction began.                                                      *)
THEOREM InductiveInvariant == Spec => []IInv
<1>1. Init => IInv
  BY InitInv
<1>2. IInv /\ [Next]_vars => IInv'
  BY NextInv
<1> QED BY <1>1, <1>2, PTL DEF Spec

(* A failed job is not claimed before its backoff, less the skew, whenever *)
(* the product in NextRetryAt fits time.Duration.                          *)
THEOREM BackoffIsRespected == Spec => []BackoffRespected
<1>1. IInv => BackoffRespected
  <2> SUFFICES ASSUME IInv, NEW w \in Workers, tx[w].pc \in {"claimed", "done"},
                      job[tx[w].job].status = "failed",
                      InRange(job[tx[w].job].retry - 1)
               PROVE  tx[w].now >= job[tx[w].job].at
                         + Owed(job[tx[w].job].retry - 1) - Skew
    BY DEF BackoffRespected
  <2> DEFINE row == job[tx[w].job]
  <2>1. tx[w].job \in Jobs /\ Due(tx[w].job, tx[w].now) /\ tx[w].now \in Nat
    BY DEF IInv, TxKnows, TypeOK, TxStates
  <2>2. /\ row \in Rows /\ row.retry > 0 /\ row.next \in Int
        /\ row.next >= row.at + Owed(row.retry - 1) - Skew
    BY <2>1 DEF IInv, Scheduled, TypeOK
  <2>3. row.next <= tx[w].now
    BY <2>1, <2>2, NullAssumption DEF Due
  <2>4. row.retry - 1 \in Nat /\ row.at \in Nat
    BY <2>2 DEF Rows
  <2>5. Owed(row.retry - 1) \in Int
    BY <2>4, DelayFacts
  <2> QED BY <2>1, <2>2, <2>3, <2>4, <2>5, ClockAssumption
<1> QED BY <1>1, InductiveInvariant, PTL

(* A failed job is due again after the cap, the jitter and the skew, for   *)
(* every retry count, overflow included.                                   *)
THEOREM WaitIsAlwaysBounded == Spec => []WaitIsBounded
<1>1. IInv => WaitIsBounded
  <2> SUFFICES ASSUME IInv, NEW j \in Jobs, job[j].status = "failed",
                      clock >= job[j].at + Cap + (JitterBound - 1) + Skew
               PROVE  Due(j, clock)
    BY DEF WaitIsBounded
  <2>1. /\ job[j] \in Rows /\ clock \in Nat /\ job[j].next \in Int
        /\ job[j].next <= job[j].at + Skew + Cap + (JitterBound - 1)
    BY DEF IInv, Scheduled, TypeOK
  <2>2. job[j].at \in Nat
    BY <2>1 DEF Rows
  <2> QED BY <2>1, <2>2, PolicyTypes, DelayAssumption, ClockAssumption DEF Due
<1> QED BY <1>1, InductiveInvariant, PTL
=============================================================================
