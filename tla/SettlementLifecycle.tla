------------------------- MODULE SettlementLifecycle -------------------------
(***************************************************************************)
(* What the settlement engine promises, without saying how: a settlement   *)
(* job is opened once per maturity, is attempted a bounded number of       *)
(* times, and ends either settled (its ledger group posted and its         *)
(* maturity closed in the same instant) or given up, from where only an    *)
(* operator reopens it.  Transactions, row locks, workers, ticks and the   *)
(* pending/failed distinction are the business of SettlementEngine, which  *)
(* is shown to implement this module.                                      *)
(***************************************************************************)
EXTENDS Naturals

CONSTANTS Maturities,   \* maturity schedules; at most one job each
          MaxRetries    \* settlement_jobs.max_retries

VARIABLES phase,        \* [Maturities -> Phases]
          failures,     \* retryable failures charged to the job so far
          posted,       \* maturities whose settlement is in the ledger
          closed        \* maturities marked settled

vars == <<phase, failures, posted, closed>>

Phases == {"unknown", "open", "succeeded", "dead_letter"}

Init ==
    /\ phase = [m \in Maturities |-> "unknown"]
    /\ failures = [m \in Maturities |-> 0]
    /\ posted = {}
    /\ closed = {}

(* One scheduler tick opens a whole batch of jobs, or none of them.        *)
Open(S) ==
    /\ \A m \in S : phase[m] = "unknown"
    /\ phase' = [m \in Maturities |-> IF m \in S THEN "open" ELSE phase[m]]
    /\ UNCHANGED <<failures, posted, closed>>

(* The payout went through: job, ledger and maturity change together.      *)
Settle(m) ==
    /\ phase[m] = "open"
    /\ m \notin posted
    /\ phase' = [phase EXCEPT ![m] = "succeeded"]
    /\ posted' = posted \union {m}
    /\ closed' = closed \union {m}
    /\ UNCHANGED failures

(* A retryable failure is charged only while one more try is allowed.      *)
ChargeFailure(m) ==
    /\ phase[m] = "open"
    /\ failures[m] + 1 < MaxRetries
    /\ failures' = [failures EXCEPT ![m] = failures[m] + 1]
    /\ UNCHANGED <<phase, posted, closed>>

GiveUp(m) ==
    /\ phase[m] = "open"
    /\ phase' = [phase EXCEPT ![m] = "dead_letter"]
    /\ UNCHANGED <<failures, posted, closed>>

(* An operator's replay is the only way out of dead_letter.                *)
Reopen(m) ==
    /\ phase[m] = "dead_letter"
    /\ phase' = [phase EXCEPT ![m] = "open"]
    /\ UNCHANGED <<failures, posted, closed>>

Next ==
    \/ \E S \in SUBSET Maturities : Open(S)
    \/ \E m \in Maturities :
          Settle(m) \/ ChargeFailure(m) \/ GiveUp(m) \/ Reopen(m)

Spec == Init /\ [][Next]_vars
=============================================================================
