-------------------------- MODULE IdempotentRequests --------------------------
(***************************************************************************)
(* The mutating admin endpoints (scheduler tick, replay, requeue,          *)
(* reconciliation run) under an Idempotency-Key: runIdempotent opens a     *)
(* transaction that looks the key up, reserves it and stores the response, *)
(* and inside it runs the handler, which opens a transaction of its own on *)
(* a second pooled connection.  A request is one HTTP call; a client's     *)
(* retry is another request with the same key.  What a handler does is     *)
(* left out: a response is named by the request whose handler produced it. *)
(***************************************************************************)
EXTENDS Naturals, FiniteSets

CONSTANTS
    Requests,       \* HTTP calls
    Keys,           \* (scope, key) pairs
    NoKey,          \* the Idempotency-Key header is absent
    NoRequest,      \* no response
    KeyOf,          \* [Requests -> Keys \union {NoKey}]
    Conns           \* pooled connections that requests can use

ASSUME KeyAssumption == /\ NoKey \notin Keys
                        /\ NoRequest \notin Requests
                        /\ KeyOf \in [Requests -> Keys \union {NoKey}]
ASSUME PoolAssumption == Conns \in Nat

VARIABLES
    faults,     \* whether connections, clients and processes may still fail
    keys,       \* idempotency_keys: the committed row of each key
    stored,     \* response_body: whose handler produced it
    expired,    \* keys with expires_at in the past
    lapsed,     \* requests whose transaction began after their key expired
    executed,   \* requests whose handler has committed
    pc,         \* where each request is
    answer,     \* what the client got
    reply       \* whose handler produced the body the client got

vars == <<faults, keys, stored, expired, lapsed, executed, pc, answer, reply>>
table == <<keys, stored, expired>>

RowStates == {"absent", "in_progress", "completed"}

Places == {"sent", "begun", "missed", "reserved", "handling", "handled",
           "answered"}

(* done and replayed are the 2xx answers; lost means the client saw an     *)
(* error or nothing because something broke.                               *)
Answers == {"none", "done", "replayed", "in_progress", "conflict", "refused",
            "lost"}

TypeOK ==
    /\ faults \in {"possible", "ceased"}
    /\ keys \in [Keys -> RowStates]
    /\ stored \in [Keys -> Requests \union {NoRequest}]
    /\ expired \subseteq Keys
    /\ lapsed \subseteq Requests
    /\ executed \subseteq Requests
    /\ pc \in [Requests -> Places]
    /\ answer \in [Requests -> Answers]
    /\ reply \in [Requests -> Requests \union {NoRequest}]

Init ==
    /\ faults = "possible"
    /\ keys = [k \in Keys |-> "absent"]
    /\ stored = [k \in Keys |-> NoRequest]
    /\ expired = {}
    /\ lapsed = {}
    /\ executed = {}
    /\ pc = [r \in Requests |-> "sent"]
    /\ answer = [r \in Requests |-> "none"]
    /\ reply = [r \in Requests |-> NoRequest]

-----------------------------------------------------------------------------
(* The request's transaction holds an uncommitted row for its key.         *)
Holds(r) == KeyOf[r] # NoKey /\ pc[r] \in {"reserved", "handling", "handled"}

(* Mutant: the INSERT does not wait for an uncommitted duplicate.          *)
InsertDoesNotWait(r) == FALSE

(* Mutant: the lock on the key outlives the transaction that took it.      *)
LockOutlivesTx(r) ==
    \E s \in Requests \ {r} :
        /\ KeyOf[s] = KeyOf[r]
        /\ Holds(s) \/ answer[s] = "done"

(* The unique index: an INSERT waits for a transaction that has inserted   *)
(* the same (scope, key) and has not ended.                                *)
KeyLocked(r) == \E s \in Requests \ {r} : KeyOf[s] = KeyOf[r] /\ Holds(s)

(* GetActiveIdempotencyKey: the row exists and had not expired when the    *)
(* transaction began, which is what now() means to the database.           *)
Active(r) == keys[KeyOf[r]] # "absent" /\ r \notin lapsed

OuterConns == {r \in Requests : KeyOf[r] # NoKey
                                   /\ pc[r] \notin {"sent", "answered"}}
HandlerConns == {r \in Requests : pc[r] = "handling"}

FreeConns == Conns - Cardinality(OuterConns) - Cardinality(HandlerConns)

(* The request ends: its connections are released, its client answered.    *)
End(r, what, whose) ==
    /\ pc' = [pc EXCEPT ![r] = "answered"]
    /\ answer' = [answer EXCEPT ![r] = what]
    /\ reply' = [reply EXCEPT ![r] = whose]

Goto(r, place) ==
    /\ pc' = [pc EXCEPT ![r] = place]
    /\ UNCHANGED <<answer, reply>>

-----------------------------------------------------------------------------
(* runIdempotent without the header: the handler runs by itself.           *)
RunPlain(r) ==
    /\ pc[r] = "sent"
    /\ KeyOf[r] = NoKey
    /\ FreeConns > 0
    /\ Goto(r, "handling")
    /\ UNCHANGED <<faults, lapsed, table, executed>>

(* runIdempotent with the header: WithTx takes a connection.               *)
Begin(r) ==
    /\ pc[r] = "sent"
    /\ KeyOf[r] # NoKey
    /\ FreeConns > 0
    /\ Goto(r, "begun")
    /\ lapsed' = IF KeyOf[r] \in expired THEN lapsed \union {r} ELSE lapsed
    /\ UNCHANGED <<faults, table, executed>>

(* An active row is found by Execute's lookup, or by the one Reserve makes *)
(* before its INSERT: a stored response is replayed, and a row without one *)
(* is ErrKeyInProgress.                                                    *)
LookupHit(r) ==
    LET k == KeyOf[r]
    IN  /\ pc[r] \in {"begun", "missed"}
        /\ Active(r)
        /\ IF keys[k] = "completed" THEN End(r, "replayed", stored[k])
                                    ELSE End(r, "in_progress", NoRequest)
        /\ UNCHANGED <<faults, lapsed, table, executed>>

LookupMiss(r) ==
    /\ pc[r] = "begun"
    /\ ~Active(r)
    /\ Goto(r, "missed")
    /\ UNCHANGED <<faults, lapsed, table, executed>>

(* Mutant: the INSERT replaces the row it finds.                           *)
ReserveReplaces(r) ==
    /\ pc[r] = "missed"
    /\ ~KeyLocked(r)
    /\ Goto(r, "reserved")
    /\ UNCHANGED <<faults, lapsed, table, executed>>

(* CreateIdempotencyKey.                                                   *)
Reserve(r) ==
    /\ pc[r] = "missed"
    /\ ~KeyLocked(r)
    /\ keys[KeyOf[r]] = "absent"
    /\ Goto(r, "reserved")
    /\ UNCHANGED <<faults, lapsed, table, executed>>

(* The row is there, expired or not: the unique violation has aborted the  *)
(* transaction, so the lookup Execute makes next fails, and so does the    *)
(* request.                                                                *)
ReserveConflict(r) ==
    /\ pc[r] = "missed"
    /\ ~KeyLocked(r)
    /\ keys[KeyOf[r]] # "absent"
    /\ End(r, "conflict", NoRequest)
    /\ UNCHANGED <<faults, lapsed, table, executed>>

(* The handler's WithTx waits for a second connection.                     *)
BeginHandler(r) ==
    /\ pc[r] = "reserved"
    /\ FreeConns > 0
    /\ Goto(r, "handling")
    /\ UNCHANGED <<faults, lapsed, table, executed>>

HandlerCommits(r) ==
    /\ pc[r] = "handling"
    /\ executed' = executed \union {r}
    /\ IF KeyOf[r] = NoKey THEN End(r, "done", r) ELSE Goto(r, "handled")
    /\ UNCHANGED <<faults, lapsed, table>>

(* Mutant: the handler fails after its commit, building the response.      *)
ErrorAfterCommit(r) ==
    /\ pc[r] = "handling"
    /\ executed' = executed \union {r}
    /\ End(r, "refused", NoRequest)
    /\ UNCHANGED <<faults, lapsed, table>>

(* The handler refuses (not found, state conflict, ...): both transactions *)
(* are rolled back, and the key is free again.                             *)
HandlerFails(r) ==
    /\ pc[r] = "handling"
    /\ End(r, "refused", NoRequest)
    /\ UNCHANGED <<faults, lapsed, table, executed>>

(* Complete stores the response, and WithTx commits row and response.      *)
Complete(r) ==
    LET k == KeyOf[r]
    IN  /\ pc[r] = "handled"
        /\ keys' = [keys EXCEPT ![k] = "completed"]
        /\ stored' = [stored EXCEPT ![k] = r]
        /\ End(r, "done", r)
        /\ UNCHANGED <<faults, lapsed, expired, executed>>

(* Mutant: the reservation was committed on its own.                       *)
ReservationSurvives(r) ==
    /\ faults = "possible"
    /\ pc[r] \notin {"sent", "answered"}
    /\ keys' = IF Holds(r) THEN [keys EXCEPT ![KeyOf[r]] = "in_progress"]
                           ELSE keys
    /\ End(r, "lost", NoRequest)
    /\ UNCHANGED <<faults, lapsed, stored, expired, executed>>

(* The client hangs up, a connection breaks or the process dies: whatever  *)
(* is not committed is rolled back.                                        *)
Rollback(r) ==
    /\ faults = "possible"
    /\ pc[r] \notin {"sent", "answered"}
    /\ End(r, "lost", NoRequest)
    /\ UNCHANGED <<faults, lapsed, table, executed>>

(* A commit is carried out and its confirmation lost: the handler's own    *)
(* (then the key is rolled back) or the key's.                             *)
HandlerCommitLost(r) ==
    /\ faults = "possible"
    /\ pc[r] = "handling"
    /\ executed' = executed \union {r}
    /\ End(r, "lost", NoRequest)
    /\ UNCHANGED <<faults, lapsed, table>>

CompleteLost(r) ==
    LET k == KeyOf[r]
    IN  /\ faults = "possible"
        /\ pc[r] = "handled"
        /\ keys' = [keys EXCEPT ![k] = "completed"]
        /\ stored' = [stored EXCEPT ![k] = r]
        /\ End(r, "lost", NoRequest)
        /\ UNCHANGED <<faults, lapsed, expired, executed>>

(* The TTL of a stored key runs out; the row stays.                        *)
KeyExpires(k) ==
    /\ keys[k] = "completed"
    /\ k \notin expired
    /\ expired' = expired \union {k}
    /\ UNCHANGED <<faults, lapsed, keys, stored, executed, pc, answer, reply>>

FaultsCease ==
    /\ faults = "possible"
    /\ faults' = "ceased"
    /\ UNCHANGED <<lapsed, table, executed, pc, answer, reply>>

-----------------------------------------------------------------------------
(* What a request does when nothing breaks.                                *)
Progress(r) ==
    \/ RunPlain(r)
    \/ Begin(r)
    \/ LookupHit(r)
    \/ LookupMiss(r)
    \/ Reserve(r)
    \/ ReserveConflict(r)
    \/ BeginHandler(r)
    \/ HandlerCommits(r)
    \/ HandlerFails(r)
    \/ Complete(r)

Fault(r) == Rollback(r) \/ HandlerCommitLost(r) \/ CompleteLost(r)

Next ==
    \/ \E r \in Requests : Progress(r) \/ Fault(r)
    \/ \E k \in Keys : KeyExpires(k)
    \/ FaultsCease

Spec == Init /\ [][Next]_vars

(* A request takes its next step when it can: the server, the database and *)
(* the pool make progress.  No fault is owed, and no client hangs up.      *)
FairSpec == Spec /\ \A r \in Requests : WF_vars(Progress(r))

-----------------------------------------------------------------------------
SameKey(r, s) == KeyOf[r] = KeyOf[s] /\ KeyOf[r] # NoKey

(* Handlers of one key never run side by side, and none runs once a        *)
(* response is stored, expired or not (the unique index as a mutex).       *)
KeyExclusive ==
    \A r \in Requests : Holds(r) =>
        /\ keys[KeyOf[r]] = "absent"
        /\ \A s \in Requests \ {r} : SameKey(r, s) => ~Holds(s)

(* All successful answers under one key carry the response of one and the  *)
(* same execution of the handler (Execute's replay of the stored body).    *)
AnswersAgree ==
    \A r \in Requests : answer[r] \in {"done", "replayed"} =>
        /\ reply[r] \in executed
        /\ KeyOf[reply[r]] = KeyOf[r]
        /\ \A s \in Requests :
              SameKey(r, s) /\ answer[s] \in {"done", "replayed"}
                 => reply[s] = reply[r]

(* The handler runs twice under one key only if a request was lost after   *)
(* its handler's commit: the two commits of runIdempotent are not one.     *)
DoubleExecutionNeedsLoss ==
    \A r, s \in executed :
        r # s /\ SameKey(r, s) => "lost" \in {answer[r], answer[s]}

(* A crash never leaves a key reserved without a response, so nobody is    *)
(* ever told ErrKeyInProgress.                                             *)
NoKeyStuck ==
    /\ \A k \in Keys : keys[k] # "in_progress"
    /\ \A r \in Requests : answer[r] # "in_progress"

(* Every connection is held by a key's transaction that waits: for a       *)
(* connection for its handler, or for the transaction that has its key.    *)
Exhausted ==
    LET waiting == {r \in Requests :
                      /\ KeyOf[r] # NoKey
                      /\ \/ pc[r] = "reserved"
                         \/ pc[r] = "missed" /\ KeyLocked(r)}
    IN  Cardinality(waiting) >= Conns

(* Every request is answered, whatever locks, connections, conflicts and   *)
(* rollbacks it meets, unless keyed requests exhaust the pool for ever: a  *)
(* winner that cannot begin its handler behind duplicates that wait for it *)
(* (runIdempotent).                                                        *)
EveryRequestIsAnswered ==
    \A r \in Requests : <>(pc[r] = "answered" \/ []Exhausted)

-----------------------------------------------------------------------------
(* The inductive invariant: how far a request has got decides what it has  *)
(* executed, and an answer once given is backed by the stored row.         *)

PlacesInv ==
    \A r \in Requests :
        /\ pc[r] = "answered" <=> answer[r] # "none"
        /\ KeyOf[r] = NoKey => pc[r] \in {"sent", "handling", "answered"}
        /\ pc[r] = "handled" => r \in executed
        /\ r \in executed =>
              pc[r] = "handled" \/ answer[r] \in {"done", "lost"}

RowsInv ==
    \A k \in Keys :
        /\ keys[k] # "in_progress"
        /\ keys[k] = "completed" =>
              stored[k] \in executed /\ KeyOf[stored[k]] = k

AnswersInv ==
    \A r \in Requests :
        /\ answer[r] # "in_progress"
        /\ answer[r] = "done" => reply[r] = r /\ r \in executed
        /\ answer[r] = "replayed" => KeyOf[r] # NoKey
        /\ answer[r] \in {"done", "replayed"} /\ KeyOf[r] # NoKey =>
              /\ keys[KeyOf[r]] = "completed"
              /\ reply[r] = stored[KeyOf[r]]

(* What runIdempotent's transactions keep true at every step.              *)
IInv == TypeOK /\ PlacesInv /\ RowsInv /\ AnswersInv /\ KeyExclusive

-----------------------------------------------------------------------------
(* What the documentation says, and the code does not do.                  *)

(* An expired key counts as a miss: the request is executed (the HTTP      *)
(* idempotency flow).                                                      *)
ExpiredKeyIsFree ==
    [][\A r \in Requests :
          answer[r] = "none" /\ answer'[r] = "conflict"
             => r \notin lapsed]_vars
=============================================================================
