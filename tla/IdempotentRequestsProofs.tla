----------------------- MODULE IdempotentRequestsProofs -----------------------
(***************************************************************************)
(* Proofs about IdempotentRequests, for any number of requests and keys    *)
(* and any size of the connection pool.                                    *)
(***************************************************************************)
EXTENDS IdempotentRequests, TLAPS

(* With no request under way and no row stored, the invariant holds.       *)
LEMMA InitIInv == Init => IInv
BY KeyAssumption DEF Init, IInv, TypeOK, PlacesInv, RowsInv, AnswersInv,
       KeyExclusive, Holds, RowStates, Places, Answers

(* A request that moves on without touching the table or committing its    *)
(* handler keeps the invariant, provided that it takes a key only when the *)
(* key is free.                                                            *)
LEMMA MoveIInv ==
    ASSUME IInv, NEW r \in Requests, NEW place \in Places \ {"answered", "handled"},
           pc[r] \notin {"answered", "handled"},
           Goto(r, place), UNCHANGED <<faults, table, executed>>,
           lapsed' \subseteq Requests,
           KeyOf[r] = NoKey => place = "handling",
           KeyOf[r] # NoKey /\ place \in {"reserved", "handling"} =>
              Holds(r) \/ (~KeyLocked(r) /\ keys[KeyOf[r]] = "absent")
    PROVE  IInv'
<1>1. TypeOK'
    BY DEF IInv, TypeOK, Goto, table
<1>2. PlacesInv'
    BY DEF IInv, TypeOK, PlacesInv, Goto, Places
<1>3. RowsInv' /\ AnswersInv'
    BY DEF IInv, RowsInv, AnswersInv, Goto, table
<1>4. KeyExclusive'
    BY DEF IInv, TypeOK, KeyExclusive, KeyLocked, SameKey, Holds, Goto, table
<1>5. QED
    BY <1>1, <1>2, <1>3, <1>4 DEF IInv

(* A request that ends without a response, and without touching the table, *)
(* keeps the invariant; only a lost one may have executed its handler.     *)
LEMMA EndIInv ==
    ASSUME IInv, NEW r \in Requests, pc[r] # "answered",
           NEW what \in {"conflict", "refused", "lost"},
           End(r, what, NoRequest), UNCHANGED <<faults, lapsed, table>>,
           executed' = executed
              \/ (what = "lost" /\ executed' = executed \union {r}),
           what # "lost" => pc[r] # "handled"
    PROVE  IInv'
<1>1. TypeOK'
    BY DEF IInv, TypeOK, End, table, Places, Answers
<1>2. PlacesInv'
    BY DEF IInv, TypeOK, PlacesInv, End, Places
<1>3. RowsInv'
    BY DEF IInv, RowsInv, table
<1>4. AnswersInv'
    BY DEF IInv, TypeOK, AnswersInv, End, table
<1>5. KeyExclusive'
    BY DEF IInv, TypeOK, KeyExclusive, SameKey, Holds, End, table
<1>6. QED
    BY <1>1, <1>2, <1>3, <1>4, <1>5 DEF IInv

(* A replay hands out the stored response: no committed row is without     *)
(* one, so ErrKeyInProgress is not an outcome.                             *)
LEMMA LookupHitIInv ==
    ASSUME IInv, NEW r \in Requests, LookupHit(r)
    PROVE  IInv'
<1>1. KeyOf[r] \in Keys /\ pc[r] \in {"begun", "missed"}
    BY KeyAssumption DEF IInv, PlacesInv, LookupHit
<1>2. /\ keys[KeyOf[r]] = "completed"
      /\ End(r, "replayed", stored[KeyOf[r]])
      /\ UNCHANGED <<faults, lapsed, table, executed>>
    BY <1>1 DEF IInv, TypeOK, RowsInv, RowStates, LookupHit, Active
<1>3. TypeOK'
    BY <1>1, <1>2 DEF IInv, TypeOK, End, table, Places, Answers
<1>4. PlacesInv'
    BY <1>1, <1>2 DEF IInv, TypeOK, PlacesInv, End, Places
<1>5. RowsInv'
    BY <1>2 DEF IInv, RowsInv, table
<1>6. AnswersInv'
    BY <1>1, <1>2, KeyAssumption DEF IInv, TypeOK, AnswersInv, End, table
<1>7. KeyExclusive'
    BY <1>2 DEF IInv, TypeOK, KeyExclusive, SameKey, Holds, End, table
<1>8. QED
    BY <1>3, <1>4, <1>5, <1>6, <1>7 DEF IInv

(* A handler's commit makes its request an executed one.                   *)
LEMMA HandlerCommitsIInv ==
    ASSUME IInv, NEW r \in Requests, HandlerCommits(r)
    PROVE  IInv'
<1>1. TypeOK'
    BY DEF IInv, TypeOK, HandlerCommits, End, Goto, table, Places, Answers
<1>2. PlacesInv'
    BY DEF IInv, TypeOK, PlacesInv, HandlerCommits, End, Goto, Places
<1>3. RowsInv'
    BY DEF IInv, RowsInv, HandlerCommits, table
<1>4. AnswersInv'
    BY DEF IInv, TypeOK, PlacesInv, AnswersInv, HandlerCommits, End, Goto, table
<1>5. KeyExclusive'
    BY DEF IInv, TypeOK, KeyExclusive, SameKey, Holds, HandlerCommits, End,
           Goto, table
<1>6. QED
    BY <1>1, <1>2, <1>3, <1>4, <1>5 DEF IInv

(* The response is stored under a key that had none: every answer given    *)
(* under it so far was not a success.                                      *)
LEMMA CompleteIInv ==
    ASSUME IInv, NEW r \in Requests, Complete(r) \/ CompleteLost(r)
    PROVE  IInv'
<1>1. pc[r] = "handled" /\ r \in executed /\ KeyOf[r] \in Keys /\ Holds(r)
    BY KeyAssumption DEF IInv, PlacesInv, Complete, CompleteLost, Holds
<1>2. keys[KeyOf[r]] = "absent"
    BY <1>1 DEF IInv, KeyExclusive
<1>3. PICK what \in {"done", "lost"} :
         /\ keys' = [keys EXCEPT ![KeyOf[r]] = "completed"]
         /\ stored' = [stored EXCEPT ![KeyOf[r]] = r]
         /\ End(r, what, IF what = "done" THEN r ELSE NoRequest)
         /\ UNCHANGED <<faults, lapsed, expired, executed>>
    BY DEF Complete, CompleteLost
<1>4. TypeOK'
    BY <1>1, <1>3 DEF IInv, TypeOK, End, RowStates, Places, Answers
<1>5. PlacesInv'
    BY <1>1, <1>3 DEF IInv, TypeOK, PlacesInv, End, Places
<1>6. RowsInv'
    BY <1>1, <1>3 DEF IInv, TypeOK, RowsInv
<1>7. AnswersInv'
    BY <1>1, <1>2, <1>3, KeyAssumption DEF IInv, TypeOK, AnswersInv, End
<1>8. KeyExclusive'
    BY <1>1, <1>3 DEF IInv, TypeOK, KeyExclusive, SameKey, Holds, End
<1>9. QED
    BY <1>4, <1>5, <1>6, <1>7, <1>8 DEF IInv

(* Every step, and every stuttering step, preserves the invariant.         *)
LEMMA NextIInv == IInv /\ [Next]_vars => IInv'
<1> SUFFICES ASSUME IInv, [Next]_vars PROVE IInv'
    OBVIOUS
<1>1. CASE UNCHANGED vars
    BY <1>1 DEF vars, IInv, TypeOK, PlacesInv, RowsInv, AnswersInv,
                KeyExclusive, Holds, SameKey
<1>2. ASSUME NEW r \in Requests, Progress(r) PROVE IInv'
  <2> lapsed \subseteq Requests
      BY DEF IInv, TypeOK
  <2>1. CASE RunPlain(r)
      BY <2>1, MoveIInv DEF RunPlain, Places
  <2>2. CASE Begin(r)
      BY <2>2, MoveIInv DEF Begin, Places
  <2>3. CASE LookupHit(r)
      BY <2>3, LookupHitIInv
  <2>4. CASE LookupMiss(r)
      BY <2>4, MoveIInv DEF LookupMiss, Places, IInv, PlacesInv
  <2>5. CASE Reserve(r)
      BY <2>5, MoveIInv DEF Reserve, Places, IInv, PlacesInv
  <2>6. CASE ReserveConflict(r)
      BY <2>6, EndIInv DEF ReserveConflict
  <2>7. CASE BeginHandler(r)
      BY <2>7, MoveIInv DEF BeginHandler, Places, Holds
  <2>8. CASE HandlerCommits(r)
      BY <2>8, HandlerCommitsIInv
  <2>9. CASE HandlerFails(r)
      BY <2>9, EndIInv DEF HandlerFails
  <2>10. CASE Complete(r)
      BY <2>10, CompleteIInv
  <2>11. QED
      BY <1>2, <2>1, <2>2, <2>3, <2>4, <2>5, <2>6, <2>7, <2>8, <2>9, <2>10
         DEF Progress
<1>3. ASSUME NEW r \in Requests, Fault(r) PROVE IInv'
  <2>1. CASE Rollback(r)
      BY <2>1, EndIInv DEF Rollback
  <2>2. CASE HandlerCommitLost(r)
      BY <2>2, EndIInv DEF HandlerCommitLost
  <2>3. CASE CompleteLost(r)
      BY <2>3, CompleteIInv
  <2>4. QED
      BY <1>3, <2>1, <2>2, <2>3 DEF Fault
<1>4. ASSUME NEW k \in Keys, KeyExpires(k) PROVE IInv'
    BY <1>4 DEF KeyExpires, IInv, TypeOK, PlacesInv, RowsInv, AnswersInv,
                KeyExclusive, Holds, SameKey
<1>5. CASE FaultsCease
    BY <1>5 DEF FaultsCease, table, IInv, TypeOK, PlacesInv, RowsInv,
                AnswersInv, KeyExclusive, Holds, SameKey
<1>6. QED
    BY <1>1, <1>2, <1>3, <1>4, <1>5 DEF Next

(* IInv holds in every reachable state of the keyed endpoints.             *)
THEOREM InductiveInvariant == Spec => []IInv
BY InitIInv, NextIInv, PTL DEF Spec

(* The unique index keeps the handlers of one key apart.                   *)
THEOREM KeysExclude == Spec => []KeyExclusive
<1>1. IInv => KeyExclusive
    BY DEF IInv
<1>2. QED
    BY <1>1, InductiveInvariant, PTL

(* Whatever crashes, all successful answers under a key are one answer.    *)
THEOREM AnswersAlwaysAgree == Spec => []AnswersAgree
<1>1. IInv => AnswersAgree
    BY KeyAssumption
       DEF IInv, TypeOK, RowsInv, AnswersInv, AnswersAgree, SameKey
<1>2. QED
    BY <1>1, InductiveInvariant, PTL

(* Only a loss between the two commits of runIdempotent executes a key     *)
(* twice.                                                                  *)
THEOREM LossPrecedesDoubleExecution == Spec => []DoubleExecutionNeedsLoss
<1>1. ASSUME IInv, NEW r \in executed, NEW s \in executed,
             r # s, SameKey(r, s), answer[r] # "lost", answer[s] # "lost"
      PROVE  FALSE
  <2>1. r \in Requests /\ s \in Requests
      BY <1>1 DEF IInv, TypeOK
  <2>2. ~(Holds(r) /\ Holds(s))
      BY <1>1, <2>1 DEF IInv, KeyExclusive
  <2>3. pc[r] = "handled" => Holds(r)
      BY <1>1 DEF Holds, SameKey
  <2>4. pc[s] = "handled" => Holds(s)
      BY <1>1 DEF Holds, SameKey
  <2>5. answer[r] = "done" \/ answer[s] = "done"
      BY <1>1, <2>1, <2>2, <2>3, <2>4 DEF IInv, PlacesInv
  <2>6. keys[KeyOf[r]] = "completed"
      BY <1>1, <2>1, <2>5 DEF IInv, AnswersInv, SameKey
  <2>7. ~Holds(r) /\ ~Holds(s)
      BY <1>1, <2>1, <2>6 DEF IInv, KeyExclusive, SameKey
  <2>8. answer[r] = "done" /\ answer[s] = "done"
      BY <1>1, <2>1, <2>3, <2>4, <2>7 DEF IInv, PlacesInv
  <2>9. QED
      BY <1>1, <2>1, <2>8 DEF IInv, AnswersInv, SameKey
<1>2. IInv => DoubleExecutionNeedsLoss
    BY <1>1 DEF DoubleExecutionNeedsLoss
<1>3. QED
    BY <1>2, InductiveInvariant, PTL

(* No crash leaves a key reserved for ever.                                *)
THEOREM KeysAreNeverStuck == Spec => []NoKeyStuck
<1>1. IInv => NoKeyStuck
    BY DEF IInv, RowsInv, AnswersInv, NoKeyStuck
<1>2. QED
    BY <1>1, InductiveInvariant, PTL
=============================================================================
