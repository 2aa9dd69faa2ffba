------------------------- MODULE ServiceProcessProofs -------------------------
(***************************************************************************)
(* Proofs about ServiceProcess, for any number of goroutines, requests and *)
(* connections.                                                            *)
(***************************************************************************)
EXTENDS ServiceProcess, FiniteSetTheorems, TLAPS

(* The holders of connections are finitely many.                           *)
LEMMA HoldersFinite ==
    /\ IsFiniteSet(EngineHolds) /\ Cardinality(EngineHolds) \in Nat
    /\ IsFiniteSet(KeyHolds) /\ Cardinality(KeyHolds) \in Nat
    /\ IsFiniteSet(HandlerHolds) /\ Cardinality(HandlerHolds) \in Nat
<1>1. /\ EngineHolds \subseteq Engine
      /\ KeyHolds \subseteq Requests
      /\ HandlerHolds \subseteq Requests
  BY ActorsAssumption DEF EngineHolds, KeyHolds, HandlerHolds
<1>2. /\ IsFiniteSet(EngineHolds) /\ IsFiniteSet(KeyHolds)
      /\ IsFiniteSet(HandlerHolds)
  BY <1>1, FS_Subset, ActorsAssumption
<1>3. /\ Cardinality(EngineHolds) \in Nat
      /\ Cardinality(KeyHolds) \in Nat
      /\ Cardinality(HandlerHolds) \in Nat
  BY <1>2, FS_CardinalityType
<1> QED BY <1>2, <1>3

(* A pool with all its connections back has no holder.                     *)
LEMMA NoneHeld ==
    ASSUME Held = 0
    PROVE  EngineHolds = {} /\ KeyHolds = {} /\ HandlerHolds = {}
<1>1. /\ Cardinality(EngineHolds) = 0
      /\ Cardinality(KeyHolds) = 0
      /\ Cardinality(HandlerHolds) = 0
  BY HoldersFinite DEF Held
<1> QED BY <1>1, HoldersFinite, FS_EmptySet

(* Nothing has started and no connection is out.                           *)
LEMMA InitInv == Init => IInv
<1> SUFFICES ASSUME Init PROVE IInv
  OBVIOUS
<1>1. [pc |-> "off", left |-> 0] \in EngineStates
  BY SizesAssumption DEF EngineStates
<1>2. TypeOK
  BY <1>1 DEF Init, TypeOK, RequestStates, MainStates
<1> QED BY <1>2 DEF Init, IInv

(* A step of run, from the start to its deferred calls.                    *)
LEMMA MainStep == IInv /\ MainNext => IInv'
<1> SUFFICES ASSUME IInv, MainNext PROVE IInv'
  OBVIOUS
<1>1. CASE StartFails
  BY <1>1 DEF StartFails, IInv, TypeOK, MainStates
<1>2. CASE Start
  BY <1>2, SizesAssumption DEF Start, IInv, TypeOK, MainStates, EngineStates
<1>3. CASE Signal \/ StopListening
  BY <1>3 DEF Signal, StopListening, IInv, TypeOK, MainStates
<1>4. CASE ServeFails \/ DrainTimesOut
  BY <1>4 DEF ServeFails, DrainTimesOut, RunDeferred, IInv, TypeOK, MainStates
<1>5. CASE Drained
  <2>1. Active' = Active
    BY <1>5 DEF Drained, RunDeferred, Active
  <2> QED BY <1>5, <2>1 DEF Drained, RunDeferred, IInv, TypeOK, MainStates
<1>6. CASE CloseReturns
  <2>1. EngineHolds = {} /\ KeyHolds = {} /\ HandlerHolds = {}
    BY <1>6, NoneHeld DEF CloseReturns
  <2>2. /\ Active' = Active /\ EngineHolds' = EngineHolds
        /\ KeyHolds' = KeyHolds /\ HandlerHolds' = HandlerHolds
    BY <1>6 DEF CloseReturns, Active, EngineHolds, KeyHolds, HandlerHolds
  <2> QED BY <1>6, <2>1, <2>2 DEF CloseReturns, IInv, TypeOK, MainStates
<1>7. CASE Exit
  <2>1. /\ Active' = Active /\ EngineHolds' = EngineHolds
        /\ KeyHolds' = KeyHolds /\ HandlerHolds' = HandlerHolds
    BY <1>7 DEF Exit, Active, EngineHolds, KeyHolds, HandlerHolds
  <2> QED BY <1>7, <2>1 DEF Exit, IInv, TypeOK, MainStates
<1> QED BY <1>1, <1>2, <1>3, <1>4, <1>5, <1>6, <1>7 DEF MainNext

(* A step of a worker or of the scheduler.                                 *)
LEMMA EngineStep == ASSUME IInv, NEW g \in Engine, EngineNext(g) PROVE IInv'
<1>1. PICK pc \in {"select", "acquire", "tx", "stopped"}, left \in 0..BatchSize :
         SetEngine(g, pc, left)
  <2>0. engine[g].left \in 0..BatchSize
    BY DEF IInv, TypeOK, EngineStates
  <2> QED BY <2>0, SizesAssumption
      DEF EngineNext, Ticker, ContextDone, EngineBegins, EngineBeginFails,
          EngineCommits, EngineRollsBack, Batch
<1>2. TypeOK'
  BY <1>1 DEF SetEngine, IInv, TypeOK, EngineStates
<1>3. Active' = Active /\ KeyHolds' = KeyHolds /\ HandlerHolds' = HandlerHolds
  BY <1>1 DEF SetEngine, Active, KeyHolds, HandlerHolds
<1>4. pool # "open" => ~EngineBegins(g)
  BY DEF EngineBegins, CanAcquire
<1>5. pool # "open" => engine'[g].pc # "tx"
  <2>1. engine \in [Engine -> EngineStates]
    BY DEF IInv, TypeOK
  <2> QED BY <1>4, <2>1 DEF EngineNext, Ticker, ContextDone, EngineBeginFails,
                          EngineCommits, EngineRollsBack, SetEngine
<1>6. pool # "open" /\ EngineHolds = {} => EngineHolds' = {}
  BY <1>1, <1>5 DEF SetEngine, EngineHolds, IInv, TypeOK
<1> QED BY <1>1, <1>2, <1>3, <1>6 DEF SetEngine, IInv

(* A step of a request.                                                    *)
LEMMA RequestStep == ASSUME IInv, NEW r \in Requests, RequestNext(r) PROVE IInv'
<1>1. PICK state \in RequestStates \ {"none"} : SetRequest(r, state)
  BY DEF RequestNext, Accept, RequestBegins, HandlerEnds, Completes,
         PoolClosed, RequestFails, RequestStates
<1>2. TypeOK'
  BY <1>1 DEF SetRequest, IInv, TypeOK
<1>3. Accept(r) => \/ main \in {"serving", "stopping", "draining"}
                   \/ exit = "error"
  BY DEF Accept, Connected
<1>4. r \in Active \/ Accept(r)
  BY DEF RequestNext, RequestBegins, HandlerEnds, Completes, PoolClosed,
         RequestFails, Active
<1>5. main \in {"closing", "returning", "exited"} => exit # "ok"
  BY <1>3, <1>4 DEF IInv
<1>6. ASSUME main \in {"returning", "exited"}
      PROVE  EngineHolds' = {} /\ KeyHolds' = {} /\ HandlerHolds' = {}
  <2>1. /\ pool # "open"
        /\ EngineHolds = {} /\ KeyHolds = {} /\ HandlerHolds = {}
    BY <1>6 DEF IInv
  <2>2. ~RequestBegins(r) /\ ~HandlerEnds(r)
    BY <1>6, <2>1 DEF RequestBegins, CanAcquire, HandlerEnds, HandlerHolds
  <2>3. \/ SetRequest(r, "done")
        \/ SetRequest(r, IF r \in Keyed THEN "reserve" ELSE "acquire")
    BY <2>2 DEF RequestNext, Accept, Completes, PoolClosed, RequestFails
  <2>4. KeyHolds' = {} /\ HandlerHolds' = {}
    <3>1. /\ \A k \in Requests \ {r} : request'[k] = request[k]
          /\ request'[r] \in {"done", "reserve", "acquire"}
          /\ request'[r] = "acquire" => r \notin Keyed
      BY <2>3 DEF SetRequest, IInv, TypeOK
    <3> QED BY <2>1, <3>1, ActorsAssumption DEF KeyHolds, HandlerHolds
  <2>5. EngineHolds' = EngineHolds
    BY <2>3 DEF SetRequest, EngineHolds
  <2> QED BY <2>1, <2>4, <2>5
<1> QED BY <1>1, <1>2, <1>5, <1>6 DEF SetRequest, IInv

(* A step of anyone.                                                       *)
LEMMA NextInv == IInv /\ [Next]_vars => IInv'
<1> SUFFICES ASSUME IInv, [Next]_vars PROVE IInv'
  OBVIOUS
<1>1. CASE MainNext
  BY <1>1, MainStep
<1>2. CASE \E g \in Engine : EngineNext(g)
  BY <1>2, EngineStep
<1>3. CASE \E r \in Requests : RequestNext(r)
  BY <1>3, RequestStep
<1>4. CASE UNCHANGED vars
  BY <1>4 DEF vars, IInv, TypeOK, Active, EngineHolds, KeyHolds, HandlerHolds
<1> QED BY <1>1, <1>2, <1>3, <1>4 DEF Next

(* For any goroutines, requests and connections: run returns success only  *)
(* with no request active, and no connection is held or to be had once     *)
(* pool.Close has returned.                                                *)
THEOREM InductiveInvariant == Spec => []IInv
<1> QED BY InitInv, NextInv, PTL DEF Spec

(* The process never ends inside a transaction of the engine, of a handler *)
(* or of an idempotency key (the deferred pool.Close).                     *)
THEOREM TransactionsEndFirst == Spec => []NoTransactionCutOff
<1>1. IInv => NoTransactionCutOff
  BY DEF IInv, NoTransactionCutOff, EngineHolds, KeyHolds, HandlerHolds
<1> QED BY <1>1, InductiveInvariant, PTL

(* A process that exits with success has answered every request it         *)
(* accepted (server.Shutdown).                                             *)
THEOREM CleanExitHasAnswered == Spec => []CleanExitAnswersAll
<1>1. IInv => CleanExitAnswersAll
  BY DEF IInv, CleanExitAnswersAll, Active
<1> QED BY <1>1, InductiveInvariant, PTL

-----------------------------------------------------------------------------
(* The exhausted pool.                                                     *)

(* The keys' transactions that wait for a second connection.               *)
Waiting == {r \in Keyed : request[r] = "acquire"}

(* No connection is free in an exhausted pool.                             *)
LEMMA NoneFree == Exhausted => ~(Held < Conns) /\ Waiting # {}
<1> SUFFICES ASSUME Exhausted PROVE ~(Held < Conns) /\ Waiting # {}
  OBVIOUS
<1>1. Waiting \subseteq KeyHolds
  BY DEF Waiting, KeyHolds
<1>2. /\ IsFiniteSet(Waiting) /\ Cardinality(Waiting) <= Cardinality(KeyHolds)
  BY <1>1, HoldersFinite, FS_Subset
<1>3. Cardinality(Waiting) \in Nat /\ Cardinality(Waiting) >= Conns
  BY <1>2, FS_CardinalityType DEF Exhausted, Waiting
<1>4. Waiting # {}
  BY <1>3, FS_EmptySet, SizesAssumption
<1> QED BY <1>2, <1>3, <1>4, HoldersFinite, SizesAssumption DEF Held

(* A request that waits goes on waiting, unless it is aborted: the others  *)
(* get no connection either, and those that have one keep it.              *)
LEMMA WaitersWait ==
    ASSUME IInv, Exhausted, [Next]_vars, ~\E r \in Keyed : RequestFails(r)
    PROVE  Waiting \subseteq Waiting'
<1>1. ~(Held < Conns)
  BY NoneFree
<1>2. CASE MainNext \/ UNCHANGED vars
  BY <1>2 DEF MainNext, StartFails, Start, Signal, StopListening, ServeFails,
              Drained, DrainTimesOut, RunDeferred, CloseReturns, Exit, vars, Waiting
<1>3. ASSUME NEW g \in Engine, EngineNext(g) PROVE Waiting \subseteq Waiting'
  BY <1>3 DEF EngineNext, Ticker, ContextDone, EngineBegins, EngineBeginFails,
              EngineCommits, EngineRollsBack, SetEngine, Waiting
<1>4. ASSUME NEW r \in Requests, RequestNext(r) PROVE Waiting \subseteq Waiting'
  <2>1. r \notin Waiting
    BY <1>1, <1>4 DEF RequestNext, Accept, RequestBegins, HandlerEnds, Completes,
                      PoolClosed, CanAcquire, Waiting
  <2>2. \A k \in Requests \ {r} : request'[k] = request[k]
    BY <1>4 DEF RequestNext, Accept, RequestBegins, HandlerEnds, Completes,
                PoolClosed, RequestFails, SetRequest, IInv, TypeOK
  <2> QED BY <2>1, <2>2, ActorsAssumption DEF Waiting
<1> QED BY <1>2, <1>3, <1>4 DEF Next

(* Keyed requests that hold every connection and wait for another are      *)
(* stuck until one of them is aborted, and so is a shutdown: neither the   *)
(* engine nor the shutdown timeout nor pool.Close makes room, and          *)
(* pool.Close does not return.                                             *)
THEOREM ExhaustionLasts == Spec => OnlyAbortsRelieve
<1>1. ASSUME IInv, [Next]_vars
      PROVE  [Exhausted => \/ Exhausted' /\ main' \notin {"returning", "exited"}
                           \/ \E r \in Keyed : RequestFails(r)]_vars
  <2> SUFFICES ASSUME Exhausted, ~\E r \in Keyed : RequestFails(r)
               PROVE  Exhausted' /\ main' \notin {"returning", "exited"}
    OBVIOUS
  <2>1. Waiting \subseteq Waiting'
    BY <1>1, WaitersWait
  <2>2. Exhausted'
    <3>1. IsFiniteSet(Waiting')
      BY ActorsAssumption, FS_Subset DEF Waiting
    <3>2. Cardinality(Waiting) <= Cardinality(Waiting')
      BY <2>1, <3>1, FS_Subset
    <3>3. Cardinality(Waiting) \in Nat /\ Cardinality(Waiting') \in Nat
      BY <2>1, <3>1, FS_Subset, FS_CardinalityType
    <3>4. Cardinality(Waiting) >= Conns
      BY DEF Exhausted, Waiting
    <3>5. Cardinality(Waiting') >= Conns
      BY <3>2, <3>3, <3>4, SizesAssumption
    <3> QED BY <3>5 DEF Exhausted, Waiting
  <2>3. Waiting' # {} /\ Waiting' \subseteq KeyHolds'
    <3>1. Waiting # {}
      BY NoneFree
    <3> QED BY <2>1, <3>1 DEF Waiting, KeyHolds
  <2>4. IInv'
    BY <1>1, NextInv
  <2>5. main' \notin {"returning", "exited"}
    BY <2>3, <2>4 DEF IInv
  <2> QED BY <2>2, <2>5
<1> QED BY <1>1, InductiveInvariant, PTL DEF Spec, OnlyAbortsRelieve
=============================================================================
