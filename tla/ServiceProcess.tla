---------------------------- MODULE ServiceProcess ----------------------------
(***************************************************************************)
(* One arrakin process from start to exit: main, the engine's goroutines   *)
(* it starts and never joins, the HTTP requests, and the connection pool   *)
(* they share.  What a transaction does is SettlementEngine's and          *)
(* IdempotentRequests' business; here only its life on a connection        *)
(* matters.                                                                *)
(***************************************************************************)
EXTENDS Naturals, FiniteSets

CONSTANTS
    Workers,        \* goroutines of worker.Pool
    Schedulers,     \* the goroutine of Scheduler.Run
    Requests,       \* HTTP requests
    Keyed,          \* those with an Idempotency-Key
    Conns,          \* MaxConns of the pool
    BatchSize       \* WORKER_BATCH_SIZE

Engine == Workers \union Schedulers

ASSUME ActorsAssumption ==
    /\ Keyed \subseteq Requests /\ Engine \intersect Requests = {}
    /\ IsFiniteSet(Engine) /\ IsFiniteSet(Requests)
ASSUME SizesAssumption == Conns \in Nat \ {0} /\ BatchSize \in Nat \ {0}

VARIABLES
    main,       \* where run() is
    exit,       \* what run() will return
    cancelled,  \* engineCtx
    pool,       \* the pgx pool
    engine,     \* each engine goroutine
    request     \* each request

vars == <<main, exit, cancelled, pool, engine, request>>

-----------------------------------------------------------------------------
(* start: config, database, redis, calculator; serving: in the select;     *)
(* stopping: before server.Shutdown; draining: in it; closing: in the      *)
(* deferred pool.Close; returning: after it.                               *)
MainStates == {"start", "serving", "stopping", "draining",
               "closing", "returning", "exited"}

(* left: transactions left in the batch.                                   *)
EngineStates == [pc : {"off", "select", "acquire", "tx", "stopped"},
                 left : 0..BatchSize]

(* A keyed request opens the key's transaction (reserve) and then, holding *)
(* it, the handler's (acquire, tx); then it ends the first (complete).     *)
RequestStates == {"none", "reserve", "acquire", "tx", "complete", "done"}

TypeOK ==
    /\ main \in MainStates
    /\ exit \in {"ok", "error"}
    /\ cancelled \in BOOLEAN
    /\ pool \in {"none", "open", "closed"}
    /\ engine \in [Engine -> EngineStates]
    /\ request \in [Requests -> RequestStates]

Init ==
    /\ main = "start"
    /\ exit = "ok"
    /\ cancelled = FALSE
    /\ pool = "none"
    /\ engine = [g \in Engine |-> [pc |-> "off", left |-> 0]]
    /\ request = [r \in Requests |-> "none"]

-----------------------------------------------------------------------------
(* Connections, read off their holders.                                    *)

(* A request's first connection, which a keyed one keeps to the end.       *)
EngineHolds == {g \in Engine : engine[g].pc = "tx"}
KeyHolds == {r \in Keyed : request[r] \in {"acquire", "tx", "complete"}}
HandlerHolds == {r \in Requests : request[r] = "tx"}

Held == Cardinality(EngineHolds) + Cardinality(KeyHolds)
          + Cardinality(HandlerHolds)

(* Mutant: one connection is kept in reserve.                              *)
OneConnReserved == pool = "open" /\ Held + 1 < Conns

(* pool.Begin waits until it can return a connection.                      *)
CanAcquire == pool = "open" /\ Held < Conns

-----------------------------------------------------------------------------
(* main.                                                                   *)

(* Any of config.Load, NewPool, redis.New and calculator.New may fail; the *)
(* pool, if there is one by then, is closed by the deferred call.          *)
StartFails ==
    /\ main = "start"
    /\ main' = "closing"
    /\ exit' = "error"
    /\ pool' \in {"none", "closed"}
    /\ UNCHANGED <<cancelled, engine, request>>

Start ==
    /\ main = "start"
    /\ main' = "serving"
    /\ pool' = "open"
    /\ engine' = [g \in Engine |-> [pc |-> "select", left |-> 0]]
    /\ UNCHANGED <<exit, cancelled, request>>

(* SIGINT or SIGTERM: engineCancel.                                        *)
Signal ==
    /\ main = "serving"
    /\ main' = "stopping"
    /\ cancelled' = TRUE
    /\ UNCHANGED <<exit, pool, engine, request>>

(* server.Shutdown closes the listener.                                    *)
StopListening ==
    /\ main = "stopping"
    /\ main' = "draining"
    /\ UNCHANGED <<exit, cancelled, pool, engine, request>>

Active == {r \in Requests : request[r] \notin {"none", "done"}}

(* The deferred calls, last first: engineCancel, redis, pool.Close.        *)
RunDeferred(result) ==
    /\ main' = "closing"
    /\ exit' = result
    /\ cancelled' = TRUE
    /\ pool' = "closed"
    /\ UNCHANGED <<engine, request>>

(* ListenAndServe fails: run returns without server.Shutdown.              *)
ServeFails == main = "serving" /\ RunDeferred("error")

(* Mutant: server.Close instead of server.Shutdown.                        *)
CloseAtOnce == main = "draining" /\ RunDeferred("ok")

(* server.Shutdown returns nil once no request is active.                  *)
Drained == main = "draining" /\ Active = {} /\ RunDeferred("ok")

(* SHUTDOWN_TIMEOUT: run returns an error and leaves the requests to it.   *)
DrainTimesOut == main = "draining" /\ RunDeferred("error")

(* Mutant: pool.Close does not wait.                                       *)
CloseDoesNotWait ==
    /\ main = "closing"
    /\ main' = "returning"
    /\ UNCHANGED <<exit, cancelled, pool, engine, request>>

(* pool.Close returns when every connection is back.                       *)
CloseReturns ==
    /\ main = "closing"
    /\ Held = 0
    /\ main' = "returning"
    /\ UNCHANGED <<exit, cancelled, pool, engine, request>>

(* The process ends, and with it every goroutine; until then they run on.  *)
Exit ==
    /\ main = "returning"
    /\ main' = "exited"
    /\ UNCHANGED <<exit, cancelled, pool, engine, request>>

-----------------------------------------------------------------------------
(* Engine goroutines: Scheduler.Run and Pool.loop with drain.              *)

Batch(g) == IF g \in Workers THEN BatchSize ELSE 1

SetEngine(g, pc, left) ==
    /\ main # "exited"
    /\ engine' = [engine EXCEPT ![g] = [pc |-> pc, left |-> left]]
    /\ UNCHANGED <<main, exit, cancelled, pool, request>>

(* A ticker fires.  select chooses at random among its ready cases, so     *)
(* this may happen after the cancellation too.                             *)
Ticker(g) ==
    /\ engine[g].pc = "select"
    /\ SetEngine(g, "acquire", Batch(g))

ContextDone(g) ==
    /\ engine[g].pc = "select"
    /\ cancelled
    /\ SetEngine(g, "stopped", 0)

EngineBegins(g) ==
    /\ engine[g].pc = "acquire"
    /\ CanAcquire /\ ~cancelled
    /\ SetEngine(g, "tx", engine[g].left)

(* pool.Begin fails: the context is done, the pool closed, or the          *)
(* database away.                                                          *)
EngineBeginFails(g) ==
    /\ engine[g].pc = "acquire"
    /\ SetEngine(g, "select", 0)

(* A commit, and the next transaction of the batch.                        *)
EngineCommits(g) ==
    /\ engine[g].pc = "tx"
    /\ ~cancelled
    /\ IF engine[g].left > 1 THEN SetEngine(g, "acquire", engine[g].left - 1)
                             ELSE SetEngine(g, "select", 0)

(* Mutant: WithTx without its deferred Rollback keeps the connection when  *)
(* the context is done.                                                    *)
ConnectionLeaks(g) ==
    /\ engine[g].pc = "tx"
    /\ ~cancelled
    /\ SetEngine(g, "select", 0)

(* An error, no job to claim, or a cancelled context: the deferred         *)
(* Rollback gives the connection back, and the batch ends.                 *)
EngineRollsBack(g) ==
    /\ engine[g].pc = "tx"
    /\ SetEngine(g, "select", 0)

-----------------------------------------------------------------------------
(* Requests.  Their contexts are not derived from main's: only their       *)
(* clients can cancel them.                                                *)

SetRequest(r, state) ==
    /\ main # "exited"
    /\ request' = [request EXCEPT ![r] = state]
    /\ UNCHANGED <<main, exit, cancelled, pool, engine>>

(* A connection to the server may be open.  server.Shutdown waits for the  *)
(* open ones, which may still deliver a request, before it returns nil;    *)
(* when run fails without that they are left open until the process ends.  *)
Connected ==
    \/ main \in {"serving", "stopping", "draining"}
    \/ main \in {"closing", "returning"} /\ cancelled /\ exit = "error"

Accept(r) ==
    /\ Connected
    /\ request[r] = "none"
    /\ SetRequest(r, IF r \in Keyed THEN "reserve" ELSE "acquire")

(* The key's transaction, in runIdempotent, then the handler's own.        *)
RequestBegins(r) ==
    /\ request[r] \in {"reserve", "acquire"}
    /\ CanAcquire
    /\ SetRequest(r, IF request[r] = "reserve" THEN "acquire" ELSE "tx")

(* The handler's transaction ends; a keyed request stores its response.    *)
HandlerEnds(r) ==
    /\ request[r] = "tx"
    /\ SetRequest(r, IF r \in Keyed THEN "complete" ELSE "done")

Completes(r) ==
    /\ request[r] = "complete"
    /\ SetRequest(r, "done")

(* pool.Begin fails because the pool is closed; one that was waiting for a *)
(* connection learns of it when a connection comes back.                   *)
PoolClosed(r) ==
    /\ request[r] \in {"reserve", "acquire"}
    /\ pool = "closed" /\ Held < Conns
    /\ SetRequest(r, "done")

(* An error, a replayed answer, a client that hangs up, or the timeout of  *)
(* the readiness check: the handler answers and every connection it holds  *)
(* goes back.                                                              *)
RequestFails(r) ==
    /\ request[r] \notin {"none", "done"}
    /\ SetRequest(r, "done")

-----------------------------------------------------------------------------
MainNext == \/ StartFails \/ Start \/ Signal \/ StopListening \/ ServeFails
            \/ Drained \/ DrainTimesOut \/ CloseReturns \/ Exit

EngineNext(g) == \/ Ticker(g) \/ ContextDone(g)
                 \/ EngineBegins(g) \/ EngineBeginFails(g)
                 \/ EngineCommits(g) \/ EngineRollsBack(g)

RequestNext(r) == \/ Accept(r) \/ RequestBegins(r) \/ HandlerEnds(r)
                  \/ Completes(r) \/ PoolClosed(r) \/ RequestFails(r)

Next ==
    \/ MainNext
    \/ \E g \in Engine : EngineNext(g)
    \/ \E r \in Requests : RequestNext(r)

Spec == Init /\ [][Next]_vars

(***************************************************************************)
(* Fairness.  main goes on when it can, except that nobody owes it a       *)
(* signal; the shutdown timer fires; tickers fire; transactions end.  A    *)
(* goroutine that keeps coming back to its select takes the Done case at   *)
(* some point, and the pool hands out connections in the order they were   *)
(* asked for: strong fairness.  Clients are not assumed to hang up.        *)
(***************************************************************************)
Fairness ==
    /\ WF_vars(Start \/ StartFails)
    /\ WF_vars(StopListening)
    /\ WF_vars(Drained \/ DrainTimesOut)
    /\ WF_vars(CloseReturns)
    /\ WF_vars(Exit)
    /\ \A g \in Engine :
          /\ WF_vars(Ticker(g))
          /\ SF_vars(ContextDone(g))
          /\ SF_vars(EngineBegins(g))
          /\ WF_vars(EngineBeginFails(g) /\ (cancelled \/ pool = "closed"))
          /\ WF_vars(EngineCommits(g) \/ EngineRollsBack(g))
    /\ \A r \in Requests :
          /\ SF_vars(RequestBegins(r))
          /\ WF_vars(HandlerEnds(r))
          /\ WF_vars(Completes(r))
          /\ WF_vars(PoolClosed(r))

FairSpec == Spec /\ Fairness

-----------------------------------------------------------------------------
(* Properties.                                                             *)

(* The process never ends in the middle of a transaction, although run     *)
(* joins neither the scheduler nor the worker pool and may give up on the  *)
(* requests: the deferred pool.Close waits for whoever holds a connection, *)
(* and whoever runs on after it finds no connection to begin another.      *)
NoTransactionCutOff ==
    main = "exited" =>
        /\ \A g \in Engine : engine[g].pc # "tx"
        /\ \A r \in Requests : request[r] # "tx"
        /\ \A r \in Keyed : request[r] \notin {"acquire", "tx", "complete"}

(* A process that exits with success has answered every request it         *)
(* accepted (server.Shutdown before any deferred call).                    *)
CleanExitAnswersAll ==
    main = "exited" /\ exit = "ok" =>
        \A r \in Requests : request[r] \in {"none", "done"}

(* Every connection is out, and held by an idempotency key's transaction   *)
(* whose request waits for another one, for its handler.                   *)
Exhausted == Cardinality({r \in Keyed : request[r] = "acquire"}) >= Conns

(* A signal ends the process, and so does a server that fails, however     *)
(* the engine's transactions, the requests and the closing pool meet; only *)
(* keyed requests that hold every connection and all wait for a second one *)
(* keep pool.Close waiting, and then for ever.                             *)
ShutdownEnds ==
    main \in {"stopping", "closing"} ~> main = "exited" \/ []Exhausted

(* Every request that was accepted is answered, unless the process ends    *)
(* with an error first or keyed requests have exhausted the pool for ever  *)
(* (runIdempotent).                                                        *)
RequestsAnswered ==
    \A r \in Requests :
        request[r] # "none"
            ~> \/ request[r] = "done"
               \/ main = "exited" /\ exit = "error"
               \/ []Exhausted

(* Nothing but a request that is aborted by its client or by an error      *)
(* makes room in an exhausted pool: not the engine, not the end of a       *)
(* transaction, not the signal, the shutdown timeout or the closing pool,  *)
(* and run does not return meanwhile.                                      *)
OnlyAbortsRelieve ==
    [][Exhausted => \/ Exhausted' /\ main' \notin {"returning", "exited"}
                    \/ \E r \in Keyed : RequestFails(r)]_vars

-----------------------------------------------------------------------------
(* The inductive invariant: no request is active once run has returned     *)
(* nil, and once pool.Close has returned no connection is held, nor can    *)
(* one be acquired.                                                        *)
IInv ==
    /\ TypeOK
    /\ main \in {"closing", "returning", "exited"} =>
          /\ pool # "open"
          /\ exit = "ok" => Active = {}
    /\ main \in {"returning", "exited"} =>
          EngineHolds = {} /\ KeyHolds = {} /\ HandlerHolds = {}
=============================================================================
