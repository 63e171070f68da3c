--------------------------- MODULE MonitorService ---------------------------
(***************************************************************************)
(* The lifecycle of BlockchainMonitorService inside the application: the   *)
(* shared pool the application opens and closes, start() with a shared or  *)
(* a dedicated pool, stop(), and the listener tasks that start() leaves    *)
(* running in the background.  A listener is WsManager.tla seen from       *)
(* outside: scheduled, running, or ended.                                  *)
(*                                                                         *)
(* start() is atomic with a shared pool; with a dedicated one it awaits    *)
(* create_pool between its test of _running and everything else.           *)
(*                                                                         *)
(* Operators named <definition>_<fault> are faulty variants that no        *)
(* specification uses; they show that the properties can fail.             *)
(***************************************************************************)
EXTENDS Integers, FiniteSets

CONSTANTS
  MaxCalls,   \* bound: calls of start()
  MaxStops,   \* bound: calls of stop(), the one at shutdown not counted
  Modes,      \* how start() is called: subset of {"shared", "own"}
  None

Calls == 1..MaxCalls
Shared == 0
Pools == {Shared} \cup Calls   \* a dedicated pool is named after its call

ASSUME ServiceAssumption ==
  /\ MaxCalls \in Nat /\ MaxStops \in Nat
  /\ Modes \subseteq {"shared", "own"}
  /\ None \notin Pools /\ None \notin BOOLEAN

VARIABLES
  app,          \* the application: "down", "up", "stopping", "exited"
  pool,         \* every pool: "none", "open", "closed"
  call,         \* every start() call: "idle", "awaiting", "returned", "raised"
  running,      \* _running
  dbPool,       \* self.db_pool
  usingShared,  \* self._using_shared_pool; None: the attribute does not exist
  listener,     \* the listener of each call: "none", "scheduled", "running", "ended"
  current,      \* self.hyperliquid_listener: whose it is
  stops         \* calls of stop() that found the service running

serviceVars == <<running, dbPool, usingShared, current>>
vars == <<app, pool, call, serviceVars, listener, stops>>

Init ==
  /\ app = "down"
  /\ pool = [p \in Pools |-> "none"]
  /\ call = [c \in Calls |-> "idle"]
  /\ running = FALSE /\ dbPool = None /\ usingShared = None
  /\ listener = [c \in Calls |-> "none"] /\ current = None
  /\ stops = 0

-----------------------------------------------------------------------------
(* The application *)

\* startup_event: the shared pool is open before the service is started.
Startup ==
  /\ app = "down"
  /\ app' = "up"
  /\ pool' = [pool EXCEPT ![Shared] = "open"]
  /\ UNCHANGED <<call, serviceVars, listener, stops>>

\* stop(): the dedicated pool is closed if the attribute that start() always
\* sets is missing.  The listener is not told.
StopService ==
  LET closes == running /\ dbPool # None /\ usingShared = None
  IN  /\ running' = FALSE
      /\ pool' = IF closes THEN [pool EXCEPT ![dbPool] = "closed"] ELSE pool
      /\ dbPool' = IF closes THEN None ELSE dbPool
      /\ UNCHANGED <<usingShared, current, call, listener>>

Stop ==
  /\ app = "up"
  /\ stops < MaxStops
  /\ stops' = IF running THEN stops + 1 ELSE stops
  /\ StopService
  /\ UNCHANGED app

\* shutdown_event: stop the service, then close the shared pool.
ShutdownStops_NotAwaited ==
  /\ app = "up" /\ app' = "stopping"
  /\ UNCHANGED <<pool, call, serviceVars, listener, stops>>

ShutdownStops ==
  /\ app = "up"
  /\ app' = "stopping"
  /\ StopService
  /\ UNCHANGED stops

ShutdownClosesPool ==
  /\ app = "stopping"
  /\ app' = "exited"
  /\ pool' = [pool EXCEPT ![Shared] = "closed"]
  /\ UNCHANGED <<call, serviceVars, listener, stops>>

-----------------------------------------------------------------------------
(* start() *)

Fresh(c) == call[c] = "idle" /\ \A d \in Calls : d < c => call[d] # "idle"

\* Everything after the pool is there: repositories, clients, processor and
\* listener are built and the listener's task is created ...
Built(c) ==
  /\ running' = TRUE
  /\ listener' = [listener EXCEPT ![c] = "scheduled"]
  /\ current' = c
  /\ call' = [call EXCEPT ![c] = "returned"]

\* ... or one of them raises and start() calls stop() before it raises too.
Raises(c) ==
  /\ running' = FALSE
  /\ call' = [call EXCEPT ![c] = "raised"]
  /\ UNCHANGED <<listener, current>>

StartRefused(c) ==
  /\ app = "up" /\ Fresh(c)
  /\ running
  /\ call' = [call EXCEPT ![c] = "returned"]
  /\ UNCHANGED <<app, pool, serviceVars, listener, stops>>

StartShared_NoTest(c) ==
  /\ "shared" \in Modes /\ app = "up" /\ Fresh(c)
  /\ dbPool' = Shared /\ usingShared' = TRUE
  /\ Built(c) \/ Raises(c)
  /\ UNCHANGED <<app, pool, stops>>

StartShared(c) ==
  /\ "shared" \in Modes
  /\ app = "up" /\ Fresh(c)
  /\ ~running
  /\ dbPool' = Shared /\ usingShared' = TRUE
  /\ Built(c) \/ Raises(c)
  /\ UNCHANGED <<app, pool, stops>>

StartOwn(c) ==
  /\ "own" \in Modes
  /\ app = "up" /\ Fresh(c)
  /\ ~running
  /\ call' = [call EXCEPT ![c] = "awaiting"]
  /\ UNCHANGED <<app, pool, serviceVars, listener, stops>>

\* create_pool has answered.  _running is not tested again.
OwnPoolReady(c) ==
  /\ call[c] = "awaiting"
  /\ pool' = [pool EXCEPT ![c] = "open"]
  /\ dbPool' = c /\ usingShared' = FALSE
  /\ Built(c) \/ Raises(c)
  /\ UNCHANGED <<app, stops>>

OwnPoolFails(c) ==
  /\ call[c] = "awaiting"
  /\ Raises(c)
  /\ UNCHANGED <<app, pool, dbPool, usingShared, stops>>

-----------------------------------------------------------------------------
(* The listener task *)

ListenerRuns(c) ==
  /\ listener[c] = "scheduled"
  /\ listener' = [listener EXCEPT ![c] = "running"]
  /\ UNCHANGED <<app, pool, call, serviceVars, stops>>

ListenerEnds_Cleared(c) ==
  /\ listener[c] = "scheduled"
  /\ listener' = None
  /\ UNCHANGED <<app, pool, call, serviceVars, stops>>

\* The first connection fails: run() logs the error and returns, so the
\* monitoring loop ends normally and its error branch is never taken.
ListenerEnds(c) ==
  /\ listener[c] = "scheduled"
  /\ listener' = [listener EXCEPT ![c] = "ended"]
  /\ UNCHANGED <<app, pool, call, serviceVars, stops>>

Next ==
  \/ Startup \/ Stop \/ ShutdownStops \/ ShutdownClosesPool
  \/ \E c \in Calls :
       \/ StartRefused(c) \/ StartShared(c)
       \/ StartOwn(c) \/ OwnPoolReady(c) \/ OwnPoolFails(c)
       \/ ListenerRuns(c) \/ ListenerEnds(c)

Spec == Init /\ [][Next]_vars

-----------------------------------------------------------------------------
TypeOK ==
  /\ app \in {"down", "up", "stopping", "exited"}
  /\ pool \in [Pools -> {"none", "open", "closed"}]
  /\ call \in [Calls -> {"idle", "awaiting", "returned", "raised"}]
  /\ running \in BOOLEAN
  /\ dbPool \in Pools \cup {None}
  /\ usingShared \in BOOLEAN \cup {None}
  /\ listener \in [Calls -> {"none", "scheduled", "running", "ended"}]
  /\ current \in Calls \cup {None}
  /\ stops \in 0..MaxStops

\* A running service works on an open pool: neither stop() nor the shutdown
\* takes the pool away before the service is marked stopped.
RunningOnOpenPool ==
  running => /\ dbPool # None /\ pool[dbPool] = "open"
             /\ current # None

\* A start() that finds the service running adds nothing, however often and from
\* however many callers it is called: every listener after the first is owed to
\* a stop(), to a start() that raised, or to one that awaited a pool of its own
\* and so did not see that another had passed the test of _running as well.
Accountable(c) == call[c] = "raised" \/ pool[c] # "none"
OneListenerPerStart ==
  Cardinality({c \in Calls : listener[c] # "none"})
    <= 1 + stops + Cardinality({c \in Calls : Accountable(c)})
=============================================================================
