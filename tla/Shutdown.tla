------------------------------ MODULE Shutdown ------------------------------
(***************************************************************************)
(* The transaction pipeline in an application that is shut down and started *)
(* again.  shutdown_event stops the service, which leaves the listener and  *)
(* its handlers alone, and then closes the shared pool; when the pool is    *)
(* closed the event loop ends and with it every handler still under way.    *)
(*                                                                          *)
(* asyncpg's Pool.close() refuses whoever asks for a connection from then   *)
(* on, waits until the connections in use are given back, and does not wait *)
(* for handlers that were queueing for one: these may still get it.         *)
(***************************************************************************)
EXTENDS Processor

VARIABLES
  app,      \* "up", "closing" (in close_db_pool) or "over" (the loop has ended)
  held,     \* handlers that had a connection when closing began
  queueing  \* handlers that waited for one then

appVars == <<app, held, queueing>>
allVars == <<vars, appVars>>

-----------------------------------------------------------------------------
ShutdownInit ==
  /\ Init
  /\ app = "up"
  /\ held = {}
  /\ queueing = {}

Running == app \in {"up", "closing"}

\* stop() of the service does not await anything with a shared pool, so that
\* closing the pool begins in the same step.  Bounded by MaxCrashes like every
\* other way in which the process may end.
BeginShutdown ==
  /\ app = "up"
  /\ crashes < MaxCrashes
  /\ app' = "closing"
  /\ held' = holders
  /\ queueing' = {t \in Tasks : pc[t] = "acquiring"}
  /\ UNCHANGED vars

\* A handler that asks for a connection of a pool that is being closed.
Admitted(t) == app = "closing" /\ pc[t] = "acquiring" => t \in queueing

Serve(t) ==
  /\ Running
  /\ Admitted(t)
  /\ Step(t)
  /\ UNCHANGED appVars

Refuse(t) ==
  /\ Running
  /\ ~Admitted(t)
  /\ AcquireFails(t)
  /\ UNCHANGED appVars

\* The database and the connections fail as before; PostgreSQL finishes what it
\* has begun whether the application lives or not.
GoWrong(t) ==
  /\ \/ /\ Running
        /\ Admitted(t)
        /\ AcquireFails(t) \/ StoreFails(t)
     \/ LateCommit(t)
  /\ UNCHANGED appVars

\* _handle_fill_sync hands a message to the loop only while it runs.
Receive(t, e) ==
  /\ Running
  /\ Deliver(t, e)
  /\ UNCHANGED appVars

\* The pool is closed, the loop ends and cancels what is left.
Over_NotAwaited ==
  /\ app = "closing" /\ Crash
  /\ app' = "over" /\ held' = {} /\ queueing' = {}

Over ==
  /\ app = "closing"
  /\ held \cap holders = {}
  /\ Crash
  /\ app' = "over"
  /\ held' = {}
  /\ queueing' = {}

Restart ==
  /\ app = "over"
  /\ app' = "up"
  /\ UNCHANGED <<vars, held, queueing>>

\* A process that dies at once and is started again.
Die ==
  /\ Running
  /\ Crash
  /\ app' = "up"
  /\ held' = {}
  /\ queueing' = {}

TimePasses == Tick /\ UNCHANGED appVars

ShutdownNext ==
  \/ BeginShutdown \/ Over \/ Restart \/ Die \/ TimePasses
  \/ \E t \in Tasks : \/ Serve(t) \/ Refuse(t) \/ GoWrong(t)
                      \/ \E e \in Events : Receive(t, e)

ShutdownSpec == ShutdownInit /\ [][ShutdownNext]_allVars

\* The loop runs every ready handler, the pool answers, and close_db_pool
\* returns when the connections are back.  Nothing is assumed of deliveries,
\* faults, shutdowns or restarts.
FairShutdownSpec ==
  /\ ShutdownSpec
  /\ \A t \in Tasks : WF_allVars(Serve(t)) /\ WF_allVars(Refuse(t))
  /\ WF_allVars(Over)

-----------------------------------------------------------------------------
ShutdownTypeOK ==
  /\ TypeOK
  /\ app \in {"up", "closing", "over"}
  /\ held \in SUBSET Tasks
  /\ queueing \in SUBSET Tasks

\* close_db_pool returns: every handler that has a connection when the shutdown
\* begins gives it back, and none that comes later can hold it up.
ShutdownEnds == app = "closing" ~> app # "closing"

\* An orderly end lets every INSERT finish that it found under way: whoever is cut
\* off in the database by the end of the loop was queueing for its connection when
\* closing began.  Neither a handler that had one then, nor one that came to the
\* pool since, leaves the fate of its row open.
InDatabase == {t \in Tasks : pc[t] \in {"inserting", "stored"}}

OrderlyEnd == [][app = "closing" /\ app' = "over" => InDatabase \subseteq queueing]_allVars
=============================================================================
