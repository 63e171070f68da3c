----------------------------- MODULE WsManager -----------------------------
(***************************************************************************)
(* HyperliquidWebSocketManager: the connection to the exchange, its        *)
(* subscriptions, the heartbeat that replaces a silent connection, and the *)
(* backoff between attempts.                                               *)
(*                                                                         *)
(* Two threads act: the event loop (start, stop, the heartbeat task) and   *)
(* the SDK's thread, which calls back with fills.  Connecting blocks the   *)
(* loop: between its steps only the SDK thread, the network and the clock  *)
(* move.  Clocks are relative: `silence' is time.time() - _last_event_ts,  *)
(* `timer' what remains of the heartbeat task's sleep.  Timers are exact:  *)
(* the clock does not pass the end of a sleep before the task has run.     *)
(*                                                                         *)
(* Assumption about the SDK, which is external: a constructor Info(...)    *)
(* that raises leaves no connection that delivers fills.  It may leave a   *)
(* websocket behind, which nothing refers to and nobody closes; it has no  *)
(* subscription, and is not counted here.                                  *)
(***************************************************************************)
EXTENDS Integers, Sequences

CONSTANTS
  Addresses,           \* the subscribed wallets, in the order of the set's iteration
  HeartbeatInterval,   \* HEARTBEAT_INTERVAL
  StaleThreshold,      \* STALE_CONNECTION_THRESHOLD
  InitialBackoff,      \* INITIAL_BACKOFF
  MaxBackoff,          \* MAX_BACKOFF
  MaxBadCloses,        \* bound: disconnect_websocket calls that raise
  None

ASSUME WsAssumption ==
  /\ Len(Addresses) \in Nat
  /\ HeartbeatInterval \in Nat \ {0} /\ StaleThreshold \in Nat
  /\ InitialBackoff \in Nat \ {0} /\ MaxBackoff \in Nat
  /\ InitialBackoff <= MaxBackoff
  /\ MaxBadCloses \in Nat
  /\ None \notin Nat

VARIABLES
  main,       \* the caller of start()
  running,    \* _running
  stopped,    \* _stop_event
  hb,         \* the heartbeat task
  timer,      \* what is left of its sleep
  phase,      \* where _connect_and_subscribe stands
  conn,       \* self.info: its websocket
  subs,       \* how many addresses are subscribed on it
  silence,    \* seconds since _last_event_ts, or None
  backoff,    \* _backoff_seconds
  leaked,     \* open connections that were self.info once and are no longer
  badCloses,  \* disconnect calls that raised
  fails,      \* history: failed attempts since the last success
  waited      \* history: seconds since the last failed attempt

connVars == <<conn, subs, leaked, badCloses>>
history == <<fails, waited>>
vars == <<main, running, stopped, hb, timer, phase, connVars, silence, backoff, history>>

MinOf(a, b) == IF a <= b THEN a ELSE b

\* Above these values a clock or a counter makes no difference to the code.
SilenceCap == StaleThreshold + HeartbeatInterval + 1
FailCap == MaxBackoff
WaitCap == 2 * MaxBackoff

\* min(MAX_BACKOFF, INITIAL_BACKOFF * 2 ** n)
Doubled(n) == MinOf(MaxBackoff, InitialBackoff * 2 ^ n)

Init ==
  /\ main = "new" /\ running = FALSE /\ stopped = FALSE
  /\ hb = "none" /\ timer = 0
  /\ phase = "idle"
  /\ conn = "none" /\ subs = 0
  /\ silence = None
  /\ backoff = InitialBackoff
  /\ leaked = 0 /\ badCloses = 0
  /\ fails = 0 /\ waited = 0

-----------------------------------------------------------------------------
(* The event loop *)

\* Operators named <definition>_<fault> are faulty variants of the definition
\* that follows them; no specification uses them.

Start ==
  /\ main = "new"
  /\ main' = "connecting" /\ running' = TRUE
  /\ phase' = "disconnect"
  /\ UNCHANGED <<stopped, hb, timer, connVars, silence, backoff, history>>

\* disconnect_websocket on the old connection, if there is one.  An error is
\* swallowed and may leave the connection open.
Disconnect_Skipped ==
  /\ phase = "disconnect" /\ phase' = "create"
  /\ UNCHANGED <<main, running, stopped, hb, timer, connVars, silence, backoff, history>>

Disconnect ==
  /\ phase = "disconnect"
  /\ phase' = "create"
  /\ \/ /\ conn' = IF conn = "none" THEN "none" ELSE "closed"
        /\ UNCHANGED badCloses
     \/ /\ conn = "open" /\ badCloses < MaxBadCloses
        /\ badCloses' = badCloses + 1
        /\ UNCHANGED conn
  /\ UNCHANGED <<main, running, stopped, hb, timer, subs, leaked, silence, backoff, history>>

\* Info(...): a new connection takes the place of the old one.
Create ==
  /\ phase = "create"
  /\ phase' = "subscribe"
  /\ conn' = "open" /\ subs' = 0
  /\ leaked' = IF conn = "open" THEN leaked + 1 ELSE leaked
  /\ UNCHANGED <<main, running, stopped, hb, timer, badCloses, silence, backoff, history>>

Subscribe(i) ==
  /\ phase = "subscribe"
  /\ subs = i - 1 /\ i <= Len(Addresses)
  /\ subs' = i
  /\ UNCHANGED <<main, running, stopped, hb, timer, phase, conn, leaked, badCloses,
                 silence, backoff, history>>

\* All subscribed: the first attempt starts the heartbeat task, a later one
\* returns to its loop, which sleeps again.
Connected ==
  /\ phase = "subscribe"
  /\ subs = Len(Addresses)
  /\ phase' = "idle"
  /\ main' = IF main = "connecting" THEN "waiting" ELSE main
  /\ hb' = "sleeping" /\ timer' = HeartbeatInterval
  /\ backoff' = InitialBackoff
  /\ silence' = 0
  /\ fails' = 0
  /\ UNCHANGED <<running, stopped, connVars, waited>>

Jitter(sleep) == 0..((3 * sleep + 9) \div 10)

\* Info() or subscribe() raises (see the assumption above).  The first attempt ends
\* start(), and with it the listener: HyperliquidListener.run logs the error and
\* returns.  A later one sleeps for the backoff and a jitter.
ConnectFails_Settles ==
  /\ phase = "subscribe" /\ hb = "connecting"
  /\ phase' = "idle" /\ hb' = "sleeping" /\ timer' = HeartbeatInterval /\ silence' = 0
  /\ UNCHANGED <<main, running, stopped, connVars, backoff, history>>

ConnectFails ==
  /\ phase \in {"create", "subscribe"}
  /\ phase' = "idle"
  /\ \/ /\ main = "connecting"
        /\ main' = "raised"
        /\ UNCHANGED <<hb, timer>>
     \/ /\ hb = "connecting"
        /\ hb' = "backoff"
        /\ LET sleep == MinOf(MaxBackoff, backoff)
           IN  \E j \in Jitter(sleep) : timer' = sleep + j
        /\ UNCHANGED main
  /\ fails' = MinOf(FailCap, fails + 1)
  /\ waited' = 0
  /\ UNCHANGED <<running, stopped, connVars, silence, backoff>>

\* The heartbeat wakes up and looks at the age of the last event.
IsStale_Never == FALSE
IsStale_Lenient == silence > StaleThreshold + HeartbeatInterval

IsStale == silence > StaleThreshold

HeartbeatWakes ==
  /\ hb = "sleeping" /\ timer = 0
  /\ running /\ ~stopped
  /\ \/ /\ IsStale
        /\ hb' = "connecting" /\ phase' = "disconnect"
        /\ UNCHANGED timer
     \/ /\ ~IsStale
        /\ timer' = HeartbeatInterval
        /\ UNCHANGED <<hb, phase>>
  /\ UNCHANGED <<main, running, stopped, connVars, silence, backoff, history>>

\* The backoff is over: double it and try again.
Retry_Resets ==
  /\ hb = "backoff" /\ timer = 0 /\ running /\ ~stopped
  /\ backoff' = InitialBackoff
  /\ hb' = "connecting" /\ phase' = "disconnect"
  /\ UNCHANGED <<main, running, stopped, timer, connVars, silence, history>>

Retry_Uncapped ==
  /\ hb = "backoff" /\ timer = 0 /\ running /\ ~stopped
  /\ backoff' = backoff * 2
  /\ hb' = "connecting" /\ phase' = "disconnect"
  /\ UNCHANGED <<main, running, stopped, timer, connVars, silence, history>>

Retry ==
  /\ hb = "backoff" /\ timer = 0
  /\ running /\ ~stopped
  /\ backoff' = MinOf(MaxBackoff, backoff * 2)
  /\ hb' = "connecting" /\ phase' = "disconnect"
  /\ UNCHANGED <<main, running, stopped, timer, connVars, silence, history>>

\* stop(): signal, cancel the heartbeat, disconnect.  Nobody stops a manager
\* that has not been started.
Stop_KeepsSocket ==
  /\ ~stopped /\ main # "new" /\ phase = "idle"
  /\ stopped' = TRUE /\ running' = FALSE
  /\ hb' = IF hb = "none" THEN "none" ELSE "ended"
  /\ UNCHANGED <<main, timer, phase, connVars, silence, backoff, history>>

Stop ==
  /\ ~stopped /\ main # "new" /\ phase = "idle"
  /\ stopped' = TRUE /\ running' = FALSE
  /\ hb' = IF hb = "none" THEN "none" ELSE "ended"
  /\ \/ /\ conn' = IF conn = "none" THEN "none" ELSE "closed"
        /\ UNCHANGED badCloses
     \/ /\ conn = "open" /\ badCloses < MaxBadCloses
        /\ badCloses' = badCloses + 1
        /\ UNCHANGED conn
  /\ UNCHANGED <<main, timer, phase, subs, leaked, silence, backoff, history>>

\* start() returns once the stop signal is there.
MainReturns ==
  /\ main = "waiting" /\ stopped
  /\ main' = "returned"
  /\ UNCHANGED <<running, stopped, hb, timer, phase, connVars, silence, backoff, history>>

-----------------------------------------------------------------------------
(* The SDK thread, the network and the clock *)

\* _handle_fill_sync: a fill arrives on the current connection or a leaked one.
\* It is handed to the loop as a task (see Processor!Deliver).
Fill ==
  /\ (conn = "open" /\ subs > 0) \/ leaked > 0
  /\ silence' = 0
  /\ UNCHANGED <<main, running, stopped, hb, timer, phase, connVars, backoff, history>>

\* The connection dies without a word: the SDK does not reconnect.
Drop ==
  /\ conn = "open"
  /\ conn' = "dead"
  /\ UNCHANGED <<main, running, stopped, hb, timer, phase, subs, leaked, badCloses,
                 silence, backoff, history>>

Asleep == hb \in {"sleeping", "backoff"}

Tick ==
  /\ Asleep => timer > 0
  /\ timer' = IF Asleep THEN timer - 1 ELSE timer
  /\ silence' = IF silence = None THEN None ELSE MinOf(SilenceCap, silence + 1)
  /\ waited' = MinOf(WaitCap, waited + 1)
  /\ UNCHANGED <<main, running, stopped, hb, phase, connVars, backoff, fails>>

Next ==
  \/ Start \/ Disconnect \/ Create
  \/ \E i \in 1..Len(Addresses) : Subscribe(i)
  \/ Connected \/ ConnectFails
  \/ HeartbeatWakes \/ Retry \/ Stop \/ MainReturns
  \/ Fill \/ Drop \/ Tick

Spec == Init /\ [][Next]_vars

\* The loop runs what is ready and time passes.  Of the exchange it is assumed
\* only that connecting again and again succeeds some day, with a connection
\* that does not drop before the last subscription.
Fairness ==
  /\ WF_vars(Tick)
  /\ WF_vars(Disconnect) /\ WF_vars(Connected)
  /\ WF_vars(HeartbeatWakes) /\ WF_vars(Retry) /\ WF_vars(MainReturns)
  /\ WF_vars(Create \/ ConnectFails)
  /\ SF_vars(Create)
  /\ \A i \in 1..Len(Addresses) : SF_vars(conn = "open" /\ Subscribe(i))

FairSpec == Spec /\ Fairness

-----------------------------------------------------------------------------
TypeOK ==
  /\ main \in {"new", "connecting", "waiting", "raised", "returned"}
  /\ running \in BOOLEAN /\ stopped \in BOOLEAN
  /\ hb \in {"none", "sleeping", "connecting", "backoff", "ended"}
  /\ timer \in 0..(2 * MaxBackoff + HeartbeatInterval)
  /\ phase \in {"idle", "disconnect", "create", "subscribe"}
  /\ conn \in {"none", "open", "dead", "closed"}
  /\ subs \in 0..Len(Addresses)
  /\ silence \in 0..SilenceCap \cup {None}
  /\ backoff \in InitialBackoff..MaxBackoff
  /\ leaked \in Nat /\ badCloses \in 0..MaxBadCloses
  /\ fails \in 0..FailCap /\ waited \in 0..WaitCap

\* Reconnecting never piles up connections that deliver: one that was handed over
\* is abandoned only when closing it raised.  (Two of them would deliver every fill
\* twice.)
NoStrayConnection == leaked <= badCloses

\* While the heartbeat only watches, the current connection carries every
\* address: an attempt that broke off half way is never taken for a success.
WatchedIsComplete ==
  hb = "sleeping" => conn \in {"open", "dead"} /\ subs = Len(Addresses)

\* Silence is noticed within one heartbeat of the threshold.
SilenceBounded ==
  hb = "sleeping" => silence # None /\ silence <= StaleThreshold + HeartbeatInterval

\* After n failed attempts in a row the next one comes no sooner than
\* min(MAX_BACKOFF, INITIAL_BACKOFF * 2 ^ (n - 1)) seconds after the last.
BackoffPaced ==
  [][hb = "backoff" /\ hb' = "connecting" => waited >= Doubled(fails - 1)]_vars

\* After stop() none of the manager's connections, present or past, is open and none
\* is opened, unless closing raised.
StoppedIsQuiet ==
  stopped => /\ phase = "idle"
             /\ conn = "open" \/ leaked > 0 => badCloses > 0

\* A connection that dies under the heartbeat's watch is replaced by a complete
\* one, provided the exchange accepts one some day and nobody stops the manager.
\* (An old connection whose close failed may go on delivering fills, and then
\* the heartbeat has no reason to look at the new one.)
DropIsRepaired ==
  (hb = "sleeping" /\ conn = "dead")
    ~> (stopped \/ leaked > 0 \/ (conn = "open" /\ subs = Len(Addresses)))

\* HYPERLIQUID_LISTENER.md on reconnection: "Initial connection failure:
\* Immediate retry with backoff".
InitialFailureRetried == main = "raised" ~> phase # "idle" \/ stopped
=============================================================================
