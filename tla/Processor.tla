----------------------------- MODULE Processor -----------------------------
(***************************************************************************)
(* The transaction pipeline: TransactionProcessor.process run by one       *)
(* asyncio task per received message, together with what it shares: the    *)
(* activity limiter, the connection pool, the transactions table with its  *)
(* unique txn_hash, and the Telegram chat.                                 *)
(*                                                                         *)
(* A task runs without interruption between two awaits, so each action is  *)
(* the code from one await to the next, or what the database or Telegram   *)
(* does meanwhile.  The exchange redelivers: every reconnection replays    *)
(* recent fills, so the same event may arrive any number of times.  The    *)
(* process may crash at any point; the table and the chat survive it.      *)
(***************************************************************************)
EXTENDS Integers, Sequences, FiniteSets

CONSTANTS
  Hashes,          \* transaction hashes
  Events,          \* what _parse_message hands over: [hash, wallet, large]
  PoolSize,        \* connections in the pool
  NumStrategies,   \* strategies given to the processor
  ChatConfigured,  \* telegram client and chat id present
  MaxTasks,        \* bound: messages received in a behaviour
  MaxCrashes,      \* bound: crashes
  Wallets, Window, MaxTx, TTL, MaxTime, MaxRecords,  \* see ActivityLimiter
  None

Tasks == 1..MaxTasks

\* `large' abstracts transaction_value_usd >= min_transaction_value.
ASSUME ProcessorAssumption ==
  /\ Events \subseteq [hash : Hashes, wallet : Wallets, large : BOOLEAN]
  /\ PoolSize \in Nat /\ NumStrategies \in Nat
  /\ ChatConfigured \in BOOLEAN
  /\ MaxTasks \in Nat /\ MaxCrashes \in Nat
  /\ None \notin Tasks /\ None \notin Events

VARIABLES
  now, activity, blacklisted, log,   \* the activity limiter
  pc,         \* where each task stands
  event,      \* the event a task handles
  evaluated,  \* strategies a task has been through
  matches,    \* strategy_results: how many of them matched
  holders,    \* tasks that hold a pooled connection
  rows,       \* the transactions table: hash -> the task that inserted it
  alerts,     \* messages that reached the chat, per hash
  crashes

limiterVars == <<now, activity, blacklisted, log>>
taskVars == <<event, evaluated, matches>>
dbVars == <<holders, rows>>
vars == <<limiterVars, pc, taskVars, dbVars, alerts, crashes>>

Limiter == INSTANCE ActivityLimiter

\* "queued": handed to call_soon_threadsafe, not yet run.  "stored": the row is
\* committed and the reply is under way.  "posted": the chat has the message
\* and the reply is under way.  "orphaned": nobody waits for the INSERT any more,
\* but the server may still execute it.
Working == {"queued", "acquiring", "inserting", "stored", "evaluating",
            "sending", "posted"}
Ended == {"done", "failed", "lost"}
States == {"idle", "orphaned"} \cup Working \cup Ended

\* Operators named <definition>_<fault> are faulty variants of the definition
\* that follows them; no specification uses them.
Hash(t) == event[t].hash
Wallet(t) == event[t].wallet

-----------------------------------------------------------------------------
Init ==
  /\ Limiter!Init
  /\ pc = [t \in Tasks |-> "idle"]
  /\ event = [t \in Tasks |-> None]
  /\ evaluated = [t \in Tasks |-> 0]
  /\ matches = [t \in Tasks |-> 0]
  /\ holders = {}
  /\ rows = [h \in Hashes |-> None]
  /\ alerts = [h \in Hashes |-> 0]
  /\ crashes = 0

Tick ==
  /\ Limiter!Tick
  /\ UNCHANGED <<pc, taskVars, dbVars, alerts, crashes>>

\* The SDK thread delivers a message; the loop will run a new task for it.
Deliver(t, e) ==
  /\ pc[t] = "idle"
  /\ \A u \in Tasks : u < t => pc[u] # "idle"
  /\ pc' = [pc EXCEPT ![t] = "queued"]
  /\ event' = [event EXCEPT ![t] = e]
  /\ UNCHANGED <<limiterVars, evaluated, matches, dbVars, alerts, crashes>>

Goto(t, label) == pc' = [pc EXCEPT ![t] = label]

\* The synchronous head of process(): blacklisted wallets and small
\* transactions are dropped, then the limiter is asked to record the rest.  It
\* counts a transaction only if it is below the threshold, which at this point
\* it never is.
Begin(t) ==
  /\ pc[t] = "queued"
  /\ \/ /\ Limiter!Blacklisted(Wallet(t)) \/ ~event[t].large
        /\ Limiter!IsBlacklisted(Wallet(t))
        /\ Goto(t, "done")
     \/ /\ ~Limiter!Blacklisted(Wallet(t))
        /\ event[t].large
        /\ Limiter!RecordAndCheck(Wallet(t), ~event[t].large)
        /\ Goto(t, IF Limiter!Verdict(Wallet(t), ~event[t].large)
                   THEN "done" ELSE "acquiring")
  /\ UNCHANGED <<taskVars, dbVars, alerts, crashes>>

\* pool.acquire(): a free connection, or an error of the pool.
Acquire(t) ==
  /\ pc[t] = "acquiring"
  /\ Cardinality(holders) < PoolSize
  /\ holders' = holders \cup {t}
  /\ Goto(t, "inserting")
  /\ UNCHANGED <<limiterVars, taskVars, rows, alerts, crashes>>

AcquireFails_Swallowed(t) ==
  /\ pc[t] = "acquiring"
  /\ Goto(t, "done")
  /\ UNCHANGED <<limiterVars, taskVars, dbVars, alerts, crashes>>

AcquireFails(t) ==
  /\ pc[t] = "acquiring"
  /\ Goto(t, "failed")
  /\ UNCHANGED <<limiterVars, taskVars, dbVars, alerts, crashes>>

\* The server executes the INSERT, which autocommits.
Insert_Upsert(t) ==
  /\ pc[t] = "inserting"
  /\ rows' = [rows EXCEPT ![Hash(t)] = t]
  /\ Goto(t, "stored")
  /\ UNCHANGED <<limiterVars, taskVars, holders, alerts, crashes>>

Insert(t) ==
  /\ pc[t] = "inserting"
  /\ rows[Hash(t)] = None
  /\ rows' = [rows EXCEPT ![Hash(t)] = t]
  /\ Goto(t, "stored")
  /\ UNCHANGED <<limiterVars, taskVars, holders, alerts, crashes>>

\* `async with pool.acquire()' gives the connection back on every way out.
Release(t, label) ==
  /\ holders' = holders \ {t}
  /\ Goto(t, label)
  /\ UNCHANGED <<limiterVars, taskVars, rows, alerts, crashes>>

\* Unique violation: process() returns quietly.
Duplicate_GoesOn(t) ==
  /\ pc[t] = "inserting" /\ rows[Hash(t)] # None
  /\ Release(t, "evaluating")

Duplicate(t) ==
  /\ pc[t] = "inserting"
  /\ rows[Hash(t)] # None
  /\ Release(t, "done")

\* Any other database error, before or after the commit, and a row that does
\* not pass the validation of TransactionInDB: logged and raised.  A connection
\* that breaks before the commit may leave the statement to the server.
StoreFails_Leaks(t) ==
  /\ pc[t] \in {"inserting", "stored"}
  /\ Goto(t, "failed")
  /\ UNCHANGED <<limiterVars, taskVars, dbVars, alerts, crashes>>

StoreFails(t) ==
  \/ /\ pc[t] \in {"inserting", "stored"}
     /\ Release(t, "failed")
  \/ /\ pc[t] = "inserting"
     /\ Release(t, "orphaned")

Saved(t) ==
  /\ pc[t] = "stored"
  /\ Release(t, "evaluating")

Evaluate_OneMore(t) ==
  /\ pc[t] = "evaluating" /\ evaluated[t] <= NumStrategies
  /\ evaluated' = [evaluated EXCEPT ![t] = @ + 1]
  /\ UNCHANGED <<limiterVars, pc, event, matches, dbVars, alerts, crashes>>

\* One strategy: it matches, or it returns nothing or raises, which is logged.
Evaluate(t) ==
  /\ pc[t] = "evaluating"
  /\ evaluated[t] < NumStrategies
  /\ evaluated' = [evaluated EXCEPT ![t] = @ + 1]
  /\ \/ matches' = [matches EXCEPT ![t] = @ + 1]
     \/ UNCHANGED matches
  /\ UNCHANGED <<limiterVars, pc, event, dbVars, alerts, crashes>>

\* should_alert of the Hyperliquid processor.
ShouldAlert_Any(n) == n >= 1

ShouldAlert(n) == n >= 2

\* All strategies done: send an alert or return.  Saving strategy results is
\* switched off in the code (`and False').
Decide(t) ==
  /\ pc[t] = "evaluating"
  /\ evaluated[t] = NumStrategies
  /\ Goto(t, IF ShouldAlert(matches[t]) /\ ChatConfigured THEN "sending" ELSE "done")
  /\ UNCHANGED <<limiterVars, taskVars, dbVars, alerts, crashes>>

\* Telegram takes the message ...
Post(t) ==
  /\ pc[t] = "sending"
  /\ alerts' = [alerts EXCEPT ![Hash(t)] = @ + 1]
  /\ Goto(t, "posted")
  /\ UNCHANGED <<limiterVars, taskVars, dbVars, crashes>>

\* ... and the call ends: normally, with a TelegramError that the client
\* swallows (both "done"), or with another error that process() raises.
\* Nothing is retried.
SendEnds(t) ==
  /\ pc[t] \in {"sending", "posted"}
  /\ \E label \in {"done", "failed"} : Goto(t, label)
  /\ UNCHANGED <<limiterVars, taskVars, dbVars, alerts, crashes>>

\* The process dies and is restarted: tasks, connections and limiter are gone.
Crash ==
  /\ crashes < MaxCrashes
  /\ crashes' = crashes + 1
  /\ pc' = [t \in Tasks |-> CASE pc[t] = "inserting" -> "orphaned"
                              [] pc[t] \in Working \ {"inserting"} -> "lost"
                              [] OTHER -> pc[t]]
  /\ holders' = {}
  /\ activity' = [w \in Wallets |-> <<>>]
  /\ blacklisted' = [w \in Wallets |-> None]
  /\ log' = [w \in Wallets |-> <<>>]
  /\ UNCHANGED <<now, taskVars, rows, alerts>>

\* The server still executes a statement nobody waits for.
LateCommit(t) ==
  /\ pc[t] = "orphaned"
  /\ rows[Hash(t)] = None
  /\ rows' = [rows EXCEPT ![Hash(t)] = t]
  /\ Goto(t, "lost")
  /\ UNCHANGED <<limiterVars, taskVars, holders, alerts, crashes>>

\* What the program, its database and Telegram do when nothing goes wrong.
Step(t) ==
  \/ Begin(t)
  \/ Acquire(t)
  \/ Insert(t) \/ Duplicate(t) \/ Saved(t)
  \/ Evaluate(t) \/ Decide(t)
  \/ Post(t) \/ SendEnds(t)

\* What may go wrong.
Fault(t) == AcquireFails(t) \/ StoreFails(t) \/ LateCommit(t)

Next ==
  \/ Tick
  \/ Crash
  \/ \E t \in Tasks : Step(t) \/ Fault(t) \/ \E e \in Events : Deliver(t, e)

Spec == Init /\ [][Next]_vars

\* The event loop runs every ready task, the pool hands a free connection to
\* whoever waits, and database and Telegram answer (the code sets no timeout of
\* its own).  Nothing is assumed of deliveries, the clock, faults or crashes.
Fairness == \A t \in Tasks : WF_vars(Step(t))

FairSpec == Spec /\ Fairness

-----------------------------------------------------------------------------
TypeOK ==
  /\ Limiter!TypeOK
  /\ pc \in [Tasks -> States]
  /\ event \in [Tasks -> Events \cup {None}]
  /\ evaluated \in [Tasks -> 0..NumStrategies]
  /\ matches \in [Tasks -> Nat]
  /\ holders \in SUBSET Tasks
  /\ rows \in [Hashes -> Tasks \cup {None}]
  /\ alerts \in [Hashes -> Nat]
  /\ crashes \in 0..MaxCrashes

\* At most one alert per transaction hash, ever: redelivery, two handlers of the
\* same event at once, a crash between save and alert and the replay after it
\* never produce a second message.
AlertedOnce == \A h \in Hashes : alerts[h] <= 1

\* Whatever is alerted is in the table, put there by the task that alerted, for
\* a large transaction that at least two strategies matched.
AlertBacked ==
  \A h \in Hashes : alerts[h] > 0 =>
    \E t \in Tasks : /\ rows[h] = t
                     /\ event[t].hash = h /\ event[t].large
                     /\ matches[t] >= 2

\* A large transaction is dropped in silence only if its hash is stored: a
\* handler that returns normally has saved it or found it saved.
SilentMeansStored ==
  \A t \in Tasks : pc[t] = "done" /\ event[t].large => rows[Hash(t)] # None

\* A connection is out of the pool exactly while a handler talks to the
\* database: every way out of the repository call returns it.
PoolAccounted ==
  /\ holders = {t \in Tasks : pc[t] \in {"inserting", "stored"}}
  /\ Cardinality(holders) <= PoolSize

\* Every received message is handled to the end, also when there are fewer
\* connections than handlers.
EveryTaskEnds ==
  \A t \in Tasks : pc[t] = "queued" ~> pc[t] \in Ended \cup {"orphaned"}

\* The pipeline implements the ledger.
Ledger == INSTANCE AlertLedger WITH stored <- {h \in Hashes : rows[h] # None}
ImplementsLedger == Ledger!Spec

\* processor.py announces that a wallet with more than max_tx_per_window
\* sub-threshold transactions within the window is blacklisted.  Stated for
\* behaviours no longer than one window, so that all transactions count.
SpammerBlacklisted ==
  \A w \in Wallets :
    (/\ now <= Window
     /\ crashes = 0
     /\ Cardinality({t \in Tasks : /\ pc[t] = "done"
                                   /\ event[t].wallet = w
                                   /\ ~event[t].large}) > MaxTx)
    => Limiter!Blacklisted(w)
=============================================================================
