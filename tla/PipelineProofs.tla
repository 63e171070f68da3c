--------------------------- MODULE PipelineProofs ---------------------------
(***************************************************************************)
(* Theorems about the transaction pipeline, for every set of hashes,       *)
(* wallets and events, any number of tasks, strategies and connections,    *)
(* and any number of crashes; then about the pipeline inside the           *)
(* application: every behaviour with shutdowns and restarts is a behaviour *)
(* of the pipeline, so that what is shown of the one holds of the other.   *)
(***************************************************************************)
EXTENDS Shutdown, FiniteSetTheorems, TLAPS

\* Past the INSERT and before the end: the task's row is in the table.
Owning == {"stored", "evaluating", "sending", "posted"}

\* The limiter is asked to count a transaction only when it is not to be
\* counted: it stays as it was created.
LimiterIdle ==
  /\ activity = [w \in Wallets |-> <<>>]
  /\ blacklisted = [w \in Wallets |-> None]
  /\ log = [w \in Wallets |-> <<>>]

HasEvent == \A t \in Tasks : pc[t] # "idle" => event[t] \in Events

\* The hash a task has inserted is its own until the end of time.
OwnsRow == \A t \in Tasks : pc[t] \in Owning => rows[Hash(t)] = t

RowOwner ==
  \A t \in Tasks, h \in Hashes :
    rows[h] = t => /\ pc[t] \in Owning \cup Ended
                   /\ event[t].hash = h

\* Only large transactions get past the filter, and only matched ones are sent.
Qualified ==
  \A t \in Tasks :
    /\ pc[t] \in (Working \ {"queued"}) \cup {"orphaned"} => event[t].large
    /\ pc[t] \in {"sending", "posted"} => matches[t] >= 2

NotYetAlerted ==
  \A t \in Tasks : pc[t] \in Owning \ {"posted"} => alerts[Hash(t)] = 0

Alerted ==
  \A h \in Hashes : alerts[h] > 0 =>
    \E t \in Tasks : /\ rows[h] = t
                     /\ pc[t] \in {"posted"} \cup Ended
                     /\ event[t].hash = h /\ event[t].large
                     /\ matches[t] >= 2

\* The inductive invariant behind AlertedOnce and AlertBacked.
LedgerInv ==
  /\ TypeOK
  /\ LimiterIdle
  /\ HasEvent
  /\ OwnsRow
  /\ RowOwner
  /\ Qualified
  /\ NotYetAlerted
  /\ Alerted
  /\ AlertedOnce
  /\ SilentMeansStored

-----------------------------------------------------------------------------
(* The ledger invariant is inductive: one lemma per action *)

LEMMA LedgerInit == Init => LedgerInv
<1> SUFFICES ASSUME Init PROVE LedgerInv
  OBVIOUS
<1> USE ProcessorAssumption DEF Init, Limiter!Init
<1>1. TypeOK
  BY DEF TypeOK, Limiter!TypeOK, States
<1>2. LimiterIdle
  BY DEF LimiterIdle
<1>3. HasEvent /\ OwnsRow /\ RowOwner /\ Qualified /\ NotYetAlerted
  BY DEF HasEvent, OwnsRow, RowOwner, Qualified, NotYetAlerted, Owning, Working, Ended
<1>4. Alerted /\ AlertedOnce /\ SilentMeansStored
  BY DEF Alerted, AlertedOnce, SilentMeansStored
<1>5. QED BY <1>1, <1>2, <1>3, <1>4 DEF LedgerInv

\* With an idle limiter the filter reduces to the threshold.
LEMMA IdleLimiter ==
  ASSUME LimiterIdle, NEW w \in Wallets
  PROVE  /\ ~Limiter!Blacklisted(w)
         /\ Limiter!IsBlacklisted(w) => UNCHANGED limiterVars
         /\ Limiter!RecordAndCheck(w, FALSE) => UNCHANGED limiterVars
         /\ ~Limiter!Verdict(w, FALSE)
<1>1. ~Limiter!Blacklisted(w) /\ Limiter!EntryAfterLookup(w) = None
  BY DEF LimiterIdle, Limiter!Blacklisted, Limiter!EntryAfterLookup, Limiter!Expired
<1>2. [blacklisted EXCEPT ![w] = None] = blacklisted
  BY DEF LimiterIdle
<1>3. Limiter!IsBlacklisted(w) => UNCHANGED limiterVars
  BY <1>1, <1>2 DEF Limiter!IsBlacklisted, limiterVars
<1>4. QED
  BY <1>1, <1>3 DEF Limiter!RecordAndCheck, Limiter!Verdict

\* What Begin does to a task, the limiter being idle.
LEMMA BeginMoves ==
  ASSUME LedgerInv, NEW t \in Tasks, Begin(t)
  PROVE  /\ pc[t] = "queued"
         /\ pc' = [pc EXCEPT ![t] = IF event[t].large THEN "acquiring" ELSE "done"]
         /\ UNCHANGED <<limiterVars, taskVars, dbVars, alerts, crashes>>
<1>1. event[t] \in Events /\ Wallet(t) \in Wallets /\ event[t].large \in BOOLEAN
  BY ProcessorAssumption DEF LedgerInv, HasEvent, Begin, Wallet
<1>2. /\ ~Limiter!Blacklisted(Wallet(t))
      /\ Limiter!IsBlacklisted(Wallet(t)) => UNCHANGED limiterVars
      /\ Limiter!RecordAndCheck(Wallet(t), FALSE) => UNCHANGED limiterVars
      /\ ~Limiter!Verdict(Wallet(t), FALSE)
  BY <1>1, IdleLimiter DEF LedgerInv
<1>3. CASE event[t].large
  <2>1. (~event[t].large) = FALSE
    BY <1>3
  <2>2. QED BY <1>2, <1>3, <2>1 DEF Begin, Goto
<1>4. CASE ~event[t].large
  BY <1>1, <1>2, <1>4 DEF Begin, Goto
<1>5. QED BY <1>3, <1>4

LEMMA BeginLedger ==
  ASSUME LedgerInv, NEW t \in Tasks, Begin(t)
  PROVE  LedgerInv'
<1> USE BeginMoves DEF limiterVars, taskVars, dbVars
<1>1. TypeOK'
  BY DEF LedgerInv, TypeOK, Limiter!TypeOK, States, Working, Ended
<1>2. LimiterIdle' /\ HasEvent' /\ AlertedOnce'
  BY DEF LedgerInv, TypeOK, LimiterIdle, HasEvent, AlertedOnce
<1>3. OwnsRow' /\ RowOwner'
  BY DEF LedgerInv, TypeOK, OwnsRow, RowOwner, Owning, Working, Ended, Hash
<1>4. Qualified'
  BY DEF LedgerInv, TypeOK, Qualified, Working
<1>5. NotYetAlerted' /\ Alerted'
  BY DEF LedgerInv, TypeOK, NotYetAlerted, Alerted, Owning, Ended, Hash
<1>6. SilentMeansStored'
  BY DEF LedgerInv, TypeOK, SilentMeansStored, Hash
<1>7. QED BY <1>1, <1>2, <1>3, <1>4, <1>5, <1>6 DEF LedgerInv

\* Where a task may go without touching table, alerts or results.
LegalMove(t, label) ==
  /\ pc[t] \in Working \ {"queued"}
  /\ label \in States \ {"idle", "queued"}
  /\ label \in Owning => pc[t] \in Owning
  /\ pc[t] \in Owning => label \in Owning \cup Ended
  /\ label \in {"sending", "posted"} => matches[t] >= 2
  /\ label \in Owning \ {"posted"} => pc[t] \in Owning \ {"posted"}
  /\ pc[t] = "posted" => label \in Ended
  /\ label = "done" => rows[Hash(t)] # None

LEMMA MoveLedger ==
  ASSUME LedgerInv, NEW t \in Tasks, NEW label, LegalMove(t, label),
         pc' = [pc EXCEPT ![t] = label],
         holders' \in SUBSET Tasks,
         UNCHANGED <<limiterVars, taskVars, rows, alerts, crashes>>
  PROVE  LedgerInv'
<1> USE DEF limiterVars, taskVars, LegalMove
<1>1. TypeOK'
  BY DEF LedgerInv, TypeOK, Limiter!TypeOK, States
<1>2. LimiterIdle' /\ HasEvent' /\ AlertedOnce'
  BY DEF LedgerInv, TypeOK, LimiterIdle, HasEvent, AlertedOnce, Working
<1>3. OwnsRow' /\ RowOwner'
  BY DEF LedgerInv, TypeOK, OwnsRow, RowOwner, Owning, Working, Ended, Hash
<1>4. Qualified'
  BY DEF LedgerInv, TypeOK, Qualified, Working
<1>5. NotYetAlerted' /\ Alerted'
  BY DEF LedgerInv, TypeOK, NotYetAlerted, Alerted, Owning, Working, Ended, Hash
<1>6. SilentMeansStored'
  BY DEF LedgerInv, TypeOK, SilentMeansStored, Hash
<1>7. QED BY <1>1, <1>2, <1>3, <1>4, <1>5, <1>6 DEF LedgerInv

LEMMA AcquireLedger ==
  ASSUME LedgerInv, NEW t \in Tasks, Acquire(t) \/ AcquireFails(t)
  PROVE  LedgerInv'
<1>1. PICK label \in {"inserting", "failed"} :
        /\ pc[t] = "acquiring"
        /\ pc' = [pc EXCEPT ![t] = label]
        /\ holders' \in SUBSET Tasks
        /\ UNCHANGED <<limiterVars, taskVars, rows, alerts, crashes>>
  BY DEF Acquire, AcquireFails, Goto, dbVars, LedgerInv, TypeOK
<1>2. LegalMove(t, label)
  BY <1>1 DEF LegalMove, Owning, Working, Ended, States
<1>3. QED BY <1>1, <1>2, MoveLedger

\* Every way out of the repository call that leaves the table alone.
LEMMA ReleaseLedger ==
  ASSUME LedgerInv, NEW t \in Tasks, Duplicate(t) \/ StoreFails(t) \/ Saved(t)
  PROVE  LedgerInv'
<1>1. PICK label \in {"done", "failed", "orphaned", "evaluating"} :
        /\ pc[t] \in {"inserting", "stored"}
        /\ label = "done" => pc[t] = "inserting" /\ rows[Hash(t)] # None
        /\ label = "orphaned" => pc[t] = "inserting"
        /\ label = "evaluating" => pc[t] = "stored"
        /\ pc' = [pc EXCEPT ![t] = label]
        /\ holders' \in SUBSET Tasks
        /\ UNCHANGED <<limiterVars, taskVars, rows, alerts, crashes>>
  BY DEF Duplicate, StoreFails, Saved, Release, Goto, LedgerInv, TypeOK
<1>2. LegalMove(t, label)
  BY <1>1 DEF LegalMove, Owning, Working, Ended, States
<1>3. QED BY <1>1, <1>2, MoveLedger

LEMMA DecideLedger ==
  ASSUME LedgerInv, NEW t \in Tasks, Decide(t) \/ SendEnds(t)
  PROVE  LedgerInv'
<1>1. PICK label \in {"sending", "done", "failed"} :
        /\ pc[t] \in {"evaluating", "sending", "posted"}
        /\ label = "sending" => pc[t] = "evaluating" /\ matches[t] >= 2
        /\ pc' = [pc EXCEPT ![t] = label]
        /\ UNCHANGED <<limiterVars, taskVars, dbVars, alerts, crashes>>
  BY DEF Decide, SendEnds, Goto, ShouldAlert
<1>2. rows[Hash(t)] # None
  BY <1>1, ProcessorAssumption DEF LedgerInv, OwnsRow, Owning
<1>3. LegalMove(t, label)
  BY <1>1, <1>2 DEF LegalMove, Owning, Working, Ended, States
<1>4. holders' \in SUBSET Tasks /\ rows' = rows
  BY <1>1 DEF dbVars, LedgerInv, TypeOK
<1>5. QED BY <1>1, <1>3, <1>4, MoveLedger

LEMMA DeliverLedger ==
  ASSUME LedgerInv, NEW t \in Tasks, NEW e \in Events, Deliver(t, e)
  PROVE  LedgerInv'
<1> USE DEF Deliver, limiterVars, dbVars
<1>1. TypeOK'
  BY DEF LedgerInv, TypeOK, Limiter!TypeOK, States, Working
<1>2. LimiterIdle' /\ HasEvent' /\ AlertedOnce'
  BY DEF LedgerInv, TypeOK, LimiterIdle, HasEvent, AlertedOnce
<1>3. OwnsRow' /\ RowOwner'
  BY DEF LedgerInv, TypeOK, OwnsRow, RowOwner, Owning, Working, Ended, Hash
<1>4. Qualified'
  BY DEF LedgerInv, TypeOK, Qualified, Working
<1>5. NotYetAlerted' /\ Alerted'
  BY DEF LedgerInv, TypeOK, NotYetAlerted, Alerted, Owning, Ended, Hash
<1>6. SilentMeansStored'
  BY DEF LedgerInv, TypeOK, SilentMeansStored, Hash
<1>7. QED BY <1>1, <1>2, <1>3, <1>4, <1>5, <1>6 DEF LedgerInv

\* The row of a hash that had none, put there by t itself or by the server on
\* behalf of a task that has given up.
LEMMA InsertLedger ==
  ASSUME LedgerInv, NEW t \in Tasks, Insert(t) \/ LateCommit(t)
  PROVE  LedgerInv'
<1> DEFINE h == Hash(t)
<1>1. PICK label \in {"stored", "lost"} :
        /\ pc[t] \in {"inserting", "orphaned"}
        /\ pc' = [pc EXCEPT ![t] = label]
        /\ rows' = [rows EXCEPT ![h] = t]
        /\ UNCHANGED <<limiterVars, taskVars, holders, alerts, crashes>>
  BY DEF Insert, LateCommit, Goto
<1>2. rows[h] = None /\ h \in Hashes /\ event[t] \in Events
  BY <1>1, ProcessorAssumption DEF Insert, LateCommit, LedgerInv, HasEvent, Hash
<1>3. alerts[h] = 0
  <2>1. alerts[h] \in Nat /\ ~(alerts[h] > 0)
    BY <1>2, ProcessorAssumption DEF LedgerInv, TypeOK, Alerted
  <2>2. QED BY <2>1
<1> USE DEF limiterVars, taskVars
<1>4. TypeOK'
  BY <1>1, <1>2 DEF LedgerInv, TypeOK, Limiter!TypeOK, States, Working, Ended
<1>5. LimiterIdle' /\ HasEvent' /\ AlertedOnce'
  BY <1>1, <1>2 DEF LedgerInv, TypeOK, LimiterIdle, HasEvent, AlertedOnce
<1>6. OwnsRow' /\ RowOwner'
  <2>1. \A u \in Tasks : pc[u] \in Owning => Hash(u) \in Hashes /\ Hash(u) # h
    BY <1>2, ProcessorAssumption
       DEF LedgerInv, OwnsRow, HasEvent, Owning, Hash
  <2>2. OwnsRow'
    BY <1>1, <1>2, <2>1 DEF LedgerInv, TypeOK, OwnsRow, Owning, Hash
  <2>3. RowOwner'
    BY <1>1, <1>2 DEF LedgerInv, TypeOK, RowOwner, Owning, Ended, Hash
  <2>4. QED BY <2>2, <2>3
<1>7. Qualified'
  BY <1>1 DEF LedgerInv, TypeOK, Qualified, Working
<1>8. NotYetAlerted'
  BY <1>1, <1>3 DEF LedgerInv, TypeOK, NotYetAlerted, Owning, Hash
<1>9. Alerted'
  BY <1>1, <1>2, <1>3 DEF LedgerInv, TypeOK, Alerted, Ended
<1>10. SilentMeansStored'
  BY <1>1, <1>2, ProcessorAssumption DEF LedgerInv, TypeOK, SilentMeansStored, Hash
<1>11. QED BY <1>4, <1>5, <1>6, <1>7, <1>8, <1>9, <1>10 DEF LedgerInv

LEMMA EvaluateLedger ==
  ASSUME LedgerInv, NEW t \in Tasks, Evaluate(t)
  PROVE  LedgerInv'
<1> USE DEF Evaluate, limiterVars, dbVars
<1>1. TypeOK'
  BY ProcessorAssumption DEF LedgerInv, TypeOK, Limiter!TypeOK
<1>2. LimiterIdle' /\ HasEvent' /\ OwnsRow' /\ RowOwner' /\ NotYetAlerted'
      /\ AlertedOnce' /\ SilentMeansStored'
  BY DEF LedgerInv, LimiterIdle, HasEvent, OwnsRow, RowOwner, NotYetAlerted,
         AlertedOnce, SilentMeansStored, Hash
<1>3. Qualified'
  BY DEF LedgerInv, TypeOK, Qualified
<1>4. Alerted'
  BY DEF LedgerInv, TypeOK, Alerted, Ended
<1>5. QED BY <1>1, <1>2, <1>3, <1>4 DEF LedgerInv

LEMMA PostLedger ==
  ASSUME LedgerInv, NEW t \in Tasks, Post(t)
  PROVE  LedgerInv'
<1> USE DEF Post, Goto, limiterVars, taskVars, dbVars
<1>1. /\ Hash(t) \in Hashes /\ rows[Hash(t)] = t /\ event[t].large
      /\ matches[t] >= 2 /\ alerts[Hash(t)] = 0
  BY ProcessorAssumption
     DEF LedgerInv, HasEvent, OwnsRow, Qualified, NotYetAlerted, Owning, Working, Hash
<1>2. TypeOK'
  BY <1>1 DEF LedgerInv, TypeOK, Limiter!TypeOK, States, Working
<1>3. LimiterIdle' /\ HasEvent' /\ AlertedOnce'
  BY <1>1 DEF LedgerInv, TypeOK, LimiterIdle, HasEvent, AlertedOnce
<1>4. OwnsRow' /\ RowOwner' /\ Qualified'
  BY DEF LedgerInv, TypeOK, OwnsRow, RowOwner, Qualified, Owning, Working, Ended, Hash
<1>5. NotYetAlerted'
  BY <1>1 DEF LedgerInv, TypeOK, NotYetAlerted, OwnsRow, Owning, Hash
<1>6. Alerted'
  BY <1>1 DEF LedgerInv, TypeOK, Alerted, Ended, Hash
<1>7. SilentMeansStored'
  BY DEF LedgerInv, TypeOK, SilentMeansStored, Hash
<1>8. QED BY <1>2, <1>3, <1>4, <1>5, <1>6, <1>7 DEF LedgerInv

LEMMA CrashLedger == LedgerInv /\ Crash => LedgerInv'
<1> SUFFICES ASSUME LedgerInv, Crash PROVE LedgerInv'
  OBVIOUS
<1> USE DEF limiterVars, taskVars
<1>1. /\ pc' \in [Tasks -> States]
      /\ \A t \in Tasks : \/ pc'[t] = pc[t] /\ pc[t] \notin Working
                          \/ pc'[t] = "orphaned" /\ pc[t] = "inserting"
                          \/ pc'[t] = "lost" /\ pc[t] \in Working \ {"inserting"}
  BY DEF LedgerInv, TypeOK, Crash, States, Working, Ended
<1>2. /\ holders' = {} /\ crashes' \in 0..MaxCrashes
      /\ UNCHANGED <<now, taskVars, rows, alerts>>
  BY ProcessorAssumption DEF LedgerInv, TypeOK, Crash
<1>3. LimiterIdle'
  BY DEF LedgerInv, LimiterIdle, Crash
<1>4. TypeOK'
  BY <1>1, <1>2, <1>3 DEF LedgerInv, TypeOK, LimiterIdle, Limiter!TypeOK
<1>5. HasEvent' /\ AlertedOnce'
  BY <1>1, <1>2 DEF LedgerInv, HasEvent, AlertedOnce, Working
<1>6. OwnsRow' /\ NotYetAlerted' /\ SilentMeansStored'
  BY <1>1, <1>2 DEF LedgerInv, OwnsRow, NotYetAlerted, SilentMeansStored,
                    Owning, Working, Ended, Hash
<1>7. RowOwner' /\ Qualified'
  BY <1>1, <1>2 DEF LedgerInv, RowOwner, Qualified, Owning, Working, Ended, Hash
<1>8. Alerted'
  BY <1>1, <1>2 DEF LedgerInv, Alerted, Working, Ended
<1>9. QED BY <1>3, <1>4, <1>5, <1>6, <1>7, <1>8 DEF LedgerInv

LEMMA TickLedger == LedgerInv /\ Tick => LedgerInv'
<1> SUFFICES ASSUME LedgerInv, Tick PROVE LedgerInv'
  OBVIOUS
<1>1. /\ now \in Nat /\ now' = now + 1
      /\ UNCHANGED <<activity, blacklisted, log, pc, taskVars, dbVars, alerts, crashes>>
  BY DEF Tick, Limiter!Tick, Limiter!limiterVars, LedgerInv, TypeOK, Limiter!TypeOK
<1>2. QED
  BY <1>1 DEF LedgerInv, TypeOK, Limiter!TypeOK, LimiterIdle, HasEvent, OwnsRow,
              RowOwner, Qualified, NotYetAlerted, Alerted, AlertedOnce,
              SilentMeansStored, Hash, taskVars, dbVars

LEMMA StutterLedger == LedgerInv /\ UNCHANGED vars => LedgerInv'
BY DEF LedgerInv, TypeOK, Limiter!TypeOK, LimiterIdle, HasEvent, OwnsRow,
       RowOwner, Qualified, NotYetAlerted, Alerted, AlertedOnce,
       SilentMeansStored, Hash, vars, limiterVars, taskVars, dbVars

LEMMA NextLedger == LedgerInv /\ [Next]_vars => LedgerInv'
<1> SUFFICES ASSUME LedgerInv, [Next]_vars PROVE LedgerInv'
  OBVIOUS
<1>1. ASSUME NEW t \in Tasks, Step(t) PROVE LedgerInv'
  BY <1>1, BeginLedger, AcquireLedger, ReleaseLedger, DecideLedger, InsertLedger,
     EvaluateLedger, PostLedger DEF Step
<1>2. ASSUME NEW t \in Tasks, Fault(t) PROVE LedgerInv'
  BY <1>2, AcquireLedger, ReleaseLedger, InsertLedger DEF Fault
<1>3. ASSUME NEW t \in Tasks, NEW e \in Events, Deliver(t, e) PROVE LedgerInv'
  BY <1>3, DeliverLedger
<1>4. QED
  BY <1>1, <1>2, <1>3, CrashLedger, TickLedger, StutterLedger DEF Next

-----------------------------------------------------------------------------
(* Connections *)

LEMMA PoolNext == LedgerInv /\ PoolAccounted /\ [Next]_vars => PoolAccounted'
<1> SUFFICES ASSUME LedgerInv, PoolAccounted, [Next]_vars PROVE PoolAccounted'
  OBVIOUS
<1> DEFINE AtDatabase == {"inserting", "stored"}
<1> USE DEF PoolAccounted
<1>1. /\ pc \in [Tasks -> States] /\ holders \in SUBSET Tasks
      /\ IsFiniteSet(holders) /\ Cardinality(holders) \in Nat
      /\ IsFiniteSet({}) /\ Cardinality({}) = 0 /\ PoolSize \in Nat
  <2>1. IsFiniteSet(Tasks)
    BY ProcessorAssumption, FS_Interval DEF Tasks
  <2>2. QED
    BY <2>1, FS_Subset, FS_CardinalityType, FS_EmptySet, ProcessorAssumption
       DEF LedgerInv, TypeOK
<1>2. ASSUME UNCHANGED holders,
             \A t \in Tasks : pc'[t] \in AtDatabase <=> pc[t] \in AtDatabase
      PROVE  PoolAccounted'
  BY <1>2
<1>3. ASSUME NEW t \in Tasks, holders' = holders \ {t}, pc'[t] \notin AtDatabase,
             \A u \in Tasks \ {t} : pc'[u] = pc[u]
      PROVE  PoolAccounted'
  <2>1. Cardinality(holders \ {t}) <= Cardinality(holders)
    BY <1>1, FS_RemoveElement
  <2>2. IsFiniteSet(holders \ {t}) /\ Cardinality(holders \ {t}) \in Nat
    BY <1>1, FS_RemoveElement, FS_CardinalityType
  <2>3. Cardinality(holders') <= PoolSize
    BY <1>1, <1>3, <2>1, <2>2
  <2>4. QED BY <1>1, <1>3, <2>3
<1>4. ASSUME NEW t \in Tasks, Acquire(t) PROVE PoolAccounted'
  <2>1. /\ pc[t] = "acquiring" /\ pc' = [pc EXCEPT ![t] = "inserting"]
        /\ Cardinality(holders) < PoolSize /\ holders' = holders \cup {t}
    BY <1>4 DEF Acquire, Goto
  <2>2. t \notin holders
    BY <2>1
  <2>3. Cardinality(holders') = Cardinality(holders) + 1
    BY <1>1, <2>1, <2>2, FS_AddElement
  <2>4. QED BY <1>1, <2>1, <2>3
<1>5. ASSUME NEW t \in Tasks, Duplicate(t) \/ StoreFails(t) \/ Saved(t)
      PROVE  PoolAccounted'
  BY <1>1, <1>3, <1>5 DEF Duplicate, StoreFails, Saved, Release, Goto
<1>6. ASSUME NEW t \in Tasks,
             Begin(t) \/ AcquireFails(t) \/ Insert(t) \/ Evaluate(t) \/ Decide(t)
             \/ Post(t) \/ SendEnds(t) \/ LateCommit(t)
      PROVE  PoolAccounted'
  <2>1. UNCHANGED holders
    BY <1>6 DEF Begin, AcquireFails, Insert, Evaluate, Decide, Post, SendEnds,
                LateCommit, dbVars
  <2>2. \A u \in Tasks : pc'[u] \in AtDatabase <=> pc[u] \in AtDatabase
    BY <1>1, <1>6 DEF Begin, AcquireFails, Insert, Evaluate, Decide, Post, SendEnds,
                      LateCommit, Goto
  <2>3. QED BY <1>2, <2>1, <2>2
<1>7. ASSUME NEW t \in Tasks, NEW e \in Events, Deliver(t, e) PROVE PoolAccounted'
  BY <1>1, <1>2, <1>7 DEF Deliver, dbVars
<1>8. CASE Crash
  <2>1. holders' = {} /\ \A t \in Tasks : pc'[t] \notin AtDatabase
    BY <1>1, <1>8 DEF Crash, Working
  <2>2. QED BY <1>1, <2>1
<1>9. CASE Tick \/ UNCHANGED vars
  BY <1>2, <1>9 DEF Tick, dbVars, vars
<1>10. QED
  BY <1>4, <1>5, <1>6, <1>7, <1>8, <1>9 DEF Next, Step, Fault

-----------------------------------------------------------------------------
(* Theorems *)

\* The pipeline never leaves its inductive invariant.
THEOREM PipelineInvariant == Spec => []LedgerInv
<1>1. QED BY LedgerInit, NextLedger, PTL DEF Spec

\* Every variable keeps its type.
THEOREM PipelineTypeOK == Spec => []TypeOK
<1>1. LedgerInv => TypeOK
  BY DEF LedgerInv
<1>2. QED BY <1>1, PipelineInvariant, PTL

\* No transaction hash is alerted twice, whatever is redelivered, interleaved,
\* lost or restarted.
THEOREM PipelineAlertedOnce == Spec => []AlertedOnce
<1>1. LedgerInv => AlertedOnce
  BY DEF LedgerInv
<1>2. QED BY <1>1, PipelineInvariant, PTL

\* Every alert is about a stored, large transaction with two matching strategies.
THEOREM PipelineAlertBacked == Spec => []AlertBacked
<1>1. LedgerInv => AlertBacked
  BY DEF LedgerInv, Alerted, AlertBacked
<1>2. QED BY <1>1, PipelineInvariant, PTL

\* A handler that returns without an error has not lost a large transaction.
THEOREM PipelineSilentMeansStored == Spec => []SilentMeansStored
<1>1. LedgerInv => SilentMeansStored
  BY DEF LedgerInv
<1>2. QED BY <1>1, PipelineInvariant, PTL

\* The pool is never overdrawn and every handler that is not talking to the
\* database has returned its connection.
THEOREM PipelinePoolAccounted == Spec => []PoolAccounted
<1>1. Init => PoolAccounted
  <2>1. Cardinality({}) = 0
    BY FS_EmptySet
  <2> SUFFICES ASSUME Init PROVE PoolAccounted
    OBVIOUS
  <2>3. holders = {} /\ \A t \in Tasks : pc[t] = "idle"
    BY DEF Init
  <2>4. holders = {t \in Tasks : pc[t] \in {"inserting", "stored"}}
    BY <2>3
  <2>5. Cardinality(holders) <= PoolSize
    <3>1. PoolSize \in Nat /\ Cardinality(holders) = 0
      BY <2>1, <2>3, ProcessorAssumption
    <3>2. QED BY <3>1
  <2>6. QED BY <2>4, <2>5 DEF PoolAccounted
<1>2. QED BY <1>1, PipelineInvariant, PoolNext, PTL DEF Spec

\* The wallet limiter has no effect on the pipeline: no wallet is ever recorded
\* or blacklisted, because the threshold has already dropped every transaction
\* that would count.
THEOREM PipelineLimiterIdle == Spec => []LimiterIdle
<1>1. LedgerInv => LimiterIdle
  BY DEF LedgerInv
<1>2. QED BY <1>1, PipelineInvariant, PTL

\* The pipeline implements the ledger: storing a row and posting an alert are
\* the ledger's two actions, everything else leaves the ledger alone.
THEOREM PipelineImplementsLedger == Spec => ImplementsLedger
<1> DEFINE Stored == {h \in Hashes : rows[h] # None}
<1>1. Init => Ledger!Init
  BY DEF Init, Ledger!Init
<1>2. ASSUME LedgerInv, [Next]_vars PROVE [Ledger!Next]_(Ledger!vars)
  <2> USE DEF Ledger!vars
  <2>1. ASSUME UNCHANGED <<rows, alerts>> PROVE UNCHANGED Ledger!vars
    BY <2>1
  <2>2. ASSUME NEW t \in Tasks, Insert(t) \/ LateCommit(t) PROVE Ledger!Next
    <3>1. PICK h \in Hashes :
            /\ rows[h] = None
            /\ rows' = [rows EXCEPT ![h] = t] /\ alerts' = alerts
      BY <1>2, <2>2, ProcessorAssumption
         DEF Insert, LateCommit, LedgerInv, HasEvent, Hash
    <3>2. {g \in Hashes : rows'[g] # None} = Stored \cup {h}
      BY <1>2, <3>1, ProcessorAssumption DEF LedgerInv, TypeOK
    <3>3. Ledger!Store(h)
      BY <3>1, <3>2 DEF Ledger!Store
    <3>4. QED BY <3>1, <3>3 DEF Ledger!Next
  <2>3. ASSUME NEW t \in Tasks, Post(t) PROVE Ledger!Next
    <3>1. /\ Hash(t) \in Hashes /\ rows[Hash(t)] = t /\ alerts[Hash(t)] = 0
          /\ alerts' = [alerts EXCEPT ![Hash(t)] = @ + 1] /\ rows' = rows
      BY <1>2, <2>3, ProcessorAssumption
         DEF Post, dbVars, LedgerInv, HasEvent, OwnsRow, NotYetAlerted, Owning, Hash
    <3>2. Ledger!Alert(Hash(t))
      BY <1>2, <3>1, ProcessorAssumption DEF Ledger!Alert, LedgerInv, TypeOK
    <3>3. QED BY <3>1, <3>2 DEF Ledger!Next
  <2>4. ASSUME NEW t \in Tasks,
               Begin(t) \/ Acquire(t) \/ AcquireFails(t) \/ Duplicate(t) \/ StoreFails(t)
               \/ Saved(t) \/ Evaluate(t) \/ Decide(t) \/ SendEnds(t)
        PROVE  UNCHANGED <<rows, alerts>>
    BY <2>4 DEF Begin, Acquire, AcquireFails, Duplicate, StoreFails, Saved, Release,
                Evaluate, Decide, SendEnds, dbVars
  <2>5. ASSUME NEW t \in Tasks, NEW e \in Events, Deliver(t, e)
        PROVE  UNCHANGED <<rows, alerts>>
    BY <2>5 DEF Deliver, dbVars
  <2>6. CASE Crash \/ Tick \/ UNCHANGED vars
    <3>1. UNCHANGED <<rows, alerts>>
      BY <2>6 DEF Crash, Tick, vars, dbVars
    <3>2. QED BY <2>1, <3>1
  <2>7. QED
    BY <1>2, <2>1, <2>2, <2>3, <2>4, <2>5, <2>6 DEF Next, Step, Fault
<1>3. QED BY <1>1, <1>2, PipelineInvariant, PTL DEF Spec, ImplementsLedger, Ledger!Spec
-----------------------------------------------------------------------------
(* The application *)

\* Each step of the application is a step of the pipeline or leaves it alone.
LEMMA ShutdownStep == [ShutdownNext]_allVars => [Next]_vars
<1> SUFFICES ASSUME [ShutdownNext]_allVars PROVE [Next]_vars
  OBVIOUS
<1>1. CASE BeginShutdown \/ Restart \/ UNCHANGED allVars
  BY <1>1 DEF BeginShutdown, Restart, allVars
<1>2. CASE Over \/ Die \/ TimePasses
  BY <1>2 DEF Over, Die, TimePasses, Next
<1>3. ASSUME NEW t \in Tasks, Serve(t) \/ Refuse(t) \/ GoWrong(t) PROVE Next
  BY <1>3 DEF Serve, Refuse, GoWrong, Next, Fault
<1>4. ASSUME NEW t \in Tasks, NEW e \in Events, Receive(t, e) PROVE Next
  BY <1>4 DEF Receive, Next
<1>5. QED BY <1>1, <1>2, <1>3, <1>4 DEF ShutdownNext

\* What holds of every behaviour of the pipeline holds of the application's.
LEMMA ShutdownIsPipeline == ShutdownSpec => Spec
<1>1. ShutdownInit => Init
  BY DEF ShutdownInit
<1>2. QED BY <1>1, ShutdownStep, PTL DEF ShutdownSpec, Spec

\* Every variable of the application keeps its type.
THEOREM ShutdownTypeCorrect == ShutdownSpec => []ShutdownTypeOK
<1> DEFINE AppTypeOK == /\ app \in {"up", "closing", "over"}
                        /\ held \in SUBSET Tasks
                        /\ queueing \in SUBSET Tasks
<1>1. ShutdownInit => AppTypeOK
  BY DEF ShutdownInit
<1>2. AppTypeOK /\ TypeOK /\ [ShutdownNext]_allVars => AppTypeOK'
  BY DEF ShutdownNext, BeginShutdown, Over, Restart, Die, TimePasses, Serve, Refuse,
         GoWrong, Receive, allVars, appVars, TypeOK
<1>3. TypeOK /\ AppTypeOK => ShutdownTypeOK
  BY DEF ShutdownTypeOK
<1>4. QED
  BY <1>1, <1>2, <1>3, ShutdownIsPipeline, PipelineTypeOK, PTL DEF ShutdownSpec

\* No hash is alerted twice, however often the application is shut down and
\* started again between two deliveries.
THEOREM ShutdownAlertsOnce == ShutdownSpec => []AlertedOnce
BY ShutdownIsPipeline, PipelineAlertedOnce, PTL

\* A shutdown drops no large transaction in silence: a handler that returned
\* without an error has its hash in the table.
THEOREM ShutdownLosesNothingInSilence == ShutdownSpec => []SilentMeansStored
BY ShutdownIsPipeline, PipelineSilentMeansStored, PTL

\* While the pool is being closed, a connection is held only by a handler that had
\* one when closing began or was queueing for one.
Expected == app = "closing" => holders \subseteq held \cup queueing

LEMMA ExpectedNext == Expected /\ [ShutdownNext]_allVars => Expected'
<1> SUFFICES ASSUME Expected, [ShutdownNext]_allVars, app' = "closing"
             PROVE  holders' \subseteq held' \cup queueing'
  BY DEF Expected
<1>1. CASE BeginShutdown
  BY <1>1 DEF BeginShutdown, vars, dbVars
<1>2. CASE UNCHANGED allVars
  BY <1>2 DEF allVars, appVars, vars, dbVars, Expected
<1>3. CASE TimePasses
  BY <1>3 DEF TimePasses, Tick, appVars, dbVars, Expected
<1>4. CASE Over \/ Restart \/ Die
  BY <1>4 DEF Over, Restart, Die
<1>5. ASSUME NEW t \in Tasks, Serve(t) PROVE holders' \subseteq held' \cup queueing'
  <2>1. holders \subseteq held' \cup queueing' /\ UNCHANGED appVars /\ Step(t)
    BY <1>5 DEF Serve, appVars, Expected
  <2>2. CASE Acquire(t)
    <3>1. t \in queueing
      BY <1>5, <2>1, <2>2 DEF Serve, Admitted, Acquire, appVars
    <3>2. QED BY <2>1, <2>2, <3>1 DEF Acquire, appVars
  <2>3. CASE ~Acquire(t)
    <3>1. holders' \subseteq holders
      BY <2>1, <2>3 DEF Step, Begin, Insert, Duplicate, Saved, Release, Evaluate, Decide,
                        Post, SendEnds, dbVars
    <3>2. QED BY <2>1, <3>1
  <2>4. QED BY <2>2, <2>3
<1>6. ASSUME NEW t \in Tasks, Refuse(t) \/ GoWrong(t)
      PROVE  holders' \subseteq held' \cup queueing'
  <2>1. holders' \subseteq holders /\ UNCHANGED appVars
    BY <1>6 DEF Refuse, GoWrong, AcquireFails, StoreFails, LateCommit, Release, dbVars
  <2>2. QED BY <2>1 DEF appVars, Expected
<1>7. ASSUME NEW t \in Tasks, NEW e \in Events, Receive(t, e)
      PROVE  holders' \subseteq held' \cup queueing'
  BY <1>7 DEF Receive, Deliver, appVars, dbVars, Expected
<1>8. QED BY <1>1, <1>2, <1>3, <1>4, <1>5, <1>6, <1>7 DEF ShutdownNext

\* For any number of handlers and connections: when the pool is closed and the loop
\* ends (main.py, shutdown_event), it cuts off in the database only handlers that
\* were queueing for a connection when closing began.
THEOREM ShutdownOrderlyEnd == ShutdownSpec => OrderlyEnd
<1>1. ShutdownInit => Expected
  BY DEF ShutdownInit, Expected
<1>2. ASSUME Expected, PoolAccounted, [ShutdownNext]_allVars,
             app = "closing", app' = "over"
      PROVE  InDatabase \subseteq queueing
  <2>1. Over
    BY <1>2 DEF ShutdownNext, BeginShutdown, Restart, Die, TimePasses, Serve, Refuse,
                GoWrong, Receive, allVars, appVars
  <2>2. holders = InDatabase /\ holders \subseteq held \cup queueing
    BY <1>2 DEF PoolAccounted, InDatabase, Expected
  <2>3. QED BY <2>1, <2>2 DEF Over
<1>3. QED
  BY <1>1, <1>2, ExpectedNext, ShutdownIsPipeline, PipelinePoolAccounted, PTL
     DEF ShutdownSpec, OrderlyEnd
=============================================================================
