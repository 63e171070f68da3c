------------------------ MODULE MonitorServiceProofs ------------------------
(***************************************************************************)
(* A running service works on an open pool, and every listener is accounted *)
(* for, with any number of calls of start() and stop() and both kinds of    *)
(* pool.                                                                    *)
(***************************************************************************)
EXTENDS MonitorService, FiniteSetTheorems, TLAPS

\* What keeps the pools open: the shared one is open as long as the application
\* is up, a service that runs on it has not been told to stop, and start() never
\* leaves a pool behind without the attribute that keeps stop() from closing it.
PoolsInv ==
  /\ TypeOK
  /\ app \in {"up", "stopping"} => pool[Shared] = "open"
  /\ dbPool # None => usingShared # None
  /\ running /\ dbPool = Shared => app = "up"
  /\ RunningOnOpenPool

LEMMA PoolsInit == Init => PoolsInv
<1> SUFFICES ASSUME Init PROVE PoolsInv
  OBVIOUS
<1>1. usingShared \in BOOLEAN \cup {None} /\ running \in BOOLEAN /\ ~running
  BY Zenon DEF Init
<1>2. stops \in 0..MaxStops
  BY ServiceAssumption DEF Init
<1>3. TypeOK
  BY <1>1, <1>2 DEF Init, TypeOK, Pools
<1>4. app = "down" /\ dbPool = None
  BY DEF Init
<1> QED
  BY <1>1, <1>3, <1>4 DEF PoolsInv, RunningOnOpenPool

\* stop() itself closes nothing, whatever pool the service uses.
LEMMA StopClosesNothing ==
  PoolsInv /\ StopService =>
    running' = FALSE /\ UNCHANGED <<pool, dbPool, usingShared, current, call, listener>>
  BY DEF PoolsInv, StopService

\* Every action of the service and of the application keeps the invariant.
LEMMA PoolsNext == PoolsInv /\ [Next]_vars => PoolsInv'
<1> SUFFICES ASSUME PoolsInv, [Next]_vars PROVE PoolsInv'
  OBVIOUS
<1> USE ServiceAssumption DEF PoolsInv, TypeOK, RunningOnOpenPool, Pools, Shared
<1>1. CASE Startup
  BY <1>1 DEF Startup, serviceVars
<1>2. CASE Stop
  <2>1. running' = FALSE /\ UNCHANGED <<pool, dbPool, usingShared, current, call, listener>>
    BY <1>2, StopClosesNothing DEF Stop
  <2>2. app' = app /\ stops' \in 0..MaxStops
    BY <1>2 DEF Stop
  <2> QED
    BY <2>1, <2>2
<1>3. CASE ShutdownStops
  <2>1. running' = FALSE /\ UNCHANGED <<pool, dbPool, usingShared, current, call, listener>>
    BY <1>3, StopClosesNothing DEF ShutdownStops
  <2>2. app = "up" /\ app' = "stopping" /\ stops' = stops
    BY <1>3 DEF ShutdownStops
  <2> QED
    BY <2>1, <2>2
<1>4. CASE ShutdownClosesPool
  BY <1>4 DEF ShutdownClosesPool, serviceVars
<1>5. ASSUME NEW c \in Calls, StartRefused(c) PROVE PoolsInv'
  BY <1>5 DEF StartRefused, serviceVars, Calls
<1>6. ASSUME NEW c \in Calls, StartShared(c) PROVE PoolsInv'
  BY <1>6 DEF StartShared, Built, Raises, Calls
<1>7. ASSUME NEW c \in Calls, StartOwn(c) PROVE PoolsInv'
  BY <1>7 DEF StartOwn, serviceVars, Calls
<1>8. ASSUME NEW c \in Calls, OwnPoolReady(c) PROVE PoolsInv'
  <2>1. c \in Pools /\ c # Shared /\ c # None
    BY DEF Calls
  <2> QED
    BY <1>8, <2>1 DEF OwnPoolReady, Built, Raises
<1>9. ASSUME NEW c \in Calls, OwnPoolFails(c) PROVE PoolsInv'
  BY <1>9 DEF OwnPoolFails, Raises, Calls
<1>10. ASSUME NEW c \in Calls, ListenerRuns(c) PROVE PoolsInv'
  BY <1>10 DEF ListenerRuns, serviceVars
<1>11. ASSUME NEW c \in Calls, ListenerEnds(c) PROVE PoolsInv'
  BY <1>11 DEF ListenerEnds, serviceVars
<1>12. CASE UNCHANGED vars
  BY <1>12 DEF vars, serviceVars
<1> QED
  BY <1>1, <1>2, <1>3, <1>4, <1>5, <1>6, <1>7, <1>8, <1>9, <1>10, <1>11, <1>12 DEF Next

\* The pools are where the service believes them to be, in every state.
THEOREM ServicePoolsInvariant == Spec => []PoolsInv
  BY PoolsInit, PoolsNext, PTL DEF Spec

\* Every variable of the service keeps its type.
THEOREM ServiceTypeOK == Spec => []TypeOK
<1>1. PoolsInv => TypeOK
  BY DEF PoolsInv
<1> QED
  BY <1>1, ServicePoolsInvariant, PTL

\* Neither stop() nor the shutdown takes the pool from a running service.
THEOREM ServiceRunsOnOpenPool == Spec => []RunningOnOpenPool
<1>1. PoolsInv => RunningOnOpenPool
  BY DEF PoolsInv
<1> QED
  BY <1>1, ServicePoolsInvariant, PTL

-----------------------------------------------------------------------------
(* Listeners *)

Listeners == {c \in Calls : listener[c] # "none"}
Accounted == {c \in Calls : Accountable(c)}

\* The listener a running service has, or had when the application began to stop,
\* is the one that nothing else accounts for.
Due == IF running \/ app \in {"stopping", "exited"} THEN 1 ELSE 0

ListenersInv ==
  /\ PoolsInv
  /\ app = "down" => \A c \in Calls : call[c] = "idle"
  /\ \A c \in Calls : call[c] \in {"idle", "awaiting"} => pool[c] = "none" /\ listener[c] = "none"
  /\ Cardinality(Listeners) <= Due + stops + Cardinality(Accounted)

LEMMA SubsetsOfCalls ==
  ASSUME NEW S \in SUBSET Calls
  PROVE  /\ IsFiniteSet(S) /\ Cardinality(S) \in Nat
         /\ \A c \in Calls \ S : Cardinality(S \cup {c}) = Cardinality(S) + 1
<1>1. IsFiniteSet(Calls)
  BY FS_Interval, ServiceAssumption DEF Calls
<1>2. IsFiniteSet(S)
  BY <1>1, FS_Subset
<1>3. QED BY <1>2, FS_CardinalityType, FS_AddElement

LEMMA DueValues == Due \in {0, 1} /\ Due' \in {0, 1}
BY DEF Due

LEMMA Sums ==
  ASSUME NEW l \in Nat, NEW a \in Nat, NEW d \in Nat, NEW e \in Nat, NEW s \in Nat,
         NEW t \in Nat, NEW m \in Nat, NEW n \in Nat,
         l <= d + s + a, m + d + s <= e + t + n
  PROVE  l + m <= e + t + (a + n)
OBVIOUS

LEMMA NothingAdded ==
  ASSUME NEW d \in Nat, NEW e \in Nat, NEW s \in Nat, NEW t \in Nat, d + s <= e + t
  PROVE  0 + d + s <= e + t + 0
OBVIOUS

LEMMA OneExplained ==
  ASSUME NEW d \in {0, 1}, NEW e \in {0, 1}, NEW s \in Nat
  PROVE  0 + d + s <= e + s + 1
OBVIOUS

\* A step that gives at most as many listeners as it explains.
LEMMA Balance ==
  ASSUME ListenersInv, PoolsInv',
         NEW m \in Nat, NEW n \in Nat,
         Cardinality(Listeners') = Cardinality(Listeners) + m,
         Cardinality(Accounted') = Cardinality(Accounted) + n,
         m + Due + stops <= Due' + stops' + n
  PROVE  Cardinality(Listeners') <= Due' + stops' + Cardinality(Accounted')
<1>1. Listeners \in SUBSET Calls /\ Accounted \in SUBSET Calls
  BY DEF Listeners, Accounted
<1>2. Cardinality(Listeners) \in Nat /\ Cardinality(Accounted) \in Nat
  BY <1>1, SubsetsOfCalls
<1>3. Due \in Nat /\ Due' \in Nat
  BY DueValues
<1>4. stops \in Nat /\ stops' \in Nat
  BY ServiceAssumption DEF ListenersInv, PoolsInv, TypeOK
<1>5. Cardinality(Listeners) <= Due + stops + Cardinality(Accounted)
  BY DEF ListenersInv
<1>6. Cardinality(Listeners) + m <= Due' + stops' + (Cardinality(Accounted) + n)
  BY <1>2, <1>3, <1>4, <1>5, Sums
<1>7. QED BY <1>6

LEMMA ListenersInit == Init => ListenersInv
<1> SUFFICES ASSUME Init PROVE ListenersInv
  OBVIOUS
<1>1. PoolsInv
  BY PoolsInit
<1>2. Listeners = {} /\ Accounted = {}
  BY DEF Init, Listeners, Accounted, Accountable, Calls, Pools, Shared
<1>3. Cardinality(Listeners) = 0 /\ Cardinality(Accounted) = 0
  BY <1>2, FS_EmptySet
<1>4. Due = 0 /\ stops = 0
  BY DEF Init, Due
<1>5. \A c \in Calls : call[c] = "idle" /\ pool[c] = "none" /\ listener[c] = "none"
  BY DEF Init, Pools
<1>6. QED BY <1>1, <1>3, <1>4, <1>5 DEF ListenersInv

\* Every action keeps the account: a start() that builds a listener was not
\* running before or has a pool of its own, one that raises explains itself.
LEMMA ListenersNext == ListenersInv /\ [Next]_vars => ListenersInv'
<1> SUFFICES ASSUME ListenersInv, [Next]_vars PROVE ListenersInv'
  OBVIOUS
<1> USE ServiceAssumption
<1>1. PoolsInv /\ PoolsInv'
  BY PoolsNext DEF ListenersInv
<1>2. /\ listener \in [Calls -> {"none", "scheduled", "running", "ended"}]
      /\ call \in [Calls -> {"idle", "awaiting", "returned", "raised"}]
      /\ pool \in [Pools -> {"none", "open", "closed"}]
      /\ stops \in Nat /\ Calls \subseteq Pools \ {Shared} /\ Shared \in Pools
  BY <1>1 DEF PoolsInv, TypeOK, Pools, Calls, Shared
<1>3. /\ app = "down" => \A c \in Calls : call[c] = "idle"
      /\ \A c \in Calls : call[c] \in {"idle", "awaiting"} =>
           pool[c] = "none" /\ listener[c] = "none"
  BY DEF ListenersInv
<1>4. Listeners \in SUBSET Calls /\ Accounted \in SUBSET Calls
  BY DEF Listeners, Accounted
\* Steps that start nothing and stop nothing.
<1>5. ASSUME Listeners' = Listeners, Accounted' = Accounted, Due + stops <= Due' + stops',
             app' = "down" => app = "down",
             app = "down" => call' = call,
             \A c \in Calls : call'[c] \in {"idle", "awaiting"} =>
               call[c] \in {"idle", "awaiting"} /\ pool'[c] = pool[c]
               /\ listener'[c] = listener[c]
      PROVE  ListenersInv'
  <2>1. Cardinality(Listeners') = Cardinality(Listeners) + 0
        /\ Cardinality(Accounted') = Cardinality(Accounted) + 0
    BY <1>4, <1>5, SubsetsOfCalls
  <2>2. 0 + Due + stops <= Due' + stops' + 0
    <3>1. stops' \in Nat
      BY <1>1 DEF PoolsInv, TypeOK
    <3>2. Due \in Nat /\ Due' \in Nat
      BY DueValues
    <3>3. QED BY <1>2, <1>5, <3>1, <3>2, NothingAdded
  <2>3. Cardinality(Listeners') <= Due' + stops' + Cardinality(Accounted')
    BY <1>1, <2>1, <2>2, Balance
  <2>4. QED BY <1>1, <1>3, <1>5, <2>3 DEF ListenersInv
\* Steps that end call c, with or without a listener, and account for it or not.
<1>6. ASSUME NEW c \in Calls, call[c] \in {"idle", "awaiting"}, app # "down",
             call' \in [Calls -> {"idle", "awaiting", "returned", "raised"}],
             call'[c] \in {"returned", "raised"},
             app' = app, stops' = stops,
             \A d \in Calls \ {c} : /\ call'[d] = call[d] /\ pool'[d] = pool[d]
                                    /\ listener'[d] = listener[d],
             \/ /\ listener'[c] # "none" /\ running' /\ Accountable(c)'
             \/ /\ listener'[c] # "none" /\ running' /\ ~running /\ app = "up"
                /\ ~Accountable(c)'
             \/ /\ listener'[c] = "none" /\ Accountable(c)'
      PROVE  ListenersInv'
  <2>1. c \notin Listeners /\ c \notin Accounted
    BY <1>3, <1>6 DEF Listeners, Accounted, Accountable
  <2>2. /\ Listeners' = IF listener'[c] # "none" THEN Listeners \cup {c} ELSE Listeners
        /\ Accounted' = IF Accountable(c)' THEN Accounted \cup {c} ELSE Accounted
    BY <1>6, <2>1 DEF Listeners, Accounted, Accountable
  <2>3. Due \in {0, 1} /\ Due' \in {0, 1}
    BY DueValues
  <2>4. Cardinality(Listeners') <= Due' + stops' + Cardinality(Accounted')
    <3>1. CASE listener'[c] # "none" /\ running' /\ Accountable(c)'
      <4>1. Cardinality(Listeners') = Cardinality(Listeners) + 1
            /\ Cardinality(Accounted') = Cardinality(Accounted) + 1
        BY <1>4, <2>1, <2>2, <3>1, SubsetsOfCalls
      <4>2. Due' = 1
        BY <3>1 DEF Due
      <4>3. 1 + Due + stops <= Due' + stops' + 1
        BY <1>2, <1>6, <2>3, <4>2
      <4>4. QED BY <1>1, <4>1, <4>3, Balance
    <3>2. CASE /\ listener'[c] # "none" /\ running' /\ ~running /\ app = "up"
               /\ ~Accountable(c)'
      <4>1. Cardinality(Listeners') = Cardinality(Listeners) + 1
            /\ Cardinality(Accounted') = Cardinality(Accounted) + 0
        BY <1>4, <2>1, <2>2, <3>2, SubsetsOfCalls
      <4>2. Due' = 1 /\ Due = 0
        BY <3>2 DEF Due
      <4>3. 1 + Due + stops <= Due' + stops' + 0
        BY <1>2, <1>6, <4>2
      <4>4. QED BY <1>1, <4>1, <4>3, Balance
    <3>3. CASE listener'[c] = "none" /\ Accountable(c)'
      <4>1. Cardinality(Listeners') = Cardinality(Listeners) + 0
            /\ Cardinality(Accounted') = Cardinality(Accounted) + 1
        BY <1>4, <2>1, <2>2, <3>3, SubsetsOfCalls
      <4>2. 0 + Due + stops <= Due' + stops' + 1
        BY <1>2, <1>6, <2>3, OneExplained
      <4>3. QED BY <1>1, <4>1, <4>2, Balance
    <3>4. QED BY <1>6, <3>1, <3>2, <3>3
  <2>5. QED BY <1>1, <1>3, <1>6, <2>4 DEF ListenersInv
<1>7. CASE Startup
  <2>1. Listeners' = Listeners /\ Accounted' = Accounted
    BY <1>2, <1>7 DEF Startup, Listeners, Accounted, Accountable, serviceVars
  <2>2. Listeners = {} /\ Cardinality(Listeners) = 0
    BY <1>3, <1>7, FS_EmptySet DEF Startup, Listeners
  <2>3. /\ app' = "up" /\ call' = call /\ listener' = listener /\ stops' = stops
        /\ \A c \in Calls : pool'[c] = pool[c]
    BY <1>2, <1>7 DEF Startup
  <2>4. Cardinality(Listeners') <= Due' + stops' + Cardinality(Accounted')
    <3>1. Due' \in {0, 1} /\ Cardinality(Accounted) \in Nat
      BY <1>4, SubsetsOfCalls DEF Due
    <3>2. QED BY <1>2, <2>1, <2>2, <2>3, <3>1
  <2>5. QED BY <1>1, <1>3, <2>3, <2>4 DEF ListenersInv
<1>8. CASE Stop
  <2>1. /\ UNCHANGED <<app, pool, call, listener>> /\ running' = FALSE /\ app = "up"
        /\ stops' = IF running THEN stops + 1 ELSE stops
    BY <1>1, <1>8, StopClosesNothing DEF Stop
  <2>2. Due + stops <= Due' + stops'
    BY <1>2, <2>1 DEF Due
  <2>3. Listeners' = Listeners /\ Accounted' = Accounted
    BY <2>1 DEF Listeners, Accounted, Accountable
  <2>4. QED BY <1>5, <2>1, <2>2, <2>3
<1>9. CASE ShutdownStops
  <2>1. /\ UNCHANGED <<pool, call, listener, stops>>
        /\ app = "up" /\ app' = "stopping"
    BY <1>1, <1>9, StopClosesNothing DEF ShutdownStops
  <2>2. Due + stops <= Due' + stops'
    BY <1>2, <2>1 DEF Due
  <2>3. Listeners' = Listeners /\ Accounted' = Accounted
    BY <2>1 DEF Listeners, Accounted, Accountable
  <2>4. QED BY <1>5, <2>1, <2>2, <2>3
<1>10. CASE ShutdownClosesPool
  <2>1. /\ UNCHANGED <<call, listener, stops, running>>
        /\ app = "stopping" /\ app' = "exited" /\ \A c \in Calls : pool'[c] = pool[c]
    BY <1>2, <1>10 DEF ShutdownClosesPool, serviceVars
  <2>2. Due + stops <= Due' + stops'
    BY <1>2, <2>1 DEF Due
  <2>3. Listeners' = Listeners /\ Accounted' = Accounted
    BY <2>1 DEF Listeners, Accounted, Accountable
  <2>4. QED BY <1>5, <2>1, <2>2, <2>3
<1>11. ASSUME NEW c \in Calls, StartRefused(c) \/ StartOwn(c) PROVE ListenersInv'
  <2>1. /\ UNCHANGED <<app, pool, listener, stops, running>> /\ app = "up" /\ call[c] = "idle"
        /\ \E r \in {"awaiting", "returned"} : call' = [call EXCEPT ![c] = r]
    BY <1>11 DEF StartRefused, StartOwn, Fresh, serviceVars
  <2>2. \A d \in Calls : (call'[d] = "raised" <=> call[d] = "raised")
                         /\ (call'[d] \in {"idle", "awaiting"} => call[d] \in {"idle", "awaiting"})
    BY <1>2, <2>1
  <2>3. Listeners' = Listeners /\ Accounted' = Accounted /\ Due' = Due
    BY <2>1, <2>2 DEF Listeners, Accounted, Accountable, Due
  <2>4. Due + stops <= Due' + stops'
    BY <1>2, <2>1, <2>3 DEF Due
  <2>5. QED BY <1>5, <2>1, <2>2, <2>3, <2>4
<1>12. ASSUME NEW c \in Calls, StartShared(c) PROVE ListenersInv'
  <2>1. /\ UNCHANGED <<app, pool, stops>> /\ app = "up" /\ ~running /\ call[c] = "idle"
        /\ Built(c) \/ Raises(c)
    BY <1>12 DEF StartShared, Fresh
  <2>2. CASE Built(c)
    <3>1. /\ running' /\ listener' = [listener EXCEPT ![c] = "scheduled"]
          /\ call' = [call EXCEPT ![c] = "returned"]
      BY <2>2 DEF Built
    <3>2. listener'[c] = "scheduled" /\ call'[c] = "returned" /\ pool'[c] = "none"
      BY <1>2, <1>3, <2>1, <3>1
    <3>3. ~Accountable(c)'
      BY <3>2 DEF Accountable
    <3>4. QED BY <1>2, <1>6, <2>1, <3>1, <3>2, <3>3
  <2>3. CASE Raises(c)
    <3>1. listener' = listener /\ call' = [call EXCEPT ![c] = "raised"]
      BY <2>3 DEF Raises
    <3>2. listener'[c] = "none" /\ call'[c] = "raised"
      BY <1>2, <1>3, <2>1, <3>1
    <3>3. Accountable(c)'
      BY <3>2 DEF Accountable
    <3>4. QED BY <1>2, <1>6, <2>1, <3>1, <3>2, <3>3
  <2>4. QED BY <2>1, <2>2, <2>3
<1>13. ASSUME NEW c \in Calls, OwnPoolReady(c) \/ OwnPoolFails(c) PROVE ListenersInv'
  <2>1. /\ UNCHANGED <<app, stops>> /\ call[c] = "awaiting" /\ app # "down"
        /\ Built(c) \/ Raises(c)
        /\ pool' = pool \/ pool' = [pool EXCEPT ![c] = "open"]
    BY <1>3, <1>13 DEF OwnPoolReady, OwnPoolFails
  <2>2. \A d \in Calls \ {c} : pool'[d] = pool[d]
    BY <1>2, <2>1
  <2>3. CASE Built(c)
    <3>1. /\ running' /\ listener' = [listener EXCEPT ![c] = "scheduled"]
          /\ call' = [call EXCEPT ![c] = "returned"]
      BY <2>3 DEF Built
    <3>2. pool' = [pool EXCEPT ![c] = "open"]
      BY <1>13, <1>2, <3>1 DEF OwnPoolReady, OwnPoolFails, Raises
    <3>3. listener'[c] = "scheduled" /\ call'[c] = "returned" /\ pool'[c] = "open"
      BY <1>2, <3>1, <3>2
    <3>4. Accountable(c)'
      BY <3>3 DEF Accountable
    <3>5. QED BY <1>2, <1>6, <2>1, <2>2, <3>1, <3>3, <3>4
  <2>4. CASE Raises(c)
    <3>1. listener' = listener /\ call' = [call EXCEPT ![c] = "raised"]
      BY <2>4 DEF Raises
    <3>2. listener'[c] = "none" /\ call'[c] = "raised"
      BY <1>2, <1>3, <2>1, <3>1
    <3>3. Accountable(c)'
      BY <3>2 DEF Accountable
    <3>4. QED BY <1>2, <1>6, <2>1, <2>2, <3>1, <3>2, <3>3
  <2>5. QED BY <2>1, <2>3, <2>4
<1>14. ASSUME NEW c \in Calls, ListenerRuns(c) \/ ListenerEnds(c) PROVE ListenersInv'
  <2>1. /\ UNCHANGED <<app, pool, call, stops, running>> /\ listener[c] = "scheduled"
        /\ \E l \in {"running", "ended"} : listener' = [listener EXCEPT ![c] = l]
    BY <1>14 DEF ListenerRuns, ListenerEnds, serviceVars
  <2>2. \A d \in Calls : (listener'[d] = "none" <=> listener[d] = "none")
                         /\ (listener[d] = "none" => listener'[d] = listener[d])
    BY <1>2, <2>1
  <2>3. Listeners' = Listeners /\ Accounted' = Accounted /\ Due' = Due
    BY <2>1, <2>2 DEF Listeners, Accounted, Accountable, Due
  <2>4. Due + stops <= Due' + stops'
    BY <1>2, <2>1, <2>3 DEF Due
  <2>5. QED BY <1>3, <1>5, <2>1, <2>2, <2>3, <2>4
<1>15. CASE UNCHANGED vars
  <2>1. UNCHANGED <<app, pool, call, running, listener, stops>>
    BY <1>15 DEF vars, serviceVars
  <2>2. Listeners' = Listeners /\ Accounted' = Accounted /\ Due' = Due
    BY <2>1 DEF Listeners, Accounted, Accountable, Due
  <2>3. Due + stops <= Due' + stops'
    BY <1>2, <2>1, <2>2 DEF Due
  <2>4. QED BY <1>5, <2>1, <2>2, <2>3
<1>16. QED
  BY <1>7, <1>8, <1>9, <1>10, <1>11, <1>12, <1>13, <1>14, <1>15 DEF Next

\* However start() and stop() are called and overlap, every listener after the
\* first is owed to a stop(), a start() that raised, or one that awaited a pool.
THEOREM ServiceOneListenerPerStart == Spec => []OneListenerPerStart
<1>1. ListenersInv => OneListenerPerStart
  <2> SUFFICES ASSUME ListenersInv PROVE OneListenerPerStart
    OBVIOUS
  <2>1. Listeners \in SUBSET Calls /\ Accounted \in SUBSET Calls
    BY DEF Listeners, Accounted
  <2>2. /\ Cardinality(Listeners) \in Nat /\ Cardinality(Accounted) \in Nat
        /\ Due \in {0, 1} /\ stops \in Nat
        /\ Cardinality(Listeners) <= Due + stops + Cardinality(Accounted)
    BY <2>1, SubsetsOfCalls, ServiceAssumption DEF ListenersInv, PoolsInv, TypeOK, Due
  <2>3. Cardinality(Listeners) <= 1 + stops + Cardinality(Accounted)
    BY <2>2
  <2>4. QED BY <2>3 DEF OneListenerPerStart, Listeners, Accounted
<1>2. QED BY <1>1, ListenersInit, ListenersNext, PTL DEF Spec
=============================================================================
