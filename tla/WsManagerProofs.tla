--------------------------- MODULE WsManagerProofs ---------------------------
(***************************************************************************)
(* The safety of the connection manager for every set of addresses, every  *)
(* choice of its five time constants and any number of failures: no stray  *)
(* connections, no half-subscribed connection under watch, silence noticed *)
(* in time, nothing open after stop(), attempts exponentially spaced.      *)
(***************************************************************************)
EXTENDS WsManager, FiniteSetTheorems, FunctionTheorems, TLAPS

\* An attempt to connect runs in start() or in the heartbeat task, never in both.
Attempting ==
  /\ main = "new" => hb = "none"
  /\ phase # "idle" => (main = "connecting" /\ hb = "none") \/ hb = "connecting"

\* The connection an attempt works on: after Create it is the new one; before,
\* it is still open only because closing it raised.
AttemptConn ==
  /\ phase = "subscribe" => conn \in {"open", "dead"}
  /\ phase = "create" /\ conn = "open" => leaked + 1 <= badCloses

\* What remains of the sleep and the silence so far fit into the bound together.
SilenceBudget ==
  hb = "sleeping" =>
    /\ silence # None /\ silence + timer <= StaleThreshold + HeartbeatInterval
    /\ timer <= HeartbeatInterval

WsInv ==
  /\ TypeOK
  /\ Attempting /\ AttemptConn /\ SilenceBudget
  /\ NoStrayConnection /\ WatchedIsComplete
  /\ StoppedIsQuiet
  /\ stopped => main # "new"

LEMMA JitterBounds ==
  ASSUME NEW s \in Nat \ {0}, NEW j \in Jitter(s)
  PROVE  j \in Nat /\ j <= s
  BY DEF Jitter

LEMMA WsInit == Init => WsInv
<1> SUFFICES ASSUME Init PROVE WsInv
  OBVIOUS
<1>1. running \in BOOLEAN /\ stopped \in BOOLEAN /\ ~stopped
  BY Zenon DEF Init
<1>2. TypeOK
  BY <1>1, WsAssumption DEF Init, TypeOK, SilenceCap, FailCap, WaitCap
<1>3. phase = "idle" /\ hb = "none" /\ leaked = 0 /\ badCloses = 0
  BY DEF Init
<1> QED
  BY <1>1, <1>2, <1>3
  DEF WsInv, Attempting, AttemptConn, SilenceBudget, NoStrayConnection,
      WatchedIsComplete, StoppedIsQuiet

\* Every step of the loop, the SDK thread, the network and the clock keeps it.
LEMMA WsNext == WsInv /\ [Next]_vars => WsInv'
<1> SUFFICES ASSUME WsInv, [Next]_vars PROVE WsInv'
  OBVIOUS
<1> USE WsAssumption
    DEF WsInv, TypeOK, Attempting, AttemptConn, SilenceBudget, NoStrayConnection,
        WatchedIsComplete, StoppedIsQuiet, connVars, history
<1>1. CASE Start
  <2>1. running' \in BOOLEAN
    BY <1>1, Zenon DEF Start
  <2>2. main = "new" /\ main' = "connecting" /\ phase' = "disconnect"
    BY <1>1 DEF Start
  <2>3. UNCHANGED <<stopped, hb, timer, conn, subs, leaked, badCloses, silence, backoff,
                    fails, waited>>
    BY <1>1 DEF Start
  <2>4. ~stopped /\ hb = "none"
    BY <2>2
  <2> QED
    BY <2>1, <2>2, <2>3, <2>4
<1>2. CASE Disconnect
  BY <1>2 DEF Disconnect
<1>3. CASE Create
  BY <1>3 DEF Create
<1>4. ASSUME NEW i \in 1..Len(Addresses), Subscribe(i) PROVE WsInv'
  BY <1>4 DEF Subscribe
<1>5. CASE Connected
  BY <1>5 DEF Connected, SilenceCap, FailCap
<1>6. CASE ConnectFails
  <2>1. fails' \in 0..FailCap /\ waited' \in 0..WaitCap
    BY <1>6 DEF ConnectFails, FailCap, WaitCap, MinOf
  <2>2. timer' \in 0..(2 * MaxBackoff + HeartbeatInterval)
    <3>1. CASE main = "connecting" /\ timer' = timer
      BY <3>1
    <3>2. CASE \E j \in Jitter(MinOf(MaxBackoff, backoff)) :
                 timer' = MinOf(MaxBackoff, backoff) + j
      <4> DEFINE s == MinOf(MaxBackoff, backoff)
      <4>1. s \in Nat \ {0} /\ s <= MaxBackoff
        BY DEF MinOf
      <4>2. PICK j \in Jitter(s) : timer' = s + j
        BY <3>2
      <4>3. j \in Nat /\ j <= s
        BY <4>1, <4>2, JitterBounds
      <4> HIDE DEF s
      <4> QED
        BY <4>1, <4>2, <4>3
    <3> QED
      BY <1>6, <3>1, <3>2 DEF ConnectFails
  <2> QED
    BY <1>6, <2>1, <2>2 DEF ConnectFails
<1>7. CASE HeartbeatWakes
  BY <1>7 DEF HeartbeatWakes, IsStale
<1>8. CASE Retry
  <2>1. backoff' \in InitialBackoff..MaxBackoff
    BY <1>8 DEF Retry, MinOf
  <2> QED
    BY <1>8, <2>1 DEF Retry
<1>9. CASE Stop
  <2>1. running' \in BOOLEAN /\ stopped' \in BOOLEAN /\ stopped'
    BY <1>9, Zenon DEF Stop
  <2>2. /\ main # "new" /\ phase = "idle"
        /\ UNCHANGED <<main, timer, phase, subs, leaked, silence, backoff, fails, waited>>
    BY <1>9 DEF Stop
  <2>3. hb' \in {"none", "ended"}
    BY <1>9 DEF Stop
  <2>4. /\ conn' \in {"none", "open", "dead", "closed"}
        /\ badCloses' \in 0..MaxBadCloses /\ badCloses <= badCloses'
        /\ conn' = "open" => badCloses' > 0
    BY <1>9 DEF Stop
  <2> QED
    BY <2>1, <2>2, <2>3, <2>4
<1>10. CASE MainReturns
  BY <1>10 DEF MainReturns
<1>11. CASE Fill
  BY <1>11 DEF Fill, SilenceCap
<1>12. CASE Drop
  BY <1>12 DEF Drop
<1>13. CASE Tick
  <2>1. waited' \in 0..WaitCap
    BY <1>13 DEF Tick, WaitCap, MinOf
  <2>2. silence' \in 0..SilenceCap \cup {None}
    BY <1>13 DEF Tick, SilenceCap, MinOf
  <2>3. hb = "sleeping" => silence' # None /\ silence' <= silence + 1
    <3>1. CASE hb = "sleeping"
      <4>1. silence \in Nat /\ silence # None
        BY <3>1 DEF SilenceCap
      <4>2. silence' = MinOf(SilenceCap, silence + 1)
        BY <1>13, <4>1 DEF Tick
      <4>3. silence' \in Int /\ silence' <= silence + 1 /\ silence' >= 0
        BY <4>1, <4>2 DEF SilenceCap, MinOf
      <4> QED
        BY <4>3
    <3> QED
      BY <3>1
  <2>4. timer' \in 0..(2 * MaxBackoff + HeartbeatInterval)
    BY <1>13 DEF Tick, Asleep
  <2>5. hb = "sleeping" => timer > 0 /\ timer' = timer - 1
    BY <1>13 DEF Tick, Asleep
  <2> QED
    BY <1>13, <2>1, <2>2, <2>3, <2>4, <2>5 DEF Tick, SilenceCap
<1>14. CASE UNCHANGED vars
  BY <1>14 DEF vars
<1> QED
  BY <1>1, <1>2, <1>3, <1>4, <1>5, <1>6, <1>7, <1>8, <1>9, <1>10, <1>11, <1>12, <1>13, <1>14
  DEF Next

\* The invariant of the manager.
THEOREM WsInvariant == Spec => []WsInv
  BY WsInit, WsNext, PTL DEF Spec

\* Types and ranges; in particular the backoff stays between its two constants.
THEOREM WsTypeOK == Spec => []TypeOK
<1>1. WsInv => TypeOK
  BY DEF WsInv
<1> QED
  BY <1>1, WsInvariant, PTL

\* An open connection is abandoned only when closing it raised.
THEOREM WsNoStrayConnection == Spec => []NoStrayConnection
<1>1. WsInv => NoStrayConnection
  BY DEF WsInv
<1> QED
  BY <1>1, WsInvariant, PTL

\* The heartbeat only ever watches a connection that carries every address.
THEOREM WsWatchedIsComplete == Spec => []WatchedIsComplete
<1>1. WsInv => WatchedIsComplete
  BY DEF WsInv
<1> QED
  BY <1>1, WsInvariant, PTL

\* Silence is noticed within one heartbeat of the threshold.
THEOREM WsSilenceBounded == Spec => []SilenceBounded
<1>1. WsInv => SilenceBounded
  <2> SUFFICES ASSUME WsInv, hb = "sleeping" PROVE SilenceBounded
    BY DEF SilenceBounded
  <2>1. silence # None /\ silence + timer <= StaleThreshold + HeartbeatInterval
    BY DEF WsInv, SilenceBudget
  <2>2. silence \in Nat /\ timer \in Nat
    BY <2>1, WsAssumption DEF WsInv, TypeOK, SilenceCap
  <2> QED
    BY <2>1, <2>2, WsAssumption DEF SilenceBounded
<1> QED
  BY <1>1, WsInvariant, PTL

\* After stop() nothing is open and nothing is opened, unless closing raised.
THEOREM WsStoppedIsQuiet == Spec => []StoppedIsQuiet
<1>1. WsInv => StoppedIsQuiet
  BY DEF WsInv
<1> QED
  BY <1>1, WsInvariant, PTL
-----------------------------------------------------------------------------
(* The backoff *)

\* A power of two counts subsets, and so doubles with each step.
LEMMA PowerOfTwo ==
  ASSUME NEW n \in Nat
  PROVE  /\ 2 ^ n \in Nat /\ 2 ^ n >= n + 1
         /\ 2 ^ (n + 1) = 2 * 2 ^ n
<1> DEFINE S == 1..n
           T == SUBSET S
           U == {A \cup {n + 1} : A \in T}
<1>1. IsFiniteSet(S) /\ Cardinality(S) = n
  BY FS_Interval
<1>2. IsFiniteSet(T) /\ Cardinality(T) = 2 ^ n /\ 2 ^ n \in Nat
  BY <1>1, FS_SUBSET, FS_CardinalityType
<1>3. IsFiniteSet(U) /\ Cardinality(U) = Cardinality(T)
  <2> DEFINE f == [A \in T |-> A \cup {n + 1}]
  <2>1. f \in Surjection(T, U)
    <3>1. f \in [T -> U]
      OBVIOUS
    <3>2. \A B \in U : \E A \in T : f[A] = B
      OBVIOUS
    <3>3. QED BY <3>1, <3>2, Fun_IsSurj
  <2>2. f \in Injection(T, U)
    <3>1. f \in [T -> U]
      OBVIOUS
    <3>2. ASSUME NEW A \in T, NEW B \in T, f[A] = f[B] PROVE A = B
      <4>1. n + 1 \notin A /\ n + 1 \notin B
        OBVIOUS
      <4>2. A \cup {n + 1} = B \cup {n + 1}
        BY <3>2
      <4>3. QED BY <4>1, <4>2
    <3>3. QED BY <3>1, <3>2, Fun_IsInj
  <2> HIDE DEF f, T, U
  <2>3. QED BY <1>2, <2>1, <2>2, FS_Surjection
<1>4. T \cap U = {} /\ SUBSET (1..(n + 1)) = T \cup U
  <2>1. ASSUME NEW A \in T \cap U PROVE FALSE
    <3>1. n + 1 \in A /\ A \subseteq 1..n
      OBVIOUS
    <3>2. QED BY <3>1
  <2>2. 1..(n + 1) = S \cup {n + 1} /\ n + 1 \notin S
    OBVIOUS
  <2>3. ASSUME NEW A \in SUBSET (1..(n + 1)) PROVE A \in T \cup U
    <3>1. CASE n + 1 \notin A
      BY <2>2, <3>1
    <3>2. CASE n + 1 \in A
      <4>1. A \ {n + 1} \in T /\ A = (A \ {n + 1}) \cup {n + 1}
        BY <2>2, <3>2
      <4>2. QED BY <4>1
    <3>3. QED BY <3>1, <3>2
  <2>4. ASSUME NEW A \in T \cup U PROVE A \in SUBSET (1..(n + 1))
    BY <2>2
  <2>5. QED BY <2>1, <2>3, <2>4
<1>5. 2 ^ (n + 1) = 2 * 2 ^ n
  <2>1. IsFiniteSet(1..(n + 1)) /\ Cardinality(1..(n + 1)) = n + 1
    BY FS_Interval
  <2>2. Cardinality(SUBSET (1..(n + 1))) = 2 ^ (n + 1)
    BY <2>1, FS_SUBSET
  <2> HIDE DEF T, U
  <2>3. Cardinality(T \cup U) = Cardinality(T) + Cardinality(U) - Cardinality(T \cap U)
    BY <1>2, <1>3, FS_Union
  <2>4. Cardinality(T \cap U) = 0
    BY <1>4, FS_EmptySet
  <2>5. Cardinality(T \cup U) = 2 ^ (n + 1)
    BY <1>4, <2>2
  <2>6. Cardinality(T) = 2 ^ n /\ Cardinality(U) = 2 ^ n /\ 2 ^ n \in Nat
    BY <1>2, <1>3
  <2>7. QED BY <2>3, <2>4, <2>5, <2>6
\* The empty set and the singletons are n + 1 of the subsets.
<1>6. 2 ^ n >= n + 1
  <2> DEFINE g == [i \in 0..n |-> S \cap {i}]
  <2>1. g \in Injection(0..n, T)
    <3>1. g \in [0..n -> T]
      OBVIOUS
    <3>2. ASSUME NEW i \in 0..n, NEW j \in 0..n, g[i] = g[j] PROVE i = j
      <4>1. i \in S => i \in g[i]
        OBVIOUS
      <4>2. j \in S => j \in g[j]
        OBVIOUS
      <4>3. (i \in S => i = j) /\ (j \in S => i = j)
        BY <3>2, <4>1, <4>2
      <4>4. QED BY <4>3
    <3>3. QED BY <3>1, <3>2, Fun_IsInj
  <2>2. Cardinality(0..n) = n + 1
    BY FS_Interval
  <2> HIDE DEF g, T
  <2>3. Cardinality(0..n) <= Cardinality(T)
    BY <1>2, <2>1, FS_Injection
  <2>4. QED BY <1>2, <2>2, <2>3
<1>7. QED BY <1>2, <1>5, <1>6

\* Doubling from InitialBackoff, capped at MaxBackoff: as many steps as MaxBackoff
\* has seconds reach the cap.
LEMMA DoubledSteps ==
  ASSUME NEW n \in Nat
  PROVE  /\ Doubled(n) \in InitialBackoff..MaxBackoff
         /\ Doubled(0) = InitialBackoff
         /\ Doubled(n + 1) = MinOf(MaxBackoff, Doubled(n) * 2)
         /\ n + 1 >= MaxBackoff => Doubled(n) = MaxBackoff
<1> USE WsAssumption
<1> DEFINE P == 2 ^ n
           Q == InitialBackoff * P
<1>1. P \in Nat /\ P >= n + 1 /\ 2 ^ (n + 1) = 2 * P
  BY PowerOfTwo
<1>2. InitialBackoff * 2 ^ 0 = InitialBackoff
  <2>1. 2 ^ 0 = 1
    OBVIOUS
  <2>2. QED BY <2>1
<1>3. Doubled(n) = MinOf(MaxBackoff, Q)
  BY DEF Doubled
<1>4. Doubled(n + 1) = MinOf(MaxBackoff, InitialBackoff * (2 * P))
  BY <1>1 DEF Doubled
<1>5. Doubled(0) = InitialBackoff
  BY <1>2 DEF Doubled, MinOf
<1> HIDE DEF P
<1>6. InitialBackoff * (2 * P) = Q * 2 /\ Q \in Nat
  BY <1>1
<1>7. Q >= P /\ Q >= InitialBackoff
  <2>1. ASSUME NEW a \in Nat \ {0}, NEW b \in Nat \ {0}
        PROVE  a * b >= a /\ a * b >= b
    <3>1. (a - 1) * b >= 0 /\ a * (b - 1) >= 0
      OBVIOUS
    <3>2. (a - 1) * b = a * b - b /\ a * (b - 1) = a * b - a
      OBVIOUS
    <3>3. QED BY <3>1, <3>2
  <2>2. P \in Nat \ {0}
    BY <1>1
  <2>3. QED BY <2>1, <2>2
<1> HIDE DEF Q
<1>8. QED BY <1>1, <1>3, <1>4, <1>5, <1>6, <1>7 DEF MinOf

\* The first attempt has no heartbeat task yet; from then on the delay belongs to the
\* number of failed attempts, and what has passed and what remains of a sleep are at
\* least the delay together.
Paced ==
  /\ main = "connecting" => hb = "none"
  /\ hb = "none" /\ main \in {"new", "connecting"} => fails = 0 /\ backoff = InitialBackoff
  /\ hb \in {"sleeping", "connecting"} => backoff = Doubled(fails)
  /\ hb = "backoff" =>
       /\ fails > 0 /\ backoff = Doubled(fails - 1)
       /\ waited = WaitCap \/ backoff <= waited + timer

LEMMA PacedInit == Init => Paced
  BY DEF Init, Paced

\* Only the end of an attempt, a retry and the clock touch what Paced is about.
LEMMA PacedNext == WsInv /\ Paced /\ [Next]_vars => Paced'
<1> SUFFICES ASSUME WsInv, Paced, [Next]_vars PROVE Paced'
  OBVIOUS
<1> USE WsAssumption DEF Paced, connVars, history
<1>1. /\ fails \in Nat /\ fails <= MaxBackoff /\ waited \in 0..WaitCap
      /\ timer \in Nat /\ backoff \in Nat
  BY DEF WsInv, TypeOK, FailCap
<1>2. /\ main = "new" => hb = "none"
      /\ phase # "idle" => (main = "connecting" /\ hb = "none") \/ hb = "connecting"
  BY DEF WsInv, Attempting
<1>3. CASE Start
  BY <1>2, <1>3 DEF Start
<1>4. CASE Connected
  <2>1. /\ hb' = "sleeping" /\ backoff' = InitialBackoff /\ fails' = 0
        /\ main' # "connecting"
    BY <1>4 DEF Connected
  <2>2. QED BY <2>1, DoubledSteps
<1>5. CASE ConnectFails
  <2>1. /\ fails' = MinOf(MaxBackoff, fails + 1) /\ waited' = 0 /\ backoff' = backoff
        /\ phase # "idle"
    BY <1>5 DEF ConnectFails, FailCap
  <2>2. CASE main = "connecting" /\ main' = "raised" /\ hb' = hb
    <3>1. hb = "none" /\ hb' = "none" /\ main' = "raised"
      BY <2>2
    <3>2. QED BY <3>1
  <2>3. CASE /\ hb = "connecting" /\ hb' = "backoff"
             /\ \E j \in Jitter(MinOf(MaxBackoff, backoff)) :
                  timer' = MinOf(MaxBackoff, backoff) + j
    <3>1. backoff = Doubled(fails) /\ backoff \in InitialBackoff..MaxBackoff
      BY <1>1, <2>3, DoubledSteps
    <3>2. MinOf(MaxBackoff, backoff) = backoff
      BY <3>1 DEF MinOf
    <3>3. PICK j \in Jitter(backoff) : timer' = backoff + j
      BY <2>3, <3>2
    <3>4. j \in Nat
      BY <3>1, <3>3, JitterBounds
    <3>5. fails' > 0 /\ backoff = Doubled(fails' - 1)
      <4>1. CASE fails < MaxBackoff
        BY <1>1, <2>1, <3>1, <4>1 DEF MinOf
      <4>2. CASE fails = MaxBackoff
        <5>1. fails' = MaxBackoff /\ MaxBackoff - 1 \in Nat
          BY <2>1, <4>2 DEF MinOf
        <5>2. Doubled(MaxBackoff - 1) = MaxBackoff /\ Doubled(fails) = MaxBackoff
          BY <4>2, <5>1, DoubledSteps
        <5>3. QED BY <3>1, <5>1, <5>2
      <4>3. QED BY <1>1, <4>1, <4>2
    <3>6. main' = main
      BY <1>5, <2>3 DEF ConnectFails
    <3>7. QED BY <2>1, <2>3, <3>1, <3>3, <3>4, <3>5, <3>6
  <2>4. QED BY <1>5, <2>2, <2>3 DEF ConnectFails
<1>6. CASE HeartbeatWakes
  BY <1>6 DEF HeartbeatWakes
<1>7. CASE Retry
  <2>1. /\ hb = "backoff" /\ hb' = "connecting" /\ fails' = fails /\ main' = main
        /\ backoff' = MinOf(MaxBackoff, backoff * 2)
    BY <1>7 DEF Retry
  <2>2. fails - 1 \in Nat /\ (fails - 1) + 1 = fails /\ backoff = Doubled(fails - 1)
    BY <1>1, <2>1
  <2>3. Doubled(fails) = MinOf(MaxBackoff, Doubled(fails - 1) * 2)
    BY <2>2, DoubledSteps
  <2>4. QED BY <2>1, <2>2, <2>3
<1>8. CASE Stop
  <2>1. hb' \in {"none", "ended"} /\ (hb' = "none" <=> hb = "none")
    BY <1>8 DEF Stop
  <2>2. UNCHANGED <<main, timer, backoff, fails, waited>>
    BY <1>8 DEF Stop
  <2>3. QED BY <2>1, <2>2
<1>9. CASE MainReturns
  BY <1>9 DEF MainReturns
<1>10. CASE Tick
  <2>1. /\ UNCHANGED <<main, hb, backoff, fails>>
        /\ waited' = MinOf(WaitCap, waited + 1)
    BY <1>10 DEF Tick
  <2>2. hb = "backoff" => timer > 0 /\ timer' = timer - 1
    BY <1>10 DEF Tick, Asleep
  <2>3. WaitCap \in Nat
    BY DEF WaitCap
  <2>4. hb = "backoff" => waited' = WaitCap \/ backoff' <= waited' + timer'
    BY <1>1, <2>1, <2>2, <2>3 DEF MinOf
  <2>5. QED BY <2>1, <2>4
<1>11. CASE \/ Disconnect \/ Create \/ (\E i \in 1..Len(Addresses) : Subscribe(i))
            \/ Fill \/ Drop \/ UNCHANGED vars
  <2>1. UNCHANGED <<main, hb, timer, backoff, fails, waited>>
    BY <1>11 DEF Disconnect, Create, Subscribe, Fill, Drop, vars
  <2>2. QED BY <2>1
<1>12. QED
  BY <1>3, <1>4, <1>5, <1>6, <1>7, <1>8, <1>9, <1>10, <1>11 DEF Next

\* Of all steps only Retry takes the heartbeat from its backoff to an attempt.
LEMMA OnlyRetry ==
  ASSUME [Next]_vars, hb = "backoff", hb' = "connecting" PROVE Retry
<1>1. QED
  BY DEF Next, Start, Disconnect, Create, Subscribe, Connected, ConnectFails,
         HeartbeatWakes, Stop, MainReturns, Fill, Drop, Tick, vars

\* BackoffPaced: whatever fails, and however long the jitter, the n-th attempt of a
\* row of failures comes no sooner than InitialBackoff doubled n - 1 times, or
\* MaxBackoff, after the one before it (_reconnect_with_backoff).
THEOREM WsBackoffPaced == Spec => BackoffPaced
<1>1. WsInv /\ Paced /\ [Next]_vars =>
        (hb = "backoff" /\ hb' = "connecting" => waited >= Doubled(fails - 1))
  <2> SUFFICES ASSUME WsInv, Paced, [Next]_vars, hb = "backoff", hb' = "connecting"
               PROVE  waited >= Doubled(fails - 1)
    OBVIOUS
  <2>1. timer = 0
    BY OnlyRetry DEF Retry
  <2>2. /\ fails - 1 \in Nat /\ backoff = Doubled(fails - 1)
        /\ waited = WaitCap \/ backoff <= waited + timer
    BY DEF Paced, WsInv, TypeOK
  <2>3. /\ backoff \in InitialBackoff..MaxBackoff /\ waited \in 0..WaitCap
        /\ WaitCap = 2 * MaxBackoff
    BY DEF WsInv, TypeOK, WaitCap
  <2>4. QED BY <2>1, <2>2, <2>3, WsAssumption
<1>2. WsInv /\ Paced /\ [Next]_vars =>
        [hb = "backoff" /\ hb' = "connecting" => waited >= Doubled(fails - 1)]_vars
  BY <1>1
<1>3. Spec => []Paced
  BY PacedInit, PacedNext, WsInvariant, PTL DEF Spec
<1>4. QED BY <1>2, <1>3, WsInvariant, PTL DEF Spec, BackoffPaced
=============================================================================
