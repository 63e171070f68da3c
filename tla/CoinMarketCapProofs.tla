------------------------ MODULE CoinMarketCapProofs ------------------------
(***************************************************************************)
(* Theorems about the CoinMarketCap client, for every set of calls and      *)
(* symbols and every interval and lifetime.                                 *)
(***************************************************************************)
EXTENDS CoinMarketCap, TLAPS

-----------------------------------------------------------------------------
(* Type correctness *)

LEMMA TypeInit == Init => TypeOK
<1> SUFFICES ASSUME Init PROVE TypeOK
  OBVIOUS
<1>1. QED BY CoinMarketCapAssumption DEF Init, TypeOK, Entry

\* Time only adds to the ranges of the type.
LEMMA TypeTick == ASSUME TypeOK, Tick PROVE TypeOK'
<1> USE CoinMarketCapAssumption
<1>1. /\ now \in Nat /\ now' \in 0..MaxTime /\ \A t \in 0..now : t \in 0..now'
      /\ UNCHANGED <<cache, lastRequest, callVars>>
  BY DEF TypeOK, Tick
<1>2. \A e \in Entry : e \in Entry'
  BY <1>1 DEF Entry
<1>3. cache' \in [Symbols -> Entry' \cup {None}]
  BY <1>1, <1>2 DEF TypeOK
<1>4. QED BY <1>1, <1>3 DEF TypeOK, callVars

\* What a step that stores, drops or keeps entries leaves in the cache.
LEMMA TypeStore ==
  ASSUME TypeOK, NEW c \in Calls, NEW known \in SUBSET Symbols,
         NEW unknown \in SUBSET Symbols, Store(c, known, unknown), now' = now
  PROVE  /\ cache' \in [Symbols -> Entry' \cup {None}]
         /\ answer' \in [Calls -> [Symbols -> {None, "quote", "empty"}]]
         /\ \A s \in Symbols : s \notin known \cup unknown => cache'[s] = cache[s]
         /\ \A s \in known \cup unknown : cache'[s].ts = now
<1> DEFINE value(s) == IF s \in known THEN "quote" ELSE "empty"
           entry(s) == [data |-> value(s), ts |-> now]
<1>1. /\ cache' = [s \in Symbols |-> IF s \in known \cup unknown THEN entry(s) ELSE cache[s]]
      /\ answer' = [answer EXCEPT ![c] = [s \in Symbols |->
                      IF s \in known \cup unknown THEN value(s) ELSE answer[c][s]]]
  BY DEF Store, Remember
<1>2. /\ now \in 0..now /\ cache \in [Symbols -> Entry \cup {None}]
      /\ answer \in [Calls -> [Symbols -> {None, "quote", "empty"}]]
      /\ Entry' = Entry
  BY DEF TypeOK, Entry
<1>3. \A s \in Symbols : entry(s) \in Entry /\ entry(s).ts = now
  BY <1>2 DEF Entry
<1> HIDE DEF entry
<1>4. QED BY <1>1, <1>2, <1>3

LEMMA TypeCall == ASSUME TypeOK, NEW c \in Calls, Call(c) PROVE TypeOK'
<1> USE CoinMarketCapAssumption
<1>1. PICK symbols \in SUBSET Symbols :
        LET missed == {s \in symbols : ~Hit(s)}
        IN  /\ cache' = [s \in Symbols |-> IF s \in symbols /\ Expired(s) THEN None
                                           ELSE cache[s]]
            /\ answer' = [answer EXCEPT ![c] = [s \in Symbols |->
                            IF s \in symbols \ missed THEN Lookup(s) ELSE None]]
            /\ todo' = [todo EXCEPT ![c] = missed]
            /\ \/ /\ pc' = [pc EXCEPT ![c] = "done"]
                  /\ UNCHANGED <<lastRequest, wake, sent>>
               \/ /\ MustWait
                  /\ pc' = [pc EXCEPT ![c] = "sleeping"]
                  /\ wake' = [wake EXCEPT ![c] = lastRequest + Interval]
                  /\ UNCHANGED <<lastRequest, sent>>
               \/ /\ Send(c)
                  /\ UNCHANGED wake
  BY DEF Call
<1>2. now' = now /\ began' = [began EXCEPT ![c] = now] /\ now \in 0..now
  BY DEF Call, TypeOK
<1>3. Entry' = Entry
  BY <1>2 DEF Entry
<1>4. cache' \in [Symbols -> Entry' \cup {None}]
  BY <1>1, <1>3 DEF TypeOK
<1>5. \A s \in Symbols : Lookup(s) \in {None, "quote", "empty"}
  BY DEF Lookup, TypeOK, Entry
<1>6. answer' \in [Calls -> [Symbols -> {None, "quote", "empty"}]]
  BY <1>1, <1>5 DEF TypeOK
<1>7. todo' \in [Calls -> SUBSET Symbols]
  BY <1>1 DEF TypeOK
<1>8. /\ pc' \in [Calls -> {"idle", "sleeping", "requesting", "done"}]
      /\ lastRequest' \in 0..now' \cup {None}
      /\ sent' \in [Calls -> 0..now' \cup {None}]
      /\ wake' \in [Calls -> Nat]
  <2>1. CASE Send(c) /\ UNCHANGED wake
    BY <1>2, <2>1 DEF TypeOK, Send
  <2>2. CASE UNCHANGED <<lastRequest, wake, sent>> /\ pc' = [pc EXCEPT ![c] = "done"]
    BY <1>2, <2>2 DEF TypeOK
  <2>3. CASE /\ MustWait
             /\ pc' = [pc EXCEPT ![c] = "sleeping"]
             /\ wake' = [wake EXCEPT ![c] = lastRequest + Interval]
             /\ UNCHANGED <<lastRequest, sent>>
    <3>1. lastRequest + Interval \in Nat
      BY <2>3 DEF TypeOK, MustWait
    <3>2. QED BY <1>2, <2>3, <3>1 DEF TypeOK
  <2>4. QED BY <1>1, <2>1, <2>2, <2>3
<1>9. began' \in [Calls -> 0..now' \cup {None}]
  BY <1>2 DEF TypeOK
<1>10. QED BY <1>2, <1>4, <1>6, <1>7, <1>8, <1>9 DEF TypeOK

LEMMA TypeRest ==
  ASSUME TypeOK, NEW c \in Calls, Wake(c) \/ Respond(c) \/ BreakOff(c) \/ Fail(c)
  PROVE  TypeOK'
<1> USE CoinMarketCapAssumption
<1>1. now' = now /\ now \in 0..now /\ Entry' = Entry
  <2>1. now' = now
    BY DEF Wake, Respond, BreakOff, Fail, Return
  <2>2. now \in 0..now
    BY DEF TypeOK
  <2>3. QED BY <2>1, <2>2 DEF Entry
<1>2. CASE Wake(c)
  BY <1>1, <1>2 DEF Wake, Send, TypeOK
<1>3. ASSUME Return(c), cache' \in [Symbols -> Entry' \cup {None}],
             answer' \in [Calls -> [Symbols -> {None, "quote", "empty"}]]
      PROVE  TypeOK'
  BY <1>1, <1>3 DEF Return, TypeOK
<1>4. CASE Respond(c) \/ BreakOff(c)
  <2>1. PICK known \in SUBSET todo[c], unknown \in SUBSET todo[c] :
          Store(c, known, unknown)
    BY <1>4 DEF Respond, BreakOff
  <2>2. known \in SUBSET Symbols /\ unknown \in SUBSET Symbols
    BY <2>1 DEF TypeOK
  <2>3. QED BY <1>1, <1>3, <1>4, <2>1, <2>2, TypeStore DEF Respond, BreakOff
<1>5. CASE Fail(c)
  BY <1>1, <1>3, <1>5 DEF Fail, TypeOK
<1>6. QED BY <1>2, <1>4, <1>5

LEMMA TypeNext == TypeOK /\ [Next]_vars => TypeOK'
<1> SUFFICES ASSUME TypeOK, [Next]_vars PROVE TypeOK'
  OBVIOUS
<1>1. CASE CleanUp
  <2>1. now' = now /\ Entry' = Entry
    BY <1>1 DEF CleanUp, Entry
  <2>2. cache' \in [Symbols -> Entry' \cup {None}]
    BY <1>1, <2>1 DEF CleanUp, TypeOK
  <2>3. QED BY <1>1, <2>1, <2>2 DEF CleanUp, callVars, TypeOK
<1>2. CASE UNCHANGED vars
  BY <1>2 DEF vars, callVars, TypeOK, Entry
<1>3. QED BY <1>1, <1>2, TypeTick, TypeCall, TypeRest DEF Next

\* The state of client and cache has its type; in particular the answers of a
\* call are never mixed up with the mark of a symbol that is not cached.
THEOREM ClientTypeOK == Spec => []TypeOK
<1>1. QED BY TypeInit, TypeNext, PTL DEF Spec

-----------------------------------------------------------------------------
(* The rate limit *)

\* The two ways to send keep what is known of the requests sent so far: after a
\* look at the last request, or after a sleep that was long enough.
LEMMA SendInv ==
  ASSUME RateInv, TypeOK', NEW c \in Calls, Send(c), now' = now,
         sent[c] = None,
         \A d \in Calls : pc[d] # "idle" /\ d # c => began'[d] = began[d],
         \A d \in Calls : pc[d] = "sleeping" /\ d # c => wake'[d] = wake[d],
         began'[c] # None,
         \A d \in Calls : sent[d] # None =>
           sent[d] + Interval <= now \/ began'[c] <= sent[d]
  PROVE  RateInv'
<1> USE CoinMarketCapAssumption
<1>1. /\ now \in Nat /\ lastRequest' = now
      /\ sent' = [sent EXCEPT ![c] = now] /\ sent \in [Calls -> Nat \cup {None}]
      /\ pc' = [pc EXCEPT ![c] = "requesting"]
      /\ pc \in [Calls -> {"idle", "sleeping", "requesting", "done"}]
  BY DEF RateInv, TypeOK, Send
<1>2. /\ pc'[c] = "requesting" /\ sent'[c] = now
      /\ \A d \in Calls : d # c => pc'[d] = pc[d] /\ sent'[d] = sent[d]
  BY <1>1
<1>3. /\ \A d \in Calls : sent[d] # None =>
           /\ sent[d] \in Nat /\ sent[d] <= now
           /\ began[d] \in Nat /\ began[d] <= now /\ pc[d] # "idle"
      /\ \A d \in Calls : pc[d] # "idle" => began[d] \in Nat /\ began[d] <= now
      /\ \A d \in Calls : wake[d] \in Nat
  BY <1>1 DEF RateInv, TypeOK, CallsInOrder
<1>4. began'[c] \in Nat /\ began'[c] <= now
  BY <1>1 DEF TypeOK
<1>5. CallsInOrder'
  BY <1>1, <1>2, <1>3 DEF RateInv, CallsInOrder
<1>6. SleepersKeepDistance'
  <2> SUFFICES ASSUME NEW a \in Calls, NEW d \in Calls,
                      pc'[d] = "sleeping", sent'[a] # None
               PROVE  sent'[a] + Interval <= wake'[d] \/ began'[d] <= sent'[a]
    BY DEF SleepersKeepDistance
  <2>1. d # c /\ pc[d] = "sleeping" /\ began'[d] = began[d] /\ wake'[d] = wake[d]
    BY <1>2
  <2>2. CASE a = c
    BY <2>1, <2>2, <1>2, <1>3
  <2>3. CASE a # c
    BY <2>1, <2>3, <1>2 DEF RateInv, SleepersKeepDistance
  <2>4. QED BY <2>2, <2>3
<1>7. CrowdedOnlyByOverlap'
  <2> SUFFICES ASSUME NEW a \in Calls, NEW d \in Calls,
                      a # d, sent'[a] # None, sent'[d] # None,
                      sent'[a] <= sent'[d], sent'[d] - sent'[a] < Interval
               PROVE  began'[d] <= sent'[a]
    BY DEF CrowdedOnlyByOverlap
  <2>1. CASE d = c
    BY <2>1, <1>1, <1>2, <1>3, <1>4
  <2>2. CASE a = c
    BY <2>2, <1>1, <1>2, <1>3
  <2>3. CASE a # c /\ d # c
    BY <2>3, <1>2, <1>3 DEF RateInv, CrowdedOnlyByOverlap
  <2>4. QED BY <2>1, <2>2, <2>3
<1>8. QED BY <1>5, <1>6, <1>7 DEF RateInv

\* Steps that send nothing, start no call and end no sleep.
LEMMA QuietInv ==
  ASSUME RateInv, TypeOK', UNCHANGED <<lastRequest, wake, began, sent>>,
         \A d \in Calls : /\ pc'[d] = "idle" <=> pc[d] = "idle"
                          /\ pc'[d] = "sleeping" <=> pc[d] = "sleeping"
  PROVE  RateInv'
<1>1. CallsInOrder'
  BY DEF RateInv, CallsInOrder
<1>2. SleepersKeepDistance' /\ CrowdedOnlyByOverlap'
  BY DEF RateInv, SleepersKeepDistance, CrowdedOnlyByOverlap
<1>3. QED BY <1>1, <1>2 DEF RateInv

LEMMA CallInv == ASSUME RateInv, TypeOK', NEW c \in Calls, Call(c) PROVE RateInv'
<1> USE CoinMarketCapAssumption
<1>1. /\ pc[c] = "idle" /\ now' = now /\ began' = [began EXCEPT ![c] = now]
      /\ \/ /\ pc' = [pc EXCEPT ![c] = "done"]
            /\ UNCHANGED <<lastRequest, wake, sent>>
         \/ /\ MustWait
            /\ pc' = [pc EXCEPT ![c] = "sleeping"]
            /\ wake' = [wake EXCEPT ![c] = lastRequest + Interval]
            /\ UNCHANGED <<lastRequest, sent>>
         \/ /\ ~MustWait /\ Send(c)
            /\ UNCHANGED wake
  BY DEF Call
<1>2. /\ TypeOK /\ now \in Nat /\ sent[c] = None /\ now # None
      /\ began'[c] = now /\ \A d \in Calls : d # c => began'[d] = began[d]
  BY <1>1 DEF RateInv, TypeOK, CallsInOrder
<1>3. \A d \in Calls : sent[d] # None =>
        /\ d # c /\ pc[d] # "idle" /\ began'[d] = began[d]
        /\ sent[d] \in Nat /\ lastRequest \in Nat /\ sent[d] <= lastRequest
  BY <1>2 DEF RateInv, TypeOK, CallsInOrder
<1>4. CASE ~MustWait /\ Send(c) /\ UNCHANGED wake
  <2>1. \A d \in Calls : sent[d] # None => sent[d] + Interval <= now
    BY <1>2, <1>3, <1>4 DEF MustWait
  <2>2. QED BY <1>1, <1>2, <1>4, <2>1, SendInv
<1>5. CASE pc' = [pc EXCEPT ![c] = "done"] /\ UNCHANGED <<lastRequest, wake, sent>>
  <2>1. pc'[c] = "done" /\ \A d \in Calls : d # c => pc'[d] = pc[d]
    BY <1>2, <1>5 DEF TypeOK
  <2>2. CallsInOrder'
    BY <1>2, <1>5, <2>1 DEF RateInv, CallsInOrder
  <2>3. SleepersKeepDistance'
    BY <1>2, <1>5, <2>1 DEF RateInv, SleepersKeepDistance
  <2>4. CrowdedOnlyByOverlap'
    BY <1>2, <1>3, <1>5 DEF RateInv, CrowdedOnlyByOverlap
  <2>5. QED BY <2>2, <2>3, <2>4 DEF RateInv
<1>6. CASE /\ MustWait
           /\ pc' = [pc EXCEPT ![c] = "sleeping"]
           /\ wake' = [wake EXCEPT ![c] = lastRequest + Interval]
           /\ UNCHANGED <<lastRequest, sent>>
  <2>1. /\ pc'[c] = "sleeping" /\ wake'[c] = lastRequest + Interval
        /\ \A d \in Calls : d # c => pc'[d] = pc[d] /\ wake'[d] = wake[d]
    BY <1>2, <1>6 DEF TypeOK
  <2>2. CallsInOrder'
    BY <1>2, <1>6, <2>1 DEF RateInv, CallsInOrder
  <2>3. SleepersKeepDistance'
    <3> SUFFICES ASSUME NEW a \in Calls, NEW d \in Calls,
                        pc'[d] = "sleeping", sent[a] # None
                 PROVE  sent[a] + Interval <= wake'[d] \/ began'[d] <= sent[a]
      BY <1>6 DEF SleepersKeepDistance
    <3>1. CASE d = c
      BY <3>1, <1>3, <2>1
    <3>2. CASE d # c
      BY <3>2, <1>2, <2>1 DEF RateInv, SleepersKeepDistance
    <3>3. QED BY <3>1, <3>2
  <2>4. CrowdedOnlyByOverlap'
    BY <1>2, <1>3, <1>6 DEF RateInv, CrowdedOnlyByOverlap
  <2>5. QED BY <2>2, <2>3, <2>4 DEF RateInv
<1>7. QED BY <1>1, <1>4, <1>5, <1>6

LEMMA WakeInv == ASSUME RateInv, TypeOK', NEW c \in Calls, Wake(c) PROVE RateInv'
<1> USE CoinMarketCapAssumption
<1>1. /\ TypeOK /\ pc[c] = "sleeping" /\ now >= wake[c] /\ Send(c)
      /\ wake' = [wake EXCEPT ![c] = 0] /\ UNCHANGED <<now, began>>
  BY DEF Wake, RateInv
<1>2. sent[c] = None /\ began[c] # None
  BY <1>1 DEF RateInv, CallsInOrder
<1>3. \A d \in Calls : d # c => wake'[d] = wake[d]
  BY <1>1 DEF TypeOK
<1>4. ASSUME NEW d \in Calls, sent[d] # None
      PROVE  sent[d] + Interval <= now \/ began[c] <= sent[d]
  <2>1. sent[d] + Interval <= wake[c] \/ began[c] <= sent[d]
    BY <1>1, <1>4 DEF RateInv, SleepersKeepDistance
  <2>2. sent[d] + Interval \in Nat /\ wake[c] \in Nat /\ now \in Nat
    BY <1>1, <1>4 DEF TypeOK
  <2>3. QED BY <1>1, <2>1, <2>2
<1>5. QED BY <1>1, <1>2, <1>3, <1>4, SendInv

LEMMA RateNext == RateInv /\ [Next]_vars => RateInv'
<1> SUFFICES ASSUME RateInv, [Next]_vars PROVE RateInv'
  OBVIOUS
<1>1. TypeOK /\ TypeOK'
  BY TypeNext DEF RateInv
<1>2. CASE Tick \/ CleanUp \/ UNCHANGED vars
  BY <1>1, <1>2, QuietInv DEF Tick, CleanUp, vars, callVars
<1>3. ASSUME NEW c \in Calls, Respond(c) \/ BreakOff(c) \/ Fail(c) PROVE RateInv'
  <2>1. /\ pc[c] = "requesting" /\ pc' = [pc EXCEPT ![c] = "done"]
        /\ UNCHANGED <<lastRequest, wake, began, sent>>
    BY <1>3 DEF Respond, BreakOff, Fail, Return
  <2>2. QED BY <1>1, <2>1, QuietInv DEF TypeOK
<1>4. QED BY <1>1, <1>2, <1>3, CallInv, WakeInv DEF Next

\* Two requests of one client are closer than the interval only if their calls
\* overlapped: the comment "ensure minimum time between requests" holds of calls
\* made one after the other, and this is all that is lost when they are not.
THEOREM ClientCrowdedOnlyByOverlap == Spec => []CrowdedOnlyByOverlap
<1>1. Init => RateInv
  <2> SUFFICES ASSUME Init PROVE RateInv
    OBVIOUS
  <2>1. TypeOK
    BY TypeInit
  <2>2. QED BY <2>1 DEF Init, RateInv, CallsInOrder, SleepersKeepDistance,
                        CrowdedOnlyByOverlap
<1>2. RateInv => CrowdedOnlyByOverlap
  BY DEF RateInv
<1>3. QED BY <1>1, <1>2, RateNext, PTL DEF Spec

-----------------------------------------------------------------------------
(* The cache *)

Asking(c) == pc[c] \in {"sleeping", "requesting"}

AskInv ==
  /\ TypeOK
  /\ \A c \in Calls : Asking(c) => began[c] # None
  /\ KnownIsNotAsked

\* Steps that begin no call may drop entries and store new ones.
LEMMA AskKept ==
  ASSUME AskInv, TypeOK', now' \in Nat, UNCHANGED began,
         \A d \in Calls : Asking(d)' => Asking(d) /\ todo'[d] = todo[d],
         \A s \in Symbols :
           cache'[s] \in {None, cache[s]} \/ (cache'[s].ts = now /\ now' = now)
  PROVE  AskInv'
<1> SUFFICES ASSUME NEW d \in Calls, Asking(d)', NEW s \in todo'[d], cache'[s] # None
             PROVE  began'[d] # None /\ cache'[s].ts >= began'[d]
  BY DEF AskInv, KnownIsNotAsked, Asking
<1>1. /\ Asking(d) /\ s \in todo[d] /\ s \in Symbols
      /\ began'[d] = began[d] /\ began[d] # None
  BY DEF AskInv, TypeOK
<1>2. CASE cache'[s] \in {None, cache[s]}
  BY <1>1, <1>2 DEF AskInv, KnownIsNotAsked, Asking
<1>3. CASE cache'[s].ts = now
  <2>1. began[d] \in 0..now /\ now \in Nat
    BY <1>1 DEF AskInv, TypeOK
  <2>2. QED BY <1>1, <1>3, <2>1
<1>4. QED BY <1>1, <1>2, <1>3

\* A call asks for what is not in the cache once it has looked.
LEMMA AskCall == ASSUME AskInv, TypeOK', NEW c \in Calls, Call(c) PROVE AskInv'
<1> USE CoinMarketCapAssumption
<1>1. PICK symbols \in SUBSET Symbols :
        /\ cache' = [s \in Symbols |-> IF s \in symbols /\ Expired(s) THEN None
                                       ELSE cache[s]]
        /\ todo' = [todo EXCEPT ![c] = {s \in symbols : ~Hit(s)}]
  BY DEF Call
<1>2. /\ TypeOK /\ now \in Nat /\ began' = [began EXCEPT ![c] = now]
      /\ \A d \in Calls : d # c => pc'[d] = pc[d]
  BY DEF Call, AskInv, TypeOK, Send
<1>3. \A s \in symbols : ~Hit(s) => cache'[s] = None
  BY <1>1, <1>2 DEF Hit, Lookup, Expired, TypeOK, Entry
<1>4. /\ began'[c] = now /\ now # None
      /\ \A d \in Calls : d # c => began'[d] = began[d] /\ todo'[d] = todo[d]
      /\ todo'[c] = {s \in symbols : ~Hit(s)}
  BY <1>1, <1>2 DEF TypeOK
<1>5. ASSUME NEW d \in Calls, Asking(d)' PROVE began'[d] # None
  BY <1>2, <1>4, <1>5 DEF AskInv, Asking
<1>6. ASSUME NEW d \in Calls, Asking(d)', NEW s \in todo'[d], cache'[s] # None
      PROVE  cache'[s].ts >= began'[d]
  <2>1. CASE d = c
    BY <1>3, <1>4, <1>6, <2>1
  <2>2. CASE d # c
    <3>1. Asking(d) /\ s \in todo[d] /\ s \in Symbols /\ began'[d] = began[d]
      BY <1>2, <1>4, <1>6, <2>2 DEF Asking, TypeOK
    <3>2. cache'[s] = cache[s]
      BY <1>1, <1>6, <3>1
    <3>3. QED BY <1>6, <3>1, <3>2 DEF AskInv, KnownIsNotAsked, Asking
  <2>3. QED BY <2>1, <2>2
<1>7. QED BY <1>5, <1>6 DEF AskInv, KnownIsNotAsked, Asking

LEMMA AskNext == AskInv /\ [Next]_vars => AskInv'
<1> SUFFICES ASSUME AskInv, [Next]_vars PROVE AskInv'
  OBVIOUS
<1>1. TypeOK /\ TypeOK' /\ now' \in Nat
  <2>1. TypeOK /\ TypeOK'
    BY TypeNext DEF AskInv
  <2>2. QED BY <2>1 DEF TypeOK
<1>2. CASE Tick \/ UNCHANGED vars
  BY <1>1, <1>2, AskKept DEF Tick, vars, callVars, Asking
<1>3. CASE CleanUp
  <2>1. \A s \in Symbols : cache'[s] \in {None, cache[s]}
    BY <1>3 DEF CleanUp
  <2>2. QED BY <1>1, <1>3, <2>1, AskKept DEF CleanUp, callVars, Asking
<1>4. ASSUME NEW c \in Calls, Wake(c) PROVE AskInv'
  <2>1. /\ Asking(c) /\ pc' = [pc EXCEPT ![c] = "requesting"]
        /\ UNCHANGED <<began, todo, cache>>
    BY <1>4 DEF Wake, Send, Asking
  <2>2. \A d \in Calls : Asking(d)' => Asking(d)
    BY <1>1, <2>1 DEF Asking, TypeOK
  <2>3. QED BY <1>1, <2>1, <2>2, AskKept
<1>5. ASSUME NEW c \in Calls, Return(c),
             \A s \in Symbols : cache'[s] \in {None, cache[s]} \/ cache'[s].ts = now
      PROVE  AskInv'
  <2>1. \A d \in Calls : Asking(d)' => Asking(d) /\ todo'[d] = todo[d]
    BY <1>1, <1>5 DEF Return, Asking, TypeOK
  <2>2. QED BY <1>1, <1>5, <2>1, AskKept DEF Return
<1>6. ASSUME NEW c \in Calls, Respond(c) \/ BreakOff(c) PROVE AskInv'
  <2>1. PICK known \in SUBSET todo[c], unknown \in SUBSET todo[c] :
          Store(c, known, unknown)
    BY <1>6 DEF Respond, BreakOff
  <2>2. Return(c) /\ now' = now /\ known \in SUBSET Symbols /\ unknown \in SUBSET Symbols
    BY <1>1, <1>6, <2>1 DEF Respond, BreakOff, Return, TypeOK
  <2>3. \A s \in Symbols : cache'[s] = cache[s] \/ cache'[s].ts = now
    BY <1>1, <2>1, <2>2, TypeStore
  <2>4. QED BY <1>5, <2>2, <2>3
<1>7. ASSUME NEW c \in Calls, Fail(c) PROVE AskInv'
  BY <1>5, <1>7 DEF Fail
<1>8. QED BY <1>1, <1>2, <1>3, <1>4, <1>6, <1>7, AskCall DEF Next

\* Whatever overlaps and expires, a symbol is asked for only if nothing was known
\* of it when the call began.
THEOREM ClientKnownIsNotAsked == Spec => []KnownIsNotAsked
<1>1. Init => AskInv
  <2> SUFFICES ASSUME Init PROVE AskInv
    OBVIOUS
  <2>1. TypeOK
    BY TypeInit
  <2>2. QED BY <2>1 DEF Init, AskInv, KnownIsNotAsked, Asking
<1>2. AskInv => KnownIsNotAsked
  BY DEF AskInv
<1>3. QED BY <1>1, <1>2, AskNext, PTL DEF Spec
=============================================================================
