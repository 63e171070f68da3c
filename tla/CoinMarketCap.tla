---------------------------- MODULE CoinMarketCap ----------------------------
(***************************************************************************)
(* CoinMarketCapClient.get_prices: any number of calls of one client, over  *)
(* the token_cache.  CoinMarketCap itself and the time are external.        *)
(*                                                                          *)
(* A call gives way to the others in the sleep of the rate limit and while  *)
(* it waits for the answer; nobody holds the lock of the cache across an    *)
(* await, so that looking up and storing all symbols is one step.           *)
(*                                                                          *)
(* Operators named <definition>_<fault> are faulty variants of the          *)
(* definition that follows them; no specification uses them.                *)
(***************************************************************************)
EXTENDS Integers

CONSTANTS
  Symbols,   \* coins that may be asked for (with one currency)
  Calls,     \* calls of get_prices
  Interval,  \* min_request_interval
  TTL,       \* default_ttl of the cache
  MaxTime,   \* bound: the clock
  None

ASSUME CoinMarketCapAssumption ==
  /\ Interval \in Nat /\ TTL \in Nat /\ MaxTime \in Nat
  /\ None \notin Nat \cup {"quote", "empty"}

VARIABLES
  now,
  cache,        \* per symbol: None or [data, ts]
  lastRequest,  \* last_request_time; None until the first request (0 in the code)
  pc,           \* per call: "idle", "sleeping", "requesting", "done"
  todo,         \* uncached_symbols
  answer,       \* cached_data: None, "quote" or "empty" per symbol
  wake,         \* when the sleep is over
  began,        \* history: when the call was made
  sent          \* history: when its request was sent, None before

callVars == <<pc, todo, answer, wake, began, sent>>
vars == <<now, cache, lastRequest, callVars>>

-----------------------------------------------------------------------------
Init ==
  /\ now = 0
  /\ cache = [s \in Symbols |-> None]
  /\ lastRequest = None
  /\ pc = [c \in Calls |-> "idle"]
  /\ todo = [c \in Calls |-> {}]
  /\ answer = [c \in Calls |-> [s \in Symbols |-> None]]
  /\ wake = [c \in Calls |-> 0]
  /\ began = [c \in Calls |-> None]
  /\ sent = [c \in Calls |-> None]

Tick ==
  /\ now < MaxTime
  /\ now' = now + 1
  /\ UNCHANGED <<cache, lastRequest, callVars>>

\* TokenDataCache.get
Expired(s) == cache[s] # None /\ now - cache[s].ts > TTL

Lookup(s) == IF cache[s] = None \/ Expired(s) THEN None ELSE cache[s].data

Hit_Truthy(s) == Lookup(s) = "quote"

\* "Nothing known of this symbol" is an answer as well.
Hit(s) == Lookup(s) # None

\* The rate limit, from the time of the last request as it is now.
MustWait == lastRequest # None /\ now - lastRequest < Interval

\* The time of the request is kept before it is sent.
Send_Unrecorded(c) ==
  /\ pc' = [pc EXCEPT ![c] = "requesting"]
  /\ sent' = [sent EXCEPT ![c] = now]
  /\ UNCHANGED lastRequest

Send(c) ==
  /\ pc' = [pc EXCEPT ![c] = "requesting"]
  /\ sent' = [sent EXCEPT ![c] = now]
  /\ lastRequest' = now

Call(c) ==
  /\ pc[c] = "idle"
  /\ \E symbols \in SUBSET Symbols :
       LET missed == {s \in symbols : ~Hit(s)}
       IN  /\ cache' = [s \in Symbols |-> IF s \in symbols /\ Expired(s) THEN None
                                          ELSE cache[s]]
           /\ answer' = [answer EXCEPT ![c] = [s \in Symbols |->
                           IF s \in symbols \ missed THEN Lookup(s) ELSE None]]
           /\ todo' = [todo EXCEPT ![c] = missed]
           /\ \/ /\ missed = {}
                 /\ pc' = [pc EXCEPT ![c] = "done"]
                 /\ UNCHANGED <<lastRequest, wake, sent>>
              \/ /\ missed # {}
                 /\ MustWait
                 /\ pc' = [pc EXCEPT ![c] = "sleeping"]
                 /\ wake' = [wake EXCEPT ![c] = lastRequest + Interval]
                 /\ UNCHANGED <<lastRequest, sent>>
              \/ /\ missed # {}
                 /\ ~MustWait
                 /\ Send(c)
                 /\ UNCHANGED wake
  /\ began' = [began EXCEPT ![c] = now]
  /\ UNCHANGED now

\* The sleep is over, at its time or later; the last request is not looked at
\* again.
Wake(c) ==
  /\ pc[c] = "sleeping"
  /\ now >= wake[c]
  /\ Send(c)
  /\ wake' = [wake EXCEPT ![c] = 0]
  /\ UNCHANGED <<now, cache, todo, answer, began>>

\* Symbols `known' get the data of the response, symbols `unknown' the empty
\* object, in the cache and in the answer.
Remember(c, known, unknown, nothing) ==
  LET value(s) == IF s \in known THEN "quote" ELSE nothing
  IN  /\ cache' = [s \in Symbols |-> IF s \in known \cup unknown
                                     THEN [data |-> value(s), ts |-> now] ELSE cache[s]]
      /\ answer' = [answer EXCEPT ![c] = [s \in Symbols |->
                      IF s \in known \cup unknown THEN value(s) ELSE @[s]]]

Store_Nothing(c, known, unknown) == Remember(c, known, unknown, None)

Store(c, known, unknown) == Remember(c, known, unknown, "empty")

Return(c) ==
  /\ pc' = [pc EXCEPT ![c] = "done"]
  /\ todo' = [todo EXCEPT ![c] = {}]
  /\ UNCHANGED <<now, lastRequest, wake, began, sent>>

Respond(c) ==
  /\ pc[c] = "requesting"
  /\ \E known \in SUBSET todo[c] : Store(c, known, todo[c] \ known)
  /\ Return(c)

\* An odd entry in the response ends the loop at the first symbol it is met on
\* the way to; the symbols before it are stored.
BreakOff(c) ==
  /\ pc[c] = "requesting"
  /\ \E known \in SUBSET todo[c] : known # todo[c] /\ Store(c, known, {})
  /\ Return(c)

\* An HTTP error or a timeout: what the cache had is the answer.
Fail(c) ==
  /\ pc[c] = "requesting"
  /\ Return(c)
  /\ UNCHANGED <<cache, answer>>

\* POST /cache/cleanup.
CleanUp ==
  /\ cache' = [s \in Symbols |-> IF Expired(s) THEN None ELSE cache[s]]
  /\ UNCHANGED <<now, lastRequest, callVars>>

Next ==
  \/ Tick \/ CleanUp
  \/ \E c \in Calls : Call(c) \/ Wake(c) \/ Respond(c) \/ BreakOff(c) \/ Fail(c)

Spec == Init /\ [][Next]_vars

-----------------------------------------------------------------------------
Entry == [data : {"quote", "empty"}, ts : 0..now]

TypeOK ==
  /\ now \in 0..MaxTime
  /\ cache \in [Symbols -> Entry \cup {None}]
  /\ lastRequest \in 0..now \cup {None}
  /\ pc \in [Calls -> {"idle", "sleeping", "requesting", "done"}]
  /\ todo \in [Calls -> SUBSET Symbols]
  /\ answer \in [Calls -> [Symbols -> {None, "quote", "empty"}]]
  /\ wake \in [Calls -> Nat]
  /\ began \in [Calls -> 0..now \cup {None}]
  /\ sent \in [Calls -> 0..now \cup {None}]

\* Requests closer than the interval come from calls that overlap: a call made
\* after a request was sent keeps its distance from it, and from all before it.
CrowdedOnlyByOverlap ==
  \A c, d \in Calls :
    /\ c # d /\ sent[c] # None /\ sent[d] # None
    /\ sent[c] <= sent[d] /\ sent[d] - sent[c] < Interval
    => began[d] <= sent[c]

\* Nobody asks for what is known, be it that there is nothing to know: while a
\* call is on its way to the exchange, an entry for one of its symbols can only
\* have been stored since it began.
KnownIsNotAsked ==
  \A c \in Calls : pc[c] \in {"sleeping", "requesting"} =>
    \A s \in todo[c] : cache[s] # None => cache[s].ts >= began[c]

\* The inductive invariant behind CrowdedOnlyByOverlap.  A call that sleeps will
\* keep its distance from every request sent before it was made; what is sent
\* while it sleeps overlaps with it.
CallsInOrder ==
  \A c \in Calls :
    /\ pc[c] \in {"idle", "sleeping"} => sent[c] = None
    /\ pc[c] # "idle" => began[c] # None
    /\ sent[c] # None => /\ pc[c] # "idle"
                         /\ lastRequest # None /\ sent[c] <= lastRequest

SleepersKeepDistance ==
  \A c, d \in Calls : pc[d] = "sleeping" /\ sent[c] # None =>
    sent[c] + Interval <= wake[d] \/ began[d] <= sent[c]

RateInv == TypeOK /\ CallsInOrder /\ SleepersKeepDistance /\ CrowdedOnlyByOverlap
=============================================================================
