-------------------------- MODULE PriceSyncProofs --------------------------
(***************************************************************************)
(* What is written to the table is the price of the token it names, and no  *)
(* older than the cache allows; and no token is left without an answer: for  *)
(* any number of overlapping requests, any tokens, batch size and lifetime.  *)
(***************************************************************************)
EXTENDS PriceSync, FiniteSetTheorems, FunctionTheorems, SequenceTheorems, TLAPS

Pcs == {"idle", "fetching", "pausing", "done", "failed"}

Request(pc, tokens, results, todo, began, looked) ==
  [pc |-> pc, tokens |-> tokens, results |-> results,
   todo |-> todo, began |-> began, looked |-> looked]

\* The fields of a request.
Shaped(r) == r = Request(r.pc, r.tokens, r.results, r.todo, r.began, r.looked)

\* A result belongs to the token in its place and was fresh when looked up.
Sound(data, token, looked) ==
  data \in Data /\ data.mint = token /\ looked - data.at <= TTL + FetchTime

ResultsSound(tokens, results, looked) ==
  \A i \in DOMAIN results : results[i] # None => Sound(results[i], tokens[i], looked)

\* A token without an answer is still on the list of those to ask for.
NoneForgotten(tokens, results, todo) ==
  /\ tokens \in Seq(Mints) /\ todo \in Seq(Mints)
  /\ DOMAIN results = DOMAIN tokens
  /\ ToSet(todo) \subseteq ToSet(tokens)
  /\ \A i \in DOMAIN results : results[i] = None => tokens[i] \in ToSet(todo)

\* What is known of a request at time t, while a step is changing it ...
RequestFits(r, t) ==
  /\ Shaped(r) /\ ResultsSound(r.tokens, r.results, r.looked)
  /\ NoneForgotten(r.tokens, r.results, r.todo)
  /\ r.pc \in Pcs
  /\ r.looked \in Nat /\ r.looked <= t
  /\ r.pc = "fetching" => /\ r.began \in Nat /\ r.looked <= r.began
                          /\ r.began <= t /\ t <= r.began + FetchTime

\* ... and between the steps.
RequestOK(r, t) ==
  /\ RequestFits(r, t)
  /\ r.pc = "done" => r.todo = <<>>
  /\ r.pc \in {"fetching", "pausing"} => r.todo # <<>>

\* An entry of the cache is the answer for its mint, as old as the end of the
\* batch that brought it.
EntryOK(m, e, t) ==
  /\ e = [data |-> e.data, ts |-> e.ts]
  /\ e.data \in Data /\ e.data.mint = m
  /\ e.ts \in Nat /\ e.ts <= t /\ e.ts - e.data.at <= FetchTime

CacheOK == \A m \in Mints : cache[m] # None => EntryOK(m, cache[m], now)

RowsOK == \A row \in table :
  row.data.mint = row.token /\ row.looked - row.data.at <= TTL + FetchTime

PriceInv ==
  /\ now \in 0..MaxTime
  /\ CacheOK
  /\ sync = [s \in Syncs |-> sync[s]]
  /\ \A s \in Syncs : RequestOK(sync[s], now)
  /\ RowsOK

LEMMA DataAt == ASSUME NEW d \in Data PROVE d.at \in Nat
BY PriceSyncAssumption DEF Data

\* A request is known by its fields.
LEMMA Fields ==
  ASSUME NEW a, NEW b, NEW c, NEW d, NEW e, NEW f, NEW q, q = Request(a, b, c, d, e, f)
  PROVE  /\ q.pc = a /\ q.tokens = b /\ q.results = c
         /\ q.todo = d /\ q.began = e /\ q.looked = f /\ Shaped(q)
BY DEF Request, Shaped

LEMMA PriceInit == Init => PriceInv
<1> SUFFICES ASSUME Init PROVE PriceInv
  OBVIOUS
<1>1. Idle = Request("idle", <<>>, <<>>, <<>>, 0, 0)
  BY DEF Idle, Request
<1>2. /\ Shaped(Idle) /\ Idle.results = <<>> /\ Idle.looked = 0 /\ Idle.pc = "idle"
      /\ Idle.tokens = <<>> /\ Idle.todo = <<>>
  BY <1>1, Fields
<1>3. NoneForgotten(<<>>, <<>>, <<>>)
  BY DEF NoneForgotten, ToSet
<1>4. RequestOK(Idle, 0)
  BY <1>2, <1>3 DEF RequestOK, RequestFits, ResultsSound, Pcs
<1>5. 0 \in 0..MaxTime BY PriceSyncAssumption
<1>6. QED BY <1>4, <1>5 DEF Init, PriceInv, CacheOK, RowsOK

\* One request moves on: the others stay as they are.
LEMMA OneRequest ==
  ASSUME PriceInv, now' = now, NEW s \in Syncs, NEW q,
         sync' = [sync EXCEPT ![s] = q], RequestOK(q, now)
  PROVE  /\ sync' = [t \in Syncs |-> sync'[t]]
         /\ \A t \in Syncs : RequestOK(sync'[t], now')
<1>1. \A t \in Syncs : sync'[t] = IF t = s THEN q ELSE sync[t]
  BY DEF PriceInv
<1>2. sync' = [t \in Syncs |-> sync'[t]]
  BY DEF PriceInv
<1>3. QED BY <1>1, <1>2 DEF PriceInv

\* Entries that stay, or go, are as good later.
LEMMA EntriesKept ==
  ASSUME CacheOK, now \in Nat, now' \in Nat, now' >= now,
         \A m \in Mints : cache'[m] \in {None, cache[m]}
  PROVE  CacheOK'
<1>1. ASSUME NEW m \in Mints, cache'[m] # None PROVE EntryOK(m, cache'[m], now')
  <2>1. cache'[m] = cache[m] /\ EntryOK(m, cache[m], now)
    BY <1>1 DEF CacheOK
  <2>2. cache[m].ts <= now' BY <2>1 DEF EntryOK
  <2>3. QED BY <2>1, <2>2 DEF EntryOK
<1>2. QED BY <1>1 DEF CacheOK

\* The end of a request: rows are its sound results.
LEMMA CompleteInv ==
  ASSUME PriceInv, now' = now, CacheOK', NEW s \in Syncs, NEW r, RequestFits(r, now),
         r.todo = <<>>, Complete(s, r)
  PROVE  PriceInv'
<1>1. ASSUME NEW x \in {"done", "failed"} PROVE RequestOK([r EXCEPT !.pc = x], now)
  <2> DEFINE q == [r EXCEPT !.pc = x]
  <2>1. q = Request(x, r.tokens, r.results, r.todo, r.began, r.looked)
    BY DEF RequestOK, RequestFits, Shaped, Request
  <2> HIDE DEF q
  <2>2. /\ q.pc = x /\ q.tokens = r.tokens /\ q.results = r.results
        /\ q.todo = r.todo /\ q.looked = r.looked /\ Shaped(q)
    BY <2>1, Fields
  <2>3. RequestOK(q, now)
    BY <2>2 DEF RequestOK, RequestFits, Pcs
  <2>4. QED BY <2>3 DEF q
<1>2. \/ sync' = [sync EXCEPT ![s] = [r EXCEPT !.pc = "done"]]
      \/ sync' = [sync EXCEPT ![s] = [r EXCEPT !.pc = "failed"]]
  BY DEF Complete, Write
<1>3. sync' = [t \in Syncs |-> sync'[t]] /\ \A t \in Syncs : RequestOK(sync'[t], now')
  BY <1>1, <1>2, OneRequest
<1>4. ASSUME NEW row \in SolanaPrices(s, r)
      PROVE  row.data.mint = row.token /\ row.looked - row.data.at <= TTL + FetchTime
  <2>1. PICK i \in OfKind(r, "priced") :
          row = [sync |-> s, token |-> r.tokens[i], data |-> r.results[i], looked |-> r.looked]
    BY <1>4 DEF SolanaPrices
  <2>2. i \in DOMAIN r.results /\ r.results[i] # None
    BY <2>1 DEF OfKind
  <2>3. Sound(r.results[i], r.tokens[i], r.looked)
    BY <2>2 DEF RequestOK, RequestFits, ResultsSound
  <2>4. QED BY <2>1, <2>3 DEF Sound
<1>5. table' = table \/ table' = table \cup SolanaPrices(s, r)
  BY DEF Complete, Write, HyperliquidPrices
<1>6. RowsOK'
  BY <1>4, <1>5 DEF PriceInv, RowsOK
<1>7. QED BY <1>3, <1>6 DEF PriceInv

\* A batch is sent: the request waits from now on.
LEMMA SendInv ==
  ASSUME PriceInv, now' = now, CacheOK', table' = table, NEW s \in Syncs, NEW r,
         RequestFits(r, now), r.todo # <<>>, Send(s, r)
  PROVE  PriceInv'
<1> DEFINE q == [r EXCEPT !.pc = "fetching", !.began = now]
<1>1. q = Request("fetching", r.tokens, r.results, r.todo, now, r.looked)
  <2>1. r = Request(r.pc, r.tokens, r.results, r.todo, r.began, r.looked)
    BY DEF RequestOK, RequestFits, Shaped
  <2> DEFINE q1 == [r EXCEPT !.pc = "fetching"]
  <2>2. q1 = Request("fetching", r.tokens, r.results, r.todo, r.began, r.looked)
    BY <2>1 DEF Request
  <2>3. q = [q1 EXCEPT !.began = now]
    OBVIOUS
  <2> HIDE DEF q, q1
  <2>4. QED BY <2>2, <2>3 DEF Request
<1>2. sync' = [sync EXCEPT ![s] = q]
  BY DEF Send
<1> HIDE DEF q
<1>3. /\ q.pc = "fetching" /\ q.tokens = r.tokens /\ q.results = r.results
      /\ q.todo = r.todo /\ q.began = now /\ q.looked = r.looked /\ Shaped(q)
  BY <1>1, Fields
<1>4. now \in Nat /\ now <= now + FetchTime
  BY PriceSyncAssumption DEF PriceInv
<1>5. RequestOK(q, now)
  BY <1>3, <1>4 DEF RequestOK, RequestFits, Pcs
<1>6. sync' = [t \in Syncs |-> sync'[t]] /\ \A t \in Syncs : RequestOK(sync'[t], now')
  BY <1>2, <1>5, OneRequest
<1>7. RowsOK'
  BY DEF PriceInv, RowsOK
<1>8. QED BY <1>6, <1>7 DEF PriceInv

\* Listing a finite set in any order names each of its members, and no other.
LEMMA ListsAll ==
  ASSUME NEW S, IsFiniteSet(S), NEW q \in SetToSeqs(S)
  PROVE  q \in Seq(S) /\ ToSet(q) = S
<1> DEFINE n == Cardinality(S)
<1>1. n \in Nat
  BY FS_CardinalityType
<1>2. q \in [1..n -> S] /\ q \in Injection(1..n, S)
  BY DEF SetToSeqs, Injection, IsInjective
<1>3. IsFiniteSet(1..n) /\ Cardinality(1..n) = n
  BY <1>1, FS_Interval
<1>4. q \in Surjection(1..n, S)
  BY <1>2, <1>3, FS_Injection
<1>5. q \in Seq(S) /\ DOMAIN q = 1..n
  BY <1>1, <1>2
<1>6. QED BY <1>2, <1>4, <1>5 DEF Surjection, ToSet

LEMMA StartInv == ASSUME PriceInv, NEW s \in Syncs, Start(s) PROVE PriceInv'
<1>1. PICK positions \in SUBSET Mints :
        \E tokens \in SetToSeqs(positions),
           todo \in SetToSeqs({m \in positions : Lookup(m) = None}) :
        LET hit(i) == IF Lookup(tokens[i]) = None THEN None ELSE Lookup(tokens[i]).data
            r == [Idle EXCEPT !.tokens = tokens, !.looked = now,
                              !.results = [i \in DOMAIN tokens |-> hit(i)], !.todo = todo]
        IN  /\ Keeps(todo, tokens)
            /\ cache' = [m \in Mints |-> IF m \in positions THEN Lookup(m) ELSE cache[m]]
            /\ \/ /\ todo = <<>>
                  /\ Complete(s, r)
               \/ /\ todo # <<>>
                  /\ Send(s, r)
                  /\ UNCHANGED table
  BY DEF Start
<1> DEFINE missing == {m \in positions : Lookup(m) = None}
<1>2. PICK tokens \in SetToSeqs(positions), todo \in SetToSeqs(missing) :
        LET hit(i) == IF Lookup(tokens[i]) = None THEN None ELSE Lookup(tokens[i]).data
            r == [Idle EXCEPT !.tokens = tokens, !.looked = now,
                              !.results = [i \in DOMAIN tokens |-> hit(i)], !.todo = todo]
        IN  /\ Keeps(todo, tokens)
            /\ cache' = [m \in Mints |-> IF m \in positions THEN Lookup(m) ELSE cache[m]]
            /\ \/ /\ todo = <<>>
                  /\ Complete(s, r)
               \/ /\ todo # <<>>
                  /\ Send(s, r)
                  /\ UNCHANGED table
  BY <1>1
<1> DEFINE hit(i) == IF Lookup(tokens[i]) = None THEN None ELSE Lookup(tokens[i]).data
           results == [i \in DOMAIN tokens |-> hit(i)]
           r == [Idle EXCEPT !.tokens = tokens, !.looked = now,
                             !.results = results, !.todo = todo]
<1>3. now' = now /\ now \in Nat
  BY DEF Start, PriceInv
<1>4. CacheOK'
  <2>1. \A m \in Mints : cache'[m] \in {None, cache[m]}
    BY <1>2 DEF Lookup
  <2>2. QED BY <1>3, <2>1, EntriesKept DEF PriceInv
<1>5. IsFiniteSet(positions) /\ IsFiniteSet(missing)
  BY PriceSyncAssumption, FS_Subset
<1>6. /\ tokens \in Seq(positions) /\ ToSet(tokens) = positions
      /\ todo \in Seq(missing) /\ ToSet(todo) = missing
  BY <1>5, ListsAll
<1>7. /\ tokens \in Seq(Mints) /\ todo \in Seq(Mints)
      /\ \A i \in DOMAIN tokens : tokens[i] \in positions
  BY <1>6
<1>8. ResultsSound(tokens, results, now)
  <2> SUFFICES ASSUME NEW i \in DOMAIN tokens, hit(i) # None
               PROVE  Sound(hit(i), tokens[i], now)
    BY DEF ResultsSound
  <2> DEFINE m == tokens[i]
  <2>1. m \in Mints /\ cache[m] # None /\ ~Expired(m) /\ hit(i) = cache[m].data
    BY <1>7 DEF Lookup
  <2>2. EntryOK(m, cache[m], now)
    BY <2>1 DEF PriceInv, CacheOK
  <2>3. now - cache[m].ts <= TTL
    BY <1>3, <2>1, <2>2, PriceSyncAssumption DEF Expired, EntryOK
  <2>4. cache[m].data.at \in Nat /\ cache[m].ts \in Nat
    BY <2>2, DataAt DEF EntryOK
  <2>5. now - cache[m].data.at <= TTL + FetchTime
    BY <1>3, <2>2, <2>3, <2>4, PriceSyncAssumption DEF EntryOK
  <2>6. QED BY <2>1, <2>2, <2>5 DEF Sound, EntryOK
<1>9. NoneForgotten(tokens, results, todo)
  <2>1. ASSUME NEW i \in DOMAIN tokens, hit(i) = None PROVE tokens[i] \in missing
    <3>1. CASE Lookup(tokens[i]) = None
      BY <1>7, <3>1
    <3>2. CASE Lookup(tokens[i]) # None
      <4>1. tokens[i] \in Mints /\ cache[tokens[i]] # None /\ hit(i) = cache[tokens[i]].data
        BY <1>7, <3>2 DEF Lookup
      <4>2. cache[tokens[i]].data \in Data
        BY <4>1 DEF PriceInv, CacheOK, EntryOK
      <4>3. QED BY <2>1, <4>1, <4>2, PriceSyncAssumption
    <3>3. QED BY <3>1, <3>2
  <2>2. QED BY <1>6, <1>7, <2>1 DEF NoneForgotten
<1>10. RequestFits(r, now) /\ r.todo = todo
  <2> HIDE DEF results
  <2> DEFINE r1 == [Idle EXCEPT !.tokens = tokens]
             r2 == [r1 EXCEPT !.looked = now]
             r3 == [r2 EXCEPT !.results = results]
  <2>1. r = [r3 EXCEPT !.todo = todo]
    OBVIOUS
  <2>2. r1 = Request("idle", tokens, <<>>, <<>>, 0, 0)
    BY DEF Idle, Request
  <2> HIDE DEF r, r1
  <2>3. r2 = Request("idle", tokens, <<>>, <<>>, 0, now)
    BY <2>2 DEF Request
  <2> HIDE DEF r2
  <2>4. r3 = Request("idle", tokens, results, <<>>, 0, now)
    BY <2>3 DEF Request
  <2> HIDE DEF r3
  <2>5. r = Request("idle", tokens, results, todo, 0, now)
    BY <2>1, <2>4 DEF Request
  <2> HIDE DEF r
  <2>6. /\ r.pc = "idle" /\ r.tokens = tokens /\ r.results = results
        /\ r.todo = todo /\ r.looked = now /\ Shaped(r)
    BY <2>5, Fields
  <2>7. QED BY <1>3, <1>8, <1>9, <2>6 DEF RequestFits, Pcs
<1>11. (todo = <<>> /\ Complete(s, r)) \/ (todo # <<>> /\ Send(s, r) /\ table' = table)
  BY <1>2
<1> HIDE DEF r
<1>12. QED BY <1>3, <1>4, <1>10, <1>11, CompleteInv, SendInv

LEMMA CutInTwo ==
  ASSUME NEW S, NEW q \in Seq(S), NEW k \in 0..Len(q)
  PROVE  Len(SubSeq(q, 1, k)) = k /\ SubSeq(q, k + 1, Len(q)) \in Seq(S)
<1>1. Len(SubSeq(q, 1, k)) = k
  OBVIOUS
<1>2. SubSeq(q, k + 1, Len(q)) \in Seq(S)
  BY SubSeqProperties
<1>3. QED BY <1>1, <1>2

LEMMA AnsweredInv == ASSUME PriceInv, NEW s \in Syncs, Answered(s) PROVE PriceInv'
<1> DEFINE q == sync[s]
           batch == ToSet(Batch(q))
<1>1. PICK answers \in [batch -> Data] :
        /\ \A m \in DOMAIN answers :
             answers[m].mint = m /\ answers[m].at \in q.began..now
        /\ cache' = [m \in Mints |-> IF m \in DOMAIN answers
                                     THEN [data |-> answers[m], ts |-> now] ELSE cache[m]]
        /\ LET r == [q EXCEPT !.results = Placed(q, answers), !.todo = Rest(q)]
           IN  \/ ~MoreBatches(r) /\ Complete(s, r)
               \/ /\ MoreBatches(r)
                  /\ sync' = [sync EXCEPT ![s] = [r EXCEPT !.pc = "pausing"]]
                  /\ UNCHANGED table
  BY DEF Answered
<1> DEFINE r == [q EXCEPT !.results = Placed(q, answers), !.todo = Rest(q)]
<1>2. /\ now' = now /\ now \in Nat /\ RequestOK(q, now) /\ q.pc = "fetching"
  BY DEF Answered, PriceInv
<1>3. /\ q.began \in Nat /\ q.looked \in Nat /\ q.looked <= q.began
      /\ now <= q.began + FetchTime
  BY <1>2 DEF RequestOK, RequestFits
<1> HIDE DEF q, batch
<1>4. ASSUME NEW m \in batch
      PROVE  /\ answers[m] \in Data /\ answers[m].mint = m /\ answers[m].at \in Nat
             /\ q.began <= answers[m].at
  BY <1>1, <1>2, <1>3, DataAt
<1>5. CacheOK'
  <2> SUFFICES ASSUME NEW m \in Mints, cache'[m] # None
               PROVE  EntryOK(m, cache'[m], now')
    BY DEF CacheOK
  <2>1. CASE m \in batch
    <3>1. cache'[m] = [data |-> answers[m], ts |-> now]
      BY <1>1, <2>1
    <3>2. now - answers[m].at <= FetchTime
      BY <1>2, <1>3, <1>4, <2>1, PriceSyncAssumption
    <3>3. QED BY <1>2, <1>4, <2>1, <3>1, <3>2 DEF EntryOK
  <2>2. CASE m \notin batch
    BY <1>1, <1>2, <2>2 DEF PriceInv, CacheOK
  <2>3. QED BY <2>1, <2>2
<1>6. ResultsSound(q.tokens, Placed(q, answers), q.looked)
  <2> SUFFICES ASSUME NEW i \in DOMAIN q.results, Placed(q, answers)[i] # None
               PROVE  Sound(Placed(q, answers)[i], q.tokens[i], q.looked)
    BY DEF ResultsSound, Placed
  <2>1. CASE q.tokens[i] \in batch
    <3>1. Placed(q, answers)[i] = answers[q.tokens[i]]
      BY <2>1 DEF Placed, batch
    <3>2. q.looked - answers[q.tokens[i]].at <= TTL + FetchTime
      BY <1>3, <1>4, <2>1, PriceSyncAssumption
    <3>3. QED BY <1>4, <2>1, <3>1, <3>2 DEF Sound
  <2>2. CASE q.tokens[i] \notin batch
    BY <1>2, <2>2 DEF Placed, RequestOK, RequestFits, ResultsSound, batch
  <2>3. QED BY <2>1, <2>2
<1>7. NoneForgotten(q.tokens, Placed(q, answers), Rest(q))
  <2>1. NoneForgotten(q.tokens, q.results, q.todo)
    BY <1>2 DEF RequestOK, RequestFits
  <2>2. PICK k \in 0..Len(q.todo) : Batch(q) = SubSeq(q.todo, 1, k)
    BY <2>1, PriceSyncAssumption DEF Batch, NoneForgotten
  <2>3. /\ Len(Batch(q)) = k /\ Rest(q) = SubSeq(q.todo, k + 1, Len(q.todo))
        /\ Rest(q) \in Seq(Mints)
    BY <2>1, <2>2, CutInTwo DEF Rest, NoneForgotten
  <2>4. ToSet(Rest(q)) \subseteq ToSet(q.todo)
    <3> SUFFICES ASSUME NEW j \in DOMAIN Rest(q) PROVE Rest(q)[j] \in ToSet(q.todo)
      BY DEF ToSet
    <3>1. j \in Nat /\ j + k \in DOMAIN q.todo /\ Rest(q)[j] = q.todo[j + k]
      BY <2>1, <2>2, <2>3 DEF NoneForgotten
    <3>2. QED BY <3>1 DEF ToSet
  <2>5. ToSet(q.todo) \subseteq batch \cup ToSet(Rest(q))
    <3> SUFFICES ASSUME NEW j \in 1..Len(q.todo)
                 PROVE  q.todo[j] \in batch \cup ToSet(Rest(q))
      BY <2>1 DEF ToSet, NoneForgotten
    <3>1. CASE j <= k
      <4>1. j \in DOMAIN Batch(q) /\ Batch(q)[j] = q.todo[j]
        BY <2>1, <2>2, <3>1 DEF NoneForgotten
      <4>2. QED BY <4>1 DEF batch, ToSet
    <3>2. CASE j > k
      <4>1. j - k \in DOMAIN Rest(q) /\ Rest(q)[j - k] = q.todo[j]
        BY <2>1, <2>2, <2>3, <3>2 DEF NoneForgotten
      <4>2. QED BY <4>1 DEF ToSet
    <3>3. QED BY <2>2, <3>1, <3>2
  <2>6. ASSUME NEW i \in DOMAIN q.results, Placed(q, answers)[i] = None
        PROVE  q.tokens[i] \in ToSet(Rest(q))
    <3>1. q.tokens[i] \notin batch
      <4>1. CASE q.tokens[i] \in batch
        <5>1. Placed(q, answers)[i] = answers[q.tokens[i]]
          BY <4>1 DEF Placed, batch
        <5>2. QED BY <1>4, <2>6, <4>1, <5>1, PriceSyncAssumption
      <4>2. QED BY <4>1
    <3>2. q.results[i] = None
      BY <2>6, <3>1 DEF Placed, batch
    <3>3. QED BY <2>1, <2>5, <3>1, <3>2 DEF NoneForgotten
  <2>7. DOMAIN Placed(q, answers) = DOMAIN q.results
    BY DEF Placed
  <2>8. QED BY <2>1, <2>3, <2>4, <2>6, <2>7 DEF NoneForgotten
<1>8. /\ r = Request(q.pc, q.tokens, Placed(q, answers), Rest(q), q.began, q.looked)
      /\ [r EXCEPT !.pc = "pausing"]
           = Request("pausing", q.tokens, Placed(q, answers), Rest(q), q.began, q.looked)
  <2>1. q = Request(q.pc, q.tokens, q.results, q.todo, q.began, q.looked)
    BY <1>2 DEF RequestOK, RequestFits, Shaped
  <2> DEFINE r1 == [q EXCEPT !.results = Placed(q, answers)]
  <2>2. r1 = Request(q.pc, q.tokens, Placed(q, answers), q.todo, q.began, q.looked)
    BY <2>1 DEF Request
  <2>3. r = [r1 EXCEPT !.todo = Rest(q)]
    OBVIOUS
  <2> HIDE DEF r, r1
  <2>4. r = Request(q.pc, q.tokens, Placed(q, answers), Rest(q), q.began, q.looked)
    BY <2>2, <2>3 DEF Request
  <2>5. QED BY <2>4 DEF Request
<1>9. ASSUME NEW pc \in {q.pc, "pausing"}, NEW x,
             x = Request(pc, q.tokens, Placed(q, answers), Rest(q), q.began, q.looked)
      PROVE  RequestFits(x, now) /\ x.pc = pc /\ x.todo = Rest(q)
  <2>1. /\ x.pc = pc /\ x.tokens = q.tokens /\ x.results = Placed(q, answers)
        /\ x.todo = Rest(q) /\ x.began = q.began /\ x.looked = q.looked /\ Shaped(x)
    BY <1>9, Fields
  <2>2. QED BY <1>2, <1>6, <1>7, <2>1 DEF Pcs, RequestOK, RequestFits
<1>10. CASE ~MoreBatches(r) /\ Complete(s, r)
  <2>1. RequestFits(r, now) /\ r.todo = <<>> BY <1>8, <1>9, <1>10 DEF MoreBatches
  <2> HIDE DEF r
  <2>2. QED BY <1>2, <1>5, <1>10, <2>1, CompleteInv
<1>11. CASE MoreBatches(r) /\ sync' = [sync EXCEPT ![s] = [r EXCEPT !.pc = "pausing"]] /\ table' = table
  <2>1. RequestOK([r EXCEPT !.pc = "pausing"], now)
    <3>1. r.todo = Rest(q) /\ Rest(q) # <<>> BY <1>8, <1>9, <1>11 DEF MoreBatches
    <3> HIDE DEF r
    <3>2. QED BY <1>8, <1>9, <3>1 DEF RequestOK
  <2> HIDE DEF r
  <2>2. sync' = [t \in Syncs |-> sync'[t]] /\ \A t \in Syncs : RequestOK(sync'[t], now')
    BY <1>2, <1>11, <2>1, OneRequest
  <2>3. RowsOK'
    BY <1>11 DEF PriceInv, RowsOK
  <2>4. QED BY <1>2, <1>5, <2>2, <2>3 DEF PriceInv
<1>12. QED BY <1>1, <1>10, <1>11

LEMMA PriceNext == PriceInv /\ [Next]_vars => PriceInv'
<1> SUFFICES ASSUME PriceInv, [Next]_vars PROVE PriceInv'
  OBVIOUS
<1>0. now \in Nat BY DEF PriceInv
<1>1. CASE Tick
  <2>1. now' = now + 1 /\ cache' = cache /\ sync' = sync /\ table' = table
    BY <1>1 DEF Tick
  <2>2. now' \in 0..MaxTime
    BY <1>0, <1>1, PriceSyncAssumption DEF Tick
  <2>3. CacheOK'
    BY <1>0, <2>1, EntriesKept DEF PriceInv
  <2>4. ASSUME NEW s \in Syncs PROVE RequestOK(sync[s], now + 1)
    <3>1. RequestOK(sync[s], now) BY DEF PriceInv
    <3>2. sync[s].pc = "fetching" => now < sync[s].began + FetchTime
      BY <1>1 DEF Tick
    <3>3. QED BY <1>0, <3>1, <3>2, PriceSyncAssumption DEF RequestOK, RequestFits
  <2>5. RowsOK' BY <2>1 DEF PriceInv, RowsOK
  <2>6. QED BY <2>2, <2>1, <2>3, <2>4, <2>5 DEF PriceInv
<1>2. CASE CleanUp
  <2>1. now' = now /\ sync' = sync /\ table' = table
    BY <1>2 DEF CleanUp
  <2>2. \A m \in Mints : cache'[m] \in {None, cache[m]}
    BY <1>2 DEF CleanUp, Lookup
  <2>3. CacheOK'
    BY <1>0, <2>1, <2>2, EntriesKept DEF PriceInv
  <2>4. RowsOK' BY <2>1 DEF PriceInv, RowsOK
  <2>5. QED BY <2>1, <2>3, <2>4 DEF PriceInv
<1>3. ASSUME NEW s \in Syncs, PositionsFail(s) PROVE PriceInv'
  <2> DEFINE q == [sync[s] EXCEPT !.pc = "failed"]
  <2>1. /\ now' = now /\ cache' = cache /\ table' = table
        /\ sync' = [sync EXCEPT ![s] = q]
    BY <1>3 DEF PositionsFail
  <2>2. RequestOK(sync[s], now) BY DEF PriceInv
  <2>3. q = Request("failed", sync[s].tokens, sync[s].results, sync[s].todo,
                    sync[s].began, sync[s].looked)
    <3>1. sync[s] = Request(sync[s].pc, sync[s].tokens, sync[s].results, sync[s].todo,
                            sync[s].began, sync[s].looked)
      BY <2>2 DEF RequestOK, RequestFits, Shaped
    <3>2. QED BY <3>1 DEF Request
  <2> HIDE DEF q
  <2>4. /\ q.pc = "failed" /\ q.tokens = sync[s].tokens /\ q.results = sync[s].results
        /\ q.todo = sync[s].todo
        /\ q.looked = sync[s].looked /\ Shaped(q)
    BY <2>3, Fields
  <2>5. RequestOK(q, now) BY <2>2, <2>4 DEF RequestOK, RequestFits, Pcs
  <2>6. sync' = [t \in Syncs |-> sync'[t]] /\ \A t \in Syncs : RequestOK(sync'[t], now')
    BY <2>1, <2>5, OneRequest
  <2>7. CacheOK' /\ RowsOK' BY <2>1 DEF PriceInv, CacheOK, RowsOK
  <2>8. QED BY <2>1, <2>6, <2>7 DEF PriceInv
<1>4. ASSUME NEW s \in Syncs, Resume(s) PROVE PriceInv'
  <2>1. now' = now /\ cache' = cache /\ table' = table /\ Send(s, sync[s])
    BY <1>4 DEF Resume
  <2>2. CacheOK' /\ RequestFits(sync[s], now) /\ sync[s].todo # <<>>
    BY <1>4, <2>1 DEF PriceInv, CacheOK, RequestOK, Resume
  <2>3. QED BY <2>1, <2>2, SendInv
<1>5. CASE UNCHANGED vars
  BY <1>5 DEF vars, PriceInv, CacheOK, RowsOK
<1>6. QED BY <1>1, <1>2, <1>3, <1>4, <1>5, StartInv, AnsweredInv DEF Next

\* The inductive invariant: cached entries are young answers for their mint,
\* results stand at the place of their token and were fresh when looked up.
THEOREM PricesInvariant == Spec => []PriceInv
<1>1. QED BY PriceInit, PriceNext, PTL DEF Spec

\* Whatever was cached, answered in batches or expired in between, a row of the
\* table holds the price of the token it names (DexScreenerClient.py:71).
THEOREM PricesMatchTokens == Spec => []RowMatchesToken
<1>1. PriceInv => RowMatchesToken
  BY DEF PriceInv, RowsOK, RowMatchesToken
<1>2. QED BY PricesInvariant, <1>1, PTL

\* No price in the table was older than the cache allows when it was looked up
\* (cache.py:35).
THEOREM PricesAreFresh == Spec => []WrittenIsFresh
<1>1. PriceInv => WrittenIsFresh
  BY DEF PriceInv, RowsOK, WrittenIsFresh
<1>2. QED BY PricesInvariant, <1>1, PTL

\* No batch is forgotten, whatever their size: when the prices are built every
\* token has an answer (DexScreenerClient.py:56).
THEOREM EveryTokenIsAnswered == Spec => []EveryTokenAnswered
<1>1. ASSUME NEW s \in Syncs, RequestOK(sync[s], now), sync[s].pc = "done"
      PROVE  None \notin ToSet(sync[s].results)
  BY <1>1 DEF RequestOK, RequestFits, NoneForgotten, ToSet
<1>2. PriceInv => EveryTokenAnswered
  BY <1>1 DEF PriceInv, EveryTokenAnswered
<1>3. QED BY PricesInvariant, <1>2, PTL

\* Clock, cache and requests keep their types, and what is asked for is among the
\* tokens of the request.
THEOREM PricesTypeCorrect == Spec => []TypeOK
<1>0. ASSUME NEW m, NEW e, NEW t \in Nat, EntryOK(m, e, t)
      PROVE  e \in [data : Data, ts : 0..t]
  <2>1. e.data \in Data /\ e.ts \in 0..t
    BY <1>0 DEF EntryOK
  <2>2. [data |-> e.data, ts |-> e.ts] \in [data : Data, ts : 0..t]
    BY <2>1
  <2>3. QED BY <1>0, <2>2 DEF EntryOK
<1>1. ASSUME PriceInv, NEW m \in Mints, cache[m] # None
      PROVE  cache[m] \in [data : Data, ts : 0..now]
  BY <1>0, <1>1 DEF PriceInv, CacheOK
<1>2. ASSUME NEW s \in Syncs, RequestOK(sync[s], now)
      PROVE  /\ sync[s].pc \in Pcs
             /\ \A i \in DOMAIN sync[s].results : sync[s].results[i] \in Data \cup {None}
             /\ ToSet(sync[s].todo) \subseteq ToSet(sync[s].tokens)
             /\ sync[s].pc \in {"fetching", "pausing"} => sync[s].todo # <<>>
  BY <1>2 DEF RequestOK, RequestFits, ResultsSound, Sound, NoneForgotten
<1>3. PriceInv => TypeOK
  BY <1>1, <1>2 DEF PriceInv, TypeOK, Pcs
<1>4. QED BY PricesInvariant, <1>3, PTL
=============================================================================
