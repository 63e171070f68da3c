------------------------------ MODULE PriceSync ------------------------------
(***************************************************************************)
(* The token price sync: requests to POST /sync/token-prices, each with a  *)
(* TokenPriceSyncService and clients of its own; the token_cache that the  *)
(* DexScreener clients of all requests share; and the clean-up route.      *)
(* BigQuery and the two price APIs are external: they answer or fail.      *)
(*                                                                         *)
(* A request gives way to the others only while it waits for the answers   *)
(* of a batch and in the pause between two batches: the lock of the cache  *)
(* is never held across an await, and the BigQuery calls block.            *)
(*                                                                         *)
(* Operators named <definition>_<fault> are faulty variants that no        *)
(* specification uses; they show that the properties can fail.             *)
(***************************************************************************)
EXTENDS Integers, FiniteSets, SequencesExt

CONSTANTS
  Mints,       \* Solana token addresses
  Syncs,       \* requests
  BatchSize,   \* batch_size
  TTL,         \* default_ttl
  FetchTime,   \* external: the longest a batch waits for its slowest answer
  MaxTime,     \* bound: the clock
  None

\* What DexScreener says of a mint, and when.  "error" also stands for a token
\* without pairs; "odd" for a pair with a null where the service wants a number.
Data == [mint : Mints, kind : {"priced", "error", "odd"}, at : 0..MaxTime]

ASSUME PriceSyncAssumption ==
  /\ BatchSize \in Nat \ {0}
  /\ TTL \in Nat /\ FetchTime \in Nat /\ MaxTime \in Nat
  /\ IsFiniteSet(Mints) /\ None \notin Mints \cup Data

VARIABLES
  now,
  cache,   \* per mint: None or [data, ts]
  sync,    \* per request: [pc, tokens, results, todo, began, looked]
  table    \* coin_prices: rows [sync, token, data, looked]

vars == <<now, cache, sync, table>>

Idle == [pc |-> "idle", tokens |-> <<>>, results |-> <<>>,
         todo |-> <<>>, began |-> 0, looked |-> 0]

Init ==
  /\ now = 0
  /\ cache = [m \in Mints |-> None]
  /\ sync = [s \in Syncs |-> Idle]
  /\ table = {}

-----------------------------------------------------------------------------
(* TokenDataCache *)

Expired_Never(m) == FALSE

Expired(m) == cache[m] # None /\ now - cache[m].ts > TTL

\* get: an expired entry is removed when it is looked up.
Lookup(m) == IF Expired(m) THEN None ELSE cache[m]

CleanUp ==
  /\ cache' = [m \in Mints |-> Lookup(m)]
  /\ UNCHANGED <<now, sync, table>>

-----------------------------------------------------------------------------
(* TokenPriceSyncService *)

\* One null among the pairs and the list of Solana prices is empty.
OfKind(r, kind) ==
  {i \in DOMAIN r.results : r.results[i] # None /\ r.results[i].kind = kind}

SolanaPrices(s, r) ==
  IF OfKind(r, "odd") # {} THEN {}
  ELSE {[sync |-> s, token |-> r.tokens[i], data |-> r.results[i], looked |-> r.looked] :
          i \in OfKind(r, "priced")}

\* get_prices is a coroutine that nobody awaits: .items() of it raises, the
\* exception is caught, the list of prices is empty and nobody was asked.
HyperliquidPrices(r) == {}

\* write_coin_prices: nothing to do without rows, else one insert.  It may fail,
\* and also raise though the rows are there, when only the reply is lost.
Write(s, r, rows) ==
  \/ /\ table' = table \cup rows
     /\ sync' = [sync EXCEPT ![s] = [r EXCEPT !.pc = "done"]]
  \/ /\ rows # {}
     /\ table' \in {table, table \cup rows}
     /\ sync' = [sync EXCEPT ![s] = [r EXCEPT !.pc = "failed"]]

\* With every batch answered, prices are built and written without a pause.
Complete(s, r) == Write(s, r, SolanaPrices(s, r) \cup HyperliquidPrices(r))

\* A batch of requests is sent.
Batch(r) == SubSeq(r.todo, 1, IF Len(r.todo) < BatchSize THEN Len(r.todo) ELSE BatchSize)

Send(s, r) ==
  sync' = [sync EXCEPT ![s] = [r EXCEPT !.pc = "fetching", !.began = now]]

\* todo holds the tokens that were not found, in the order they stand in tokens.
Keeps(todo, tokens) ==
  \A i, j \in DOMAIN tokens, a, b \in DOMAIN todo :
    tokens[i] = todo[a] /\ tokens[j] = todo[b] /\ i < j => a < b

\* The positions are read, the tokens collected and looked up in the cache.
Start(s) ==
  /\ sync[s].pc = "idle"
  /\ \E positions \in SUBSET Mints :
       \E tokens \in SetToSeqs(positions),
          todo \in SetToSeqs({m \in positions : Lookup(m) = None}) :
         LET hit(i) == IF Lookup(tokens[i]) = None THEN None ELSE Lookup(tokens[i]).data
             r == [Idle EXCEPT !.tokens = tokens, !.looked = now,
                               !.results = [i \in DOMAIN tokens |-> hit(i)], !.todo = todo]
         IN  /\ Keeps(todo, tokens)
             /\ cache' = [m \in Mints |-> IF m \in positions THEN Lookup(m) ELSE cache[m]]
             /\ \/ /\ todo = <<>>
                   /\ Complete(s, r)
                \/ /\ todo # <<>>
                   /\ Send(s, r)
                   /\ UNCHANGED table
  /\ UNCHANGED now

PositionsFail(s) ==
  /\ sync[s].pc = "idle"
  /\ sync' = [sync EXCEPT ![s].pc = "failed"]
  /\ UNCHANGED <<now, cache, table>>

\* Every request of the batch has answered or failed.  A failure is a result as
\* good as any: it is cached, and the loop of retries around the batch is over.
Placed_InOrder(r, answers) ==
  [i \in DOMAIN r.results |->
     IF i <= Len(Batch(r)) THEN answers[Batch(r)[i]] ELSE r.results[i]]

Placed(r, answers) ==
  [i \in DOMAIN r.results |->
     IF r.tokens[i] \in ToSet(Batch(r)) THEN answers[r.tokens[i]] ELSE r.results[i]]

Rest_DropsLast(r) ==
  IF Len(r.todo) - Len(Batch(r)) <= BatchSize THEN <<>>
  ELSE SubSeq(r.todo, Len(Batch(r)) + 1, Len(r.todo))

Rest(r) == SubSeq(r.todo, Len(Batch(r)) + 1, Len(r.todo))

MoreBatches_Always(r) == TRUE

MoreBatches(r) == r.todo # <<>>

Answered(s) ==
  /\ sync[s].pc = "fetching"
  /\ \E answers \in [ToSet(Batch(sync[s])) -> Data] :
       /\ \A m \in DOMAIN answers :
            answers[m].mint = m /\ answers[m].at \in sync[s].began..now
       /\ cache' = [m \in Mints |-> IF m \in DOMAIN answers
                                    THEN [data |-> answers[m], ts |-> now] ELSE cache[m]]
       /\ LET r == [sync[s] EXCEPT !.results = Placed(sync[s], answers),
                                   !.todo = Rest(sync[s])]
          IN  \/ ~MoreBatches(r) /\ Complete(s, r)
              \/ /\ MoreBatches(r)
                 /\ sync' = [sync EXCEPT ![s] = [r EXCEPT !.pc = "pausing"]]
                 /\ UNCHANGED table
  /\ UNCHANGED now

\* The pause between two batches is over.
Resume(s) ==
  /\ sync[s].pc = "pausing"
  /\ Send(s, sync[s])
  /\ UNCHANGED <<now, cache, table>>

Tick ==
  /\ now < MaxTime
  /\ \A s \in Syncs : sync[s].pc = "fetching" => now < sync[s].began + FetchTime
  /\ now' = now + 1
  /\ UNCHANGED <<cache, sync, table>>

Next ==
  \/ Tick \/ CleanUp
  \/ \E s \in Syncs : Start(s) \/ PositionsFail(s) \/ Answered(s) \/ Resume(s)

Spec == Init /\ [][Next]_vars
-----------------------------------------------------------------------------
TypeOK ==
  /\ now \in 0..MaxTime
  /\ \A m \in Mints : cache[m] # None => cache[m] \in [data : Data, ts : 0..now]
  /\ \A s \in Syncs :
       /\ sync[s].pc \in {"idle", "fetching", "pausing", "done", "failed"}
       /\ \A i \in DOMAIN sync[s].results : sync[s].results[i] \in Data \cup {None}
       /\ ToSet(sync[s].todo) \subseteq ToSet(sync[s].tokens)
       /\ sync[s].pc \in {"fetching", "pausing"} => sync[s].todo # <<>>

\* Results come back in batches and are put back among those found in the cache
\* by the place of their mint: whatever was cached, a row holds the price of the
\* token it names.
RowMatchesToken == \A row \in table : row.data.mint = row.token

\* No batch is forgotten: when the prices are built every token has its answer.
EveryTokenAnswered ==
  \A s \in Syncs : sync[s].pc = "done" => None \notin ToSet(sync[s].results)

\* A price that is written was given by DexScreener at most TTL seconds and one
\* batch before the request: the entry is as old as the end of its batch.
WrittenIsFresh == \A row \in table : row.looked - row.data.at <= TTL + FetchTime
=============================================================================
