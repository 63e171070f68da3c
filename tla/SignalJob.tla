------------------------------ MODULE SignalJob ------------------------------
(***************************************************************************)
(* The signal job of pa_engine and its copy in price_action: run_once takes *)
(* one symbol after the other, fetches its candles, computes the features,  *)
(* asks the policy and has the risk manager build a trade.  The two differ  *)
(* in what they do when something fails or is missing, so the module has    *)
(* both, and `app' says which one runs.  Both can be run once (main);       *)
(* pa_engine also has a scheduler, which repeats the job.                   *)
(*                                                                          *)
(* The exchange, pandas and pandas_ta are external.  Prices are in half     *)
(* ticks and the ATR in ticks, so that half an ATR is an integer; leverage  *)
(* is in halves.                                                            *)
(*                                                                          *)
(* Operators named <definition>_<fault> are faulty variants of the          *)
(* definition that follows them; no specification uses them.                *)
(***************************************************************************)
EXTENDS Integers

CONSTANTS
  NumSymbols,     \* symbols of the configuration
  Markets,        \* what the exchange may have on a symbol, see below
  DefaultPasses,  \* price_action: conditions whose default value meets the thresholds
  SlMult,         \* sl_atr_mult of each of the two, in halves
  TpRr,           \* tp_rr
  MaxDistPct,     \* max_distance_to_support_pct, in percent
  MinLeverage, MaxLeverage

Apps == {"pa_engine", "price_action"}
Symbols == 1..NumSymbols

\* The conditions of the policy that are not about prices.
Conditions == {"trend", "rsi", "volume", "obv"}

\* feed: "full", "short" (fewer than 220 candles), "down" (the call raises),
\* "garbled" (no list of numbers), "holey" (a candle without its low).
\* bad, nan: conditions not met, and those whose column has no value in the last
\* row (the RSI of a price that stands still, the volume over a median of zero),
\* the columns of support and ATR included.
\* breaks: computing the features or the trade raises.
Market == [feed : {"full", "short", "down", "garbled", "holey"},
           close : Nat \ {0}, support : Nat, atr : Nat,
           bad : SUBSET Conditions, nan : SUBSET (Conditions \cup {"support", "atr"}),
           breaks : BOOLEAN]

ASSUME SignalJobAssumption ==
  /\ NumSymbols \in Nat \ {0}
  /\ Markets \subseteq Market
  /\ \A m \in Markets : 0 < m.support /\ m.support <= m.close
  /\ DefaultPasses \subseteq Conditions
  /\ SlMult \in [Apps -> Nat \ {0}] /\ TpRr \in Nat \ {0} /\ MaxDistPct \in Nat
  /\ MinLeverage \in Nat \ {0} /\ MaxLeverage \in Nat /\ MinLeverage <= MaxLeverage

VARIABLES
  app,
  phase,      \* "running", "sleeping" (between two runs), "over", "aborted"
  next,       \* the symbol whose turn it is
  recs,       \* recommendations: symbol -> trade, for the symbols that have one
  market      \* history: what the exchange had, per symbol of this run

vars == <<app, phase, next, recs, market>>

NoMarket == [feed |-> "none"]
NoTrade == [entry |-> 0]

Init ==
  /\ app \in Apps
  /\ phase = "running"
  /\ next = 1
  /\ recs = [s \in Symbols |-> NoTrade]
  /\ market = [s \in Symbols |-> NoMarket]

-----------------------------------------------------------------------------
(* One symbol *)

\* fetch_recent_candles.  pa_engine's client turns every error into an empty
\* list; price_action's raises, except that it reads a missing field as zero.  It
\* asks the SDK for candle_snapshot, pa_engine's for candles_snapshot; if the SDK has
\* only the latter, as its use elsewhere suggests, price_action's raises always, and
\* "full", "short" and "holey" are here for the day it is corrected.
FetchedByEngine(m) == IF m.feed \in {"full", "short"} THEN m.feed ELSE "empty"

FetchedByPriceAction(m) ==
  CASE m.feed \in {"full", "short"} -> m.feed
    [] m.feed = "holey"             -> "full"
    [] OTHER                        -> "raises"

Fetched(m) == IF app = "pa_engine" THEN FetchedByEngine(m) ELSE FetchedByPriceAction(m)

\* The support found in the candles: the lowest low, a missing one included.
Support(m) == IF m.feed = "holey" \/ "support" \in m.nan THEN 0 ELSE m.support

Atr(m) == IF "atr" \in m.nan THEN 0 ELSE m.atr

\* build_feature_from_df: pa_engine wants every column, price_action puts
\* default values in the place of those that are missing (zero for support and ATR).
Complete(m) == app = "price_action" \/ m.nan = {}

Met(m, condition) ==
  IF condition \in m.nan THEN condition \in DefaultPasses ELSE condition \notin m.bad

\* should_enter_long: price_action does not ask for the distance if there is no
\* support above zero.
NearSupport(m) ==
  \/ app = "price_action" /\ Support(m) = 0
  \/ (m.close - Support(m)) * 100 <= MaxDistPct * m.close

ShouldEnterLong(m) == NearSupport(m) /\ \A condition \in Conditions : Met(m, condition)

\* build_trade
StopLoss_NoFallback(m) == Support(m) - SlMult[app] * Atr(m)

StopLoss(m) ==
  IF app = "price_action" /\ Support(m) = 0 THEN m.close - SlMult[app] * Atr(m)
                                            ELSE Support(m) - SlMult[app] * Atr(m)

\* atr / close below one and two percent; the ATR is in ticks.
Leverage_Scaled(m) == (MaxLeverage * m.close) \div (200 * (Atr(m) + 1))

Leverage(m) ==
  CASE 200 * Atr(m) < m.close -> MaxLeverage
    [] 100 * Atr(m) < m.close -> IF MaxLeverage \div 2 > MinLeverage
                                 THEN MaxLeverage \div 2 ELSE MinLeverage
    [] OTHER                  -> MinLeverage

BuildTrade(m) ==
  LET risk == m.close - StopLoss(m)
  IN  [entry |-> m.close, stop |-> StopLoss(m), target |-> m.close + TpRr * risk,
       leverage |-> Leverage(m)]

-----------------------------------------------------------------------------
(* run_once *)

Fetch(m) ==
  /\ phase = "running" /\ next \in Symbols
  /\ market' = [market EXCEPT ![next] = m]
  /\ UNCHANGED app

Continue == next' = next + 1 /\ UNCHANGED phase

\* Too few candles, or an error of the exchange that the client (pa_engine) or
\* the job (price_action) swallows.
Skip_EndsRun(m) ==
  /\ Fetch(m)
  /\ Fetched(m) # "full"
  /\ IF Fetched(m) = "raises" THEN next' = NumSymbols + 1 /\ UNCHANGED phase ELSE Continue
  /\ UNCHANGED recs

Skip(m) ==
  /\ Fetch(m)
  /\ Fetched(m) # "full"
  /\ Continue
  /\ UNCHANGED recs

Recommend(m) ==
  /\ Fetch(m)
  /\ Fetched(m) = "full" /\ ~m.breaks
  /\ Complete(m) /\ ShouldEnterLong(m)
  /\ recs' = [recs EXCEPT ![next] = BuildTrade(m)]
  /\ Continue

Decline(m) ==
  /\ Fetch(m)
  /\ Fetched(m) = "full" /\ ~m.breaks
  /\ ~(Complete(m) /\ ShouldEnterLong(m))
  /\ Continue
  /\ UNCHANGED recs

\* An exception on the way from candles to trade: price_action prints it and goes
\* on; in pa_engine nobody catches it, and the run, its recommendations and the
\* scheduler are gone.
Raise(m) ==
  /\ Fetch(m)
  /\ Fetched(m) = "full" /\ m.breaks
  /\ \/ /\ app = "price_action"
        /\ Continue
        /\ UNCHANGED recs
     \/ /\ app = "pa_engine"
        /\ phase' = "aborted"
        /\ recs' = [s \in Symbols |-> NoTrade]
        /\ UNCHANGED next

\* run_once returns and the recommendations are printed; main is done, the
\* scheduler of pa_engine sleeps until the next run.
Report ==
  /\ phase = "running" /\ next > NumSymbols
  /\ \/ phase' = "over"
     \/ app = "pa_engine" /\ phase' = "sleeping"
  /\ UNCHANGED <<app, next, recs, market>>

\* run_scheduler
WakeUp ==
  /\ phase = "sleeping"
  /\ phase' = "running"
  /\ next' = 1
  /\ recs' = [s \in Symbols |-> NoTrade]
  /\ market' = [s \in Symbols |-> NoMarket]
  /\ UNCHANGED app

Next ==
  \/ \E m \in Markets : Skip(m) \/ Recommend(m) \/ Decline(m) \/ Raise(m)
  \/ Report \/ WakeUp

Spec == Init /\ [][Next]_vars

-----------------------------------------------------------------------------
Recommended == {s \in Symbols : recs[s] # NoTrade}

\* Trades have their stop below the entry and their target above it, unless the ATR
\* is zero or was missing: then all three may be one price, a trade without risk or
\* reward that the code recommends all the same.
TypeOK ==
  /\ app \in Apps
  /\ phase \in {"running", "sleeping", "over", "aborted"}
  /\ next \in 1..(NumSymbols + 1)
  /\ market \in [Symbols -> Markets \cup {NoMarket}]
  /\ \A s \in Recommended :
       /\ recs[s].stop <= recs[s].entry /\ recs[s].entry <= recs[s].target
       /\ recs[s].stop = recs[s].entry => Atr(market[s]) = 0
       /\ recs[s].leverage \in MinLeverage..MaxLeverage

\* Each symbol is looked at and judged on its own market: whatever failed, was
\* missing or was skipped for the others, a run that reports has exactly the trades
\* its symbols deserve; and no failure of the exchange, only an exception in pa_engine's own
\* computations, ends a run without a report.
Deserves(m) ==
  /\ m.feed = "full" \/ (app = "price_action" /\ m.feed = "holey")
  /\ ~m.breaks
  /\ app = "pa_engine" => m.nan = {}
  /\ ShouldEnterLong(m)

ReportIsExact ==
  /\ phase \in {"sleeping", "over"} =>
       \A s \in Symbols :
         /\ market[s] \in Markets
         /\ recs[s] = IF Deserves(market[s]) THEN BuildTrade(market[s]) ELSE NoTrade
  /\ phase = "aborted" =>
       app = "pa_engine" /\ \E s \in Symbols : market[s].feed = "full" /\ market[s].breaks

\* The inductive invariant behind ReportIsExact: the symbols done with have what
\* they deserve, the others nothing yet.
Due == [m \in Markets |-> IF Deserves(m) THEN BuildTrade(m) ELSE NoTrade]

JobInv ==
  /\ app \in Apps
  /\ phase \in {"running", "sleeping", "over", "aborted"}
  /\ next \in 1..(NumSymbols + 1)
  /\ market \in [Symbols -> Markets \cup {NoMarket}]
  /\ recs \in [Symbols -> {NoTrade} \cup {Due[m] : m \in Markets}]
  /\ phase \in {"sleeping", "over"} => next = NumSymbols + 1
  /\ phase = "aborted" =>
       /\ app = "pa_engine" /\ \E s \in Symbols : market[s].feed = "full" /\ market[s].breaks
       /\ \A s \in Symbols : recs[s] = NoTrade
  /\ phase # "aborted" => \A s \in Symbols :
       /\ s < next => market[s] \in Markets /\ recs[s] = Due[market[s]]
       /\ s >= next => recs[s] = NoTrade

\* Distance to support, stop and leverage are computed in three places and fit
\* together: the stop of a recommended trade is reached before the leveraged
\* position has lost all it was opened with.
StopBeforeMarginIsGone ==
  \A s \in Recommended :
    recs[s].leverage * (recs[s].entry - recs[s].stop) < 2 * recs[s].entry

\* What that takes of the configuration and the markets: distance and stop fit the
\* leverage of a calm and of a less calm market, the least leverage is none at all
\* (two halves), and no market moves by so much that a stop falls below zero.
Prudent ==
  \A a \in Apps :
    /\ MaxLeverage * (2 * MaxDistPct + SlMult[a]) <= 400
    /\ (MaxLeverage \div 2) * (MaxDistPct + SlMult[a]) <= 200
    /\ MinLeverage <= 2
    /\ \A m \in Markets : SlMult[a] * m.atr < m.support
=============================================================================
