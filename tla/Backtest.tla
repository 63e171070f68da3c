------------------------------ MODULE Backtest ------------------------------
(***************************************************************************)
(* pa_engine's Backtester: one candle after the other it builds the        *)
(* features of the candles so far, asks the policy, has the risk manager   *)
(* build a trade, and simulates the trade on the candles from there on.    *)
(*                                                                         *)
(* The support is computed; ATR and the indicators that only gate the      *)
(* signal (EMA, RSI, volume, OBV; pandas_ta) may have any value.  Prices   *)
(* are in half ticks, candles on whole ticks, so that half an ATR is an    *)
(* integer.                                                                *)
(*                                                                         *)
(* Operators named <definition>_<fault> are faulty variants that no        *)
(* specification uses; they show that the properties can fail.             *)
(***************************************************************************)
EXTENDS Integers, Sequences, FiniteSetsExt

CONSTANTS
  Prices,       \* prices of the candles, in half ticks
  ATRs,         \* values of the ATR, in ticks; positive
  Window,       \* window of compute_support_resistance
  StartIdx,     \* start_idx: the first candle a signal may fall on
  SlAtrMult,    \* sl_atr_mult, in halves
  RewardRisk,   \* tp_rr
  MaxDistance,  \* max_distance_to_support_pct, in percent
  NumCandles    \* bound: candles of the series

ASSUME BacktestAssumption ==
  /\ Prices \subseteq Nat \ {0} /\ ATRs \subseteq Nat \ {0}
  /\ Window \in Nat /\ StartIdx \in Nat \ {0} /\ NumCandles \in Nat
  /\ SlAtrMult \in Nat \ {0} /\ RewardRisk \in Nat \ {0} /\ MaxDistance \in Nat

Candle == {c \in [low : Prices, high : Prices, close : Prices] :
             c.low <= c.close /\ c.close <= c.high}

VARIABLES
  candles,   \* the series
  i,         \* the loop variable of run_backtest, from 1; 0 before it runs
  results    \* the trades with their outcomes

backtestVars == <<candles, i, results>>

BacktestInit == candles = <<>> /\ i = 0 /\ results = {}

LoadCandle ==
  /\ i = 0 /\ Len(candles) < NumCandles
  /\ \E c \in Candle : candles' = Append(candles, c)
  /\ UNCHANGED <<i, results>>

Run ==
  /\ i = 0 /\ Len(candles) = NumCandles
  /\ i' = StartIdx
  /\ UNCHANGED <<candles, results>>

-----------------------------------------------------------------------------
Lows(from, to) == {candles[k].low : k \in {j \in from..to : j >= 1}}

\* nearest_support: the slice [idx - window : idx + 1] ends with the candle itself.
NearestSupport_Previous(k) == Min(Lows(k - Window - 1, k - 1))

NearestSupport(k) == Min(Lows(k - Window, k))

\* should_enter_long, the one condition that depends on the prices used here.
WithinDistance(k) ==
  (candles[k].close - NearestSupport(k)) * 100 <= MaxDistance * candles[k].close

\* build_trade
Trade(k, atr) ==
  LET entry == candles[k].close
      sl    == NearestSupport(k) - SlAtrMult * atr
  IN  [at |-> k, entry |-> entry, sl |-> sl, tp |-> entry + RewardRisk * (entry - sl)]

\* _simulate_trade on candles[k:]: the first candle that touches either price
\* ends the trade, at the stop loss if it touches both; otherwise it is open.
StopHit(t, j) == candles[j].low <= t.sl
TargetHit(t, j) == candles[j].high >= t.tp

Exits(t) == {j \in t.at..Len(candles) : StopHit(t, j) \/ TargetHit(t, j)}

Result_TargetFirst(t, j) ==
  IF TargetHit(t, j) THEN [result |-> "TP", exit |-> j, pnl |-> t.tp - t.entry]
                     ELSE [result |-> "SL", exit |-> j, pnl |-> t.sl - t.entry]

Result(t, j) ==
  IF StopHit(t, j) THEN [result |-> "SL", exit |-> j, pnl |-> t.sl - t.entry]
                   ELSE [result |-> "TP", exit |-> j, pnl |-> t.tp - t.entry]

Open_BarsAsIndex(t) ==
  [result |-> "OPEN", exit |-> Len(candles) - t.at,
   pnl |-> candles[Len(candles)].close - t.entry]

Open(t) ==
  [result |-> "OPEN", exit |-> Len(candles), pnl |-> candles[Len(candles)].close - t.entry]

Outcome(t) == IF Exits(t) = {} THEN Open(t) ELSE Result(t, Min(Exits(t)))

\* One turn of the loop.
Turn ==
  /\ i \in StartIdx..Len(candles)
  /\ i' = i + 1
  /\ \/ UNCHANGED results   \* an indicator says no, or is not there yet
     \/ /\ WithinDistance(i)
        /\ \E atr \in ATRs :
             LET t == Trade(i, atr) IN results' = results \cup {[trade |-> t, outcome |-> Outcome(t)]}
  /\ UNCHANGED candles

BacktestNext == LoadCandle \/ Run \/ Turn
BacktestSpec == BacktestInit /\ [][BacktestNext]_backtestVars
-----------------------------------------------------------------------------
BacktestTypeOK ==
  /\ candles \in Seq(Candle)
  /\ i \in {0, StartIdx} \cup (StartIdx..(NumCandles + 1))
  /\ \A r \in results :
       r.trade.at \in StartIdx..NumCandles /\ r.outcome.exit \in r.trade.at..NumCandles

\* The support takes in the candle of the signal and the stop lies below it, so
\* no trade is stopped out by the candle it was entered on.
StopAfterEntry == \A r \in results : r.outcome.result = "SL" => r.outcome.exit > r.trade.at

\* The simulation errs on the side of caution: a trade counts as won only if no
\* candle up to and including its last one touched the stop.
WonOnlyUnstopped ==
  \A r \in results : r.outcome.result = "TP" =>
    \A j \in r.trade.at..r.outcome.exit : candles[j].low > r.trade.sl
=============================================================================
