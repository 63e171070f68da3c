---------------------------- MODULE SignalProofs ----------------------------
(***************************************************************************)
(* Theorems about the two programs that turn candles into trades: the signal *)
(* jobs, for every number of symbols and every market the exchange may show, *)
(* and the back-tester, for every series of candles.                         *)
(***************************************************************************)
EXTENDS SignalJob, Backtest, WellFoundedInduction, TLAPS

-----------------------------------------------------------------------------
(* One trade *)

LEMMA ProductPositive ==
  ASSUME NEW a \in Nat \ {0}, NEW b \in Nat \ {0} PROVE a * b \in Nat \ {0}
OBVIOUS

\* A trade has its stop not above and its target not below the entry, both strictly
\* so if there is an ATR, and a leverage between the limits.
LEMMA TradeIsSane ==
  ASSUME app \in Apps, NEW m \in Markets
  PROVE  /\ BuildTrade(m).stop <= BuildTrade(m).entry
         /\ BuildTrade(m).entry <= BuildTrade(m).target
         /\ BuildTrade(m).stop = BuildTrade(m).entry => Atr(m) = 0
         /\ BuildTrade(m).leverage \in MinLeverage..MaxLeverage
<1> USE SignalJobAssumption
<1>1. /\ m.close \in Nat \ {0} /\ m.support \in Nat /\ Atr(m) \in Nat
      /\ m.support <= m.close
  BY DEF Market, Atr
<1>2. /\ SlMult[app] * Atr(m) \in Nat
      /\ Atr(m) # 0 => SlMult[app] * Atr(m) # 0
  BY <1>1, ProductPositive
<1>3. Support(m) \in Nat /\ Support(m) <= m.close
  BY <1>1 DEF Support
<1>4. /\ StopLoss(m) \in Int /\ StopLoss(m) <= m.close
      /\ StopLoss(m) = m.close => Atr(m) = 0
  <2> DEFINE risk == SlMult[app] * Atr(m)
  <2>1. risk \in Nat /\ (risk = 0 => Atr(m) = 0)
    BY <1>2
  <2>2. StopLoss(m) = m.close - risk \/ StopLoss(m) = Support(m) - risk
    BY DEF StopLoss
  <2> HIDE DEF risk
  <2>3. QED BY <1>1, <1>3, <2>1, <2>2
<1>5. TpRr * (m.close - StopLoss(m)) \in Nat
  <2>1. m.close - StopLoss(m) \in Nat
    BY <1>1, <1>4
  <2>2. QED BY <2>1
<1>6. MaxLeverage \div 2 \in Nat /\ MaxLeverage \div 2 <= MaxLeverage
  OBVIOUS
<1>7. Leverage(m) \in MinLeverage..MaxLeverage
  BY <1>1, <1>6 DEF Leverage
<1>8. /\ BuildTrade(m).stop = StopLoss(m) /\ BuildTrade(m).entry = m.close
      /\ BuildTrade(m).target = m.close + TpRr * (m.close - StopLoss(m))
      /\ BuildTrade(m).leverage = Leverage(m)
  BY DEF BuildTrade
<1> HIDE DEF BuildTrade
<1>9. m.close <= m.close + TpRr * (m.close - StopLoss(m))
  BY <1>1, <1>5
<1>10. QED BY <1>4, <1>7, <1>8, <1>9

-----------------------------------------------------------------------------
(* The report *)

LEMMA JobInit == Init => JobInv
<1> SUFFICES ASSUME Init PROVE JobInv
  OBVIOUS
<1>1. QED BY SignalJobAssumption DEF Init, JobInv, Symbols

\* What a market is worth does not change with the run.
LEMMA DueUnchanged == ASSUME UNCHANGED app PROVE Due' = Due
<1>1. \A k \in Markets : Deserves(k)' = Deserves(k) /\ BuildTrade(k)' = BuildTrade(k)
  BY DEF Deserves, ShouldEnterLong, NearSupport, Met, Support, Atr, BuildTrade, StopLoss,
         Leverage
<1>2. QED BY <1>1 DEF Due

\* A turn that gives the symbol what it is due keeps the invariant.
LEMMA TurnInv ==
  ASSUME JobInv, NEW m \in Markets, Fetch(m), Continue,
         recs' = [recs EXCEPT ![next] = Due[m]]
  PROVE  JobInv'
<1> USE SignalJobAssumption DEF Symbols
<1>1. /\ next \in Symbols /\ next' = next + 1 /\ phase = "running" /\ phase' = "running"
      /\ market' = [market EXCEPT ![next] = m] /\ app' = app /\ app \in Apps
  BY DEF Fetch, Continue, JobInv
<1>2. Due' = Due
  BY <1>1, DueUnchanged
<1>3. next' \in 1..(NumSymbols + 1)
  BY <1>1
<1>4. market' \in [Symbols -> Markets \cup {NoMarket}]
  BY <1>1 DEF JobInv
<1>5. recs' \in [Symbols -> {NoTrade} \cup {Due[k] : k \in Markets}]
  BY <1>1 DEF JobInv
<1>6. ASSUME NEW s \in Symbols
      PROVE  /\ s < next' => market'[s] \in Markets /\ recs'[s] = Due[market'[s]]
             /\ s >= next' => recs'[s] = NoTrade
  <2>1. CASE s = next
    <3>1. market'[s] = m /\ recs'[s] = Due[m]
      BY <1>1, <2>1 DEF JobInv
    <3>2. s < next' /\ ~(s >= next')
      BY <1>1, <2>1
    <3>3. QED BY <3>1, <3>2
  <2>2. CASE s # next
    <3>1. market'[s] = market[s] /\ recs'[s] = recs[s]
      BY <1>1, <2>2 DEF JobInv
    <3>2. (s < next' <=> s < next) /\ (s >= next' => s >= next)
      BY <1>1, <2>2
    <3>3. /\ s < next => market[s] \in Markets /\ recs[s] = Due[market[s]]
          /\ s >= next => recs[s] = NoTrade
      BY <1>1 DEF JobInv
    <3>4. QED BY <3>1, <3>2, <3>3
  <2>3. QED BY <2>1, <2>2
<1>7. QED BY <1>1, <1>2, <1>3, <1>4, <1>5, <1>6 DEF JobInv

LEMMA JobNext == JobInv /\ [Next]_vars => JobInv'
<1> SUFFICES ASSUME JobInv, [Next]_vars PROVE JobInv'
  OBVIOUS
<1> USE SignalJobAssumption
<1>1. ASSUME NEW m \in Markets, Fetch(m)
      PROVE  /\ phase = "running" /\ next \in Symbols /\ recs[next] = NoTrade
             /\ recs = [recs EXCEPT ![next] = NoTrade]
             /\ Due[m] = IF Deserves(m) THEN BuildTrade(m) ELSE NoTrade
             /\ app \in Apps
  <2>1. phase = "running" /\ next \in Symbols
    BY <1>1 DEF Fetch
  <2>2. next >= next
    BY <2>1 DEF Symbols
  <2>3. recs[next] = NoTrade
    BY <2>1, <2>2 DEF JobInv
  <2>4. QED BY <2>1, <2>3 DEF JobInv, Due
<1>2. ASSUME NEW m \in Markets
      PROVE  Deserves(m) <=> /\ Fetched(m) = "full" /\ ~m.breaks
                             /\ Complete(m) /\ ShouldEnterLong(m)
  <2>1. app \in Apps
    BY DEF JobInv
  <2>2. Fetched(m) = "full" <=>
          m.feed = "full" \/ (app = "price_action" /\ m.feed = "holey")
    BY <2>1 DEF Fetched, FetchedByEngine, FetchedByPriceAction, Apps
  <2>3. Complete(m) <=> (app = "pa_engine" => m.nan = {})
    BY <2>1 DEF Complete, Apps
  <2>4. QED BY <2>2, <2>3 DEF Deserves
<1>3. ASSUME NEW m \in Markets, Skip(m) PROVE JobInv'
  <2>1. Fetch(m) /\ Continue /\ recs' = recs /\ ~Deserves(m)
    BY <1>2, <1>3 DEF Skip
  <2>2. QED BY <1>1, <2>1, TurnInv
<1>4. ASSUME NEW m \in Markets, Recommend(m) PROVE JobInv'
  <2>1. /\ Fetch(m) /\ Continue /\ Deserves(m)
        /\ recs' = [recs EXCEPT ![next] = BuildTrade(m)]
    BY <1>2, <1>4 DEF Recommend
  <2>2. QED BY <1>1, <2>1, TurnInv
<1>5. ASSUME NEW m \in Markets, Decline(m) PROVE JobInv'
  <2>1. Fetch(m) /\ Continue /\ recs' = recs /\ ~Deserves(m)
    BY <1>2, <1>5 DEF Decline
  <2>2. QED BY <1>1, <2>1, TurnInv
<1>6. ASSUME NEW m \in Markets, Raise(m) PROVE JobInv'
  <2>1. Fetch(m) /\ Fetched(m) = "full" /\ m.breaks /\ ~Deserves(m)
    BY <1>2, <1>6 DEF Raise
  <2>2. CASE Continue /\ recs' = recs
    BY <1>1, <2>1, <2>2, TurnInv
  <2>3. CASE /\ app = "pa_engine" /\ phase' = "aborted"
             /\ recs' = [s \in Symbols |-> NoTrade] /\ UNCHANGED next
    <3>1. app' = app /\ market' = [market EXCEPT ![next] = m] /\ next \in Symbols
      BY <2>1 DEF Fetch
    <3>2. m.feed = "full"
      BY <2>1, <2>3 DEF Fetched, FetchedByEngine
    <3>3. market' \in [Symbols -> Markets \cup {NoMarket}] /\ market'[next] = m
      BY <3>1 DEF JobInv
    <3>4. recs' \in [Symbols -> {NoTrade} \cup {Due'[k] : k \in Markets}]
      BY <2>3
    <3>5. \E s \in Symbols : market'[s].feed = "full" /\ market'[s].breaks
      BY <2>1, <3>1, <3>2, <3>3
    <3>6. QED BY <2>3, <3>1, <3>3, <3>4, <3>5 DEF JobInv
  <2>4. QED BY <1>6, <2>2, <2>3 DEF Raise
<1>7. CASE Report
  <2>1. Due' = Due
    BY <1>7, DueUnchanged DEF Report
  <2>2. /\ phase = "running" /\ phase' \in {"sleeping", "over"} /\ next > NumSymbols
        /\ UNCHANGED <<app, next, recs, market>>
    BY <1>7 DEF Report
  <2>3. next = NumSymbols + 1
    BY <2>2 DEF JobInv
  <2>4. QED BY <2>1, <2>2, <2>3 DEF JobInv
<1>8. CASE WakeUp
  <2>1. /\ phase' = "running" /\ next' = 1 /\ app' = app
        /\ recs' = [s \in Symbols |-> NoTrade] /\ market' = [s \in Symbols |-> NoMarket]
    BY <1>8 DEF WakeUp
  <2>2. next' \in 1..(NumSymbols + 1) /\ \A s \in Symbols : ~(s < next')
    BY <2>1 DEF Symbols
  <2>3. QED BY <2>1, <2>2 DEF JobInv
<1>9. CASE UNCHANGED vars
  <2>1. Due' = Due /\ UNCHANGED <<app, phase, next, recs, market>>
    BY <1>9, DueUnchanged DEF vars
  <2>2. QED BY <2>1 DEF JobInv
<1>10. QED BY <1>3, <1>4, <1>5, <1>6, <1>7, <1>8, <1>9 DEF Next

\* The inductive invariant of both jobs.
THEOREM JobInvariant == Spec => []JobInv
<1>1. QED BY JobInit, JobNext, PTL DEF Spec

\* The state of the job has its type; every trade it recommends has its stop
\* below and its target above the entry, unless there is no ATR, and a leverage
\* within the limits.
THEOREM JobTypeOK == Spec => []TypeOK
<1>1. JobInv => TypeOK
  <2> SUFFICES ASSUME JobInv PROVE TypeOK
    OBVIOUS
  <2>1. ASSUME NEW s \in Recommended
        PROVE  /\ recs[s].stop <= recs[s].entry /\ recs[s].entry <= recs[s].target
               /\ recs[s].stop = recs[s].entry => Atr(market[s]) = 0
               /\ recs[s].leverage \in MinLeverage..MaxLeverage
    <3>1. s \in Symbols /\ recs[s] # NoTrade
      BY <2>1 DEF Recommended
    <3>2. phase # "aborted" /\ (s < next \/ s >= next)
      BY <3>1, SignalJobAssumption DEF JobInv, Symbols
    <3>3. market[s] \in Markets /\ recs[s] = Due[market[s]]
      BY <3>1, <3>2 DEF JobInv
    <3>4. recs[s] = BuildTrade(market[s])
      BY <3>1, <3>3 DEF Due
    <3>5. QED BY <3>3, <3>4, TradeIsSane DEF JobInv
  <2>2. QED BY <2>1 DEF JobInv, TypeOK
<1>2. QED BY <1>1, JobInvariant, PTL

\* A run that reports has exactly the trades its symbols deserve, and only an
\* exception in pa_engine's own computations keeps a run from reporting.
THEOREM JobReportIsExact == Spec => []ReportIsExact
<1>1. JobInv => ReportIsExact
  <2> SUFFICES ASSUME JobInv PROVE ReportIsExact
    OBVIOUS
  <2>1. ASSUME phase \in {"sleeping", "over"}, NEW s \in Symbols
        PROVE  /\ market[s] \in Markets
               /\ recs[s] = IF Deserves(market[s]) THEN BuildTrade(market[s]) ELSE NoTrade
    <3>1. s < next /\ phase # "aborted"
      BY <2>1, SignalJobAssumption DEF JobInv, Symbols
    <3>2. market[s] \in Markets /\ recs[s] = Due[market[s]]
      BY <3>1 DEF JobInv
    <3>3. QED BY <3>2 DEF Due
  <2>2. QED BY <2>1 DEF JobInv, ReportIsExact
<1>2. QED BY <1>1, JobInvariant, PTL

-----------------------------------------------------------------------------
(* Stop and margin *)

LEMMA ProductGrows ==
  ASSUME NEW a \in Nat, NEW b \in Nat, NEW c \in Nat
  PROVE  /\ a <= b => c * a <= c * b
         /\ a < b /\ c > 0 => c * a < c * b
OBVIOUS

\* The arithmetic of a leveraged trade: k is 1 if the ATR is below one percent of
\* the price c, and 2 if it is below half a percent.
LEMMA RiskBelowMargin ==
  ASSUME NEW c \in Nat, NEW d \in Nat, NEW atr \in Nat, NEW sl \in Nat \ {0},
         NEW dist \in Nat, NEW lev \in Nat \ {0}, NEW k \in {1, 2},
         100 * d <= dist * c,
         100 * k * atr < c,
         lev * (k * dist + sl) <= 200 * k
  PROVE  lev * (d + sl * atr) < 2 * c
<1> DEFINE X == k * dist + sl
           risk == d + sl * atr
<1>1. sl * (100 * k * atr) < sl * c
  <2>1. 100 * k * atr \in Nat
    OBVIOUS
  <2>2. QED BY <2>1, ProductGrows
<1>2. 100 * k * risk < X * c
  <2>1. sl * (100 * k * atr) = 100 * k * (sl * atr)
    OBVIOUS
  <2>2. X * c = k * (dist * c) + sl * c
    OBVIOUS
  <2>3. sl * atr \in Nat /\ dist * c \in Nat /\ sl * c \in Nat
    OBVIOUS
  <2>4. QED BY <1>1, <2>1, <2>2, <2>3
<1>3. risk \in Nat /\ X \in Nat /\ X * c \in Nat /\ 100 * k * risk \in Nat
  OBVIOUS
<1> HIDE DEF risk, X
<1>4. lev * (100 * k * risk) < lev * (X * c)
  BY <1>2, <1>3, ProductGrows
<1>5. lev * (X * c) <= 200 * k * c
  <2>1. lev * X \in Nat /\ lev * X <= 200 * k /\ 200 * k \in Nat
    BY <1>3 DEF X
  <2>2. c * (lev * X) <= c * (200 * k)
    BY <2>1, ProductGrows
  <2>3. lev * (X * c) = c * (lev * X) /\ c * (200 * k) = 200 * k * c
    BY <1>3
  <2>4. QED BY <2>2, <2>3
<1>6. lev * (100 * k * risk) = 100 * k * (lev * risk)
  BY <1>3
<1>7. lev * risk \in Nat
  BY <1>3
<1>8. lev * risk < 2 * c
  BY <1>3, <1>4, <1>5, <1>6, <1>7
<1>9. QED BY <1>8 DEF risk

\* At a leverage of one or less it is enough that the stop is above zero.
LEMMA RiskBelowPrice ==
  ASSUME NEW c \in Nat, NEW risk \in Nat, NEW lev \in 1..2, risk < c
  PROVE  lev * risk < 2 * c
OBVIOUS

LEMMA TradeWithinMargin ==
  ASSUME Prudent, app \in Apps, NEW m \in Markets, Deserves(m)
  PROVE  Leverage(m) * (m.close - StopLoss(m)) < 2 * m.close
<1> USE SignalJobAssumption
<1> DEFINE c == m.close
           sl == SlMult[app]
           fallback == app = "price_action" /\ Support(m) = 0
           d == IF fallback THEN 0 ELSE c - Support(m)
           atr == Atr(m)
<1>1. /\ c \in Nat \ {0} /\ m.support \in Nat /\ atr \in Nat /\ atr \in {0, m.atr}
      /\ 0 < m.support /\ m.support <= c /\ sl \in Nat \ {0}
  BY DEF Market, Atr
<1>2. /\ sl * atr \in Nat /\ sl * atr < m.support
      /\ MaxLeverage * (2 * MaxDistPct + sl) <= 400
      /\ (MaxLeverage \div 2) * (MaxDistPct + sl) <= 200
      /\ MinLeverage \in 1..2
  BY <1>1 DEF Prudent
<1>3. fallback \/ Support(m) = m.support
  BY DEF Support, Deserves, Apps
<1>4. d \in Nat /\ m.close - StopLoss(m) = d + sl * atr
  <2> DEFINE risk == sl * atr
  <2>1. risk \in Nat
    BY <1>2
  <2>2. StopLoss(m) = IF fallback THEN c - risk ELSE Support(m) - risk
    BY DEF StopLoss
  <2> HIDE DEF risk
  <2>3. d \in Nat /\ c - StopLoss(m) = d + risk
    <3>1. CASE fallback
      BY <1>1, <2>1, <2>2, <3>1
    <3>2. CASE ~fallback
      <4>1. Support(m) \in Nat /\ Support(m) <= c
        BY <1>1, <1>3, <3>2
      <4>2. QED BY <1>1, <2>1, <2>2, <3>2, <4>1
    <3>3. QED BY <3>1, <3>2
  <2>4. QED BY <2>3 DEF risk
<1>5. 100 * d <= MaxDistPct * c
  <2>1. CASE fallback
    <3>1. d = 0 /\ MaxDistPct * c \in Nat
      BY <1>1, <2>1
    <3>2. QED BY <3>1
  <2>2. CASE ~fallback
    <3>1. d = c - Support(m) /\ (c - Support(m)) * 100 <= MaxDistPct * c
      BY <2>2 DEF Deserves, ShouldEnterLong, NearSupport
    <3>2. QED BY <1>4, <3>1
  <2>3. QED BY <2>1, <2>2
<1>6. d + sl * atr \in Nat /\ d + sl * atr < c
  BY <1>1, <1>2, <1>3, <1>4
<1> HIDE DEF c, sl, d, fallback, atr
<1>7. CASE Leverage(m) = MinLeverage
  BY <1>1, <1>2, <1>4, <1>6, <1>7, RiskBelowPrice DEF c
<1>8. CASE Leverage(m) = MaxLeverage /\ 200 * atr < c
  <2>1. MaxLeverage \in Nat \ {0}
    OBVIOUS
  <2>2. 100 * 2 * atr < c /\ MaxLeverage * (2 * MaxDistPct + sl) <= 200 * 2
    BY <1>1, <1>2, <1>8
  <2>3. MaxLeverage * (d + sl * atr) < 2 * c
    BY <1>1, <1>4, <1>5, <2>1, <2>2, RiskBelowMargin
  <2>4. QED BY <1>4, <1>8, <2>3 DEF c
<1>9. CASE /\ Leverage(m) = MaxLeverage \div 2 /\ MaxLeverage \div 2 > MinLeverage
           /\ 100 * atr < c
  <2>1. MaxLeverage \div 2 \in Nat \ {0}
    BY <1>9
  <2>2. /\ 100 * 1 * atr < c
        /\ (MaxLeverage \div 2) * (1 * MaxDistPct + sl) <= 200 * 1
    BY <1>1, <1>2, <1>9
  <2>3. (MaxLeverage \div 2) * (d + sl * atr) < 2 * c
    BY <1>1, <1>4, <1>5, <2>1, <2>2, RiskBelowMargin
  <2>4. QED BY <1>4, <1>9, <2>3 DEF c
<1>10. QED BY <1>1, <1>7, <1>8, <1>9 DEF Leverage, c, atr

\* StopBeforeMarginIsGone: with a configuration and markets as described in Prudent,
\* no run of either job recommends a trade whose leveraged loss at the stop is the
\* whole of what it was opened with.
THEOREM JobStopsWithinMargin == ASSUME Prudent PROVE Spec => []StopBeforeMarginIsGone
<1>1. JobInv => StopBeforeMarginIsGone
  <2> SUFFICES ASSUME JobInv, NEW s \in Recommended
               PROVE  recs[s].leverage * (recs[s].entry - recs[s].stop) < 2 * recs[s].entry
    BY DEF StopBeforeMarginIsGone
  <2>1. s \in Symbols /\ recs[s] # NoTrade /\ app \in Apps
    BY DEF Recommended, JobInv
  <2>2. PICK m \in Markets : recs[s] = Due[m]
    BY <2>1 DEF JobInv
  <2>3. Deserves(m) /\ recs[s] = BuildTrade(m)
    BY <2>1, <2>2 DEF Due
  <2>4. /\ recs[s].leverage = Leverage(m) /\ recs[s].entry = m.close
        /\ recs[s].stop = StopLoss(m)
    BY <2>3 DEF BuildTrade
  <2>5. QED BY <2>1, <2>3, <2>4, TradeWithinMargin
<1>2. QED BY <1>1, JobInvariant, PTL

-----------------------------------------------------------------------------
(* The back-test *)

LEMMA LeastOf ==
  ASSUME NEW T, T \subseteq Nat, T # {}
  PROVE  Min(T) \in T /\ \A y \in T : Min(T) <= y
<1>1. PICK x \in T : \A y \in T : ~ (<<y, x>> \in OpToRel(<, Nat))
  BY NatLessThanWellFounded, WFMin
<1>2. ASSUME NEW y \in T PROVE x <= y
  <2>1. x \in Nat /\ y \in Nat /\ <<y, x>> \in Nat \X Nat
    OBVIOUS
  <2>2. <<y, x>>[1] = y /\ <<y, x>>[2] = x
    OBVIOUS
  <2>3. ~ (y < x)
    BY <1>1, <2>1, <2>2 DEF OpToRel
  <2>4. QED BY <2>1, <2>3
<1>3. \E m \in T : \A y \in T : m <= y
  BY <1>2
<1>4. QED BY <1>3 DEF Min

LEMMA LowIsPrice ==
  ASSUME candles \in Seq(Candle), NEW j \in 1..Len(candles)
  PROVE  candles[j].low \in Nat
<1>1. candles[j] \in Candle
  OBVIOUS
<1>2. candles[j].low \in Prices
  BY <1>1 DEF Candle
<1>3. QED BY <1>2, BacktestAssumption

\* The support under a candle is no higher than the low of the candle itself.
LEMMA SupportBelow ==
  ASSUME candles \in Seq(Candle), NEW k \in 1..Len(candles)
  PROVE  NearestSupport(k) \in Nat /\ NearestSupport(k) <= candles[k].low
<1> DEFINE lows == Lows(k - Window, k)
<1>1. \A j \in 1..Len(candles) : candles[j].low \in Nat
  BY LowIsPrice
<1>2. k \in {j \in (k - Window)..k : j >= 1}
  BY BacktestAssumption
<1>3. candles[k].low \in lows
  BY <1>2 DEF Lows
<1>4. lows \subseteq Nat
  <2> SUFFICES ASSUME NEW j \in {n \in (k - Window)..k : n >= 1} PROVE candles[j].low \in Nat
    BY DEF Lows
  <2>1. j \in 1..Len(candles)
    BY BacktestAssumption
  <2>2. QED BY <1>1, <2>1
<1> HIDE DEF lows
<1>5. Min(lows) \in Nat /\ Min(lows) <= candles[k].low
  BY <1>3, <1>4, LeastOf
<1>6. QED BY <1>5 DEF NearestSupport, lows

\* The stop of a trade lies below the candle of its entry.
LEMMA StopBelowCandle ==
  ASSUME candles \in Seq(Candle), NEW k \in 1..Len(candles), NEW atr \in ATRs
  PROVE  /\ Trade(k, atr).at = k
         /\ Trade(k, atr).sl \in Int
         /\ candles[k].low > Trade(k, atr).sl
<1>1. NearestSupport(k) \in Nat /\ NearestSupport(k) <= candles[k].low
  BY SupportBelow
<1>2. SlAtrMult * atr \in Nat \ {0}
  BY BacktestAssumption, ProductPositive
<1>3. candles[k].low \in Nat
  BY LowIsPrice
<1>4. Trade(k, atr).at = k /\ Trade(k, atr).sl = NearestSupport(k) - SlAtrMult * atr
  BY DEF Trade
<1>5. QED BY <1>1, <1>2, <1>3, <1>4

\* How a trade ends: not before its entry, at the stop only later; and if it is
\* won, nothing has touched the stop so far.
LEMMA OutcomeSound ==
  ASSUME candles \in Seq(Candle), NEW k \in 1..Len(candles), NEW atr \in ATRs
  PROVE  LET t == Trade(k, atr)
             o == Outcome(t)
         IN  /\ o.exit \in k..Len(candles)
             /\ o.result = "SL" => o.exit > k
             /\ o.result = "TP" => \A j \in k..o.exit : candles[j].low > t.sl
<1> DEFINE t == Trade(k, atr)
           o == Outcome(t)
<1>1. t.at = k /\ t.sl \in Int /\ candles[k].low > t.sl
  BY StopBelowCandle
<1> HIDE DEF t
<1>2. Exits(t) \subseteq k..Len(candles) /\ Exits(t) \subseteq Nat
  BY <1>1 DEF Exits
<1>3. CASE Exits(t) = {}
  <2>1. o = Open(t)
    BY <1>3 DEF Outcome
  <2>2. o.result = "OPEN" /\ o.exit = Len(candles)
    BY <2>1 DEF Open
  <2>3. QED BY <2>2 DEF t
<1>4. CASE Exits(t) # {}
  <2> DEFINE e == Min(Exits(t))
  <2>1. e \in Exits(t) /\ \A y \in Exits(t) : e <= y
    BY <1>2, <1>4, LeastOf
  <2> HIDE DEF e
  <2>2. o = Result(t, e)
    BY <1>4 DEF Outcome, e
  <2>3. /\ o.exit = e
        /\ o.result = "SL" <=> StopHit(t, e)
        /\ o.result = "TP" <=> ~StopHit(t, e)
    BY <2>2 DEF Result
  <2>4. e \in k..Len(candles)
    BY <1>2, <2>1
  <2>5. StopHit(t, e) => e > k
    <3>1. ~StopHit(t, k)
      <4>1. candles[k].low \in Nat BY LowIsPrice
      <4>2. QED BY <1>1, <4>1 DEF StopHit
    <3>2. StopHit(t, e) => e # k
      BY <3>1
    <3>3. QED BY <2>4, <3>2
  <2>6. ASSUME ~StopHit(t, e), NEW j \in k..e PROVE candles[j].low > t.sl
    <3>1. ~StopHit(t, j)
      <4>1. CASE j = e BY <2>6, <4>1
      <4>2. CASE j # e
        <5>1. j \in k..Len(candles) /\ ~(e <= j)
          BY <2>4, <4>2
        <5>2. QED BY <1>1, <2>1, <5>1 DEF Exits
      <4>3. QED BY <4>1, <4>2
    <3>2. candles[j].low \in Nat
      <4>1. j \in 1..Len(candles) BY <2>4
      <4>2. QED BY <4>1, LowIsPrice
    <3>3. QED BY <1>1, <3>1, <3>2 DEF StopHit
  <2> HIDE DEF o
  <2>7. QED BY <2>3, <2>4, <2>5, <2>6 DEF o, t
<1>5. QED BY <1>3, <1>4

\* The inductive invariant: each result is what became of a trade built on one
\* of the candles, and the series is complete before the first.
BacktestInv ==
  /\ candles \in Seq(Candle) /\ Len(candles) <= NumCandles
  /\ i \in {0, StartIdx} \cup (StartIdx..(NumCandles + 1))
  /\ i = 0 => results = {}
  /\ i # 0 => Len(candles) = NumCandles
  /\ \A r \in results : \E k \in StartIdx..Len(candles), atr \in ATRs :
       r = [trade |-> Trade(k, atr), outcome |-> Outcome(Trade(k, atr))]

LEMMA BacktestKept == BacktestInv /\ [BacktestNext]_backtestVars => BacktestInv'
<1> SUFFICES ASSUME BacktestInv, [BacktestNext]_backtestVars PROVE BacktestInv'
  OBVIOUS
<1> USE BacktestAssumption
<1>1. CASE LoadCandle
  <2>1. i = 0 /\ i' = i /\ results' = results /\ results = {}
    BY <1>1 DEF LoadCandle, BacktestInv
  <2>2. candles' \in Seq(Candle) /\ Len(candles') <= NumCandles
    BY <1>1 DEF LoadCandle, BacktestInv
  <2>3. QED BY <2>1, <2>2 DEF BacktestInv
<1>2. CASE Run
  <2>1. /\ i = 0 /\ i' = StartIdx /\ results' = results /\ results = {}
        /\ candles' = candles /\ Len(candles) = NumCandles
    BY <1>2 DEF Run, BacktestInv
  <2>2. QED BY <2>1 DEF BacktestInv
<1>3. ASSUME candles' = candles
      PROVE  \A k, atr : Trade(k, atr)' = Trade(k, atr)
                         /\ Outcome(Trade(k, atr))' = Outcome(Trade(k, atr))
  BY <1>3 DEF Trade, Outcome, Exits, StopHit, TargetHit, Open, Result, NearestSupport, Lows
<1>4. CASE UNCHANGED backtestVars
  BY <1>3, <1>4 DEF backtestVars, BacktestInv
<1>5. CASE Turn
  <2>1. /\ i \in StartIdx..Len(candles) /\ i' = i + 1 /\ candles' = candles
        /\ i # 0 /\ Len(candles) = NumCandles
    BY <1>5 DEF Turn, BacktestInv
  <2>2. ASSUME NEW r \in results'
        PROVE  \E k \in StartIdx..Len(candles), atr \in ATRs :
                 r = [trade |-> Trade(k, atr), outcome |-> Outcome(Trade(k, atr))]
    <3>1. CASE r \in results
      BY <3>1 DEF BacktestInv
    <3>2. CASE r \notin results
      BY <1>5, <2>1, <2>2, <3>2 DEF Turn
    <3>3. QED BY <3>1, <3>2
  <2>3. i' \in StartIdx..(NumCandles + 1) /\ i' # 0
    BY <2>1
  <2>4. QED BY <1>3, <2>1, <2>2, <2>3 DEF BacktestInv
<1>6. QED BY <1>1, <1>2, <1>4, <1>5 DEF BacktestNext

THEOREM BacktestInvariant == BacktestSpec => []BacktestInv
<1>1. BacktestInit => BacktestInv
  BY BacktestAssumption DEF BacktestInit, BacktestInv
<1>2. QED BY <1>1, BacktestKept, PTL DEF BacktestSpec

\* What every result of a back-test is.
LEMMA ResultSound ==
  ASSUME BacktestInv, NEW r \in results
  PROVE  /\ r.trade.at \in StartIdx..NumCandles
         /\ r.outcome.exit \in r.trade.at..NumCandles
         /\ r.outcome.result = "SL" => r.outcome.exit > r.trade.at
         /\ r.outcome.result = "TP" =>
              \A j \in r.trade.at..r.outcome.exit : candles[j].low > r.trade.sl
<1>1. PICK k \in StartIdx..Len(candles), atr \in ATRs :
        r = [trade |-> Trade(k, atr), outcome |-> Outcome(Trade(k, atr))]
  BY DEF BacktestInv
<1>2. /\ candles \in Seq(Candle) /\ k \in 1..Len(candles)
      /\ k \in StartIdx..NumCandles /\ Len(candles) = NumCandles
  BY BacktestAssumption DEF BacktestInv
<1>3. r.trade = Trade(k, atr) /\ r.outcome = Outcome(Trade(k, atr)) /\ r.trade.at = k
  BY <1>1, <1>2, StopBelowCandle
<1>4. QED BY <1>2, <1>3, OutcomeSound

\* The series, the loop variable and the results have their types, and no trade
\* ends before it began (backtester.py:56).
THEOREM BacktestTypeCorrect == BacktestSpec => []BacktestTypeOK
<1>1. BacktestInv => BacktestTypeOK
  BY ResultSound DEF BacktestInv, BacktestTypeOK
<1>2. QED BY BacktestInvariant, <1>1, PTL

\* For every series and window: no trade is stopped out by the candle it was
\* entered on, though the simulation begins with that candle (backtester.py:70).
THEOREM BacktestStopAfterEntry == BacktestSpec => []StopAfterEntry
<1>1. BacktestInv => StopAfterEntry
  BY ResultSound DEF StopAfterEntry
<1>2. QED BY BacktestInvariant, <1>1, PTL

\* A trade counts as won only if no candle up to its last one touched the stop
\* (backtester.py:92).
THEOREM BacktestWonUnstopped == BacktestSpec => []WonOnlyUnstopped
<1>1. BacktestInv => WonOnlyUnstopped
  BY ResultSound DEF WonOnlyUnstopped
<1>2. QED BY BacktestInvariant, <1>1, PTL
=============================================================================
