-------------------------------- MODULE Fills --------------------------------
(***************************************************************************)
(* From a fill of the exchange to a UnifiedTransactionEvent: the pure part *)
(* of HyperliquidListener._parse_message, with the places that later read  *)
(* the legs of the event again (the alert, the strategies).                *)
(*                                                                         *)
(* Prices are in cents and quantities in hundredths of a coin, so a value  *)
(* in dollars is in units of 1/10000.                                      *)
(*                                                                         *)
(* Operators named <definition>_<fault> are faulty variants that no        *)
(* specification uses; they show that the properties can fail.             *)
(***************************************************************************)
EXTENDS Integers, Sequences, TLC

CONSTANTS
  Coins,   \* coins of the exchange
  USDC,    \* the symbol "USDC"
  Bad      \* a field that is missing, or not a number

ASSUME FillsAssumption == USDC \notin Coins /\ Bad \notin Coins \cup {USDC}

\* action_map, and SUPPORTED_ACTIONS: spot trades are known but not tracked.
ActionMap ==
  "Buy"         :> "BUY"         @@  "Sell"        :> "SELL"
  @@ "Open Long"   :> "OPEN_LONG"   @@  "Close Long"  :> "CLOSE_LONG"
  @@ "Open Short"  :> "OPEN_SHORT"  @@  "Close Short" :> "CLOSE_SHORT"

SupportedActions == {"OPEN_LONG", "CLOSE_LONG", "OPEN_SHORT", "CLOSE_SHORT"}

\* The parser's branches: these actions bring the coin in, the others hand it over.
Acquiring == {"BUY", "OPEN_LONG", "CLOSE_SHORT"}

\* _round_value: to the cent from one cent upwards, as it is below.  Which way
\* a tie goes depends on the binary form of the product.
Rounded_Always(v) == {((v + 50) \div 100) * 100}

Rounded(v) ==
  LET cent == (v \div 100) * 100
      rest == v % 100
  IN  IF v < 100 THEN {v}
      ELSE (IF rest <= 50 THEN {cent} ELSE {}) \cup (IF rest >= 50 THEN {cent + 100} ELSE {})

\* The coin leg carries the fill's quantity and price, the USDC leg the value.
Leg(symbol, quantity, price) == [symbol |-> symbol, quantity |-> quantity, price |-> price]

Legs(action, fill, value) ==
  LET coin  == Leg(fill.coin, fill.sz, fill.px)
      money == Leg(USDC, value, 1)
  IN  IF action \in Acquiring THEN [received |-> coin, spent |-> money]
                              ELSE [received |-> money, spent |-> coin]

\* The early returns of _parse_message, all on the first fill of the message.
Usable_SpotPasses(fills) ==
  /\ fills # <<>>
  /\ fills[1].coin # Bad /\ fills[1].px # Bad /\ fills[1].sz # Bad
  /\ fills[1].px > 0 /\ fills[1].sz > 0
  /\ fills[1].dir \in DOMAIN ActionMap

Usable(fills) ==
  /\ fills # <<>>
  /\ fills[1].coin # Bad
  /\ fills[1].px # Bad /\ fills[1].sz # Bad
  /\ fills[1].px > 0 /\ fills[1].sz > 0
  /\ fills[1].dir \in DOMAIN ActionMap
  /\ ActionMap[fills[1].dir] \in SupportedActions

\* The events the message may become: one, up to the tie in the rounding.
Events(fills) ==
  LET fill   == fills[1]
      action == ActionMap[fill.dir]
  IN  {[action |-> action, value |-> v, legs |-> Legs(action, fill, v)] :
         v \in Rounded(fill.px * fill.sz)}

\* The token a Telegram alert names: the alert keeps a list of its own of the
\* actions that receive the coin.
AlertReceived_NoShorts == {"BUY", "OPEN_LONG", "SHORT_TO_LONG"}

AlertReceived == {"BUY", "OPEN_LONG", "CLOSE_SHORT", "SHORT_TO_LONG"}

AlertToken(event) ==
  IF event.action \in AlertReceived THEN event.legs.received.symbol
                                    ELSE event.legs.spent.symbol
=============================================================================
