--------------------------- MODULE EventFlowProofs ---------------------------
(***************************************************************************)
(* From the fills to the answer of the batched-wallet strategy, for every  *)
(* stream of messages, any prices and quantities, any number of wallets,   *)
(* coins and events, and whatever order the handlers end in.               *)
(***************************************************************************)
EXTENDS EventFlow, TLAPS

AnyLeg == [symbol : Coins \cup {USDC}, quantity : Nat, price : Nat]

Event == [wallet : Wallets, ts : 0..MaxTime, coin : Coins, action : SupportedActions,
          value : Nat, legs : [received : AnyLeg, spent : AnyLeg]]

\* The event is what the parser makes of some message.
Parsed(e) ==
  \E message \in Messages, w \in Wallets, ts \in 0..MaxTime :
    Usable(message) /\ \E x \in Events(message) : e = Stamped(w, ts, message, x)

\* What is tracked was seen, under its own key ...
TrackedWasSeen ==
  \A k \in Keys : \A t \in tracked[k] : \E j \in DOMAIN seen :
    KeyOf(seen[j]) = k /\ Entry(seen[j]) = t

\* ... and what was seen is still tracked, unless an event of the same key was seen
\* that is younger by a window.
SeenIsTracked ==
  \A j \in DOMAIN seen :
    \/ Entry(seen[j]) \in tracked[KeyOf(seen[j])]
    \/ \E i \in DOMAIN seen : /\ KeyOf(seen[i]) = KeyOf(seen[j])
                              /\ seen[i].ts - seen[j].ts >= TimeWindow

FlowInv ==
  /\ received \in 0..MaxMessages
  /\ seen \in Seq(Event)
  /\ \A e \in DOMAIN pending : e \in Event /\ Parsed(e)
  /\ \A j \in DOMAIN seen : Parsed(seen[j])
  /\ tracked \in [Keys -> SUBSET [wallet : Wallets, ts : 0..MaxTime]]
  /\ fired \subseteq Listed /\ raised \subseteq Listed \ fired
  /\ TrackedWasSeen /\ SeenIsTracked
  /\ BatchIsExact

-----------------------------------------------------------------------------
(* One event *)

LEMMA RoundedNear ==
  ASSUME NEW v \in Nat \ {0}, NEW w \in Rounded(v)
  PROVE  w \in Nat \ {0} /\ w - v <= 50 /\ v - w <= 50
BY DEF Rounded

LEMMA ProductPositive ==
  ASSUME NEW a \in Int, NEW b \in Int, a > 0, b > 0 PROVE a * b \in Nat \ {0}
OBVIOUS

\* The early returns leave a first fill with a coin, a price and a quantity.
LEMMA FirstFill ==
  ASSUME NEW message \in Messages, Usable(message)
  PROVE  /\ message[1].coin \in Coins
         /\ message[1].px \in Int /\ message[1].px > 0
         /\ message[1].sz \in Int /\ message[1].sz > 0
         /\ ActionMap[message[1].dir] \in SupportedActions
<1>1. message \in Seq(RawFill) /\ message # <<>>
  BY EventFlowAssumption DEF Usable
<1>2. message[1] \in RawFill
  BY <1>1
<1>3. QED BY <1>2 DEF RawFill, Usable

\* The parts of an event, spelled out.
LEMMA EventParts ==
  ASSUME NEW e, Parsed(e)
  PROVE  /\ e \in Event
         /\ e.value > 0
         /\ \E px \in Int, sz \in Int :
              /\ px > 0 /\ sz > 0
              /\ e.value \in Rounded(px * sz)
              /\ LET coin  == Leg(e.coin, sz, px)
                     money == Leg(USDC, e.value, 1)
                 IN  e.legs = IF e.action \in Acquiring
                              THEN [received |-> coin, spent |-> money]
                              ELSE [received |-> money, spent |-> coin]
<1>1. PICK message \in Messages, w \in Wallets, ts \in 0..MaxTime :
        Usable(message) /\ \E x \in Events(message) : e = Stamped(w, ts, message, x)
  BY DEF Parsed
<1> DEFINE fill == message[1]
           action == ActionMap[fill.dir]
<1>2. PICK v \in Rounded(fill.px * fill.sz) :
        e = Stamped(w, ts, message, [action |-> action, value |-> v, legs |-> Legs(action, fill, v)])
  BY <1>1 DEF Events
<1>3. /\ fill.coin \in Coins /\ action \in SupportedActions
      /\ fill.px \in Int /\ fill.px > 0 /\ fill.sz \in Int /\ fill.sz > 0
  BY <1>1, FirstFill
<1>4. /\ e.wallet = w /\ e.ts = ts /\ e.coin = fill.coin /\ e.action = action
      /\ e.value = v /\ e.legs = Legs(action, fill, v)
      /\ e = [wallet |-> w, ts |-> ts, coin |-> fill.coin, action |-> action,
              value |-> v, legs |-> Legs(action, fill, v)]
  BY <1>2 DEF Stamped
<1> HIDE DEF fill, action
<1>5. v \in Nat \ {0}
  BY <1>3, ProductPositive, RoundedNear
<1>6. Legs(action, fill, v) \in [received : AnyLeg, spent : AnyLeg]
  BY <1>3, <1>5 DEF Legs, Leg, AnyLeg
<1>7. e \in Event
  BY <1>1, <1>3, <1>4, <1>5, <1>6 DEF Event
<1> DEFINE px == fill.px
           sz == fill.sz
           coin  == Leg(e.coin, sz, px)
           money == Leg(USDC, e.value, 1)
<1>8. e.legs = IF e.action \in Acquiring THEN [received |-> coin, spent |-> money]
                                         ELSE [received |-> money, spent |-> coin]
  BY <1>4 DEF Legs
<1>9. /\ px \in Int /\ px > 0 /\ sz \in Int /\ sz > 0
      /\ e.value \in Rounded(px * sz) /\ e.value > 0
  BY <1>3, <1>4, <1>5
<1> HIDE DEF px, sz
<1>10. QED BY <1>7, <1>8, <1>9

\* The key is the coin and the action, except that closing shorts share one.
LEMMA KeyOfEvent ==
  ASSUME NEW e, Parsed(e)
  PROVE  /\ KeyOf(e) = <<IF e.action = "CLOSE_SHORT" THEN USDC ELSE e.coin, e.action>>
         /\ KeyOf(e) \in Keys
<1>1. e.action \in SupportedActions /\ e.coin \in Coins
  BY EventParts DEF Event
<1>2. PICK px \in Int, sz \in Int :
        LET coin  == Leg(e.coin, sz, px)
            money == Leg(USDC, e.value, 1)
        IN  e.legs = IF e.action \in Acquiring
                     THEN [received |-> coin, spent |-> money]
                     ELSE [received |-> money, spent |-> coin]
  BY EventParts
<1>3. /\ e.action \in Acquiring => e.legs.received.symbol = e.coin /\ e.legs.spent.symbol = USDC
      /\ e.action \notin Acquiring => e.legs.spent.symbol = e.coin
  BY <1>2 DEF Leg
<1>4. KeyOf(e) = <<IF e.action = "CLOSE_SHORT" THEN USDC ELSE e.coin, e.action>>
  BY <1>1, <1>3 DEF KeyOf, SupportedActions, Acquiring
<1>5. QED BY <1>1, <1>4 DEF Keys

\* What shares the key of an opened long is a long in the same coin.
LEMMA SameKey ==
  ASSUME NEW e, NEW f, Parsed(e), Parsed(f), e.action = "OPEN_LONG"
  PROVE  KeyOf(f) = KeyOf(e) <=> SameMove(e, f)
<1>1. KeyOf(e) = <<e.coin, e.action>>
  BY KeyOfEvent
<1>2. KeyOf(f) = <<IF f.action = "CLOSE_SHORT" THEN USDC ELSE f.coin, f.action>>
  BY KeyOfEvent
<1>3. QED BY <1>1, <1>2 DEF SameMove

-----------------------------------------------------------------------------
(* The steps *)

LEMMA FlowInit == Init => FlowInv
<1> SUFFICES ASSUME Init PROVE FlowInv
  OBVIOUS
<1>1. seen = <<>> /\ DOMAIN pending = {} /\ received = 0
  BY DEF Init, EmptyBag, SetToBag
<1>2. tracked \in [Keys -> SUBSET [wallet : Wallets, ts : 0..MaxTime]] /\ TrackedWasSeen
  BY DEF Init, StrategiesInit, TrackedWasSeen
<1>3. fired = {} /\ raised = {}
  BY DEF Init, StrategiesInit
<1>4. SeenIsTracked /\ BatchIsExact
  BY <1>1 DEF SeenIsTracked, BatchIsExact
<1>5. received \in 0..MaxMessages
  BY <1>1, EventFlowAssumption
<1>6. QED BY <1>1, <1>2, <1>3, <1>4, <1>5 DEF FlowInv

\* A message adds an event to those under way, or nothing.
LEMMA ArriveInv ==
  ASSUME FlowInv, Arrive,
         \A e \in DOMAIN pending' : e \in DOMAIN pending \/ Parsed(e)
  PROVE  FlowInv'
<1>1. UNCHANGED <<tracked, fired, raised, seen>>
  BY DEF Arrive, strategyVars
<1>2. received' \in 0..MaxMessages
  BY EventFlowAssumption DEF Arrive, FlowInv
<1>3. \A e \in DOMAIN pending' : e \in Event /\ Parsed(e)
  BY EventParts DEF FlowInv
<1>4. TrackedWasSeen' /\ SeenIsTracked'
  BY <1>1 DEF FlowInv, TrackedWasSeen, SeenIsTracked
<1>5. BatchIsExact'
  BY <1>1 DEF FlowInv, BatchIsExact, Batch, Late
<1>6. QED BY <1>1, <1>2, <1>3, <1>4, <1>5 DEF FlowInv

LEMMA ParseInv ==
  ASSUME FlowInv, NEW message \in Messages, NEW w \in Wallets, NEW ts \in 0..MaxTime,
         Parse(w, ts, message)
  PROVE  FlowInv'
<1>1. PICK x \in Events(message) :
        pending' = pending (+) SetToBag({Stamped(w, ts, message, x)})
  BY DEF Parse
<1>2. DOMAIN pending' = DOMAIN pending \cup {Stamped(w, ts, message, x)}
  BY <1>1 DEF (+), SetToBag
<1>3. Parsed(Stamped(w, ts, message, x))
  BY DEF Parse, Parsed
<1>4. QED BY <1>2, <1>3, ArriveInv DEF Parse

\* Batch and Late, of any sequence of events.
BatchOf(e, s) ==
  {s[i].wallet : i \in {j \in DOMAIN s :
     SameMove(e, s[j]) /\ Distance(e.ts, s[j].ts) < TimeWindow}}

LateIn(e, s) == \E i \in DOMAIN s : SameMove(e, s[i]) /\ s[i].ts > e.ts

\* The wallets the strategy counts are wallets that made the move in the window.
LEMMA CountedWereThere ==
  ASSUME NEW e, FlowInv, TrackedWasSeen', Parsed(e), e.action = "OPEN_LONG",
         ~LateIn(e, seen'), seen' \in Seq(Event),
         \A j \in DOMAIN seen' : Parsed(seen'[j]),
         tracked' = [tracked EXCEPT ![KeyOf(e)] = Kept(e)]
  PROVE  UniqueWallets(Kept(e)) \subseteq BatchOf(e, seen')
<1> SUFFICES ASSUME NEW t \in Kept(e) PROVE t.wallet \in BatchOf(e, seen')
  BY DEF UniqueWallets
<1>1. KeyOf(e) \in Keys
  BY KeyOfEvent
<1>2. tracked'[KeyOf(e)] = Kept(e)
  BY <1>1 DEF FlowInv
<1>3. PICK j \in DOMAIN seen' : KeyOf(seen'[j]) = KeyOf(e) /\ Entry(seen'[j]) = t
  BY <1>1, <1>2 DEF TrackedWasSeen
<1>4. SameMove(e, seen'[j])
  BY <1>3, SameKey
<1>5. e.ts - seen'[j].ts < TimeWindow /\ seen'[j].wallet = t.wallet
  BY <1>3 DEF Kept, Entry
<1>6. e.ts \in Nat /\ seen'[j].ts \in Nat /\ ~(seen'[j].ts > e.ts)
  BY <1>4, EventParts, StrategiesAssumption DEF Event, LateIn
<1>7. Distance(e.ts, seen'[j].ts) < TimeWindow
  BY <1>5, <1>6, StrategiesAssumption DEF Distance
<1>8. QED BY <1>4, <1>5, <1>7 DEF BatchOf

\* It counts all of them: who was dropped from the key is out of the window by now.
LEMMA ThereIsCounted ==
  ASSUME NEW e, FlowInv, SeenIsTracked', Parsed(e), e.action = "OPEN_LONG",
         ~LateIn(e, seen'), seen' \in Seq(Event),
         \A j \in DOMAIN seen' : Parsed(seen'[j]),
         tracked' = [tracked EXCEPT ![KeyOf(e)] = Kept(e)]
  PROVE  BatchOf(e, seen') \subseteq UniqueWallets(Kept(e))
<1> SUFFICES ASSUME NEW j \in DOMAIN seen', SameMove(e, seen'[j]),
                    Distance(e.ts, seen'[j].ts) < TimeWindow
             PROVE  seen'[j].wallet \in UniqueWallets(Kept(e))
  BY DEF BatchOf
<1>1. KeyOf(e) \in Keys /\ KeyOf(seen'[j]) = KeyOf(e)
  BY KeyOfEvent, SameKey
<1>2. tracked'[KeyOf(e)] = Kept(e)
  BY <1>1 DEF FlowInv
<1>3. CASE Entry(seen'[j]) \in tracked'[KeyOf(seen'[j])]
  BY <1>1, <1>2, <1>3 DEF UniqueWallets, Entry
<1>4. ASSUME NEW i \in DOMAIN seen', KeyOf(seen'[i]) = KeyOf(seen'[j]),
             seen'[i].ts - seen'[j].ts >= TimeWindow
      PROVE  FALSE
  <2>1. seen'[i].ts \in Nat /\ seen'[j].ts \in Nat /\ e.ts \in Nat
    BY EventParts, StrategiesAssumption DEF Event
  <2>2. SameMove(e, seen'[i])
    BY <1>1, <1>4, SameKey
  <2>3. seen'[i].ts <= e.ts
    BY <2>1, <2>2 DEF LateIn
  <2>4. e.ts - seen'[j].ts < TimeWindow
    BY <2>1, StrategiesAssumption DEF Distance
  <2>5. QED BY <1>4, <2>1, <2>3, <2>4, StrategiesAssumption
<1>5. QED BY <1>3, <1>4 DEF SeenIsTracked

\* On an opened long the strategy answers exactly when it counts enough wallets.
LEMMA BatchedAnswers ==
  ASSUME NEW e, EvaluateAll(e)
  PROVE  /\ e.action = "OPEN_LONG" =>
              ("batched" \in fired' <=> Cardinality(UniqueWallets(Kept(e))) >= Threshold)
         /\ fired' \subseteq Listed /\ raised' \subseteq Listed \ fired'
<1>1. /\ fired' = {s \in Listed : Answer(s, e) = "result"}
      /\ raised' = {s \in Listed : Answer(s, e) = "raises"}
  BY DEF EvaluateAll
<1>2. Answer("batched", e) = BatchedWallet(e)
  BY DEF Answer
<1>3. "batched" \in fired' <=> BatchedWallet(e) = "result"
  BY <1>1, <1>2 DEF Listed
<1>4. e.action = "OPEN_LONG" =>
        (BatchedWallet(e) = "result" <=> Cardinality(UniqueWallets(Kept(e))) >= Threshold)
  BY DEF BatchedWallet, ReadLegs, Acquiring
<1>5. fired' \subseteq Listed /\ raised' \subseteq Listed \ fired'
  BY <1>1
<1>6. QED BY <1>3, <1>4, <1>5

LEMMA EvaluateInv ==
  ASSUME FlowInv, NEW e \in DOMAIN pending, Evaluate(e)
  PROVE  FlowInv'
<1>1. /\ EvaluateAll(e) /\ received' = received
      /\ tracked' = [tracked EXCEPT ![KeyOf(e)] = Kept(e)]
  BY DEF Evaluate, EvaluateAll
<1>2. e \in Event /\ Parsed(e) /\ seen \in Seq(Event) /\ seen' = Append(seen, e)
  BY DEF Evaluate, FlowInv
<1>3. /\ seen' \in Seq(Event) /\ Len(seen') = Len(seen) + 1 /\ Len(seen) \in Nat
      /\ DOMAIN seen = 1..Len(seen) /\ DOMAIN seen' = 1..(Len(seen) + 1)
      /\ seen'[Len(seen) + 1] = e
      /\ \A j \in DOMAIN seen : seen'[j] = seen[j]
  BY <1>2
<1>4. \A f \in DOMAIN pending' : f \in DOMAIN pending
  BY DEF Evaluate, (-)
<1>5. \A j \in DOMAIN seen' : Parsed(seen'[j])
  <2>1. ASSUME NEW j \in DOMAIN seen' PROVE Parsed(seen'[j])
    <3>1. CASE j \in DOMAIN seen BY <1>3, <3>1 DEF FlowInv
    <3>2. CASE j = Len(seen) + 1 BY <1>2, <1>3, <3>2
    <3>3. QED BY <1>3, <3>1, <3>2
  <2>2. QED BY <2>1
<1>6. /\ KeyOf(e) \in Keys /\ e.wallet \in Wallets /\ e.ts \in 0..MaxTime
      /\ tracked \in [Keys -> SUBSET [wallet : Wallets, ts : 0..MaxTime]]
  BY <1>2, KeyOfEvent DEF Event, FlowInv
<1>7. Kept(e) \subseteq [wallet : Wallets, ts : 0..MaxTime]
  BY <1>6 DEF Kept, Entry
<1>8. /\ tracked' \in [Keys -> SUBSET [wallet : Wallets, ts : 0..MaxTime]]
      /\ tracked'[KeyOf(e)] = Kept(e)
      /\ \A k \in Keys : k # KeyOf(e) => tracked'[k] = tracked[k]
  BY <1>1, <1>6, <1>7
<1>9. TrackedWasSeen'
  <2> SUFFICES ASSUME NEW k \in Keys, NEW t \in tracked'[k]
               PROVE  \E j \in DOMAIN seen' : KeyOf(seen'[j]) = k /\ Entry(seen'[j]) = t
    BY DEF TrackedWasSeen
  <2>1. CASE t \in tracked[k]
    <3>1. PICK j \in DOMAIN seen : KeyOf(seen[j]) = k /\ Entry(seen[j]) = t
      BY <2>1 DEF FlowInv, TrackedWasSeen
    <3>2. QED BY <1>3, <3>1
  <2>2. CASE k = KeyOf(e) /\ t = Entry(e)
    BY <1>3, <2>2
  <2>3. QED BY <1>8, <2>1, <2>2 DEF Kept
<1>10. SeenIsTracked'
  <2> SUFFICES ASSUME NEW j \in DOMAIN seen'
               PROVE  \/ Entry(seen'[j]) \in tracked'[KeyOf(seen'[j])]
                      \/ \E i \in DOMAIN seen' : /\ KeyOf(seen'[i]) = KeyOf(seen'[j])
                                                 /\ seen'[i].ts - seen'[j].ts >= TimeWindow
    BY DEF SeenIsTracked
  <2> DEFINE f == seen'[j]
  <2>1. /\ f.ts \in Nat /\ e.ts \in Nat /\ TimeWindow \in Nat
        /\ KeyOf(f) \in Keys
    BY <1>5, <1>6, EventParts, KeyOfEvent, StrategiesAssumption DEF Event
  <2>2. CASE KeyOf(f) = KeyOf(e) /\ ~(e.ts - f.ts < TimeWindow)
    BY <1>3, <2>1, <2>2
  <2>3. CASE e.ts - f.ts < TimeWindow /\ j = Len(seen) + 1
    <3>1. f = e BY <1>3, <2>3
    <3>2. Entry(e) \in Kept(e) BY <2>3, <3>1 DEF Kept, Entry
    <3>3. QED BY <1>8, <3>1, <3>2
  <2>4. CASE j \in DOMAIN seen /\ (KeyOf(f) = KeyOf(e) => e.ts - f.ts < TimeWindow)
    <3>1. f = seen[j] BY <1>3, <2>4
    <3>2. CASE \E i \in DOMAIN seen : /\ KeyOf(seen[i]) = KeyOf(seen[j])
                                      /\ seen[i].ts - seen[j].ts >= TimeWindow
      BY <1>3, <2>4, <3>2
    <3>3. CASE Entry(f) \in tracked[KeyOf(f)]
      BY <1>8, <2>1, <2>4, <3>3 DEF Kept, Entry
    <3>4. QED BY <2>4, <3>1, <3>2, <3>3 DEF FlowInv, SeenIsTracked
  <2>5. QED BY <1>3, <2>2, <2>3, <2>4
<1>11. seen' # <<>> /\ seen'[Len(seen')] = e /\ e.ts \in Nat
  BY <1>3, <1>6, StrategiesAssumption
<1>12. BatchIsExact'
  <2>1. ASSUME e.action = "OPEN_LONG", ~LateIn(e, seen')
        PROVE  "batched" \in fired' <=> Cardinality(BatchOf(e, seen')) >= Threshold
    <3>1. UniqueWallets(Kept(e)) \subseteq BatchOf(e, seen')
      BY <1>1, <1>2, <1>3, <1>5, <1>9, <2>1, CountedWereThere
    <3>2. BatchOf(e, seen') \subseteq UniqueWallets(Kept(e))
      BY <1>1, <1>2, <1>3, <1>5, <1>10, <2>1, ThereIsCounted
    <3>3. UniqueWallets(Kept(e)) = BatchOf(e, seen')
      BY <3>1, <3>2
    <3>4. QED BY <1>1, <2>1, <3>3, BatchedAnswers
  <2>2. \A x : BatchOf(x, seen') = Batch(x)' /\ LateIn(x, seen') = Late(x)'
    BY DEF Batch, BatchOf, Late, LateIn
  <2>3. QED BY <1>11, <2>1, <2>2 DEF BatchIsExact
<1>13. fired' \subseteq Listed /\ raised' \subseteq Listed \ fired'
  BY <1>1, BatchedAnswers
<1>14. QED
  BY <1>1, <1>3, <1>4, <1>5, <1>8, <1>9, <1>10, <1>12, <1>13 DEF FlowInv

LEMMA FlowNext == FlowInv /\ [Next]_vars => FlowInv'
<1> SUFFICES ASSUME FlowInv, [Next]_vars PROVE FlowInv'
  OBVIOUS
<1>1. ASSUME NEW message \in Messages, Drop(message) PROVE FlowInv'
  BY <1>1, ArriveInv DEF Drop
<1>2. CASE UNCHANGED vars
  BY <1>2 DEF vars, strategyVars, FlowInv, TrackedWasSeen, SeenIsTracked, BatchIsExact,
              Batch, Late
<1>3. QED BY <1>1, <1>2, ParseInv, EvaluateInv DEF Next

\* The inductive invariant: events are what the parser makes of messages; what a
\* key tracks was seen under it; what was seen is tracked until an event of its
\* key comes that is younger by a window.
THEOREM FlowInvariant == Spec => []FlowInv
<1>1. QED BY FlowInit, FlowNext, PTL DEF Spec

\* Every variable, event and leg keeps its type, and nothing is tracked that was
\* not seen (batched_wallet.py:53).
THEOREM FlowTypeCorrect == Spec => []TypeOK
<1>1. ASSUME FlowInv PROVE \A e \in Produced : e \in Event
  BY <1>1, EventParts DEF FlowInv, Produced, ToSet
<1>2. FlowInv => TypeOK
  <2> SUFFICES ASSUME FlowInv PROVE TypeOK
    OBVIOUS
  <2>1. \A e \in Produced :
          /\ e.action \in SupportedActions /\ e.value \in Nat
          /\ \A leg \in {e.legs.received, e.legs.spent} :
               /\ leg.symbol \in Coins \cup {USDC}
               /\ leg.quantity \in Nat /\ leg.price \in Nat
    BY <1>1 DEF Event, AnyLeg
  <2>2. QED BY <2>1 DEF TypeOK, FlowInv, TrackedWasSeen
<1>3. QED BY FlowInvariant, <1>2, PTL

\* For any price and quantity, down to fractions of a cent, what comes in is
\* worth what goes out up to the rounding, and no event is worth nothing
\* (hyperliquid.py, _round_value).
THEOREM FlowLegsBalance == Spec => []LegsBalance
<1>1. ASSUME NEW e, Parsed(e)
      PROVE  Distance(Worth(e.legs.received), Worth(e.legs.spent)) <= 50 /\ e.value > 0
  <2>1. PICK px \in Int, sz \in Int :
          /\ px > 0 /\ sz > 0 /\ e.value \in Rounded(px * sz)
          /\ LET coin  == Leg(e.coin, sz, px)
                 money == Leg(USDC, e.value, 1)
             IN  e.legs = IF e.action \in Acquiring
                          THEN [received |-> coin, spent |-> money]
                          ELSE [received |-> money, spent |-> coin]
    BY <1>1, EventParts
  <2>2. px * sz \in Nat \ {0}
    BY <2>1, ProductPositive
  <2>3. /\ e.value \in Nat \ {0}
        /\ e.value - px * sz <= 50 /\ px * sz - e.value <= 50
    BY <2>1, <2>2, RoundedNear
  <2>4. Worth(Leg(e.coin, sz, px)) = px * sz /\ Worth(Leg(USDC, e.value, 1)) = e.value
    BY <2>1, <2>3 DEF Worth, Leg
  <2>5. \/ /\ Worth(e.legs.received) = px * sz /\ Worth(e.legs.spent) = e.value
        \/ /\ Worth(e.legs.received) = e.value /\ Worth(e.legs.spent) = px * sz
    BY <2>1, <2>4 DEF Worth
  <2>6. QED BY <2>2, <2>3, <2>5 DEF Distance
<1>2. FlowInv => LegsBalance
  BY <1>1 DEF FlowInv, LegsBalance, Produced, ToSet
<1>3. QED BY FlowInvariant, <1>2, PTL

\* An alert names the coin of the fill (alerts.py and hyperliquid.py each keep a
\* list of the actions that bring the coin in).
THEOREM FlowAlertNamesCoin == Spec => []AlertNamesCoin
<1>1. ASSUME NEW e, Parsed(e) PROVE AlertToken(e) = e.coin
  <2>1. PICK px \in Int, sz \in Int :
          LET coin  == Leg(e.coin, sz, px)
              money == Leg(USDC, e.value, 1)
          IN  e.legs = IF e.action \in Acquiring
                       THEN [received |-> coin, spent |-> money]
                       ELSE [received |-> money, spent |-> coin]
    BY <1>1, EventParts
  <2>2. e.action \in SupportedActions
    BY <1>1, EventParts DEF Event
  <2>3. e.action \in AlertReceived <=> e.action \in Acquiring
    BY <2>2 DEF SupportedActions, AlertReceived, Acquiring
  <2>4. QED BY <2>1, <2>3 DEF AlertToken, Leg
<1>2. FlowInv => AlertNamesCoin
  BY <1>1 DEF FlowInv, AlertNamesCoin, Produced, ToSet
<1>3. QED BY FlowInvariant, <1>2, PTL

\* For any number of wallets, events and coins, any threshold and window: the
\* batched-wallet strategy answers an opened long exactly when enough distinct
\* wallets opened one in the same coin within the window, provided no younger one
\* was evaluated before it (batched_wallet.py:79).
THEOREM FlowBatchIsExact == Spec => []BatchIsExact
<1>1. FlowInv => BatchIsExact
  BY DEF FlowInv
<1>2. QED BY FlowInvariant, <1>1, PTL
=============================================================================
