------------------------------ MODULE EventFlow ------------------------------
(***************************************************************************)
(* The way of a fill through the listener and the strategies: a message of  *)
(* fills is parsed into an event or dropped; the event waits (its handler   *)
(* is busy with the database, Processor.tla); then all strategies see it.   *)
(* Handlers overtake one another, so that events are evaluated in any       *)
(* order, and one whose handler ends early is never evaluated.              *)
(* Operators named <definition>_<fault> are variants no specification uses. *)
(***************************************************************************)
EXTENDS Strategies, Bags

CONSTANTS
  Messages,     \* what the exchange may send: sequences of fills [coin, px, sz, dir]
  MinValue,     \* min_transaction_value
  MaxMessages   \* bound: messages received

\* A fill as it may come: a field is missing, not a number, or what it should be.
RawFill == [coin : Coins \cup {Bad}, px : Int \cup {Bad}, sz : Int \cup {Bad}, dir : STRING]

ASSUME EventFlowAssumption ==
  /\ MinValue \in Nat /\ MaxMessages \in Nat
  /\ Messages \subseteq Seq(RawFill)

VARIABLES
  received,   \* how many messages have arrived
  pending,    \* the bag of events whose handlers are under way
  seen        \* history: the events evaluated, in order

vars == <<strategyVars, received, pending, seen>>

Init ==
  /\ StrategiesInit
  /\ received = 0 /\ pending = EmptyBag /\ seen = <<>>

Arrive ==
  /\ received < MaxMessages
  /\ received' = received + 1
  /\ UNCHANGED <<strategyVars, seen>>

\* The event of a message, with the wallet it was subscribed for, the time of
\* its first fill, and (history) that fill's coin.
Stamped(w, ts, message, e) ==
  [wallet |-> w, ts |-> ts, coin |-> message[1].coin,
   action |-> e.action, value |-> e.value, legs |-> e.legs]

Parse(w, ts, message) ==
  /\ Usable(message)
  /\ \E e \in Events(message) :
       pending' = pending (+) SetToBag({Stamped(w, ts, message, e)})
  /\ Arrive

Drop(message) ==
  /\ ~Usable(message)
  /\ Arrive
  /\ UNCHANGED pending

\* Transactions below the threshold never get as far as the strategies.
Evaluate(e) ==
  /\ e.value >= MinValue
  /\ EvaluateAll(e)
  /\ pending' = pending (-) SetToBag({e})
  /\ seen' = Append(seen, e)
  /\ UNCHANGED received

Next ==
  \/ \E message \in Messages :
       Drop(message) \/ \E w \in Wallets, ts \in 0..MaxTime : Parse(w, ts, message)
  \/ \E e \in DOMAIN pending : Evaluate(e)

Spec == Init /\ [][Next]_vars

-----------------------------------------------------------------------------
Produced == DOMAIN pending \cup ToSet(seen)

TypeOK ==
  /\ tracked \in [Keys -> SUBSET [wallet : Wallets, ts : 0..MaxTime]]
  /\ \A k \in Keys : \A t \in tracked[k] : \E j \in DOMAIN seen :
       KeyOf(seen[j]) = k /\ Entry(seen[j]) = t
  /\ fired \subseteq Listed /\ raised \subseteq Listed \ fired
  /\ received \in 0..MaxMessages
  /\ \A e \in Produced :
       /\ e.action \in SupportedActions /\ e.value \in Nat
       /\ \A leg \in {e.legs.received, e.legs.spent} :
            /\ leg.symbol \in Coins \cup {USDC}
            /\ leg.quantity \in Nat /\ leg.price \in Nat

Worth(leg) == leg.quantity * leg.price
Distance(a, b) == IF a < b THEN b - a ELSE a - b

\* What comes in is worth what goes out, up to the half cent that rounding may
\* take, and an event is never worth nothing, however small the trade: the
\* reason for the exception _round_value makes below one cent.
LegsBalance ==
  \A e \in Produced :
    /\ Distance(Worth(e.legs.received), Worth(e.legs.spent)) <= 50
    /\ e.value > 0

\* The six branches of the parser and the list of actions in the alert agree:
\* an alert names the coin traded, never the USDC on the other leg.
AlertNamesCoin == \A e \in Produced : AlertToken(e) = e.coin

\* The wallets that did to the event's coin what the event did, less than a
\* window away from it.
SameMove(e, f) == f.action = e.action /\ f.coin = e.coin

Batch(e) ==
  {seen[i].wallet : i \in {j \in DOMAIN seen :
     SameMove(e, seen[j]) /\ Distance(e.ts, seen[j].ts) < TimeWindow}}

\* A younger event that made the same move was evaluated before this one.
Late(e) == \E i \in DOMAIN seen : SameMove(e, seen[i]) /\ seen[i].ts > e.ts

\* From the fills to the answer: opening longs are answered by the batched-wallet
\* strategy when, and only when, enough distinct wallets opened a long in the same
\* coin within the window; whatever was evaluated before, on this key or on others,
\* and in whatever order, as long as the event itself is not late.  For late events
\* and for the other three actions the code does not keep this promise (README,
\* section 3), and nothing is claimed.
BatchIsExact ==
  seen # <<>> =>
    LET last == seen[Len(seen)]
    IN  last.action = "OPEN_LONG" /\ ~Late(last) =>
          ("batched" \in fired <=> Cardinality(Batch(last)) >= Threshold)
=============================================================================
