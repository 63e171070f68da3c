----------------------------- MODULE Strategies -----------------------------
(***************************************************************************)
(* The strategies a TransactionProcessor can be given, evaluated one after *)
(* the other on each event of the parser (Fills.tla): BatchedWalletStrategy,*)
(* which keeps the wallets seen per token and action, and                   *)
(* large_transaction_strategy and high_volume_strategy, which keep nothing. *)
(* The parser gives events no token ids and no volumes.                     *)
(*                                                                         *)
(* Operators named <definition>_<fault> are faulty variants that no        *)
(* specification uses; they show that the properties can fail.             *)
(***************************************************************************)
EXTENDS Fills, FiniteSets, SequencesExt

CONSTANTS
  Wallets,
  TimeWindow,   \* time_window
  Threshold,    \* batch_threshold
  LargeValue,   \* threshold of large_transaction_strategy
  MaxTime       \* bound: largest timestamp, in seconds

ASSUME StrategiesAssumption ==
  /\ TimeWindow \in Nat /\ Threshold \in Nat /\ LargeValue \in Nat /\ MaxTime \in Nat

Listed == {"batched", "large", "volume"}

VARIABLES
  tracked,   \* token_action_transactions: [wallet, ts] entries per key; all that is
             \* ever asked of a list is which wallets are in it, so a set will do
  fired,     \* the strategies that gave a result for the last event
  raised     \* those that raised an exception on it

strategyVars == <<tracked, fired, raised>>

\* tracking_key, from the legs the parser wrote.
KeyOf_CoinOnly(e) == <<e.legs.received.symbol, "OPEN_LONG">>

KeyOf(e) ==
  <<IF e.action \in {"BUY", "OPEN_LONG"} THEN e.legs.received.symbol
                                         ELSE e.legs.spent.symbol, e.action>>

Keys == (Coins \cup {USDC}) \X SupportedActions

Entry(e) == [wallet |-> e.wallet, ts |-> e.ts]

StrategiesInit ==
  /\ tracked = [k \in Keys |-> {}]
  /\ fired = {} /\ raised = {}

-----------------------------------------------------------------------------
\* The entry is added and the old ones removed; both before anything can fail.
Kept(e) == {t \in tracked[KeyOf(e)] \cup {Entry(e)} : e.ts - t.ts < TimeWindow}

UniqueWallets(entries) == {t.wallet : t \in entries}

\* What a strategy answers.  The legs of an acquiring event are read by names
\* that exist; the others ask for event.spent_token_amount, and the volume
\* strategy for a volume, and neither is an attribute of the event.
ReadLegs(e) == IF e.action \in Acquiring THEN "result" ELSE "raises"

BatchedWallet(e) ==
  IF Cardinality(UniqueWallets(Kept(e))) >= Threshold THEN ReadLegs(e) ELSE "none"

LargeTransaction(e) ==
  IF ReadLegs(e) = "result" /\ e.legs.received.quantity * e.legs.received.price <= LargeValue
  THEN "none" ELSE ReadLegs(e)

HighVolume(e) == "raises"

Answer(s, e) ==
  CASE s = "batched" -> BatchedWallet(e)
    [] s = "large"   -> LargeTransaction(e)
    [] s = "volume"  -> HighVolume(e)

\* The processor's loop over the strategies: an exception of one is logged and
\* counts as no match, the others are evaluated all the same.
EvaluateAll(e) ==
  /\ tracked' = [tracked EXCEPT ![KeyOf(e)] = Kept(e)]
  /\ fired' = {s \in Listed : Answer(s, e) = "result"}
  /\ raised' = {s \in Listed : Answer(s, e) = "raises"}
=============================================================================
