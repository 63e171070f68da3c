--------------------------- MODULE SlidingWindow ---------------------------
(***************************************************************************)
(* What the wallet activity limiter promises, stated on the whole history: *)
(* nothing is ever pruned.  A wallet is banned at the moment its number of *)
(* recorded transactions within the last Window seconds exceeds MaxTx, it  *)
(* records nothing while banned, and the ban is lifted only once it has    *)
(* lasted longer than TTL.  ActivityLimiter.tla, with the bounded deque of *)
(* the code, is checked to implement this.                                 *)
(***************************************************************************)
EXTENDS Integers, Sequences, FiniteSets

CONSTANTS Wallets, Window, MaxTx, TTL, MaxTime, MaxRecords, None

VARIABLES
  now,     \* the clock, in seconds
  log,     \* log[w]: the time of every transaction ever recorded for w
  ban      \* ban[w]: when w was banned, or None

vars == <<now, log, ban>>

\* The transactions of history s that lie in the window that ends at time t.
InWindow(s, t) == {i \in 1..Len(s) : t - Window <= s[i] /\ s[i] <= t}

Init ==
  /\ now = 0
  /\ log = [w \in Wallets |-> <<>>]
  /\ ban = [w \in Wallets |-> None]

Tick ==
  /\ now < MaxTime
  /\ now' = now + 1
  /\ UNCHANGED <<log, ban>>

Served(w) == ban[w] # None /\ now - ban[w] > TTL

Lift(w) ==
  /\ Served(w)
  /\ ban' = [ban EXCEPT ![w] = None]
  /\ UNCHANGED <<now, log>>

\* A ban that is served is lifted by the record that finds it.
Record(w) ==
  /\ ban[w] = None \/ Served(w)
  /\ Len(log[w]) < MaxRecords
  /\ log' = [log EXCEPT ![w] = Append(@, now)]
  /\ ban' = [ban EXCEPT ![w] =
               IF Cardinality(InWindow(log'[w], now)) > MaxTx THEN now ELSE None]
  /\ UNCHANGED now

Next == Tick \/ \E w \in Wallets : Lift(w) \/ Record(w)

Spec == Init /\ [][Next]_vars
=============================================================================
