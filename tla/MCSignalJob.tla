----------------------------- MODULE MCSignalJob -----------------------------
(* Prices of 1000 half ticks: supports at, within, on the edge of and beyond  *)
(* five percent; ATRs on both sides of one and two percent and far above; one *)
(* thing wrong at a time.                                                    *)
EXTENDS SignalJob

Fine == [feed |-> "full", close |-> 1000, support |-> 980, atr |-> 7,
         bad |-> {}, nan |-> {}, breaks |-> FALSE]

MCMarkets ==
  {[Fine EXCEPT !.support = p, !.atr = a] : p \in {900, 950, 1000}, a \in {4, 5, 9, 10, 60}}
  \cup {[Fine EXCEPT !.bad = {c}] : c \in Conditions}
  \cup {[Fine EXCEPT !.nan = {c}] : c \in {"rsi", "volume", "support", "atr"}}
  \cup {[Fine EXCEPT !.nan = {"support", "atr"}], [Fine EXCEPT !.support = 1000, !.atr = 0]}
  \cup {[Fine EXCEPT !.breaks = TRUE]}
  \cup {[Fine EXCEPT !.feed = f] : f \in {"short", "down", "garbled"}}
  \cup {[Fine EXCEPT !.feed = "holey", !.atr = a] : a \in {4, 60}}

\* 0.5 and 1.5, as in the configuration files.
MCSlMult == [a \in Apps |-> IF a = "pa_engine" THEN 1 ELSE 3]

\* The configuration files and these markets meet the condition under which no
\* stop is ever out of reach.
ASSUME PrudentAssumption == Prudent
=============================================================================
