----------------------------- MODULE MCPriceSync -----------------------------
(* Two requests that overlap, or follow each other within or after the TTL. *)
EXTENDS PriceSync, TLC

CONSTANTS m1, m2, s1, s2
MCMints == {m1, m2}
MCSyncs == {s1, s2}
Symm == Permutations(MCMints) \cup Permutations(MCSyncs)
=============================================================================
