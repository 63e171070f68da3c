--------------------------- MODULE MCCoinMarketCap ---------------------------
EXTENDS CoinMarketCap, TLC

CONSTANTS s1, s2, c1, c2, c3
MCSymbols == {s1, s2}
MCCalls == {c1, c2, c3}
Symm == Permutations(MCSymbols) \cup Permutations(MCCalls)
=============================================================================
