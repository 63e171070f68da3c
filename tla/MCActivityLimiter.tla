------------------------- MODULE MCActivityLimiter -------------------------
EXTENDS ActivityLimiter, TLC

CONSTANTS w1, w2
MCWallets == {w1, w2}
Symm == Permutations(MCWallets)
=============================================================================
