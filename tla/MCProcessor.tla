---------------------------- MODULE MCProcessor ----------------------------
EXTENDS Processor

CONSTANTS h1, h2, a, b

\* Two wallets in one transaction, a second transaction, and one too small.
MCHashes == {h1, h2}
MCWallets == {a, b}
MCEvents == {[hash |-> h1, wallet |-> a, large |-> TRUE],
             [hash |-> h1, wallet |-> b, large |-> TRUE],
             [hash |-> h2, wallet |-> b, large |-> TRUE],
             [hash |-> h2, wallet |-> a, large |-> FALSE]}
=============================================================================
