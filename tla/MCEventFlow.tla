----------------------------- MODULE MCEventFlow -----------------------------
(* Two wallets and two coins; trades far below a cent, on a tie and of many  *)
(* cents, in every direction; messages of one fill or two, and messages whose *)
(* first fill is wrong in one field.                                          *)
EXTENDS EventFlow

CONSTANTS BTC, ETH, w1, w2
MCCoins == {BTC, ETH}
MCWallets == {w1, w2}
Symm == Permutations(MCCoins) \cup Permutations(MCWallets)

Fill(coin, px, sz, dir) == [coin |-> coin, px |-> px, sz |-> sz, dir |-> dir]

Good == {Fill(c, 133, 7, d) : c \in MCCoins,
                              d \in {"Open Long", "Close Long", "Open Short", "Close Short"}}
        \cup {Fill(c, 133, 50, "Open Long") : c \in MCCoins}
Wrong == {Fill(Bad, 133, 7, "Open Long")}
         \cup UNION {{Fill(c, Bad, 7, "Open Long"), Fill(c, 133, Bad, "Open Long"),
                      Fill(c, 0, 7, "Open Long"), Fill(c, 133, 0, "Open Long"),
                      Fill(c, 133, 7, "Buy"), Fill(c, 133, 7, "Long > Short")} : c \in MCCoins}

MCMessages ==
  {<<>>} \cup {<<f>> : f \in Good}
  \cup {<<f, Fill(c, 5, 7, "Open Short")>> : f \in Wrong, c \in MCCoins}
  \cup {<<Fill(c, 5, 7, "Open Long"), Fill(d, 133, 7, "Open Long")>> :
          c \in MCCoins, d \in MCCoins}
=============================================================================
