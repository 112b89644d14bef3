--------------------------- MODULE MCTotalBalance ---------------------------
(* Instances of TotalBalance for TLC. *)
EXTENDS TotalBalance

CONSTANTS usdtEthereum, usdtSolana, usdcSolana, r1

\* Each token is seeded on two chains: a symbol may have two balances.
TwoSymbols == [b \in {usdtEthereum, usdtSolana, usdcSolana} |-> IF b = usdcSolana THEN "usdc" ELSE "usdt"]

\* A balance may be overdrawn; the balances of a symbol add up to -2, 0 or 2.
OverdrawnOrNot == {-1, 1}
=============================================================================
