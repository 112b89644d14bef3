------------------------ MODULE MCWalletProvisioning ------------------------
(* Instances of WalletProvisioning for TLC. *)
EXTENDS WalletProvisioning

CONSTANTS ann, bob, base, tron, usdc, usdt

TokensOnChains == [c \in {base, tron} |-> IF c = base THEN {usdc, usdt} ELSE {usdt}]
=============================================================================
