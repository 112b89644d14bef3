---------------------------- MODULE MCCardOrders ----------------------------
(* Instances of CardOrders for TLC. *)
EXTENDS CardOrders

CONSTANTS ann, ethereum, a1, a2, o1, o2

\* Ann has a wallet with balances of two tokens, and orders twice.
OneUserOwner == [row \in {a1, a2} |-> ann]
OneWallet == [row \in {a1, a2} |-> ethereum]
OneUserBuyer == [o \in {o1, o2} |-> ann]
=============================================================================
