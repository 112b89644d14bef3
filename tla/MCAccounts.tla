----------------------------- MODULE MCAccounts -----------------------------
(* Instances of Accounts for TLC. *)
EXTENDS Accounts

CONSTANTS ada, a, b, c, r1, r2

MCKeys == [email : {ada}, context : {"login"}]
=============================================================================
