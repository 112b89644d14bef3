----------------------------- MODULE MCSessions -----------------------------
(* Instances of Sessions for TLC. *)
EXTENDS Sessions

CONSTANTS phone, home, a, b, c, r1, r2

\* The lifetime of .env.example, and one longer than the blacklist's entries.
MCExpiries == {[unit |-> "m", minutes |-> 30], [unit |-> "m", minutes |-> 60]}
=============================================================================
