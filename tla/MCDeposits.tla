----------------------------- MODULE MCDeposits -----------------------------
(* Instances of Deposits for TLC. *)
EXTENDS Deposits

CONSTANTS d1, d2, s1, a1, usdt, r1, r2

Event(ref, kind, signed) ==
    [ref |-> ref, kind |-> kind, signed |-> signed, address |-> a1, token |-> usdt]

\* Two deposits to one balance, an unsigned copy, an event that is not handled.
Mixed == {Event(d1, "deposit.success", TRUE), Event(d2, "deposit.success", TRUE),
          Event(d1, "deposit.success", FALSE), Event(s1, "swap.success", TRUE)}
=============================================================================
