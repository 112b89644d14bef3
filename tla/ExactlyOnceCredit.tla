------------------------- MODULE ExactlyOnceCredit -------------------------
(***************************************************************************)
(* What the deposit webhook promises, without requests or transactions:    *)
(* an announced deposit is added to the balance it was sent to once, and   *)
(* the provider is told so only afterwards.  Deposits implements this.     *)
(***************************************************************************)
EXTENDS Naturals

CONSTANTS
    Refs,           \* provider references, one per transfer
    Rows,           \* balance rows (wallet, token)
    Dest            \* Dest[ref]: the row the transfer was sent to, in [Refs -> Rows]

VARIABLES
    ledger,         \* ledger[row][ref]: how often ref's amount was added to row
    settled         \* references the provider stopped delivering

vars == <<ledger, settled>>

Init ==
    /\ ledger = [row \in Rows |-> [ref \in Refs |-> 0]]
    /\ settled = {}

Credit(ref) ==
    /\ \A row \in Rows : ledger[row][ref] = 0
    /\ ledger' = [ledger EXCEPT ![Dest[ref]][ref] = 1]
    /\ UNCHANGED settled

Settle(ref) ==
    /\ ledger[Dest[ref]][ref] = 1
    /\ settled' = settled \union {ref}
    /\ UNCHANGED ledger

Next == \E ref \in Refs : Credit(ref) \/ Settle(ref)

Spec == Init /\ [][Next]_vars
=============================================================================
