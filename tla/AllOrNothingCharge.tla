------------------------- MODULE AllOrNothingCharge -------------------------
(***************************************************************************)
(* What ordering a card promises about money: an order is paid for in full *)
(* in one step or not at all, never after it was answered; 201 says that   *)
(* it was paid, 400 that it was not.  CardOrders implements this.          *)
(***************************************************************************)
EXTENDS AllocationPlan

CONSTANTS
    Rows,           \* balance rows
    Orders,         \* order requests
    Own             \* Own[o]: the rows an order may take from

VARIABLES
    price,          \* the card order amount
    avail,          \* availableBalance of each row
    paid,           \* paid[o]: the debits of an order, <<>> before
    answer          \* status the user got, 0 before

vars == <<price, avail, paid, answer>>

Init ==
    /\ price \in Nat
    /\ avail \in [Rows -> Nat]
    /\ paid = [o \in Orders |-> <<>>]
    /\ answer = [o \in Orders |-> 0]

\* Debits that pay the price from distinct rows of the user.
Pays(o, debits) ==
    /\ price > 0 /\ debits # <<>> /\ Total(debits) = price
    /\ \A i \in DOMAIN debits : debits[i].row \in Own[o]
    /\ \A i, j \in DOMAIN debits : i # j => debits[i].row # debits[j].row

Pay(o) ==
    /\ paid[o] = <<>> /\ answer[o] = 0
    /\ Pays(o, paid'[o])
    /\ paid' = [paid EXCEPT ![o] = paid'[o]]
    /\ avail' = [row \in Rows |-> avail[row] - AmountOn(paid'[o], row)]
    /\ UNCHANGED <<price, answer>>

Answer(o, status) ==
    /\ answer[o] = 0
    /\ status = 201 => paid[o] # <<>>
    /\ status = 400 => paid[o] = <<>>
    /\ answer' = [answer EXCEPT ![o] = status]
    /\ UNCHANGED <<price, avail, paid>>

\* Swapped deposits arrive.
Fund(row) ==
    /\ avail' = [avail EXCEPT ![row] = @ + 1]
    /\ UNCHANGED <<price, paid, answer>>

Next ==
    \/ \E o \in Orders : Pay(o)
    \/ \E o \in Orders, status \in {201, 400, 500} : Answer(o, status)
    \/ \E row \in Rows : Fund(row)

Spec == Init /\ [][Next]_vars
=============================================================================
