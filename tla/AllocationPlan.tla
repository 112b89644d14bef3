--------------------------- MODULE AllocationPlan ---------------------------
(***************************************************************************)
(* What getWalletAllocationsForAmount promises in its comment              *)
(* (wallets.service.ts 49-73): how a target amount is taken from balances. *)
(* WalletAllocation shows that its loop computes exactly these plans.      *)
(***************************************************************************)
EXTENDS Integers, SequencesExt

Total(plan) == FoldSeq(LAMBDA item, sum : item.amount + sum, 0, plan)

\* The amounts that may be taken from one balance.
Items(balance, target) ==
    {item \in [row : DOMAIN balance, amount : 1..target] :
        item.amount <= balance[item.row]}

\* Smallest balances first, each drained but the last, none twice, none
\* smaller left out, the target met exactly.
IsPlan(plan, balance, target) ==
    /\ plan # <<>> /\ Total(plan) = target
    /\ \A i, j \in DOMAIN plan : i < j =>
          /\ plan[i].row # plan[j].row
          /\ balance[plan[i].row] <= balance[plan[j].row]
    /\ \A i \in DOMAIN plan : i < Len(plan) =>
          plan[i].amount = balance[plan[i].row]
    /\ \A row \in DOMAIN balance :
          \/ balance[row] <= 0
          \/ \E i \in DOMAIN plan : plan[i].row = row
          \/ \A i \in DOMAIN plan : balance[plan[i].row] <= balance[row]

Plans(balance, target) ==
    {plan \in SeqOf(Items(balance, target), Cardinality(DOMAIN balance)) :
        IsPlan(plan, balance, target)}

\* What a plan takes from a row.
AmountOn(plan, row) ==
    LET at == {i \in DOMAIN plan : plan[i].row = row}
    IN  IF at = {} THEN 0 ELSE plan[CHOOSE i \in at : TRUE].amount
=============================================================================
