-------------------------- MODULE WalletAllocation --------------------------
(***************************************************************************)
(* getWalletAllocationsForAmount of wallets.service.ts: collect the funded *)
(* balances of a user's wallets, sort them, take from the smallest first.  *)
(*                                                                         *)
(* Amounts are integers (the code computes in JavaScript numbers).  The    *)
(* query gives wallets and balances in no particular order, so balances    *)
(* of the same amount may be sorted either way.                            *)
(*                                                                         *)
(* BalancesProofs extends this module together with others, so names that  *)
(* every module has (the next statement, Init, Spec, ...) differ from      *)
(* theirs.                                                                 *)
(***************************************************************************)
EXTENDS AllocationPlan

CONSTANTS
    MaxWallets,     \* bound on the wallets of a user
    MaxPerWallet,   \* bound on the balances of a wallet
    MaxAvailable,   \* bound on an availableBalance
    MaxAmount       \* bound on the amount to allocate

ASSUME WalletsAssumption ==
    /\ MaxWallets \in Nat /\ MaxPerWallet \in Nat
    /\ MaxAvailable \in Nat /\ MaxAmount \in Nat

VARIABLES
    wallets,        \* wallets of the user: for each the availableBalance of its balances
    wanted,         \* the amount to allocate
    balances,       \* funded balances collected
    sorted,         \* those not yet looked at, in ascending order
    result,         \* allocations made
    remaining,      \* amount still to allocate
    stage           \* the loop that is next, or how the call ended

allocationVars == <<wallets, wanted, balances, sorted, result, remaining, stage>>

\* Object.entries of an array names its elements "0", "1", ...
EntryName(i) == ToString(i - 1)

\* balanceIds: <<w, i>> is the i-th balance of wallet w.
Ids == UNION {{w} \X DOMAIN wallets[w] : w \in DOMAIN wallets}

Available == [id \in Ids |-> wallets[id[1]][id[2]]]

AllocationInit ==
    /\ wallets \in SeqOf(SeqOf(0..MaxAvailable, MaxPerWallet), MaxWallets)
    /\ wanted \in 1..MaxAmount
    /\ balances = {} /\ sorted = <<>> /\ result = <<>>
    /\ remaining = wanted
    /\ stage = "collect"

\* Keep the balances with something available.
Collect ==
    /\ stage = "collect"
    /\ balances' = {[balanceId |-> id, token |-> EntryName(id[2]), amount |-> Available[id]] :
                        id \in {x \in Ids : Available[x] > 0}}
    /\ stage' = "sort"
    /\ UNCHANGED <<wallets, wanted, sorted, result, remaining>>

Ascending(s) == \A i, j \in DOMAIN s : i < j => s[i].amount <= s[j].amount

\* Mutant of SortBalances: the comparator is left out.
SortBalancesUnsorted ==
    /\ stage = "sort"
    /\ sorted' \in SetToSeqs(balances)
    /\ stage' = "deduct"
    /\ UNCHANGED <<wallets, wanted, balances, result, remaining>>

\* Mutant of SortBalances: b.amount - a.amount.
SortBalancesDescending ==
    /\ stage = "sort"
    /\ sorted' \in {s \in SetToSeqs(balances) : Ascending(Reverse(s))}
    /\ stage' = "deduct"
    /\ UNCHANGED <<wallets, wanted, balances, result, remaining>>

SortBalances ==
    /\ stage = "sort"
    /\ sorted' \in {s \in SetToSeqs(balances) : Ascending(s)}
    /\ stage' = "deduct"
    /\ UNCHANGED <<wallets, wanted, balances, result, remaining>>

Deduct ==
    /\ stage = "deduct"
    /\ sorted # <<>> /\ remaining > 0
    /\ LET deductAmount == Min({remaining, Head(sorted).amount})
       IN  /\ result' = Append(result, [Head(sorted) EXCEPT !.amount = deductAmount])
           /\ remaining' = remaining - deductAmount
    /\ sorted' = Tail(sorted)
    /\ UNCHANGED <<wallets, wanted, balances, stage>>

\* Mutant of Finish: throws when nothing remains.
FinishAtZero ==
    /\ stage = "deduct"
    /\ sorted = <<>> \/ remaining <= 0
    /\ stage' = IF remaining >= 0 THEN "threw" ELSE "returned"
    /\ UNCHANGED <<wallets, wanted, balances, sorted, result, remaining>>

Finish ==
    /\ stage = "deduct"
    /\ sorted = <<>> \/ remaining <= 0
    /\ stage' = IF remaining > 0 THEN "threw" ELSE "returned"
    /\ UNCHANGED <<wallets, wanted, balances, sorted, result, remaining>>

AllocationNext == Collect \/ SortBalances \/ Deduct \/ Finish

AllocationSpec == AllocationInit /\ [][AllocationNext]_allocationVars

-----------------------------------------------------------------------------
(* Properties. *)

\* The allocations as a plan over balance rows.
Plan == [i \in DOMAIN result |-> [row |-> result[i].balanceId, amount |-> result[i].amount]]

\* What the loop has taken and what remains make up the amount, and no balance
\* gives more than it has.
AllocationTypeOK ==
    /\ stage \in {"collect", "sort", "deduct", "threw", "returned"}
    /\ remaining \in 0..wanted
    /\ remaining = wanted - Total(Plan)
    /\ \A i \in DOMAIN result : result[i].amount \in 1..Available[result[i].balanceId]

\* The allocations returned are a plan: the amount exactly, the smallest
\* balances first, at most the last one in part.
ReturnsPlan == stage = "returned" => IsPlan(Plan, Available, wanted)

\* The call throws only if the balances do not add up to the amount
\* (wallets.service.ts 64-65).
ThrowsOnlyWhenShort ==
    stage = "threw" => MapThenSumSet(LAMBDA id : Available[id], Ids) < wanted

\* Every plan takes the same amounts: the order of equal balances does not
\* change what is debited, so IsPlan leaves no freedom the code does not have.
OutcomeIsDetermined ==
    stage = "returned" =>
        \A plan \in Plans(Available, wanted) :
            /\ Len(plan) = Len(result)
            /\ \A i \in DOMAIN plan : plan[i].amount = result[i].amount
=============================================================================
