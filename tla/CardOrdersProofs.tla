-------------------------- MODULE CardOrdersProofs --------------------------
(***************************************************************************)
(* Orders are charged in full or not at all, for any number of users,      *)
(* balances and orders, any interleaving, timeout, deadlock and crash.     *)
(*                                                                         *)
(* The invariant follows one order through its request: OrderInv says what *)
(* its plan, its transaction and the committed rows are at each statement. *)
(* Orders disturb each other only through balances and locks, so a step of *)
(* one keeps the OrderInv of the others.                                   *)
(* Patience adds that the balances cover the plan of a patient user's      *)
(* order until it commits.                                                 *)
(***************************************************************************)
EXTENDS CardOrders, FiniteSetTheorems, SequenceTheorems, TLAPS

USE DEF config

Planned == InTransaction \union {"begin", "publish", "unconfirmed"}

DistinctRows(s) == \A i, j \in DOMAIN s : i # j => s[i].row # s[j].row

OwnDebits(o, s) == \A i \in DOMAIN s : s[i].row \in OwnRows(o)

\* The plan and the loop over it.
PlanInv(o) ==
    /\ pc[o] \in Planned \union {"allocate"} => amount > 0
    /\ pc[o] \in Planned =>
          /\ plan[o] # <<>> /\ Total(plan[o]) = amount
          /\ OwnDebits(o, plan[o]) /\ DistinctRows(plan[o])
    /\ pc[o] \in {"idle", "allocate", "begin", "createCardOrder", "createTransaction"}
          => next[o] = 1
    /\ pc[o] = "decrement" => next[o] \in DOMAIN plan[o]
    /\ pc[o] = "commit" => next[o] = Len(plan[o]) + 1

\* What the open transaction has written.
StagedInv(o) ==
    /\ tx[o] # "none" => pc[o] \in InTransaction
    /\ tx[o] # "open" => staged[o] = NothingStaged
    /\ pc[o] \notin {"decrement", "commit"} => staged[o] = NothingStaged
    /\ tx[o] = "open" /\ pc[o] \in {"decrement", "commit"} =>
          /\ entries[o] = Entries(plan[o])
          /\ \A row \in Rows : staged[o][row] =
                IF \E i \in 1..(next[o] - 1) : plan[o][i].row = row
                THEN AmountOn(plan[o], row) ELSE 0

\* What the order has committed.
CommittedInv(o) ==
    /\ pc[o] \in {"createTransaction", "decrement", "commit", "publish", "unconfirmed"}
          => o \in cardOrders
    /\ pc[o] \in {"idle", "allocate", "begin", "createCardOrder"} => o \notin cardOrders
    /\ pc[o] \in {"publish", "unconfirmed"} => txns[o] # <<>>
    /\ txns[o] # <<>> =>
          /\ pc[o] \in {"publish", "unconfirmed"} \union Ended
          /\ o \in cardOrders
          /\ txns[o] = Entries(plan[o]) /\ plan[o] # <<>>
          /\ amount > 0 /\ Total(plan[o]) = amount
          /\ OwnDebits(o, plan[o]) /\ DistinctRows(plan[o])
    /\ pc[o] = "unconfirmed" => faults > 0

\* What the user has been told.
AnswerInv(o) ==
    /\ code[o] # 0 <=> pc[o] = "done"
    /\ code[o] = 201 => txns[o] # <<>> /\ o \in cardOrders \intersect published
    /\ code[o] = 400 => txns[o] = <<>> /\ o \notin cardOrders
    /\ code[o] = 500 /\ faults = 0 => txns[o] = <<>>

OrderInv(o) == PlanInv(o) /\ StagedInv(o) /\ CommittedInv(o) /\ AnswerInv(o)

IInv == TypeOK /\ RowsLocked /\ \A o \in Orders : OrderInv(o)

-----------------------------------------------------------------------------
(* Lemmas about plans. *)

LEMMA FunctionIsSeq ==
    ASSUME NEW S, NEW m \in Nat, NEW f \in [1..m -> S]
    PROVE  f \in Seq(S)
BY SeqDef

LEMMA ElementOfDebits ==
    ASSUME NEW S, NEW s \in Seq(S), NEW i \in DOMAIN s
    PROVE  s[i] \in S
BY LenProperties, ElementOfSeq

\* Allocate gives a plan that pays the amount from distinct rows of the user.
LEMMA PlansPay ==
    ASSUME NEW o \in Orders, NEW p \in Plans(Balances(o), Price)
    PROVE  /\ p \in Debits /\ p # <<>> /\ Total(p) = Price
           /\ OwnDebits(o, p) /\ DistinctRows(p)
<1> DEFINE bal == Balances(o)
           n == Cardinality(DOMAIN bal)
<1>1. DOMAIN bal = OwnRows(o)
    BY DEF Balances
<1>2. n \in Nat
    <2>1. IsFiniteSet(OwnRows(o))
        BY OwnersAssumption, FS_Subset DEF OwnRows
    <2> QED BY <1>1, <2>1, FS_CardinalityType
<1>3. PICK m \in 0..n : p \in [1..m -> Items(bal, Price)]
    BY DEF Plans, SeqOf
<1>4. Items(bal, Price) \subseteq [row : OwnRows(o), amount : 1..Price]
    BY <1>1 DEF Items
<1>5. m \in Nat /\ p \in [1..m -> [row : OwnRows(o), amount : 1..Price]]
    <2>1. m \in Nat
        BY <1>2, <1>3
    <2> DEFINE items == Items(bal, Price)
    <2>2. p \in [1..m -> items] /\ items \subseteq [row : OwnRows(o), amount : 1..Price]
        BY <1>3, <1>4
    <2> HIDE DEF items
    <2> QED BY <2>1, <2>2
<1>6. p \in Debits /\ OwnDebits(o, p)
    <2>1. p \in [1..m -> [row : Rows, amount : 1..Price]]
        BY <1>5 DEF OwnRows
    <2>2. OwnDebits(o, p)
        BY <1>5 DEF OwnDebits
    <2> QED BY <1>5, <2>1, <2>2, FunctionIsSeq DEF Debits
<1>7. IsPlan(p, bal, Price)
    BY DEF Plans
<1>8. DistinctRows(p)
    <2> SUFFICES ASSUME NEW i \in DOMAIN p, NEW j \in DOMAIN p, i # j
                 PROVE  p[i].row # p[j].row
        BY DEF DistinctRows, OwnDebits
    <2>1. i \in Int /\ j \in Int
        BY <1>5
    <2> QED BY <2>1, <1>7 DEF IsPlan
<1> QED BY <1>6, <1>7, <1>8 DEF IsPlan

\* Each allocation has its entry.
LEMMA EntriesType ==
    ASSUME NEW p \in Debits
    PROVE  /\ Entries(p) \in JournalEntries
           /\ DOMAIN Entries(p) = DOMAIN p
           /\ p # <<>> => Entries(p) # <<>>
<1>1. Len(p) \in Nat /\ DOMAIN p = 1..Len(p)
    BY LenProperties DEF Debits
<1>2. \A i \in DOMAIN p : p[i] \in [row : Rows, amount : 1..Price]
    BY ElementOfDebits DEF Debits
<1>3. \A i \in DOMAIN p : WalletOf[p[i].row] \in Wallets /\ p[i].amount \in 1..Price
    BY <1>2, OwnersAssumption
<1>4. Entries(p) \in [1..Len(p) -> [wallet : Wallets, amount : 1..Price]]
    BY <1>1, <1>3 DEF Entries
<1>5. Entries(p) \in JournalEntries
    BY <1>1, <1>4, FunctionIsSeq DEF JournalEntries
<1>6. p # <<>> => DOMAIN p # {}
    <2>1. p # <<>> => Len(p) # 0
        BY EmptySeq DEF Debits
    <2>2. ASSUME NEW n \in Nat, n # 0 PROVE 1 \in 1..n
        BY <2>2
    <2> QED BY <1>1, <2>1, <2>2
<1>7. DOMAIN Entries(p) = DOMAIN p
    BY DEF Entries
<1>8. ASSUME p # <<>> PROVE Entries(p) # <<>>
    BY <1>6, <1>7, <1>8
<1> QED BY <1>5, <1>7, <1>8

LEMMA AmountOnItem ==
    ASSUME NEW s, DistinctRows(s), NEW i \in DOMAIN s
    PROVE  AmountOn(s, s[i].row) = s[i].amount
<1> DEFINE at == {j \in DOMAIN s : s[j].row = s[i].row}
<1>1. at = {i}
    BY DEF DistinctRows, OwnDebits
<1>2. (CHOOSE j \in at : TRUE) = i
    BY <1>1
<1> QED BY <1>1, <1>2 DEF AmountOn

LEMMA AmountOnNone ==
    ASSUME NEW s, NEW row, \A i \in DOMAIN s : s[i].row # row
    PROVE  AmountOn(s, row) = 0
<1>1. {i \in DOMAIN s : s[i].row = row} = {}
    OBVIOUS
<1> QED BY <1>1 DEF AmountOn

-----------------------------------------------------------------------------
(* The invariant. *)

LEMMA InitIInv == Init => IInv
<1> SUFFICES ASSUME Init PROVE IInv
    OBVIOUS
<1> USE DEF Init, LoadConfig, SystemConfigs
<1>1. TypeOK
    <2>1. <<>> \in Debits /\ <<>> \in JournalEntries
        BY DEF Debits, JournalEntries
    <2> QED BY <2>1, BoundsAssumption DEF TypeOK, PCs, NothingStaged
<1>2. RowsLocked
    BY DEF RowsLocked, NothingStaged
<1>3. ASSUME NEW o \in Orders PROVE OrderInv(o)
    BY <1>3 DEF OrderInv, PlanInv, StagedInv, CommittedInv, AnswerInv, Planned,
                InTransaction, Ended
<1> QED BY <1>1, <1>2, <1>3 DEF IInv

\* What a step of another order leaves as it is.
Frame(q) ==
    /\ amount' = amount
    /\ faults' \in Nat /\ faults' >= faults
    /\ q \in cardOrders' <=> q \in cardOrders
    /\ q \in published' <=> q \in published
    /\ txns'[q] = txns[q]
    /\ pc'[q] = pc[q] /\ plan'[q] = plan[q] /\ next'[q] = next[q]
    /\ tx'[q] = tx[q] /\ entries'[q] = entries[q] /\ staged'[q] = staged[q]
    /\ code'[q] = code[q]

LEMMA FrameKeepsOrderInv ==
    ASSUME TypeOK, NEW q \in Orders, OrderInv(q), Frame(q)
    PROVE  OrderInv(q)'
<1> USE DEF OrderInv, Frame
<1>1. PlanInv(q)'
    BY DEF PlanInv, DistinctRows, OwnDebits
<1>2. StagedInv(q)'
    BY DEF StagedInv
<1>3. CommittedInv(q)'
    BY DEF CommittedInv, DistinctRows, OwnDebits, TypeOK
<1>4. AnswerInv(q)'
    BY DEF AnswerInv, TypeOK
<1> QED BY <1>1, <1>2, <1>3, <1>4

\* So a step of order o has to keep the types, the locks and o's own invariant.
LEMMA StepOfOrder ==
    ASSUME IInv, NEW o \in Orders, TypeOK', RowsLocked', OrderInv(o)',
           \A q \in Orders \ {o} : Frame(q)
    PROVE  IInv'
BY FrameKeepsOrderInv DEF IInv

\* An error answer: to 400 nothing was done, to 500 nothing was committed by
\* the transaction or its commit was not confirmed.
LEMMA ThrowKeepsIInv ==
    ASSUME IInv, NEW o \in Orders, NEW status \in {400, 500}, Throw(o, status),
           UNCHANGED faults,
           pc[o] \notin Ended \union {"publish"},
           status = 400 => pc[o] \in {"idle", "allocate"}
    PROVE  IInv'
<1> USE DEF IInv, Throw, Close, Goto, journal
<1>1. TypeOK'
    <2>1. plan' \in [Orders -> Debits] /\ entries' \in [Orders -> JournalEntries] /\ txns' \in [Orders -> JournalEntries]
        <3>1. <<>> \in Debits /\ <<>> \in JournalEntries
            BY DEF Debits, JournalEntries
        <3> QED BY <3>1 DEF TypeOK
    <2>2. /\ amount' \in {0, Price} /\ avail' \in [Rows -> Int] /\ funded' \in [Rows -> Nat]
          /\ cardOrders' \subseteq Orders /\ published' \subseteq Orders
          /\ next' \in [Orders -> Nat] /\ faults' \in 0..MaxFaults
        BY DEF TypeOK
    <2>3. /\ pc' \in [Orders -> PCs] /\ code' \in [Orders -> {0, 201, 400, 500}]
          /\ tx' \in [Orders -> {"none", "open", "expired"}]
          /\ staged' \in [Orders -> [Rows -> Nat]]
        BY DEF TypeOK, PCs, Ended, NothingStaged
    <2> QED BY <2>1, <2>2, <2>3 DEF TypeOK
<1>2. RowsLocked'
    BY DEF RowsLocked, TypeOK, NothingStaged
<1>3. \A q \in Orders \ {o} : Frame(q)
    BY DEF Frame, TypeOK
<1>4. OrderInv(o)
    OBVIOUS
<1>5. PlanInv(o)' /\ StagedInv(o)'
    BY DEF PlanInv, StagedInv, Planned, InTransaction, TypeOK
<1>6. CommittedInv(o)'
    BY <1>4 DEF OrderInv, CommittedInv, Ended, DistinctRows, OwnDebits, TypeOK
<1>7. AnswerInv(o)'
    BY <1>4 DEF OrderInv, CommittedInv, AnswerInv, Ended, TypeOK, PCs, InTransaction
<1> QED BY <1>1, <1>2, <1>3, <1>5, <1>6, <1>7, StepOfOrder DEF OrderInv

LEMMA SubmitKeepsIInv ==
    ASSUME IInv, NEW o \in Orders, Submit(o)
    PROVE  IInv'
<1>1. CASE amount = 0
    BY <1>1, ThrowKeepsIInv DEF Submit, Ended
<1>2. CASE amount # 0
    <2> USE <1>2 DEF IInv, Submit, Goto, journal
    <2>1. TypeOK'
        <3>1. "allocate" \in PCs
            BY DEF PCs
        <3>2. pc' \in [Orders -> PCs]
            BY <3>1 DEF TypeOK
        <3>3. UNCHANGED <<amount, pool, patient, avail, funded, cardOrders, published, plan, next,
                          tx, entries, txns, staged, code, faults>>
            OBVIOUS
        <3> QED BY <3>2, <3>3 DEF TypeOK
    <2>2. RowsLocked'
        BY DEF RowsLocked, TypeOK
    <2>3. \A q \in Orders \ {o} : Frame(q)
        BY DEF Frame, TypeOK
    <2>4. OrderInv(o)'
        BY BoundsAssumption DEF OrderInv, PlanInv, StagedInv, CommittedInv, AnswerInv, Planned,
               InTransaction, Ended, TypeOK, DistinctRows, OwnDebits
    <2> QED BY <2>1, <2>2, <2>3, <2>4, StepOfOrder
<1> QED BY <1>1, <1>2

LEMMA AllocateKeepsIInv ==
    ASSUME IInv, NEW o \in Orders, Allocate(o)
    PROVE  IInv'
<1> DEFINE plans == Plans(Balances(o), amount)
<1>1. CASE plans = {} /\ Throw(o, 400)
    BY <1>1, ThrowKeepsIInv DEF Allocate, Ended
<1>2. CASE ~(plans = {} /\ Throw(o, 400))
    <2>1. PICK p \in plans : plan' = [plan EXCEPT ![o] = p]
        BY <1>2 DEF Allocate
    <2>2. /\ pc[o] = "allocate" /\ pc' = [pc EXCEPT ![o] = "begin"]
          /\ UNCHANGED <<config, avail, funded, cardOrders, txns, published, next, tx,
                         entries, staged, code, faults>>
        BY <1>2 DEF Allocate, Goto, journal
    <2>3. amount = Price /\ amount > 0
        BY <2>2 DEF IInv, OrderInv, PlanInv, TypeOK
    <2>4. /\ p \in Debits /\ p # <<>> /\ Total(p) = amount
          /\ OwnDebits(o, p) /\ DistinctRows(p)
        BY <2>1, <2>3, PlansPay
    <2> HIDE DEF plans
    <2> USE DEF IInv
    <2>5. TypeOK'
        <3>1. plan' \in [Orders -> Debits]
            BY <2>1, <2>4 DEF TypeOK
        <3> QED BY <2>2, <3>1 DEF TypeOK, PCs
    <2>6. RowsLocked'
        BY <2>2 DEF RowsLocked, TypeOK
    <2>7. \A q \in Orders \ {o} : Frame(q)
        BY <2>1, <2>2 DEF Frame, TypeOK
    <2>8. PlanInv(o)'
        <3>1. plan'[o] = p /\ pc'[o] = "begin" /\ UNCHANGED <<amount, next>>
            BY <2>1, <2>2 DEF TypeOK
        <3>2. next[o] = 1
            BY <2>2 DEF OrderInv, PlanInv
        <3> QED BY <3>1, <3>2, <2>3, <2>4 DEF PlanInv, DistinctRows, OwnDebits
    <2>9. StagedInv(o)' /\ CommittedInv(o)' /\ AnswerInv(o)'
        BY <2>2 DEF OrderInv, StagedInv, CommittedInv, AnswerInv, InTransaction, Ended,
                    TypeOK, DistinctRows, OwnDebits
    <2> QED BY <2>5, <2>6, <2>7, <2>8, <2>9, StepOfOrder DEF OrderInv
<1> QED BY <1>1, <1>2

LEMMA BeginKeepsIInv ==
    ASSUME IInv, NEW o \in Orders, Begin(o)
    PROVE  IInv'
<1> USE DEF IInv, Begin, Goto, journal
<1>1. TypeOK'
    BY DEF TypeOK, PCs, InTransaction
<1>2. RowsLocked'
    BY DEF RowsLocked, TypeOK
<1>3. \A q \in Orders \ {o} : Frame(q)
    BY DEF Frame, TypeOK
<1>a. /\ pc[o] = "begin" /\ pc'[o] = "createCardOrder" /\ tx'[o] = "open"
      /\ UNCHANGED <<amount, plan, next, staged>>
    BY DEF TypeOK
<1>4. PlanInv(o)' /\ StagedInv(o)'
    <2>1. PlanInv(o)'
        BY <1>a DEF OrderInv, PlanInv, Planned, InTransaction, DistinctRows, OwnDebits
    <2>2. StagedInv(o)'
        BY <1>a DEF OrderInv, StagedInv, InTransaction
    <2> QED BY <2>1, <2>2
<1>5. CommittedInv(o)' /\ AnswerInv(o)'
    BY DEF OrderInv, CommittedInv, AnswerInv, Ended, TypeOK, DistinctRows, OwnDebits
<1> QED BY <1>1, <1>2, <1>3, <1>4, <1>5, StepOfOrder DEF OrderInv

LEMMA CreateCardOrderKeepsIInv ==
    ASSUME IInv, NEW o \in Orders, CreateCardOrder(o)
    PROVE  IInv'
<1> USE DEF IInv, CreateCardOrder, Goto
<1>1. TypeOK'
    BY DEF TypeOK, PCs, InTransaction
<1>2. RowsLocked'
    BY DEF RowsLocked, TypeOK
<1>3. \A q \in Orders \ {o} : Frame(q)
    BY DEF Frame, TypeOK
<1>a. /\ pc[o] = "createCardOrder" /\ pc'[o] = "createTransaction" /\ tx'[o] = tx[o]
      /\ UNCHANGED <<amount, plan, next, staged>>
    BY DEF TypeOK
<1>4. PlanInv(o)' /\ StagedInv(o)'
    <2>1. PlanInv(o)'
        BY <1>a DEF OrderInv, PlanInv, Planned, InTransaction, DistinctRows, OwnDebits
    <2>2. StagedInv(o)'
        BY <1>a DEF OrderInv, StagedInv, InTransaction
    <2> QED BY <2>1, <2>2
<1>5. CommittedInv(o)' /\ AnswerInv(o)'
    BY DEF OrderInv, CommittedInv, AnswerInv, Ended, TypeOK, DistinctRows, OwnDebits
<1> QED BY <1>1, <1>2, <1>3, <1>4, <1>5, StepOfOrder DEF OrderInv

LEMMA CreateTransactionKeepsIInv ==
    ASSUME IInv, NEW o \in Orders, CreateTransaction(o)
    PROVE  IInv'
<1> USE DEF IInv, CreateTransaction, Goto, journal
<1>1. TypeOK'
    <2>1. plan' \in [Orders -> Debits] /\ entries' \in [Orders -> JournalEntries] /\ txns' \in [Orders -> JournalEntries]
        BY EntriesType DEF TypeOK
    <2> QED BY <2>1 DEF TypeOK, PCs, InTransaction
<1>2. RowsLocked'
    BY DEF RowsLocked, TypeOK
<1>3. \A q \in Orders \ {o} : Frame(q)
    BY DEF Frame, TypeOK
<1>4. PlanInv(o)'
    <2>1. plan[o] # <<>> /\ plan[o] \in Debits /\ next[o] = 1
        BY DEF OrderInv, PlanInv, Planned, InTransaction, TypeOK
    <2>2. 1 \in DOMAIN plan[o]
        BY <2>1 DEF Debits
    <2>3. pc[o] = "createTransaction" /\ pc'[o] = "decrement" /\ UNCHANGED <<amount, plan, next>>
        BY DEF TypeOK
    <2> QED BY <2>1, <2>2, <2>3
            DEF OrderInv, PlanInv, Planned, InTransaction, DistinctRows, OwnDebits
<1>5. StagedInv(o)'
    <2>1. /\ tx[o] = "open" /\ tx'[o] = "open" /\ pc'[o] = "decrement"
          /\ entries'[o] = Entries(plan[o]) /\ UNCHANGED <<plan, next, staged>>
        BY DEF TypeOK
    <2>2. next[o] = 1 /\ staged[o] = NothingStaged
        BY DEF OrderInv, PlanInv, StagedInv
    <2> QED BY <2>1, <2>2 DEF StagedInv, InTransaction, NothingStaged
<1>6. CommittedInv(o)' /\ AnswerInv(o)'
    BY DEF OrderInv, CommittedInv, AnswerInv, Ended, TypeOK, DistinctRows, OwnDebits
<1> QED BY <1>1, <1>2, <1>3, <1>4, <1>5, <1>6, StepOfOrder DEF OrderInv

\* A debit finds its row unlocked and not yet debited by this order.
LEMMA DecrementKeepsIInv ==
    ASSUME IInv, NEW o \in Orders, Decrement(o)
    PROVE  IInv'
<1> USE DEF IInv, Decrement, Goto, journal
<1> DEFINE item == plan[o][next[o]]
           n == next[o]
<1>1. /\ pc[o] = "decrement" /\ tx[o] = "open" /\ tx' = tx
      /\ pc'[o] = IF n = Len(plan[o]) THEN "commit" ELSE "decrement"
      /\ UNCHANGED <<amount, plan, entries>>
      /\ next'[o] = n + 1
    BY DEF TypeOK
<1>2. plan[o] \in Seq([row : Rows, amount : 1..Price]) /\ n \in DOMAIN plan[o]
    BY DEF OrderInv, PlanInv, TypeOK, Debits
<1>3. n \in 1..Len(plan[o]) /\ Len(plan[o]) \in Nat /\ DOMAIN plan[o] = 1..Len(plan[o])
    BY <1>2, LenProperties
<1>4. item.row \in Rows /\ item.amount \in 1..Price
    <2>1. item \in [row : Rows, amount : 1..Price]
        BY <1>2, ElementOfDebits
    <2> QED BY <2>1
<1>5. Price \in Nat
    BY BoundsAssumption
<1>6. staged[o] \in [Rows -> Nat] /\ staged \in [Orders -> [Rows -> Nat]]
    BY DEF TypeOK
<1>7. staged' = [staged EXCEPT ![o][item.row] = @ + item.amount]
    OBVIOUS
<1>8. staged' \in [Orders -> [Rows -> Nat]]
    BY <1>4, <1>5, <1>6, <1>7
<1>9. TypeOK'
    BY <1>8 DEF TypeOK, PCs, InTransaction
<1>10. \A row \in Rows : staged'[o][row] =
           IF row = item.row THEN staged[o][row] + item.amount ELSE staged[o][row]
    BY <1>4, <1>6, <1>7
<1>11. \A q \in Orders \ {o} : staged'[q] = staged[q] /\ staged[q][item.row] = 0
    <2>1. \A q \in Orders \ {o} : staged'[q] = staged[q]
        BY <1>6, <1>7
    <2>2. \A q \in Orders \ {o} : ~(staged[q][item.row] > 0)
        BY <1>1 DEF Blocked, WaitsFor
    <2>3. \A q \in Orders : staged[q][item.row] \in Nat
        BY <1>4, <1>6
    <2> QED BY <2>1, <2>2, <2>3
<1>12. RowsLocked'
    <2> SUFFICES ASSUME NEW p \in Orders, NEW q \in Orders, NEW row \in Rows, staged'[p][row] > 0
                 PROVE  tx[p] = "open" /\ (staged'[q][row] > 0 => q = p)
        BY <1>1 DEF RowsLocked
    <2>1. CASE row = item.row
        <3>1. p = o
            BY <2>1, <1>11
        <3>2. staged'[q][row] > 0 => q = o
            BY <2>1, <1>11
        <3> QED BY <3>1, <3>2, <1>1
    <2>2. CASE row # item.row
        <3>1. \A r \in Orders : staged'[r][row] = staged[r][row]
            BY <2>2, <1>10, <1>11
        <3> QED BY <3>1 DEF RowsLocked
    <2> QED BY <2>1, <2>2
<1>13. \A q \in Orders \ {o} : Frame(q)
    BY <1>11 DEF Frame, TypeOK
<1>14. PlanInv(o)'
    BY <1>1, <1>3 DEF OrderInv, PlanInv, Planned, InTransaction, DistinctRows, OwnDebits
<1>15. DistinctRows(plan[o]) /\ entries[o] = Entries(plan[o])
    BY <1>1 DEF OrderInv, PlanInv, StagedInv, Planned, InTransaction
<1>16. \A row \in Rows : staged'[o][row] =
           IF \E i \in 1..n : plan[o][i].row = row THEN AmountOn(plan[o], row) ELSE 0
    <2> SUFFICES ASSUME NEW row \in Rows
                 PROVE  staged'[o][row] =
                           IF \E i \in 1..n : plan[o][i].row = row
                           THEN AmountOn(plan[o], row) ELSE 0
        OBVIOUS
    <2>1. staged[o][row] = IF \E i \in 1..(n - 1) : plan[o][i].row = row
                           THEN AmountOn(plan[o], row) ELSE 0
        BY <1>1 DEF OrderInv, StagedInv
    <2>2. CASE row = item.row
        <3>1. AmountOn(plan[o], row) = item.amount
            BY <2>2, <1>2, <1>15, AmountOnItem
        <3>2. ~\E i \in 1..(n - 1) : plan[o][i].row = row
            BY <2>2, <1>3, <1>15 DEF DistinctRows
        <3>3. staged[o][row] = 0 /\ staged'[o][row] = staged[o][row] + item.amount
            BY <3>2, <2>1, <2>2, <1>10
        <3>4. \E i \in 1..n : plan[o][i].row = row
            BY <2>2, <1>3
        <3> QED BY <3>1, <3>3, <3>4, <1>4, <1>5
    <2>3. CASE row # item.row
        <3>1. staged'[o][row] = staged[o][row]
            BY <2>3, <1>10
        <3>2. (\E i \in 1..n : plan[o][i].row = row) <=> \E i \in 1..(n - 1) : plan[o][i].row = row
            BY <2>3, <1>3
        <3> QED BY <3>1, <3>2, <2>1
    <2> QED BY <2>2, <2>3
<1>17. StagedInv(o)'
    <2>1. next'[o] - 1 = n
        BY <1>1, <1>3
    <2> QED BY <2>1, <1>1, <1>15, <1>16 DEF StagedInv, InTransaction
<1>18. CommittedInv(o)' /\ AnswerInv(o)'
    BY <1>1 DEF OrderInv, CommittedInv, AnswerInv, Ended, TypeOK, DistinctRows, OwnDebits
<1> QED BY <1>9, <1>12, <1>13, <1>14, <1>17, <1>18, StepOfOrder DEF OrderInv

\* A commit, confirmed or not, records the whole plan.
LEMMA CommitKeepsIInv ==
    ASSUME IInv, NEW o \in Orders, Commit(o) \/ CommitUnconfirmed(o)
    PROVE  IInv'
<1> USE DEF IInv
<1>1. /\ pc[o] = "commit" /\ tx[o] = "open" /\ Apply(o)
      /\ UNCHANGED <<config, funded, cardOrders, published, plan, next, code>>
    BY DEF Commit, CommitUnconfirmed
<1>2. PICK l \in {"publish", "unconfirmed"} :
          /\ pc' = [pc EXCEPT ![o] = l]
          /\ faults' \in 0..MaxFaults /\ faults' >= faults
          /\ l = "unconfirmed" => faults' > 0
    BY BoundsAssumption DEF Commit, CommitUnconfirmed, Goto, TypeOK
<1>3. /\ plan[o] # <<>> /\ Total(plan[o]) = amount /\ amount > 0
      /\ OwnDebits(o, plan[o]) /\ DistinctRows(plan[o])
      /\ entries[o] = Entries(plan[o]) /\ o \in cardOrders
    BY <1>1 DEF OrderInv, PlanInv, StagedInv, CommittedInv, Planned, InTransaction
<1>4. /\ txns' = [txns EXCEPT ![o] = Entries(plan[o])]
      /\ avail' = [row \in Rows |-> avail[row] - staged[o][row]]
      /\ tx' = [tx EXCEPT ![o] = "none"]
      /\ entries' = [entries EXCEPT ![o] = <<>>]
      /\ staged' = [staged EXCEPT ![o] = NothingStaged]
    BY <1>1, <1>3 DEF Apply, Close
<1>5. TypeOK'
    <2>1. <<>> \in Debits /\ <<>> \in JournalEntries
        BY DEF Debits, JournalEntries
    <2>2. avail' \in [Rows -> Int]
        BY <1>4 DEF TypeOK
    <2>3. staged' \in [Orders -> [Rows -> Nat]]
        BY <1>4 DEF TypeOK, NothingStaged
    <2>4. Entries(plan[o]) \in JournalEntries
        BY EntriesType DEF TypeOK
    <2> QED BY <2>1, <2>2, <2>3, <2>4, <1>1, <1>2, <1>4 DEF TypeOK, PCs
<1>6. RowsLocked'
    BY <1>1, <1>4 DEF RowsLocked, TypeOK, NothingStaged
<1>7. \A q \in Orders \ {o} : Frame(q)
    BY <1>1, <1>2, <1>4, <1>5 DEF Frame, TypeOK
<1>8. /\ pc'[o] = l /\ txns'[o] = Entries(plan[o]) /\ txns'[o] # <<>>
      /\ tx'[o] = "none" /\ staged'[o] = NothingStaged
    BY <1>2, <1>3, <1>4, EntriesType DEF TypeOK
<1>9. PlanInv(o)' /\ StagedInv(o)'
    BY <1>1, <1>3, <1>8 DEF PlanInv, StagedInv, Planned, InTransaction, DistinctRows, OwnDebits
<1>10. CommittedInv(o)'
    BY <1>1, <1>2, <1>3, <1>8 DEF CommittedInv, DistinctRows, OwnDebits, Ended
<1>11. AnswerInv(o)'
    BY <1>1, <1>8 DEF OrderInv, AnswerInv
<1> QED BY <1>5, <1>6, <1>7, <1>9, <1>10, <1>11, StepOfOrder DEF OrderInv

LEMMA PublishKeepsIInv ==
    ASSUME IInv, NEW o \in Orders, Publish(o)
    PROVE  IInv'
<1> USE DEF IInv, Publish, Goto
<1>1. TypeOK'
    BY DEF TypeOK, PCs, Ended
<1>2. RowsLocked'
    BY DEF RowsLocked, TypeOK
<1>3. \A q \in Orders \ {o} : Frame(q)
    BY DEF Frame, TypeOK
<1>4. /\ pc[o] = "publish" /\ pc'[o] = "done" /\ code'[o] = 201 /\ o \in published'
      /\ UNCHANGED <<amount, cardOrders, txns, plan, next, tx, entries, staged, faults>>
    BY DEF TypeOK
<1>5. PlanInv(o)' /\ StagedInv(o)'
    BY <1>4 DEF OrderInv, PlanInv, StagedInv, Planned, InTransaction
<1>6. CommittedInv(o)' /\ AnswerInv(o)'
    BY <1>4 DEF OrderInv, CommittedInv, AnswerInv, Ended, DistinctRows, OwnDebits
<1> QED BY <1>1, <1>2, <1>3, <1>5, <1>6, StepOfOrder DEF OrderInv

LEMMA TransactionTimeoutKeepsIInv ==
    ASSUME IInv, NEW o \in Orders, TransactionTimeout(o)
    PROVE  IInv'
<1> USE DEF IInv, TransactionTimeout, journal
<1>1. TypeOK'
    <2>1. <<>> \in Debits /\ <<>> \in JournalEntries
        BY DEF Debits, JournalEntries
    <2>2. staged' \in [Orders -> [Rows -> Nat]]
        BY DEF TypeOK, NothingStaged
    <2> QED BY <2>1, <2>2 DEF TypeOK
<1>2. RowsLocked'
    BY DEF RowsLocked, TypeOK, NothingStaged
<1>3. \A q \in Orders \ {o} : Frame(q)
    BY DEF Frame, TypeOK
<1>4. /\ tx[o] = "open" /\ tx'[o] = "expired" /\ staged'[o] = NothingStaged
      /\ UNCHANGED <<amount, cardOrders, txns, published, pc, plan, next, code, faults>>
    BY DEF TypeOK
<1>5. PlanInv(o)' /\ StagedInv(o)'
    BY <1>4 DEF OrderInv, PlanInv, StagedInv, Planned, InTransaction, DistinctRows, OwnDebits
<1>6. CommittedInv(o)' /\ AnswerInv(o)'
    BY <1>4 DEF OrderInv, CommittedInv, AnswerInv, Ended, DistinctRows, OwnDebits
<1> QED BY <1>1, <1>2, <1>3, <1>5, <1>6, StepOfOrder DEF OrderInv

LEMMA CrashKeepsIInv ==
    ASSUME IInv, NEW o \in Orders, Crash(o)
    PROVE  IInv'
<1> USE DEF IInv, Crash, Close, Goto, journal
<1>1. TypeOK'
    <2>1. <<>> \in Debits /\ <<>> \in JournalEntries
        BY DEF Debits, JournalEntries
    <2>2. staged' \in [Orders -> [Rows -> Nat]]
        BY DEF TypeOK, NothingStaged
    <2>3. faults' \in 0..MaxFaults
        BY BoundsAssumption DEF TypeOK
    <2> QED BY <2>1, <2>2, <2>3 DEF TypeOK, PCs, Ended
<1>2. RowsLocked'
    BY DEF RowsLocked, TypeOK, NothingStaged
<1>3. \A q \in Orders \ {o} : Frame(q)
    BY DEF Frame, TypeOK
<1>4. /\ pc[o] \notin Ended \union {"idle"} /\ pc'[o] = "gone" /\ tx'[o] = "none"
      /\ staged'[o] = NothingStaged
      /\ UNCHANGED <<amount, cardOrders, txns, published, plan, next, code>>
    BY DEF TypeOK
<1>5. PlanInv(o)' /\ StagedInv(o)'
    BY <1>4 DEF PlanInv, StagedInv, Planned, InTransaction
<1>6. CommittedInv(o)' /\ AnswerInv(o)'
    BY <1>4 DEF OrderInv, CommittedInv, AnswerInv, Ended, DistinctRows, OwnDebits
<1> QED BY <1>1, <1>2, <1>3, <1>5, <1>6, StepOfOrder DEF OrderInv

\* The steps that end a request with 500.
LEMMA FailureKeepsIInv ==
    ASSUME IInv, NEW o \in Orders,
           Rethrow(o) \/ UseExpired(o) \/ PoolTimeout(o) \/ DeadlockAbort(o)
    PROVE  IInv'
<1>1. Throw(o, 500) /\ UNCHANGED faults
    BY DEF Rethrow, UseExpired, PoolTimeout, DeadlockAbort
<1>2. Deadlocked(o) => pc[o] = "decrement"
    BY DEF Deadlocked, WaitsFor
<1>3. pc[o] \notin Ended \union {"publish"}
    BY <1>2 DEF Rethrow, UseExpired, PoolTimeout, DeadlockAbort, Ended, InTransaction
<1> QED BY <1>1, <1>3, ThrowKeepsIInv

LEMMA SwapKeepsIInv ==
    ASSUME IInv, NEW row \in Rows, Swap(row)
    PROVE  IInv'
<1> USE DEF IInv, Swap, journal, local
<1>1. TypeOK'
    BY DEF TypeOK
<1>2. RowsLocked'
    BY DEF RowsLocked
<1>3. \A q \in Orders : Frame(q)
    BY BoundsAssumption DEF Frame, TypeOK
<1> QED BY <1>1, <1>2, <1>3, FrameKeepsOrderInv

LEMMA StutterKeepsIInv ==
    ASSUME IInv, UNCHANGED vars
    PROVE  IInv'
<1> USE DEF IInv, vars, journal
<1>1. TypeOK'
    BY DEF TypeOK
<1>2. RowsLocked'
    BY DEF RowsLocked
<1>3. \A q \in Orders : Frame(q)
    BY BoundsAssumption DEF Frame, TypeOK
<1> QED BY <1>1, <1>2, <1>3, FrameKeepsOrderInv

LEMMA NextKeepsIInv ==
    ASSUME IInv, [Next]_vars
    PROVE  IInv'
<1>1. ASSUME NEW o \in Orders, Submit(o) PROVE IInv'
    BY <1>1, SubmitKeepsIInv
<1>2. ASSUME NEW o \in Orders, Handle(o) PROVE IInv'
    <2>1. CASE Allocate(o)  BY <2>1, AllocateKeepsIInv
    <2>2. CASE Begin(o)  BY <2>2, BeginKeepsIInv
    <2>3. CASE CreateCardOrder(o)  BY <2>3, CreateCardOrderKeepsIInv
    <2>4. CASE CreateTransaction(o)  BY <2>4, CreateTransactionKeepsIInv
    <2>5. CASE Decrement(o)  BY <2>5, DecrementKeepsIInv
    <2>6. CASE Commit(o)  BY <2>6, CommitKeepsIInv
    <2>7. CASE Publish(o)  BY <2>7, PublishKeepsIInv
    <2>8. CASE UseExpired(o) \/ Rethrow(o)  BY <2>8, FailureKeepsIInv
    <2> QED BY <1>2, <2>1, <2>2, <2>3, <2>4, <2>5, <2>6, <2>7, <2>8 DEF Handle
<1>3. ASSUME NEW o \in Orders, PoolTimeout(o) \/ DeadlockAbort(o) PROVE IInv'
    BY <1>3, FailureKeepsIInv
<1>4. ASSUME NEW o \in Orders, TransactionTimeout(o) PROVE IInv'
    BY <1>4, TransactionTimeoutKeepsIInv
<1>5. ASSUME NEW o \in Orders, Crash(o) PROVE IInv'
    BY <1>5, CrashKeepsIInv
<1>6. ASSUME NEW o \in Orders, CommitUnconfirmed(o) PROVE IInv'
    BY <1>6, CommitKeepsIInv
<1>7. ASSUME NEW row \in Rows, Swap(row) PROVE IInv'
    BY <1>7, SwapKeepsIInv
<1>8. CASE UNCHANGED vars
    BY <1>8, StutterKeepsIInv
<1> QED BY <1>1, <1>2, <1>3, <1>4, <1>5, <1>6, <1>7, <1>8 DEF Next

\* IInv holds in every state of every behaviour of the handler.
THEOREM InductiveInvariant == Spec => []IInv
BY InitIInv, NextKeepsIInv, PTL DEF Spec

\* The variables keep their types; no decrement is negative.
THEOREM TypeCorrect == Spec => []TypeOK
<1>1. IInv => TypeOK
    BY DEF IInv
<1> QED BY <1>1, InductiveInvariant, PTL

\* No two open transactions have updated the same row.
THEOREM RowsAreLocked == Spec => []RowsLocked
<1>1. IInv => RowsLocked
    BY DEF IInv
<1> QED BY <1>1, InductiveInvariant, PTL

\* A user is never charged without a card order.
THEOREM ChargeHasOrder == Spec => []DebitImpliesOrder
<1>1. IInv => DebitImpliesOrder
    BY DEF IInv, OrderInv, CommittedInv, DebitImpliesOrder
<1> QED BY <1>1, InductiveInvariant, PTL

\* A charge is the full amount, from distinct rows of the buyer.
THEOREM ChargedInFull == Spec => []PaidInFull
<1>1. IInv => PaidInFull
    BY DEF IInv, OrderInv, CommittedInv, PaidInFull, OwnDebits, DistinctRows
<1> QED BY <1>1, InductiveInvariant, PTL

\* The answer tells whether the user was charged.
THEOREM AnswersAreTrue == Spec => []AnswerIsTrue
<1>1. IInv => AnswerIsTrue
    BY DEF IInv, OrderInv, AnswerInv, AnswerIsTrue
<1> QED BY <1>1, InductiveInvariant, PTL

-----------------------------------------------------------------------------
(* The refinement. *)

LEMMA SameTotal == \A s : Charge!Total(s) = Total(s)
BY DEF Total, Charge!Total, FoldSeq, Charge!FoldSeq, FoldFunction, Charge!FoldFunction,
       FoldFunctionOnSet, Charge!FoldFunctionOnSet, MapThenFoldSet, Charge!MapThenFoldSet

LEMMA SameAmountOn == \A s, row : Charge!AmountOn(s, row) = AmountOn(s, row)
BY DEF AmountOn, Charge!AmountOn

\* A step that commits nothing takes nothing, unless it plans anew.
LEMMA PaidUnchanged ==
    ASSUME UNCHANGED txns, \A o \in Orders : txns[o] # <<>> => plan'[o] = plan[o]
    PROVE  Paid' = Paid
BY DEF Paid

\* What a committing transaction has staged is what its plan takes of each row.
LEMMA StagedIsPlan ==
    ASSUME IInv, NEW o \in Orders, pc[o] = "commit", tx[o] = "open"
    PROVE  \A row \in Rows : staged[o][row] = AmountOn(plan[o], row)
<1>1. next[o] = Len(plan[o]) + 1 /\ DOMAIN plan[o] = 1..Len(plan[o]) /\ Len(plan[o]) \in Nat
    BY LenProperties DEF IInv, OrderInv, PlanInv, TypeOK, Debits
<1>2. \A row \in Rows : staged[o][row] =
          IF \E i \in 1..(next[o] - 1) : plan[o][i].row = row
          THEN AmountOn(plan[o], row) ELSE 0
    BY DEF IInv, OrderInv, StagedInv
<1>3. next[o] - 1 = Len(plan[o])
    BY <1>1
<1> QED BY <1>1, <1>2, <1>3, AmountOnNone

\* A commit takes what was allocated.
LEMMA CommitTakesPlan ==
    ASSUME IInv, NEW o \in Orders, Commit(o) \/ CommitUnconfirmed(o)
    PROVE  Paid[o] = <<>> /\ Paid' = [Paid EXCEPT ![o] = plan[o]] /\ Paid'[o] = plan[o]
<1>1. /\ pc[o] = "commit" /\ tx[o] = "open" /\ Apply(o) /\ plan' = plan
    BY DEF Commit, CommitUnconfirmed
<1>2. /\ plan[o] # <<>> /\ plan[o] \in Debits /\ entries[o] = Entries(plan[o])
      /\ txns[o] = <<>>
    BY <1>1 DEF IInv, OrderInv, PlanInv, StagedInv, CommittedInv, Planned, InTransaction,
                Ended, TypeOK
<1>3. /\ txns'[o] = Entries(plan[o]) /\ Entries(plan[o]) # <<>>
      /\ \A q \in Orders \ {o} : txns'[q] = txns[q]
    BY <1>1, <1>2, EntriesType DEF Apply, IInv, TypeOK
<1>4. Paid[o] = <<>>
    BY <1>2 DEF Paid
<1>5. Paid'[o] = plan[o]
    BY <1>1, <1>3 DEF Paid
<1>6. \A q \in Orders \ {o} : Paid'[q] = Paid[q]
    BY <1>1, <1>3 DEF Paid
<1>7. Paid = [q \in Orders |-> Paid[q]] /\ Paid' = [q \in Orders |-> Paid'[q]]
    BY DEF Paid
<1>8. Paid' = [Paid EXCEPT ![o] = plan[o]]
    BY <1>5, <1>6, <1>7
<1> QED BY <1>4, <1>5, <1>8

LEMMA CommitPays ==
    ASSUME IInv, NEW o \in Orders, Commit(o) \/ CommitUnconfirmed(o)
    PROVE  Charge!Pay(o)
<1> USE DEF IInv
<1>1. /\ pc[o] = "commit" /\ tx[o] = "open" /\ Apply(o)
      /\ UNCHANGED <<amount, code>>
    BY DEF Commit, CommitUnconfirmed
<1>2. /\ plan[o] # <<>> /\ Total(plan[o]) = amount /\ amount > 0
      /\ OwnDebits(o, plan[o]) /\ DistinctRows(plan[o])
    BY <1>1 DEF OrderInv, PlanInv, Planned, InTransaction
<1>3. code[o] = 0
    BY <1>1 DEF OrderInv, AnswerInv
<1>4. Paid[o] = <<>> /\ Paid' = [Paid EXCEPT ![o] = plan[o]] /\ Paid'[o] = plan[o]
    BY CommitTakesPlan
<1>5. avail' = [row \in Rows |-> avail[row] - AmountOn(plan[o], row)]
    BY <1>1, StagedIsPlan DEF Apply
<1>6. Charge!Pays(o, plan[o])
    BY <1>2, SameTotal DEF Charge!Pays, OwnDebits, DistinctRows
<1> QED BY <1>1, <1>3, <1>4, <1>5, <1>6, SameAmountOn DEF Charge!Pay

LEMMA PublishAnswers ==
    ASSUME IInv, NEW o \in Orders, Publish(o)
    PROVE  Charge!Answer(o, 201)
<1>1. Paid' = Paid
    BY PaidUnchanged DEF Publish
<1>2. txns[o] # <<>> /\ plan[o] # <<>> /\ code[o] = 0
    BY DEF IInv, Publish, OrderInv, CommittedInv, AnswerInv
<1>3. Paid[o] # <<>>
    BY <1>2 DEF Paid
<1> QED BY <1>1, <1>2, <1>3 DEF Publish, Charge!Answer

LEMMA ThrowAnswers ==
    ASSUME IInv, NEW o \in Orders, NEW status \in {400, 500}, Throw(o, status),
           pc[o] # "done", status = 400 => pc[o] \in {"idle", "allocate"}
    PROVE  Charge!Answer(o, status)
<1>1. Paid' = Paid
    BY PaidUnchanged DEF Throw, journal
<1>2. code[o] = 0 /\ (status = 400 => txns[o] = <<>>)
    BY DEF IInv, OrderInv, CommittedInv, AnswerInv, Ended
<1>3. status = 400 => Paid[o] = <<>>
    BY <1>2 DEF Paid
<1> QED BY <1>1, <1>2, <1>3 DEF Throw, journal, Charge!Answer

LEMMA StepImplementsCharge ==
    ASSUME IInv, [Next]_vars
    PROVE  [Charge!Next]_Charge!vars
<1> USE DEF Charge!Next, Charge!vars, journal, local
<1>1. ASSUME NEW o \in Orders, Submit(o) \/ Allocate(o)
      PROVE  [Charge!Next]_Charge!vars
    <2>1. CASE Throw(o, 400)
        BY <1>1, <2>1, ThrowAnswers DEF Submit, Allocate
    <2>2. CASE ~Throw(o, 400)
        <3>1. UNCHANGED <<amount, avail, txns, code>>
            BY <1>1, <2>2 DEF Submit, Allocate
        <3>2. ASSUME NEW q \in Orders, txns[q] # <<>> PROVE plan'[q] = plan[q]
            <4>1. CASE Submit(o)
                BY <2>2, <4>1 DEF Submit
            <4>2. CASE Allocate(o)
                <5>1. PICK p : plan' = [plan EXCEPT ![o] = p]
                    BY <2>2, <4>2 DEF Allocate
                <5>2. q # o
                    BY <3>2, <4>2 DEF Allocate, IInv, OrderInv, CommittedInv, Ended
                <5> QED BY <5>1, <5>2 DEF IInv, TypeOK
            <4> QED BY <1>1, <4>1, <4>2
        <3> QED BY <3>1, <3>2, PaidUnchanged
    <2> QED BY <2>1, <2>2
<1>2. ASSUME NEW o \in Orders,
             Begin(o) \/ CreateCardOrder(o) \/ CreateTransaction(o) \/ Decrement(o)
                \/ TransactionTimeout(o) \/ Crash(o)
      PROVE  UNCHANGED Charge!vars
    <2>1. UNCHANGED <<amount, avail, txns, plan, code>>
        BY <1>2 DEF Begin, CreateCardOrder, CreateTransaction, Decrement,
                    TransactionTimeout, Crash
    <2> QED BY <2>1, PaidUnchanged
<1>3. ASSUME NEW o \in Orders, Commit(o) \/ CommitUnconfirmed(o)
      PROVE  Charge!Next
    BY <1>3, CommitPays
<1>4. ASSUME NEW o \in Orders, Publish(o)
      PROVE  Charge!Next
    BY <1>4, PublishAnswers
<1>5. ASSUME NEW o \in Orders,
             Rethrow(o) \/ UseExpired(o) \/ PoolTimeout(o) \/ DeadlockAbort(o)
      PROVE  Charge!Next
    <2>1. Throw(o, 500)
        BY <1>5 DEF Rethrow, UseExpired, PoolTimeout, DeadlockAbort
    <2>2. Deadlocked(o) => pc[o] = "decrement"
        BY DEF Deadlocked, WaitsFor
    <2>3. pc[o] # "done"
        BY <1>5, <2>2 DEF Rethrow, UseExpired, PoolTimeout, DeadlockAbort, InTransaction
    <2> QED BY <2>1, <2>3, ThrowAnswers
<1>6. ASSUME NEW row \in Rows, Swap(row)
      PROVE  Charge!Next
    <2>1. Paid' = Paid
        BY <1>6, PaidUnchanged DEF Swap
    <2> QED BY <1>6, <2>1 DEF Swap, Charge!Fund
<1>7. CASE UNCHANGED vars
    BY <1>7, PaidUnchanged DEF vars
<1> QED BY <1>1, <1>2, <1>3, <1>4, <1>5, <1>6, <1>7 DEF Next, Handle

\* The handler implements the abstract charge: whatever interleaves or fails,
\* users see each order charged in one step, in full, before it is answered.
THEOREM ImplementsCharge == Spec => ChargesAtomically
<1>1. Init => Charge!Init
    BY BoundsAssumption DEF Init, LoadConfig, SystemConfigs, Charge!Init, Paid
<1>2. IInv /\ [Next]_vars => [Charge!Next]_Charge!vars
    BY StepImplementsCharge
<1> QED BY <1>1, <1>2, InductiveInvariant, PTL DEF Spec, ChargesAtomically, Charge!Spec

-----------------------------------------------------------------------------
(* Users who wait for the end of an order before they send another. *)

Running(o) == pc[o] \notin Ended \union {"idle"}

Pending == InTransaction \union {"begin"}

NoOverlap ==
    \A o, q \in Orders :
        Buyer[o] \in patient /\ Buyer[o] = Buyer[q] /\ Running(o) /\ Running(q) => o = q

\* The balances still cover what a patient user's order will take.
Covered(o) ==
    Buyer[o] \in patient /\ pc[o] \in Pending =>
        \A row \in OwnRows(o) : AmountOn(plan[o], row) <= avail[row]

Patience == NoOverlap /\ (\A o \in Orders : Covered(o)) /\ PatientNotOverdrawn

\* What a plan takes from a row is a number.
LEMMA PendingAmount ==
    ASSUME IInv, NEW o \in Orders, pc[o] \in InTransaction \union {"begin"}, NEW row \in Rows
    PROVE  AmountOn(plan[o], row) \in Nat
<1>1. DistinctRows(plan[o]) /\ plan[o] \in Debits
    BY DEF IInv, TypeOK, OrderInv, PlanInv, Planned
<1>2. CASE \E i \in DOMAIN plan[o] : plan[o][i].row = row
    <2>1. PICK i \in DOMAIN plan[o] : plan[o][i].row = row
        BY <1>2
    <2>2. AmountOn(plan[o], row) = plan[o][i].amount
        BY <1>1, <2>1, AmountOnItem
    <2>3. plan[o][i] \in [row : Rows, amount : 1..Price]
        BY <1>1, ElementOfDebits DEF Debits
    <2> QED BY <2>2, <2>3, BoundsAssumption
<1>3. CASE \A i \in DOMAIN plan[o] : plan[o][i].row # row
    BY <1>3, AmountOnNone
<1> QED BY <1>2, <1>3

\* A plan takes no more than it found.
LEMMA PlansAreCovered ==
    ASSUME NEW o \in Orders, NEW p \in Plans(Balances(o), Price), avail \in [Rows -> Int],
           \A row \in OwnRows(o) : avail[row] >= 0
    PROVE  \A row \in OwnRows(o) : AmountOn(p, row) <= avail[row]
<1> DEFINE bal == Balances(o)
           items == Items(bal, Price)
<1>1. PICK m \in 0..Cardinality(DOMAIN bal) : p \in [1..m -> items]
    BY DEF Plans, SeqOf
<1>2. \A item \in items : item.row \in OwnRows(o) /\ item.amount <= avail[item.row]
    BY DEF Items, Balances
<1>3. \A i \in DOMAIN p : p[i] \in items
    <2> HIDE DEF items
    <2> QED BY <1>1
<1>4. \A i \in DOMAIN p : p[i].row \in OwnRows(o) /\ p[i].amount <= avail[p[i].row]
    BY <1>2, <1>3
<1>5. DistinctRows(p)
    BY PlansPay
<1> SUFFICES ASSUME NEW row \in OwnRows(o) PROVE AmountOn(p, row) <= avail[row]
    OBVIOUS
<1>6. CASE \E i \in DOMAIN p : p[i].row = row
    <2>1. PICK i \in DOMAIN p : p[i].row = row
        BY <1>6
    <2>2. AmountOn(p, row) = p[i].amount
        BY <2>1, <1>5, AmountOnItem
    <2> QED BY <2>1, <2>2, <1>4
<1>7. CASE \A i \in DOMAIN p : p[i].row # row
    <2>1. AmountOn(p, row) = 0
        BY <1>7, AmountOnNone
    <2> QED BY <2>1
<1> QED BY <1>6, <1>7

\* A step of o that changes no balance and plans nothing.
LEMMA StepKeepsPatience ==
    ASSUME Patience, NEW o \in Orders, UNCHANGED <<patient, avail>>,
           \A q \in Orders \ {o} : pc'[q] = pc[q] /\ plan'[q] = plan[q],
           Running(o)' => Running(o),
           pc'[o] \in Pending => pc[o] \in Pending /\ plan'[o] = plan[o]
    PROVE  Patience'
<1>1. NoOverlap'
    BY DEF Patience, NoOverlap, Running
<1>2. ASSUME NEW q \in Orders PROVE Covered(q)'
    BY DEF Patience, Covered, OwnRows
<1>3. PatientNotOverdrawn'
    BY DEF Patience, PatientNotOverdrawn
<1> QED BY <1>1, <1>2, <1>3 DEF Patience

LEMMA SubmitKeepsPatience ==
    ASSUME IInv, Patience, NEW o \in Orders, Submit(o)
    PROVE  Patience'
<1>1. /\ UNCHANGED <<patient, avail, plan>>
      /\ pc' = [pc EXCEPT ![o] = "done"] \/ pc' = [pc EXCEPT ![o] = "allocate"]
    BY DEF Submit, Throw, Goto
<1>2. Buyer[o] \in patient => \A q \in Orders \ {o} : Buyer[q] = Buyer[o] => ~Running(q)
    BY DEF Submit, Running
<1>3. \A q \in Orders \ {o} : pc'[q] = pc[q]
    BY <1>1 DEF IInv, TypeOK
<1>4. pc'[o] \in {"done", "allocate"}
    BY <1>1 DEF IInv, TypeOK
<1>5. NoOverlap'
    BY <1>1, <1>2, <1>3 DEF Patience, NoOverlap, Running
<1>6. ASSUME NEW q \in Orders PROVE Covered(q)'
    BY <1>1, <1>3, <1>4 DEF Patience, Covered, OwnRows, Pending, InTransaction
<1>7. PatientNotOverdrawn'
    BY <1>1 DEF Patience, PatientNotOverdrawn
<1> QED BY <1>5, <1>6, <1>7 DEF Patience

LEMMA AllocateKeepsPatience ==
    ASSUME IInv, Patience, NEW o \in Orders, Allocate(o)
    PROVE  Patience'
<1>1. pc[o] = "allocate" /\ Running(o) /\ amount = Price
    BY DEF Allocate, Running, Ended, IInv, TypeOK, OrderInv, PlanInv
<1>2. CASE Throw(o, 400)
    <2>1. /\ UNCHANGED <<patient, avail, plan>>
          /\ pc'[o] = "done" /\ \A q \in Orders \ {o} : pc'[q] = pc[q]
        BY <1>2 DEF Throw, Goto, IInv, TypeOK
    <2> QED BY <1>1, <2>1, StepKeepsPatience DEF Pending, InTransaction
<1>3. CASE \E p \in Plans(Balances(o), amount) : plan' = [plan EXCEPT ![o] = p]
                                               /\ Goto(o, "begin") /\ UNCHANGED <<patient, avail>>
    <2>1. PICK p \in Plans(Balances(o), Price) : plan' = [plan EXCEPT ![o] = p]
        BY <1>1, <1>3
    <2>2. /\ pc'[o] = "begin" /\ plan'[o] = p
          /\ \A q \in Orders \ {o} : pc'[q] = pc[q] /\ plan'[q] = plan[q]
        BY <1>3, <2>1 DEF Goto, IInv, TypeOK
    <2>3. NoOverlap'
        BY <1>1, <1>3, <2>2 DEF Patience, NoOverlap, Running
    <2>4. Covered(o)'
        <3>1. SUFFICES ASSUME Buyer[o] \in patient
                       PROVE  \A row \in OwnRows(o) : AmountOn(p, row) <= avail[row]
            BY <1>3, <2>2 DEF Covered, OwnRows
        <3>2. \A row \in OwnRows(o) : avail[row] >= 0
            BY <3>1 DEF Patience, PatientNotOverdrawn, OwnRows
        <3> QED BY <3>2, PlansAreCovered DEF IInv, TypeOK
    <2>5. ASSUME NEW q \in Orders \ {o} PROVE Covered(q)'
        BY <1>3, <2>2 DEF Patience, Covered, OwnRows
    <2>6. PatientNotOverdrawn'
        BY <1>3 DEF Patience, PatientNotOverdrawn
    <2> QED BY <2>3, <2>4, <2>5, <2>6 DEF Patience
<1> QED BY <1>2, <1>3 DEF Allocate

\* A commit takes what was covered, and nothing from other users' rows.
LEMMA CommitKeepsPatience ==
    ASSUME IInv, Patience, NEW o \in Orders, Commit(o) \/ CommitUnconfirmed(o)
    PROVE  Patience'
<1>1. /\ pc[o] = "commit" /\ tx[o] = "open" /\ Apply(o)
      /\ UNCHANGED <<patient, plan>>
      /\ Goto(o, "publish") \/ Goto(o, "unconfirmed")
    BY DEF Commit, CommitUnconfirmed
<1>2. pc'[o] \in {"publish", "unconfirmed"} /\ \A q \in Orders \ {o} : pc'[q] = pc[q]
    BY <1>1 DEF Goto, IInv, TypeOK
<1>3. \A row \in Rows : avail'[row] = avail[row] - AmountOn(plan[o], row)
    BY <1>1, StagedIsPlan DEF Apply
<1>4. \A row \in Rows \ OwnRows(o) : avail'[row] = avail[row]
    <2>1. OwnDebits(o, plan[o])
        BY <1>1 DEF IInv, OrderInv, PlanInv, Planned, InTransaction
    <2>2. \A row \in Rows \ OwnRows(o) : AmountOn(plan[o], row) = 0
        BY <2>1, AmountOnNone DEF OwnDebits
    <2> QED BY <1>3, <2>2 DEF IInv, TypeOK
<1>5. Buyer[o] \in patient => \A row \in OwnRows(o) : AmountOn(plan[o], row) <= avail[row]
    BY <1>1 DEF Patience, Covered, Pending, InTransaction
<1>6. \A row \in Rows : AmountOn(plan[o], row) \in Nat
    BY <1>1, StagedIsPlan DEF IInv, TypeOK
<1>7. NoOverlap'
    BY <1>1, <1>2 DEF Patience, NoOverlap, Running, Ended
<1>8. ASSUME NEW q \in Orders, Buyer[q] \in patient', pc'[q] \in Pending
      PROVE  \A row \in OwnRows(q) : AmountOn(plan'[q], row) <= avail'[row]
    <2>1. q # o /\ pc[q] \in Pending
        BY <1>2, <1>8 DEF Pending, InTransaction
    <2>2. Running(q) /\ Running(o) /\ Buyer[q] \in patient
        BY <1>1, <1>8, <2>1 DEF Running, Ended, Pending, InTransaction
    <2>3. Buyer[q] # Buyer[o]
        BY <2>1, <2>2 DEF Patience, NoOverlap
    <2>4. \A row \in OwnRows(q) : row \in Rows \ OwnRows(o)
        BY <2>3 DEF OwnRows
    <2> QED BY <1>1, <1>4, <2>1, <2>2, <2>4 DEF Patience, Covered
<1>9. ASSUME NEW row \in Rows, Owner[row] \in patient
      PROVE  avail'[row] >= 0
    <2>1. CASE row \in OwnRows(o)
        <3>1. AmountOn(plan[o], row) <= avail[row]
            BY <1>5, <1>9, <2>1 DEF OwnRows
        <3> QED BY <1>3, <1>6, <3>1 DEF IInv, TypeOK
    <2>2. CASE row \notin OwnRows(o)
        BY <1>4, <1>9, <2>2 DEF Patience, PatientNotOverdrawn
    <2> QED BY <2>1, <2>2
<1>10. \A q \in Orders : Covered(q)'
    BY <1>8 DEF Covered, OwnRows
<1> QED BY <1>1, <1>7, <1>9, <1>10 DEF Patience, PatientNotOverdrawn

\* Swaps only add to balances.
LEMMA SwapKeepsPatience ==
    ASSUME IInv, Patience, NEW row \in Rows, Swap(row)
    PROVE  Patience'
<1>1. /\ UNCHANGED <<patient, pc, plan>>
      /\ \A r \in Rows : avail'[r] \in Int /\ avail'[r] >= avail[r]
    BY DEF Swap, local, IInv, TypeOK
<1>2. NoOverlap'
    BY <1>1 DEF Patience, NoOverlap, Running
<1>3. ASSUME NEW q \in Orders, Buyer[q] \in patient, pc[q] \in Pending, NEW r \in OwnRows(q)
      PROVE  AmountOn(plan[q], r) <= avail'[r]
    <2>1. AmountOn(plan[q], r) <= avail[r] /\ r \in Rows
        BY <1>3 DEF Patience, Covered, OwnRows
    <2>2. AmountOn(plan[q], r) \in Int
        BY <1>3, <2>1, PendingAmount DEF Pending
    <2> QED BY <1>1, <2>1, <2>2 DEF IInv, TypeOK
<1>4. PatientNotOverdrawn'
    BY <1>1 DEF Patience, PatientNotOverdrawn, IInv, TypeOK
<1> QED BY <1>1, <1>2, <1>3, <1>4 DEF Patience, Covered, OwnRows

LEMMA NextKeepsPatience ==
    ASSUME IInv, Patience, [Next]_vars
    PROVE  Patience'
<1> USE DEF journal
<1>1. CASE UNCHANGED vars
    BY <1>1 DEF vars, Patience, NoOverlap, Covered, Running, OwnRows, PatientNotOverdrawn
<1>2. ASSUME NEW o \in Orders,
             Begin(o) \/ CreateCardOrder(o) \/ CreateTransaction(o) \/ Decrement(o)
      PROVE  Patience'
    <2>1. /\ UNCHANGED <<patient, avail, plan>> /\ pc[o] \in Pending
          /\ \A q \in Orders \ {o} : pc'[q] = pc[q]
        BY <1>2 DEF Begin, CreateCardOrder, CreateTransaction, Decrement, Goto, Pending,
                    InTransaction, IInv, TypeOK
    <2> QED BY <2>1, StepKeepsPatience DEF Running, Pending, InTransaction, Ended
<1>3. ASSUME NEW o \in Orders, TransactionTimeout(o)
      PROVE  Patience'
    BY <1>3, StepKeepsPatience DEF TransactionTimeout, Running
<1>4. ASSUME NEW o \in Orders, NEW l \in Ended, Goto(o, l), UNCHANGED <<patient, avail, plan>>
      PROVE  Patience'
    <2>1. pc'[o] = l /\ \A q \in Orders \ {o} : pc'[q] = pc[q]
        BY <1>4 DEF Goto, IInv, TypeOK
    <2> QED BY <1>4, <2>1, StepKeepsPatience DEF Running, Ended, Pending, InTransaction
<1>5. ASSUME NEW o \in Orders,
             Publish(o) \/ Crash(o)
                \/ Rethrow(o) \/ UseExpired(o) \/ PoolTimeout(o) \/ DeadlockAbort(o)
      PROVE  Patience'
    BY <1>4, <1>5 DEF Publish, Crash, Rethrow, UseExpired, PoolTimeout, DeadlockAbort,
                      Throw, Ended
<1>6. ASSUME NEW o \in Orders,
             Submit(o) \/ Allocate(o) \/ Commit(o) \/ CommitUnconfirmed(o)
      PROVE  Patience'
    BY <1>6, SubmitKeepsPatience, AllocateKeepsPatience, CommitKeepsPatience
<1> QED BY <1>1, <1>2, <1>3, <1>5, <1>6, SwapKeepsPatience DEF Next, Handle

\* A user who waits for the end of an order before the next is not overdrawn.
THEOREM PatientUsersKeepCredit == Spec => []PatientNotOverdrawn
<1>1. Init => Patience
    BY DEF Init, Patience, NoOverlap, Covered, Running, Pending, InTransaction, Ended,
           PatientNotOverdrawn
<1>2. IInv /\ Patience /\ [Next]_vars => Patience'
    BY NextKeepsPatience
<1>3. Patience => PatientNotOverdrawn
    BY DEF Patience
<1> QED BY <1>1, <1>2, <1>3, InductiveInvariant, PTL DEF Spec
=============================================================================
