----------------------------- MODULE CardOrders -----------------------------
(***************************************************************************)
(* Ordering a card: orderCard of card-order.service.ts over the balances   *)
(* of wallet.prisma and the journal of transaction.prisma.                 *)
(*                                                                         *)
(* Each order is one POST /orders.  A request runs one awaited statement   *)
(* per action; requests interleave between awaits.  The debits are made in *)
(* an interactive transaction of PostgreSQL at READ COMMITTED: an update   *)
(* holds its row's lock until the transaction ends, a cycle of waiting     *)
(* transactions is broken by aborting one of them.  The transaction holds  *)
(* a connection of Prisma's pool, and Prisma rolls it back when it lasts   *)
(* more than 5 s, which the callback notices at its next statement.        *)
(***************************************************************************)
EXTENDS AllocationPlan

CONSTANTS
    Users,
    Rows,           \* WalletTokenBalance rows
    Owner,          \* Owner[row]: the user whose wallet it belongs to
    Wallets,        \* Wallet rows, one per user and chain
    WalletOf,       \* WalletOf[row]: the wallet it is a balance of, one per token
    Orders,         \* requests, one order each
    Buyer,          \* Buyer[o]: the user who sends the order
    Price,          \* the card order amount, when it is configured
    MaxBalance,     \* bound on the initial balances
    MaxSwaps,       \* bound on what swaps add to a balance
    MaxFaults,      \* bound on crashes and unconfirmed commits
    PoolSize        \* bound on the connections of the pool

ASSUME OwnersAssumption ==
    /\ Owner \in [Rows -> Users] /\ IsFiniteSet(Rows)
    /\ WalletOf \in [Rows -> Wallets]
    /\ \A row1, row2 \in Rows : WalletOf[row1] = WalletOf[row2] => Owner[row1] = Owner[row2]
    /\ Buyer \in [Orders -> Users] /\ IsFiniteSet(Orders)

ASSUME BoundsAssumption ==
    /\ Price \in Nat \ {0}
    /\ MaxBalance \in Nat /\ MaxSwaps \in Nat /\ MaxFaults \in Nat
    /\ PoolSize \in Nat \ {0}

VARIABLES
    amount,         \* CARD_ORDER_AMOUNT as loaded at bootstrap, 0 if it is not set
    pool,           \* connections of the pool
    patient,        \* users who wait for the end of an order to send another
    avail,          \* committed availableBalance
    funded,         \* what each row was given: its initial balance and swaps
    cardOrders,     \* orders with a committed CardOrder
    txns,           \* txns[o]: DEBIT entries of its committed Transaction, or <<>>
    published,      \* orders whose CardOrderCreatedEvent was published
    pc,             \* next statement of a request
    plan,           \* allocations, computed before the transaction
    next,           \* index of the allocation to debit next
    tx,             \* state of the interactive transaction
    entries,        \* its uncommitted Transaction and DEBIT entries
    staged,         \* staged[o][row]: its uncommitted decrement of a row
    code,           \* HTTP status answered, 0 if none
    faults          \* crashes and unconfirmed commits so far

\* What does not change while the service runs.
config == <<amount, pool, patient>>

journal == <<cardOrders, txns, published>>
local == <<pc, plan, next, tx, entries, staged, code>>
vars == <<config, avail, funded, cardOrders, txns, published,
          pc, plan, next, tx, entries, staged, code, faults>>

NothingStaged == [row \in Rows |-> 0]

OwnRows(o) == {row \in Rows : Owner[row] = Buyer[o]}

\* Allocations that pay for an order: parts of the price, each from a row.
Debits == Seq([row : Rows, amount : 1..Price])

\* DEBIT entries of the journal: they name the wallet, not the balance.
JournalEntries == Seq([wallet : Wallets, amount : 1..Price])

InTransaction == {"createCardOrder", "createTransaction", "decrement", "commit"}

Ended == {"done", "gone"}

PCs == InTransaction \union Ended \union {"idle", "allocate", "begin", "publish", "unconfirmed"}

\* The card order amount when the service starts before the database was seeded,
\* and after: seeding keeps a value that is there.
SystemConfigs == {0, Price}

\* loadConfig, at bootstrap: a setting that is not there is undefined.
LoadConfig == amount \in SystemConfigs

Init ==
    /\ LoadConfig
    /\ pool \in 1..PoolSize
    /\ patient \in SUBSET Users
    /\ avail \in [Rows -> 0..MaxBalance]
    /\ funded = avail
    /\ cardOrders = {}
    /\ txns = [o \in Orders |-> <<>>]
    /\ published = {}
    /\ pc = [o \in Orders |-> "idle"]
    /\ plan = [o \in Orders |-> <<>>]
    /\ next = [o \in Orders |-> 1]
    /\ tx = [o \in Orders |-> "none"]
    /\ entries = [o \in Orders |-> <<>>]
    /\ staged = [o \in Orders |-> NothingStaged]
    /\ code = [o \in Orders |-> 0]
    /\ faults = 0

-----------------------------------------------------------------------------
(* Connections and locks. *)

\* A statement outside a transaction takes a connection for its duration.
ConnectionFree == Cardinality({o \in Orders : tx[o] = "open"}) < pool

Locked(row) == \E o \in Orders : staged[o][row] > 0

\* o's next update waits for a row that q has updated.
WaitsFor(o, q) ==
    /\ q # o
    /\ pc[o] = "decrement" /\ tx[o] = "open"
    /\ staged[q][plan[o][next[o]].row] > 0

Blocked(o) == \E q \in Orders : WaitsFor(o, q)

\* o waits in a cycle.
Deadlocked(o) ==
    \E S \in SUBSET Orders : o \in S /\ \A p \in S : \E q \in S : WaitsFor(p, q)

-----------------------------------------------------------------------------
(* The handler. *)

Goto(o, l) == pc' = [pc EXCEPT ![o] = l]

\* Mutant of Close: the locks are kept.
CloseWithoutUnlock(o) ==
    /\ tx' = [tx EXCEPT ![o] = "none"]
    /\ entries' = [entries EXCEPT ![o] = <<>>]
    /\ UNCHANGED staged

\* The end of a transaction; a rollback if nothing was applied.
Close(o) ==
    /\ tx' = [tx EXCEPT ![o] = "none"]
    /\ entries' = [entries EXCEPT ![o] = <<>>]
    /\ staged' = [staged EXCEPT ![o] = NothingStaged]

\* An exception: the transaction is rolled back and the user gets an error.
Throw(o, status) ==
    /\ Close(o)
    /\ Goto(o, "done")
    /\ code' = [code EXCEPT ![o] = status]
    /\ UNCHANGED <<config, avail, funded, journal, plan, next>>

\* The request arrives; the amount is read from memory.
Submit(o) ==
    /\ pc[o] = "idle"
    /\ Buyer[o] \in patient =>
          \A q \in Orders \ {o} : Buyer[q] = Buyer[o] => pc[q] \in {"idle"} \union Ended
    /\ IF amount = 0
       THEN Throw(o, 400)
       ELSE /\ Goto(o, "allocate")
            /\ UNCHANGED <<config, avail, funded, journal, plan, next, tx, entries, staged, code>>
    /\ UNCHANGED faults

\* The user's balances as the query reads them.
Balances(o) == [row \in OwnRows(o) |-> avail[row]]

\* Mutant of Allocate: the first balance of the plan is to pay everything.
AllocateFromFirst(o) ==
    /\ pc[o] = "allocate" /\ ConnectionFree
    /\ LET plans == Plans(Balances(o), amount)
       IN  \/ /\ plans = {}
              /\ Throw(o, 400)
           \/ /\ plan' \in {[plan EXCEPT ![o] = <<[p[1] EXCEPT !.amount = amount]>>] : p \in plans}
              /\ Goto(o, "begin")
              /\ UNCHANGED <<config, avail, funded, journal, next, tx, entries, staged, code>>
    /\ UNCHANGED faults

\* getWalletAllocationsForAmount on the committed balances.
Allocate(o) ==
    /\ pc[o] = "allocate" /\ ConnectionFree
    /\ LET plans == Plans(Balances(o), amount)
       IN  \/ /\ plans = {}
              /\ Throw(o, 400)
           \/ /\ plan' \in {[plan EXCEPT ![o] = p] : p \in plans}
              /\ Goto(o, "begin")
              /\ UNCHANGED <<config, avail, funded, journal, next, tx, entries, staged, code>>
    /\ UNCHANGED faults

\* $transaction takes a connection and keeps it.
Begin(o) ==
    /\ pc[o] = "begin" /\ ConnectionFree
    /\ tx' = [tx EXCEPT ![o] = "open"]
    /\ Goto(o, "createCardOrder")
    /\ UNCHANGED <<config, avail, funded, journal, plan, next, entries, staged, code, faults>>

\* Mutant of CreateCardOrder: not awaited, so that it may fail unnoticed.
CreateCardOrderUnawaited(o) ==
    /\ pc[o] = "createCardOrder"
    /\ cardOrders' \in {cardOrders, cardOrders \union {o}}
    /\ Goto(o, "createTransaction")
    /\ UNCHANGED <<config, avail, funded, txns, published, plan, next, tx, entries,
                   staged, code, faults>>

\* this.database.cardOrder.create: not tx, so on another connection, and
\* committed at once whatever becomes of the transaction.
CreateCardOrder(o) ==
    /\ pc[o] = "createCardOrder" /\ ConnectionFree
    /\ cardOrders' = cardOrders \union {o}
    /\ Goto(o, "createTransaction")
    /\ UNCHANGED <<config, avail, funded, txns, published, plan, next, tx, entries,
                   staged, code, faults>>

\* The entries of allocations.  What the code stores as their asset is left out:
\* it is the position of the balance in an unordered query and identifies nothing.
Entries(allocations) ==
    [i \in DOMAIN allocations |->
        [wallet |-> WalletOf[allocations[i].row], amount |-> allocations[i].amount]]

CreateTransaction(o) ==
    /\ pc[o] = "createTransaction" /\ tx[o] = "open"
    /\ entries' = [entries EXCEPT ![o] = Entries(plan[o])]
    /\ Goto(o, "decrement")
    /\ UNCHANGED <<config, avail, funded, journal, plan, next, tx, staged, code, faults>>

\* Mutant of Decrement: the loop stops before the last allocation.
DecrementAllButLast(o) ==
    /\ pc[o] = "decrement" /\ tx[o] = "open" /\ ~Blocked(o)
    /\ LET item == plan[o][next[o]]
       IN  staged' = [staged EXCEPT ![o][item.row] = @ + item.amount]
    /\ next' = [next EXCEPT ![o] = @ + 1]
    /\ Goto(o, IF next[o] >= Len(plan[o]) - 1 THEN "commit" ELSE "decrement")
    /\ UNCHANGED <<config, avail, funded, journal, plan, tx, entries, code, faults>>

\* Mutant of Decrement: this.database instead of tx.
DecrementOutside(o) ==
    /\ pc[o] = "decrement" /\ tx[o] = "open"
    /\ LET item == plan[o][next[o]]
       IN  avail' = [avail EXCEPT ![item.row] = @ - item.amount]
    /\ next' = [next EXCEPT ![o] = @ + 1]
    /\ Goto(o, IF next[o] = Len(plan[o]) THEN "commit" ELSE "decrement")
    /\ UNCHANGED <<config, funded, journal, plan, tx, entries, staged, code, faults>>

\* One turn of the loop over the allocations.
Decrement(o) ==
    /\ pc[o] = "decrement" /\ tx[o] = "open" /\ ~Blocked(o)
    /\ LET item == plan[o][next[o]]
       IN  staged' = [staged EXCEPT ![o][item.row] = @ + item.amount]
    /\ next' = [next EXCEPT ![o] = @ + 1]
    /\ Goto(o, IF next[o] = Len(plan[o]) THEN "commit" ELSE "decrement")
    /\ UNCHANGED <<config, avail, funded, journal, plan, tx, entries, code, faults>>

\* What is staged becomes visible together.
Apply(o) ==
    /\ txns' = [txns EXCEPT ![o] = entries[o]]
    /\ avail' = [row \in Rows |-> avail[row] - staged[o][row]]
    /\ Close(o)

Commit(o) ==
    /\ pc[o] = "commit" /\ tx[o] = "open"
    /\ Apply(o)
    /\ Goto(o, "publish")
    /\ UNCHANGED <<config, funded, cardOrders, published, plan, next, code, faults>>

\* The database commits, its answer is lost: $transaction throws.
CommitUnconfirmed(o) ==
    /\ pc[o] = "commit" /\ tx[o] = "open"
    /\ faults < MaxFaults
    /\ faults' = faults + 1
    /\ Apply(o)
    /\ Goto(o, "unconfirmed")
    /\ UNCHANGED <<config, funded, cardOrders, published, plan, next, code>>

Rethrow(o) ==
    /\ pc[o] = "unconfirmed"
    /\ Throw(o, 500)
    /\ UNCHANGED faults

\* Publish the event, which queues the confirmation, and return.
Publish(o) ==
    /\ pc[o] = "publish"
    /\ published' = published \union {o}
    /\ Goto(o, "done")
    /\ code' = [code EXCEPT ![o] = 201]
    /\ UNCHANGED <<config, avail, funded, cardOrders, txns, plan, next, tx, entries,
                   staged, faults>>

\* Mutant of UseExpired: the failed statement is not awaited.
UseExpiredUnnoticed(o) ==
    /\ pc[o] \in InTransaction \ {"createCardOrder"}
    /\ tx[o] = "expired"
    /\ Close(o)
    /\ Goto(o, "publish")
    /\ UNCHANGED <<config, avail, funded, journal, plan, next, code, faults>>

\* A statement of a transaction that Prisma has ended throws (P2028).
UseExpired(o) ==
    /\ pc[o] \in InTransaction \ {"createCardOrder"}
    /\ tx[o] = "expired"
    /\ Throw(o, 500)
    /\ UNCHANGED faults

-----------------------------------------------------------------------------
(* Timeouts, aborts and crashes. *)

\* No connection in time: maxWait for $transaction, pool_timeout for others.
PoolTimeout(o) ==
    /\ pc[o] \in {"allocate", "begin", "createCardOrder"}
    /\ ~ConnectionFree
    /\ Throw(o, 500)
    /\ UNCHANGED faults

\* The 5 s limit passes between two statements: the engine rolls back, the
\* callback goes on.  An update waiting for a lock is not interrupted.
TransactionTimeout(o) ==
    /\ tx[o] = "open" /\ ~Blocked(o)
    /\ tx' = [tx EXCEPT ![o] = "expired"]
    /\ entries' = [entries EXCEPT ![o] = <<>>]
    /\ staged' = [staged EXCEPT ![o] = NothingStaged]
    /\ UNCHANGED <<config, avail, funded, journal, pc, plan, next, code, faults>>

\* PostgreSQL aborts a transaction of a cycle.
DeadlockAbort(o) ==
    /\ Deadlocked(o)
    /\ Throw(o, 500)
    /\ UNCHANGED faults

\* The instance dies, or the connection to it: the user gets no answer.
Crash(o) ==
    /\ pc[o] \notin Ended \union {"idle"}
    /\ faults < MaxFaults
    /\ faults' = faults + 1
    /\ Close(o)
    /\ Goto(o, "gone")
    /\ UNCHANGED <<config, avail, funded, journal, plan, next, code>>

\* Swapped deposits are made available, outside this repository; the update
\* waits for the row's lock.
Swap(row) ==
    /\ funded[row] < MaxBalance + MaxSwaps
    /\ ~Locked(row)
    /\ avail' = [avail EXCEPT ![row] = @ + 1]
    /\ funded' = [funded EXCEPT ![row] = @ + 1]
    /\ UNCHANGED <<config, journal, local, faults>>

-----------------------------------------------------------------------------
Handle(o) ==
    \/ Allocate(o) \/ Begin(o) \/ CreateCardOrder(o) \/ CreateTransaction(o)
    \/ Decrement(o) \/ Commit(o) \/ Publish(o) \/ UseExpired(o)
    \/ Rethrow(o)

Next ==
    \/ \E o \in Orders :
          Submit(o) \/ Handle(o) \/ PoolTimeout(o) \/ TransactionTimeout(o)
             \/ DeadlockAbort(o) \/ Crash(o) \/ CommitUnconfirmed(o)
    \/ \E row \in Rows : Swap(row)

Spec == Init /\ [][Next]_vars

(***************************************************************************)
(* A request that can run a statement does; the timer of a transaction     *)
(* runs down; PostgreSQL looks for deadlocks.                              *)
(***************************************************************************)
Fairness ==
    \A o \in Orders :
        /\ WF_vars(Handle(o))
        /\ WF_vars(TransactionTimeout(o))
        /\ WF_vars(DeadlockAbort(o))

FairSpec == Spec /\ Fairness

-----------------------------------------------------------------------------
(* Properties. *)

\* Every variable has its type; no debit is more than the price.
TypeOK ==
    /\ amount \in {0, Price} /\ pool \in 1..PoolSize /\ patient \subseteq Users
    /\ avail \in [Rows -> Int]
    /\ funded \in [Rows -> Nat]
    /\ cardOrders \subseteq Orders
    /\ published \subseteq Orders
    /\ pc \in [Orders -> PCs]
    /\ plan \in [Orders -> Debits]
    /\ entries \in [Orders -> JournalEntries]
    /\ txns \in [Orders -> JournalEntries]
    /\ next \in [Orders -> Nat]
    /\ tx \in [Orders -> {"none", "open", "expired"}]
    /\ staged \in [Orders -> [Rows -> Nat]]
    /\ code \in [Orders -> {0, 201, 400, 500}]
    /\ faults \in 0..MaxFaults

\* A row is updated by one open transaction at a time, up to its end.
RowsLocked ==
    \A o, q \in Orders, row \in Rows :
        staged[o][row] > 0 => tx[o] = "open" /\ (staged[q][row] > 0 => q = o)

\* A charge has a card order: no interleaving, timeout or crash takes the
\* money of a user without recording what it was for.
DebitImpliesOrder == \A o \in Orders : txns[o] # <<>> => o \in cardOrders

\* A charge is written down as it was allocated: the full amount, of rows of the
\* buyer, each once.
PaidInFull ==
    \A o \in Orders : txns[o] # <<>> =>
        /\ txns[o] = Entries(plan[o])
        /\ Total(plan[o]) = amount /\ amount > 0
        /\ \A i \in DOMAIN plan[o] : plan[o][i].row \in OwnRows(o)
        /\ \A i, j \in DOMAIN plan[o] : i # j => plan[o][i].row # plan[o][j].row

\* The answer tells what happened: 201 a charge with its order and its event,
\* 400 nothing at all, 500 no charge (unless a commit was not confirmed).
AnswerIsTrue ==
    \A o \in Orders :
        /\ code[o] = 201 => txns[o] # <<>> /\ o \in cardOrders \intersect published
        /\ code[o] = 400 => txns[o] = <<>> /\ o \notin cardOrders
        /\ code[o] = 500 /\ faults = 0 => txns[o] = <<>>

WalletRows(wallet) == {row \in Rows : WalletOf[row] = wallet}

\* What the entries of a transaction debit a wallet with.
DebitOf(list, wallet) ==
    MapThenSumSet(LAMBDA i : list[i].amount, {i \in DOMAIN list : list[i].wallet = wallet})

Debited(wallet) == MapThenSumSet(LAMBDA o : DebitOf(txns[o], wallet), Orders)

\* The journal explains the balances: what the balances of a wallet were given
\* and do not have any more is what the DEBIT entries of the wallet add up to, at
\* every moment.
BalancesMatchJournal ==
    \A wallet \in Wallets :
        MapThenSumSet(LAMBDA row : avail[row], WalletRows(wallet))
            = MapThenSumSet(LAMBDA row : funded[row], WalletRows(wallet)) - Debited(wallet)

\* No balance is overdrawn (wallets.service.ts 64-65).
NoOverdraft == \A row \in Rows : avail[row] >= 0

\* A user who orders one card at a time does not overdraw, whatever fails and
\* whoever else orders.
PatientNotOverdrawn ==
    \A row \in Rows : Owner[row] \in patient => avail[row] >= 0

\* Every order is answered, or lost in a crash, though transactions wait for
\* connections and locks the others hold.
EveryOrderAnswered == \A o \in Orders : pc[o] = "allocate" ~> pc[o] \in Ended

-----------------------------------------------------------------------------
\* What an order with a committed Transaction has taken: its allocations.
Paid == [o \in Orders |-> IF txns[o] = <<>> THEN <<>> ELSE plan[o]]

Charge == INSTANCE AllOrNothingCharge WITH
    Own <- [o \in Orders |-> OwnRows(o)],
    price <- amount, paid <- Paid, answer <- code

\* To users and balances the handler is an atomic charge.
ChargesAtomically == Charge!Spec
=============================================================================
