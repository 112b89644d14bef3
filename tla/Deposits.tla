------------------------------ MODULE Deposits ------------------------------
(***************************************************************************)
(* The deposit webhook: blockradar.controller.ts and                       *)
(* blockradar-webhook.service.ts over the tables of wallet.prisma,         *)
(* transaction.prisma and token.prisma.                                    *)
(*                                                                         *)
(* The provider (Blockradar) delivers an event until it is answered 2xx,   *)
(* possibly several times at once.  Each delivery is an HTTP request that  *)
(* runs one awaited statement per action; requests of several instances of *)
(* the service interleave between awaits.  The database is PostgreSQL at   *)
(* READ COMMITTED: a read sees committed rows only, an insert waits for an *)
(* uncommitted insert of the same unique key, an update waits for the row  *)
(* lock of an uncommitted update.                                          *)
(*                                                                         *)
(* An amount is abstracted: ledger[row][ref] counts how often the amount   *)
(* of transfer ref was added to row.ledgerBalance.                         *)
(***************************************************************************)
EXTENDS Naturals

CONSTANTS
    Refs,           \* provider references of transfers
    Addresses,      \* blockchain addresses
    Tokens,         \* (symbol, chain) pairs
    Events,         \* webhook events the provider may send
    Requests,       \* slots for the requests being served at a time
    MaxFaults,      \* bound on aborted transactions and lost or repeated answers
    NoRow,          \* absence of a balance row
    NoEvent         \* absence of an event

(***************************************************************************)
(* "swap.success" stands for every event of the enum BlockradarWebhookEvent *)
(* but a deposit, "other" for a name outside the enum.                     *)
(***************************************************************************)
Kinds == {"deposit.success", "swap.success", "other"}

Rows == Addresses \X Tokens

\* walletId_tokenId of the balance a deposit goes to.
Row(e) == <<e.address, e.token>>

IsDeposit(e) == e.kind = "deposit.success"

(***************************************************************************)
(* A reference identifies one transfer: deposits with the same reference   *)
(* are announcements of the same transfer.                                 *)
(***************************************************************************)
ASSUME EventsAssumption ==
    /\ Events \subseteq [ref : Refs, kind : Kinds, signed : BOOLEAN,
                         address : Addresses, token : Tokens]
    /\ \A e, f \in Events :
          IsDeposit(e) /\ IsDeposit(f) /\ e.ref = f.ref => Row(e) = Row(f)

ASSUME FaultsAssumption == MaxFaults \in Nat

ASSUME NoneAssumption == NoRow \notin Rows /\ NoEvent \notin Events

VARIABLES
    announced,      \* events the provider has to deliver
    acked,          \* events answered 2xx, as the provider knows
    wallets,        \* addresses that have a Wallet row
    activeTokens,   \* tokens with isActive
    txns,           \* txns[ref]: destination in the COMPLETED Transaction, or NoRow
    ledger,         \* committed WalletTokenBalance.ledgerBalance, see above
    pc,             \* next statement of a request
    job,            \* event a request handles
    staged,         \* uncommitted writes of the request's transaction
    code,           \* HTTP status the request ends with
    faults          \* faults so far

env == <<announced, wallets, activeTokens>>
db == <<txns, ledger>>
vars == <<announced, acked, wallets, activeTokens, txns, ledger,
          pc, job, staged, code, faults>>

NothingStaged == [entry |-> NoRow, credit |-> NoRow]

\* Between BEGIN and COMMIT of the interactive transaction.
InTransaction == {"findWallet", "findTransaction", "createTransaction",
                  "findToken", "upsertBalance", "commit"}

PCs == InTransaction \union {"idle", "validate", "reply"}

Init ==
    /\ announced = {} /\ acked = {}
    /\ wallets \in SUBSET Addresses
    /\ activeTokens \in SUBSET Tokens
    /\ txns = [ref \in Refs |-> NoRow]
    /\ ledger = [row \in Rows |-> [ref \in Refs |-> 0]]
    /\ pc = [r \in Requests |-> "idle"]
    /\ job = [r \in Requests |-> NoEvent]
    /\ staged = [r \in Requests |-> NothingStaged]
    /\ code = [r \in Requests |-> 0]
    /\ faults = 0

-----------------------------------------------------------------------------
(* The environment. *)

\* A transfer reaches an address; the address may not have its Wallet row yet.
Announce(e) ==
    /\ e \notin announced
    /\ announced' = announced \union {e}
    /\ UNCHANGED <<acked, wallets, activeTokens, db, pc, job, staged, code, faults>>

\* createWalletAddresses commits the Wallet row some time after the provider
\* made the address.
RegisterWallet(a) ==
    /\ a \notin wallets
    /\ wallets' = wallets \union {a}
    /\ UNCHANGED <<announced, acked, activeTokens, db, pc, job, staged, code, faults>>

\* An operator delists a token.
DelistToken(t) ==
    /\ t \in activeTokens
    /\ activeTokens' = activeTokens \ {t}
    /\ UNCHANGED <<announced, acked, wallets, db, pc, job, staged, code, faults>>

\* Seeding lists the tokens that are missing, in one transaction; so does an
\* operator with those he has delisted.
SeedTokens ==
    /\ \E missing \in SUBSET (Tokens \ activeTokens) \ {{}} :
          activeTokens' = activeTokens \union missing
    /\ UNCHANGED <<announced, acked, wallets, db, pc, job, staged, code, faults>>

Open(r, e) ==
    /\ pc[r] = "idle"
    /\ pc' = [pc EXCEPT ![r] = "validate"]
    /\ job' = [job EXCEPT ![r] = e]
    /\ UNCHANGED <<env, acked, db, staged, code>>

\* The provider delivers an event it has no 2xx for, whether or not an
\* earlier delivery is still being handled.
Deliver(r, e) ==
    /\ e \in announced \ acked
    /\ Open(r, e)
    /\ UNCHANGED faults

\* A delivery delayed by the network arrives after the 2xx of another one.
DeliverLate(r, e) ==
    /\ e \in acked
    /\ faults < MaxFaults
    /\ Open(r, e)
    /\ faults' = faults + 1

-----------------------------------------------------------------------------
(* The handler. *)

Goto(r, l) == pc' = [pc EXCEPT ![r] = l]

\* The transaction, if there is one, is rolled back.
End(r, status) ==
    /\ Goto(r, "reply")
    /\ code' = [code EXCEPT ![r] = status]
    /\ staged' = [staged EXCEPT ![r] = NothingStaged]
    /\ UNCHANGED <<env, acked, db, job, faults>>

Continue(r, l) ==
    /\ Goto(r, l)
    /\ UNCHANGED <<env, acked, db, job, staged, code, faults>>

\* validateSignature, validateOrReject, then the switch of handleWebhook.
Validate(r) ==
    /\ pc[r] = "validate"
    /\ \/ ~job[r].signed /\ End(r, 400)
       \/ job[r].signed /\ job[r].kind = "other" /\ End(r, 500)
       \/ job[r].signed /\ job[r].kind = "swap.success" /\ End(r, 200)
       \/ job[r].signed /\ IsDeposit(job[r]) /\ Continue(r, "findWallet")

\* Mutant of FindWallet: the wallet is not required.
FindWalletUnchecked(r) ==
    /\ pc[r] = "findWallet"
    /\ Continue(r, "findTransaction")

\* Mutant of FindWallet: an unknown wallet is logged and answered 200.
FindWalletIgnored(r) ==
    /\ pc[r] = "findWallet"
    /\ IF job[r].address \in wallets THEN Continue(r, "findTransaction")
                                     ELSE End(r, 200)

FindWallet(r) ==
    /\ pc[r] = "findWallet"
    /\ IF job[r].address \in wallets THEN Continue(r, "findTransaction")
                                     ELSE End(r, 500)

\* Mutant of FindTransaction: a known reference is an error.
FindTransactionThrows(r) ==
    /\ pc[r] = "findTransaction"
    /\ IF txns[job[r].ref] = NoRow THEN Continue(r, "createTransaction")
                                   ELSE End(r, 500)

FindTransaction(r) ==
    /\ pc[r] = "findTransaction"
    /\ IF txns[job[r].ref] = NoRow THEN Continue(r, "createTransaction")
                                   ELSE End(r, 200)

\* Another transaction has inserted the reference and not ended.
ReferencePending(r) ==
    \E q \in Requests \ {r} : staged[q].entry # NoRow /\ job[q].ref = job[r].ref

\* Mutant of CreateTransaction: reference is not unique.
CreateTransactionAlways(r) ==
    /\ pc[r] = "createTransaction"
    /\ staged' = [staged EXCEPT ![r].entry = Row(job[r])]
    /\ Goto(r, "findToken")
    /\ UNCHANGED <<env, acked, db, job, code, faults>>

\* reference is @unique: the insert fails (P2002) on a committed row.
CreateTransaction(r) ==
    /\ pc[r] = "createTransaction"
    /\ ~ReferencePending(r)
    /\ IF txns[job[r].ref] # NoRow
       THEN End(r, 500)
       ELSE /\ staged' = [staged EXCEPT ![r].entry = Row(job[r])]
            /\ Goto(r, "findToken")
            /\ UNCHANGED <<env, acked, db, job, code, faults>>

FindToken(r) ==
    /\ pc[r] = "findToken"
    /\ IF job[r].token \in activeTokens THEN Continue(r, "upsertBalance")
                                        ELSE End(r, 500)

\* Another transaction holds the row lock.
RowLocked(r) == \E q \in Requests \ {r} : staged[q].credit = Row(job[r])

\* Mutant of UpsertBalance: written through this.database instead of tx.
UpsertBalanceOutside(r) ==
    /\ pc[r] = "upsertBalance"
    /\ ledger' = [ledger EXCEPT ![Row(job[r])][job[r].ref] = @ + 1]
    /\ Goto(r, "commit")
    /\ UNCHANGED <<env, acked, txns, job, staged, code, faults>>

UpsertBalance(r) ==
    /\ pc[r] = "upsertBalance"
    /\ ~RowLocked(r)
    /\ staged' = [staged EXCEPT ![r].credit = Row(job[r])]
    /\ Goto(r, "commit")
    /\ UNCHANGED <<env, acked, db, job, code, faults>>

\* The staged writes become visible together.
Apply(r) ==
    /\ txns' = [txns EXCEPT ![job[r].ref] = staged[r].entry]
    /\ ledger' = [ledger EXCEPT ![staged[r].credit][job[r].ref] = @ + 1]
    /\ staged' = [staged EXCEPT ![r] = NothingStaged]
    /\ Goto(r, "reply")
    /\ UNCHANGED <<env, acked, job>>

Commit(r) ==
    /\ pc[r] = "commit"
    /\ Apply(r)
    /\ code' = [code EXCEPT ![r] = 200]
    /\ UNCHANGED faults

Reply(r) ==
    /\ pc[r] = "reply"
    /\ acked' = IF code[r] = 200 THEN acked \union {job[r]} ELSE acked
    /\ Goto(r, "idle")
    /\ job' = [job EXCEPT ![r] = NoEvent]
    /\ code' = [code EXCEPT ![r] = 0]
    /\ UNCHANGED <<env, db, staged, faults>>

-----------------------------------------------------------------------------
(* Failures, at most MaxFaults of them in a behaviour.  The crash of an    *)
(* instance is Abort or LoseReply for each of its requests.                *)

Fault == faults < MaxFaults /\ faults' = faults + 1

\* Connection lost or the 5 s limit of an interactive transaction passed.
Abort(r) ==
    /\ Fault
    /\ pc[r] \in InTransaction
    /\ Goto(r, "reply")
    /\ code' = [code EXCEPT ![r] = 500]
    /\ staged' = [staged EXCEPT ![r] = NothingStaged]
    /\ UNCHANGED <<env, acked, db, job>>

\* The database commits, its answer is lost: the handler throws.
CommitUnconfirmed(r) ==
    /\ Fault
    /\ pc[r] = "commit"
    /\ Apply(r)
    /\ code' = [code EXCEPT ![r] = 500]

\* The provider timed out, or the answer was lost.
LoseReply(r) ==
    /\ Fault
    /\ pc[r] = "reply"
    /\ Goto(r, "idle")
    /\ job' = [job EXCEPT ![r] = NoEvent]
    /\ code' = [code EXCEPT ![r] = 0]
    /\ UNCHANGED <<env, acked, db, staged>>

-----------------------------------------------------------------------------
Handle(r) ==
    \/ Validate(r) \/ FindWallet(r) \/ FindTransaction(r)
    \/ CreateTransaction(r) \/ FindToken(r) \/ UpsertBalance(r)
    \/ Commit(r) \/ Reply(r)

Fail(r) == Abort(r) \/ CommitUnconfirmed(r) \/ LoseReply(r)

Environment ==
    \/ \E e \in Events : Announce(e)
    \/ \E a \in Addresses : RegisterWallet(a)
    \/ \E t \in Tokens : DelistToken(t)
    \/ SeedTokens

Next ==
    \/ Environment
    \/ \E r \in Requests : Handle(r) \/ Fail(r)
    \/ \E r \in Requests, e \in Events : Deliver(r, e) \/ DeliverLate(r, e)

Spec == Init /\ [][Next]_vars

(***************************************************************************)
(* A request that can run a statement runs it.  The provider retries an    *)
(* unanswered event for ever; the strong fairness says the slots, which    *)
(* the service does not have, do not starve an event of delivery.          *)
(***************************************************************************)
Fairness ==
    /\ \A r \in Requests : WF_vars(Handle(r))
    /\ \A e \in Events : SF_vars(\E r \in Requests : Deliver(r, e))

FairSpec == Spec /\ Fairness

-----------------------------------------------------------------------------
(* Properties. *)

\* Every variable has its type; a staged or recorded row is a balance row.
TypeOK ==
    /\ announced \subseteq Events
    /\ acked \subseteq Events
    /\ wallets \subseteq Addresses
    /\ activeTokens \subseteq Tokens
    /\ txns \in [Refs -> Rows \union {NoRow}]
    /\ ledger \in [Rows -> [Refs -> Nat]]
    /\ pc \in [Requests -> PCs]
    /\ job \in [Requests -> Events \union {NoEvent}]
    /\ staged \in [Requests -> [entry : Rows \union {NoRow}, credit : Rows \union {NoRow}]]
    /\ code \in [Requests -> {0, 200, 400, 500}]
    /\ faults \in 0..MaxFaults

\* Exactly once: whatever is delivered twice, aborted or answered late, the
\* amount of a transfer is in a balance once if its transaction record names
\* that balance and not at all otherwise (blockradar-webhook.service.ts 51-54:
\* no value twice for a transaction; no record without value, no value without).
LedgerMatchesEntries ==
    \A row \in Rows, ref \in Refs :
        ledger[row][ref] = IF txns[ref] = row THEN 1 ELSE 0

\* The provider stops delivering a deposit only after its amount is in the
\* balance it was sent to: a 200 answered too early would lose the deposit.
AckedIsCredited ==
    \A e \in acked : IsDeposit(e) => ledger[Row(e)][e.ref] = 1

\* Value comes only from a signed deposit that happened, and goes to the
\* balance of a wallet the system knows.
CreditHasCause ==
    \A row \in Rows, ref \in Refs : ledger[row][ref] > 0 =>
        /\ \E e \in announced :
              e.signed /\ IsDeposit(e) /\ e.ref = ref /\ Row(e) = row
        /\ row[1] \in wallets

\* Once the wallet is registered and the token stays listed, retries settle a
\* signed deposit: it is credited and the provider is told, whatever failed before.
Creditable(e) == e.address \in wallets /\ e.token \in activeTokens

DepositsSettle ==
    \A e \in {f \in Events : f.signed /\ IsDeposit(f)} :
        <>[]Creditable(e) => (e \in announced ~> (e \in acked /\ ledger[Row(e)][e.ref] = 1))

-----------------------------------------------------------------------------
(* The abstract promise: its transfers are the references of deposits. *)

DepositRefs == {e.ref : e \in {f \in Events : IsDeposit(f)}}

Dest == [ref \in DepositRefs |->
            Row(CHOOSE e \in Events : IsDeposit(e) /\ e.ref = ref)]

Credited == [row \in Rows |-> [ref \in DepositRefs |-> ledger[row][ref]]]

Settled == {e.ref : e \in {f \in acked : IsDeposit(f)}}

Promise == INSTANCE ExactlyOnceCredit WITH
    Refs <- DepositRefs, ledger <- Credited, settled <- Settled

\* The handler implements the promise: each of its steps credits one transfer
\* once, settles a credited one, or changes neither.
PromiseKept == Promise!Spec
=============================================================================
