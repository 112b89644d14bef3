------------------------- MODULE WalletProvisioning -------------------------
(***************************************************************************)
(* How a user gets wallets: createWalletAddresses of                       *)
(* wallets-infrastructure.service.ts, run by the handler of the            *)
(* user.created event and by POST /wallets/addresses.                      *)
(*                                                                         *)
(* A job is one such run.  It makes an address on each chain with the      *)
(* provider, one after the other, then marks the user and stores a wallet  *)
(* for each address in one transaction.  Jobs of one user interleave       *)
(* between awaits; they meet at the lock of the user's row, which the      *)
(* transaction's first statement takes.                                    *)
(***************************************************************************)
EXTENDS Naturals, FiniteSets

CONSTANTS
    Users,
    Slots,          \* requests that a user can have in flight
    Chains,         \* chains with an active system wallet
    TokensOn,       \* TokensOn[c]: tokens of chain c
    MaxFaults       \* bound on failures

ASSUME ProvisioningAssumption ==
    /\ "event" \notin Slots
    /\ Chains # {}
    /\ \A c \in Chains : c \in DOMAIN TokensOn
    /\ MaxFaults \in Nat

VARIABLES
    created,        \* users that exist
    generated,      \* users whose walletsGeneratedAt is set
    wallets,        \* Wallet rows, with the tokens they have balances of
    issued,         \* addresses the provider has made
    pc,             \* next statement of a job
    todo,           \* chains the job has not asked the provider for
    addresses,      \* addresses the provider has answered to the job
    staged,         \* wallets its transaction has created
    known,          \* the user's wallets when the job began to run (history)
    reply,          \* wallets answered to the request
    patient,        \* users who ask when their sign-up and other jobs are over
    faults          \* failures so far

shared == <<created, generated, wallets, patient>>
local == <<todo, addresses, staged, known, reply>>
vars == <<created, generated, wallets, issued, pc, todo, addresses, staged, known, reply, patient, faults>>

Jobs == [user : Users, slot : Slots \union {"event"}]

Event(u) == [user |-> u, slot |-> "event"]

Tokens == UNION {TokensOn[c] : c \in Chains}

Addresses == [owner : Users, chain : Chains, address : Nat]

Wallets == [owner : Users, chain : Chains, address : Nat, balances : SUBSET Tokens]

Ended == {"idle", "done", "failed"}

\* A job is here when it has decided to make addresses, up to its commit.
Creating == {"listSystemWallets", "createAddress", "updateUser", "createWallet", "commit"}

PCs == Ended \union Creating \union {"publish", "authenticate", "getWallets"}

\* getWallets: no code in this repository deactivates a wallet.
WalletsOf(u) == {w \in wallets : w.owner = u}

Init ==
    /\ created = {}
    /\ generated = {}
    /\ wallets = {}
    /\ issued = {}
    /\ pc = [j \in Jobs |-> "idle"]
    /\ todo = [j \in Jobs |-> {}]
    /\ addresses = [j \in Jobs |-> {}]
    /\ staged = [j \in Jobs |-> {}]
    /\ known = [j \in Jobs |-> {}]
    /\ reply = [j \in Jobs |-> {}]
    /\ patient \in SUBSET Users
    /\ faults = 0

-----------------------------------------------------------------------------
(* Where jobs come from. *)

Goto(j, l) == pc' = [pc EXCEPT ![j] = l]

\* The job ends, its local variables with it.
End(j, l, answer) ==
    /\ Goto(j, l)
    /\ reply' = [reply EXCEPT ![j] = answer]
    /\ todo' = [todo EXCEPT ![j] = {}]
    /\ addresses' = [addresses EXCEPT ![j] = {}]
    /\ staged' = [staged EXCEPT ![j] = {}]
    /\ known' = [known EXCEPT ![j] = {}]

\* A sign-in by email inserts the user, whose event is still to be published; a
\* sign-in by OAuth creates the user without an event.
CreateUser(u) ==
    /\ u \notin created
    /\ created' = created \union {u}
    /\ \/ Goto(Event(u), "publish")
       \/ UNCHANGED pc
    /\ UNCHANGED <<generated, wallets, patient, issued, local, faults>>

\* The insert has been answered: the event is published and its handler begins.
\* It does not ask walletsGenerated, though the user may have signed in on
\* another instance and been given wallets since the insert.
PublishUserCreated(j) ==
    /\ pc[j] = "publish"
    /\ known' = [known EXCEPT ![j] = WalletsOf(j.user)]
    /\ Goto(j, "listSystemWallets")
    /\ UNCHANGED <<shared, issued, todo, addresses, staged, reply, faults>>

\* The user sends POST /wallets/addresses.
Ask(j) ==
    /\ j.slot # "event" /\ j.user \in created
    /\ pc[j] \in Ended
    /\ j.user \in patient => \A k \in Jobs : k.user = j.user => pc[k] \in Ended
    /\ Goto(j, "authenticate")
    /\ reply' = [reply EXCEPT ![j] = {}]
    /\ UNCHANGED <<shared, issued, todo, addresses, staged, known, faults>>

\* Mutant of Authenticate: walletsGenerated is not asked.
AuthenticateOnly(j) ==
    /\ pc[j] = "authenticate"
    /\ known' = [known EXCEPT ![j] = WalletsOf(j.user)]
    /\ Goto(j, "listSystemWallets")
    /\ UNCHANGED <<shared, issued, todo, addresses, staged, reply, faults>>

\* The guard loads the user; the service asks walletsGenerated of what it read.
Authenticate(j) ==
    /\ pc[j] = "authenticate"
    /\ known' = [known EXCEPT ![j] = WalletsOf(j.user)]
    /\ Goto(j, IF j.user \in generated THEN "getWallets" ELSE "listSystemWallets")
    /\ UNCHANGED <<shared, issued, todo, addresses, staged, reply, faults>>

\* The wallets the user has are the answer.
GetWallets(j) ==
    /\ pc[j] = "getWallets"
    /\ End(j, "done", WalletsOf(j.user))
    /\ UNCHANGED <<shared, issued, faults>>

-----------------------------------------------------------------------------
(* createWalletAddresses. *)

\* Users are not deleted, so findUnique before it finds the user.
ListSystemWallets(j) ==
    /\ pc[j] = "listSystemWallets"
    /\ todo' = [todo EXCEPT ![j] = Chains]
    /\ Goto(j, "createAddress")
    /\ UNCHANGED <<shared, issued, addresses, staged, known, reply, faults>>

\* A new address of the provider; its number tells it from the owner's others.
NewAddress(j, c) ==
    [owner |-> j.user, chain |-> c,
     address |-> 1 + Cardinality({a \in issued : a.owner = j.user /\ a.chain = c})]

\* One turn of the loop over the system wallets, which come in any order.
CreateAddress(j) ==
    /\ pc[j] = "createAddress"
    /\ \E c \in todo[j] :
          /\ issued' = issued \union {NewAddress(j, c)}
          /\ addresses' = [addresses EXCEPT ![j] = @ \union {NewAddress(j, c)}]
          /\ todo' = [todo EXCEPT ![j] = @ \ {c}]
          /\ Goto(j, IF todo[j] = {c} THEN "updateUser" ELSE "createAddress")
    /\ UNCHANGED <<shared, staged, known, reply, faults>>

\* The provider makes the address, its answer does not come within 10 s.
AddressUnanswered(j) ==
    /\ pc[j] = "createAddress"
    /\ faults < MaxFaults
    /\ faults' = faults + 1
    /\ \E c \in todo[j] : issued' = issued \union {NewAddress(j, c)}
    /\ End(j, "failed", {})
    /\ UNCHANGED shared

\* A transaction has updated the user's row and is not over.
UserLocked(u) == \E j \in Jobs : j.user = u /\ pc[j] \in {"createWallet", "commit"}

\* Mutant of UpdateUser: on this.database, so committed at once.
UpdateUserOutside(j) ==
    /\ pc[j] = "updateUser" /\ ~UserLocked(j.user)
    /\ generated' = generated \union {j.user}
    /\ Goto(j, "createWallet")
    /\ UNCHANGED <<created, wallets, patient, issued, local, faults>>

\* The tokens are read, which do not change; $transaction begins.  Its first
\* statement sets walletsGeneratedAt: it waits for a transaction that has done
\* so, and shows at commit.
UpdateUser(j) ==
    /\ pc[j] = "updateUser" /\ ~UserLocked(j.user)
    /\ Goto(j, "createWallet")
    /\ UNCHANGED <<shared, issued, local, faults>>

\* The wallet of an address, with a zero balance of each token of its chain.
WalletAt(a) ==
    [owner |-> a.owner, chain |-> a.chain, address |-> a.address, balances |-> TokensOn[a.chain]]

\* Addresses without a wallet in the job's transaction.
Unstored(j) == {a \in addresses[j] : WalletAt(a) \notin staged[j]}

\* One turn of the loop over the addresses, in an order nobody sees.
CreateWallet(j) ==
    /\ pc[j] = "createWallet"
    /\ \E a \in Unstored(j) :
          /\ staged' = [staged EXCEPT ![j] = @ \union {WalletAt(a)}]
          /\ Goto(j, IF Unstored(j) = {a} THEN "commit" ELSE "createWallet")
    /\ UNCHANGED <<shared, issued, todo, addresses, known, reply, faults>>

\* Mutant of Apply: the update of the user is forgotten.
ApplyWithoutMark(j) ==
    /\ wallets' = wallets \union staged[j]
    /\ UNCHANGED <<created, generated, patient>>

\* What the transaction has written becomes visible together.
Apply(j) ==
    /\ generated' = generated \union {j.user}
    /\ wallets' = wallets \union staged[j]
    /\ UNCHANGED <<created, patient>>

Commit(j) ==
    /\ pc[j] = "commit"
    /\ Apply(j)
    /\ End(j, "done", staged[j])
    /\ UNCHANGED <<issued, faults>>

\* The database commits and its answer, or the whole instance, is lost.
CommitUnconfirmed(j) ==
    /\ pc[j] = "commit"
    /\ faults < MaxFaults
    /\ faults' = faults + 1
    /\ Apply(j)
    /\ End(j, "failed", {})
    /\ UNCHANGED issued

\* A statement throws, the provider refuses, the transaction is rolled back,
\* or the instance dies: what was not committed is gone.  A request is
\* answered with an error; nothing repeats the event.
Fail(j) ==
    /\ pc[j] \notin Ended
    /\ faults < MaxFaults
    /\ faults' = faults + 1
    /\ End(j, "failed", {})
    /\ UNCHANGED <<shared, issued>>

-----------------------------------------------------------------------------
Handle(j) ==
    \/ PublishUserCreated(j) \/ Authenticate(j) \/ GetWallets(j)
    \/ ListSystemWallets(j) \/ CreateAddress(j)
    \/ UpdateUser(j) \/ CreateWallet(j) \/ Commit(j)

Next ==
    \/ \E u \in Users : CreateUser(u)
    \/ \E j \in Jobs :
          Ask(j) \/ Handle(j) \/ AddressUnanswered(j) \/ CommitUnconfirmed(j) \/ Fail(j)

Spec == Init /\ [][Next]_vars

\* A job that can run a statement does.
FairSpec == Spec /\ \A j \in Jobs : WF_vars(Handle(j))

-----------------------------------------------------------------------------
(* Properties. *)

TypeOK ==
    /\ created \subseteq Users
    /\ generated \subseteq created
    /\ wallets \subseteq Wallets
    /\ issued \subseteq Addresses
    /\ pc \in [Jobs -> PCs]
    /\ todo \in [Jobs -> SUBSET Chains]
    /\ addresses \in [Jobs -> SUBSET Addresses]
    /\ staged \in [Jobs -> SUBSET Wallets]
    /\ known \in [Jobs -> SUBSET Wallets]
    /\ reply \in [Jobs -> SUBSET Wallets]
    /\ patient \subseteq Users
    /\ faults \in 0..MaxFaults

\* A set of wallets of u with every chain, and all balances of each.
Complete(u, ws) ==
    /\ \A w \in ws : w.owner = u /\ w.balances = TokensOn[w.chain]
    /\ \A c \in Chains : \E w \in ws : w.chain = c

\* walletsGeneratedAt is true to the wallets, though it is written by several
\* jobs and any of them may fail half-way: a marked user has a wallet on every
\* chain with a balance of every token, any other has none at all.
MarkMeansWallets ==
    \A u \in Users :
        IF u \in generated THEN Complete(u, WalletsOf(u)) ELSE WalletsOf(u) = {}

\* 201 lists a stored wallet of the user on every chain, whether this request
\* made them or found them.
AnswerIsComplete ==
    \A j \in Jobs : pc[j] = "done" => Complete(j.user, reply[j]) /\ reply[j] \subseteq wallets

\* A request makes addresses only when its user had no wallet as it began: what
\* it adds to the wallets of a job it did not overlap is nothing, whatever that
\* job lost.  (The event's job, which does not ask, may find wallets.)
RequestsMakeFirstWallets ==
    \A j \in Jobs : j.slot # "event" /\ pc[j] \in Creating => known[j] = {}

\* A user whose jobs do not overlap, the event's counted from the insert that
\* precedes it, has one wallet on a chain: failures, lost confirmations and
\* requests that come again do not make a second one.
OneWalletPerChain ==
    \A v, w \in wallets :
        v.owner \in patient /\ v.owner = w.owner /\ v.chain = w.chain => v = w

\* A user who keeps asking has wallets in the end, whatever failed before.
AskersGetWallets ==
    \A u \in Users :
        []<>(\E j \in Jobs : j.user = u /\ pc[j] = "authenticate")
            => <>Complete(u, WalletsOf(u))
=============================================================================
