---------------------- MODULE WalletProvisioningProofs ----------------------
(***************************************************************************)
(* A user's mark and wallets agree, answers are complete, a request that   *)
(* overlaps no other job makes no second wallet on a chain: for any users, *)
(* requests, chains and failures.                                          *)
(*                                                                         *)
(* The invariant follows a job through its statements (JobInv).  Jobs of   *)
(* one user meet only in the stored rows, which grow: a step of one keeps  *)
(* the JobInv of the others (FrameKeepsJobInv).                            *)
(***************************************************************************)
EXTENDS WalletProvisioning, FiniteSetTheorems, TLAPS

Covered(j, c) == \E a \in addresses[j] : a.chain = c

\* What the job has asked of the provider and been answered.
AddressesInv(j) ==
    /\ pc[j] \in Ended \union {"publish", "authenticate", "getWallets", "listSystemWallets"}
          => addresses[j] = {} /\ staged[j] = {}
    /\ \A a \in addresses[j] : a.owner = j.user
    /\ \A a, b \in addresses[j] : a.chain = b.chain => a = b
    /\ pc[j] = "createAddress" => \A c \in Chains : c \in todo[j] <=> ~Covered(j, c)
    /\ pc[j] \in {"updateUser", "createWallet", "commit"} => \A c \in Chains : Covered(j, c)

\* What its transaction has written.
StagedInv(j) ==
    /\ staged[j] \subseteq {WalletAt(a) : a \in addresses[j]}
    /\ pc[j] = "commit" => {WalletAt(a) : a \in addresses[j]} \subseteq staged[j]

\* What it read when it began, and what it answered.
KnowledgeInv(j) ==
    /\ pc[j] # "idle" => j.user \in created
    /\ pc[j] \in Ended \union {"publish"} => known[j] = {}
    /\ pc[j] \in Creating => known[j] = {} \/ j.slot = "event"
    /\ pc[j] = "publish" => j.slot = "event"
    /\ pc[j] = "getWallets" => j.user \in generated
    /\ pc[j] = "done" => Complete(j.user, reply[j]) /\ reply[j] \subseteq wallets

JobInv(j) == AddressesInv(j) /\ StagedInv(j) /\ KnowledgeInv(j)

TypeInv == TypeOK /\ IsFiniteSet(issued)

IInv ==
    /\ TypeInv
    /\ \A j \in Jobs : JobInv(j)
    /\ MarkMeansWallets

\* A patient user's jobs do not overlap: the one that makes wallets finds none.
NoOverlap ==
    \A j, k \in Jobs :
        j.user \in patient /\ j.user = k.user /\ pc[j] \notin Ended /\ pc[k] \notin Ended
            => j = k

\* A job is here when it makes addresses, or will without asking for a mark.
Making == Creating \union {"publish"}

NoneYet == \A j \in Jobs : j.user \in patient /\ pc[j] \in Making => j.user \notin generated

Alone == NoOverlap /\ NoneYet /\ OneWalletPerChain

-----------------------------------------------------------------------------
\* Jobs are the records of a user and a slot.
LEMMA JobFields == \A j \in Jobs : j.user \in Users
BY DEF Jobs

LEMMA EventIsJob ==
    ASSUME NEW u \in Users
    PROVE  Event(u) \in Jobs /\ Event(u).user = u
BY DEF Event, Jobs

\* The provider's new address has its fields, and its wallet too.
LEMMA NewAddressType ==
    ASSUME TypeInv, NEW j \in Jobs, NEW c \in Chains
    PROVE  /\ NewAddress(j, c) \in Addresses
           /\ NewAddress(j, c).owner = j.user
           /\ NewAddress(j, c).chain = c
<1> DEFINE S == {a \in issued : a.owner = j.user /\ a.chain = c}
<1>1. IsFiniteSet(S)
  BY FS_Subset DEF TypeInv
<1>2. Cardinality(S) \in Nat
  BY <1>1, FS_CardinalityType
<1> QED
  BY <1>2, JobFields DEF NewAddress, Addresses

LEMMA WalletAtType ==
    ASSUME NEW a \in Addresses
    PROVE  /\ WalletAt(a) \in Wallets
           /\ WalletAt(a).owner = a.owner
           /\ WalletAt(a).chain = a.chain
           /\ WalletAt(a).balances = TokensOn[a.chain]
BY DEF WalletAt, Addresses, Wallets, Tokens

\* The wallets of a set of addresses of u on all chains are complete.
LEMMA StoredIsComplete ==
    ASSUME TypeInv, NEW j \in Jobs, JobInv(j), pc[j] = "commit"
    PROVE  Complete(j.user, staged[j]) /\ staged[j] \subseteq Wallets
<1>1. addresses[j] \subseteq Addresses /\ staged[j] \subseteq Wallets
  BY DEF TypeInv, TypeOK
<1>2. staged[j] = {WalletAt(a) : a \in addresses[j]}
  BY DEF JobInv, StagedInv
<1>3. \A a \in addresses[j] : a.owner = j.user
  BY DEF JobInv, AddressesInv
<1>4. \A c \in Chains : \E a \in addresses[j] : a.chain = c
  BY DEF JobInv, AddressesInv, Covered
<1>5. \A w \in staged[j] : w.owner = j.user /\ w.balances = TokensOn[w.chain]
  BY <1>1, <1>2, <1>3, WalletAtType
<1>6. \A c \in Chains : \E w \in staged[j] : w.chain = c
  BY <1>1, <1>2, <1>4, WalletAtType
<1> QED
  BY <1>1, <1>5, <1>6 DEF Complete

-----------------------------------------------------------------------------
\* What a step leaves of a job that it does not run.
Untouched(k) ==
    /\ pc'[k] = pc[k] /\ todo'[k] = todo[k] /\ addresses'[k] = addresses[k]
    /\ staged'[k] = staged[k] /\ known'[k] = known[k] /\ reply'[k] = reply[k]

RowsGrow == created \subseteq created' /\ generated \subseteq generated' /\ wallets \subseteq wallets'

\* A step that leaves a job alone and only adds rows keeps its invariant.
LEMMA FrameKeepsJobInv ==
    ASSUME NEW k \in Jobs, JobInv(k), Untouched(k), RowsGrow
    PROVE  JobInv(k)'
<1>1. AddressesInv(k)'
  BY DEF JobInv, AddressesInv, Covered, Untouched
<1>2. StagedInv(k)'
  BY DEF JobInv, StagedInv, Untouched
<1>3. KnowledgeInv(k)'
  BY DEF JobInv, KnowledgeInv, Untouched, RowsGrow, Complete
<1> QED
  BY <1>1, <1>2, <1>3 DEF JobInv

\* The same for all jobs but one.
Others(j) == \A k \in Jobs \ {j} : Untouched(k)

LEMMA OthersKeepJobInv ==
    ASSUME NEW j \in Jobs, \A k \in Jobs : JobInv(k), Others(j), RowsGrow, JobInv(j)'
    PROVE  \A k \in Jobs : JobInv(k)'
BY FrameKeepsJobInv DEF Others

\* Where no mark and no wallet changes, MarkMeansWallets stays.
LEMMA MarkStays ==
    ASSUME MarkMeansWallets, UNCHANGED <<generated, wallets>>
    PROVE  MarkMeansWallets'
BY DEF MarkMeansWallets, WalletsOf, Complete

-----------------------------------------------------------------------------
LEMMA InitIInv == Init => IInv
<1> SUFFICES ASSUME Init PROVE IInv
  OBVIOUS
<1>1. TypeInv
  BY FS_EmptySet, ProvisioningAssumption DEF Init, TypeInv, TypeOK, PCs, Ended
<1>2. ASSUME NEW j \in Jobs PROVE JobInv(j)
  BY DEF Init, JobInv, AddressesInv, StagedInv, KnowledgeInv, Ended, Creating
<1>3. MarkMeansWallets
  BY DEF Init, MarkMeansWallets, WalletsOf
<1> QED
  BY <1>1, <1>2, <1>3 DEF IInv

LEMMA CreateUserKeepsIInv ==
    ASSUME IInv, NEW u \in Users, CreateUser(u)
    PROVE  IInv'
<1> USE DEF CreateUser, local, Goto
<1>1. TypeInv'
  BY EventIsJob DEF IInv, TypeInv, TypeOK, PCs, Creating
<1>2. RowsGrow
  BY DEF RowsGrow
<1>3. Others(Event(u))
  BY DEF Others, Untouched, IInv, TypeInv, TypeOK
<1>4. JobInv(Event(u))'
  <2>1. JobInv(Event(u)) /\ Event(u) \in Jobs /\ Event(u).user = u
    BY EventIsJob DEF IInv
  <2>2. pc[Event(u)] = "idle"
    BY <2>1 DEF JobInv, KnowledgeInv
  <2>3. pc'[Event(u)] \in {"idle", "publish"} /\ Event(u).slot = "event"
    BY <2>1, <2>2 DEF IInv, TypeInv, TypeOK, Event
  <2>4. AddressesInv(Event(u))'
    BY <2>1, <2>2, <2>3 DEF JobInv, AddressesInv, Ended
  <2>5. StagedInv(Event(u))'
    BY <2>1, <2>2, <2>3 DEF JobInv, StagedInv
  <2>6. KnowledgeInv(Event(u))'
    BY <2>1, <2>2, <2>3 DEF JobInv, KnowledgeInv, Ended, Creating
  <2> QED
    BY <2>4, <2>5, <2>6 DEF JobInv
<1>5. MarkMeansWallets'
  BY MarkStays DEF IInv
<1> QED
  BY <1>1, <1>2, <1>3, <1>4, <1>5, EventIsJob, OthersKeepJobInv DEF IInv

\* The event's handler may find wallets: KnowledgeInv says nothing against it.
LEMMA PublishUserCreatedKeepsIInv ==
    ASSUME IInv, NEW j \in Jobs, PublishUserCreated(j)
    PROVE  IInv'
<1> USE DEF PublishUserCreated, shared, Goto
<1>1. TypeInv'
  BY DEF IInv, TypeInv, TypeOK, PCs, Creating, WalletsOf
<1>2. RowsGrow /\ Others(j)
  BY DEF RowsGrow, Others, Untouched, IInv, TypeInv, TypeOK
<1>3. JobInv(j)'
  <2>1. JobInv(j) /\ pc'[j] = "listSystemWallets" /\ j.slot = "event"
    BY DEF IInv, TypeInv, TypeOK, JobInv, KnowledgeInv
  <2>2. AddressesInv(j)'
    BY <2>1 DEF JobInv, AddressesInv, Ended, Covered
  <2>3. StagedInv(j)'
    BY <2>1 DEF JobInv, StagedInv
  <2>4. KnowledgeInv(j)'
    BY <2>1 DEF JobInv, KnowledgeInv, Ended, Creating
  <2> QED
    BY <2>2, <2>3, <2>4 DEF JobInv
<1>4. MarkMeansWallets'
  BY MarkStays DEF IInv
<1> QED
  BY <1>1, <1>2, <1>3, <1>4, OthersKeepJobInv DEF IInv

LEMMA AskKeepsIInv ==
    ASSUME IInv, NEW j \in Jobs, Ask(j)
    PROVE  IInv'
<1> USE DEF Ask, shared, Goto
<1>1. TypeInv'
  BY DEF IInv, TypeInv, TypeOK, PCs
<1>2. RowsGrow /\ Others(j)
  BY DEF RowsGrow, Others, Untouched, IInv, TypeInv, TypeOK
<1>3. JobInv(j)'
  <2>1. JobInv(j) /\ pc'[j] = "authenticate"
    BY DEF IInv, TypeInv, TypeOK
  <2>2. AddressesInv(j)'
    BY <2>1 DEF JobInv, AddressesInv, Ended, Covered
  <2>3. StagedInv(j)'
    BY <2>1 DEF JobInv, StagedInv
  <2>4. KnowledgeInv(j)'
    BY <2>1 DEF JobInv, KnowledgeInv, Ended, Creating
  <2> QED
    BY <2>2, <2>3, <2>4 DEF JobInv
<1>4. MarkMeansWallets'
  BY MarkStays DEF IInv
<1> QED
  BY <1>1, <1>2, <1>3, <1>4, OthersKeepJobInv DEF IInv

\* Who is not marked has no wallet: a job that goes on to make some knows none.
LEMMA AuthenticateKeepsIInv ==
    ASSUME IInv, NEW j \in Jobs, Authenticate(j)
    PROVE  IInv'
<1> USE DEF Authenticate, shared, Goto
<1>1. TypeInv'
  BY DEF IInv, TypeInv, TypeOK, PCs, Creating, WalletsOf
<1>2. RowsGrow /\ Others(j)
  BY DEF RowsGrow, Others, Untouched, IInv, TypeInv, TypeOK
<1>3. JobInv(j)'
  <2>1. JobInv(j) /\ known'[j] = WalletsOf(j.user)
    BY DEF IInv, TypeInv, TypeOK
  <2>2. pc'[j] = IF j.user \in generated THEN "getWallets" ELSE "listSystemWallets"
    BY DEF IInv, TypeInv, TypeOK
  <2>3. j.user \notin generated => known'[j] = {}
    BY <2>1, JobFields DEF IInv, MarkMeansWallets
  <2>4. AddressesInv(j)'
    BY <2>1, <2>2 DEF JobInv, AddressesInv, Ended, Covered
  <2>5. StagedInv(j)'
    BY <2>1, <2>2 DEF JobInv, StagedInv
  <2>6. KnowledgeInv(j)'
    BY <2>1, <2>2, <2>3 DEF JobInv, KnowledgeInv, Ended, Creating
  <2> QED
    BY <2>4, <2>5, <2>6 DEF JobInv
<1>4. MarkMeansWallets'
  BY MarkStays DEF IInv
<1> QED
  BY <1>1, <1>2, <1>3, <1>4, OthersKeepJobInv DEF IInv

\* The end of a job without a row written leaves nothing of it but its answer.
LEMMA EndKeepsIInv ==
    ASSUME IInv, NEW j \in Jobs, NEW l \in {"done", "failed"}, NEW answer \in SUBSET Wallets,
           End(j, l, answer), pc[j] # "idle",
           TypeInv', RowsGrow, MarkMeansWallets',
           l = "done" => Complete(j.user, answer) /\ answer \subseteq wallets'
    PROVE  IInv'
<1> USE DEF End, Goto
<1>1. Others(j)
  BY DEF Others, Untouched, IInv, TypeInv, TypeOK
<1>2. JobInv(j)'
  <2>1. /\ JobInv(j) /\ pc'[j] = l /\ reply'[j] = answer
        /\ addresses'[j] = {} /\ staged'[j] = {} /\ known'[j] = {}
    BY DEF IInv, TypeInv, TypeOK
  <2>2. AddressesInv(j)' /\ StagedInv(j)'
    BY <2>1 DEF AddressesInv, StagedInv
  <2>3. KnowledgeInv(j)'
    BY <2>1 DEF JobInv, KnowledgeInv, Ended, Creating, RowsGrow, Complete
  <2> QED
    BY <2>2, <2>3 DEF JobInv
<1> QED
  BY <1>1, <1>2, OthersKeepJobInv DEF IInv

\* The types of a job's end.
LEMMA EndType ==
    ASSUME TypeInv, NEW j \in Jobs, NEW l \in {"done", "failed"}, NEW answer \in SUBSET Wallets,
           End(j, l, answer), created' = created
    PROVE  /\ created' \subseteq Users
           /\ pc' \in [Jobs -> PCs]
           /\ todo' \in [Jobs -> SUBSET Chains]
           /\ addresses' \in [Jobs -> SUBSET Addresses]
           /\ staged' \in [Jobs -> SUBSET Wallets]
           /\ known' \in [Jobs -> SUBSET Wallets]
           /\ reply' \in [Jobs -> SUBSET Wallets]
BY DEF End, Goto, TypeInv, TypeOK, PCs, Ended

LEMMA GetWalletsKeepsIInv ==
    ASSUME IInv, NEW j \in Jobs, GetWallets(j)
    PROVE  IInv'
<1> USE DEF GetWallets, shared
<1>1. j.user \in generated /\ WalletsOf(j.user) \subseteq wallets
  BY DEF IInv, JobInv, KnowledgeInv, WalletsOf
<1>2. WalletsOf(j.user) \in SUBSET Wallets
  BY <1>1 DEF IInv, TypeInv, TypeOK
<1>3. TypeInv'
  BY <1>2, EndType DEF IInv, TypeInv, TypeOK
<1>4. Complete(j.user, WalletsOf(j.user))
  BY <1>1, JobFields DEF IInv, MarkMeansWallets
<1>5. RowsGrow
  BY DEF RowsGrow
<1>6. MarkMeansWallets'
  BY MarkStays DEF IInv
<1> QED
  BY <1>1, <1>2, <1>3, <1>4, <1>5, <1>6, EndKeepsIInv

LEMMA FailKeepsIInv ==
    ASSUME IInv, NEW j \in Jobs, Fail(j)
    PROVE  IInv'
<1> USE DEF Fail, shared
<1>1. TypeInv'
  BY EndType, ProvisioningAssumption DEF IInv, TypeInv, TypeOK
<1>2. RowsGrow
  BY DEF RowsGrow
<1>3. MarkMeansWallets'
  BY MarkStays DEF IInv
<1>4. pc[j] # "idle"
  BY DEF Ended
<1> QED
  BY <1>1, <1>2, <1>3, <1>4, EndKeepsIInv

LEMMA AddressUnansweredKeepsIInv ==
    ASSUME IInv, NEW j \in Jobs, AddressUnanswered(j)
    PROVE  IInv'
<1> USE DEF AddressUnanswered, shared
<1>1. PICK c \in todo[j] : issued' = issued \union {NewAddress(j, c)}
  OBVIOUS
<1>2. c \in Chains
  BY <1>1 DEF IInv, TypeInv, TypeOK
<1>3. NewAddress(j, c) \in Addresses
  BY <1>2, NewAddressType DEF IInv
<1>4. IsFiniteSet(issued')
  BY <1>1, FS_AddElement DEF IInv, TypeInv
<1>5. TypeInv'
  BY <1>1, <1>3, <1>4, EndType, ProvisioningAssumption DEF IInv, TypeInv, TypeOK
<1>6. RowsGrow
  BY DEF RowsGrow
<1>7. MarkMeansWallets'
  BY MarkStays DEF IInv
<1> QED
  BY <1>5, <1>6, <1>7, EndKeepsIInv

LEMMA ListSystemWalletsKeepsIInv ==
    ASSUME IInv, NEW j \in Jobs, ListSystemWallets(j)
    PROVE  IInv'
<1> USE DEF ListSystemWallets, shared, Goto
<1>1. TypeInv'
  BY DEF IInv, TypeInv, TypeOK, PCs, Creating
<1>2. RowsGrow /\ Others(j)
  BY DEF RowsGrow, Others, Untouched, IInv, TypeInv, TypeOK
<1>3. JobInv(j)'
  <2>1. /\ JobInv(j) /\ pc'[j] = "createAddress" /\ todo'[j] = Chains
        /\ addresses[j] = {} /\ staged[j] = {}
    BY DEF IInv, TypeInv, TypeOK, JobInv, AddressesInv
  <2>2. AddressesInv(j)'
    BY <2>1 DEF JobInv, AddressesInv, Ended, Covered
  <2>3. StagedInv(j)'
    BY <2>1 DEF JobInv, StagedInv
  <2>4. KnowledgeInv(j)'
    BY <2>1 DEF JobInv, KnowledgeInv, Ended, Creating
  <2> QED
    BY <2>2, <2>3, <2>4 DEF JobInv
<1>4. MarkMeansWallets'
  BY MarkStays DEF IInv
<1> QED
  BY <1>1, <1>2, <1>3, <1>4, OthersKeepJobInv DEF IInv

LEMMA CreateAddressKeepsIInv ==
    ASSUME IInv, NEW j \in Jobs, CreateAddress(j)
    PROVE  IInv'
<1> USE DEF CreateAddress, shared, Goto
<1> PICK c \in todo[j] :
        /\ issued' = issued \union {NewAddress(j, c)}
        /\ addresses' = [addresses EXCEPT ![j] = @ \union {NewAddress(j, c)}]
        /\ todo' = [todo EXCEPT ![j] = @ \ {c}]
        /\ Goto(j, IF todo[j] = {c} THEN "updateUser" ELSE "createAddress")
  OBVIOUS
<1>1. c \in Chains
  BY DEF IInv, TypeInv, TypeOK
<1>2. /\ NewAddress(j, c) \in Addresses
      /\ NewAddress(j, c).owner = j.user /\ NewAddress(j, c).chain = c
  BY <1>1, NewAddressType DEF IInv
<1>3. TypeInv'
  <2>1. IsFiniteSet(issued')
    BY FS_AddElement DEF IInv, TypeInv
  <2> QED
    BY <1>2, <2>1 DEF IInv, TypeInv, TypeOK, PCs, Creating
<1>4. RowsGrow /\ Others(j)
  BY DEF RowsGrow, Others, Untouched, IInv, TypeInv, TypeOK
<1>5. JobInv(j)'
  <2>1. /\ JobInv(j)
        /\ pc'[j] = IF todo[j] = {c} THEN "updateUser" ELSE "createAddress"
        /\ todo'[j] = todo[j] \ {c}
        /\ addresses'[j] = addresses[j] \union {NewAddress(j, c)}
        /\ staged'[j] = staged[j] /\ known'[j] = known[j]
        /\ created' = created
    BY DEF IInv, TypeInv, TypeOK
  <2>2. \A d \in Chains : d \in todo[j] <=> ~Covered(j, d)
    BY <2>1 DEF JobInv, AddressesInv
  <2>3. \A d \in Chains : Covered(j, d)' <=> (Covered(j, d) \/ d = c)
    BY <2>1, <1>2 DEF Covered
  <2>4. AddressesInv(j)'
    <3>1. \A d \in Chains : d \in todo'[j] <=> ~Covered(j, d)'
      BY <2>1, <2>2, <2>3
    <3>2. pc'[j] = "updateUser" => \A d \in Chains : Covered(j, d)'
      BY <2>1, <2>2, <2>3
    <3>3. \A a, b \in addresses'[j] : a.chain = b.chain => a = b
      BY <1>1, <1>2, <2>1, <2>2 DEF JobInv, AddressesInv, Covered
    <3>4. \A a \in addresses'[j] : a.owner = j.user
      BY <1>2, <2>1 DEF JobInv, AddressesInv
    <3> QED
      BY <2>1, <3>1, <3>2, <3>3, <3>4 DEF AddressesInv, Ended
  <2>5. StagedInv(j)'
    BY <2>1 DEF JobInv, StagedInv
  <2>6. KnowledgeInv(j)'
    BY <2>1 DEF JobInv, KnowledgeInv, Ended, Creating
  <2> QED
    BY <2>4, <2>5, <2>6 DEF JobInv
<1>6. MarkMeansWallets'
  BY MarkStays DEF IInv
<1> QED
  BY <1>3, <1>4, <1>5, <1>6, OthersKeepJobInv DEF IInv

LEMMA UpdateUserKeepsIInv ==
    ASSUME IInv, NEW j \in Jobs, UpdateUser(j)
    PROVE  IInv'
<1> USE DEF UpdateUser, shared, local, Goto
<1>1. TypeInv'
  BY DEF IInv, TypeInv, TypeOK, PCs, Creating
<1>2. RowsGrow /\ Others(j)
  BY DEF RowsGrow, Others, Untouched, IInv, TypeInv, TypeOK
<1>3. JobInv(j)'
  <2>1. JobInv(j) /\ pc'[j] = "createWallet"
    BY DEF IInv, TypeInv, TypeOK
  <2>2. AddressesInv(j)'
    BY <2>1 DEF JobInv, AddressesInv, Ended, Covered
  <2>3. StagedInv(j)' /\ KnowledgeInv(j)'
    BY <2>1 DEF JobInv, StagedInv, KnowledgeInv, Ended, Creating
  <2> QED
    BY <2>2, <2>3 DEF JobInv
<1>4. MarkMeansWallets'
  BY MarkStays DEF IInv
<1> QED
  BY <1>1, <1>2, <1>3, <1>4, OthersKeepJobInv DEF IInv

LEMMA CreateWalletKeepsIInv ==
    ASSUME IInv, NEW j \in Jobs, CreateWallet(j)
    PROVE  IInv'
<1> USE DEF CreateWallet, shared, Goto
<1> PICK a \in Unstored(j) :
        /\ staged' = [staged EXCEPT ![j] = @ \union {WalletAt(a)}]
        /\ Goto(j, IF Unstored(j) = {a} THEN "commit" ELSE "createWallet")
  OBVIOUS
<1>1. a \in addresses[j] /\ addresses[j] \subseteq Addresses
  BY DEF Unstored, IInv, TypeInv, TypeOK
<1>2. TypeInv'
  BY <1>1, WalletAtType DEF IInv, TypeInv, TypeOK, PCs, Creating
<1>3. RowsGrow /\ Others(j)
  BY DEF RowsGrow, Others, Untouched, IInv, TypeInv, TypeOK
<1>4. JobInv(j)'
  <2>1. /\ JobInv(j)
        /\ pc'[j] = IF Unstored(j) = {a} THEN "commit" ELSE "createWallet"
        /\ staged'[j] = staged[j] \union {WalletAt(a)}
        /\ addresses'[j] = addresses[j]
    BY DEF IInv, TypeInv, TypeOK
  <2>2. AddressesInv(j)'
    BY <2>1 DEF JobInv, AddressesInv, Ended, Covered
  <2>3. StagedInv(j)'
    <3>1. staged'[j] \subseteq {WalletAt(b) : b \in addresses[j]}
      BY <1>1, <2>1 DEF JobInv, StagedInv
    <3>2. ASSUME Unstored(j) = {a}, NEW b \in addresses[j]
          PROVE  WalletAt(b) \in staged'[j]
      BY <2>1, <3>2 DEF Unstored
    <3> QED
      BY <2>1, <3>1, <3>2 DEF StagedInv, WalletAt
  <2>4. KnowledgeInv(j)'
    BY <2>1 DEF JobInv, KnowledgeInv, Ended, Creating
  <2> QED
    BY <2>2, <2>3, <2>4 DEF JobInv
<1>5. MarkMeansWallets'
  BY MarkStays DEF IInv
<1> QED
  BY <1>2, <1>3, <1>4, <1>5, OthersKeepJobInv DEF IInv

\* A commit marks the user and adds a complete set of wallets at once.
LEMMA ApplyKeepsMark ==
    ASSUME IInv, NEW j \in Jobs, pc[j] = "commit", Apply(j)
    PROVE  MarkMeansWallets' /\ RowsGrow /\ generated' \subseteq created' /\ wallets' \subseteq Wallets
<1> USE DEF Apply
<1>1. Complete(j.user, staged[j]) /\ staged[j] \subseteq Wallets
  BY StoredIsComplete DEF IInv
<1>2. ASSUME NEW u \in Users
      PROVE  IF u \in generated' THEN Complete(u, WalletsOf(u)') ELSE WalletsOf(u)' = {}
  <2>1. CASE u = j.user
    BY <1>1, <2>1 DEF WalletsOf, Complete, IInv, MarkMeansWallets
  <2>2. CASE u # j.user
    <3>1. WalletsOf(u)' = WalletsOf(u)
      BY <1>1, <2>2 DEF WalletsOf, Complete
    <3> QED
      BY <2>2, <3>1 DEF IInv, MarkMeansWallets, Complete
  <2> QED
    BY <2>1, <2>2
<1>3. MarkMeansWallets'
  BY <1>2 DEF MarkMeansWallets, Complete, WalletsOf
<1>4. j.user \in created
  BY DEF IInv, JobInv, KnowledgeInv
<1> QED
  BY <1>1, <1>3, <1>4 DEF RowsGrow, IInv, TypeInv, TypeOK

LEMMA CommitKeepsIInv ==
    ASSUME IInv, NEW j \in Jobs, Commit(j)
    PROVE  IInv'
<1> USE DEF Commit
<1>1. MarkMeansWallets' /\ RowsGrow /\ generated' \subseteq created' /\ wallets' \subseteq Wallets
  BY ApplyKeepsMark
<1>2. Complete(j.user, staged[j]) /\ staged[j] \in SUBSET Wallets
  BY StoredIsComplete DEF IInv
<1>3. staged[j] \subseteq wallets' /\ created' = created /\ patient' = patient
  BY DEF Apply
<1>4. TypeInv'
  BY <1>1, <1>2, <1>3, EndType DEF IInv, TypeInv, TypeOK
<1> QED
  BY <1>1, <1>2, <1>3, <1>4, EndKeepsIInv

LEMMA CommitUnconfirmedKeepsIInv ==
    ASSUME IInv, NEW j \in Jobs, CommitUnconfirmed(j)
    PROVE  IInv'
<1> USE DEF CommitUnconfirmed
<1>1. MarkMeansWallets' /\ RowsGrow /\ generated' \subseteq created' /\ wallets' \subseteq Wallets
  BY ApplyKeepsMark
<1>2. created' = created /\ patient' = patient
  BY DEF Apply
<1>3. TypeInv'
  BY <1>1, <1>2, EndType, ProvisioningAssumption DEF IInv, TypeInv, TypeOK
<1> QED
  BY <1>1, <1>3, EndKeepsIInv

LEMMA StutterKeepsIInv == IInv /\ UNCHANGED vars => IInv'
<1> SUFFICES ASSUME IInv, UNCHANGED vars PROVE IInv'
  OBVIOUS
<1> USE DEF vars
<1>1. TypeInv'
  BY DEF IInv, TypeInv, TypeOK
<1>2. \A j \in Jobs : JobInv(j)'
  BY FrameKeepsJobInv DEF IInv, Untouched, RowsGrow
<1>3. MarkMeansWallets'
  BY MarkStays DEF IInv
<1> QED
  BY <1>1, <1>2, <1>3 DEF IInv

LEMMA NextIInv == IInv /\ [Next]_vars => IInv'
<1> SUFFICES ASSUME IInv, [Next]_vars PROVE IInv'
  OBVIOUS
<1>1. CASE UNCHANGED vars
  BY <1>1, StutterKeepsIInv
<1>2. ASSUME NEW u \in Users, CreateUser(u) PROVE IInv'
  BY <1>2, CreateUserKeepsIInv
<1>3. ASSUME NEW j \in Jobs, Handle(j) PROVE IInv'
  BY <1>3, PublishUserCreatedKeepsIInv, AuthenticateKeepsIInv, GetWalletsKeepsIInv, ListSystemWalletsKeepsIInv,
     CreateAddressKeepsIInv, UpdateUserKeepsIInv, CreateWalletKeepsIInv, CommitKeepsIInv
     DEF Handle
<1>4. ASSUME NEW j \in Jobs,
             Ask(j) \/ AddressUnanswered(j) \/ CommitUnconfirmed(j) \/ Fail(j)
      PROVE  IInv'
  BY <1>4, AskKeepsIInv, AddressUnansweredKeepsIInv, CommitUnconfirmedKeepsIInv, FailKeepsIInv
<1> QED
  BY <1>1, <1>2, <1>3, <1>4 DEF Next

\* The inductive invariant: JobInv follows every job through its statements
\* (wallets-infrastructure.service.ts 17-76), rows agree with the mark.
THEOREM InductiveInvariant == Spec => []IInv
BY InitIInv, NextIInv, PTL DEF Spec

\* The variables of createWalletAddresses keep their types.
THEOREM TypeCorrect == Spec => []TypeOK
<1>1. IInv => TypeOK
  BY DEF IInv, TypeInv
<1> QED
  BY <1>1, InductiveInvariant, PTL

\* walletsGeneratedAt tells whether the user has wallets on all chains or none.
THEOREM MarkIsTrue == Spec => []MarkMeansWallets
<1>1. IInv => MarkMeansWallets
  BY DEF IInv
<1> QED
  BY <1>1, InductiveInvariant, PTL

\* A 201 of POST /wallets/addresses lists stored wallets on every chain.
THEOREM AnswersAreComplete == Spec => []AnswerIsComplete
<1>1. IInv => AnswerIsComplete
  BY DEF IInv, JobInv, KnowledgeInv, AnswerIsComplete
<1> QED
  BY <1>1, InductiveInvariant, PTL

\* A request adds no second wallets to those of a job it did not overlap.
THEOREM NoLateDuplicates == Spec => []RequestsMakeFirstWallets
<1>1. IInv => RequestsMakeFirstWallets
  BY DEF IInv, JobInv, KnowledgeInv, RequestsMakeFirstWallets
<1> QED
  BY <1>1, InductiveInvariant, PTL

-----------------------------------------------------------------------------
(* Users whose jobs do not overlap. *)

LEMMA InitAlone == Init => Alone
BY DEF Init, Alone, NoOverlap, NoneYet, Ended, Making, Creating, OneWalletPerChain

\* A job that goes on without a commit stays the only one of its user.
LEMMA StepKeepsAlone ==
    ASSUME IInv, Alone, NEW j \in Jobs, Others(j), pc[j] \notin Ended,
           pc'[j] \in Making => pc[j] \in Making \/ j.user \notin generated,
           UNCHANGED <<generated, wallets, patient>>
    PROVE  Alone'
<1>1. \A k \in Jobs : k # j => pc'[k] = pc[k]
  BY DEF Others, Untouched
<1>2. NoOverlap'
  BY <1>1 DEF Alone, NoOverlap
<1>3. NoneYet'
  BY <1>1 DEF Alone, NoneYet
<1> QED
  BY <1>2, <1>3 DEF Alone, OneWalletPerChain

\* A commit finds no wallet of its user and adds one on each chain.
LEMMA ApplyKeepsAlone ==
    ASSUME IInv, Alone, NEW j \in Jobs, NEW l \in {"done", "failed"},
           pc[j] = "commit", Apply(j), Others(j), pc'[j] = l
    PROVE  Alone'
<1> USE DEF Apply
<1>1. \A k \in Jobs : k # j => pc'[k] = pc[k]
  BY DEF Others, Untouched
<1>2. NoOverlap'
  BY <1>1 DEF Alone, NoOverlap, Ended
<1>3. ASSUME NEW k \in Jobs, k.user \in patient, pc'[k] \in Making
      PROVE  k.user \notin generated'
  <2>1. k # j /\ pc[k] \in Making
    BY <1>1, <1>3 DEF Making, Creating
  <2>2. k.user # j.user
    BY <1>3, <2>1 DEF Alone, NoOverlap, Ended, Making, Creating
  <2> QED
    BY <1>3, <2>1, <2>2 DEF Alone, NoneYet
<1>4. j.user \in patient => j.user \notin generated
  BY DEF Alone, NoneYet, Making, Creating
<1>5. j.user \in patient => WalletsOf(j.user) = {}
  BY <1>4, JobFields DEF IInv, MarkMeansWallets
<1>6. \A w \in staged[j] : \E a \in addresses[j] : w = WalletAt(a)
  BY DEF IInv, JobInv, StagedInv
<1>7. \A a \in addresses[j] : a \in Addresses /\ a.owner = j.user
  BY DEF IInv, TypeInv, TypeOK, JobInv, AddressesInv
<1>8. \A v, w \in staged[j] : v.chain = w.chain => v = w
  <2>1. \A a, b \in addresses[j] : a.chain = b.chain => a = b
    BY DEF IInv, JobInv, AddressesInv
  <2> QED
    BY <1>6, <1>7, <2>1, WalletAtType
<1>9. \A w \in staged[j] : w.owner = j.user
  BY <1>6, <1>7, WalletAtType
<1>10. OneWalletPerChain'
  BY <1>5, <1>8, <1>9 DEF Alone, OneWalletPerChain, WalletsOf
<1> QED
  BY <1>2, <1>3, <1>10 DEF Alone, NoneYet

LEMMA NextAlone ==
    ASSUME IInv, Alone, [Next]_vars
    PROVE  Alone'
<1>1. CASE UNCHANGED vars
  BY <1>1 DEF vars, Alone, NoOverlap, NoneYet, OneWalletPerChain
<1>2. ASSUME NEW u \in Users, CreateUser(u) PROVE Alone'
  <2>1. \A j \in Jobs : j.user = u => pc[j] = "idle"
    BY <1>2 DEF CreateUser, IInv, JobInv, KnowledgeInv
  <2>2. u \notin generated
    BY <1>2 DEF CreateUser, IInv, TypeInv, TypeOK
  <2>3. \A j \in Jobs : j # Event(u) => pc'[j] = pc[j]
    BY <1>2 DEF CreateUser, Goto, IInv, TypeInv, TypeOK
  <2>4. UNCHANGED <<generated, wallets, patient>>
    BY <1>2 DEF CreateUser
  <2>5. NoOverlap'
    BY <2>1, <2>3, <2>4, EventIsJob DEF Alone, NoOverlap, Ended
  <2>6. NoneYet'
    BY <2>2, <2>3, <2>4, EventIsJob DEF Alone, NoneYet
  <2> QED
    BY <2>4, <2>5, <2>6 DEF Alone, OneWalletPerChain
<1>3. ASSUME NEW j \in Jobs, Ask(j) PROVE Alone'
  <2>1. j.user \in patient => \A k \in Jobs : k.user = j.user => pc[k] \in Ended
    BY <1>3 DEF Ask
  <2>2. pc' = [pc EXCEPT ![j] = "authenticate"] /\ UNCHANGED <<generated, wallets, patient>>
    BY <1>3 DEF Ask, Goto, shared
  <2>3. NoOverlap'
    BY <2>1, <2>2 DEF Alone, NoOverlap, IInv, TypeInv, TypeOK
  <2>4. NoneYet'
    BY <2>2 DEF Alone, NoneYet, IInv, TypeInv, TypeOK, Making, Creating
  <2> QED
    BY <2>2, <2>3, <2>4 DEF Alone, OneWalletPerChain
<1>4. ASSUME NEW j \in Jobs, NEW l \in PCs, Goto(j, l),
             pc[j] \notin Ended,
             \/ PublishUserCreated(j)
             \/ Authenticate(j) \/ GetWallets(j) \/ ListSystemWallets(j) \/ CreateAddress(j)
             \/ UpdateUser(j) \/ CreateWallet(j) \/ Commit(j)
             \/ AddressUnanswered(j) \/ CommitUnconfirmed(j) \/ Fail(j)
      PROVE  Others(j) /\ pc'[j] = l
  BY <1>4 DEF Others, Untouched, Goto, End, PublishUserCreated, Authenticate, GetWallets, ListSystemWallets,
     CreateAddress, UpdateUser, CreateWallet, Commit, AddressUnanswered, CommitUnconfirmed,
     Fail, local, IInv, TypeInv, TypeOK
<1>5. ASSUME NEW j \in Jobs, Authenticate(j) PROVE Alone'
  <2>1. \A l : l = (IF j.user \in generated THEN "getWallets" ELSE "listSystemWallets")
            => l \in PCs /\ Goto(j, l) /\ (l \in Making => j.user \notin generated)
    BY <1>5 DEF Authenticate, PCs, Making, Creating
  <2> QED
    BY <1>4, <1>5, <2>1, StepKeepsAlone DEF Authenticate, shared, Ended
<1>6. ASSUME NEW j \in Jobs, GetWallets(j) \/ AddressUnanswered(j) \/ Fail(j) PROVE Alone'
  <2>1. \E l \in {"done", "failed"} : Goto(j, l)
    BY <1>6 DEF GetWallets, AddressUnanswered, Fail, End
  <2>2. pc[j] \notin Ended /\ UNCHANGED <<generated, wallets, patient>>
    BY <1>6 DEF GetWallets, AddressUnanswered, Fail, Ended, shared
  <2>3. Others(j) /\ pc'[j] \in {"done", "failed"}
    BY <1>4, <1>6, <2>1, <2>2 DEF PCs, Ended
  <2> QED
    BY <2>2, <2>3, StepKeepsAlone DEF Making, Creating
<1>7. ASSUME NEW j \in Jobs,
             \/ PublishUserCreated(j) \/ ListSystemWallets(j) \/ CreateAddress(j)
             \/ UpdateUser(j) \/ CreateWallet(j)
      PROVE  Alone'
  <2>1. \E l \in Creating : Goto(j, l)
    BY <1>7 DEF PublishUserCreated, ListSystemWallets, CreateAddress, UpdateUser,
                CreateWallet, Creating
  <2>2. pc[j] \in Making /\ UNCHANGED <<generated, wallets, patient>>
    BY <1>7 DEF PublishUserCreated, ListSystemWallets, CreateAddress, UpdateUser,
                CreateWallet, Making, Creating, shared
  <2>3. Others(j)
    BY <1>4, <1>7, <2>1, <2>2 DEF PCs, Making, Creating, Ended
  <2> QED
    BY <2>2, <2>3, StepKeepsAlone DEF Making, Creating, Ended
<1>8. ASSUME NEW j \in Jobs, Commit(j) \/ CommitUnconfirmed(j) PROVE Alone'
  <2>1. \E l \in {"done", "failed"} : Goto(j, l)
    BY <1>8 DEF Commit, CommitUnconfirmed, End
  <2>2. pc[j] = "commit" /\ Apply(j)
    BY <1>8 DEF Commit, CommitUnconfirmed
  <2>3. Others(j) /\ pc'[j] \in {"done", "failed"}
    BY <1>4, <1>8, <2>1, <2>2 DEF PCs, Ended
  <2> QED
    BY <2>2, <2>3, ApplyKeepsAlone
<1> QED
  BY <1>1, <1>2, <1>3, <1>5, <1>6, <1>7, <1>8 DEF Next, Handle

\* A user whose requests do not overlap, and begin after the sign-up has published
\* user.created and its handler has ended, never gets two wallets on one chain, whatever fails and
\* however often he asks (wallets.service.ts 28).
THEOREM PatientUsersHaveOneWallet == Spec => []OneWalletPerChain
<1>1. IInv /\ Alone /\ [Next]_vars => Alone'
  BY NextAlone
<1>2. Alone => OneWalletPerChain
  BY DEF Alone
<1> QED
  BY <1>1, <1>2, InitAlone, InductiveInvariant, PTL DEF Spec
=============================================================================
