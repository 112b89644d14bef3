--------------------------- MODULE CardActivation ---------------------------
(***************************************************************************)
(* How a user's card is activated and frozen: CardService and              *)
(* CardInfrastructureService over the card provider Sudo.                  *)
(*                                                                         *)
(* A job is one request.  Activating makes a customer at the provider,     *)
(* stores it, makes a card for it, stores that: four awaits in no          *)
(* transaction, the unique user of a SudoCustomer row the only thing that  *)
(* keeps two activations apart.  Freezing changes the card at the provider *)
(* and then its row.  What shows a card, or its number, changes nothing.   *)
(***************************************************************************)
EXTENDS Naturals, FiniteSets

CONSTANTS
    Users,
    Slots,          \* requests that a user can have in flight
    Wishes,         \* what requests ask for
    MaxCustomers,   \* bound on the numbers that tell a user's customers apart
    MaxFaults       \* bound on failures

\* What a card's status is asked to be.
Statuses == {"inactive", "active"}

AllWishes == Statuses \union {"activate", "show", "token"}

ASSUME CardActivationAssumption ==
    /\ Wishes \subseteq AllWishes
    /\ MaxCustomers \in Nat \ {0} /\ MaxFaults \in Nat

VARIABLES
    dated,          \* users whose date of birth is on record
    customers,      \* the number of the last customer the provider made for a user
    cards,          \* cards the provider has issued
    frozen,         \* those it has set inactive
    sudoCustomers,  \* SudoCustomer rows: customers stored for a user
    userCards,      \* UserCard rows: the cards stored
    inactive,       \* those whose row says INACTIVE
    pc,             \* next statement of a job
    wish,           \* what it was asked
    customer,       \* the customer it has made
    card,           \* the card it has made or found, if any, as a set
    faults

provider == <<customers, cards, frozen>>
rows == <<sudoCustomers, userCards, inactive>>
vars == <<dated, provider, rows, pc, wish, customer, card, faults>>

Jobs == [user : Users, slot : Slots]

Customers == [owner : Users, number : Nat]

\* A card is told from its customer's others by its number.
Cards == [customer : Customers, number : Nat]

Ended == {"idle", "done", "failed"}

Activating == {"createCustomer", "storeCustomer", "createCard", "storeCard"}

Freezing == {"findCard", "updateCard", "updateRow"}

Reading == {"showCard", "findCard", "getToken"}

Init ==
    /\ dated \in SUBSET Users
    /\ customers = [u \in Users |-> 0]
    /\ cards = {} /\ frozen = {}
    /\ sudoCustomers = {} /\ userCards = {} /\ inactive = {}
    /\ pc = [j \in Jobs |-> "idle"]
    /\ wish = [j \in Jobs |-> "none"]
    /\ customer = [j \in Jobs |-> 0]
    /\ card = [j \in Jobs |-> {}]
    /\ faults = 0

-----------------------------------------------------------------------------
Goto(j, l) == pc' = [pc EXCEPT ![j] = l]

\* activateCard: a user whose date of birth is not on record, and no code puts it
\* there, is answered 500 before the provider is asked.
Activate(j) == Goto(j, IF j.user \in dated THEN "createCustomer" ELSE "failed")

\* POST /cards/activate, PUT /cards/staus, GET /cards or GET /cards/token.
Ask(j) ==
    /\ pc[j] \in Ended
    /\ \E w \in Wishes :
          /\ wish' = [wish EXCEPT ![j] = w]
          /\ \/ w = "activate" /\ Activate(j)
             \/ w = "show" /\ Goto(j, "showCard")
             \/ w \in Statuses \union {"token"} /\ Goto(j, "findCard")
    /\ customer' = [customer EXCEPT ![j] = 0]
    /\ card' = [card EXCEPT ![j] = {}]
    /\ UNCHANGED <<dated, provider, rows, faults>>

\* A statement throws, the provider refuses, or the instance dies.
Fault ==
    /\ faults < MaxFaults
    /\ faults' = faults + 1

Fail(j) ==
    /\ pc[j] \notin Ended
    /\ Fault
    /\ Goto(j, "failed")
    /\ UNCHANGED <<dated, provider, rows, wish, customer, card>>

-----------------------------------------------------------------------------
(* mapCard: activation. *)

CustomerOf(j) == [owner |-> j.user, number |-> customer[j]]

NewCard(j) ==
    [customer |-> CustomerOf(j),
     number |-> 1 + Cardinality({c \in cards : c.customer = CustomerOf(j)})]

\* The provider makes a customer for the user, however many he has.  The
\* last number stands for all beyond it, which are never stored: a customer
\* before them is, since only faults and other jobs in flight can prevent it.
NewCustomer(j) ==
    /\ pc[j] = "createCustomer"
    /\ customers' =
          [customers EXCEPT ![j.user] = IF @ < MaxCustomers THEN @ + 1 ELSE MaxCustomers]

CreateCustomer(j) ==
    /\ NewCustomer(j)
    /\ customer' = [customer EXCEPT ![j] = customers'[j.user]]
    /\ Goto(j, "storeCustomer")
    /\ UNCHANGED <<dated, cards, frozen, rows, wish, card, faults>>

Taken(j) == \E c \in sudoCustomers : c.owner = j.user

\* Mutant of StoreSudoCustomer: the user of a row need not be unique.
StoreAnyCustomer(j) ==
    /\ pc[j] = "storeCustomer"
    /\ sudoCustomers' = sudoCustomers \union {CustomerOf(j)}
    /\ Goto(j, "createCard")
    /\ UNCHANGED <<dated, provider, userCards, inactive, wish, customer, card, faults>>

\* The user of a SudoCustomer is unique: a second row throws.
StoreSudoCustomer(j) ==
    /\ pc[j] = "storeCustomer"
    /\ IF Taken(j)
       THEN Goto(j, "failed") /\ UNCHANGED sudoCustomers
       ELSE /\ sudoCustomers' = sudoCustomers \union {CustomerOf(j)}
            /\ Goto(j, "createCard")
    /\ UNCHANGED <<dated, provider, userCards, inactive, wish, customer, card, faults>>

IssueCard(j) ==
    /\ pc[j] = "createCard"
    /\ cards' = cards \union {NewCard(j)}

CreateCard(j) ==
    /\ IssueCard(j)
    /\ card' = [card EXCEPT ![j] = {NewCard(j)}]
    /\ Goto(j, "storeCard")
    /\ UNCHANGED <<dated, customers, frozen, rows, wish, customer, faults>>

\* The row is ACTIVE by default.
StoreSudoCard(j) ==
    /\ pc[j] = "storeCard"
    /\ userCards' = userCards \union card[j]
    /\ Goto(j, "done")
    /\ UNCHANGED <<dated, provider, sudoCustomers, inactive, wish, customer, card, faults>>

-----------------------------------------------------------------------------
(* getUserCard and getCardToken. *)

CardsOf(u) == {c \in userCards : c.customer.owner = u}

\* A row is answered; without one, mapping it throws.
ShowCard(j) ==
    /\ pc[j] = "showCard"
    /\ Goto(j, IF CardsOf(j.user) = {} THEN "failed" ELSE "done")
    /\ UNCHANGED <<dated, provider, rows, wish, customer, card, faults>>

\* The provider makes a token for the card that was found, frozen or not.
GetCardToken(j) ==
    /\ pc[j] = "getToken"
    /\ Goto(j, "done")
    /\ UNCHANGED <<dated, provider, rows, wish, customer, card, faults>>

-----------------------------------------------------------------------------
(* freezeCard. *)

\* findFirst; with no card, card.sudoCardId throws.
FindCard(j) ==
    /\ pc[j] = "findCard"
    /\ IF CardsOf(j.user) = {}
       THEN Goto(j, "failed") /\ UNCHANGED card
       ELSE /\ \E c \in CardsOf(j.user) : card' = [card EXCEPT ![j] = {c}]
            /\ Goto(j, IF wish[j] = "token" THEN "getToken" ELSE "updateCard")
    /\ UNCHANGED <<dated, provider, rows, wish, customer, faults>>

\* The provider sets the card inactive, whatever the request wants.
SetInactive(j) ==
    /\ pc[j] = "updateCard"
    /\ frozen' = frozen \union card[j]

\* Mutant of UpdateCard: the row is written first.
UpdateRowFirst(j) ==
    /\ pc[j] = "updateCard"
    /\ inactive' = IF wish[j] = "inactive" THEN inactive \union card[j] ELSE inactive
    /\ Goto(j, "updateRow")
    /\ UNCHANGED <<dated, provider, sudoCustomers, userCards, wish, customer, card, faults>>

UpdateCard(j) ==
    /\ SetInactive(j)
    /\ Goto(j, "updateRow")
    /\ UNCHANGED <<dated, customers, cards, rows, wish, customer, card, faults>>

\* Mutant of UpdateRow: the row is not written.
LeaveRow(j) ==
    /\ pc[j] = "updateRow"
    /\ Goto(j, "done")
    /\ UNCHANGED <<dated, provider, rows, wish, customer, card, faults>>

\* The row is set as the request wants.
SetRow(j) ==
    /\ pc[j] = "updateRow"
    /\ inactive' = IF wish[j] = "inactive" THEN inactive \union card[j] ELSE inactive \ card[j]

UpdateRow(j) ==
    /\ SetRow(j)
    /\ Goto(j, "done")
    /\ UNCHANGED <<dated, provider, sudoCustomers, userCards, wish, customer, card, faults>>

-----------------------------------------------------------------------------
\* The provider does what it was asked, its answer does not come within 10 s.
Unanswered(j) ==
    /\ \/ NewCustomer(j) /\ UNCHANGED <<cards, frozen>>
       \/ IssueCard(j) /\ UNCHANGED <<customers, frozen>>
       \/ SetInactive(j) /\ UNCHANGED <<customers, cards>>
    /\ Fault
    /\ Goto(j, "failed")
    /\ UNCHANGED <<dated, rows, wish, customer, card>>

\* The row is stored, the answer of the database or to the user is lost.
Unconfirmed(j) ==
    /\ \/ pc[j] = "storeCustomer" /\ ~Taken(j)
          /\ sudoCustomers' = sudoCustomers \union {CustomerOf(j)}
          /\ UNCHANGED <<userCards, inactive>>
       \/ pc[j] = "storeCard"
          /\ userCards' = userCards \union card[j]
          /\ UNCHANGED <<sudoCustomers, inactive>>
       \/ SetRow(j) /\ UNCHANGED <<sudoCustomers, userCards>>
    /\ Fault
    /\ Goto(j, "failed")
    /\ UNCHANGED <<dated, provider, wish, customer, card>>

Handle(j) ==
    \/ CreateCustomer(j) \/ StoreSudoCustomer(j) \/ CreateCard(j) \/ StoreSudoCard(j)
    \/ ShowCard(j) \/ GetCardToken(j) \/ FindCard(j) \/ UpdateCard(j) \/ UpdateRow(j)

Next == \E j \in Jobs : Ask(j) \/ Handle(j) \/ Unanswered(j) \/ Unconfirmed(j) \/ Fail(j)

Spec == Init /\ [][Next]_vars

\* A job that can run a statement does.
FairSpec == Spec /\ \A j \in Jobs : WF_vars(Handle(j))

-----------------------------------------------------------------------------
(* Properties. *)

TypeOK ==
    /\ dated \in SUBSET Users
    /\ customers \in [Users -> Nat]
    /\ cards \subseteq Cards /\ frozen \subseteq cards
    /\ sudoCustomers \subseteq Customers
    /\ userCards \subseteq cards /\ inactive \subseteq userCards
    /\ pc \in [Jobs -> Ended \union Activating \union Freezing \union Reading]
    /\ wish \in [Jobs -> Wishes \union {"none"}]
    /\ customer \in [Jobs -> Nat]
    /\ card \in [Jobs -> SUBSET cards]
    /\ faults \in 0..MaxFaults

\* However activations overlap, fail or are tried again, the provider issues a
\* user one card at most, and to the customer that is stored for him.
OneCardPerUser ==
    /\ \A c \in cards : c.customer \in sudoCustomers
    /\ \A c, d \in cards : c.customer.owner = d.customer.owner => c = d

\* What the user is shown as frozen the provider has frozen, though either may
\* fail and freezes overlap; and a freeze that was answered has frozen it.
FrozenIsFrozen ==
    /\ inactive \subseteq frozen
    /\ \A j \in Jobs : pc[j] = "done" /\ wish[j] = "inactive" => card[j] \subseteq frozen

\* A user goes on asking for w.
KeepsAsking(u, w) ==
    []<>(\E j \in Jobs :
            j.user = u /\ wish[j] = w /\ pc[j] \in {"createCustomer", "findCard"})

\* A user who has a card and goes on asking to freeze it gets it frozen, at
\* the provider and in its row, whatever failed before.
FreezeTakesEffect ==
    \A u \in Users :
        <>(CardsOf(u) # {}) /\ KeepsAsking(u, "inactive")
            => <>(CardsOf(u) # {} /\ CardsOf(u) \subseteq frozen \cap inactive)

\* "Failed to activate card, try again later": trying again activates it
\* (card-infrastructure.service.ts 50 and 65).
TryingAgainActivates ==
    \A u \in Users : u \in dated /\ KeepsAsking(u, "activate") => <>(CardsOf(u) # {})
=============================================================================
