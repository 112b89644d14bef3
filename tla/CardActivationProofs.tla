------------------------ MODULE CardActivationProofs ------------------------
(***************************************************************************)
(* A user gets one card, and what he is shown as frozen is frozen: for any *)
(* users, requests and failures.                                           *)
(*                                                                         *)
(* The invariant says what a job knows at each statement (JobInv).  One    *)
(* job at most passes the unique row of a user (AtTheCard): it alone is    *)
(* about to ask for a card, and until then the user has none.              *)
(***************************************************************************)
EXTENDS CardActivation, FiniteSetTheorems, TLAPS

AtTheCard(j) ==
    /\ CustomerOf(j) \in sudoCustomers
    /\ \A c \in cards : c.customer.owner # j.user
    /\ \A k \in Jobs : k.user = j.user /\ pc[k] = "createCard" => k = j

JobInv(j) ==
    /\ pc[j] = "createCard" => AtTheCard(j)
    /\ pc[j] \in {"updateCard", "updateRow"} => card[j] \subseteq userCards
    /\ pc[j] = "updateRow" => card[j] \subseteq frozen
    /\ pc[j] = "done" /\ wish[j] = "inactive" => card[j] \subseteq frozen
    /\ pc[j] \in Activating => wish[j] = "activate"
    /\ pc[j] = "showCard" => wish[j] = "show"
    /\ pc[j] = "getToken" => wish[j] = "token"

TypeInv == TypeOK /\ IsFiniteSet(cards)

OneCustomer == \A c, d \in sudoCustomers : c.owner = d.owner => c = d

IInv ==
    /\ TypeInv
    /\ OneCustomer
    /\ OneCardPerUser
    /\ inactive \subseteq frozen
    /\ \A j \in Jobs : JobInv(j)

-----------------------------------------------------------------------------
\* A job's customer is one, and its next card is a card of that customer.
LEMMA NewCardType ==
    ASSUME TypeInv, NEW j \in Jobs
    PROVE  /\ CustomerOf(j) \in Customers
           /\ CustomerOf(j).owner = j.user
           /\ NewCard(j) \in Cards
           /\ NewCard(j).customer = CustomerOf(j)
<1> DEFINE S == {c \in cards : c.customer = CustomerOf(j)}
<1>1. j.user \in Users
  BY DEF Jobs
<1>2. CustomerOf(j) \in Customers /\ CustomerOf(j).owner = j.user
  BY <1>1 DEF TypeInv, TypeOK, CustomerOf, Customers
<1>3. Cardinality(S) \in Nat
  BY FS_Subset, FS_CardinalityType DEF TypeInv
<1> QED
  BY <1>2, <1>3 DEF NewCard, Cards

\* The invariant holds at first.
LEMMA InitIInv == Init => IInv
<1> SUFFICES ASSUME Init PROVE IInv
  OBVIOUS
<1>1. TypeInv
  BY FS_EmptySet, CardActivationAssumption DEF Init, TypeInv, TypeOK, Ended
<1>2. ASSUME NEW j \in Jobs PROVE JobInv(j)
  BY DEF Init, JobInv, Activating
<1> QED
  BY <1>1, <1>2 DEF Init, IInv, OneCustomer, OneCardPerUser

-----------------------------------------------------------------------------
\* A new request starts with nothing.
LEMMA AskKeepsIInv ==
    ASSUME IInv, NEW j \in Jobs, Ask(j)
    PROVE  IInv'
<1>1. TypeInv'
  BY DEF IInv, Ask, Activate, Goto, TypeInv, TypeOK, Ended, Activating, Freezing, Reading, Statuses, provider, rows
<1>2. ASSUME NEW k \in Jobs PROVE JobInv(k)'
  BY DEF IInv, TypeInv, TypeOK, Ask, Activate, Goto, JobInv, AtTheCard, CustomerOf, Activating, provider, rows
<1> QED
  BY <1>1, <1>2 DEF IInv, Ask, provider, rows, OneCustomer, OneCardPerUser

\* A job that ends in an error leaves what is stored.
LEMMA FailKeepsIInv ==
    ASSUME IInv, NEW j \in Jobs, Fail(j)
    PROVE  IInv'
<1>1. TypeInv'
  BY CardActivationAssumption
  DEF IInv, Fail, Fault, Goto, TypeInv, TypeOK, Ended, provider, rows
<1>2. ASSUME NEW k \in Jobs PROVE JobInv(k)'
  BY DEF IInv, TypeInv, TypeOK, Fail, Goto, JobInv, AtTheCard, CustomerOf, Activating, provider, rows
<1> QED
  BY <1>1, <1>2 DEF IInv, Fail, provider, rows, OneCustomer, OneCardPerUser

\* How a statement ends: the job goes on or fails, with or without a fault.
Ends(j, l) ==
    /\ l \in Ended \union Activating \union Freezing
    /\ Goto(j, l)
    /\ faults' \in 0..MaxFaults
    /\ UNCHANGED <<dated, wish>>

\* A customer more at the provider changes nothing of what is stored.
LEMMA CustomerMadeKeepsIInv ==
    ASSUME IInv, NEW j \in Jobs, NewCustomer(j), NEW l \in {"storeCustomer", "failed"}, Ends(j, l),
           customer' \in [Jobs -> Nat],
           \A k \in Jobs \ {j} : customer'[k] = customer[k],
           UNCHANGED <<cards, frozen, rows, card>>
    PROVE  IInv'
<1>1. TypeInv'
  BY CardActivationAssumption
  DEF IInv, NewCustomer, Ends, Goto, TypeInv, TypeOK, Jobs, rows, Ended, Activating
<1>2. ASSUME NEW k \in Jobs PROVE JobInv(k)'
  BY DEF IInv, TypeInv, TypeOK, NewCustomer, Ends, Goto, JobInv, AtTheCard, CustomerOf, Activating, rows
<1> QED
  BY <1>1, <1>2 DEF IInv, rows, OneCustomer, OneCardPerUser

\* The row of a user without one: no other job of his is at the card.
LEMMA CustomerStoredKeepsIInv ==
    ASSUME IInv, NEW j \in Jobs, pc[j] = "storeCustomer", ~Taken(j),
           sudoCustomers' = sudoCustomers \union {CustomerOf(j)},
           NEW l \in {"createCard", "failed"}, Ends(j, l),
           UNCHANGED <<provider, userCards, inactive, customer, card>>
    PROVE  IInv'
<1>1. CustomerOf(j) \in Customers /\ CustomerOf(j).owner = j.user
  BY NewCardType DEF IInv
<1>2. TypeInv'
  BY <1>1 DEF IInv, Ends, Goto, TypeInv, TypeOK, provider, Ended, Activating
<1>3. OneCustomer' /\ OneCardPerUser'
  BY <1>1 DEF IInv, Taken, OneCustomer, OneCardPerUser, provider
<1>4. \A c \in cards : c.customer.owner # j.user
  BY DEF IInv, Taken, OneCardPerUser
<1>5. \A k \in Jobs : k.user = j.user => pc[k] # "createCard"
  BY NewCardType DEF IInv, Taken, JobInv, AtTheCard
<1>6. ASSUME NEW k \in Jobs PROVE JobInv(k)'
  <2>1. CustomerOf(k)' = CustomerOf(k)
    BY DEF CustomerOf
  <2>2. CASE k = j
    BY <1>4, <1>5, <2>1, <2>2
    DEF IInv, TypeInv, TypeOK, Ends, Goto, JobInv, AtTheCard, Activating, provider
  <2>3. CASE k # j
    BY <1>5, <2>1, <2>3
    DEF IInv, TypeInv, TypeOK, Ends, Goto, JobInv, AtTheCard, Activating, provider
  <2> QED
    BY <2>2, <2>3
<1> QED
  BY <1>2, <1>3, <1>6 DEF IInv, provider

\* The card of the one job that may ask for it is the user's first.
LEMMA CardIssuedKeepsIInv ==
    ASSUME IInv, NEW j \in Jobs, IssueCard(j),
           NEW l \in {"storeCard", "failed"}, Ends(j, l),
           card' \in [Jobs -> SUBSET cards'],
           \A k \in Jobs \ {j} : card'[k] = card[k],
           UNCHANGED <<customers, frozen, rows, customer>>
    PROVE  IInv'
<1> USE DEF rows
<1>1. NewCard(j) \in Cards /\ NewCard(j).customer = CustomerOf(j) /\ CustomerOf(j).owner = j.user
  BY NewCardType DEF IInv
<1>2. AtTheCard(j) /\ pc[j] = "createCard" /\ wish[j] = "activate"
  BY DEF IInv, JobInv, IssueCard, Activating
<1>3. TypeInv'
  <2>1. IsFiniteSet(cards')
    BY FS_AddElement DEF IInv, TypeInv, IssueCard
  <2> QED
    BY <1>1, <2>1 DEF IInv, Ends, Goto, TypeInv, TypeOK, IssueCard, Ended, Activating
<1>4. OneCustomer' /\ OneCardPerUser'
  BY <1>1, <1>2 DEF IInv, OneCustomer, OneCardPerUser, IssueCard, AtTheCard
<1>5. ASSUME NEW k \in Jobs PROVE JobInv(k)'
  <2>1. CustomerOf(k)' = CustomerOf(k)
    BY DEF CustomerOf
  <2>2. CASE k = j
    BY <1>2, <2>2 DEF IInv, TypeInv, TypeOK, Ends, Goto, JobInv, Activating
  <2>3. CASE k # j
    BY <1>1, <1>2, <2>1, <2>3
    DEF IInv, TypeInv, TypeOK, Ends, Goto, JobInv, AtTheCard, Activating, IssueCard
  <2> QED
    BY <2>2, <2>3
<1> QED
  BY <1>3, <1>4, <1>5 DEF IInv

\* Storing the card only adds a row.
LEMMA CardStoredKeepsIInv ==
    ASSUME IInv, NEW j \in Jobs, pc[j] = "storeCard", userCards' = userCards \union card[j],
           NEW l \in {"done", "failed"}, Ends(j, l),
           UNCHANGED <<provider, sudoCustomers, inactive, customer, card>>
    PROVE  IInv'
<1> USE DEF provider
<1>1. TypeInv'
  BY DEF IInv, Ends, Goto, TypeInv, TypeOK, Ended
<1>2. ASSUME NEW k \in Jobs PROVE JobInv(k)'
  BY DEF IInv, TypeInv, TypeOK, Ends, Goto, JobInv, AtTheCard, CustomerOf, Activating
<1> QED
  BY <1>1, <1>2 DEF IInv, OneCustomer, OneCardPerUser

\* A freeze works on a card that is stored.
LEMMA FindCardKeepsIInv ==
    ASSUME IInv, NEW j \in Jobs, FindCard(j)
    PROVE  IInv'
<1> USE DEF provider, rows
<1>1. TypeInv'
  BY DEF IInv, FindCard, CardsOf, Goto, TypeInv, TypeOK, Ended, Freezing, Reading
<1>2. ASSUME NEW k \in Jobs PROVE JobInv(k)'
  BY DEF IInv, TypeInv, TypeOK, FindCard, CardsOf, Goto, JobInv, AtTheCard, CustomerOf, Activating
<1> QED
  BY <1>1, <1>2 DEF IInv, FindCard, OneCustomer, OneCardPerUser

\* What is read changes nothing.
LEMMA ReadKeepsIInv ==
    ASSUME IInv, NEW j \in Jobs, ShowCard(j) \/ GetCardToken(j)
    PROVE  IInv'
<1> USE DEF provider, rows
<1>1. TypeInv'
  BY DEF IInv, ShowCard, GetCardToken, Goto, TypeInv, TypeOK, Ended
<1>2. ASSUME NEW k \in Jobs PROVE JobInv(k)'
  BY DEF IInv, TypeInv, TypeOK, ShowCard, GetCardToken, Goto, JobInv, AtTheCard, CustomerOf,
         Activating
<1> QED
  BY <1>1, <1>2 DEF IInv, ShowCard, GetCardToken, OneCustomer, OneCardPerUser

\* The provider's status only goes one way.
LEMMA SetInactiveKeepsIInv ==
    ASSUME IInv, NEW j \in Jobs, SetInactive(j),
           NEW l \in {"updateRow", "failed"}, Ends(j, l),
           UNCHANGED <<customers, cards, rows, customer, card>>
    PROVE  IInv'
<1> USE DEF rows
<1>1. TypeInv'
  BY DEF IInv, SetInactive, Ends, Goto, TypeInv, TypeOK, Ended, Freezing
<1>2. ASSUME NEW k \in Jobs PROVE JobInv(k)'
  BY DEF IInv, TypeInv, TypeOK, SetInactive, Ends, Goto, JobInv, AtTheCard, CustomerOf, Activating
<1> QED
  BY <1>1, <1>2 DEF IInv, SetInactive, OneCustomer, OneCardPerUser

\* The row is written after the provider has frozen the card.
LEMMA SetRowKeepsIInv ==
    ASSUME IInv, NEW j \in Jobs, SetRow(j),
           NEW l \in {"done", "failed"}, Ends(j, l),
           UNCHANGED <<provider, sudoCustomers, userCards, customer, card>>
    PROVE  IInv'
<1> USE DEF provider
<1>1. card[j] \subseteq userCards /\ card[j] \subseteq frozen
  BY DEF IInv, JobInv, SetRow
<1>2. TypeInv' /\ (inactive \subseteq frozen)'
  BY <1>1 DEF IInv, SetRow, Ends, Goto, TypeInv, TypeOK, Ended
<1>3. ASSUME NEW k \in Jobs PROVE JobInv(k)'
  BY <1>1
  DEF IInv, TypeInv, TypeOK, SetRow, Ends, Goto, JobInv, AtTheCard, CustomerOf, Activating
<1> QED
  BY <1>2, <1>3 DEF IInv, OneCustomer, OneCardPerUser

-----------------------------------------------------------------------------
\* A statement that does its work.
LEMMA HandleKeepsIInv ==
    ASSUME IInv, NEW j \in Jobs, Handle(j)
    PROVE  IInv'
<1> USE DEF Ends
<1>0. faults \in 0..MaxFaults /\ customer \in [Jobs -> Nat] /\ card \in [Jobs -> SUBSET cards]
  BY DEF IInv, TypeInv, TypeOK
<1>1. CASE CreateCustomer(j)
  <2>1. customers'[j.user] \in Nat
    BY <1>1, CardActivationAssumption DEF CreateCustomer, NewCustomer, IInv, TypeInv, TypeOK, Jobs
  <2>2. NewCustomer(j) /\ Ends(j, "storeCustomer")
    BY <1>0, <1>1 DEF CreateCustomer, Activating
  <2>3. customer' \in [Jobs -> Nat] /\ \A k \in Jobs \ {j} : customer'[k] = customer[k]
    BY <1>0, <1>1, <2>1 DEF CreateCustomer
  <2> QED
    BY <1>1, <2>2, <2>3, CustomerMadeKeepsIInv DEF CreateCustomer
<1>2. CASE StoreSudoCustomer(j)
  <2>1. CASE Taken(j)
    <3>1. TypeInv'
      BY <1>2, <2>1 DEF IInv, StoreSudoCustomer, Goto, TypeInv, TypeOK, Ended, provider
    <3>2. ASSUME NEW k \in Jobs PROVE JobInv(k)'
      BY <1>2, <2>1 DEF IInv, TypeInv, TypeOK, StoreSudoCustomer, Goto, JobInv, AtTheCard,
                        CustomerOf, Activating, provider
    <3> QED
      BY <1>2, <2>1, <3>1, <3>2
      DEF IInv, StoreSudoCustomer, OneCustomer, OneCardPerUser, provider
  <2>2. CASE ~Taken(j)
    <3>1. Ends(j, "createCard")
      BY <1>0, <1>2, <2>2 DEF StoreSudoCustomer, Activating
    <3> QED
      BY <1>2, <2>2, <3>1, CustomerStoredKeepsIInv DEF StoreSudoCustomer
  <2> QED
    BY <2>1, <2>2
<1>3. CASE CreateCard(j)
  <2>1. IssueCard(j) /\ Ends(j, "storeCard")
    BY <1>0, <1>3 DEF CreateCard, Activating
  <2>2. card' \in [Jobs -> SUBSET cards'] /\ \A k \in Jobs \ {j} : card'[k] = card[k]
    BY <1>0, <1>3 DEF CreateCard, IssueCard
  <2> QED
    BY <1>3, <2>1, <2>2, CardIssuedKeepsIInv DEF CreateCard
<1>4. CASE StoreSudoCard(j)
  <2>1. Ends(j, "done")
    BY <1>0, <1>4 DEF StoreSudoCard, Ended
  <2> QED
    BY <1>4, <2>1, CardStoredKeepsIInv DEF StoreSudoCard
<1>5. CASE FindCard(j)
  BY <1>5, FindCardKeepsIInv
<1>6. CASE UpdateCard(j)
  <2>1. Ends(j, "updateRow")
    BY <1>0, <1>6 DEF UpdateCard, Freezing
  <2> QED
    BY <1>6, <2>1, SetInactiveKeepsIInv DEF UpdateCard
<1>7. CASE UpdateRow(j)
  <2>1. Ends(j, "done")
    BY <1>0, <1>7 DEF UpdateRow, Ended
  <2> QED
    BY <1>7, <2>1, SetRowKeepsIInv DEF UpdateRow
<1> QED
  BY <1>1, <1>2, <1>3, <1>4, <1>5, <1>6, <1>7, ReadKeepsIInv DEF Handle

\* A statement that does its work and fails all the same.
LEMMA LostAnswerKeepsIInv ==
    ASSUME IInv, NEW j \in Jobs, Unanswered(j) \/ Unconfirmed(j)
    PROVE  IInv'
<1>0. /\ faults' \in 0..MaxFaults
      /\ customer \in [Jobs -> Nat] /\ card \in [Jobs -> SUBSET cards]
  BY CardActivationAssumption DEF IInv, TypeInv, TypeOK, Unanswered, Unconfirmed, Fault
<1>1. Ends(j, "failed")
  BY <1>0 DEF Ends, Unanswered, Unconfirmed, Ended
<1>2. CASE Unanswered(j)
  <2>1. UNCHANGED <<rows, customer, card>>
    BY <1>2 DEF Unanswered
  <2>2. CASE NewCustomer(j) /\ UNCHANGED <<cards, frozen>>
    BY <1>0, <1>1, <2>1, <2>2, CustomerMadeKeepsIInv
  <2>3. CASE IssueCard(j) /\ UNCHANGED <<customers, frozen>>
    <3>1. card' \in [Jobs -> SUBSET cards']
      BY <1>0, <2>1, <2>3 DEF IssueCard
    <3> QED
      BY <1>1, <2>1, <2>3, <3>1, CardIssuedKeepsIInv
  <2>4. CASE SetInactive(j) /\ UNCHANGED <<customers, cards>>
    BY <1>1, <2>1, <2>4, SetInactiveKeepsIInv
  <2> QED
    BY <1>2, <2>2, <2>3, <2>4 DEF Unanswered
<1>3. CASE Unconfirmed(j)
  <2>1. UNCHANGED <<provider, customer, card>>
    BY <1>3 DEF Unconfirmed
  <2>2. CASE /\ pc[j] = "storeCustomer" /\ ~Taken(j)
             /\ sudoCustomers' = sudoCustomers \union {CustomerOf(j)}
             /\ UNCHANGED <<userCards, inactive>>
    BY <1>1, <2>1, <2>2, CustomerStoredKeepsIInv
  <2>3. CASE /\ pc[j] = "storeCard" /\ userCards' = userCards \union card[j]
             /\ UNCHANGED <<sudoCustomers, inactive>>
    BY <1>1, <2>1, <2>3, CardStoredKeepsIInv
  <2>4. CASE SetRow(j) /\ UNCHANGED <<sudoCustomers, userCards>>
    BY <1>1, <2>1, <2>4, SetRowKeepsIInv
  <2> QED
    BY <1>3, <2>2, <2>3, <2>4 DEF Unconfirmed
<1> QED
  BY <1>2, <1>3

\* Every step keeps the invariant.
LEMMA NextKeepsIInv == IInv /\ [Next]_vars => IInv'
<1> SUFFICES ASSUME IInv, [Next]_vars PROVE IInv'
  OBVIOUS
<1>1. CASE UNCHANGED vars
  BY <1>1 DEF vars, provider, rows, IInv, TypeInv, TypeOK, OneCustomer, OneCardPerUser,
              JobInv, AtTheCard, CustomerOf
<1>2. CASE Next
  BY <1>2, AskKeepsIInv, HandleKeepsIInv, LostAnswerKeepsIInv, FailKeepsIInv DEF Next
<1> QED
  BY <1>1, <1>2

-----------------------------------------------------------------------------
\* Activations that overlap or are tried again and freezes that fail half-way
\* keep the invariant (card-infrastructure.service.ts, card.service.ts).
THEOREM InductiveInvariant == Spec => []IInv
BY InitIInv, NextKeepsIInv, PTL DEF Spec

\* Cards, rows and local variables stay in their sets; a row is INACTIVE only
\* for a card that is stored, and stored only when the provider issued it.
THEOREM TypeCorrect == Spec => []TypeOK
<1>1. IInv => TypeOK
  BY DEF IInv, TypeInv
<1> QED
  BY <1>1, InductiveInvariant, PTL

\* The provider issues a user one card at most, to his stored customer.
THEOREM UsersHaveOneCard == Spec => []OneCardPerUser
<1>1. IInv => OneCardPerUser
  BY DEF IInv
<1> QED
  BY <1>1, InductiveInvariant, PTL

\* What is shown as frozen, or was answered so, the provider has frozen.
THEOREM FrozenIsTrue == Spec => []FrozenIsFrozen
<1>1. IInv => FrozenIsFrozen
  BY DEF IInv, JobInv, FrozenIsFrozen
<1> QED
  BY <1>1, InductiveInvariant, PTL
=============================================================================
