---------------------------- MODULE TotalBalance ----------------------------
(***************************************************************************)
(* The card balance that the JIT gateway is told: the webhook finds the    *)
(* user of a customer, getTotalBalance reads his balances and looks a rate *)
(* up for each of them, all at once, and adds up what they are worth.      *)
(*                                                                         *)
(* A lookup asks Redis, then Paycrest, then stores the answer for five     *)
(* minutes.  A rate from Redis is the bare number, a fresh one is          *)
(* Paycrest's answer with its status: of a cached rate only that there is  *)
(* one matters, since the sum passes over what has no status.  Rates are   *)
(* natural numbers; amounts are integers, since charges overdraw balances  *)
(* (NoOverdraft of CardOrders).                                            *)
(*                                                                         *)
(* BalancesProofs extends this module together with others, so names that  *)
(* every module has (the next statement, Init, Spec, ...) differ from      *)
(* theirs.                                                                 *)
(***************************************************************************)
EXTENDS Integers, FiniteSets, FiniteSetsExt

CONSTANTS
    Requests,       \* webhooks being served, on any instance
    TokenBalances,  \* balances of the customer's user, one per chain and token
    SymbolOf,       \* the symbol of each balance's token
    Amounts,        \* of a balance; below zero when it is overdrawn
    Rates,          \* what Paycrest may quote
    MaxMoves,       \* bound on changes of balances
    MaxFailures,    \* bound on failed calls and answers without success
    NoRate, NoTotal, NaN

Symbols == {SymbolOf[b] : b \in TokenBalances}

ASSUME TotalBalanceAssumption ==
    /\ IsFiniteSet(TokenBalances)
    /\ Amounts \subseteq Int /\ Amounts # {}
    /\ Rates \subseteq Nat
    /\ MaxMoves \in Nat /\ MaxFailures \in Nat
    /\ NoRate \notin Nat /\ NoTotal \notin Int /\ NaN \notin Int \union {NoTotal}

VARIABLES
    customer,       \* the SudoCustomer row is stored
    hasWallets,     \* the user has wallets
    available,      \* availableBalance of each balance
    cached,         \* symbols with a rate in Redis
    step,           \* next awaited statement of a request
    held,           \* the balances as it read them
    first,          \* of each symbol, the balance that came first in the query
    lookup,         \* where the lookup of each balance is
    quote,          \* what Paycrest quoted for it
    total,          \* the sum it answered
    answer,         \* how it was answered
    moves,
    failures

webhookVars == <<customer, hasWallets, available, cached, step, held, first, lookup,
                 quote, total, answer, moves, failures>>

database == <<customer, hasWallets, available, moves>>
reading == <<held, first>>

Stages == {"idle", "findCustomer", "getWallets", "getRates"}

Answers == {"none", "refused", "ignored", "unknownCustomer", "noWallets", "total", "error"}

\* "hit", "notSuccess", "quoted", "threw": how a lookup ended.
Lookups == {"none", "get", "ask", "set", "hit", "notSuccess", "quoted", "threw"}

UnderWay == {"get", "ask", "set"}

\* Which balance of a symbol comes first: the query has no order.
QueryOrders == {f \in [Symbols -> TokenBalances] : \A s \in Symbols : SymbolOf[f[s]] = s}

\* What a request that has read nothing holds.
Zero == [b \in TokenBalances |-> 0]
AnyOrder == CHOOSE f \in QueryOrders : TRUE

WebhookInit ==
    /\ customer = FALSE /\ hasWallets = FALSE
    /\ available \in [TokenBalances -> Amounts]
    /\ cached = {}
    /\ step = [r \in Requests |-> "idle"]
    /\ held = [r \in Requests |-> Zero]
    /\ first = [r \in Requests |-> AnyOrder]
    /\ lookup = [r \in Requests |-> [b \in TokenBalances |-> "none"]]
    /\ quote = [r \in Requests |-> [b \in TokenBalances |-> NoRate]]
    /\ total = [r \in Requests |-> NoTotal]
    /\ answer = [r \in Requests |-> "none"]
    /\ moves = 0 /\ failures = 0

-----------------------------------------------------------------------------
(* What others write. *)

\* A card is activated, wallets are made.
Store == customer' = TRUE /\ UNCHANGED hasWallets
Provision == hasWallets' = TRUE /\ UNCHANGED customer

\* A swap or a charge changes a balance; a charge may leave it below zero.
Move ==
    /\ moves < MaxMoves /\ moves' = moves + 1
    /\ \E b \in TokenBalances : \E a \in Amounts \ {available[b]} :
          available' = [available EXCEPT ![b] = a]
    /\ UNCHANGED <<customer, hasWallets, cached, step, reading, lookup, quote, total,
                   answer, failures>>

Grow ==
    /\ \/ ~customer /\ Store
       \/ ~hasWallets /\ Provision
    /\ UNCHANGED <<available, cached, step, reading, lookup, quote, total, answer,
                   moves, failures>>

\* A webhook of another user, or a lookup that outlived its request, stores a rate.
Warm ==
    /\ \E s \in Symbols \ cached : cached' = cached \union {s}
    /\ UNCHANGED <<database, step, reading, lookup, quote, total, answer, failures>>

\* Redis drops a rate after its five minutes.
Expire ==
    /\ \E s \in cached : cached' = cached \ {s}
    /\ UNCHANGED <<database, step, reading, lookup, quote, total, answer, failures>>

-----------------------------------------------------------------------------
(* The webhook. *)

End(r, a) ==
    /\ step' = [step EXCEPT ![r] = "idle"]
    /\ answer' = [answer EXCEPT ![r] = a]

Fault == failures < MaxFailures /\ failures' = failures + 1

\* A slot is free again when no lookup of its last request is under way.
Free(r) == step[r] = "idle" /\ \A b \in TokenBalances : lookup[r][b] \notin UnderWay

\* A wrong signature is refused, an event that is not of the card's balance
\* gets an answer without one.
Receive(r) ==
    /\ Free(r)
    /\ held' = [held EXCEPT ![r] = Zero] /\ first' = [first EXCEPT ![r] = AnyOrder]
    /\ lookup' = [lookup EXCEPT ![r] = [b \in TokenBalances |-> "none"]]
    /\ quote' = [quote EXCEPT ![r] = [b \in TokenBalances |-> NoRate]]
    /\ total' = [total EXCEPT ![r] = NoTotal]
    /\ \/ End(r, "refused") \/ End(r, "ignored")
       \/ /\ step' = [step EXCEPT ![r] = "findCustomer"]
          /\ answer' = [answer EXCEPT ![r] = "none"]
    /\ UNCHANGED <<database, cached, failures>>

FindCustomer(r) ==
    /\ step[r] = "findCustomer"
    /\ IF customer
       THEN step' = [step EXCEPT ![r] = "getWallets"] /\ UNCHANGED answer
       ELSE End(r, "unknownCustomer")
    /\ UNCHANGED <<database, cached, reading, lookup, quote, total, failures>>

\* The balances are read, and the lookup of each is started.
GetWallets(r) ==
    /\ step[r] = "getWallets" /\ hasWallets
    /\ held' = [held EXCEPT ![r] = available]
    /\ \E f \in QueryOrders : first' = [first EXCEPT ![r] = f]
    /\ lookup' = [lookup EXCEPT ![r] = [b \in TokenBalances |-> "get"]]
    /\ step' = [step EXCEPT ![r] = "getRates"]
    /\ UNCHANGED <<database, cached, quote, total, answer, failures>>

NoWallets(r) ==
    /\ step[r] = "getWallets" /\ ~hasWallets
    /\ End(r, "noWallets")
    /\ UNCHANGED <<database, cached, reading, lookup, quote, total, failures>>

\* The database fails in one of the two queries.
Fail(r) ==
    /\ step[r] \in {"findCustomer", "getWallets"} /\ Fault
    /\ End(r, "error")
    /\ UNCHANGED <<database, cached, reading, lookup, quote, total>>

-----------------------------------------------------------------------------
(* A lookup.  It goes on when its request has already failed. *)

TurnTo(r, b, l) == lookup' = [lookup EXCEPT ![r][b] = l]

ReadCache(r, b) ==
    /\ lookup[r][b] = "get"
    /\ TurnTo(r, b, IF SymbolOf[b] \in cached THEN "hit" ELSE "ask")
    /\ UNCHANGED <<database, cached, step, reading, quote, total, answer, failures>>

\* The GETs of a request leave together: none follows an answer of Paycrest.
AskPaycrest(r, b) ==
    /\ lookup[r][b] = "ask"
    /\ \A c \in TokenBalances : lookup[r][c] # "get"
    /\ \/ /\ \E q \in Rates : quote' = [quote EXCEPT ![r][b] = q]
          /\ TurnTo(r, b, "set") /\ UNCHANGED failures
       \/ Fault /\ TurnTo(r, b, "notSuccess") /\ UNCHANGED quote
    /\ UNCHANGED <<database, cached, step, reading, total, answer>>

StoreRate(r, b) ==
    /\ lookup[r][b] = "set"
    /\ cached' = cached \union {SymbolOf[b]}
    /\ TurnTo(r, b, "quoted")
    /\ UNCHANGED <<database, step, reading, quote, total, answer, failures>>

\* Redis or Paycrest fails or does not answer in time; a SET may have worked.
FailLookup(r, b) ==
    /\ lookup[r][b] \in UnderWay /\ Fault
    /\ TurnTo(r, b, "threw")
    /\ \/ UNCHANGED cached
       \/ lookup[r][b] = "set" /\ cached' = cached \union {SymbolOf[b]}
    /\ UNCHANGED <<database, step, reading, quote, total, answer>>

-----------------------------------------------------------------------------
(* The sum. *)

\* Mutant of Rated: the status is not looked at.
RatedAll(r) == Symbols

\* rates.find takes the first entry of a symbol, and passes over the symbol if
\* that entry has no status of success: a rate from Redis has none.
Rated(r) == {s \in Symbols : lookup[r][first[r][s]] = "quoted"}

Amount(f, s) == MapThenSumSet(LAMBDA b : f[b], {b \in TokenBalances : SymbolOf[b] = s})

\* Mutants of AddUp: a symbol once for each of its entries, or only its first balance.
SumOfEntries(r) ==
    MapThenSumSet(LAMBDA b : IF SymbolOf[b] \in Rated(r)
                             THEN quote[r][first[r][SymbolOf[b]]] * Amount(held[r], SymbolOf[b])
                             ELSE 0, TokenBalances)

SumOfFirst(r) ==
    MapThenSumSet(LAMBDA s : held[r][first[r][s]] * quote[r][first[r][s]], Rated(r))

Worth(r) == MapThenSumSet(LAMBDA s : Amount(held[r], s) * quote[r][first[r][s]], Rated(r))

\* A rate that is not a number makes the sum NaN.
AddUp(r) == IF \E s \in Rated(r) : quote[r][first[r][s]] = NoRate THEN NaN ELSE Worth(r)

\* Every lookup has ended well.
AnswerTotal(r) ==
    /\ step[r] = "getRates"
    /\ \A b \in TokenBalances : lookup[r][b] \in {"hit", "notSuccess", "quoted"}
    /\ total' = [total EXCEPT ![r] = AddUp(r)]
    /\ End(r, "total")
    /\ UNCHANGED <<database, cached, reading, lookup, quote, failures>>

\* Mutant of Reject: a failed lookup is waited for.
RejectLast(r) ==
    /\ step[r] = "getRates"
    /\ \A b \in TokenBalances : lookup[r][b] = "threw"
    /\ End(r, "error")
    /\ UNCHANGED <<database, cached, reading, lookup, quote, total, failures>>

\* One lookup has thrown: Promise.all throws, the others go on.
Reject(r) ==
    /\ step[r] = "getRates"
    /\ \E b \in TokenBalances : lookup[r][b] = "threw"
    /\ End(r, "error")
    /\ UNCHANGED <<database, cached, reading, lookup, quote, total, failures>>

-----------------------------------------------------------------------------
Look(r) ==
    \E b \in TokenBalances :
        ReadCache(r, b) \/ AskPaycrest(r, b) \/ StoreRate(r, b) \/ FailLookup(r, b)

HandleWebhook(r) ==
    FindCustomer(r) \/ GetWallets(r) \/ NoWallets(r) \/ Fail(r)
        \/ Look(r) \/ AnswerTotal(r) \/ Reject(r)

WebhookNext ==
    \/ Move \/ Grow \/ Warm \/ Expire
    \/ \E r \in Requests : Receive(r) \/ HandleWebhook(r)

WebhookSpec == WebhookInit /\ [][WebhookNext]_webhookVars

\* The event loop goes on, PostgreSQL and Redis answer or fail, and the client's
\* timeout bounds the calls of Paycrest.
FairWebhookSpec == WebhookSpec /\ \A r \in Requests : WF_webhookVars(HandleWebhook(r))

-----------------------------------------------------------------------------
(* Properties. *)

TotalTypeOK ==
    /\ customer \in BOOLEAN /\ hasWallets \in BOOLEAN
    /\ available \in [TokenBalances -> Amounts]
    /\ cached \subseteq Symbols
    /\ step \in [Requests -> Stages]
    /\ held \in [Requests -> [TokenBalances -> Amounts \union {0}]]
    /\ first \in [Requests -> QueryOrders]
    /\ lookup \in [Requests -> [TokenBalances -> Lookups]]
    /\ quote \in [Requests -> [TokenBalances -> Rates \union {NoRate}]]
    /\ total \in [Requests -> Int \union {NoTotal}]
    /\ answer \in [Requests -> Answers]
    /\ moves \in 0..MaxMoves /\ failures \in 0..MaxFailures

Quotes(r, s) == {quote[r][b] : b \in {c \in TokenBalances : SymbolOf[c] = s}} \ {NoRate}

\* A rate of the symbol was in Redis, or Paycrest's answer was not a success.
PassedOver(r, s) ==
    \E b \in TokenBalances : SymbolOf[b] = s /\ lookup[r][b] \in {"hit", "notSuccess"}

\* What a symbol may count for: all its balances, overdrawn ones too, at one of
\* the rates quoted for them, or nothing if it may have been passed over.
Counts(r, s) ==
    {Amount(held[r], s) * q : q \in Quotes(r, s)} \union {c \in {0} : PassedOver(r, s)}

AtBest(r) == MapThenSumSet(LAMBDA s : Max(Counts(r, s)), Symbols)
AtWorst(r) == MapThenSumSet(LAMBDA s : Min(Counts(r, s)), Symbols)

\* A card is told no more than its user's balances count for at best: none counts
\* twice, none at a rate nobody quoted for the request, and what is overdrawn is
\* deducted unless it is passed over, whatever is cached, fails, or changes under
\* way.
NeverAboveBest ==
    \A r \in Requests : answer[r] = "total" => total[r] <= AtBest(r)

\* Nor less than at worst: a symbol is left out only for a rate that was in Redis
\* or refused, and then alone.
NeverBelowWorst ==
    \A r \in Requests : answer[r] = "total" => total[r] >= AtWorst(r)

\* Every request ends, though lookups fail while others are under way.
RequestsEnd == \A r \in Requests : step[r] # "idle" ~> step[r] = "idle"

\* "Get balances from all wallets" (wallets.service.ts 126), of a total that is
\* theirs: if no call fails, a user with money and no debt is told more than
\* nothing.
TotalHasAllBalances ==
    \A r \in Requests :
        /\ answer[r] = "total"
        /\ \A b \in TokenBalances : lookup[r][b] # "notSuccess"
        /\ \A b \in TokenBalances : held[r][b] >= 0
        /\ \E b \in TokenBalances : held[r][b] > 0
        => total[r] > 0
=============================================================================
