# Zerocard backend: specifications, model checking and proofs

TLA+ models of the parts of the Zerocard backend that sign users in, move
money, make wallets and cards and send emails, TLC runs that check them on
small instances, and TLAPS proofs of what matters most for instances of any
size. Paths below are relative to the repository; `core/` stands for
`src/modules/core/`, `infra/` for `src/modules/infrastructure/`.

## The system

The backend is a NestJS service over PostgreSQL (through Prisma) and Redis.
Several instances may run; a request is one asynchronous handler, so requests
interleave at every `await`, within an instance and across instances.

| Component | State | Operations | Correct when |
|---|---|---|---|
| Deposit webhook (`infra/wallet`) | `Wallet`, `Token`, `Transaction`, `WalletTokenBalance.ledgerBalance` | `POST /blockradar/webhook` | each transfer is credited once; it is acknowledged only when credited; only signed deposits to known wallets are credited |
| Wallet allocation (`core/wallets`) | none (a computation) | `getWalletAllocationsForAmount` | the amount exactly, smallest balances first, an error only when the balances are short |
| Card orders (`core/cards`) | `CardOrder`, `Transaction`, `availableBalance`, the price in memory | `POST /orders` | charged in full or not at all, with an order; the answer is true; nothing is overdrawn; every request ends |
| System configuration (`infra/system-config`) | settings in memory | load at bootstrap, `get` | the price does not change under an order |
| Wallet provisioning (`infra/wallet`) | `Wallet` rows, the provider's addresses, `walletsGeneratedAt` | `user.created` handler, `POST /wallets/addresses` | mark and wallets agree, no failure half-way loses one; one wallet per chain if jobs do not overlap |
| Sessions and tokens (`core/auth`) | `UserSession` rows, the blacklist in Redis, the pairs clients hold | sign-in, refresh, logout, the guard | a logout revokes the row of its device and the id in it, and nothing begun with that id after it passes; a revoked row stays revoked; who signs in or out gets there |
| One-time codes (`core/mfa`) | hashed codes in Redis, with a lifetime | send, verify | a code is accepted once if its requests do not overlap, never when it is over, and works until then |
| Users and sign-in (`core/users`, `core/auth`) | `User`, `OAuthConnection` | find or create by email, create from Google, profile | one user per email, announced once; who signs in with a time zone that exists is sent a code |
| Cards (`core/cards`, `infra/card`) | `SudoCustomer`, `UserCard`, the provider's card | activate, freeze, read | database and provider agree; a failed activation can be repeated |
| JIT gateway (`infra/card`) | none | the card's balance; other events are stubs | as the total balance |
| Event bus, notifications (`infra/events`, `infra/workers`, `infra/notification`) | BullMQ jobs | publish, queue, process with retries | a notification is delivered, once |
| Rates, total balance (`infra/rates`, `core/wallets`) | rates cached for five minutes | `getRates`, `getTotalBalance` | within what the balances count for at the rates quoted |
| Plumbing (filters, guards, cache wrapper, logging, templates, health, stubs) | none of interest | - | - |

The components interact through the tables. A deposit raises `ledgerBalance`;
a swap outside this repository turns it into `availableBalance`; a card order
takes from `availableBalance`. Both write `Transaction` and
`TransactionEntry`, the journal. Card orders call the allocation directly, then
publish an event that queues an email. Wallet rows come from provisioning,
which the webhook depends on. The event bus is an in-memory call: the
`user.created` event starts provisioning, the sign-in, MFA and card events each
put a job in the BullMQ queue of notifications. Every guarded route asks the
blacklist of the session's id. The card balance is asked by the card's
provider and adds up `availableBalance` of all wallets at rates that go through
Redis.

What makes it hard: requests that interleave between awaits and act on
balances they read before; transactions that wait for each other's locks and
for connections of one pool; a transaction whose 5 s timer runs out under its
own callback; commits whose confirmation is lost; a provider that delivers
the same event again, late, or twice at once; rows that do not exist yet;
calls to a provider that succeed and are not answered; retries of the queue
around a send that is raced against a timer; rows, codes and rates that are
checked, then used or removed in another call; two stores written in parallel;
entries that expire on their own.
`PROJECT.json` lists each such hazard at its line with the properties that
cover it, or why none does.

## Modules

| Module | What it is |
|---|---|
| `Deposits` | the webhook, statement by statement |
| `ExactlyOnceCredit` | its abstract specification: credit once, settle after |
| `MCDeposits` | instances for TLC |
| `DepositsProofs` | inductive invariant, safety theorems, refinement |
| `AllocationPlan` | what an allocation is, from the comment above the code |
| `WalletAllocation` | the loop that computes one |
| `CardOrders` | `orderCard` with transactions, locks, pool, timers, crashes |
| `AllOrNothingCharge` | its abstract specification: pay once, in full, before the answer |
| `MCCardOrders` | instances for TLC |
| `CardOrdersProofs` | inductive invariant, safety theorems, refinement |
| `WalletProvisioning` | how a user gets addresses and wallets: event handler and request |
| `MCWalletProvisioning` | instances for TLC |
| `WalletProvisioningProofs` | inductive invariant, safety theorems |
| `Notifications` | from an event to an email: bus, handler, queue, worker, timeout, SES |
| `MCNotifications` | instances for TLC |
| `NotificationsProofs` | inductive invariant, safety theorems |
| `CardActivation` | activating and freezing a card over the provider and two tables |
| `MCCardActivation` | instances for TLC |
| `CardActivationProofs` | inductive invariant, safety theorems |
| `Sessions` | session rows, blacklist and token pairs under sign-in, refresh, logout |
| `MCSessions` | instances for TLC |
| `SessionsProofs` | inductive invariant, safety theorems |
| `OneTimeCodes` | codes of MFA: stored, compared, deleted, expired |
| `Accounts` | users and how they sign in; extends `OneTimeCodes`, which its users ask |
| `MCAccounts` | instances for TLC |
| `AccountsProofs` | inductive invariants of both, safety theorems |
| `TotalBalance` | the card's balance: webhook, concurrent lookups of rates, sum |
| `MCTotalBalance` | instances for TLC |
| `BalancesProofs` | what is proved of sums: the journal of the orders, the total balance, the allocation loop |

Operators whose comment begins "Mutant of" are not part of the model: each is
a definition with a plausible bug, used to see that a property notices it.

### Deposits

`pc[r]` is the next awaited statement of request `r`: `validate` (signature,
DTO and the `switch`, which write nothing), then `findWallet`,
`findTransaction`, `createTransaction`, `findToken`, `upsertBalance` and
`commit` of the `$transaction`, then `reply`. `staged[r]` holds the
transaction's uncommitted writes; `Apply` makes them visible together. An
insert waits for an uncommitted insert of the same `reference`
(`ReferencePending`) and fails on a committed one; an update waits for the row
lock (`RowLocked`). An amount is counted, not added: `ledger[row][ref]` is how
often transfer `ref` was added to `row`, which tells more than a sum does.

The provider (`Announce`, `Deliver`, `DeliverLate`), the appearance of wallets
and the listing of tokens are the environment, modelled from how the code uses
them; `SeedTokens` is `prisma/seed.ts`. `Abort`, `CommitUnconfirmed` and `LoseReply` are the failures; the crash
of an instance is a set of them, one for each of its requests.

### Allocation

`WalletAllocation` is the function as a loop: collect the positive balances,
sort, deduct, end. A behaviour begins with any user of at most `MaxWallets` wallets
of `MaxPerWallet` balances. The query gives balances in no order and JavaScript's sort
is stable, so equal balances come in either order. `AllocationPlan!IsPlan`
states what the comment promises, without a loop; the run shows that the loop
returns such a plan, that it throws exactly when there is none, and that all
plans take the same amounts. `CardOrders` then uses the set `Plans` for a
call, so the concurrency of orders is checked without the loop's steps.

Amounts are integers. The code uses JavaScript numbers: what rounding does to
`remaining` is not modelled.

### Card orders

`pc[o]` is again the next statement: `allocate` (the query and the loop),
`begin`, `createCardOrder`, `createTransaction`, `decrement` (once per
allocation), `commit`, `publish`. The source of most of the behaviours is
line 39 of `card-order.service.ts`: the card order is created on
`this.database`, not on `tx`, so it needs a second connection while the
transaction holds one (`ConnectionFree`) and is committed at once.

`tx[o]` is the state of the interactive transaction. The 5 s limit makes it
`expired`: what it wrote is gone, the callback goes on until its next
statement on `tx` throws (`UseExpired`), so the card order may still be
written after that. An update that waits for a row another transaction has
updated is `Blocked`; a cycle of them is ended by `DeadlockAbort`. Waiting for
a connection ends in `PoolTimeout`. `amount` is the configured price, read
once at bootstrap, 0 when the database was not seeded before. `pool`, the number of connections, and
`patient`, the users who submit an order only when their others have ended,
are chosen in `Init` and never change, so one run covers all of them.

`Balances(o)` are the rows of all wallets of the buyer: no code in this
repository deactivates a wallet. `WalletOf` groups them: a wallet has a balance for
each token of its chain. An allocation names its balance, but the journal entry made
of it (`Entries`) names the wallet only; its `asset` is the position of the balance in
an unordered query, which identifies nothing and is left out. So the journal is
compared with the balances wallet by wallet (`BalancesMatchJournal`): nothing in the
database says which token an entry debited. What a charge took from each balance is
in `plan[o]`, and `Paid`, which the refinement uses, is the plan of an order whose
entries are committed.

### Wallet provisioning

A job is a run of `createWalletAddresses`: slot `event` is the handler of
`user.created`, the others are requests. `CreateUser` inserts the row and
`PublishUserCreated`, in the same handler but after an `await`, starts the event's job:
in between the user may sign in on another instance and be given wallets, for which
the event's job does not look. `pc[j]` goes from `authenticate` (the
guard reads the user, the service asks `walletsGenerated` of that reading) to
`getWallets`, or through `listSystemWallets`, `createAddress` (once per chain),
`updateUser` and `createWallet` (once per address, the last three in one
`$transaction`) to `commit`. `updateUser` takes the lock of the user's row
(`UserLocked`), so transactions of one user follow each other; each stores its
wallets all the same, since nothing is unique on owner and chain.
`AddressUnanswered` is a call the provider carries out and does not answer in
10 s. `known[j]`, the wallets at the job's start, is a history variable.
`patient` users ask when their other jobs are over, the event's among them, which is
not over from the insert on. `RequestsMakeFirstWallets` is about requests only: of the
event's job it would be false.

### Notifications

`Publish` is the event bus: `emit` calls the handler of the event's kind in the
same turn, which starts to add a job (`AddNotification`); `Enqueue` is the end
of that call, by which a job waits or its notification is lost. `job[n]` is
where BullMQ has the job of a notification. `Take` starts an attempt; `call[n]`
is its send, which `Accept`, `Refuse` and `LoseAnswer` end or `Timeout`
abandons: `NotificationService` races the send against a timer, and the loser
goes on as one of `detached[n]`. The processor throws on FAILED (`ThrowResult`,
`FailAttempt`). A worker that dies leaves an active job, which BullMQ's search
for stalled jobs gives to another (`Crash`, `Recover`). The retry loop inside
`NotificationService` never takes a second turn, because `EmailService` catches
every exception; that is why it is not an action. An event without a template
(`HasTemplate`) is FAILED in every attempt. `unsure[n]` counts the attempts that
ended without knowing what became of their send.

### Card activation

`mapCard` is four awaits outside any transaction: `createCustomer` and
`createCard` at the provider, `storeCustomer` and `storeCard` in the database.
The unique user of a `SudoCustomer` row (`Taken`) is all that keeps two
activations apart. Freezing is `findCard`, `updateCard` at the provider and
`updateRow`; showing the card and getting its token only read. `dated` are the
users with a date of birth: no code in this repository sets one, and activation
throws for the others. `Unanswered` and `Unconfirmed` are calls that took effect and whose
answer was lost.

### Sessions

A client is a user on a device. `rows[f]` is the `UserSession` of a fingerprint,
which depends on the network, too. A session id is signed into an access and a
refresh token, so `held[c]`, the pairs of a client, is a set of ids; a row's
refresh hash is the flag `hashed`, since bcrypt compares the first 72 bytes only
and those are the same in all tokens of a row. `pc[r]` is the next statement:
`sign` (the new id, and the read of the upsert), `createRow` or `updateRow`,
`reply` for a sign-in; `validate` and then the same for a refresh; `guard`,
`findSession`, `revoke` for a logout. `pending[r]` are the calls of `revoke` that
are not over: the row and the blacklist are written in parallel, in either
order, and one may fail. A second sign-in updates the row without its id, hash
or `revokedAt` (`UpdateRow`), so its new id is in no row. A logout with a token of
such an id revokes the row and blacklists the row's id, not its own
(`BlacklistSession`): `LogoutRevokesRow` and `LoggedOutStaysOut` are about the id in
the row, and say nothing of the pairs of later sign-ins and refreshes. `Expire` is a token
that the JWT library refuses, `Forget` the end of a blacklist entry, which is
kept for 30 minutes or a day, whatever the number in `JWT_ACCESS_EXPIRY` is
(`Ttl`): `Outlives` says that an entry lives as long as the tokens it is about.
`late` are the requests that began with the id of a row whose logout had been
answered. `FlushCache` is a seeding of the database, which ends by emptying Redis and
with it the blacklist; `Remembered` is `Outlives` as long as that has not happened.
The id a client has forgotten stands for all ids it has not seen
(`Uuid`).

### Accounts and one-time codes

`OneTimeCodes` is `MfaService` over Redis: `store` and `publish` of a code, `get`
(read and compare), `delete` and `accept` of a verification are separate
statements of `pc[r]`. `over` are the codes that were used, replaced or have
expired; `mixed` the keys that two requests in flight were for. `Accounts`
extends it by users: `SignIn` looks for the email and goes to `createUser`,
`announce` (the event that makes wallets), `storeCode` and `sendCode`; `badZone` are
the requests whose `x-timezone` header names no time zone, which throw between the
last two; `OauthSignin` asks Google,
which names the email (`Authenticate`), looks for the user (`FindOauthUser`) and goes
to `createOauthUser`. `CompleteSignIn` is a single step, because what
follows it is `Sessions`. The code of a sign-in is stored and emailed and no route
reads it, so it is only known that it was sent; codes of MFA are those that are
verified.

### Total balance

`step[r]` is the webhook: `findCustomer`, `getWallets`, then the lookups of all
balances at once. `lookup[r][b]` is the rate of a balance: `get` from Redis, `ask`
Paycrest, `set` in Redis. `Promise.all` throws when one throws (`Reject`) while
the others go on and still fill the cache. `AddUp` is the loop over the rates: of
each symbol `rates.find` takes the first entry, in the order of the query
(`first`), and an entry from Redis has no status, so `Rated` leaves its symbol
out. Balances are integers, since charges overdraw them (`NoOverdraft`): a bound on the
total takes the best or the worst of what each symbol may count for (`Counts`: its
amount at one of its quotes, or nothing if it may have been passed over), which for an
overdrawn symbol is not the best or worst rate. `Move`, `Grow`, `Warm` and `Expire` are swaps and orders, other rows, other
lookups and Redis.

## Runs

| Run | Instance | Shows |
|---|---|---|
| `deposits` | 2 requests, 2 deposits to one balance, an unsigned copy, another event, 2 faults, fair | `LedgerMatchesEntries`, `AckedIsCredited`, `CreditHasCause`, `DepositsSettle`; implements `ExactlyOnceCredit` |
| `allocation` | up to 2 wallets of 2 balances of 0..2, amount 1..5 | `ReturnsPlan`, `ThrowsOnlyWhenShort`, `OutcomeIsDetermined` |
| `orders` | 1 user, patient or not, 1 wallet of 2 balances of 0..2, 2 orders at price 2, 1 to 3 connections, a fault, a swap, fair | `DebitImpliesOrder`, `AnswerIsTrue`, `BalancesMatchJournal`, `PatientNotOverdrawn`, `EveryOrderAnswered`; implements `AllOrNothingCharge` |
| `orders_overdraft` | as `orders`, no faults | violated: `NoOverdraft` |
| `provisioning` | 1 user, patient or not, the event and 2 requests, 2 chains of 2 and 1 tokens, a fault, fair | `MarkMeansWallets`, `AnswerIsComplete`, `RequestsMakeFirstWallets`, `OneWalletPerChain`, `AskersGetWallets` |
| `notifications` | 2 emails of any kind, a worker, 3 attempts, 1 stall, 3 faults, 2 crashes, fair | `RepeatsAreForUnsure`, `SendsBounded`, `OutcomeIsTrue`, `EmailArrives` |
| `cards` | 1 user, with or without a date of birth, 2 requests of any kind, 2 faults, fair | `OneCardPerUser`, `FrozenIsFrozen`, `FreezeTakesEffect` |
| `cards_retry` | 1 user who activates again and again, a fault, fair | violated: `TryingAgainActivates` |
| `sessions` | 1 client on 1 network, 3 ids, 2 requests, lifetimes within and beyond the blacklist's, a flush of Redis, a fault, fair | `LogoutRevokesRow`, `LoggedOutStaysOut`, `RevokedForGood`, `SignInSettles`, `LogoutTakesEffect` |
| `accounts` | 1 email, 1 key, 3 codes, 2 requests, a fault, fair | `AnnouncedOnce`, `AcceptedOnce`, `OverIsRefused`, `EmailedCodeWorks`, `CodeArrives` |
| `balance` | 1 webhook, 3 balances of 2 tokens of -1 or 1, 2 rates, a change, a fault, fair | `TotalTypeOK`, `NeverAboveBest`, `NeverBelowWorst`, `RequestsEnd` |
| `balance_warm` | the same, no faults | violated: `TotalHasAllBalances` |

`TotalTypeOK`, which says that the sum is a number, is in a run; the types of the other
components are proved only, among them `AllocationTypeOK`, by which what was taken and
what remains are the amount. `PaidInFull` is proved, too, and follows from what
`orders` checks.

Why the bounds are enough. Two requests on one reference are the least that
race on an insert, two references to one row the least that contend for its
lock, and an unknown wallet, an unlisted token and an event of each sort are
among the initial states and inputs. Two faults allow a lost commit followed
by a failed or late retry. Two orders whose plans take two equal balances in
opposite orders lock each other out; for that both must be past
`createCardOrder`, which takes one connection more than the transactions hold,
so three connections. As many open transactions as connections is the case in
which everyone waits for a connection: two orders and two connections, or one
order and one. Price 2 with balances up to 2 gives plans that drain one balance,
two balances, and one in part. Both balances are of one wallet, the case in which an
entry does not tell them apart. Users share nothing but connections, so one user
is enough for orders, and in the other components too, where users share
nothing at all.

Provisioning needs the event and a request to overlap, a third job that comes
after them, and two chains, so that a failure can come between them; one fault
is a failure at any statement or a lost confirmation. Three attempts and
one stall are the values of the code and of BullMQ's default; three faults
reach and two crashes exceed them, so a job can be given up in either way, and
the instances in which they do not are among the behaviours. Two
requests are two activations that race, or one that freezes and one that unfreezes
or reads; each slot serves many requests, one after the other. The numbers of a
user's customers stop at `MaxCustomers`: the last stands for all beyond it, and
5 is more than two requests and two faults can make before one is stored. A
session needs an id in the row, one that is signed and one that is stale; two
requests are a logout and what races with it. Three codes are one that is
stored, one that replaces it and one that is over. A token on two chains and
another on one are the least for which entries of one symbol meet; with balances of
-1 and 1 a symbol is overdrawn, even or funded; `Warm` stands
for other webhooks, so one is enough. The proofs remove the bounds for the
safety properties they cover, among them several clients, networks, emails and
keys.

`CHECK_DEADLOCK FALSE` is given where the system stops: an allocation returns,
the orders and the notifications of an instance are finite in number, and a
webhook's slot waits for lookups that outlive their request when `FairSpec` is
not assumed. Requests of the other components never stop coming.

### Disagreements found

- `NoOverdraft`: the comment (`wallets.service.ts:65`) promises an error when
  the balances are insufficient. Two concurrent orders both pass the check and
  both debit; nothing rechecks in the transaction.
- `TryingAgainActivates`: a failed activation says "try again later"
  (`card-infrastructure.service.ts:65`; the `catch` around it answers "Failed to map
  card" instead, line 82), but when anything fails after the
  customer is stored, every later activation makes another customer and fails
  on the unique row.
- `TotalHasAllBalances`: the code sets out to "Get balances from all wallets"
  (`wallets.service.ts:126`) for a total of them. A rate from the cache is a bare
  number without a status, so its token is left out: the first balance after five minutes is
  right, the next ones are 0.

Others were met in the code; the models have them, and no run is about them.

- `wallet.balances` is an array, and `Object.entries` of an array names its
  elements "0", "1", ... (`EntryName` in `WalletAllocation`). The `token` of an
  allocation, stored as the `asset` of the journal entry, is an index into an
  unordered query, where the comment (`wallets.service.ts:68`) promises the token. The
  entry has no other trace of the balance it debits (`card-order.service.ts:53-62`), so
  the journal explains wallets and not balances.
- `user.created` is published after the insert was awaited (`users.service.ts:17-19`),
  and its job does not ask `walletsGenerated`. A user who signs in on another instance
  in between and asks for wallets gets a second set from the event's job, although
  the jobs themselves do not overlap (`PublishUserCreated`).
- A sign-in code is stored, then the time of the sign-in is formatted in the zone the
  `x-timezone` header names (`device-info.middleware.ts:18`,
  `base-auth.service.ts:85-86`): a name that is no time zone is a RangeError, a 500,
  each time, and no code is sent (`badZone`, which `CodeArrives` excepts). Without the
  header the zone is that of the server (`device.service.ts:55`).
- When a balance is overdrawn and the rate of its token is cached, the debt is passed
  over with the token, and the card is told more than the balances are worth
  (`NeverAboveBest` allows it by `PassedOver`).
- Logout is to "Invalidate the current user session" (`auth.swagger.ts:515`). After
  a second sign-in on a device, or a refresh, the id in the client's token is in no row
  (`session.service.ts:51`); a logout with it blacklists the id of the row
  (`auth.service.ts:114`), and the access token that logged out passes the guard until
  it expires (`BlacklistSession`).
- An order needs funds (`card-order.service.ts:34`), but the card order stays
  when the transaction that pays is rolled back: a pool or transaction timeout
  is enough.
- The MFA token is sent to the user's email (`core/mfa/swagger/mfa.swagger.ts:11`),
  but its event has no template, so every attempt fails before SES is called
  (`HasTemplate`).
- When the provider fails on the second of two chains the address made on the
  first is stored nowhere (`infra/wallet/services/blockradar.service.ts:27`), where
  `core/wallets/swagger/wallets.swagger.ts:89-90` says addresses are associated
  with the user's account (`issued` grows, `wallets` does not).
- A request with status `active` sends `inactive` to the provider
  (`card-infrastructure.service.ts:101`), where
  `core/cards/dtos/update-card-status.dto.ts:8` says it unfreezes the card: no
  action removes a card from `frozen`, so after one freeze the row may say
  ACTIVE while the provider declines the card.
- `core/auth/swagger/auth.swagger.ts:403-411` promises a new pair for a refresh.
  The id of a second sign-in on a device is in no row, so its refresh token is
  refused, and so are those of a refresh.
- `completeSignIn` gives a session to any user that exists: `verifySignInOtp`,
  which would compare the emailed code, has no caller.
- A user who comes back through Google: his connections are not loaded, so
  asking whether he is connected throws a TypeError, a 500, where
  `auth.swagger.ts:277` says he is linked. His first sign-in publishes no
  `user.created`, so he has wallets only when he asks for them.
- Activation reads the date of birth of the user, which is null until somebody
  sets it in the database by hand (`card.service.ts:25`, `dated`): a TypeError, a
  500.
- The blacklist keeps an id for 30 minutes if the configured lifetime has the
  unit "m", whatever its number: with "60m" a token comes back to life
  (`LoggedOutStaysOut` excepts it by `Outlives`). Seeding a running system does the
  same to every logged-out session (`prisma/seed.ts:13`, `Remembered`).

### Fairness

Deposits: `WF` of each request's next statement (the event loop and the
database make progress) and `SF` of the delivery of each event: the provider
retries what was not acknowledged, and the request slots of the model, which
the service does not have, must not starve an event. Card orders: `WF` of the
next statement, of the transaction's timer and of PostgreSQL's deadlock
detection. Wallets, cards, sessions and accounts: `WF` of each job's or
request's next statement. Total balance: `WF` of a webhook's next statement,
lookups included: the client's timeout bounds a call to Paycrest. That PostgreSQL and
Redis answer or fail is assumed everywhere; commands to Redis have no timeout of their
own.
Notifications: `WF` of taking, of the end of a send (the timer bounds it), of
the processor, of the end of a backoff and of the search for stalled jobs. No
fairness is assumed of faults, crashes, swaps, submissions, requests, pool
timeouts or of the environment's rows and tokens: `DepositsSettle` asks in its
premise that the wallet exists and the token stays listed, `AskersGetWallets`,
`FreezeTakesEffect`, `TryingAgainActivates`, `SignInSettles`, `LogoutTakesEffect`
and `CodeArrives` that the user keeps asking. Faults are bounded, so they end;
expiry of tokens, codes and rates is never assumed to happen.

## Proofs

`DepositsProofs` proves, for any sets of references, addresses, tokens, events
and requests and any number of faults, that `Deposits!Spec` implies its
types, the three invariants of the run `deposits` and the refinement of `ExactlyOnceCredit`.
`LedgerMatchesEntries` is not inductive: what a request is about to commit
depends on what it read before. The inductive invariant adds what each request
knows at each statement (`JobInv`, `StagedInv`), that its reference is not
committed between insert and commit (`FreshReference`) nor inserted by another
(`UniqueReference`), why a record exists (`EntryHasCause`) and what a 200
stands for (`AckInv`). The assumptions are those of `Deposits`: events are
records over the declared sets, and deposits with the same reference announce
the same transfer.

`CardOrdersProofs` proves, for any users, rows, orders, price and pool size,
`TypeOK`, `RowsLocked`, `DebitImpliesOrder`, `PaidInFull`, `AnswerIsTrue`,
`PatientNotOverdrawn` and the refinement of `AllOrNothingCharge`. The invariant
`OrderInv(o)` follows one order: what its plan is worth, what its transaction has staged after
`next[o] - 1` turns of the loop, what it has committed and answered. Orders
meet only in balances and locks, so `FrameKeepsOrderInv` says that a step of
one keeps the `OrderInv` of the others, and each action has a lemma for its own
order. That what is staged at commit is the plan (`StagedIsPlan`) is what makes
the refinement's step `Pay`. `Patience` is a second invariant on top of the
first: orders of a patient user do not overlap, and until such an order commits
the balances cover its plan (`Covered`), since only it takes from them and swaps
add; `PatientNotOverdrawn` follows. The assumption that `Rows` is finite makes
plans finite sequences.

`WalletProvisioningProofs`: for any users, requests, chains and failures, a
mark tells the truth about wallets, a 201 is complete, a request creates only for a
user who had no wallet as it began, and a patient user has one wallet on a chain. `JobInv`
follows a job through its statements (what the provider answered, what its
transaction wrote, what it knew at its start); jobs of a user meet only in
rows that grow, so a step keeps the `JobInv` of the others. `Alone` is added
for patient users: their job that creates finds no mark. Assumed: there is a
chain, and every chain has a set of tokens.

`NotificationsProofs`: for any notifications, workers, attempts and stalls. The
invariant is an account of each job: sends, failed attempts, stalls and unknown
outcomes add up at every moment.

`CardActivationProofs`: a user has one card at most and what is shown frozen is
frozen. One job at most of a user passes the unique row, with the customer that
is stored; until it has asked for the card the user has none (`AtTheCard`).

`SessionsProofs`: for any clients, networks, ids, requests and lifetimes.
`LogoutRevokesRow` is not inductive: between the two writes of a revoke the row and
the blacklist disagree. `StageInv` follows a logout: what is not in `pending` is
done, and nothing undoes it, since no step sets `hashed` of a row that exists or
clears `revoked` (`Kept`); `NewInv` and `Distinct` say that an id being signed is in
no row, no list and no other request, so that the row it is stored in is not one
that was logged out; `LateInv` is `LoggedOutStaysOut`. `RevokedForGood` is proved
of each step.

`AccountsProofs`: for any emails, keys, codes, requests and failures. A code
belongs to one key, is stored or over but never both (`CodesInv`); what a request
knows of its code at each statement is `Given` for a verification and `Made` for a
sending. That nobody else has accepted or replaced the code is known only for a
key with one request at a time (`Alone`), which is why `AcceptedOnce` and
`EmailedCodeWorks` except `mixed` keys. A user who is not announced is about to be,
by one request (`AnnounceInv`).

`BalancesProofs` proves what adds amounts up, of three components; they
are together because they use the same lemmas, and nothing relates them. A sum
over a set is the fold `MapThenSumSet`, and what a fold gives needs an induction over
data, for which the library's theorems take a predicate. The induction is made over
sets instead: `WFMin` with the well-founded orders of the library gives
`NatSetInduction` and `SubsetInduction`, where the property to be shown is the set
`G` of what has it, and from them come the lemmas on sums (that a sum is a number,
that it loses the term that is removed, how it changes with one term, how two compare
term by term, what a part is worth).

- The journal, for any users, wallets, rows, orders, faults and swaps:
  `Journal`, which says of each row that it lacks what the plans of committed orders
  took from it, is inductive on top of the `OrderInv` of `CardOrdersProofs`. A swap gives what it adds; only a commit debits, and what it
  takes from a row is what the plan takes there (`StagedIsPlan`). `JournalMatches`
  exchanges two sums: what the entries of a wallet add up to is what the plan takes
  from the rows of the wallet. It needs `Orders`
  to be finite, since the debits are added up: a database holds finitely many orders.
- The total balance, for any tokens, chains, webhooks, rates and cache: `TotalInv`
  says that a lookup Paycrest has answered has its rate, and that the lookups of an
  answered total are over and the total is the sum over the balances that were
  read. `CountedIsCount` says that the term of a symbol, which is its amount at the
  quote of its first entry or 0, is one of its `Counts`; `NeverAboveBest` and
  `NeverBelowWorst` compare the sum term by term with their largest and smallest,
  whatever the signs. The assumption is that of `TotalBalance`; a user has
  finitely many balances.
- The allocation loop, for any number of wallets and balances, any amounts:
  `LoopInv` says that what was taken and what remains are the amount (`SumInv`),
  that it was taken from each balance once, in ascending order and all of it but for
  the last one (`TakenInv`), that what is queued is in order and not smaller
  (`QueueInv`), and that no funded balance is forgotten (`NoneLost`).
  TLC checked `LoopInv` on the instance of the run before it was proved.
  `ReturnsPlan` is `LoopInv` at the end; `ThrowsOnlyWhenShort`
  follows since the queue is then empty and all funds were taken.
  `OutcomeIsDetermined` is about the specification: `PlansRank` and `PlansAgree` show,
  with a pigeonhole argument on positions, that two plans of one amount take the
  same sequence of amounts, whatever balances of the same size they name. The
  assumption is that the four bounds are naturals.

The module extends all three, which is why `TotalBalance` and `WalletAllocation` have
names of their own for what is `pc`, `Init`, `Spec` and `TypeOK` elsewhere.

Every invariant, action property and refinement that a passing run checks is proved.
Model-checked only is liveness (`DepositsSettle`, `EveryOrderAnswered`,
`AskersGetWallets`, `EmailArrives`, `FreezeTakesEffect`, `SignInSettles`,
`LogoutTakesEffect`, `CodeArrives`, `RequestsEnd`): it rests on fairness and so on
ENABLED, which the prover does not handle.

## Not modelled

See the components table in `PROJECT.json`. More than a third of the repository's lines
are API documentation, HTML of emails, DTO and entity classes and modules that
wire the rest: they keep no state and decide nothing that a property could be
about. Signature computation is a Boolean of the event. Formatting, templates,
logging and the shape of answers are left out. Stubs (KYC, transactions, most
JIT events, scheduler, admin) do nothing. The unique name and the address of a
user are single updates of one row, decided by the constraints of the
database. `revokeAll` and `verifySignInOtp` have no caller. The confirmation email
of a card order may be lost in a crash between commit and publish; the code
promises nothing about it, so no property does.

Notifications: `getPriorityLevel` compares `'HIGH'` with `'high'`, so every job
has the same priority, and priorities only order jobs; SMS and WhatsApp are
never chosen; the repeats of the AWS SDK are part of one send. Providers: a
request that timed out is carried out before the next step or never. The flush of
Redis by a seeding is in `Sessions` only: codes and rates it removes are as good as
expired, but the jobs it removes from BullMQ's queue are lost, which `Notifications`
does not have.

## Plan

Done: every component that changes state on its own, and the two that are
computations, with proofs of all their safety properties. What is left is
composition:

1. `Ledger`: `Deposits` and `CardOrders` over one set of balances with the swap
   between them, so that a balance is explained by its entries from deposit to
   charge; then its safety from the two refinements.
2. `Accounts` with `Notifications`: a code that arrives after it has expired.
3. `Accounts` with `WalletProvisioning`: a sign-up ends in wallets, whichever
   way the user came.
