# A verification of the square-me currency platform

square-me is a set of NestJS micro-services: users keep one wallet per currency,
fund and withdraw, and buy one currency with another at rates fetched from an
external API. This directory holds TLA+ models of the parts of it that carry its
logic, the TLC configurations that check them, and TLAPS proofs about all of
them. Every definition is translated from the TypeScript under `apps/` and
`libs/`; `PROJECT.json` ("map") names the lines each definition stands for.

Run, in this directory:

    tlc -workers 2 -config wallet_calls.cfg MCWalletService
    tlapm WalletProofs.tla

## 1. The system

| component | state | operations | talks to |
|---|---|---|---|
| wallet service (`apps/wallet`) | tables `wallet`, `wallet_transaction` | createWallet, getWalletBalance, getAllUserWallets, fundWallet, withdrawWallet, buyForex (gRPC) | integration service (gRPC) for a rate, inside buyForex |
| forex purchase (`apps/transaction`, transactions.service) | tables `forex_order`, `forex_transaction` | buyForex, processForexPurchase, succeedOrder, failOrder; fundWallet and withdrawWallet pass a call on | wallet service (gRPC), retry queue, notification queue |
| retry queue (`retry-order.*`) | BullMQ jobs in Redis, `forex_order.retryAttempts` | enqueue; process / handleRetry in a worker | the purchase, again |
| limit orders (`limit-order.service`) | table `limit_order`, `forex_order` rows | create, cancel, execute; cron: check pending (2 min), expire (hourly) | wallet service, notifications |
| rate alerts (`rate-alert.service`) | table `rate_alert` | create, cancel, checkAlert / triggerAlert; cron: check (5 min), expire (hourly) | notifications |
| exchange rates (`apps/integration`) | Redis: set of supported currencies, hash of rates | refresh all (at start, and daily at 6), update one, get | external HTTP API |
| rate streaming (gateway) | in memory: connected clients and their subscriptions | connect, disconnect, subscribe, unsubscribe, get-rate, broadcast | exchange rates |
| accounts (`apps/auth`) | table `users`, JWT cookie | sign up, log in, verify, list currencies, create wallet | wallet and integration services |
| notification (`apps/notification`) | none | consume `send_email`, send it | SMTP, RabbitMQ |

Three kinds of interaction matter: gRPC calls (answered, refused with a code, or
answered too late), rows read before an `await` and written after it, and jobs or
messages that outlive the process that made them.

### What is hard about it

* **Read-modify-write across awaits.** `handleWalletTransaction` and `buyForex` read
  a wallet outside the database transaction that saves it, without a lock or a version
  column. The cron pass over limit orders saves objects it read long ago, all columns.
* **Retries of what may have happened.** An error of `walletService.buyForex` is
  retried unless it is NOT_FOUND or INVALID_ARGUMENT, and there is no idempotency key.
* **Steps that fail half way.** `failOrder` makes two updates, an enqueue or a mail, with
  nothing that ties them; `executeLimitOrder` trades first and records afterwards.
* **Crashes and stalled jobs.** BullMQ gives a job whose lock expired to another worker,
  also when the first is still running it.
* **Things nobody awaits.** The mail about a funding and the rate sent to a new subscriber are
  started and left to themselves; a call whose caller died, or gave up, goes on.
* **Check, then insert**: wallets, users, and the "is it initialised?" test of the rates.

`PROJECT.json` lists the hazards line by line, each with the properties that would
catch it, or with the reason why none does.

### What makes each component correct

* wallet: no overdrawn wallet, whatever overlaps; balance and transactions agree; nothing changes without
  a transaction row; every call is answered; a trade debits the buyer's own wallet.
* forex purchase: an order is traded at most once, settled as it was traded, reported as
  it was settled, and in the end; a bounded number of calls whatever runs twice.
* limit orders: settled once and for good; COMPLETED only with a recorded trade; expired
  when their time is over.
* funding and withdrawal: what is answered and mailed is what the wallet service did.
* rate alerts: a one-shot alert fires once, and the user is told what the row says; only stale
  objects revive an alert that was triggered, cancelled or expired.
* exchange rates: a supported currency has rates; a failed refresh is repaired, and older rates
  written over newer ones are.
* streaming: no rate falls between a subscription and its first answer; a client gets none of
  what it left; no client leaks.
* accounts: one account per e-mail; no cookie, and no wallet, without an account.

## 2. Plan

| # | module | composes | what for | state |
|---|---|---|---|---|
| 1 | `WalletService`, `WalletProofs` | | the money | done, proved |
| 2 | `OrderLifecycle`, `ForexOrders`, `ForexProofs` | ForexOrders implements OrderLifecycle | retries, crashes, mails | done, safety proved |
| 3 | `LimitOrders`, `LimitProofs` | | stale saves, cron jobs | done, proved |
| 4 | `Endpoints`, `EndpointProofs` | the endpoints and accounts with WalletService and the way of a mail | what a user is told against what was done, over three services and a broker | done, proved |
| 5 | `ExchangeRates`, `ExchangeProofs` | | refresh against initialisation, concurrent bases | done, proved |
| 6 | `RateStreaming`, `StreamingProofs` | | subscriptions against late answers | done, proved |
| 7 | `RateAlerts`, `AlertProofs` | the save of LimitOrders | cancel, trigger, expire | done, proved |

ForexOrders and WalletService are kept apart: of a purchase the first one needs to know only whether the
call traded, and the second is checked for any calls at all. With the wallets of each order inside, the
instance would be out of TLC's reach, and would tell nothing the two do not.

Every safety property that a run checks is stated by a theorem, two of them for executions without
faults only (section 5). `NumberLemmas` holds what the proofs need to know of the natural numbers. The modules
have no RECURSIVE operator, state their constants' assumptions, and have one action per handler step, so that
a proof has one case per action. What could still be added is a word about executions with faults: which of the
steps of OrderLifecycle survive which of them.

## 3. Modules

### WalletService

A *request* `r` is one gRPC call. Its handler is an async function; `pc[r]` is the await
at which it stands and `base[r]`, `target[r]`, `change[r]`, `wanted[r]` are what it holds:
the TypeORM entities with the balance read, what will be added to them, the pair looked up.
`rows`, `balance`, `ledger` are the two tables; a `ledger` entry keeps the number of a
wallet's transaction rows and their signed sum.

| code | actions |
|---|---|
| fundWallet, withdrawWallet / handleWalletTransaction | FundWallet, WithdrawWallet (lookup and validation, one await), SaveWallet (commit) |
| createWallet | CreateWallet, LookupWallet, InsertWallet or InsertFails |
| getWalletBalance | GetWalletBalance, then as createWallet if the lookup throws |
| getAllUserWallets | GetAllUserWallets |
| buyForex | BuyForex (base wallet by currency, funds), FetchExchangeRate, GetOrCreateTargetWallet, SaveTrade or SaveTradeNew |
| `tryCatch` around a database transaction | TransactionFails |

Decisions:

* A row is identified by its (userId, currency) pair: the unique constraint of `wallets.model.ts`
  makes the pair as good as the uuid.
* A database transaction is one step at its commit. TypeORM's save writes the balance of the
  entity (it omits the UPDATE when the row already has that value, which is the
  same write ordered earlier), and READ COMMITTED, Postgres' default, does not make it fail when
  the row changed since it was read.
* If base and target are the same row (equal currencies, or a lookup by currency that
  finds the base wallet again), the two entities are written in order and the second stands.
* Rates and amounts are integers: `decimal` columns without a scale and decimal.js sums are
  exact enough that no property depends on rounding. `toFixed(2)` in answers is left out.
* Queries may always fail; what then happens is the code's: NOT_FOUND, "create it", or UNKNOWN.
* A commit may be done and its answer lost: the promise rejects like that of a rollback, and the
  call is answered with the same error (`Committed`; `unacknowledged` is the history of such calls).
* `BuyForexInputDto` asks of the amount that it be a number string, so purchases of negative amounts are
  inputs: `validateSufficientFund` passes them, the base wallet is debited with them, which adds money, and the
  target wallet is credited with their worth, which takes it. `overdrawing` marks a wallet so credited.
* `contended` is a history variable: wallets read while another handler held them for writing.
* `AllAnswered` is the end of a behaviour: the model has finitely many requests.

### OrderLifecycle and ForexOrders

`OrderLifecycle` is what a user is promised about an order: placed, traded at most once,
COMPLETED if it was and FAILED if it was not, in the end. `ForexOrders` is what the code does.
An *attempt* `<<o, n>>` is one run of the purchase, by the HTTP request or by a run of a
retry job; it makes at most one ForexTransaction and enqueues at most one job, so
`txn`, `job`, `run`, `stalls` are indexed by attempts too. The refinement mapping takes `status` as
it is and counts the attempts that traded.

| code | actions |
|---|---|
| buyForex | BuyForex |
| processForexPurchase | SaveTransaction, CallWallet (with catchError: AfterError) |
| succeedOrder | SucceedOrder, SendMail |
| failOrder | FailTransaction, then RejectOrder and SendMail, or EnqueueRetry |
| RetryOrderConsumer | TakeJob, IncrementRetries, LoadOrder, Return |
| BullMQ (from its use) | TakeJob, JobAfter, RecoverJob, StallJob, Requeue |
| the call, when nobody waits for its answer | EndCall: it trades, or not, at any later time |
| faults | LoseAnswer, StepThrows, Crash, StallJob, each counted in `faults` |

Decisions: `queue.add` sets no options, so a job that fails is not tried again; a stalled
job is, once (`maxStalledCount` is 1), also while its first run goes on unaware. Jobs of one
worker process run one at a time; the model lets any number overlap, as they do with
stalled jobs or more than one instance. The order and transaction that a job names exist
(nothing deletes rows), so the `if (forexOrder && forexTxn)` is always taken. `increment` is
one UPDATE; the read of the order is another, and other runs come in between. The wallet service is
another process: a call that was lost, or whose caller crashed, stays in `inflight` and trades, or fails, at any
later time, after a retry has begun as well.

### Endpoints

A request `r` is one HTTP request to the auth or the transaction service: `http[r]` is the await at which its
handler stands, or the status it was answered. It makes at most one call of the wallet service, so the
module instantiates `WalletService` with the same `r` and `call[r]` for its `pc`: the handlers over there take
their own steps (WalletContinues) and run on when their caller is dead or has given up.

| code | actions |
|---|---|
| AuthService.signUp, createBasicUserOrFail | SignUp, CheckEmail (the SELECT), SaveUser (the INSERT; then login) |
| LocalStrategy, verifyUser, login | LogIn, VerifyUser |
| JwtAuthGuard | WithJwt |
| AuthServiceGuard, the auth service's authenticate | MoveMoney, Authenticate |
| createUserWallet with CurrencyIsSupportedRule, getAllUserWallets | CreateUserWallet, ValidateCurrency, GetAllUserWallets |
| fundWallet, withdrawWallet and the other gRPC calls | CallWallet, HearWallet; the catchError of each is HttpStatus |
| processWalletFunding, processWalletWithdrawal | Respond |
| notifyUser (not awaited), the queue, handleSendEmail | Publish, SendEmail |
| faults | LoseAnswer, PublishFails, TransactionServiceDies, AuthServiceDies, SendEmailFails, BrokerRestarts, each counted |

Decisions: a cookie is the user it names (`sessions`), and whether it is still valid is open each time, which covers its
expiry; `verifyUser` throws away what `argon2.verify` answers, so any password
logs in an existing user; only an unknown user, or a hash that cannot be read, is refused. An insert whose connection breaks, or whose process dies, may have
committed. A promise that rejects unhandled ends a Node.js process, so PublishFails takes the transaction
service's other requests along. gRPC clients set no deadline: a call ends with an answer or with UNAVAILABLE.
`unheard` is a history variable: the requests whose own answer was lost. What WalletService calls
`unacknowledged`, commits whose answer it lost itself, it does here too: a funding may be answered as
unsuccessful for the one reason or for the other, although the money moved.

### LimitOrders

A *task* is one call (cancel or execute) or one cron pass. Repository.save is two statements,
LoadRow and WriteRow, since it writes the columns in which the object differs from the row
it just selected; that is where stale columns come from. `executeLimitOrder` is public, but
the pass that should call it has the call commented out, so the model lets
a caller hand it any order that it read as PENDING. A pass only saves the objects it read (the counters of
checks are left out); passes recur for ever, in as many slots as `Passes` has. Nothing in
`app.module.ts` registers the service; the model takes its methods and `@Cron` decorators at
their word. `shared` plays the part of `contended`. A save that fails may have been committed (SaveFails; `unsure` is the
history of such orders): if that was the save as COMPLETED, the catch block of `executeLimitOrder` writes FAILED over it.
An order that was shared may be COMPLETED and name no ForexOrder: of two
passes that overlap, the stale object of one may be loaded before and written after an execution, and take away what it
differs in. What no overlap breaks is that a ForexOrder that is named was saved after a trade; CompletedIsAudited
says both. Notifications swallow their errors and
change no state; they are left out.

### RateAlerts

A *call* is a slot in which cancelAlert or checkAlert runs, again and again; `entity[c]` is the RateAlert object it works on and
`loaded[c]` the row the SELECT of its save found. `terms` are the columns nothing changes (target,
condition, repeat, notify), `table` the others, and `due` the alerts whose expiresAt has passed.

| code | actions |
|---|---|
| createAlert | CreateAlert |
| cancelAlert | CancelAlert, then LoadRow and WriteRow |
| checkAlert, checkAlertCondition, triggerAlert | FindActiveAlert (the caller), CheckAlert, LoadRow, WriteRow, SendAlertNotification |
| Repository.save that throws | SaveFails |
| expireOldAlerts | BecomeDue (time), ExpireOldAlerts (one UPDATE) |

Decisions: rates are integers in a unit in which the tolerance of EQUALS is `Tolerance`. checkAllActiveAlerts only
counts alerts, since the code that is to fetch rates is disabled, so checkAlert has the caller its signature
asks for: one that read an active alert. A save that fails may have been committed. `told` counts the mails
about an alert, up to two. `shared` are the alerts that two calls, or a call and the cron
job, held at once.

### RateStreaming

`clients` is the gateway's Map, `socket` the WebSockets, `inbox` what a client received, `lookups` the runs of
sendCurrentRate for it. Handlers run to their end in one step, but for sendCurrentRate, which awaits Redis.

| code | actions |
|---|---|
| handleConnection, handleDisconnect | HandleConnection, StartClosing (the close frame), HandleDisconnect |
| handleSubscribe | HandleSubscribe: the subscription, a lookup it does not await, the acknowledgement |
| handleUnsubscribe, handleGetRate | HandleUnsubscribe, HandleGetRate |
| sendCurrentRate | StartLookup, ReadRate (Redis), AnswerLookup |
| broadcastRateUpdate | BroadcastRateUpdate, called by anyone with any rate there has been |
| updateExchangeRate, the refresh | SetRate: Redis gets a new rate, and no client hears of it |

`owed` is a history variable: the newest rate that a client and pair are due, that of Redis when the client subscribed
or one that was broadcast while the client was in the Map as a subscriber. NoGapAtSubscription counts as a rate only the
messages that carry one (`current-rate`, `rate-update`).

Decisions: a rate is the number of times it was set. `send` on a socket that is closing drops the message.
The Map is keyed by the socket and an open socket is in it, so the branch "client not found" is never taken,
which TypeOK states. Nothing in the repository calls broadcastRateUpdate, though its comment says that ExchangeRateService does when rates are
updated. The model follows the code: SetRate tells no client, BroadcastRateUpdate is a public method that may be called or not,
and a subscriber to whom nothing is broadcast keeps the rate of its subscription.

### ExchangeRates

A refresh `t` is one run of refreshAllExchangeRates; a *worker* `<<t, c>>` is the run of
addExchangeRateDataToConversionTable for currency `c` in it, with the fetch before it, and `<<t, First>>` is
the pass over the base currency that comes before all others. `supported` and `table` are the two Redis
keys; `visited` is the set the workers of a refresh share. Rates are the versions of the API they
were fetched from, so that "fresh" is a comparison of numbers.

| code | actions |
|---|---|
| onModuleInit | Start, InitEnds |
| handleRefreshExchangeRateCron | RefreshExchangeRateCron |
| refreshAllExchangeRates | FetchBase, StoreSupported, Finish |
| addExchangeRateDataToConversionTable | FetchCode, FetchReverse (one per reverse rate), WriteHash (one HMSET) |
| updateExchangeRate | FetchUpdate, WriteUpdate |

Decisions: the loop over the currencies runs to its next await in one step, in any order of the
currencies. The API knows a rate for each pair of its currencies. Nest registers cron
jobs when every onModuleInit has ended, and a `hasKey` that throws leaves the process down, which
is `mode`. `Promise.all` rejects with its first failure and does not stop the others: a failed
refresh keeps its workers. A refresh slot is used again when its workers are over; with two slots refreshes
overlap, and the workers that a failed refresh left behind write beside the next one. updateExchangeRate is
public and has no caller; the model lets it be called for the pairs in `Updated`. Redis keeps its data
when the process dies.

## 4. Runs

| run | instance | question | answer |
|---|---|---|---|
| `wallet_calls` | 2 users, 2 currencies, 2 calls, opening balance 2, amounts 1 and 2, purchases of 2 and -1, rate 3 | does any interleaving of two calls, with failures, break the wallets? | TypeOK, OnlyCreditsOverdraw, SerialConsistency, BalanceChangeRecorded, EveryCallAnswered hold |
| `wallet_ledger` | the same | is a balance the sum of its transactions? | no: overlapping calls lose updates |
| `wallet_owner` | the same | does buyForex debit the buyer? | no: the lookup is by currency |
| `forex_smooth` | 2 orders, 3 retries, no faults | does the purchase keep its promise? | ImplementsLifecycle, MailMatchesStatus, EveryOrderReported hold |
| `forex_faults` | 1 order, 2 retries, 3 faults | what survives crashes, stalls and lost answers? | TypeOK, AttemptsBounded, SuccessIsReal, RetriesEnd hold |
| `forex_reexecuted` | 1 order, 3 retries, 1 fault | is a COMPLETED order left alone? | no: a stalled job trades again |
| `forex_rollback` | 1 order, 3 retries, 1 fault | is a FAILED order one that moved no money? | no: lost answer, then failure of the retry |
| `limit_orders` | 1 order, 2 calls, 1 pass that recurs | what survives stale saves and saves that fail? | TypeOK, CompletedIsAudited, SerialLifecycle, DueOrdersLeavePending hold |
| `endpoints` | 2 requests of any kind, 2 users, 1 currency, 1 fault, and any lost commit | is a user told what was done, whoever fails? | TypeOK, DoneIsDone, UnsuccessfulMovedNothing, OneSignUpWins, WalletsHaveAccounts, EveryRequestEnds hold |
| `rate_alerts` | 1 alert of any terms, 2 calls that recur, 3 rates | what survives stale objects, failed saves and the expiry? | TypeOK, OneShotTellsOnce, ToldIsRecorded, SerialLifecycle, DueAlertsLeaveActive hold |
| `rate_streaming` | 2 clients with 2 messages and 1, 1 pair set twice and broadcast once | what does a client get while it comes, asks and goes? | TypeOK, UpdatesOnlyWhileSubscribed, AnsweredOnce, NoGapAtSubscription, LookupsEnd hold |
| `exchange_rates` | 3 currencies, 2 versions of the API, 2 refreshes at a time, 1 fault or update of 1 pair | does a refresh leave a rate for every pair, and is what breaks, or is written late, repaired? | TypeOK, RefreshIsComplete, RatesFollow hold |

Why these bounds are enough to see the interesting cases:

* Two calls make every pairwise race; with two users and two currencies a buyForex can hit
  its own, another's, an existing, a missing and the same wallet. An opening balance of
  2 makes an amount of 1 repeatable and an amount of 2 exhaust it; rate 3 tells a
  credit from a debit; a purchase of -1 overdraws a target wallet, and one of 2 must not overdraw any. Three handlers add lost updates of the same kind, and the theorems
  hold for any number.
* Three faults suffice for a lost answer, a crash and a stall in one history, two retries for
  a chain of jobs. `MaxAttempts` is no restriction: TypeOK contains that a waiting
  job always has an attempt left.
* One pass and two calls are enough for a stale save over a cancellation, an expiry and an execution, and for two executions of
  one order; the pass recurs, so that there is always one more that reads PENDING. Orders meet in the list of a pass only, where
  each waits longer; `LimitProofs` covers the safety properties for any number of orders, calls and passes.
* Two requests make every pair of endpoints race, on the same user or wallet and on different ones; one
  fault can hit either of them at each of its steps. `EndpointProofs` lifts the safety properties to any number of both.
  The other proof modules do the same for theirs: the bounds matter for liveness, and for the two properties that are proved without faults.
* Two calls on one alert overlap, and recur, so that others meet what they left, with rates on either
  side of the target and one inside the tolerance only. Alerts do not interact but for the expiry, which
  `AlertProofs` covers for any number.
* A client with two messages can subscribe and unsubscribe, or subscribe and ask; the second client is there for
  the broadcast to reach, or to skip. Rates 0, 1 and 2 make a lookup's answer older
  than an update, and an update older than what Redis has.
* Three currencies are the base and two others whose workers ask for each other's rates: with two, the reverse
  fetches of the first pass already cover every pair. One new version makes a rate stale. Two refreshes overlap in any way: one fault makes the
  first fail and leave workers beside the second, or the process die within both, and one update of a pair is
  written over what they write. (With two currencies, two faults and updates besides were checked as well.) After the faults, which
  `MaxFaults` bounds, a refresh ends well; if one failed every day nothing would follow.

Deadlock is checked everywhere but in `limit_orders` and `rate_streaming`, whose instances come to
rest when every order is settled, or every client is gone.

### Fairness

* wallet: weak fairness of each handler's next step: the event loop resumes a handler whose
  await is answered, and database drivers and gRPC answer or fail. No request need be sent.
* forex: the same for attempts, and weak fairness of the worker for each waiting or stalled job:
  the BullMQ worker polls for both. No fault is ever required.
* limit orders: the same for tasks, and for the expiry, which the cron scheduler repeats hourly. That is not
  enough for an order to expire: a pass that read it before the expiry writes PENDING back, passes come every two minutes, and the
  two schedules meet at each full hour. So DueOrdersLeavePending has its premise in the formula: there are
  times again and again when no task has an object of the order (`[]<>(o \notin Held)`), and the expiry comes at one of them
  (`SF_vars(ExpireAlone(o))`). What it then adds is that no save, failed or late, ever undoes that expiry.
* rates: the same for awaits, and for the daily cron job as long as the process is up. Nothing starts a process that died
  (`docker-compose.yml` sets no restart policy for the service), so RatesFollow has the premise that it is not down for ever.
  RatesFollow holds because of the cron job: after a failed first refresh the start does not
  try again, since the set of supported currencies exists, and what an older refresh or update writes over newer rates is there
  until the next refresh. It says that the table comes to the API's last version and stays there.
* endpoints: the same for the handlers of the three services, and nothing for the mails: no property says that they arrive.
* alerts: the same for calls, and for the hourly expiry; DueAlertsLeaveActive has the same premise as DueOrdersLeavePending, for
  the same reason: checks come every five minutes, also at the full hour, and each writes a repeating alert back as active.
* streaming: Redis answers or fails, and the event loop resumes the lookup. Nothing is assumed of clients.
* Strong fairness is in no specification; it is the premise of the two properties above.

Liveness is claimed only where the code earns it: EveryOrderReported is checked without faults,
since an exception in `failOrder` really does leave an order unreported; RetriesEnd, that
the work ends, holds with them.

### Mutants

Each property of a passing run is broken by a plausible bug, kept next to the
definition it replaces and named in `PROJECT.json` ("mutants"): an off-by-one in the funds or in the
retry limit, an insert that is not saved, a transaction row left out, a constraint dropped,
a status condition dropped, a currency fetched
only if not yet visited, an update forgotten in succeedOrder, a reversed comparison of dates.

### Where documents and code differ

The four violation runs state what ARCHITECTURE_ANALYSIS.md says (lines 1486, 1487, 2043,
2082) and find the code doing something else; `PROJECT.json` ("findings") quotes both. Four more differences need no run to be
seen, and the models follow the code:

* ARCHITECTURE_ANALYSIS.md:962 writes "Invariant: Balance cannot be negative". A purchase of a negative amount makes the target
  wallet's negative (`wallet.service.ts:70` compares, and `BuyForexInputDto` asks for a number string only). OnlyCreditsOverdraw says that
  nothing else does: for wallets without such a credit it is the documented invariant.
* ARCHITECTURE_ANALYSIS.md:1352-1354 lists "Temporal decoupling (service can be offline)" and "Guaranteed delivery (RabbitMQ
  persistence)" for mails. The queue is declared `durable: false` (`rabbit-mq-client.ts:18`) and nothing sends a mail again whose sending failed:
  BrokerRestarts and SendEmailFails lose it, after PublishFails there is none, and no property promises that one arrives.
* `rate-streaming.gateway.ts:36` and `:169` (and INNOVATIVE_FEATURES.md:1006) have rates broadcast whenever they change. No code calls
  broadcastRateUpdate.
* The expiry of limit orders and alerts is not final by itself (see Fairness).

## 5. Proofs

Each proof module has the inductive invariant first, then a lemma per action or group of actions, split by
conjunct, and then the theorems, which end in a step by PTL.

`WalletProofs` proves, for every value of the constants allowed by `ConstantsAssumption`:

* `TypeCorrect`: `Spec => []TypeOK`. TypeOK is inductive because it says more than types: which
  entities a handler holds at which step exist as rows, and wallets without a row are blank.
* `NothingElseOverdraws`: `Spec => []OnlyCreditsOverdraw`, for purchases of any amounts. OnlyCreditsOverdraw is not inductive, since
  a save writes what a handler holds. `OverdraftInv` adds `WritesCovered`: of each handler that will save, the snapshot of the base
  wallet plus its change is non-negative, and so is the snapshot of the target wallet a trade is about to credit, or the wallet has
  its negative credit already. So lost updates cannot overdraw a wallet: each value written was validated as a whole.
* `SerialCallsAgree`: `Spec => []SerialConsistency`. `SerialInv` adds `FreshSnapshots` (a snapshot of an
  uncontended wallet still is the table's balance) and `SoleHolders` (an uncontended wallet has at
  most one holder, and no handler holds it as base and target both).
* `ChangesRecorded`: `Spec => BalanceChangeRecorded`, from TypeOK.

`ForexProofs` proves, for any orders, MaxRetries and MaxFaults:

* `CallsBounded`: `Spec => []AttemptsBounded`. Why at most MaxRetries calls are made though runs overlap: an attempt
  that calls holds the value of retryAttempts it read (`turn`), below MaxRetries (`TurnInTime`); each run
  increments before it reads, so of two attempts of an order that may call no two hold the same turn
  (`TurnsDiffer`). So the calls map one to one into `0 .. MaxRetries - 1`, which bounds their number.
* `TypeCorrect`: `Spec => []TypeOK`, with its claim that a waiting job always has an unused attempt, so that `MaxAttempts`
  restricts nothing. It is a count: an attempt is the request's own (`OneRequest`) or a run of a job, which is run twice at
  most (`RunsFollowStalls`), and only an attempt that called leaves a job (`JobOfCaller`), of which CallsBounded knows the number.
* `ReportedSuccessIsReal`: `Spec => []SuccessIsReal`. `TxnsFollowSteps` ties the status of an attempt's
  transaction to the step the attempt stands at, and `ToldIsCompleted` an order's status and mails to a COMPLETED transaction.
* `MailsMatchUntilFault`: `Spec => [](faults = 0 => MailMatchesStatus)`, and `LifecycleUntilFault`: if no fault ever
  happens, the initial state and each step are ones of `OrderLifecycle`, or a stutter, under the mapping the
  run checks. With faults both fail, which is what the violation runs show. `FaultFree` adds to the invariant that,
  before the first fault, an order has at most one attempt under way, whose step determines the order's status
  (`StatusAt`), and at most one that traded (`Smooth`).

`EndpointProofs` proves, for any users, requests and faults, the safety properties of `Endpoints`.
`RequestsConsistent` says of every request on its own what its step says of its question (`KindOfStep`), what its
call of the wallet service is about (`CallOfKind`), that who asks for a wallet owns it and has an account (`Vouched`), and that
its answer and its mail are those of its call (`Truthful`). Tables only grow, so a request that a step does not touch stays
consistent, and a process that dies only turns steps into "dead". The two properties that are not about one request,
WalletsHaveAccounts and OneSignUpWins, are proved from it in a lemma each. The theorems are `FailureMovesNothing`,
`SuccessIsKept`, `SignUpsExclude`, `NoWalletWithoutAccount`, `TypeCorrect`, and two about the composition:

* `UsesWalletService`: `Spec => W!Spec`. The endpoints implement `WalletService`, with `call` for its `pc`: the only steps that
  touch its variables are CallWallet, which is the arrival of a request there, and WalletContinues. `Enclosed` says
  what is needed for it, that a request that is calling has a user and a wallet the service may be asked about.
* `MoneyBehindEndpoints`: so what `WalletProofs` proves of the service alone holds under the endpoints, their
  faults and dying processes: `W!OnlyCreditsOverdraw`, `W!SerialConsistency`, `W!BalanceChangeRecorded`. The module instantiates
  `WalletProofs` and cites its theorems; the endpoints modelled here include no buyForex.

`AlertProofs` proves, for any alerts, terms, rates and calls, `TypeCorrect` and, of the alerts that no two calls
held at once, `OneShotAlertsTellOnce`, `ToldRatesAreRecorded`, `SerialAlertsGoTheirWay`. For such an alert
`Alone` says that it has one holder, `InStep` that the holder's object is the row with the holder's own assignments
(so that the columns the save writes are exactly those), `Recorded` that the rate in the row meets the condition, and
`Once` that an alert that does not repeat is active only as long as nobody tells of it.

`LimitProofs` proves, for any orders, calls and passes:

* `TypeCorrect`: `Spec => []TypeOK`, from `Typed`, which says of the objects of tasks what their steps allow.
* `CompletedOrdersAreAudited`: `Spec => []CompletedIsAudited`. `AllBacked` carries "saved after a trade" along every place a
  ForexOrder's name can be: rows, objects of tasks, objects a pass has yet to check. A save copies names between them and
  makes none.
* `OrdersKeepTheirWay`: `Spec => SerialLifecycle`. For an order that was not shared `Serial` says that there is one object of it
  (`Alone`), at most one assignment ahead of the row (`InStep`, with `StatusUnder` the status the row has meanwhile), so the
  columns its save writes are those it assigned. `Belied` is the exception: the row says COMPLETED, and the holder, whose save as
  COMPLETED failed, is about to write FAILED.

`StreamingProofs` proves, for any clients, pairs, messages and rates, from an invariant with one conjunct per client and promise:

* `TypeCorrect`: `Spec => []TypeOK`.
* `UpdatesFollowSubscriptions`: `Spec => []UpdatesOnlyWhileSubscribed`. `Informed`: every subscription in the gateway's Map is one
  whose acknowledgement is the last the client got of the pair (`Told`); a broadcast goes by the Map.
* `LookupsAnsweredOnce`: `Spec => []AnsweredOnce`. `Served` counts; each message adds one to the answers exactly when a lookup
  ends.
* `SubscriptionsLeaveNoGap`: `Spec => []NoGapAtSubscription`. `Covered`: a rate no older than the one that is owed was sent to the
  subscriber, or a lookup that has not read yet, or read such a rate, or was refused, stands for it.

What a step does to a client's messages is one notion, `Grows`, with a lemma for each of the three counts and predicates.

`ExchangeProofs` proves, for any currencies, versions, faults and any number of refreshes at a time:

* `TypeCorrect`: `Spec => []TypeOK`, whose `table` and `started` are bounded by the API's version: by `Served` nothing a worker
  holds is newer either.
* `RefreshesComplete`: `Spec => RefreshIsComplete`. `WorkIsFresh`: what a worker that has fetched holds is no older than its
  refresh. `DoneIsEntered`: in the second pass of a refresh that is alone, each worker that is done has entered the rates
  from its own currency, and all that was written since is as fresh. `AloneIsAlone` makes `alone` mean that nobody else has
  anything to write, which needs that a failed refresh may still have workers (`Busy`); `SupportedStored` and `WorkersWait`
  order the passes. The reverse fetches do not matter: all
  pairs from a currency are its own worker's, so a skipped or failed one leaves no gap.

The inductive invariants were checked by TLC on the instances of section 4 before they were proved. Two properties got their
present form from the attempt at a proof: CompletedIsAudited, whose exception for shared orders is needed only when two passes
overlap (the instance has one), and NoGapAtSubscription, which is about messages that carry a rate and not any message with its number.

Only model-checked: all liveness (EveryCallAnswered, EveryOrderReported, RetriesEnd, EveryRequestEnds,
DueOrdersLeavePending, DueAlertsLeaveActive, LookupsEnd, RatesFollow and the fairness part of ImplementsLifecycle), which is
out of the prover's reach with ENABLED. Induction over data is out of its reach too, since the theorems that state it take
an operator; the one induction the proofs need, for the least id of a pass and the first unused attempt of an order, goes by
the well-founded inclusion of finite sets (`SmallestNumber` in `NumberLemmas`).

## 6. Not modelled

* What a password or a token is, when a cookie expires, DTO validation (its results are the constants'
  assumptions), logging, e-mail texts, JSON and gRPC encodings, decimal formatting.
* Reads: the paginated queries of the transaction service, the statistics and lists of limit orders and alerts, the
  list of supported currencies. They change nothing and nothing is decided on them.
* The rate conditions of limit orders: no running code evaluates them.
* The welcome message of a WebSocket; pairs of equal currencies, whose rate is 1.
* Code that is never run is modelled as if it were, and said to be so above: limit orders, alerts and the gateway
  are in no module of the applications, and nothing calls broadcastRateUpdate, checkAlert or updateExchangeRate.
* The last message a subscriber gets may be an older rate than one before it: a lookup's answer can follow a newer
  update, and two updates may be broadcast in either order. No document promises more, so NoGapAtSubscription does not.
* Shared libraries (module wiring, configuration, generated stubs), migrations and deployment: they have no
  behaviour of their own; the constraints they define are guards of the actions that meet them.
