# TLA+ models of the B2W crypto trading bot

This directory keeps the formal models of the program under `src/`: TLA+
modules that follow the code step by step, TLC configurations that check them
on small instances, and proofs checked by TLAPS that hold for every value of
the constants. `PROJECT.json` is the index: runs, the source lines each
definition stands for, mutants, findings, hazards and theorems.

    tlc -workers 2 -config ActionQueue.cfg MCActionQueue     # a run
    tlapm ActionQueueProofs.tla                              # the proofs of a module

## 1. The system

A Telegram bot and a FastAPI service for trading on several exchanges. Paths
below are relative to `src/app/`.

| part | state | operations | who calls it | what is hard |
|---|---|---|---|---|
| Action queue: `services/action_queue_service.py`, `api/dependencies.py` | table `action_queue` behind one aiosqlite connection; in memory an `asyncio.Queue` of row ids, a flag `_processing`, the registered handlers, one task per worker | `enqueue`, `cancel_action`, `get_status`, `register_handler`; the worker `_process_queue` / `_execute_action` | bot, start-up code | callers, worker and the statements of the connection interleave; a statement may raise in the worker; nothing is committed |
| Trading: `trading/orchestrator.py`, `services/risk_service.py`, `adapters/` | table `trades`; the kill switch of a `RiskService`; orders at the exchange | `execute_trade` (quote, `validate_trade`, record, order, status), `activate/deactivate_kill_switch` | trading route, tests | checks are several awaits before the act they allow; the reply of the exchange can be lost; a restart in the middle |
| Subscriptions: `services/subscription_service.py` | table `subscriptions` | `create_subscription`, `activate_subscription`, `check_access`, `expire_subscription`, `get_subscription_status` | subscription route | blind writes after a SELECT; several rows of a user |
| Payments: `payments/invoice.py` | table `payments` | `create_invoice`, `verify_payment`, `confirm_payment`, `get_payment_history` | payment route | the same, with a deadline and a hash |
| Exchange adapters: `adapters/` | a client each; the orders are at the exchange | `get_quote`, `execute_trade` of GMX, dYdX, Uniswap | trading | an order whose answer is lost; a price that moves on |
| Payment verifier: `payments/verifier.py` | none | asks nodes about a transaction | nobody under `src/app` | - |
| WebSocket hub: `api/websocket.py` | sockets per user, admin sockets, what each session claimed | `connect`, `disconnect`, `send_personal`, `send_admin`, `broadcast`; the endpoint loop | browser clients, alerting | sets iterated with awaits inside; a session that authenticates twice |
| Airdrop: `airdrop/engine.py`, `rules.py` | progress rows per user and campaign | `update_progress`, `get_user_campaigns`, `check_eligibility` | airdrop route, tests | select-then-insert; columns written one by one |
| Dashboard: `dashboard/` | event log | log, lists, summaries | dashboard route | nothing: no event can be stored, see 8 |
| Price feed and cache: `trading/price_feed.py`, `cache/manager.py` | cached prices with expiry in Redis | `get_price`, `get_quote_for_trade` over `get`, `set` | tests | stale values, writes out of order; a cached price has another type than a fetched one |
| Rate limiter: `api/middleware.py` | a window counter per client and path | one decision per request | every HTTP request | fixed windows, growth |
| Database layer: `database/manager.py` | the engine with its pool of 50 connections, one session per request | `get_db_session`, `session` | every route | requests that wait for connections; errors after a commit |
| Wallets: `services/wallet_connect.py`, `wallet_service.py` | one session in memory; rows of addresses | connect, sign, disconnect | nobody under `src/app` | generated hashes |
| Celery tasks: `celery_config.py`, `tasks/` | schedules | periodic jobs | beat | none runs, see 8 |
| Bot, alerting, mini app | menus and messages | handlers | Telegram | - |
| Authentication, health, start-up, configuration, deployment | - | tokens, wiring | - | - |

How they interact: a route opens a database session, builds the services it
needs on that session and calls one operation. `execute_trade` calls the risk
service on the same session and the adapter of the exchange in between.
Subscriptions, payments and trades share nothing in memory: all interaction is
through rows. The action queue is the one component with tasks of its own; it
shares one connection and one event loop with its callers. All services run in
one event loop, and several processes may share the database. All routes
share the pool of connections, the only resource for which requests wait for
each other.

What makes each modelled part correct:

* Action queue: one worker at a time; an id is in one place; a handler is
  invoked at most once; statuses tell what happened; ids do not wait while
  nobody works; every enqueued action settles.
* Trading: no order without a committed approved record; the status of a record
  agrees with what became of its order; limits hold, or are overrun by no more
  than the concurrency explains; the kill switch stops a client.
* Subscriptions: a repeated activation is refused; nothing expires early; one
  active row per user (it does not hold) and what follows from breaking it.
* WebSocket hub: while its endpoint lives a socket is listed under the id it
  claimed last, and afterwards it is not (a second auth frame leaves the
  registration under the first id behind for good); sends reach every socket of their set or notice that it changed; no send
  stumbles over a user that left meanwhile.
* Payments: what was paid in time stays paid; a paid invoice rests on its hash;
  a repeated verification is refused; an invoice that is settled is safe from
  every call that comes later; what several pending invoices lead to.
* Exchange adapters: one order per trade at most; the result of a trade agrees
  with its order; the price it reports is a price of its execution.
* Price feed: how old a price can be, and how far prices can go back, compared
  with how long calls take.
* Airdrop: what two rows of a campaign lead to; a row holds what one call asked
  for; more activity never costs eligibility.
* Rate limiter: how much a window can let through; nobody polite is refused.
* Database layer: the pool loses no connection; an answer tells what was stored.

## 2. Modules

| module | models | lines it stands for |
|---|---|---|
| `ActionQueue` | the queue, its worker tasks, cancellation, restart | `action_queue_service.py`, `Database` in `dependencies.py` |
| `ActionLifecycle` | what the queue promises for one action: the abstract specification | the statuses and docstrings of the service |
| `Trading` | `execute_trade` and `validate_trade` of many requests | `orchestrator.py`, `risk_service.py`, the outcomes of `adapters/` |
| `Exchange` | a trade at each of the three adapters, the price and the orders of the exchange | `adapters/`, the calls of `orchestrator.py` |
| `Subscriptions` | every operation of `SubscriptionService` | `subscription_service.py` |
| `Payments` | every operation of `PaymentService` | `invoice.py` |
| `Hub` | `ConnectionManager`, the endpoint of each socket, sends in the middle of their loops | `api/websocket.py` |
| `Cache` | `get` and `set` of `CacheManager` over an external Redis | `cache/manager.py` |
| `PriceFeed` | `get_price` and `get_quote_for_trade` on top of `Cache` | `trading/price_feed.py` |
| `Airdrop` | the progress rows of a user under several calls | `airdrop/engine.py` |
| `AirdropRules` | the evaluation of a campaign's rules | `airdrop/rules.py`, `check_eligibility` |
| `RateLimiter` | `RateLimitMiddleware` | `api/middleware.py` |
| `Sessions` | the requests of all routes, their sessions and the pool | `database/manager.py`, `api/routes/` |
| `MC...` | the small instances TLC checks | - |
| `...Proofs`, `ActionQueueRefinement` | theorems and their proofs | - |

Each module has its mutants beside the definition they change: an operator
with a comment that begins with "Mutant". Nothing but the mutation of a run
uses them.

### ActionQueue

Atomic step: the code between two awaits, which the event loop never
interrupts. A statement of the database is a step of its own, because its
effect happens in the connection's thread while the coroutine waits.

An element of `Actions` is an enqueue call, the row id it obtains and the task
it may create: a call creates at most one of each, so one name serves for all.

| code | model |
|---|---|
| `action_queue.status` | `status`, with `"none"` for no row |
| `self._queue`, `self._processing`, `self._handlers` | `queue`, `processing`, `handlers` |
| `enqueue`: INSERT; then put, test of the flag, `create_task` | `Insert`; `Put` |
| first step of a task: the guard and the loop head | `Start` |
| later loop heads, `finally` when the queue is empty | `NextAction` (`LoopHead`) |
| SELECT of `_execute_action`, and what its row decides | `Fetch` |
| UPDATE to EXECUTING; handler lookup and call; its end; UPDATE to COMPLETED; UPDATE to FAILED | `Claim`; `Dispatch`; `HandlerEnds`; `Complete`; `Fail` |
| a statement raises in the worker; the exception leaves through `finally` | `StatementRaises`; `Die` |
| `cancel_action`: SELECT with its checks; UPDATE | `CancelRead`; `CancelWrite` |
| the process stops: the open transaction is rolled back | `Crash` |

A handler that raises an exception whose text is empty gets a result of its
own, `"silent"`: `_update_status` then builds a statement with one placeholder
less than it has parameters (`if error_message:` in the text of the statement,
`is not None` in the parameters), so the UPDATE of the except clause raises.
`BadPayload` are calls whose `str(payload)` does not `eval` back, so that
reading their row raises. Payloads, results and timestamps are left out.

### Trading

A request is an element of `Requests` and also names the record it may create.
Its place in `execute_trade` is `pc`: `idle`, `validate`, `count`, `cooldown`,
`record`, `block` or `begin`, `execute`, `complete` or `fail`, `done`, or
`aborted` when an exception left the function. Each SELECT and each commit is a
step. `Validate` holds the checks up to the first await; network, DEX and
amount are left open, so those checks may pass or fail. `ExecuteTrade` has
three outcomes: `ok`, `failed`, and `lost`, where the exchange took the order
and its answer was lost or had no order id, which the adapters report as a
failure. `late` is a history variable: orders placed while the kill switch of
their service was on.

Left out because the code has no effect there: `_get_daily_loss` returns the
constant 0.0; `max_slippage` and `valid_until` are stored in the request and
the quote and never compared; the branch "No adapter available" follows a quote
that the same adapter just gave; `validate_swap` has no caller. The route
`api/routes/trading.py` builds an orchestrator without adapters for each
request, so over HTTP every trade ends at the quote; `Trading` models the
services, which the tests drive with adapters.

### Subscriptions and Payments

A client is an element of `Sessions`: a database session doing one call at a
time. A call is two steps: the SELECT with the checks on its row (`...Read`)
and the commit (`...Commit`), an `UPDATE ... WHERE id = ?` that looks at
nothing. SQLite does not begin a transaction for a SELECT and PostgreSQL runs
READ COMMITTED, so nothing stops two sessions between the two. Calls that are
refused, and calls whose SELECT raises because `scalar_one_or_none` finds two
rows, change nothing and are no steps. `Abandon` is a commit that raises or a
process that stops.

In `Payments` the step `RecordHash` is external: nothing under `src/` stores
the hash that `verify_payment` compares with, and the tests put it in the row
themselves. Without that step no invoice could ever become PAID.

### Hub

An endpoint is in `receive_text`, in `accept`, or ended (`pc`); its auth frame
sets the session (`Authenticate`) before `accept` is awaited, and `connect`
registers the socket when it returns (`Register`). Whatever makes the endpoint
leave its loop runs `disconnect` with the id the session has by then (`End`).

A send is an element of `Sends`: `send_personal`, `send_admin` or `broadcast`,
chosen when it begins. `Begin` and each `Resume` run to the next `send_text`.
Between them the set may change. `send_personal` and `send_admin` iterate the
live set, and CPython's set iterator raises at the next step when the size
differs from the one it began with; `broadcast` iterates a set of its own. A
set that changed and has its old size again (`touched`) may be walked in any
order, sockets skipped or repeated. `orphaned` says that the set a send walks
is no longer in the dictionary, so that a later set of the same user is another
object. `touched` and `orphaned` are thus properties of the iterator, not
bookkeeping; `pruned` is a history variable.

| code | model |
|---|---|
| `_connections`: its keys; its sets | `keys`; `conns` |
| `_admin_connections` | `admins` |
| `session.user_id` (`is_admin` follows from it) | `session` |
| local `dead_connections`; the loop variable | `dead`; `cursor` |
| the discards after the loop | `Clean` |

Frames that only answer (`ping`, `subscribe`, bad JSON) change nothing and are
no steps. A socket that is not CONNECTED costs the code no await; the model
gives it one, which only adds interleavings. The five `notify_...` functions
are calls of `send_personal`, and `broadcast_alert`, whose docstring says "to
all users", is a call of `send_admin`. `websocket_endpoint` calls
`receive_text` before anything accepts the socket: Starlette raises there, so
only the sockets of `tests/unit/test_websocket_roles.py` get any further, and
those are what the model takes for a socket.

### Exchange

`Trading` sees an adapter as three outcomes; `Exchange` is inside. A trade goes
through `get_quote` of its adapter (for GMX a second request, for the gas
price), waits for the risk check, and goes through `execute_trade`: GMX reads
the market again and posts an order, which the exchange takes or not and
answers or not; dYdX reads the market and gets a mock id from `create_order`,
which makes no request; Uniswap asks for a second quote and makes up a hash.
`Move` is the price at the exchange; it may move between any two steps.
`during` and `lost` are history variables. `NoQuote` is also the price "0" of
an exchange; `QuoteRaises` is a number that does not parse. `Trades` never
retries, as nothing in the code does.

### PriceFeed and Cache

A price is the time at which the source named it, so that its age can be
compared. Calls of several tasks interleave at every await; a quote is two
calls of `get_price` one after the other. A command takes effect at Redis in
one step and its caller goes on in a later one, so that an entry can expire,
and another call fetch, write and return, while the reply with the old value is
on its way.

| code | model |
|---|---|
| `cache.get` awaits; the reply, and the return of the cached price | `Find`; `Hit` |
| the token is not there, or Redis raises or its reply is lost | `Miss` |
| the request to the source: its price; every way to None | `Answer`; `NoAnswer` |
| `cache.set` awaits: SETEX at Redis; the return of the price | `Save`; `Fetched` |

`CacheManager` swallows every exception of Redis, so a failed read is a miss
and a failed write is no write (`unsaved`). A command whose reply fails has
taken effect before the caller goes on, or never does.
`PriceData(**cached)` puts the string of the JSON text into `price_usd`: a
price has a kind, and `get_quote_for_trade`, which multiplies it with a
Decimal, raises on a string (`QuoteOf`).

Nothing bounds the time of a call: the 30 seconds given to httpx are a limit of
each phase of the request, and the client of Redis has no limit. Time therefore
passes freely, and the history variable `longest` records how long a
`get_price` has taken so far; `seen` and a call's `knew` record which prices
were returned, and which of them before the call began. A price of zero, on
which the division of the quote would raise, is left out.

### Airdrop and AirdropRules

A call of `update_progress` is its SELECT and its commit. SQLAlchemy writes
only the columns that differ from what this session loaded (`Merged`), so two
calls that loaded the same version can leave the status of one with the
percentage of the other; `tasks_completed` and `tasks_total` go the same way
and are left out. The index over user and campaign is not unique, and
`scalar_one_or_none` raises on two rows. `get_user_campaigns` reads one row
per campaign in a loop, so one such campaign ends the whole list. Rows are
named by the call that inserted them; `last`, `contested` and `late` are
history variables.

The four rules compare one number with a threshold; in `AirdropRules` a number
stands for the one the rule's type reads, whatever its network or token.

### RateLimiter

The decision is made without an await, so a request is one step. The key is
the client's address and the exact path. The limit is enforced in production
only, and the prefixes listed in the code are compared with the whole path, so
every route has the default limit of 30.

| code | model |
|---|---|
| `count` and `reset` of a key | `count`, `reset` |
| `reset < now` | `Over` |
| the new window and the count after `+= 1` | `WindowEnd`, `Counted` |
| `__call__` for a path under `/api/` | `Request` |
| - | `log`: history, the requests of a key in order, with the window and the number each was given and whether it went through |

### Sessions

A request is the transactions of its route, one after the other: `"write"`
ends with the commit of a service, `"read"` with the session. A transaction
takes a connection at its first statement and gives it back at its end; the
refresh after a commit is a transaction again, so a request that stores
something asks the pool twice. `TimeOut` is the pool's own error. The pool is
that of a PostgreSQL engine; with SQLite there is none (`NullPool`), and every
session opens a connection of its own.

### MCServices

The six parts above share no state. `MCServices` gives each a small instance
and a variable `part` that says which one a behaviour is about: the states of
the run are the sum of the states of the parts, not their product, and each
property is checked in the behaviours of its part.

## 3. Runs

| run | configuration | shows |
|---|---|---|
| `queue` | 3 actions of 2 users, 1 canceller, all faults and restarts; 242,776 states | `SingleWorker`, `Custody`, `RunOnce`, `CompletedMeansOk`, `NoLostWakeup`, `OpenRowsAreOwned`, `CompletedIsOnlyCancelled`; `EventuallySettled` under fairness; `Implements`: the queue implements `ActionLifecycle` |
| `trading` | 3 requests of 1 user from 2 clients, 1 trade an hour; 1.79 million states | `OrdersAreRecorded`, `StatusTellsReply`, `OverrunIsBounded`, `ClientsCoolDown`, `KillSwitchHolds`, `OpenRecordsAreInFlight` |
| `subscriptions` | 2 rows of 1 user, 2 sessions; 66,679 states | `RetryIsRefused`, `ExpiredIsOver`, `StuckUsersStay` |
| `payments` | 2 invoices of 1 user, 3 sessions, 2 hashes; 899,917 states | `PaidInTimeIsKept`, `PaidWasProven`, `RetryIsRefused`, `StuckUsersStay`, `SettledInvoicesStay` |
| `hub` | 2 sockets of a user and an administrator, 2 sends; 2.45 million states | `NoKeyError`, `EndedSocketsAreGone`, `LiveSocketsAreListed`, `ListedUsersHaveSockets`, `SendsTryAll` |
| `services` | one instance of each of the six parts of `MCServices`; 871,493 states | `FreshWhenAsked`, `StepsBackAreShort`, `QuotesAreFetched`; `OneOrderATrade`, `ReportedPriceIsCurrent`; `LateCallsRaise`, `RowsAreWhole`; `EligibleStays`; `TwiceTheLimitAtMost`, `PoliteAreServed`; `NothingLeaks`, `AnswersAreTrue` |
| `queue_cancel`, `queue_silent`, `queue_crash`, `trading_hourly`, `subscriptions_active`, `prices_text` | smallest instances that show the case | each refutes one sentence of the documents or tests, see 6 |

Deadlock is not checked in any run: once every call was made, or time has
reached its bound, the modelled system has nothing left to do, and that is
legitimate. What must still happen is `EventuallySettled`.

The types (`TypeOK` and its kind) are in no run: they are theorems, see 7, and
TLC evaluates nothing that would leave them.

## 4. Bounds, and why they are enough

* `ActionQueue`: three enqueue calls. With two, a task created by a late call
  can meet only the end of one worker. With three, a worker dies while another
  id waits and a third call has already created a task: the shortest history in
  which the flag, the queue and two ready tasks matter together. One canceller
  holds an action while the worker passes it; a second would only repeat a
  blind write of the same value. `BadPayload` is one of the three, and two of
  the three share an owner.
* `Trading`: one client sends two requests, the other one, so there is a
  request before, one concurrent and one after. `MaxTrades = 1` is the smallest
  limit that can be overrun. `Cooldown = 1`, `Hour = 3` and `MaxTime = 3` let a
  record be inside the cooldown, past it, inside the hour and out of it.
* `Subscriptions`: two rows and two sessions give every pair of overlapping
  commits; durations 0 and 1 with `MaxTime = 2` put an expiry at an instant,
  before it and past it. The expiry is not bounded by `MaxTime`.
* `Payments`: three sessions, so that a payment, an expiry and a confirmation
  of one invoice are in flight together; two hashes, one of them wrong;
  `Window = 1` with `MaxTime = 2` gives before, at and after the deadline.

* `Hub`: two sockets, so that one comes or goes while the other is awaited and a
  set can lose one socket and gain the other with its size unchanged; two sends,
  so that one cleans a set the other walks; a user and an administrator, and
  sockets that change from one to the other. Sockets and sends are symmetric.

* `Exchange`: one trade at each adapter and two prices, so that a price can move
  away and back in any phase of each.
* `PriceFeed`: one token, since tokens do not influence each other (`prices_text`
  has two); two calls of `get_price` and a quote, so that two can miss together
  and write in either order while a third reads. With a lifetime of 2 and a time
  of 2 a call lasts up to 2, an entry expires while the reply that names it is on
  its way, and another call fetches and returns meanwhile.
* `Airdrop`: three calls and two campaigns: two calls insert twice, or read the
  same version, and a third comes later; two statuses and two percentages, one
  of them 0.
* `AirdropRules`: two campaigns with the four types, a misspelled and an
  optional rule, thresholds of 1 and 2 and numbers up to 3.
* `RateLimiter`: windows of 2 within a time of 6, so that three windows follow
  each other; a limit of 2 and up to 3 requests at a time. Keys do not
  influence each other, and one is enough.
* `Sessions`: six requests of six routes on two connections: more of them can
  wait than there are connections, before, between and after their commits.

`MaxTime` (`MaxClock` in `RateLimiter`) is a bound in the guard of the passing
of time, `MaxBurst`, `MaxNumber` and `MaxPrice` bound requests at one time, the
user's numbers and the price. Everything else is
finite because each call is made once per element of its constant set.

The registry of `Hub` is bounded by its sockets; an endpoint may authenticate
any number of times.

## 5. Fairness

Only `queue` assumes any. `FairSpec` asks weak fairness of `Put` and of
`TaskStep` for each action: the event loop runs every ready coroutine, the
connection's thread answers each statement, and handlers end. The last is an
assumption about code outside this component. Nobody is obliged to enqueue,
cancel or register a handler, and restarts are never forced. The guarantee is
for an action that is neither lost in a restart nor left by a worker that a
raising statement or a silent exception has killed: a dead worker does leave
ids behind (the flag is reset, but only the next `enqueue` starts another
task). `NoLostWakeup` and `OpenRowsAreOwned` say exactly what is left then.

## 6. What the runs refute

| run | sentence | what the code does |
|---|---|---|
| `queue_cancel` | `action_queue_service.py:127` "Cancel a queued action." | the worker has read QUEUED, `cancel_action` writes FAILED and returns True, the worker writes EXECUTING over it and invokes the handler |
| `queue_silent` | `docs/architecture.md:58` "All actions go through an action queue for reliability and auditability" | an exception with an empty text makes the UPDATE to FAILED raise: the row stays EXECUTING, the worker ends |
| `queue_crash` | the same sentence | nothing commits the connection: rows of accepted actions are gone after a restart |
| `trading_hourly` | `docs/assumptions.md:28` "Risk limits enforced on all trades" | two requests both count before either is COMPLETED |
| `subscriptions_active` | `subscription_service.py:31` and `tests/unit/test_subscription.py:58` "User already has active subscription" | two PENDING rows are both activated; afterwards `scalar_one_or_none` raises in every call for that user |
| `prices_text` | `price_feed.py:19` `price_usd: Decimal` | a price from the cache is the `str` that was stored, and a quote that gets one raises TypeError |

The properties of the passing runs say how far each goes: `QuotesAreFetched`
that no quote is ever made of a cached price, `OverrunIsBounded`
bounds the overrun by the other clients of the user, `CompletedIsOnlyCancelled`
says what a late cancellation may overwrite, `StuckUsersStay` that a locked-out
user stays so.

## 7. Proofs

All theorems are about `Spec`, for every value of the constants that satisfies
the `ASSUME` of the module: the owner and type functions have the right
domains, the markers for "nothing" are no members of the sets they mark, the
numeric constants are naturals. Only the sockets of the hub and the requests
of `Trading` and `Sessions` need be finite in number. TLC evaluates each
assumption in the passing runs.

| module | theorems | argument |
|---|---|---|
| `ActionQueueProofs` | `TypeCorrect`, `OneWorker`, `OneHolder`, `AtMostOnce`, `CompletedIsTrue`, `WakeupsAreKept` | see below |
| `ActionQueueRefinement` | `RowsAreKnown`, `OpenRowsHaveOwners`, `CompletedLastsButForLateCancels`, `QueueImplementsLifecycle`; `RowsStayWithoutRestarts`, `ErrorsAreRecordedWithoutFaults` | see below |
| `TradingProofs` | `TypeCorrect`, `InvHolds`, `AuditTrail`, `StatusIsTrue`, `NoForgottenRecord`, `KillSwitchLetsOneThrough`, `CooldownHolds`, `OverrunIsOneAClient`; `OneClientKeepsTheLimit` | see below |
| `SubscriptionsProofs` | `TypeCorrect`, `InvHolds`, `RepeatIsRefused`, `NoEarlyExpiry`, `StuckIsForever` | see below |
| `PaymentsProofs` | `TypeCorrect`, `InvHolds`, `PaidIsKept`, `PaidIsProven`, `RepeatIsRefused`, `StuckIsForever`, `SettledIsForever` | see below |
| `HubProofs` | `TypeCorrect`, `InvHolds`, `CleanUpFindsItsUser`, `EverySocketIsTried`, `LastIdIsCleared`, `ConnectedIsListed`, `EmptyEntriesWerePruned` | see below |
| `PriceFeedProofs` | `TypeCorrect`, `Safety`, `QuotesRestOnFetches`, `PricesAreFresh`, `PricesGoBackLittle` | see below |
| `ServicesProofs` | of Exchange: `ExchangeTypes`, `NoTradeOrdersTwice`, `ReportsAreCurrent`; of Airdrop: `AirdropTypes`, `DuplicatesAreForGood`, `OnlyContestedRowsAreMixed`; of AirdropRules: `EligibilityIsKept`; of Sessions: `SessionsTypes`, `ConnectionsComeBack`, `AnswersTell`; of RateLimiter: `LimiterTypes`, `LimiterSafety`, `TwoWindowsAtMost`, `RefusedSentMore` | see below |

**Action queue.** `TypeOK` is inductive alone, `SingleWorker` given `TypeOK`:
only `Start` makes a task active, and it does so when the flag says that none
is. `RunOnce` is not inductive: that `Dispatch` increments a zero must follow
from the id being in one place only. `Inv` therefore adds `Custody` (an id is
not yet put, once in the queue, or held by the one task that took it, and
untouched until that task invokes the handler); the lemmas about sequences say
what `Append`, `Head` and `Tail` do to "once in the queue". `NoLostWakeup`
rests on `SingleWorker`: the flag can be reset only by the active task, and
that task either found the queue empty or is dead.

**Rows of the queue.** `RowInv` ties the rows to the tasks: a row exists from
its INSERT to a restart; `cancel_action` writes only to a row it has read; a
worker's row has the status the worker read or wrote last, or FAILED if there
are cancellers; and after a handler that returned only a raising statement
leads to the UPDATE to FAILED. It is inductive together with `Inv`, because
`Custody` lets no two workers hold one row. From it:

* `OpenRowsAreOwned`: `get` hands a QUEUED row from the queue to the task in
  one step, and a worker leaves its row only after it has settled it, or dies
  with it.
* `CompletedIsOnlyCancelled`: no worker is before its UPDATE with a row that
  says COMPLETED, so only a late `cancel_action` or a restart overwrites it.
* `Implements`: the initial states map to initial states, and every step of the
  queue is one of `Accept`, `Claim`, `Take`, `Settle`, `Overrule`, `LoseAll` or
  leaves phase and effect alone. Overruling is in the abstract specification
  only when there are cancellers or raising statements; without them the phase
  of an action goes through its life cycle once and in order.

Two of the promises that the runs refute are proved under the condition that
keeps them: rows stay as long as nothing restarts the process, and errors are
recorded when statements do not raise and exceptions have a message, whatever
is cancelled or restarted.

**Trading.** `Progress(r)` says for each place of a request which decision,
status and reply it may have; with it every step touches one request only, and
`OrdersAreRecorded`, `StatusTellsReply` and `OpenRecordsAreInFlight` are
inductive. `KillSwitchHolds` needs `OneInFlight` (a client sends its requests
one after another) and `KillInv` (while the switch is on, a client with a late
order has no request past the check). `ClientsCoolDown` is proved from that
invariant with a second one that ties the records of a client to the request
it has in flight.

`OverrunIsBounded` counts, so it needs an invariant that counts. A request
*claims* a place in the hour that ends at `t` when it completed in it, when its
record was created in it and may still complete, or when it has passed the
count and `t` is not over. `ClaimInv` bounds the claims by the same number as
the property bounds the trades. Only a `CountTrades` that passes adds a claim,
and at that moment the other claims are of two kinds: trades completed within
the hour, of which it has just found fewer than `MaxTrades`, and requests in
flight, of which each client has one at most (an injection into `ClientsOf`),
its own included. No other step adds a claim, since no request returns to an
earlier place and time only moves forward. Where no user has two clients, the
documented limit itself follows.

**Subscriptions and payments.** `Pending` states what a commit in flight may
still count on although other sessions have written since its SELECT: a row
being activated exists, a row being expired by `check_access` or
`verify_payment` is past its date, a row being paid has the presented hash.
That part of the row never goes back, so other commits cannot invalidate it. `RetryIsRefused` follows because an
activation that took effect has moved the row past PENDING and no commit writes
PENDING to an existing row. `StuckUsersStay` and `SettledInvoicesStay` are action
properties, proved from the invariant by cases on the step: no SELECT admits a
row that is settled, so a commit on it can only come from a call that was in
flight before.

**Hub.** `Underway` says what a send in the middle of its loop still knows: the
set it began with was not empty, its user is a key unless the entry was deleted
under it, and as long as nothing touched its set, that set is the one it began
with. An entry is deleted with its last socket only, so a send whose entry is
gone walks over an empty set, and the size test (here the finiteness of
`Sockets` is needed) stops it before the clean-up that would raise KeyError.
Every property that run `hub` checks is proved.

**Price feed.** `Inv` says what a call holds at each place, all of it against
`longest`, which only grows. An answer of the source is no older than the call
that asked for it (`HoldsFetched`), so an entry ends at most `TTL + longest`
after its price was named (`StoreInv`), and an answer of Redis, whose entry was
there after the call began, is younger than that by the beginning of the call
(`HoldsCached`), however long the reply takes: this is `FreshWhenAsked`. For
`StepsBackAreShort`, unless a write of the token was refused, nothing that was
returned is newer than the entry by more than `longest`: whoever wrote an older
price over a newer one was under way since before the newer one was named. A
call remembers in `knew` what was returned before it began, and what it reads
afterwards is bounded by that.

**Exchange.** `TradeInv` says for each place of a trade whether it has an order
and which prices of `during` it may hold; every step touches one trade, or only
the price.

**Airdrop.** Rows are never removed and keep their campaign, so two rows of a
campaign stay two; a late list keeps such a campaign among those it has still
to read. A row that is not contested was last written by a call that had loaded
what the row held, so each column is what that call asked for, written or not.

**AirdropRules.** Every check is a lower limit, and the rules that count are
the same in every evaluation.

**Sessions.** `SessionInv` says how far each request is: nothing done, its
refresh to do, all done, or raised after its commit. `NothingLeaks` counts:
every step that changes who works changes `free` by one the other way.

**RateLimiter.** `LimiterInv` says what the history of a key looks like: a
request came within the window it was given and went through if its number
allows; of two requests the later one has a higher number in the same window,
or a window that begins after the other's is over; the requests that a number
counts are the ones just before it, in the same window; and the counter is that
of the last request. `TwiceTheLimitAtMost` follows because three windows that
follow each other do not touch a stretch as long as one of them, and the
requests that a window lets through have different numbers up to the limit.
`PoliteAreServed` follows because the requests that a refused one's number
counts all came after the window began, which is no longer ago than its length.

Only model-checked: `EventuallySettled`, since liveness under fairness and
ENABLED are out of the prover's reach. Every other property of the passing runs
is proved. No module uses a RECURSIVE operator.

## 8. Not modelled

* `celery_config.py`, `tasks/`: the four task modules contain `async with` in
  plain functions, which Python refuses to compile. No task body can run, so
  there is no behaviour to model; the schedules alone have no state.
* `payments/verifier.py`: stateless requests to nodes, and nothing calls it;
  `check_transaction` reads a field that receipts do not have and always
  answers `(False, 0)`.
* `dashboard/`: `log_event` reads `event.metadata` (`service.py:33`), which
  `EventCreate` does not have, and raises before its first statement. Nothing
  else writes the table, so every list is empty and every summary zero. Its
  routes are in `Sessions` as transactions.
* `services/wallet_connect.py`, `wallet_service.py`: nothing under `src/app`
  calls them; one session in memory, and every operation is a single step.
* `auth/jwt.py`: signing and checking tokens keeps no state, and only tests use
  it.
* Bot menus and handlers: they call operations that the database wrapper does
  not have and end in an exception before they change anything. Mini app,
  message texts, deployment manifests: presentation and configuration.
* `main.py`, `health.py`: wiring; `get_database` is called once, at start-up.
* Parts of modelled files that no code calls: `get_prices`, `get_or_set`, the
  deletions, `QueryCache` and the decorator of the cache; `transaction` and
  `execute_bulk` of the database manager; `validate_swap`; balances, positions,
  order books and cancellations of the adapters.
* The route `check-eligibility` reads `r.rule_id`, which a `RuleResult` does
  not have: with at least one rule it answers 400. `AirdropRules` models the
  service below it.
* `RateLimitMiddleware` is not installed by `api/main.py`; its table of
  counters only grows.
* dYdX and Uniswap report trades as executed that they never placed; `Exchange`
  has this as the code has it, and no property claims anything else.

## 9. Plan

Done: `ActionQueue` with `ActionLifecycle`, `Trading`, `Subscriptions`,
`Payments`, `Hub`, `PriceFeed` with `Cache`, `Exchange`, `Airdrop` with
`AirdropRules`, `RateLimiter`, `Sessions`, and the proofs of 7.

Left: a composition of `Payments` and `Subscriptions`: a user's path from
invoice to access, which nothing in the code links.
