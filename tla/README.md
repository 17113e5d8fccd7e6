# A model of the banking application

TLA+ modules, TLC configurations and TLAPS proofs for the six FastAPI services
of this repository. Source paths below are relative to `src/services/`;
`transaction-service/service.py` stands for
`src/services/transaction-service/app/service.py`, and so on.

## 1. Inventory

Every service runs in two or more replicas, each an asyncio event loop that
interleaves its request handlers at every `await`. There are no tests in the
repository; the docs are `README.md`, `ARCHITECTURE.md` and `.kimchi/docs/plan.md`.

| Component | State it keeps | Operations | Talks to | What is hard |
|---|---|---|---|---|
| Transaction service | `transactions`, `transaction_entries`, and the balances in `accounts` (PostgreSQL); `idempotency:<key>` (Redis); audit log (MongoDB); events (Kafka) | `create_transfer`, `create_deposit`, `create_withdrawal`, `get_transaction`, `get_transaction_history` | all four stores, in one handler | interleaved handlers, lock order, a crash between two stores, retries with the same key |
| Account service | rows of `accounts`: owner, number, status | `create_account`, `get_account`, `list_accounts`, `update_account`, `close_account` | the table the transaction service locks | unlocked reads, check-then-insert of the number |
| Auth service | `users`, `refresh_tokens` | register, login, refresh, logout, `me`, user list | PostgreSQL | two refreshes of one token, two registrations of one address |
| API gateway: rate limiter | a sorted set per client (Redis), shared by the replicas | `is_allowed` | Redis | pipelines of several replicas, clocks that read the same millisecond |
| API gateway: proxy | a pool of connections shared by all requests | forward a request with the user of its token, map failures to 502, 503, 504 | every service | a timed-out request goes on upstream, a service that never answers holds connections |
| Fraud service | the model in memory, its version, date and size; the model file | `analyze`, `analyze/batch`, `retrain`, `model_info` | worker threads | predictions during a retraining, two retrainings, a crash while saving |
| Notification service | its positions in the topics, the group's committed offsets (Kafka), the last 100 messages | the consume loop, start and shutdown, `status` | Kafka | rebalances, sessions that run out, kills between a message and its commit, a loop that ends |
| Shared library | none of its own | error handlers, Kafka producer, JWT helpers, metrics | - | what an uncaught exception becomes |

What makes each correct:

* Transaction and account service: money is neither lost nor made (a balance is
  what its entries say), never negative, never moved on a frozen account; a key
  is committed at most once; nothing is announced that is not committed; no
  circular wait; every request ends.
* Auth: one user per address; a token handed out works until it is used or
  revoked, and never after; a failed refresh costs nobody the session.
* Rate limiter: at most the limit is admitted in any window, and nobody is
  refused but for requests of that window.
* Gateway: what was refused does not run upstream, now or later; a service is
  told the user of the token and nobody else; every request is answered.
* Fraud: a score carries the version of the model that produced it; a restart
  gets back what was trained.
* Notification: every event in the topic is notified, at least once, in order;
  a rolling update repeats none.

Of the connections between services, the code has three: the gateway proxies to
all, the transaction service shares the table `accounts` with the account
service, and it publishes `transaction.created`, which the notification service
consumes. The fraud service is never called by the transaction service,
whatever `README.md` says of blocked scores.

## 2. Modules

| Module | What it is |
|---|---|
| `AccountsTable` | the committed rows of `accounts` and their row locks; PostgreSQL as the two services use it |
| `TransactionService` | the three posting handlers, statement by statement, with Redis, MongoDB and Kafka |
| `AccountService` | the three writing handlers of the account service |
| `Banking` | both services on one table, fairness, and the properties of the whole |
| `Ledger` | the abstract specification: a posting happens at once, at most once per key |
| `MCBanking` | instances of `Banking` for TLC |
| `BankingProofs`, `LedgerProofs`, `EntriesProofs` | theorems about `Banking`, with proofs, each module on the one before it: rows and balances; caches, numbers, deadlock and the refinement; entries |
| `FraudModelProofs`, `GatewayProofs`, `NotificationsProofs`, `RateLimiterProofs`, `RefreshTokensProofs` | theorems about the module of that name, with proofs |
| `RefreshTokens`, `MCRefreshTokens` | register, login, refresh and logout of the auth service |
| `RateLimiter`, `MCRateLimiter` | the sliding window of the gateway |
| `Gateway`, `MCGateway` | the proxy of a gateway process, from a client's request to its answer |
| `Notifications`, `MCNotifications` | the event's way from the producer's send through a consumer group to its notification |
| `FraudModel`, `MCFraudModel` | threads, attributes and file of the fraud service |

`Banking` composes `TransactionService` and `AccountService` over the table of
`AccountsTable`. The other components meet at an interface each of which one side
abstracts: `Gateway` takes the rate limiter as a step that answers 429 or goes on,
and a service as a job that runs until it ends; `Notifications` takes the
transaction service as the sender of one event for each commit (`Publish` of
`TransactionService`, where a failed send is swallowed).

### AccountsTable, TransactionService, AccountService, Banking

A session is a handler with the database session `get_db` gives it. `pc[s]` is
the statement it has reached, and one action is one `await` with the code up to
the next:

| Action | Code (`transaction-service/service.py`) |
|---|---|
| `Start` | the route; on a replica whose Kafka start-up failed the dependency raises and the handler does not run |
| `CheckIdempotency`, `Replay` | 65-80, 226-236: the key in Redis, the transaction it names |
| `LockAccount`, `LockMissing` | 242-262: `SELECT ... FOR UPDATE` in the order of the ids |
| `Reject` | 264-295: owner, frozen accounts, funds, in this order |
| `InsertTransaction`, `InsertConflict` | 297-311: the flush; the unique column waits for an uncommitted row and fails on a committed one |
| `Post`, `Commit` | 313-347: entries, absolute UPDATEs, COMPLETED, commit |
| `Refresh` ... `StoreIdempotency` | 348-391: the reload, then audit log and event (whose failure is swallowed), then the SETEX |
| `LoadEntries`, `Reply` | the route reads the entries and answers 201 |
| `Fail`, `Crash`, `Expire` | any awaited store raises; the replica dies; Redis loses a key |

The three handlers are one in the model: a deposit has no source and a
withdrawal no destination, and the checks on the absent account fall away.
What a session has written and not committed is kept with the session: the
variables of the tables are committed values. `transactions` holds the
committed rows, all COMPLETED: PENDING is only ever seen inside the
transaction. `AccountService` is built the same way; its `commit` is the one
in `get_db`, after the route has returned and before the answer is sent
(FastAPI 0.115).

`lock`, `KeyFree` and `AccInserted` are PostgreSQL: a row lock is held by one
session until its transaction ends, and an INSERT waits for another session's
uncommitted row with the same unique value.

### RefreshTokens

One action per statement again: `Lookup` and `InsertUser` (register, login),
`Select`, `Delete`, `IssueTokens`, and `Commit` in `get_db`. `deleting[t]` is the
row lock of a DELETE that is not committed. A DELETE that waited for another
and finds no row matches none, and SQLAlchemy only warns: `Delete` goes on
without the lock. `record` is the ORM object, which keeps the user after the
row is gone. A token stands for itself and for its bcrypt hash; the number of a
token is the order in which it was generated. `late`, `refreshed` and `revoked`
are history.

### RateLimiter

`Arrive` reads the clock, `Pipeline` is the MULTI/EXEC of four commands,
`Undo` and `ReadOldest` the two commands of a refusal, each after an `await`.
A member of the sorted set is `"<now_ms>:<id(self)>"`, so `[ms, by]`. One client
is modelled, because clients have a key each. All clocks agree; with clocks of
several hosts more is possible than the runs show. A handler that dies, or whose
Redis call fails, becomes `dead` and keeps what it wrote. `SameMs` and `Delays`
name what is assumed of time in a run. The seconds in `Retry-After` are left out.

### FraudModel

`train`, `save_model` and `predict` run in worker threads
(`asyncio.to_thread`) on one `FraudModelService` without a lock, so an action is
one access to a shared attribute or to the file. A model and its version carry
the number of the training that made them. A forest is not usable between its
construction and the end of `fit`, nor while it is fitted again. `BeginSave`
empties the file (`Torn`), `EndSave` writes it; two dumps that overlap leave
either archive or a mixture. `Crash` keeps the file (the process is restarted)
or not (the container is replaced). `dataset_size` is always 10000 and left out.
`FitFails` and `SaveFails` are the training on request that raises; one at start-up
that raises ends the process, which is `Crash`. `retrained`, `overlap`, `quiet`,
`unfit` and `atStart` are history: the versions clients were told of, whether two
trainings were ever under way at once, the predictions no training was under way
with, the models whose fit raised, and which models are older than the process.

### Gateway

A handler goes through `stage`: `RateLimit`, `Validate` (a service without a URL,
then the token, then the body), and the call of httpx (`gateway/main.py:309`):
a place in the pool, a connection, the request, the answer. A `job` is the
request at work in a service; a handler that stops waiting leaves it behind in
`orphans` with what the client was told.

| Action | Code (`gateway/main.py`) |
|---|---|
| `Receive`, `RateLimit` | 401-443, 187-221 |
| `Validate` | 268-305 with `extract_and_validate_jwt`, 111-179 |
| `TakeConnection`, `Connect`, `Send` | 309-315; `ForwardedUser` is the header built in 292-300 |
| `Respond`, `Redirect` | 316-321: the status is passed on as it is; redirects are followed by httpx (475) |
| `ConnectFails`, `Timeout`, `Break` | the except clauses 322, 336 and 350, in this order |
| `EndJob`, `Die` | a service ends a job nobody waits for; the gateway process dies |

A connection is held by a request from `TakeConnection` until it is answered. That
of a request that timed out is closed, so the slot is free again.

### Notifications

The topic is a sequence for each partition, and an offset counts the messages
before it. `Send` is `KafkaProducerWrapper.send`: acknowledged, appended twice
by a retry (the producer is not idempotent), or lost. `Boot`, `Join` and
`StartFails` are `lifespan` and `_consumer.start()`; `Handle` is one turn of the
loop (`notification-service/main.py:104-133`), which awaits nothing between a message
and the next; `AutoCommit` is aiokafka's timer; `Shutdown`, `LoopFails` and `Stop`
are the ends of the loop. The consumer group (`Assign`, `Rejoin`, `Fenced`, `Expire`,
`Evict`) is Kafka, as aiokafka uses it: the members join, each partition goes to one
of them, any one; an assignment starts at the committed offset, or at the earliest;
only a member can commit; a reader the broker took for dead reads on until it learns
of it. A replica that comes back joins once its old membership is gone.
The notification itself is a line in a log, so it does not fail. `notified` and
`repeated` are history.

## 3. Runs

| Run | Instance | What it shows |
|---|---|---|
| `cross` | 2 handlers, 2 accounts of 1 each, transfers both ways, a deposit and withdrawals by the owner and by a stranger with keys already in use, `MaxBalance` = 2, every failure | no lost update (`BalancesMatchEntries`), no overdraft (`BalancesInRange`), `AtMostOncePerKey`, `CacheNamesCommitted`, `OutsideSeesCommitted`, `NoCircularWait`, and all of it is a behaviour of `Ledger` (`ImplementsLedger`) |
| `open` | 2 account sessions that open accounts, freeze one and try to close it, a deposit on its way | `LockedRowsCurrent`, `FrozenMoneyStill`, `AccountNumbersUnique`, `ImplementsLedger` with both services, `TypeOK` |
| `live` | 2 crossing transfers and 2 deposits with one key, fair | `EveryRequestEnds` |
| `tokens` | 2 handlers, 1 user, 3 tokens, every failure | `OneUserPerEmail`, `HandedOutIsStored`, `SpentStaysSpent`, `SessionsContinue`, `TypeOK` |
| `window` | 2 requests at a time on 2 replicas, limit 2, window of 4 ticks, 9 instants, handlers that die; distinct milliseconds, no delayed pipeline | `AtMostLimit`, `OnlyAdmittedStay`, `RefusedForCause`, `TypeOK` |
| `trainings` | 2 trainings that may overlap, 1 prediction, 4 models, crashes, fits and dumps that raise | `UsableAtRest`; `FileMatches`, `AnsweredIsSaved` and `VersionNamesScorer` as long as trainings follow each other; `TypeOK` |
| `gateway` | 2 handlers, 1 connection, 1 redirect; requests without a token, with one that is invalid or names nobody, and with one of alice's, with and without a header that claims bob; fair | `RefusedHasNoEffect`, `IdentityFromToken`, `EveryRequestAnswered`, `TypeOK` |
| `notifications` | 2 replicas, 2 partitions, 2 events in one of them, a history of 1, 2 failures, 1 shutdown; fair | `CommittedIsNotified`, `NotifiedInOrder`, `RestartsRepeatNothing`, `EveryEventNotified`, `TypeOK` |

The bounds. Two handlers are enough for every conflict over a row, a key or a
token, since each conflict is between two; they are symmetric and are started
again without end, so histories of many requests are covered. Two accounts give
both lock orders. Amounts of 1 against balances of 0, 1 and 2 make a posting fit,
miss by one, and overflow its column. In `tokens` three tokens are a login, a
refresh and a second refresh or login; `MaxToken` stops requests that would need
more. In the rate limiter the clock runs past two windows, so that entries are
trimmed; it stops at `MaxTime`, and with it the model, which is why deadlock is
not checked there. In the fraud runs `MaxModel` does the same: four models are a
start-up and three retrainings, or two overlapping ones on either side of a crash.
One connection in `gateway` makes the second handler wait for the first, and is the
pool of 100 at its limit; the process dies any number of times. In `notifications` two
events of one partition are the least that can be out of order, and a send appended
twice makes three messages; the second partition is one that can move or not.
Two failures are what it takes for an event to be handled by a replica that is then
lost and taken over by one that fails too. All loops may have ended in the end, so
deadlock is not checked.

Fairness. Three runs assume any. `live`: strong fairness of each handler's own
steps. The event loop runs every handler, and PostgreSQL grants locks and unique
waits in the order of their queue, so a wait that is enabled again and again is
served. `gateway`: weak fairness of what the gateway does by itself (`OwnStep`): Redis
answers or fails, the client sends its body, and the timers of httpx run. No service
need ever accept a connection or answer. `notifications`: weak fairness of the
broker's assignment, of a replica's loop, and of what restarts, joins and stops it
(`Serve`): the orchestrator starts a process that ended, the heartbeat and session
timers run. Nothing starts a task that ended in a process that lives, in the code or
in the model. Failures, crashes, new requests and expiries of keys are never forced.
The refinement (`ImplementsLedger`) maps a posting to `Commit`, an opening or a
change of status to `AccCommit`, and every other step to a stutter.

### What the code does not do as it says

Each of these is a run that TLC must find violated; PROJECT.json quotes the line.

| Run | Finding |
|---|---|
| `self_transfer` | a transfer from an account to itself makes money: the second UPDATE writes the locked balance plus the amount |
| `repeat` | a repeat after a lost or expired Redis key is refused with 400 for the money the first attempt took, or answered 500 by the unique column, not with the existing transaction |
| `replay` | two concurrent refreshes of one token both succeed |
| `same_ms` | equal milliseconds let more requests through than the limit |

Further disagreements were met in the code and have no run of their own:

* an account with a zero balance cannot be closed, although `account-service/main.py:205`
  says so: `account-service/service.py:230` compares a `str` with a `Decimal`
  (`CloseRefused`; in `Ledger` no account is ever closed);
* a prediction that overlaps a training can name a model that did not score it
  (`fraud-service/schemas.py:68`; the model has these steps, and `VersionNamesScorer`
  excludes them);
* the gateway asks for a token on every route, `/auth` included, and does not forward
  `Authorization`: nobody can register or log in through it, and `me` is always 401
  there, whatever `ARCHITECTURE.md` says of routes without a token;
* `ARCHITECTURE.md` has the gateway answer 502 to a 5xx of a service; the code passes
  the status on. The 30 seconds of a request are for each phase of it, not for the
  whole;
* nobody publishes `transaction.completed` or `transaction.flagged`, and the fraud
  service consumes nothing;
* the history of an account (`transaction-service/main.py:315`) builds its answer from
  entries that were not loaded, which the async session refuses: 500 once there is a
  transaction;
* a deposit or withdrawal writes one entry, where `transaction-service/models.py:146`
  speaks of two for each transaction;
* a login does not invalidate the refresh token before it
  (`auth-service/main.py:151`);
* a refresh that selected its token before the logout that deletes it commits a new
  token after the logout (`auth-service/main.py:205`; the model has these steps);
* the entry of a request being refused counts against other requests until it is
  taken back, and `Retry-After` is rounded down (`gateway/rate_limiter.py:52-54`);
* two overlapping trainings can save a model under the other's version, or one that
  is being fitted; a process that dies in the dump leaves a file no start-up can
  load (`BootFails`).

The passing runs of `Banking` use requests whose two accounts differ, because
`self_transfer` shows that the others break `BalancesMatchEntries` and the
ledger. The other invariants are proved without that restriction.

## 4. Proofs

Every invariant and every action property a passing run checks is a theorem, and so
is the refinement. A run shows it on its instance; the theorem is for every set of
accounts, users, handlers, requests, replicas, partitions and threads, for every bound,
and for every initial table the assumptions allow.

| Module | Theorem | Property |
|---|---|---|
| `BankingProofs` | `TypeCorrect` | `TypeOK` |
| | `RowsStayCurrent` | `LockedRowsCurrent` |
| | `NoOverdraft` | `BalancesInRange` |
| | `Idempotence` | `AtMostOncePerKey` |
| | `FrozenStays` | `FrozenMoneyStill` |
| `LedgerProofs` | `CacheIsCommitted` | `CacheNamesCommitted` |
| | `OutsideHearsCommitted` | `OutsideSeesCommitted` |
| | `NumbersUnique` | `AccountNumbersUnique` |
| | `NoDeadlock` | `NoCircularWait` |
| | `Refinement` | `ImplementsLedger`, under `NoSelfPayment` |
| `EntriesProofs` | `BooksBalance` | `BalancesMatchEntries`, under `NoSelfPayment` |
| `RefreshTokensProofs` | `TokenTypes` | `TypeOK` |
| | `OneUser` | `OneUserPerEmail` |
| | `HandedOut` | `HandedOutIsStored` |
| | `Spending` | `SpentStaysSpent` |
| | `Continuation` | `SessionsContinue` |
| `RateLimiterProofs` | `LimiterTypes` | `TypeOK` |
| | `RefusedLeaveNothing` | `OnlyAdmittedStay` |
| | `LimitKept` | `AtMostLimit`, under `Punctual` |
| | `RefusalsHaveCause` | `RefusedForCause`, under `Punctual` |
| `GatewayProofs` | `ProxyTypes` | `TypeOK` |
| | `RefusalIsFinal` | `RefusedHasNoEffect` |
| | `NoBorrowedIdentity` | `IdentityFromToken` |
| `NotificationsProofs` | `GroupTypes` | `TypeOK` |
| | `NoEventPassedOver` | `CommittedIsNotified` |
| | `NotifiedInTopicOrder` | `NotifiedInOrder` |
| | `RollingUpdate` | `RestartsRepeatNothing` |
| `FraudModelProofs` | `ModelTypes` | `TypeOK` |
| | `FileIsOneTraining` | `FileMatches` |
| | `AnsweredSurvives` | `AnsweredIsSaved` |
| | `ModelUsable` | `UsableAtRest` |
| | `PredictionNamesScorer` | `VersionNamesScorer` |

The assumptions are the named ones of the modules. `None` is no account, user,
request, session, answer, row or record, and the same of `Torn` and archives; the
sessions of the two services differ; ids are ordered as integers, and there are finitely
many accounts, as a table has finitely many rows; a request has the type its schema
gives it and names an account; initial balances fit their column; the handlers of the
gateway and the training threads are finitely many, so that connections and models can
be counted. `NoSelfPayment` and `Punctual` are hypotheses of the theorems named above
and not of the others: the runs `self_transfer` and `same_ms` show that these theorems are
false without them. The instances of `cross`, `open` and `window` satisfy them.

### Rows and balances (`BankingProofs`)

The argument is one inductive invariant in three layers. `TypeInv` is `TypeOK` with
`RowsRead`: a handler that checks or posts has read all the rows it
involves. It is needed because the types of balances rest on the rows read.
`RowsInv` is `LockedRowsCurrent` with `FreshAccounts`: the row an account session
is about to insert exists for nobody else, so an INSERT disturbs no locked row.
`PostingInv` adds `Checked`: a handler past its checks has owner,
status and funds right on the rows it locked, and its key free of committed
rows and of other uncommitted ones. With the rows locked and current, what was
checked still holds when it is committed; that gives the range of balances,
one transaction per key, and no movement on a frozen account. Each
layer has a lemma for the steps of either service.

### Caches, numbers, waiting, and the ledger (`LedgerProofs`)

Each property has an invariant beside the three layers.

* `CommitsInv`: what a handler knows (`KnowsCommitted`) is committed once it is past its
  commit, and so is what it has announced. Rows of `transactions` are never deleted, so
  what is committed stays so (`CommittedStays`), and only the handler that moves has to
  be looked at (`KnowsFrame`).
* `NumbersInv`: an inserted, uncommitted number is neither a committed one nor that of
  another uncommitted row. An account that does not exist has none.
* `HoldersInv`: a posting handler holds just the locks of the rows it has read, and what
  it has still to read has greater ids; an account session holds a lock only
  in its last statement before the commit. Who waits for a key or a number waits for a
  session about to commit, and so does who waits for a lock of the account service; such a
  session waits for nobody. So in a set whose members all wait for members, those that are
  waited for wait for row locks themselves. Take the greatest id one of them waits for:
  whoever holds it waits for a greater one. That there is a greatest is where the accounts
  have to be finitely many; `LeastNatural` and `FiniteHasGreatest` say so for sets of integers.
* `StandingInv`: the owner a handler checked is still the owner when it commits, and an
  account session never writes CLOSED (`UpdatesUsable`; see section 3 on `close_account`).
  With it `CommitPosts` maps a `Commit` to `Post`, and `AccCommitShows` an `AccCommit` to an
  opening or a change of status; `OthersShowNothing` maps every other step to a stutter;
  `LedgerStep` puts them together. Both accounts of a posting are written with the locked
  balance and the amount, which is the ledger's posting only if they are two:
  hence `NoSelfPayment`.

### Entries (`EntriesProofs`)

`BalancesMatchEntries` speaks of a sum over a set of entries, for which the library
has a recursive function and no theorem. `Total` is that sum; `SumsExist` and `SumsAgree`
show that the function is the one it says it is, `TotalUnfolds` that a sum is some
element and the rest, and `TotalWithout` that it may be any element. They go by induction
on the number of elements, in the form of a smallest counterexample (`SmallestSet`). From
`TotalWith`, what a sum gains by one new element, a commit adds to either side of an
account what it adds to the balance. `EntriesInv` says what makes the element new:
entries belong to committed transactions, whose ids begin with their keys, and the key of
a handler that commits is not taken.

### Refresh tokens (`RefreshTokensProofs`)

`TokensInv` is `TypeInv` (with what a handler has at each of its places), `UserInv` and
`TokenInv`. `UserInv` adds to `OneUserPerEmail` that an uncommitted user is the only one of
its address. `TokenInv` says of every handler: the row it is deleting is stored and is that
of the token it was sent (`DeletingOf`); the row it matched is stored as it was
read, or its token was spent since (`RecordOf`), which is what a DELETE that finds nothing
amounts to; its new token is nobody else's, is not stored before its commit, and afterwards
until it is spent (`FreshOf`); and one that began after its token was spent matches
no row (`LateOf`). With `SpentInv`, a spent token is not stored, the three properties
follow. That two refreshes of one token may both succeed (`replay`) does not contradict
them: neither began late.

### Fraud model (`FraudModelProofs`)

`ModelInv` has four parts. `TypeInv` adds where a thread stands with the process
(`ProcessInv`), what it has at each of its places (`ThreadInv`), and that every
model that is anywhere was made, counted with the threads about to make one (`MadeInv`).
`FollowInv` is for as long as trainings follow each other: one thread is
under way at most, and it finds its own model, date and version at each place (`OwnInv`).
`FitInv` holds however they overlap: a model this process made is fitted, its fit raised,
or a thread is about to fit it. `PredictInv`: a prediction no training was under way with
sees one model throughout.

### Gateway, notifications, rate limiter

`GatewayProofs` proves `TypeOK` (`ProxyTypes`), `RefusedHasNoEffect`
(`RefusalIsFinal`) and `IdentityFromToken` (`NoBorrowedIdentity`), for any finite set of
handlers, any requests and any bounds. Their inductive invariant `ProxyInv` adds
`Validated`: past validation a request bears a token that names a user, which is what
`Send` relies on. That a job exists only while its handler waits for the answer, a part
of `TypeOK`, is why an answer given earlier leaves nothing behind. The set of handlers
is finite so that the connections in use can be counted.

`NotificationsProofs` proves `TypeOK` (`GroupTypes`), `CommittedIsNotified`
(`NoEventPassedOver`), `NotifiedInOrder` (`NotifiedInTopicOrder`) and
`RestartsRepeatNothing` (`RollingUpdate`), for any replicas,
partitions and events, and any number of failures and restarts. `GroupInv` adds
`ReadIsNotified`: all a replica has passed in a partition was notified, by it or by
another. With it a commit is right whoever makes it and whenever, and the next message
a replica takes is the next after all before it; that the broker refuses the commits of
a replica that was fenced is not needed. `Keeps` is what the steps have in common that
only keep, commit or give up positions. `CalmInv` is for the last theorem: as long as nothing
has failed, only members read (`MembersRead`), no partition has two readers, and what was
notified of one is what its reader has passed, or what is committed while it has
none (`OneReader`). A replica that shuts down commits before it gives its partitions up
(`CalmHandOver`), so the next one starts where it stopped.

`RateLimiterProofs` proves `TypeOK` (`LimiterTypes`) and `OnlyAdmittedStay`
(`RefusedLeaveNothing`) for any clock, and `AtMostLimit` (`LimitKept`) and
`RefusedForCause` (`RefusalsHaveCause`) under `Punctual`: no two requests of a client
read one millisecond, and no pipeline is late. Without it the limit does not hold, as
`same_ms` shows. `WindowInv` says that a time stamp belongs to one request
(`StampsDiffer`, which needs `StampsRead`: stamps in use are not after the last one
read) and that the set holds an entry of every request admitted in the last window
(`AdmittedStay`). Then the requests admitted in a window are no more than the entries
the pipeline counts, by an injection; and for a refusal, the entries counted are
no more than the requests that cause it, by another.

### What is only model-checked

The liveness properties `EveryRequestEnds`, `EveryRequestAnswered` and
`EveryEventNotified`. They need fairness, ENABLED and, the first two, an order in which
handlers come to their turn; the prover reasons about none of it. What they rest on for
their safety is proved: that nobody waits in a circle (`NoDeadlock`), that connections in use
are those of waiting handlers (`ProxyTypes`), that a commit never passes an event
over (`NoEventPassedOver`). The findings are counterexamples of TLC.

## 5. What is left out, and what is assumed

* Defects that stop a service before any handler runs are taken as repaired:
  the undefined name `aioredis` in `transaction-service/dependencies.py:134`,
  the recursive `create_async_engine`, index names used twice, the
  keyword arguments to a standard-library logger in
  `shared/kafka_client.py:52`, time-zone-aware values for columns without a
  time zone, a `Decimal` bound to a `String` column, and the fixed
  `localhost:9092` in `notification-service/main.py:23`.
* The transaction service queries `accounts` through its own database; the model
  assumes it is the database of the account service, as the code must.
* A collision of two random reference numbers is a case of `Fail`. The
  `conflict` answer of the model is a 500 to the client.
* Accounts that exist initially stand for any earlier history; their balances
  count as the opening balance of `BalancesMatchEntries`.
* Reads (`get_transaction`, histories, lists, `me`, `model_info`) change nothing and
  are not modelled, except `get_account`, whose result the writers use. Passwords and JWTs, the
  classifier and its features, logging, metrics, configuration and deployment are
  left out.
* `is_active` is never cleared by the code; `Suspend` stands for a person who does.
* A service that answers the gateway with a redirect has done nothing for the
  request. FastAPI redirects for a trailing slash before any handler runs.
* Redis answers the gateway or fails: its client has no socket timeout, and with a
  Redis that does neither, requests would wait for ever before the proxy.
* A message the consume loop cannot read (no object, an amount that is no number) ends
  the loop for good and is committed by `stop()`. The only producer sends none, and
  the model has none. `messages_processed` stops at 100.
* `consumer.py` of the notification service is never called, nor are the consumer
  wrapper and `send_batch` of `shared/kafka_client.py`.

## 6. Plan

1. Done: the money core; refresh tokens; the rate limiter; the fraud model; the gateway's
   proxy and the notification service; the proofs of every safety property and of the
   refinement of `Ledger`.
2. Left to prove: what `Ledger` promises by itself, so that the refinement carries it to
   the services. Liveness stays with TLC.
3. Nothing of the system that changes state is left to model, but for Kafka's start-up
   in `transaction-service/main.py:72-84`, of which the model has the outcome (`Start`).
