------------------------- MODULE TransactionService -------------------------
(* create_transfer, create_deposit and create_withdrawal of the transaction  *)
(* service, statement by statement, with the stores each statement touches.  *)
(* A session is one request handler of one replica, with the database        *)
(* session get_db gives it.  The three handlers are one: a deposit has no    *)
(* source account, a withdrawal no destination, and the checks on an absent  *)
(* account fall away.                                                        *)
EXTENDS AccountsTable

CONSTANT Requests   \* the money requests clients send, and send again

\* The type and size the schemas give a request: at least one account, gt=0.
RequestType == [user : Users, from : Accounts \cup {None}, to : Accounts \cup {None},
                amount : Nat \ {0}, key : STRING]

ASSUME RequestsAssumption ==
  /\ Requests \subseteq RequestType
  /\ \A r \in Requests : r.from # None \/ r.to # None
  /\ None \notin Requests

Keys == {r.key : r \in Requests}

\* A transaction id is a fresh UUID; the key and the session that inserts the
\* row tell the ids of committed rows apart, and no behaviour commits the same
\* pair twice (AtMostOncePerKey).
Ids == Keys \X TxSessions

ASSUME IdsAssumption == None \notin Ids

VARIABLES
  pc,               \* where the handler of the session is
  req,              \* the request it handles
  locked_accounts,  \* the rows its SELECT ... FOR UPDATE statements returned
  txId,             \* the transaction it looked up, or created
  answer,           \* its response
  transactions,     \* committed rows of `transactions`, all COMPLETED
  entries,          \* committed rows of `transaction_entries`
  redis,            \* idempotency:<key>
  events,           \* transactions announced on topic transaction.created
  audit             \* transactions logged in MongoDB

handlerVars == <<pc, req, locked_accounts, txId, answer>>
storeVars == <<transactions, entries, redis, events, audit>>
txVars == <<handlerVars, storeVars>>

\* The accounts the handler of request r locks.
Involved(r) == {r.from, r.to} \ {None}

NoRows == [a \in Accounts |-> None]

Unread(s) == {a \in Involved(req[s]) : locked_accounts[s][a] = None}

\* Session s has inserted its transaction and has not committed it.
Inserted(s) == pc[s] \in {"post", "commit"}

Committed(id) == \E t \in transactions : t.id = id

\* Mutant: only Redis knows which keys are used, the column is not unique.
KeyInRedis(k) == redis[k] # None

KeyTaken(k) == \E t \in transactions : t.key = k

TxInit ==
  /\ pc = [s \in TxSessions |-> "idle"]
  /\ req = [s \in TxSessions |-> None]
  /\ locked_accounts = [s \in TxSessions |-> NoRows]
  /\ txId = [s \in TxSessions |-> None]
  /\ answer = [s \in TxSessions |-> None]
  /\ transactions = {}
  /\ entries = {}
  /\ redis = [k \in Keys |-> None]
  /\ events = {}
  /\ audit = {}

-----------------------------------------------------------------------------
(* Ways a handler ends.                                                      *)

\* An exception leaves the handler: get_db rolls back, the locks are freed and
\* the client is answered.  After the commit there is nothing left to undo.
Abort(s, a) ==
  /\ pc' = [pc EXCEPT ![s] = "done"]
  /\ answer' = [answer EXCEPT ![s] = a]
  /\ locked_accounts' = [locked_accounts EXCEPT ![s] = NoRows]
  /\ lock' = Unlocked(s)
  /\ UNCHANGED <<owner, balance, status, req, txId, storeVars>>

GoTo(s, label) == pc' = [pc EXCEPT ![s] = label]

-----------------------------------------------------------------------------
(* The handler.                                                              *)

\* A client sends r, for the first time or again.  On a replica whose Kafka
\* start-up failed the dependency get_kafka_producer raises and the handler
\* does not run.
Start(s, r) ==
  /\ pc[s] = "idle"
  /\ req' = [req EXCEPT ![s] = r]
  /\ \/ GoTo(s, "check") /\ UNCHANGED answer
     \/ GoTo(s, "done") /\ answer' = [answer EXCEPT ![s] = "serverError"]
  /\ UNCHANGED <<tableVars, locked_accounts, txId, storeVars>>

CheckIdempotency(s) ==
  /\ pc[s] = "check"
  /\ txId' = [txId EXCEPT ![s] = redis[req[s].key]]
  /\ GoTo(s, IF redis[req[s].key] = None THEN "lock" ELSE "replay")
  /\ UNCHANGED <<tableVars, req, locked_accounts, answer, storeVars>>

\* The transaction Redis names is selected and returned as it is; when it is
\* not in the database the handler goes on as for a new one.
Replay(s) ==
  /\ pc[s] = "replay"
  /\ GoTo(s, IF Committed(txId[s]) THEN "load" ELSE "lock")
  /\ UNCHANGED <<tableVars, req, locked_accounts, txId, answer, storeVars>>

\* Mutant: the accounts are locked in the order of the request.
NextInRequestOrder(s) == IF req[s].from \in Unread(s) THEN req[s].from ELSE req[s].to

\* The account the next SELECT ... FOR UPDATE names: lowest id first.
NextAccount(s) == CHOOSE a \in Unread(s) : \A b \in Unread(s) : a <= b

\* The statement waits while another session holds the row, and returns the
\* row committed last.
LockAccount(s) ==
  /\ pc[s] = "lock"
  /\ LET a == NextAccount(s) IN
       /\ Exists(a)
       /\ Available(s, a)
       /\ lock' = [lock EXCEPT ![a] = s]
       /\ locked_accounts' = [locked_accounts EXCEPT ![s][a] = Row(a)]
       /\ GoTo(s, IF Unread(s) = {a} THEN "validate" ELSE "lock")
  /\ UNCHANGED <<owner, balance, status, req, txId, answer, storeVars>>

LockMissing(s) ==
  /\ pc[s] = "lock"
  /\ ~Exists(NextAccount(s))
  /\ Abort(s, "notFound")

\* The account whose owner must be the caller: the source, of a deposit the
\* destination.
Subject(r) == IF r.from # None THEN r.from ELSE r.to

Owned(s) == locked_accounts[s][Subject(req[s])].owner = req[s].user

Unfrozen(s) == \A a \in Involved(req[s]) : locked_accounts[s][a].status # "FROZEN"

\* Mutant: an amount that exceeds the balance by one passes.
FundedOffByOne(s) ==
  req[s].from # None => locked_accounts[s][req[s].from].balance + 1 >= req[s].amount

Funded(s) == req[s].from # None => locked_accounts[s][req[s].from].balance >= req[s].amount

Reject(s) ==
  /\ pc[s] = "validate"
  /\ \/ ~Owned(s) /\ Abort(s, "notFound")
     \/ Owned(s) /\ ~Unfrozen(s) /\ Abort(s, "accountFrozen")
     \/ Owned(s) /\ Unfrozen(s) /\ ~Funded(s) /\ Abort(s, "insufficientFunds")

\* The flush that inserts the PENDING row.  The unique index makes it wait for
\* another session's uncommitted row with the same key.
KeyFree(s) == \A t \in TxSessions \ {s} : Inserted(t) => req[t].key # req[s].key

\* Mutant: Redis is told of the transaction when it is inserted.
InsertAndCache(s) ==
  /\ pc[s] = "validate"
  /\ Owned(s) /\ Unfrozen(s) /\ Funded(s) /\ KeyFree(s) /\ ~KeyTaken(req[s].key)
  /\ txId' = [txId EXCEPT ![s] = <<req[s].key, s>>]
  /\ redis' = [redis EXCEPT ![req[s].key] = <<req[s].key, s>>]
  /\ GoTo(s, "post")
  /\ UNCHANGED <<tableVars, req, locked_accounts, answer, transactions, entries, events, audit>>

InsertTransaction(s) ==
  /\ pc[s] = "validate"
  /\ Owned(s) /\ Unfrozen(s) /\ Funded(s)
  /\ KeyFree(s)
  /\ ~KeyTaken(req[s].key)
  /\ txId' = [txId EXCEPT ![s] = <<req[s].key, s>>]
  /\ GoTo(s, "post")
  /\ UNCHANGED <<tableVars, req, locked_accounts, answer, storeVars>>

\* IntegrityError is no BankingException: the generic handler answers 500.
InsertConflict(s) ==
  /\ pc[s] = "validate"
  /\ Owned(s) /\ Unfrozen(s) /\ Funded(s)
  /\ KeyFree(s)
  /\ KeyTaken(req[s].key)
  /\ Abort(s, "conflict")

\* The UPDATEs write values computed from the rows as they were locked: the
\* source's first, the destination's last.
NewBalance(s, a) ==
  LET r == req[s] IN
  IF a = r.to THEN locked_accounts[s][a].balance + r.amount
  ELSE IF a = r.from THEN locked_accounts[s][a].balance - r.amount
  ELSE balance[a]

\* Mutant: the event leaves before the commit.
PublishAndPost(s) ==
  /\ pc[s] = "post"
  /\ events' = events \cup {txId[s]}
  /\ GoTo(s, "commit")
  /\ UNCHANGED <<tableVars, req, locked_accounts, txId, answer, transactions, entries, redis, audit>>

\* Entries added, balances updated, the row set to COMPLETED and flushed, all
\* inside the transaction; a balance too long for its column is refused.
Post(s) ==
  /\ pc[s] = "post"
  /\ IF \A a \in Involved(req[s]) : NewBalance(s, a) <= MaxBalance
       THEN /\ GoTo(s, "commit")
            /\ UNCHANGED <<tableVars, req, locked_accounts, txId, answer, storeVars>>
       ELSE Abort(s, "serverError")

EntriesOf(s) ==
  LET r == req[s]
      Entry(a, side) == [tx |-> txId[s], account |-> a, side |-> side, amount |-> r.amount]
  IN {Entry(a, "DEBIT") : a \in {r.from} \ {None}} \cup {Entry(a, "CREDIT") : a \in {r.to} \ {None}}

Commit(s) ==
  /\ pc[s] = "commit"
  /\ transactions' = transactions \cup
       {[id |-> txId[s], key |-> req[s].key, from |-> req[s].from, to |-> req[s].to,
         amount |-> req[s].amount]}
  /\ entries' = entries \cup EntriesOf(s)
  /\ balance' = [a \in Accounts |-> NewBalance(s, a)]
  /\ lock' = Unlocked(s)
  /\ locked_accounts' = [locked_accounts EXCEPT ![s] = NoRows]
  /\ GoTo(s, "refresh")
  /\ UNCHANGED <<owner, status, req, txId, answer, redis, events, audit>>

Refresh(s) ==
  /\ pc[s] = "refresh"
  /\ GoTo(s, "audit")
  /\ UNCHANGED <<tableVars, req, locked_accounts, txId, answer, storeVars>>

\* The audit log and the event may fail: the exception is swallowed.
WriteAudit(s) ==
  /\ pc[s] = "audit"
  /\ audit' \in {audit, audit \cup {txId[s]}}
  /\ GoTo(s, "publish")
  /\ UNCHANGED <<tableVars, req, locked_accounts, txId, answer, transactions, entries, redis, events>>

Publish(s) ==
  /\ pc[s] = "publish"
  /\ events' \in {events, events \cup {txId[s]}}
  /\ GoTo(s, "store")
  /\ UNCHANGED <<tableVars, req, locked_accounts, txId, answer, transactions, entries, redis, audit>>

StoreIdempotency(s) ==
  /\ pc[s] = "store"
  /\ redis' = [redis EXCEPT ![req[s].key] = txId[s]]
  /\ GoTo(s, "load")
  /\ UNCHANGED <<tableVars, req, locked_accounts, txId, answer, transactions, entries, events, audit>>

\* The route loads the entries and answers 201.
LoadEntries(s) ==
  /\ pc[s] = "load"
  /\ GoTo(s, "done")
  /\ answer' = [answer EXCEPT ![s] = "created"]
  /\ UNCHANGED <<tableVars, req, locked_accounts, txId, storeVars>>

\* The handler has ended as seen from the server.
Forget(s) ==
  /\ pc' = [pc EXCEPT ![s] = "idle"]
  /\ req' = [req EXCEPT ![s] = None]
  /\ locked_accounts' = [locked_accounts EXCEPT ![s] = NoRows]
  /\ txId' = [txId EXCEPT ![s] = None]
  /\ answer' = [answer EXCEPT ![s] = None]

Reply(s) ==
  /\ pc[s] = "done"
  /\ Forget(s)
  /\ UNCHANGED <<tableVars, storeVars>>

-----------------------------------------------------------------------------
(* Failures.                                                                 *)

\* PostgreSQL or Redis fails a call that nothing catches.  At "refresh" the
\* commit may have taken effect and its acknowledgement been lost.
Failing == {"check", "replay", "lock", "validate", "post", "commit", "refresh", "store", "load"}

Fail(s) == pc[s] \in Failing /\ Abort(s, "serverError")

\* The replica of the handler dies; the database drops its session.
Crash(s) ==
  /\ pc[s] # "idle"
  /\ Forget(s)
  /\ lock' = Unlocked(s)
  /\ UNCHANGED <<owner, balance, status, storeVars>>

\* Redis drops a key: its 24 hours are over, or Redis restarted empty.
Expire(k) ==
  /\ redis[k] # None
  /\ redis' = [redis EXCEPT ![k] = None]
  /\ UNCHANGED <<tableVars, handlerVars, transactions, entries, events, audit>>

\* The steps of the handler that wait for nobody.
Advance(s) ==
  \/ CheckIdempotency(s) \/ Replay(s) \/ LockMissing(s) \/ Reject(s) \/ Post(s)
  \/ Commit(s) \/ Refresh(s) \/ WriteAudit(s) \/ Publish(s) \/ StoreIdempotency(s)
  \/ LoadEntries(s) \/ Reply(s)

TxNext ==
  \/ \E s \in TxSessions :
       \/ \E r \in Requests : Start(s, r)
       \/ Advance(s)
       \/ LockAccount(s) \/ InsertTransaction(s) \/ InsertConflict(s)
       \/ Fail(s) \/ Crash(s)
  \/ \E k \in Keys : Expire(k)

Labels == {"idle", "check", "replay", "lock", "validate", "post", "commit", "refresh",
           "audit", "publish", "store", "load", "done"}

Answers == {"created", "notFound", "accountFrozen", "insufficientFunds", "conflict", "serverError"}

ASSUME AnswersAssumption == None \notin Answers

TxRowType == [id : Ids, key : Keys, from : Accounts \cup {None}, to : Accounts \cup {None},
              amount : Nat \ {0}]

EntryType == [tx : Ids, account : Accounts, side : {"DEBIT", "CREDIT"}, amount : Nat \ {0}]

TxTypeOK ==
  /\ pc \in [TxSessions -> Labels]
  /\ req \in [TxSessions -> Requests \cup {None}]
  /\ \A s \in TxSessions :
       /\ pc[s] # "idle" => req[s] # None
       /\ pc[s] \in {"replay", "post", "commit", "refresh", "audit", "publish", "store", "load"}
            => txId[s] # None
  /\ locked_accounts \in [TxSessions -> [Accounts -> RowType \cup {None}]]
  /\ txId \in [TxSessions -> Ids \cup {None}]
  /\ answer \in [TxSessions -> Answers \cup {None}]
  /\ transactions \subseteq TxRowType
  /\ entries \subseteq EntryType
  /\ redis \in [Keys -> Ids \cup {None}]
  /\ events \subseteq Ids
  /\ audit \subseteq Ids
=============================================================================
