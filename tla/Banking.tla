------------------------------ MODULE Banking ------------------------------
(* The transaction service and the account service at work on one table of   *)
(* accounts, and what must hold of them together.                            *)
EXTENDS TransactionService, AccountService, FiniteSetsExt

vars == <<tableVars, txVars, accVars>>

Init == TableInit /\ TxInit /\ AccInit

Next ==
  \/ TxNext /\ UNCHANGED accVars
  \/ AccNext /\ UNCHANGED txVars

Spec == Init /\ [][Next]_vars

\* The steps a handler takes of its own accord, neither failures nor crashes.
TxStep(s) ==
  /\ Advance(s) \/ LockAccount(s) \/ InsertTransaction(s) \/ InsertConflict(s)
  /\ UNCHANGED accVars

\* Fairness: the event loop runs every handler, and PostgreSQL grants row locks
\* and unique-index waits in the order of their queue, so a session that could
\* be served again and again is served.
Fairness ==
  /\ \A s \in TxSessions : SF_vars(TxStep(s))
  /\ \A w \in AccSessions : SF_vars(AccStep(w) /\ UNCHANGED txVars)

FairSpec == Spec /\ Fairness

-----------------------------------------------------------------------------
(* Type invariant.                                                           *)

\* Every variable has its type, and a handler at work has its request.
TypeOK == TableTypeOK /\ TxTypeOK /\ AccTypeOK

-----------------------------------------------------------------------------
(* Safety.                                                                   *)

\* Between a handler's SELECT ... FOR UPDATE and its commit the rows it read
\* are locked by it and unchanged, so the checks it made on them still hold
\* when its absolute UPDATEs are written.
LockedRowsCurrent ==
  \A s \in TxSessions : \A a \in Accounts :
    locked_accounts[s][a] # None => lock[a] = s /\ locked_accounts[s][a] = Row(a)

\* Whatever transfers, withdrawals and deposits interleave, no balance is
\* negative and none is longer than its column.
BalancesInRange == \A a \in Accounts : balance[a] \in 0 .. MaxBalance

EntrySum(a, side) ==
  MapThenSumSet(LAMBDA e : e.amount, {e \in entries : e.account = a /\ e.side = side})

\* A balance is what the account began with, plus its CREDIT entries, minus its
\* DEBIT entries: no update of a balance is lost, repeated or made up.
BalancesMatchEntries ==
  \A a \in Accounts :
    balance[a] = InitialBalance[a] + EntrySum(a, "CREDIT") - EntrySum(a, "DEBIT")

\* However often a client repeats a request, on however many replicas, and
\* whatever Redis forgets, one transaction is committed for its key.
AtMostOncePerKey == \A t, u \in transactions : t.key = u.key => t = u

\* An idempotency key in Redis leads to a committed transaction with that key:
\* a repeat is never answered with work that was rolled back.
CacheNamesCommitted ==
  \A k \in Keys : redis[k] # None => \E t \in transactions : t.id = redis[k] /\ t.key = k

\* Nobody outside hears of a transaction the database does not hold: not the
\* consumers of the event, not the audit log, not the client told 201.
OutsideSeesCommitted ==
  /\ \A id \in events \cup audit : Committed(id)
  /\ \A s \in TxSessions : answer[s] = "created" =>
       \E t \in transactions : t.id = txId[s] /\ t.key = req[s].key

\* Session s waits for session t: for a row lock, or for the outcome of an
\* insert with the same unique value.
WaitsFor(s, t) ==
  \/ /\ s \in TxSessions /\ pc[s] = "lock"
     /\ lock[NextAccount(s)] = t /\ t # s
  \/ /\ s \in TxSessions /\ pc[s] = "validate"
     /\ t \in TxSessions \ {s} /\ Inserted(t) /\ req[t].key = req[s].key
  \/ /\ s \in AccSessions /\ accPc[s] = "apply"
     /\ lock[accObj[s].id] = t /\ t # s
  \/ /\ s \in AccSessions /\ accPc[s] = "insert"
     /\ t \in AccSessions \ {s} /\ AccInserted(t) /\ accObj[t].number = accObj[s].number

\* Sessions never wait in a circle: locking the lower account id first, and the
\* key only after the accounts, leaves somebody who can go on.
NoCircularWait ==
  \A S \in (SUBSET Sessions) \ {{}} : \E s \in S : \A t \in S : ~WaitsFor(s, t)

\* Two accounts never share a number, although create_account looks for a free
\* number and inserts the account in two steps.
AccountNumbersUnique ==
  \A a, b \in Accounts : Exists(a) /\ Exists(b) /\ number[a] = number[b] => a = b

-----------------------------------------------------------------------------
(* Action and liveness properties.                                           *)

\* The money of a frozen account does not move, also when the account is frozen
\* while a handler is between its check and its commit.
FrozenMoneyStill ==
  [][\A a \in Accounts : balance'[a] # balance[a] => status[a] # "FROZEN"]_vars

\* A money request that reached a handler comes to its end: it is answered, or
\* its replica dies.  No wait for a lock or a key is for ever.
EveryRequestEnds == \A s \in TxSessions : pc[s] # "idle" ~> pc[s] = "idle"

\* What the two services do together is what the ledger allows.
LedgerView == INSTANCE Ledger WITH
  posted <- {[key |-> t.key, from |-> t.from, to |-> t.to, amount |-> t.amount] : t \in transactions}

ImplementsLedger == LedgerView!LedgerSpec

-----------------------------------------------------------------------------
(* What a comment of the code says, and the code does not do.                 *)

\* create_transfer: a repeat of a request already done returns the existing
\* transaction.  It is never refused because the key is taken, nor for what the
\* first attempt did to the account.
RepeatReturnsExisting ==
  \A s \in TxSessions : answer[s] # None /\ KeyTaken(req[s].key) => answer[s] \in {"created", "serverError"}
=============================================================================
