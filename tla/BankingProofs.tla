--------------------------- MODULE BankingProofs ---------------------------
(* Proofs about Banking for every set of accounts, users, sessions and       *)
(* requests.                                                                 *)
EXTENDS Banking, TLAPS

-----------------------------------------------------------------------------
(* Type correctness.  The type of a balance rests on the rows a handler has  *)
(* read when it writes, so both are shown together.                          *)

\* A handler has read nothing before it locks, and everything once it checks.
RowsRead ==
  \A s \in TxSessions :
    /\ pc[s] \in {"idle", "check", "replay"} => locked_accounts[s] = NoRows
    /\ pc[s] = "lock" => Unread(s) # {}
    /\ pc[s] \in {"validate", "post", "commit"} => Unread(s) = {}

\* Releasing the locks of a session leaves a lock table.
LEMMA UnlockedType ==
  ASSUME lock \in [Accounts -> Sessions \cup {None}], NEW s
  PROVE  Unlocked(s) \in [Accounts -> Sessions \cup {None}]
  BY DEF Unlocked

LEMMA NoRowsType == NoRows \in [Accounts -> RowType \cup {None}]
  BY DEF NoRows

\* A committed row of an account that exists is what a SELECT returns.
LEMMA RowOfExisting ==
  ASSUME TableTypeOK, NEW a \in Accounts, Exists(a)
  PROVE  Row(a) \in RowType
  BY DEF TableTypeOK, Exists, Row, RowType

\* The parts of a request have the types the schemas give them.
LEMMA RequestParts ==
  ASSUME NEW r \in Requests
  PROVE  /\ r # None
         /\ r.key \in Keys
         /\ r.user \in Users
         /\ r.from \in Accounts \cup {None}
         /\ r.to \in Accounts \cup {None}
         /\ r.from # None \/ r.to # None
         /\ r.amount \in Nat \ {0}
         /\ Involved(r) \subseteq Accounts
  BY RequestsAssumption DEF RequestType, Keys, Involved

\* The account a handler locks next is one it has not read yet.
LEMMA NextAccountUnread ==
  ASSUME NEW s \in TxSessions, req[s] \in Requests, Unread(s) # {}
  PROVE  /\ NextAccount(s) \in Unread(s)
         /\ NextAccount(s) \in Accounts
         /\ \A b \in Unread(s) : NextAccount(s) <= b
  <1>1. Unread(s) \subseteq {req[s].from, req[s].to} /\ Unread(s) \subseteq Accounts
    BY RequestParts DEF Unread, Involved
  <1>2. Unread(s) \subseteq Int
    BY <1>1, AccountsAssumption
  <1>3. \E a \in Unread(s) : \A b \in Unread(s) : a <= b
    BY <1>1, <1>2
  <1>. QED BY <1>1, <1>3 DEF NextAccount

\* What get_db's rollback and the answer after it do to the types.
LEMMA AbortType ==
  ASSUME TableTypeOK, TxTypeOK, NEW s \in TxSessions, NEW a \in Answers,
         pc[s] # "idle", Abort(s, a)
  PROVE  TableTypeOK' /\ TxTypeOK'
  <1>1. TableTypeOK'
    BY UnlockedType DEF TableTypeOK, Abort
  <1>2. TxTypeOK'
    BY NoRowsType DEF TxTypeOK, Abort, GoTo, Labels, storeVars
  <1>. QED BY <1>1, <1>2

\* One step per action of the transaction service.
LEMMA TxStepType ==
  ASSUME TableTypeOK, TxTypeOK, RowsRead, TxNext
  PROVE  TableTypeOK' /\ TxTypeOK'
  <1>. USE DEF TableTypeOK, TxTypeOK, tableVars, storeVars, GoTo, Labels, Answers
  <1>1. ASSUME NEW s \in TxSessions, NEW r \in Requests, Start(s, r)
        PROVE  TableTypeOK' /\ TxTypeOK'
    BY <1>1, RequestParts DEF Start
  <1>2. ASSUME NEW s \in TxSessions, CheckIdempotency(s)
        PROVE  TableTypeOK' /\ TxTypeOK'
    <2>1. redis[req[s].key] \in Ids \cup {None}
      BY <1>2, RequestParts DEF CheckIdempotency
    <2>. QED BY <1>2, <2>1 DEF CheckIdempotency
  <1>3. ASSUME NEW s \in TxSessions, Replay(s)
        PROVE  TableTypeOK' /\ TxTypeOK'
    BY <1>3 DEF Replay
  <1>4. ASSUME NEW s \in TxSessions, LockAccount(s)
        PROVE  TableTypeOK' /\ TxTypeOK'
    <2>. DEFINE a == NextAccount(s)
    <2>1. lock' \in [Accounts -> Sessions \cup {None}]
      BY <1>4 DEF LockAccount, Sessions
    <2>2. locked_accounts' \in [TxSessions -> [Accounts -> RowType \cup {None}]]
      <3>1. CASE a \in Accounts
        <4>1. Row(a) \in RowType
          BY <1>4, <3>1, RowOfExisting DEF LockAccount
        <4>. QED BY <1>4, <3>1, <4>1 DEF LockAccount
      <3>2. CASE a \notin Accounts
        BY <1>4, <3>2 DEF LockAccount
      <3>. QED BY <3>1, <3>2
    <2>. QED BY <1>4, <2>1, <2>2 DEF LockAccount
  <1>5. ASSUME NEW s \in TxSessions, LockMissing(s)
        PROVE  TableTypeOK' /\ TxTypeOK'
    BY <1>5, AbortType DEF LockMissing
  <1>6. ASSUME NEW s \in TxSessions, Reject(s)
        PROVE  TableTypeOK' /\ TxTypeOK'
    BY <1>6, AbortType DEF Reject
  <1>7. ASSUME NEW s \in TxSessions, InsertTransaction(s)
        PROVE  TableTypeOK' /\ TxTypeOK'
    <2>1. <<req[s].key, s>> \in Ids
      BY <1>7, RequestParts DEF InsertTransaction, Ids
    <2>. QED BY <1>7, <2>1, IdsAssumption DEF InsertTransaction
  <1>8. ASSUME NEW s \in TxSessions, InsertConflict(s)
        PROVE  TableTypeOK' /\ TxTypeOK'
    BY <1>8, AbortType DEF InsertConflict
  <1>9. ASSUME NEW s \in TxSessions, Post(s)
        PROVE  TableTypeOK' /\ TxTypeOK'
    <2>1. CASE Abort(s, "serverError")
      BY <1>9, <2>1, AbortType DEF Post
    <2>2. CASE ~Abort(s, "serverError")
      BY <1>9, <2>2 DEF Post
    <2>. QED BY <2>1, <2>2
  <1>10. ASSUME NEW s \in TxSessions, Commit(s)
         PROVE  TableTypeOK' /\ TxTypeOK'
    <2>. DEFINE r == req[s]
    <2>0. r \in Requests /\ txId[s] \in Ids
      BY <1>10 DEF Commit
    <2>1. EntriesOf(s) \subseteq EntryType
      BY <2>0, RequestParts DEF EntriesOf, EntryType
    <2>2. transactions' \subseteq TxRowType
      BY <1>10, <2>0, RequestParts DEF Commit, TxRowType
    <2>3. \A a \in Accounts : NewBalance(s, a) \in Int
      <3>1. \A a \in Involved(r) : locked_accounts[s][a] \in RowType
        BY <1>10, <2>0, RequestParts DEF Commit, RowsRead, Unread
      <3>2. \A a \in Involved(r) : locked_accounts[s][a].balance \in Int
        BY <3>1 DEF RowType
      <3>3. \A a \in Accounts : a \in {r.from, r.to} => a \in Involved(r)
        BY AccountsAssumption DEF Involved
      <3>4. r.amount \in Int
        BY <2>0, RequestParts
      <3>. TAKE a \in Accounts
      <3>5. CASE a \in {r.from, r.to}
        BY <3>2, <3>3, <3>4, <3>5 DEF NewBalance
      <3>6. CASE a \notin {r.from, r.to}
        BY <3>6 DEF NewBalance
      <3>. QED BY <3>5, <3>6
    <2>4. balance' \in [Accounts -> Int]
      BY <1>10, <2>3 DEF Commit
    <2>5. lock' \in [Accounts -> Sessions \cup {None}]
      BY <1>10, UnlockedType DEF Commit
    <2>. QED BY <1>10, <2>1, <2>2, <2>4, <2>5, NoRowsType DEF Commit
  <1>11. ASSUME NEW s \in TxSessions, Refresh(s)
         PROVE  TableTypeOK' /\ TxTypeOK'
    BY <1>11 DEF Refresh
  <1>12. ASSUME NEW s \in TxSessions, WriteAudit(s)
         PROVE  TableTypeOK' /\ TxTypeOK'
    BY <1>12 DEF WriteAudit
  <1>13. ASSUME NEW s \in TxSessions, Publish(s)
         PROVE  TableTypeOK' /\ TxTypeOK'
    BY <1>13 DEF Publish
  <1>14. ASSUME NEW s \in TxSessions, StoreIdempotency(s)
         PROVE  TableTypeOK' /\ TxTypeOK'
    BY <1>14, RequestParts DEF StoreIdempotency
  <1>15. ASSUME NEW s \in TxSessions, LoadEntries(s)
         PROVE  TableTypeOK' /\ TxTypeOK'
    BY <1>15 DEF LoadEntries
  <1>16. ASSUME NEW s \in TxSessions, Reply(s)
         PROVE  TableTypeOK' /\ TxTypeOK'
    BY <1>16, NoRowsType DEF Reply, Forget
  <1>17. ASSUME NEW s \in TxSessions, Fail(s)
         PROVE  TableTypeOK' /\ TxTypeOK'
    BY <1>17, AbortType DEF Fail, Failing
  <1>18. ASSUME NEW s \in TxSessions, Crash(s)
         PROVE  TableTypeOK' /\ TxTypeOK'
    BY <1>18, NoRowsType, UnlockedType DEF Crash, Forget
  <1>19. ASSUME NEW k \in Keys, Expire(k)
         PROVE  TableTypeOK' /\ TxTypeOK'
    BY <1>19 DEF Expire, handlerVars
  <1>. QED
    BY <1>1, <1>2, <1>3, <1>4, <1>5, <1>6, <1>7, <1>8, <1>9, <1>10, <1>11, <1>12, <1>13,
       <1>14, <1>15, <1>16, <1>17, <1>18, <1>19 DEF TxNext, Advance

\* What only session s changes leaves what the others have read.
LEMMA UnreadFrame ==
  ASSUME NEW s \in TxSessions, NEW t \in TxSessions,
         req'[t] = req[t], locked_accounts'[t] = locked_accounts[t]
  PROVE  Unread(t)' = Unread(t)
  BY DEF Unread, Involved

LEMMA UnreadAtFirst ==
  ASSUME NEW r \in Requests
  PROVE  {a \in Involved(r) : NoRows[a] = None} # {}
  BY RequestParts DEF Involved, NoRows

LEMMA TxStepRowsRead ==
  ASSUME TableTypeOK, TxTypeOK, RowsRead, TxNext
  PROVE  RowsRead'
  <1>. USE DEF TxTypeOK, GoTo
  <1>. DEFINE RowsReadBy(s) ==
         /\ pc[s] \in {"idle", "check", "replay"} => locked_accounts[s] = NoRows
         /\ pc[s] = "lock" => Unread(s) # {}
         /\ pc[s] \in {"validate", "post", "commit"} => Unread(s) = {}
  <1>1. ASSUME NEW s \in TxSessions, RowsReadBy(s)',
               \A t \in TxSessions \ {s} :
                 pc'[t] = pc[t] /\ req'[t] = req[t] /\ locked_accounts'[t] = locked_accounts[t]
        PROVE  RowsRead'
    BY <1>1, UnreadFrame DEF RowsRead
  <1>2. ASSUME NEW s \in TxSessions, NEW a, Abort(s, a)
        PROVE  RowsRead'
    BY <1>1, <1>2 DEF Abort
  <1>3. ASSUME NEW s \in TxSessions, NEW r \in Requests, Start(s, r)
        PROVE  RowsRead'
    BY <1>1, <1>3 DEF Start, RowsRead
  <1>4. ASSUME NEW s \in TxSessions, CheckIdempotency(s) \/ Replay(s)
        PROVE  RowsRead'
    <2>1. Unread(s)' # {}
      BY <1>4, UnreadAtFirst DEF CheckIdempotency, Replay, RowsRead, Unread
    <2>. QED BY <1>1, <1>4, <2>1 DEF CheckIdempotency, Replay, RowsRead
  <1>5. ASSUME NEW s \in TxSessions, LockAccount(s)
        PROVE  RowsRead'
    <2>. DEFINE a == NextAccount(s)
    <2>1. a \in Unread(s) /\ a \in Accounts
      BY <1>5, NextAccountUnread DEF LockAccount, RowsRead
    <2>2. Row(a) # None
      BY <1>5, <2>1, RowOfExisting, UsersAssumption DEF LockAccount
    <2>3. Unread(s)' = Unread(s) \ {a}
      BY <1>5, <2>1, <2>2 DEF LockAccount, Unread, Involved
    <2>. QED BY <1>1, <1>5, <2>1, <2>3 DEF LockAccount
  <1>6. ASSUME NEW s \in TxSessions, InsertTransaction(s)
        PROVE  RowsRead'
    BY <1>1, <1>6, UnreadFrame DEF InsertTransaction, RowsRead
  <1>7. ASSUME NEW s \in TxSessions, Post(s)
        PROVE  RowsRead'
    BY <1>1, <1>2, <1>7, UnreadFrame DEF Post, RowsRead
  <1>8. ASSUME NEW s \in TxSessions, Commit(s)
        PROVE  RowsRead'
    BY <1>1, <1>8 DEF Commit
  <1>9. ASSUME NEW s \in TxSessions,
               \/ Refresh(s) \/ WriteAudit(s) \/ Publish(s) \/ StoreIdempotency(s)
               \/ LoadEntries(s)
        PROVE  RowsRead'
    BY <1>1, <1>9 DEF Refresh, WriteAudit, Publish, StoreIdempotency, LoadEntries
  <1>10. ASSUME NEW s \in TxSessions, Reply(s) \/ Crash(s)
         PROVE  RowsRead'
    BY <1>1, <1>10 DEF Reply, Crash, Forget
  <1>11. ASSUME NEW k \in Keys, Expire(k)
         PROVE  RowsRead'
    BY <1>11 DEF Expire, handlerVars, RowsRead, Unread
  <1>. QED
    BY <1>2, <1>3, <1>4, <1>5, <1>6, <1>7, <1>8, <1>9, <1>10, <1>11
    DEF TxNext, Advance, LockMissing, Reject, InsertConflict, Fail

\* The transaction service opens no account.
LEMMA TxKeepsOwner == TxNext => UNCHANGED owner
  BY DEF TxNext, Advance, Start, CheckIdempotency, Replay, LockAccount, LockMissing, Reject,
         InsertTransaction, InsertConflict, Post, Commit, Refresh, WriteAudit, Publish,
         StoreIdempotency, LoadEntries, Reply, Fail, Crash, Expire, Abort, tableVars

\* The account service writes the table and its own variables.
LEMMA AccStepType ==
  ASSUME TableTypeOK, AccTypeOK, AccNext
  PROVE  TableTypeOK' /\ AccTypeOK'
  <1>. USE DEF AccTypeOK, TableTypeOK, AccGoTo, Exists
  <1>0. ASSUME NEW r \in AccRequests
        PROVE  /\ r # None /\ r.op \in Ops /\ r.user \in Users
               /\ r.account \in Accounts \cup {None}
               /\ r.op # "create" => r.account \in Accounts
               /\ r.status \in Statuses \cup {"unset"}
    BY <1>0, AccRequestsAssumption DEF AccRequestType
  <1>1. ASSUME NEW w \in AccSessions, NEW r \in AccRequests, AccStart(w, r)
        PROVE  TableTypeOK' /\ AccTypeOK'
    BY <1>0, <1>1 DEF AccStart, tableVars
  <1>2. ASSUME NEW w \in AccSessions, PickNumber(w)
        PROVE  TableTypeOK' /\ AccTypeOK'
    <2>1. ASSUME AccEnd(w, "validationError"), UNCHANGED accObj
          PROVE  TableTypeOK' /\ AccTypeOK'
      BY <1>2, <2>1, UnlockedType DEF PickNumber, AccEnd
    <2>2. ASSUME NEW n \in Numbers, NEW a \in Accounts,
                 accObj' = [accObj EXCEPT ![w] =
                   [id |-> a, number |-> n, balance |-> 0, status |-> "ACTIVE"]],
                 AccGoTo(w, "insert"), UNCHANGED <<accAnswer, lock>>
          PROVE  TableTypeOK' /\ AccTypeOK'
      <3>1. [id |-> a, number |-> n, balance |-> 0, status |-> "ACTIVE"] \in AccObjType
        BY DEF AccObjType, Statuses
      <3>. QED BY <1>2, <2>2, <3>1, AccObjAssumption DEF PickNumber
    <2>. QED BY <1>2, <2>1, <2>2 DEF PickNumber
  <1>3. ASSUME NEW w \in AccSessions, InsertAccount(w)
        PROVE  TableTypeOK' /\ AccTypeOK'
    BY <1>3, UnlockedType DEF InsertAccount, AccEnd
  <1>4. ASSUME NEW w \in AccSessions, GetAccount(w)
        PROVE  TableTypeOK' /\ AccTypeOK'
    <2>. DEFINE a == accReq[w].account
                obj == [id |-> a, number |-> number[a], balance |-> balance[a], status |-> status[a]]
    <2>1. CASE Exists(a) /\ owner[a] = accReq[w].user
      <3>1. accReq[w] \in AccRequests
        BY <1>4 DEF GetAccount
      <3>2. a \in Accounts
        BY <1>0, <1>4, <3>1 DEF GetAccount
      <3>3. obj \in AccObjType
        BY <2>1, <3>2 DEF AccObjType
      <3>. QED BY <1>4, <2>1, <3>3, AccObjAssumption DEF GetAccount
    <2>2. CASE ~(Exists(a) /\ owner[a] = accReq[w].user)
      BY <1>4, <2>2, UnlockedType DEF GetAccount, AccEnd
    <2>. QED BY <2>1, <2>2
  <1>5. ASSUME NEW w \in AccSessions, Apply(w)
        PROVE  TableTypeOK' /\ AccTypeOK'
    <2>1. CASE CloseRefused(w)
      BY <1>5, <2>1, UnlockedType DEF Apply, AccEnd
    <2>2. CASE ~CloseRefused(w)
      <3>1. lock' \in [Accounts -> Sessions \cup {None}]
        BY <1>5, <2>2 DEF Apply, Sessions
      <3>. QED BY <1>5, <2>2, <3>1 DEF Apply
    <2>. QED BY <2>1, <2>2
  <1>6. ASSUME NEW w \in AccSessions, AccCommit(w)
        PROVE  TableTypeOK' /\ AccTypeOK'
    <2>1. accReq[w] \in AccRequests /\ accObj[w] \in AccObjType
      BY <1>6 DEF AccCommit
    <2>2. accReq[w].user \in Users /\ accReq[w].op \in Ops
          /\ accReq[w].status \in Statuses \cup {"unset"}
      BY <1>0, <2>1
    <2>3. Wanted(w) \in Statuses
      BY <2>1, <2>2 DEF Wanted, AccObjType, Statuses
    <2>4. CASE accReq[w].op = "create"
      BY <1>6, <2>1, <2>2, <2>4, UnlockedType, AccRequestsAssumption DEF AccCommit, AccEnd, AccObjType
    <2>5. CASE accReq[w].op # "create"
      BY <1>6, <2>3, <2>5, UnlockedType DEF AccCommit, AccEnd
    <2>. QED BY <2>4, <2>5
  <1>7. ASSUME NEW w \in AccSessions, AccReply(w) \/ AccCrash(w)
        PROVE  TableTypeOK' /\ AccTypeOK'
    BY <1>7, UnlockedType DEF AccReply, AccCrash, AccForget
  <1>8. ASSUME NEW w \in AccSessions, AccFail(w)
        PROVE  TableTypeOK' /\ AccTypeOK'
    BY <1>8, UnlockedType DEF AccFail, AccEnd
  <1>. QED BY <1>1, <1>2, <1>3, <1>4, <1>5, <1>6, <1>7, <1>8 DEF AccNext, AccStep

TypeInv == TypeOK /\ RowsRead

LEMMA TypeInit == Init => TypeInv
  <1>. SUFFICES ASSUME Init PROVE TypeInv
    OBVIOUS
  <1>1. TableTypeOK
    BY InitialAssumption DEF Init, TableInit, TableTypeOK, Statuses
  <1>2. TxTypeOK /\ RowsRead
    BY NoRowsType DEF Init, TxInit, TxTypeOK, RowsRead, Labels
  <1>3. AccTypeOK
    BY DEF Init, AccInit, AccTypeOK
  <1>. QED BY <1>1, <1>2, <1>3 DEF TypeInv, TypeOK

LEMMA TypeStep == TypeInv /\ [Next]_vars => TypeInv'
  <1>. SUFFICES ASSUME TypeInv, [Next]_vars PROVE TypeInv'
    OBVIOUS
  <1>. USE DEF TypeInv, TypeOK
  <1>1. CASE TxNext /\ UNCHANGED accVars
    BY <1>1, TxStepType, TxStepRowsRead, TxKeepsOwner DEF AccTypeOK, accVars, Exists
  <1>2. CASE AccNext /\ UNCHANGED txVars
    BY <1>2, AccStepType
    DEF TxTypeOK, RowsRead, Unread, txVars, handlerVars, storeVars
  <1>3. CASE UNCHANGED vars
    BY <1>3 DEF vars, tableVars, txVars, handlerVars, storeVars, accVars,
                TableTypeOK, TxTypeOK, AccTypeOK, RowsRead, Unread, Exists
  <1>. QED BY <1>1, <1>2, <1>3 DEF Next

\* Every variable keeps its type, and a handler has read exactly the rows the
\* statement it is at presupposes.
THEOREM TypeCorrect == Spec => []TypeOK
  <1>1. TypeInv => TypeOK
    BY DEF TypeInv
  <1>. QED BY <1>1, TypeInit, TypeStep, PTL DEF Spec

-----------------------------------------------------------------------------
(* The rows a handler has read stay what they are until it ends.             *)

Creating(w) == accPc[w] \in {"insert", "commit"} /\ accReq[w].op = "create"

\* An account that is being created holds nothing and is nobody else's.
FreshAccounts ==
  /\ \A a \in Accounts : ~Exists(a) => balance[a] = 0
  /\ \A w \in AccSessions : Creating(w) => ~Exists(accObj[w].id) /\ accObj[w].balance = 0
  /\ \A v, w \in AccSessions :
       Creating(v) /\ Creating(w) /\ accObj[v].id = accObj[w].id => v = w

RowsInv == LockedRowsCurrent /\ FreshAccounts

\* Once its checks begin, a handler holds every row it will write.
LEMMA HeldRows ==
  ASSUME TypeInv, LockedRowsCurrent, NEW s \in TxSessions,
         pc[s] \in {"validate", "post", "commit"}
  PROVE  \A a \in Involved(req[s]) :
           /\ a \in Accounts
           /\ lock[a] = s
           /\ locked_accounts[s][a] = Row(a)
           /\ Exists(a)
  <1>. USE DEF TypeInv, TypeOK, TxTypeOK
  <1>1. req[s] \in Requests
    OBVIOUS
  <1>2. TAKE a \in Involved(req[s])
  <1>3. a \in Accounts /\ locked_accounts[s][a] # None
    BY <1>1, RequestParts DEF RowsRead, Unread
  <1>4. lock[a] = s /\ locked_accounts[s][a] = Row(a)
    BY <1>3 DEF LockedRowsCurrent
  <1>5. Row(a) \in RowType
    BY <1>3, <1>4
  <1>6. Exists(a)
    BY <1>5, UsersAssumption DEF Row, RowType, Exists
  <1>. QED BY <1>3, <1>4, <1>6

\* What a commit leaves in a row: the old balance, less what is withdrawn or
\* plus what is paid in, computed from the row as it is.
LEMMA CommittedBalance ==
  ASSUME TypeInv, LockedRowsCurrent, NEW s \in TxSessions,
         pc[s] \in {"validate", "post", "commit"}, NEW a \in Accounts
  PROVE  NewBalance(s, a) =
           IF a = req[s].to THEN balance[a] + req[s].amount
           ELSE IF a = req[s].from THEN balance[a] - req[s].amount
           ELSE balance[a]
  <1>1. a \in {req[s].from, req[s].to} => locked_accounts[s][a] = Row(a)
    BY HeldRows, AccountsAssumption DEF Involved
  <1>2. Row(a).balance = balance[a]
    BY DEF Row
  <1>. QED BY <1>1, <1>2 DEF NewBalance

LEMMA TxStepRowsInv ==
  ASSUME TypeInv, RowsInv, TxNext, UNCHANGED accVars
  PROVE  RowsInv'
  <1>. USE DEF TypeInv, TypeOK, TxTypeOK, TableTypeOK, RowsInv
  \* Most steps leave the table and what is read of it alone.
  <1>1. ASSUME UNCHANGED <<tableVars, locked_accounts>>
        PROVE  RowsInv'
    BY <1>1 DEF LockedRowsCurrent, FreshAccounts, Creating, tableVars, accVars, Row, Exists
  \* A step that ends a transaction drops its locks and what it read.
  <1>2. ASSUME NEW s \in TxSessions,
               UNCHANGED <<owner, balance, status>>,
               lock' \in {lock, Unlocked(s)},
               locked_accounts' = [locked_accounts EXCEPT ![s] = NoRows]
        PROVE  RowsInv'
    <2>1. LockedRowsCurrent'
      BY <1>2 DEF LockedRowsCurrent, Unlocked, NoRows, Row
    <2>2. FreshAccounts'
      BY <1>2 DEF FreshAccounts, Creating, Exists, accVars
    <2>. QED BY <2>1, <2>2
  <1>3. ASSUME NEW s \in TxSessions, NEW x, Abort(s, x)
        PROVE  RowsInv'
    BY <1>2, <1>3 DEF Abort
  <1>4. ASSUME NEW s \in TxSessions, LockAccount(s)
        PROVE  RowsInv'
    <2>. DEFINE a == NextAccount(s)
    <2>1. a \in Accounts
      BY <1>4, NextAccountUnread DEF LockAccount, RowsRead
    <2>2. LockedRowsCurrent'
      <3>1. SUFFICES ASSUME NEW t \in TxSessions, NEW b \in Accounts,
                            locked_accounts'[t][b] # None
                     PROVE  lock'[b] = t /\ locked_accounts'[t][b] = Row(b)
        BY <1>4 DEF LockedRowsCurrent, LockAccount, Row
      <3>2. CASE t = s /\ b = a
        BY <1>4, <2>1, <3>2 DEF LockAccount
      <3>3. CASE ~(t = s /\ b = a)
        <4>1. locked_accounts'[t][b] = locked_accounts[t][b]
          BY <1>4, <2>1, <3>3 DEF LockAccount
        <4>2. lock[b] = t /\ locked_accounts[t][b] = Row(b)
          BY <3>1, <4>1 DEF LockedRowsCurrent
        <4>3. lock'[b] = lock[b]
          BY <1>4, <2>1, <3>3, <4>2, SessionsAssumption DEF LockAccount, Available, Sessions
        <4>. QED BY <4>1, <4>2, <4>3
      <3>. QED BY <3>2, <3>3
    <2>3. FreshAccounts'
      BY <1>4 DEF LockAccount, FreshAccounts, Creating, Exists, accVars
    <2>. QED BY <2>2, <2>3
  <1>5. ASSUME NEW s \in TxSessions, Commit(s)
        PROVE  RowsInv'
    <2>1. ASSUME NEW a \in Accounts, lock[a] # s
          PROVE  balance'[a] = balance[a]
      <3>1. a \notin Involved(req[s])
        BY <1>5, <2>1, HeldRows DEF Commit
      <3>. QED BY <1>5, <3>1, AccountsAssumption DEF Commit, NewBalance, Involved
    <2>2. LockedRowsCurrent'
      <3>1. SUFFICES ASSUME NEW t \in TxSessions, NEW b \in Accounts,
                            locked_accounts'[t][b] # None
                     PROVE  lock'[b] = t /\ locked_accounts'[t][b] = Row(b)'
        BY DEF LockedRowsCurrent
      <3>2. t # s /\ locked_accounts'[t][b] = locked_accounts[t][b]
        BY <1>5, <3>1 DEF Commit, NoRows
      <3>3. lock[b] = t /\ locked_accounts[t][b] = Row(b)
        BY <3>1, <3>2 DEF LockedRowsCurrent
      <3>. QED BY <1>5, <2>1, <3>2, <3>3 DEF Commit, Unlocked, Row
    <2>3. ASSUME NEW a \in Accounts, ~Exists(a)
          PROVE  balance'[a] = balance[a]
      <3>1. a \notin Involved(req[s])
        BY <1>5, <2>3, HeldRows DEF Commit
      <3>. QED BY <1>5, <3>1, AccountsAssumption DEF Commit, NewBalance, Involved
    <2>4. FreshAccounts'
      BY <1>5, <2>3 DEF Commit, FreshAccounts, Creating, Exists, accVars
    <2>. QED BY <2>2, <2>4
  <1>6. ASSUME NEW s \in TxSessions, Reply(s) \/ Crash(s)
        PROVE  RowsInv'
    BY <1>2, <1>6 DEF Reply, Crash, Forget, tableVars
  <1>7. ASSUME NEW s \in TxSessions, Post(s)
        PROVE  RowsInv'
    BY <1>1, <1>3, <1>7 DEF Post
  <1>. QED
    BY <1>1, <1>3, <1>4, <1>5, <1>6, <1>7
    DEF TxNext, Advance, Start, CheckIdempotency, Replay, LockMissing, Reject,
        InsertTransaction, InsertConflict, Refresh, WriteAudit, Publish,
        StoreIdempotency, LoadEntries, Fail, Expire, handlerVars

LEMMA AccStepRowsInv ==
  ASSUME TypeInv, RowsInv, AccNext, UNCHANGED txVars
  PROVE  RowsInv'
  <1>. USE DEF TypeInv, TypeOK, AccTypeOK, TableTypeOK, RowsInv, AccGoTo
  \* The account service has no transaction session's lock to drop.
  <1>1. ASSUME NEW w \in AccSessions,
               UNCHANGED <<owner, balance, status>>, lock' \in {lock, Unlocked(w)}
        PROVE  LockedRowsCurrent'
    BY <1>1, SessionsAssumption
    DEF LockedRowsCurrent, Unlocked, Row, txVars, handlerVars, Sessions
  \* The account being created, if any, is still being created or given up.
  <1>2. ASSUME NEW w \in AccSessions, UNCHANGED <<owner, balance>>,
               \A v \in AccSessions : Creating(v)' => Creating(v) /\ accObj'[v] = accObj[v]
        PROVE  FreshAccounts'
    BY <1>2 DEF FreshAccounts, Exists
  <1>3. ASSUME NEW w \in AccSessions, NEW r \in AccRequests, AccStart(w, r)
        PROVE  RowsInv'
    BY <1>1, <1>2, <1>3 DEF AccStart, Creating, tableVars
  <1>4. ASSUME NEW w \in AccSessions, PickNumber(w)
        PROVE  RowsInv'
    <2>1. LockedRowsCurrent'
      BY <1>1, <1>4 DEF PickNumber, AccEnd
    <2>2. ASSUME NEW n \in Numbers, NEW a \in Accounts, ~Exists(a),
                 \A v \in AccSessions : accObj[v] # None => accObj[v].id # a,
                 accObj' = [accObj EXCEPT ![w] =
                   [id |-> a, number |-> n, balance |-> 0, status |-> "ACTIVE"]],
                 AccGoTo(w, "insert")
          PROVE  FreshAccounts'
      <3>1. accObj'[w].id = a /\ accObj'[w].balance = 0
        BY <2>2
      <3>2. ASSUME NEW v \in AccSessions \ {w}
            PROVE  /\ Creating(v)' = Creating(v)
                   /\ accObj'[v] = accObj[v]
                   /\ Creating(v) => accObj[v].id # a
        BY <1>4, <2>2, <3>2 DEF PickNumber, Creating
      <3>. QED BY <1>4, <2>2, <3>1, <3>2 DEF PickNumber, FreshAccounts, Exists
    <2>3. ASSUME AccEnd(w, "validationError"), UNCHANGED accObj
          PROVE  FreshAccounts'
      BY <1>2, <1>4, <2>3 DEF PickNumber, AccEnd, Creating
    <2>. QED BY <1>4, <2>1, <2>2, <2>3 DEF PickNumber
  <1>5. ASSUME NEW w \in AccSessions, InsertAccount(w)
        PROVE  RowsInv'
    BY <1>1, <1>2, <1>5 DEF InsertAccount, AccEnd, Creating
  <1>6. ASSUME NEW w \in AccSessions, GetAccount(w)
        PROVE  RowsInv'
    BY <1>1, <1>2, <1>6 DEF GetAccount, AccEnd, Creating
  <1>7. ASSUME NEW w \in AccSessions, Apply(w)
        PROVE  RowsInv'
    <2>1. FreshAccounts'
      BY <1>2, <1>7 DEF Apply, AccEnd, Creating
    <2>2. CASE lock' \in {lock, Unlocked(w)}
      BY <1>1, <1>7, <2>1, <2>2 DEF Apply
    <2>3. CASE ~(lock' \in {lock, Unlocked(w)})
      <3>. DEFINE a == accObj[w].id
      <3>1. Available(w, a) /\ lock' = [lock EXCEPT ![a] = w]
        BY <1>7, <2>3 DEF Apply, AccEnd
      <3>2. LockedRowsCurrent'
        BY <1>7, <3>1, SessionsAssumption
        DEF Apply, Available, LockedRowsCurrent, Row, txVars, handlerVars, Sessions
      <3>. QED BY <2>1, <3>2
    <2>. QED BY <2>2, <2>3
  <1>8. ASSUME NEW w \in AccSessions, AccCommit(w)
        PROVE  RowsInv'
    <2>. DEFINE a == accObj[w].id
    <2>0. a \in Accounts
      BY <1>8 DEF AccCommit, AccObjType
    \* Neither a new row nor a row this session has locked is read by a handler.
    <2>1. ASSUME NEW t \in TxSessions, NEW b \in Accounts, locked_accounts[t][b] # None
          PROVE  Row(b)' = Row(b) /\ lock'[b] = t
      <3>1. lock[b] = t /\ locked_accounts[t][b] = Row(b)
        BY <2>1 DEF LockedRowsCurrent
      <3>2. Exists(b)
        BY <2>1, <3>1, UsersAssumption DEF TxTypeOK, Row, RowType, Exists
      <3>3. CASE accReq[w].op = "create"
        <4>1. b # a
          BY <1>8, <3>2, <3>3 DEF AccCommit, FreshAccounts, Creating
        <4>. QED BY <1>8, <2>0, <3>1, <3>3, <4>1, SessionsAssumption
             DEF AccCommit, AccEnd, Unlocked, Row, Sessions
      <3>4. CASE accReq[w].op # "create"
        BY <1>8, <2>0, <3>1, <3>4, SessionsAssumption
        DEF AccCommit, AccEnd, Unlocked, Row, Sessions
      <3>. QED BY <3>3, <3>4
    <2>2. LockedRowsCurrent'
      <3>1. SUFFICES ASSUME NEW t \in TxSessions, NEW b \in Accounts,
                            locked_accounts'[t][b] # None
                     PROVE  lock'[b] = t /\ locked_accounts'[t][b] = Row(b)'
        BY DEF LockedRowsCurrent
      <3>2. locked_accounts'[t][b] = locked_accounts[t][b]
        BY DEF txVars, handlerVars
      <3>. QED BY <2>1, <3>1, <3>2 DEF LockedRowsCurrent
    <2>3. FreshAccounts'
      <3>1. CASE accReq[w].op = "create"
        <4>1. Creating(w) /\ ~Creating(w)'
          BY <1>8, <3>1 DEF AccCommit, AccEnd, Creating
        <4>2. \A v \in AccSessions : Creating(v)' => v # w /\ Creating(v) /\ accObj'[v] = accObj[v]
          BY <1>8, <4>1 DEF AccCommit, AccEnd, Creating
        <4>3. \A v \in AccSessions : v # w /\ Creating(v) => accObj[v].id # a
          BY <4>1 DEF FreshAccounts
        <4>4. accReq[w].user # None
          BY <1>8, UsersAssumption, AccRequestsAssumption DEF AccCommit, AccRequestType
        <4>5. \A b \in Accounts : b # a => owner'[b] = owner[b] /\ balance'[b] = balance[b]
          BY <1>8, <3>1 DEF AccCommit
        <4>6. owner'[a] # None
          BY <1>8, <2>0, <3>1, <4>4 DEF AccCommit
        <4>7. \A v \in AccSessions : v # w /\ Creating(v) => accObj[v].id \in Accounts
          BY DEF Creating, AccObjType
        <4>. QED BY <4>2, <4>3, <4>5, <4>6, <4>7 DEF FreshAccounts, Exists
      <3>2. CASE accReq[w].op # "create"
        <4>1. UNCHANGED <<owner, balance, accReq, accObj>>
          BY <1>8, <3>2 DEF AccCommit
        <4>2. \A v \in AccSessions : Creating(v)' => Creating(v)
          BY <1>8, <3>2, <4>1 DEF AccCommit, AccEnd, Creating
        <4>. QED BY <1>2, <4>1, <4>2
      <3>. QED BY <3>1, <3>2
    <2>. QED BY <2>2, <2>3
  <1>9. ASSUME NEW w \in AccSessions, AccReply(w) \/ AccCrash(w)
        PROVE  RowsInv'
    BY <1>1, <1>2, <1>9 DEF AccReply, AccCrash, AccForget, Creating
  <1>10. ASSUME NEW w \in AccSessions, AccFail(w)
         PROVE  RowsInv'
    BY <1>1, <1>2, <1>10 DEF AccFail, AccEnd, Creating
  <1>. QED BY <1>3, <1>4, <1>5, <1>6, <1>7, <1>8, <1>9, <1>10 DEF AccNext, AccStep

LEMMA RowsStep == TypeInv /\ RowsInv /\ [Next]_vars => RowsInv'
  <1>. SUFFICES ASSUME TypeInv, RowsInv, [Next]_vars PROVE RowsInv'
    OBVIOUS
  <1>1. CASE UNCHANGED vars
    BY <1>1 DEF vars, tableVars, txVars, handlerVars, accVars, RowsInv, LockedRowsCurrent,
                FreshAccounts, Creating, Exists, Row
  <1>. QED BY <1>1, TxStepRowsInv, AccStepRowsInv DEF Next

LEMMA RowsInit == Init => RowsInv
  BY InitialAssumption
  DEF Init, TableInit, TxInit, AccInit, RowsInv, LockedRowsCurrent, FreshAccounts,
      Creating, Exists, NoRows

\* What a handler read under FOR UPDATE is locked by it and current, whatever
\* the other handlers of both services do.
THEOREM RowsStayCurrent == Spec => []LockedRowsCurrent
  <1>1. RowsInv => LockedRowsCurrent
    BY DEF RowsInv
  <1>. QED BY <1>1, TypeInit, TypeStep, RowsInit, RowsStep, PTL DEF Spec

-----------------------------------------------------------------------------
(* What is committed was checked.                                            *)

\* A handler that has inserted its transaction did so after its checks, and
\* has its key to itself.
Checked ==
  \A s \in TxSessions :
    /\ Inserted(s) => Unfrozen(s) /\ Funded(s) /\ KeyFree(s) /\ ~KeyTaken(req[s].key)
    /\ pc[s] = "commit" => \A a \in Involved(req[s]) : NewBalance(s, a) <= MaxBalance

PostingInv == Checked /\ BalancesInRange /\ AtMostOncePerKey

LEMMA TxStepPosting ==
  ASSUME TypeInv, RowsInv, PostingInv, TxNext
  PROVE  PostingInv'
  <1>. USE DEF TypeInv, TypeOK, TxTypeOK, TableTypeOK, RowsInv, PostingInv, GoTo
  \* A step of s that inserts and commits nothing, and keeps what an earlier
  \* insert of s was checked against.
  <1>1. ASSUME NEW s \in TxSessions,
               UNCHANGED <<balance, transactions>>,
               \A t \in TxSessions \ {s} :
                 pc'[t] = pc[t] /\ req'[t] = req[t] /\ locked_accounts'[t] = locked_accounts[t],
               ~Inserted(s)'
        PROVE  PostingInv'
    BY <1>1 DEF Checked, BalancesInRange, AtMostOncePerKey, Inserted, Unfrozen, Funded,
                KeyFree, KeyTaken, Involved, NewBalance
  <1>2. ASSUME NEW s \in TxSessions, NEW x, Abort(s, x)
        PROVE  PostingInv'
    BY <1>1, <1>2 DEF Abort, Inserted, storeVars
  <1>3. ASSUME NEW s \in TxSessions, InsertTransaction(s)
        PROVE  PostingInv'
    <2>1. ASSUME NEW t \in TxSessions
          PROVE  /\ Unfrozen(t)' = Unfrozen(t)
                 /\ Funded(t)' = Funded(t)
                 /\ KeyTaken(req[t].key)' = KeyTaken(req[t].key)
                 /\ \A a : NewBalance(t, a)' = NewBalance(t, a)
      BY <1>3 DEF InsertTransaction, Unfrozen, Funded, KeyTaken, NewBalance, Involved, tableVars,
                  storeVars
    <2>2. \A t \in TxSessions : Inserted(t)' <=> Inserted(t) \/ t = s
      BY <1>3 DEF InsertTransaction, Inserted
    <2>3. \A t \in TxSessions : Inserted(t)' => KeyFree(t)'
      BY <1>3, <2>2 DEF InsertTransaction, KeyFree, Checked
    <2>4. \A t \in TxSessions : pc'[t] = "commit" => pc[t] = "commit"
      BY <1>3 DEF InsertTransaction
    <2>5. Checked'
      BY <1>3, <2>1, <2>2, <2>3, <2>4 DEF InsertTransaction, Checked, Involved, KeyTaken, storeVars
    <2>. QED BY <1>3, <2>5 DEF InsertTransaction, BalancesInRange, AtMostOncePerKey, tableVars,
                                storeVars
  <1>4. ASSUME NEW s \in TxSessions, Post(s)
        PROVE  PostingInv'
    <2>1. CASE Abort(s, "serverError")
      BY <1>2, <2>1
    <2>2. CASE ~Abort(s, "serverError")
      <3>1. \A a \in Involved(req[s]) : NewBalance(s, a) <= MaxBalance
        BY <1>4, <2>2 DEF Post
      <3>2. \A t \in TxSessions : Inserted(t)' = Inserted(t)
        BY <1>4, <2>2 DEF Post, Inserted
      <3>3. \A t \in TxSessions : pc'[t] = "commit" => pc[t] = "commit" \/ t = s
        BY <1>4, <2>2 DEF Post
      <3>4. UNCHANGED <<tableVars, req, locked_accounts, storeVars>>
        BY <1>4, <2>2 DEF Post
      <3>5. Checked'
        BY <3>1, <3>2, <3>3, <3>4
        DEF Checked, Unfrozen, Funded, KeyFree, KeyTaken, NewBalance, Involved, tableVars, storeVars
      <3>. QED BY <3>4, <3>5 DEF BalancesInRange, AtMostOncePerKey, tableVars, storeVars
    <2>. QED BY <2>1, <2>2
  <1>5. ASSUME NEW s \in TxSessions, Commit(s)
        PROVE  PostingInv'
    <2>. DEFINE r == req[s]
    <2>1. /\ r \in Requests
          /\ Funded(s) /\ KeyFree(s) /\ ~KeyTaken(r.key)
          /\ \A a \in Involved(r) : NewBalance(s, a) <= MaxBalance
      BY <1>5 DEF Commit, Checked, Inserted
    <2>2. BalancesInRange'
      <3>. SUFFICES ASSUME NEW a \in Accounts PROVE balance'[a] \in 0 .. MaxBalance
        BY DEF BalancesInRange
      <3>1. /\ balance'[a] = NewBalance(s, a)
            /\ balance[a] \in 0 .. MaxBalance
            /\ r.amount \in Nat \ {0}
            /\ MaxBalance \in Nat
        BY <1>5, <2>1, RequestParts, InitialAssumption DEF Commit, BalancesInRange
      <3>2. CASE a = r.to
        BY <1>5, <2>1, <3>1, <3>2, CommittedBalance, AccountsAssumption DEF Commit, Involved
      <3>3. CASE a # r.to /\ a = r.from
        <4>1. locked_accounts[s][a].balance >= r.amount
          BY <2>1, <3>3, AccountsAssumption DEF Funded
        <4>2. locked_accounts[s][a].balance = balance[a]
          <5>1. a \in Involved(r)
            BY <3>3, AccountsAssumption DEF Involved
          <5>2. locked_accounts[s][a] = Row(a)
            BY <1>5, <5>1, HeldRows DEF Commit
          <5>. QED BY <5>2 DEF Row
        <4>. QED BY <1>5, <3>1, <3>3, <4>1, <4>2, CommittedBalance DEF Commit
      <3>4. CASE a # r.to /\ a # r.from
        BY <1>5, <3>1, <3>4, CommittedBalance DEF Commit
      <3>. QED BY <3>2, <3>3, <3>4
    <2>3. AtMostOncePerKey'
      BY <1>5, <2>1 DEF Commit, AtMostOncePerKey, KeyTaken
    <2>4. Checked'
      <3>. SUFFICES ASSUME NEW t \in TxSessions, Inserted(t)'
                    PROVE  /\ (Unfrozen(t) /\ Funded(t) /\ KeyFree(t) /\ ~KeyTaken(req[t].key))'
                           /\ pc'[t] = "commit" =>
                                \A a \in Involved(req'[t]) : NewBalance(t, a)' <= MaxBalance
        BY DEF Checked, Inserted
      <3>1. t # s /\ pc'[t] = pc[t] /\ req' = req /\ locked_accounts'[t] = locked_accounts[t]
        BY <1>5 DEF Commit, Inserted
      <3>2. Inserted(t)
        BY <3>1 DEF Inserted
      <3>3. Unfrozen(t)' /\ Funded(t)'
        BY <3>1, <3>2 DEF Checked, Unfrozen, Funded
      <3>4. KeyFree(t)'
        BY <1>5, <3>1, <3>2 DEF Checked, KeyFree, Commit, Inserted
      <3>5. ~KeyTaken(req[t].key)'
        <4>1. req[t].key # r.key
          BY <2>1, <3>1, <3>2 DEF KeyFree
        <4>. QED BY <1>5, <3>1, <3>2, <4>1 DEF Checked, KeyTaken, Commit
      <3>6. \A a \in Involved(req[t]) : NewBalance(t, a)' = NewBalance(t, a)
        BY <3>1, AccountsAssumption DEF NewBalance, Involved
      <3>. QED BY <3>1, <3>2, <3>3, <3>4, <3>5, <3>6 DEF Checked
    <2>. QED BY <2>2, <2>3, <2>4
  <1>6. ASSUME NEW s \in TxSessions,
               \/ \E r \in Requests : Start(s, r)
               \/ CheckIdempotency(s) \/ Replay(s) \/ LockAccount(s)
               \/ Refresh(s) \/ WriteAudit(s) \/ Publish(s)
               \/ StoreIdempotency(s) \/ LoadEntries(s) \/ Reply(s) \/ Crash(s)
        PROVE  PostingInv'
    <2>1. UNCHANGED <<balance, transactions>>
      BY <1>6 DEF Start, CheckIdempotency, Replay, LockAccount, Refresh, WriteAudit, Publish,
        StoreIdempotency, LoadEntries, Reply, Crash, tableVars, storeVars
    <2>2. ASSUME NEW t \in TxSessions \ {s}
          PROVE  pc'[t] = pc[t] /\ req'[t] = req[t] /\ locked_accounts'[t] = locked_accounts[t]
      BY <1>6, <2>2 DEF Start, CheckIdempotency, Replay, LockAccount, Refresh, WriteAudit, Publish,
        StoreIdempotency, LoadEntries, Reply, Crash, Forget
    <2>3. ~Inserted(s)'
      BY <1>6 DEF Start, CheckIdempotency, Replay, LockAccount, Refresh, WriteAudit, Publish,
        StoreIdempotency, LoadEntries, Reply, Crash, Forget, Inserted
    <2>. QED BY <1>1, <2>1, <2>2, <2>3
  <1>7. ASSUME NEW k \in Keys, Expire(k)
        PROVE  PostingInv'
    BY <1>7 DEF Expire, tableVars, handlerVars, Checked, BalancesInRange, AtMostOncePerKey,
      Inserted, Unfrozen, Funded, KeyFree, KeyTaken, NewBalance, Involved
  <1>. QED
    BY <1>2, <1>3, <1>4, <1>5, <1>6, <1>7
    DEF TxNext, Advance, LockMissing, Reject, InsertConflict, Fail

LEMMA AccStepPosting ==
  ASSUME TypeInv, RowsInv, PostingInv, AccNext, UNCHANGED txVars
  PROVE  PostingInv'
  <1>. USE DEF TypeInv, TypeOK, TableTypeOK, RowsInv, PostingInv
  <1>1. Checked' /\ AtMostOncePerKey'
    BY AccountsAssumption
    DEF Checked, AtMostOncePerKey, Inserted, Unfrozen, Funded, KeyFree, KeyTaken, NewBalance,
        Involved, txVars, handlerVars, storeVars
  <1>2. ASSUME NEW w \in AccSessions, AccCommit(w)
        PROVE  BalancesInRange'
    <2>1. balance' \in {balance, [balance EXCEPT ![accObj[w].id] = 0]}
      BY <1>2 DEF AccCommit, FreshAccounts, Creating
    <2>. QED BY <2>1, InitialAssumption DEF BalancesInRange
  <1>3. CASE UNCHANGED balance
    BY <1>1, <1>3 DEF BalancesInRange
  <1>. QED
    BY <1>1, <1>2, <1>3
    DEF AccNext, AccStep, AccStart, PickNumber, InsertAccount, GetAccount, Apply, AccReply,
        AccFail, AccCrash, AccForget, tableVars

LEMMA PostingInit == Init => PostingInv
  BY InitialAssumption
  DEF Init, TableInit, TxInit, PostingInv, Checked, BalancesInRange, AtMostOncePerKey, Inserted

LEMMA PostingStep == TypeInv /\ RowsInv /\ PostingInv /\ [Next]_vars => PostingInv'
  <1>. SUFFICES ASSUME TypeInv, RowsInv, PostingInv, [Next]_vars PROVE PostingInv'
    OBVIOUS
  <1>1. CASE UNCHANGED vars
    BY <1>1 DEF vars, tableVars, txVars, handlerVars, storeVars, PostingInv, Checked,
                BalancesInRange, AtMostOncePerKey, Inserted, Unfrozen, Funded, KeyFree,
                KeyTaken, NewBalance, Involved
  <1>. QED BY <1>1, TxStepPosting, AccStepPosting DEF Next

\* No interleaving of any number of handlers overdraws an account or makes its
\* balance too long for the column.
THEOREM NoOverdraft == Spec => []BalancesInRange
  <1>1. PostingInv => BalancesInRange
    BY DEF PostingInv
  <1>. QED
    BY <1>1, TypeInit, TypeStep, RowsInit, RowsStep, PostingInit, PostingStep, PTL DEF Spec

\* No number of repeats, crashes or expired keys commits a request twice.
THEOREM Idempotence == Spec => []AtMostOncePerKey
  <1>1. PostingInv => AtMostOncePerKey
    BY DEF PostingInv
  <1>. QED
    BY <1>1, TypeInit, TypeStep, RowsInit, RowsStep, PostingInit, PostingStep, PTL DEF Spec

\* The money of a frozen account stays where it is in every step.
LEMMA FrozenStep ==
  TypeInv /\ RowsInv /\ PostingInv /\ [Next]_vars =>
    [\A a \in Accounts : balance'[a] # balance[a] => status[a] # "FROZEN"]_vars
  <1>. SUFFICES ASSUME TypeInv, RowsInv, PostingInv, Next,
                       NEW a \in Accounts, balance'[a] # balance[a]
                PROVE  status[a] # "FROZEN"
    BY DEF vars
  <1>. USE DEF TypeInv, TypeOK, TableTypeOK, RowsInv, PostingInv
  <1>1. ASSUME NEW s \in TxSessions, Commit(s)
        PROVE  status[a] # "FROZEN"
    <2>1. a \in Involved(req[s])
      <3>1. NewBalance(s, a) # balance[a]
        BY <1>1 DEF Commit
      <3>. QED BY <3>1, AccountsAssumption DEF NewBalance, Involved
    <2>2. locked_accounts[s][a].status = status[a]
      <3>1. locked_accounts[s][a] = Row(a)
        BY <1>1, <2>1, HeldRows DEF Commit
      <3>. QED BY <3>1 DEF Row
    <2>. QED BY <1>1, <2>1, <2>2 DEF Commit, Checked, Inserted, Unfrozen
  <1>2. ASSUME NEW w \in AccSessions, AccCommit(w)
        PROVE  status[a] # "FROZEN"
    \* An account that is created held nothing before and holds nothing after.
    BY <1>2 DEF AccCommit, FreshAccounts, Creating
  <1>. QED
    BY <1>1, <1>2
    DEF Next, TxNext, AccNext, Advance, AccStep, Start, CheckIdempotency, Replay, LockAccount,
        LockMissing, Reject, InsertTransaction, InsertConflict, Post, Refresh, WriteAudit, Publish,
        StoreIdempotency, LoadEntries, Reply, Fail, Crash, Expire, Abort, AccStart, PickNumber,
        InsertAccount, GetAccount, Apply, AccReply, AccFail, AccCrash, AccForget, tableVars

THEOREM FrozenStays == Spec => FrozenMoneyStill
  BY TypeInit, TypeStep, RowsInit, RowsStep, PostingInit, PostingStep, FrozenStep, PTL
  DEF Spec, FrozenMoneyStill
=============================================================================
