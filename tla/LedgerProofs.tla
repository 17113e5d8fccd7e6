---------------------------- MODULE LedgerProofs ----------------------------
(* Proofs about Banking, continued: who hears of a commit, the numbers of    *)
(* the accounts, the waits between sessions, and the ledger the two services *)
(* implement together.                                                       *)
EXTENDS BankingProofs, FiniteSetTheorems, WellFoundedInduction

-----------------------------------------------------------------------------
(* Nobody hears of a transaction the database does not hold.                 *)

\* The transaction a handler knows of is committed, with the key it asked for.
HasTransaction(s) == \E t \in transactions : t.id = txId[s] /\ t.key = req[s].key

\* What a handler at this point may know, and has answered.
KnowsCommitted(s) ==
  /\ pc[s] \in {"replay", "refresh", "audit", "publish", "store", "load"} => HasTransaction(s)
  /\ answer[s] # None => pc[s] = "done"
  /\ answer[s] = "created" => HasTransaction(s)

AnnouncedCommitted == \A id \in events \cup audit : Committed(id)

CommitsInv ==
  /\ CacheNamesCommitted
  /\ AnnouncedCommitted
  /\ \A s \in TxSessions : KnowsCommitted(s)

\* Nothing a step of session s changes in the handler of another session.
OnlySession(s) ==
  \A t \in TxSessions \ {s} :
    pc'[t] = pc[t] /\ req'[t] = req[t] /\ txId'[t] = txId[t] /\ answer'[t] = answer[t]

\* Rows of `transactions` are never deleted: what is committed stays so.
LEMMA CommittedStays ==
  ASSUME transactions \subseteq transactions'
  PROVE  /\ CacheNamesCommitted /\ UNCHANGED redis => CacheNamesCommitted'
         /\ AnnouncedCommitted /\ UNCHANGED <<events, audit>> => AnnouncedCommitted'
         /\ \A s : HasTransaction(s) /\ txId'[s] = txId[s] /\ req'[s] = req[s] => HasTransaction(s)'
  BY DEF CacheNamesCommitted, AnnouncedCommitted, Committed, HasTransaction

\* It is enough to look at the session that moves and at what it tells others.
LEMMA KnowsFrame ==
  ASSUME NEW s \in TxSessions, OnlySession(s), transactions \subseteq transactions',
         \A t \in TxSessions : KnowsCommitted(t), KnowsCommitted(s)'
  PROVE  \A t \in TxSessions : KnowsCommitted(t)'
  BY CommittedStays DEF OnlySession, KnowsCommitted

LEMMA TxStepCommits ==
  ASSUME TypeInv, CommitsInv, TxNext
  PROVE  CommitsInv'
  <1>. USE DEF TypeInv, TypeOK, TxTypeOK, GoTo
  <1>. USE AnswersAssumption DEF Answers
  \* A step that tells nobody.
  <1>1. ASSUME NEW s \in TxSessions, OnlySession(s),
               UNCHANGED <<transactions, redis, events, audit>>, KnowsCommitted(s)'
        PROVE  CommitsInv'
    BY <1>1, CommittedStays, KnowsFrame DEF CommitsInv
  <1>2. ASSUME NEW s \in TxSessions, NEW a \in Answers \ {"created"}, pc[s] # "idle", Abort(s, a)
        PROVE  CommitsInv'
    <2>1. KnowsCommitted(s)'
      BY <1>2 DEF Abort, KnowsCommitted
    <2>. QED BY <1>1, <1>2, <2>1 DEF Abort, OnlySession, storeVars
  <1>3. ASSUME NEW s \in TxSessions, NEW r \in Requests, Start(s, r)
        PROVE  CommitsInv'
    <2>1. answer[s] = None
      BY <1>3 DEF Start, CommitsInv, KnowsCommitted
    <2>2. KnowsCommitted(s)'
      BY <1>3, <2>1 DEF Start, KnowsCommitted
    <2>. QED BY <1>1, <1>3, <2>2 DEF Start, OnlySession, storeVars
  <1>4. ASSUME NEW s \in TxSessions, CheckIdempotency(s)
        PROVE  CommitsInv'
    <2>1. req[s].key \in Keys /\ answer[s] = None
      BY <1>4, RequestParts DEF CheckIdempotency, CommitsInv, KnowsCommitted
    <2>2. pc'[s] = "replay" => HasTransaction(s)'
      BY <1>4, <2>1 DEF CheckIdempotency, CommitsInv, CacheNamesCommitted, HasTransaction, storeVars
    <2>3. KnowsCommitted(s)'
      BY <1>4, <2>1, <2>2 DEF CheckIdempotency, KnowsCommitted
    <2>. QED BY <1>1, <1>4, <2>3 DEF CheckIdempotency, OnlySession, storeVars
  <1>5. ASSUME NEW s \in TxSessions,
               Replay(s) \/ LockAccount(s) \/ InsertTransaction(s) \/ Refresh(s) \/ LoadEntries(s)
        PROVE  CommitsInv'
    <2>1. KnowsCommitted(s)
      BY DEF CommitsInv
    <2>2. UNCHANGED <<transactions, redis, events, audit>> /\ OnlySession(s)
      BY <1>5 DEF Replay, LockAccount, InsertTransaction, Refresh, LoadEntries, OnlySession, storeVars
    <2>3. KnowsCommitted(s)'
      <3>1. CASE Replay(s)
        BY <2>1, <2>2, <3>1, CommittedStays DEF Replay, KnowsCommitted
      <3>2. CASE LockAccount(s)
        BY <2>1, <2>2, <3>2 DEF LockAccount, KnowsCommitted
      <3>3. CASE InsertTransaction(s)
        BY <2>1, <2>2, <3>3 DEF InsertTransaction, KnowsCommitted
      <3>4. CASE Refresh(s)
        BY <2>1, <2>2, <3>4, CommittedStays DEF Refresh, KnowsCommitted
      <3>5. CASE LoadEntries(s)
        BY <2>1, <2>2, <3>5, CommittedStays DEF LoadEntries, KnowsCommitted
      <3>. QED BY <1>5, <3>1, <3>2, <3>3, <3>4, <3>5
    <2>. QED BY <1>1, <2>2, <2>3
  <1>6. ASSUME NEW s \in TxSessions, Post(s)
        PROVE  CommitsInv'
    <2>1. CASE Abort(s, "serverError")
      BY <1>2, <1>6, <2>1 DEF Post
    <2>2. CASE ~Abort(s, "serverError")
      <3>1. KnowsCommitted(s)'
        BY <1>6, <2>2 DEF Post, KnowsCommitted, CommitsInv
      <3>. QED BY <1>1, <1>6, <2>2, <3>1 DEF Post, OnlySession, storeVars
    <2>. QED BY <2>1, <2>2
  \* The commit itself: from here on the handler may tell.
  <1>7. ASSUME NEW s \in TxSessions, Commit(s)
        PROVE  CommitsInv'
    <2>1. transactions \subseteq transactions' /\ UNCHANGED <<redis, events, audit>> /\ OnlySession(s)
      BY <1>7 DEF Commit, OnlySession
    <2>2. HasTransaction(s)'
      <3>. DEFINE row == [id |-> txId[s], key |-> req[s].key, from |-> req[s].from, to |-> req[s].to,
                          amount |-> req[s].amount]
      <3>1. row \in transactions' /\ UNCHANGED <<txId, req>>
        BY <1>7 DEF Commit
      <3>2. row.id = txId[s] /\ row.key = req[s].key
        OBVIOUS
      <3>. HIDE DEF row
      <3>. QED BY <3>1, <3>2 DEF HasTransaction
    <2>3. KnowsCommitted(s)'
      BY <1>7, <2>2 DEF Commit, KnowsCommitted, CommitsInv
    <2>. QED BY <2>1, <2>3, CommittedStays, KnowsFrame DEF CommitsInv
  <1>8. ASSUME NEW s \in TxSessions, WriteAudit(s) \/ Publish(s) \/ StoreIdempotency(s)
        PROVE  CommitsInv'
    <2>1. HasTransaction(s) /\ KnowsCommitted(s)
      BY <1>8 DEF CommitsInv, KnowsCommitted, WriteAudit, Publish, StoreIdempotency
    <2>2. UNCHANGED transactions /\ OnlySession(s)
      BY <1>8 DEF WriteAudit, Publish, StoreIdempotency, OnlySession
    <2>3. KnowsCommitted(s)'
      BY <1>8, <2>1, <2>2, CommittedStays DEF WriteAudit, Publish, StoreIdempotency, KnowsCommitted
    <2>4. AnnouncedCommitted'
      BY <1>8, <2>1
      DEF WriteAudit, Publish, StoreIdempotency, CommitsInv, AnnouncedCommitted, Committed, HasTransaction
    <2>5. CacheNamesCommitted'
      BY <1>8, <2>1
      DEF WriteAudit, Publish, StoreIdempotency, CommitsInv, CacheNamesCommitted, HasTransaction
    <2>. QED BY <2>2, <2>3, <2>4, <2>5, KnowsFrame DEF CommitsInv
  <1>9. ASSUME NEW s \in TxSessions, Reply(s) \/ Crash(s)
        PROVE  CommitsInv'
    <2>1. KnowsCommitted(s)'
      BY <1>9 DEF Reply, Crash, Forget, KnowsCommitted
    <2>. QED BY <1>1, <1>9, <2>1 DEF Reply, Crash, Forget, OnlySession, storeVars
  <1>10. ASSUME NEW k \in Keys, Expire(k)
         PROVE  CommitsInv'
    BY <1>10
    DEF Expire, handlerVars, CommitsInv, CacheNamesCommitted, AnnouncedCommitted, Committed,
        KnowsCommitted, HasTransaction
  \* Whatever is refused or fails.
  <1>11. ASSUME NEW s \in TxSessions,
                LockMissing(s) \/ Reject(s) \/ InsertConflict(s) \/ Fail(s)
         PROVE  CommitsInv'
    <2>1. pc[s] # "idle"
      BY <1>11 DEF LockMissing, Reject, InsertConflict, Fail, Failing
    <2>2. \E a \in Answers \ {"created"} : Abort(s, a)
      BY <1>11 DEF LockMissing, Reject, InsertConflict, Fail
    <2>. QED BY <1>2, <2>1, <2>2
  <1>. QED
    BY <1>3, <1>4, <1>5, <1>6, <1>7, <1>8, <1>9, <1>10, <1>11 DEF TxNext, Advance

LEMMA CommitsInit == Init => CommitsInv
  BY AnswersAssumption DEF Answers, Init, TxInit, CommitsInv, CacheNamesCommitted, AnnouncedCommitted, KnowsCommitted

LEMMA CommitsStep == TypeInv /\ CommitsInv /\ [Next]_vars => CommitsInv'
  <1>. SUFFICES ASSUME TypeInv, CommitsInv, [Next]_vars PROVE CommitsInv'
    OBVIOUS
  <1>1. CASE UNCHANGED txVars
    BY <1>1
    DEF txVars, handlerVars, storeVars, CommitsInv, CacheNamesCommitted, AnnouncedCommitted,
        Committed, KnowsCommitted, HasTransaction
  <1>. QED BY <1>1, TxStepCommits DEF Next, vars

\* A key in Redis always leads to a committed transaction with that key.
THEOREM CacheIsCommitted == Spec => []CacheNamesCommitted
  <1>1. CommitsInv => CacheNamesCommitted
    BY DEF CommitsInv
  <1>. QED BY <1>1, TypeInit, TypeStep, CommitsInit, CommitsStep, PTL DEF Spec

\* Consumers of the event, readers of the audit log and clients that were told
\* 201 have heard of a committed transaction.
THEOREM OutsideHearsCommitted == Spec => []OutsideSeesCommitted
  <1>1. CommitsInv => OutsideSeesCommitted
    BY DEF CommitsInv, AnnouncedCommitted, OutsideSeesCommitted, KnowsCommitted, HasTransaction
  <1>. QED BY <1>1, TypeInit, TypeStep, CommitsInit, CommitsStep, PTL DEF Spec

-----------------------------------------------------------------------------
(* Two accounts never share a number.                                        *)

\* An account that is not there has no number; of the rows a session has
\* inserted and not committed, none has a committed number or another's.
NumbersInv ==
  /\ \A a \in Accounts : ~Exists(a) => number[a] = None
  /\ AccountNumbersUnique
  /\ \A w \in AccSessions : AccInserted(w) => ~NumberUsed(accObj[w].number)
  /\ \A v, w \in AccSessions :
       AccInserted(v) /\ AccInserted(w) /\ accObj[v].number = accObj[w].number => v = w

\* Steps that leave the rows alone and insert none.
LEMMA NumbersFrame ==
  ASSUME NumbersInv, UNCHANGED <<owner, number>>,
         \A w \in AccSessions : AccInserted(w)' => AccInserted(w) /\ accObj'[w] = accObj[w]
  PROVE  NumbersInv'
  BY DEF NumbersInv, AccountNumbersUnique, NumberUsed, Exists

LEMMA AccStepNumbers ==
  ASSUME TypeInv, RowsInv, NumbersInv, AccNext
  PROVE  NumbersInv'
  <1>. USE DEF TypeInv, TypeOK, AccTypeOK, TableTypeOK, AccGoTo
  <1>1. ASSUME NEW w \in AccSessions,
               \/ \E r \in AccRequests : AccStart(w, r)
               \/ PickNumber(w) \/ GetAccount(w) \/ Apply(w)
               \/ AccReply(w) \/ AccFail(w) \/ AccCrash(w)
        PROVE  NumbersInv'
    <2>1. UNCHANGED <<owner, number>>
      BY <1>1 DEF AccStart, PickNumber, GetAccount, Apply, AccReply, AccFail, AccCrash, AccForget,
                  tableVars
    <2>2. ASSUME NEW v \in AccSessions, AccInserted(v)'
          PROVE  AccInserted(v) /\ accObj'[v] = accObj[v]
      <3>1. CASE v = w
        BY <1>1, <2>2, <3>1
        DEF AccStart, PickNumber, GetAccount, Apply, AccReply, AccFail, AccCrash, AccForget, AccEnd,
            AccInserted
      <3>2. CASE v # w
        BY <1>1, <2>2, <3>2
        DEF AccStart, PickNumber, GetAccount, Apply, AccReply, AccFail, AccCrash, AccForget, AccEnd,
            AccInserted
      <3>. QED BY <3>1, <3>2
    <2>. QED BY <2>1, <2>2, NumbersFrame
  \* The unique index: the INSERT went through, so nobody has the number.
  <1>2. ASSUME NEW w \in AccSessions, InsertAccount(w)
        PROVE  NumbersInv'
    <2>1. UNCHANGED <<owner, number, accReq, accObj>>
      BY <1>2 DEF InsertAccount
    <2>2. CASE NumberConflict(w)
      BY <1>2, <2>1, <2>2, NumbersFrame DEF InsertAccount, AccEnd, AccInserted
    <2>3. CASE ~NumberConflict(w)
      <3>1. \A v \in AccSessions : AccInserted(v)' => AccInserted(v) \/ v = w
        BY <1>2, <2>1 DEF InsertAccount, AccEnd, AccInserted
      <3>2. ~NumberUsed(accObj[w].number)
        BY <2>3 DEF NumberConflict
      <3>3. \A v \in AccSessions \ {w} : AccInserted(v) => accObj[v].number # accObj[w].number
        BY <1>2 DEF InsertAccount
      <3>. QED BY <2>1, <3>1, <3>2, <3>3 DEF NumbersInv, AccountNumbersUnique, NumberUsed, Exists
    <2>. QED BY <2>2, <2>3
  <1>3. ASSUME NEW w \in AccSessions, AccCommit(w)
        PROVE  NumbersInv'
    <2>. DEFINE a == accObj[w].id
                n == accObj[w].number
    <2>1. \A v \in AccSessions : AccInserted(v)' => v # w /\ AccInserted(v) /\ accObj'[v] = accObj[v]
      BY <1>3 DEF AccCommit, AccEnd, AccInserted
    <2>2. CASE accReq[w].op # "create"
      BY <1>3, <2>1, <2>2, NumbersFrame DEF AccCommit
    <2>3. CASE accReq[w].op = "create"
      <3>1. a \in Accounts /\ n \in Numbers /\ n # None /\ AccInserted(w)
        BY <1>3, <2>3, AccRequestsAssumption DEF AccCommit, AccObjType, AccInserted
      <3>2. /\ number' = [number EXCEPT ![a] = n]
            /\ \A b \in Accounts : b # a => owner'[b] = owner[b]
            /\ owner'[a] # None
        BY <1>3, <2>3, <3>1, UsersAssumption, AccRequestsAssumption DEF AccCommit, AccRequestType
      <3>3. ~NumberUsed(n)
        BY <3>1 DEF NumbersInv
      <3>4. AccountNumbersUnique'
        BY <3>1, <3>2, <3>3 DEF NumbersInv, AccountNumbersUnique, NumberUsed, Exists
      <3>5. \A v \in AccSessions : v # w /\ AccInserted(v) => accObj[v].number # n
        BY <3>1 DEF NumbersInv
      <3>6. \A m : NumberUsed(m)' => NumberUsed(m) \/ m = n
        BY <3>1, <3>2 DEF NumberUsed
      <3>. QED BY <2>1, <3>1, <3>2, <3>4, <3>5, <3>6 DEF NumbersInv, Exists
    <2>. QED BY <2>2, <2>3
  <1>. QED BY <1>1, <1>2, <1>3 DEF AccNext, AccStep

LEMMA NumbersInit == Init => NumbersInv
  BY DEF Init, AccInit, NumbersInv, AccountNumbersUnique, AccInserted, Exists

LEMMA NumbersStep == TypeInv /\ RowsInv /\ NumbersInv /\ [Next]_vars => NumbersInv'
  <1>. SUFFICES ASSUME TypeInv, RowsInv, NumbersInv, [Next]_vars PROVE NumbersInv'
    OBVIOUS
  <1>1. CASE UNCHANGED <<owner, accVars>>
    BY <1>1, NumbersFrame DEF accVars, AccInserted
  <1>. QED BY <1>1, AccStepNumbers, TxKeepsOwner DEF Next, vars, tableVars

\* However many handlers create accounts at once, no two have one number.
THEOREM NumbersUnique == Spec => []AccountNumbersUnique
  <1>1. NumbersInv => AccountNumbersUnique
    BY DEF NumbersInv
  <1>. QED
    BY <1>1, TypeInit, TypeStep, RowsInit, RowsStep, NumbersInit, NumbersStep, PTL DEF Spec

-----------------------------------------------------------------------------
(* Greatest elements.                                                        *)

\* A set of natural numbers has a least one.
LEMMA LeastNatural ==
  ASSUME NEW T \in SUBSET Nat, T # {}
  PROVE  \E x \in T : \A y \in T : x <= y
  <1>1. PICK x \in T : \A y \in T : <<y, x>> \notin OpToRel(<, Nat)
    BY NatLessThanWellFounded, WFMin
  <1>2. \A y \in T : ~(y < x)
    BY <1>1 DEF OpToRel
  <1>. QED BY <1>2

\* A finite set of integers has a greatest: of the finite sets that had none, a
\* smallest one would lose an element and have none still.
LEMMA FiniteHasGreatest ==
  ASSUME NEW S \in SUBSET Int, IsFiniteSet(S), S # {}
  PROVE  \E x \in S : \A y \in S : y <= x
  <1>. DEFINE NoGreatest(T) == T # {} /\ \A x \in T : \E y \in T : ~(y <= x)
              Bad == {n \in Nat : \E T \in SUBSET S : Cardinality(T) = n /\ NoGreatest(T)}
  <1>. SUFFICES ASSUME NoGreatest(S)
                PROVE  FALSE
    OBVIOUS
  <1>1. \A T \in SUBSET S : IsFiniteSet(T) /\ Cardinality(T) \in Nat
    BY FS_Subset, FS_CardinalityType
  <1>2. Bad # {}
    BY <1>1
  <1>3. PICK n \in Bad : \A m \in Bad : n <= m
    BY <1>2, LeastNatural
  <1>4. PICK T \in SUBSET S : Cardinality(T) = n /\ NoGreatest(T)
    BY <1>3
  <1>5. PICK x \in T : TRUE
    BY <1>4
  <1>6. /\ T \ {x} \in SUBSET S /\ Cardinality(T \ {x}) \in Nat
        /\ Cardinality(T \ {x}) = n - 1
    <2>1. T \ {x} \in SUBSET S
      OBVIOUS
    <2>2. IsFiniteSet(T) /\ Cardinality(T \ {x}) \in Nat
      BY <1>1, <2>1
    <2>3. Cardinality(T \ {x}) = Cardinality(T) - 1
      BY <1>5, <2>2, FS_RemoveElement
    <2>. QED BY <1>4, <2>1, <2>2, <2>3
  <1>7. T \ {x} # {}
    <2>0. x \in Int
      BY <1>5
    <2>1. x \in Int /\ x <= x
      BY <2>0
    <2>2. PICK y \in T : ~(y <= x)
      BY <1>4
    <2>. QED BY <2>1, <2>2
  <1>8. ~NoGreatest(T \ {x})
    <2>. HIDE DEF NoGreatest
    <2>1. n - 1 \notin Bad /\ n - 1 \in Nat
      <3>. HIDE DEF Bad
      <3>1. n \in Nat
        BY DEF Bad
      <3>. QED BY <1>3, <1>6, <3>1
    <2>. QED BY <1>6, <2>1
  <1>9. PICK z \in T \ {x} : \A y \in T \ {x} : y <= z
    BY <1>7, <1>8
  <1>10. z \in Int /\ x \in Int /\ T \subseteq Int
    BY <1>9
  <1>. QED BY <1>4, <1>9, <1>10

-----------------------------------------------------------------------------
(* Sessions never wait in a circle.                                          *)

\* A session of the transaction service holds the locks of the rows it has
\* read, and reads them lowest id first; one of the account service takes a
\* lock in its last statement before the commit.
HoldersInv ==
  /\ \A a \in Accounts :
       /\ lock[a] \in TxSessions => locked_accounts[lock[a]][a] # None
       /\ lock[a] \in AccSessions => accPc[lock[a]] = "commit"
  /\ \A s \in TxSessions :
       /\ pc[s] \notin {"lock", "validate", "post", "commit"} => locked_accounts[s] = NoRows
       /\ \A a \in Accounts : locked_accounts[s][a] # None => \A b \in Unread(s) : a < b

\* A step of session s that takes no lock: it keeps what it holds or drops all.
LEMMA HoldersFrame ==
  ASSUME TypeInv, HoldersInv, UNCHANGED accVars, NEW s \in TxSessions,
         \A t \in TxSessions \ {s} :
           pc'[t] = pc[t] /\ req'[t] = req[t] /\ locked_accounts'[t] = locked_accounts[t],
         \/ /\ UNCHANGED <<lock, locked_accounts>>
            /\ req'[s] = req[s] \/ locked_accounts[s] = NoRows
            /\ pc'[s] \in {"lock", "validate", "post", "commit"} \/ locked_accounts[s] = NoRows
         \/ lock' = Unlocked(s) /\ locked_accounts' = [locked_accounts EXCEPT ![s] = NoRows]
  PROVE  HoldersInv'
  <1>. USE DEF TypeInv, TypeOK, TxTypeOK, TableTypeOK
  <1>1. \A a \in Accounts : lock'[a] \in TxSessions \cup AccSessions =>
          lock'[a] = lock[a] /\ (lock[a] = s => UNCHANGED <<lock, locked_accounts>>)
    BY SessionsAssumption DEF Unlocked, Sessions
  <1>2. ASSUME NEW a \in Accounts
        PROVE  /\ lock'[a] \in TxSessions => locked_accounts'[lock'[a]][a] # None
               /\ lock'[a] \in AccSessions => accPc'[lock'[a]] = "commit"
    BY <1>1 DEF HoldersInv, accVars
  <1>3. ASSUME NEW t \in TxSessions
        PROVE  /\ pc'[t] \notin {"lock", "validate", "post", "commit"} => locked_accounts'[t] = NoRows
               /\ \A a \in Accounts : locked_accounts'[t][a] # None => \A b \in Unread(t)' : a < b
    <2>1. CASE t # s
      BY <2>1, UnreadFrame DEF HoldersInv
    <2>2. CASE t = s /\ locked_accounts'[s] = NoRows
      BY <2>2 DEF NoRows
    <2>3. CASE t = s /\ locked_accounts'[s] # NoRows
      BY <2>3, UnreadFrame DEF HoldersInv
    <2>. QED BY <2>1, <2>2, <2>3
  <1>. QED BY <1>2, <1>3 DEF HoldersInv

LEMMA TxStepHolders ==
  ASSUME TypeInv, HoldersInv, TxNext, UNCHANGED accVars
  PROVE  HoldersInv'
  <1>. USE DEF TypeInv, TypeOK, TxTypeOK, TableTypeOK, GoTo
  <1>1. ASSUME NEW s \in TxSessions, NEW x, Abort(s, x)
        PROVE  HoldersInv'
    BY <1>1, HoldersFrame DEF Abort
  <1>2. ASSUME NEW s \in TxSessions, NEW r \in Requests, Start(s, r)
        PROVE  HoldersInv'
    BY <1>2, HoldersFrame DEF Start, HoldersInv, tableVars
  <1>3. ASSUME NEW s \in TxSessions,
               CheckIdempotency(s) \/ Replay(s) \/ Refresh(s) \/ WriteAudit(s) \/ Publish(s)
               \/ StoreIdempotency(s) \/ LoadEntries(s)
        PROVE  HoldersInv'
    <2>1. locked_accounts[s] = NoRows
      BY <1>3 DEF HoldersInv, CheckIdempotency, Replay, Refresh, WriteAudit, Publish,
                  StoreIdempotency, LoadEntries
    <2>. QED BY <1>3, <2>1, HoldersFrame
         DEF CheckIdempotency, Replay, Refresh, WriteAudit, Publish, StoreIdempotency, LoadEntries,
             tableVars
  <1>4. ASSUME NEW s \in TxSessions, LockAccount(s)
        PROVE  HoldersInv'
    <2>. DEFINE a == NextAccount(s)
    <2>1. /\ a \in Unread(s) /\ a \in Accounts /\ a \in Involved(req[s])
          /\ \A b \in Unread(s) : a <= b
      BY <1>4, NextAccountUnread DEF LockAccount, RowsRead, Unread
    <2>2. Row(a) # None
      BY <1>4, <2>1, RowOfExisting, UsersAssumption DEF LockAccount
    <2>3. /\ lock' = [lock EXCEPT ![a] = s]
          /\ locked_accounts' = [locked_accounts EXCEPT ![s][a] = Row(a)]
          /\ req' = req
          /\ pc'[s] \in {"lock", "validate"} /\ \A t \in TxSessions \ {s} : pc'[t] = pc[t]
      BY <1>4 DEF LockAccount
    <2>. HIDE DEF a
    <2>4. ASSUME NEW b \in Accounts
          PROVE  /\ lock'[b] \in TxSessions => locked_accounts'[lock'[b]][b] # None
                 /\ lock'[b] \in AccSessions => accPc'[lock'[b]] = "commit"
      <3>1. CASE b = a
        BY <2>1, <2>2, <2>3, <3>1, SessionsAssumption
      <3>2. CASE b # a
        BY <2>1, <2>3, <3>2 DEF HoldersInv, accVars
      <3>. QED BY <3>1, <3>2
    <2>5. Unread(s)' = Unread(s) \ {a}
      BY <2>1, <2>2, <2>3 DEF Unread, Involved
    <2>6. ASSUME NEW b \in Accounts, locked_accounts'[s][b] # None, NEW c \in Unread(s)'
          PROVE  b < c
      <3>1. c \in Unread(s) /\ c # a /\ a <= c
        BY <2>1, <2>5
      <3>2. a \in Int /\ c \in Int
        <4>1. Involved(req[s]) \subseteq Accounts
          BY <1>4, RequestParts DEF LockAccount
        <4>. QED BY <2>1, <3>1, <4>1, AccountsAssumption DEF Unread
      <3>3. CASE b = a
        BY <3>1, <3>2, <3>3
      <3>4. CASE b # a
        BY <2>3, <2>6, <3>1, <3>4 DEF HoldersInv
      <3>. QED BY <3>3, <3>4
    <2>7. ASSUME NEW t \in TxSessions \ {s}
          PROVE  /\ pc'[t] \notin {"lock", "validate", "post", "commit"} =>
                      locked_accounts'[t] = NoRows
                 /\ \A b \in Accounts : locked_accounts'[t][b] # None => \A c \in Unread(t)' : b < c
      BY <2>3, UnreadFrame DEF HoldersInv
    <2>. QED BY <2>3, <2>4, <2>6, <2>7 DEF HoldersInv
  <1>5. ASSUME NEW s \in TxSessions, InsertTransaction(s) \/ (Post(s) /\ ~Abort(s, "serverError"))
        PROVE  HoldersInv'
    BY <1>5, HoldersFrame DEF InsertTransaction, Post, tableVars
  <1>6. ASSUME NEW s \in TxSessions, Commit(s)
        PROVE  HoldersInv'
    BY <1>6, HoldersFrame DEF Commit
  <1>7. ASSUME NEW s \in TxSessions, Reply(s)
        PROVE  HoldersInv'
    <2>1. locked_accounts[s] = NoRows
      BY <1>7 DEF HoldersInv, Reply
    <2>2. locked_accounts' = locked_accounts
      BY <1>7, <2>1 DEF Reply, Forget
    <2>. QED BY <1>7, <2>1, <2>2, HoldersFrame DEF Reply, Forget, tableVars
  <1>8. ASSUME NEW s \in TxSessions, Crash(s)
        PROVE  HoldersInv'
    BY <1>8, HoldersFrame DEF Crash, Forget
  <1>9. ASSUME NEW k \in Keys, Expire(k)
        PROVE  HoldersInv'
    BY <1>9 DEF Expire, HoldersInv, tableVars, handlerVars, accVars, Unread
  <1>. QED
    BY <1>1, <1>2, <1>3, <1>4, <1>5, <1>6, <1>7, <1>8, <1>9
    DEF TxNext, Advance, LockMissing, Reject, InsertConflict, Post, Fail

LEMMA AccStepHolders ==
  ASSUME TypeInv, HoldersInv, AccNext, UNCHANGED txVars
  PROVE  HoldersInv'
  <1>. USE DEF TypeInv, TypeOK, AccTypeOK, TableTypeOK, AccGoTo
  <1>1. ASSUME \A a \in Accounts :
                 /\ lock'[a] \in TxSessions => lock'[a] = lock[a]
                 /\ lock'[a] \in AccSessions => accPc'[lock'[a]] = "commit"
        PROVE  HoldersInv'
    BY <1>1 DEF HoldersInv, txVars, handlerVars, Unread
  \* A session that moves on from its commit has dropped its locks.
  <1>2. ASSUME NEW w \in AccSessions,
               \A v \in AccSessions \ {w} : accPc'[v] = accPc[v],
               \/ lock' = Unlocked(w)
               \/ UNCHANGED lock /\ (accPc[w] # "commit" \/ accPc'[w] = "commit")
        PROVE  HoldersInv'
    <2>1. ASSUME NEW a \in Accounts
          PROVE  /\ lock'[a] \in TxSessions => lock'[a] = lock[a]
                 /\ lock'[a] \in AccSessions => accPc'[lock'[a]] = "commit"
      BY <1>2, SessionsAssumption DEF HoldersInv, Unlocked, Sessions
    <2>. QED BY <1>1, <2>1
  <1>3. ASSUME NEW w \in AccSessions, NEW r \in AccRequests, AccStart(w, r)
        PROVE  HoldersInv'
    BY <1>2, <1>3 DEF AccStart, tableVars
  <1>4. ASSUME NEW w \in AccSessions,
               PickNumber(w) \/ InsertAccount(w) \/ GetAccount(w) \/ AccCommit(w) \/ AccReply(w)
               \/ AccFail(w) \/ AccCrash(w)
        PROVE  HoldersInv'
    BY <1>2, <1>4
    DEF PickNumber, InsertAccount, GetAccount, AccCommit, AccReply, AccFail, AccCrash, AccForget, AccEnd
  <1>5. ASSUME NEW w \in AccSessions, Apply(w)
        PROVE  HoldersInv'
    <2>1. CASE lock' = Unlocked(w) \/ UNCHANGED lock
      BY <1>2, <1>5, <2>1 DEF Apply, AccEnd
    <2>2. CASE ~(lock' = Unlocked(w) \/ UNCHANGED lock)
      <3>1. /\ lock' = [lock EXCEPT ![accObj[w].id] = w]
            /\ accPc' = [accPc EXCEPT ![w] = "commit"]
        BY <1>5, <2>2 DEF Apply, AccEnd
      <3>. QED BY <1>1, <3>1, SessionsAssumption DEF HoldersInv
    <2>. QED BY <2>1, <2>2
  <1>. QED BY <1>3, <1>4, <1>5 DEF AccNext, AccStep

LEMMA HoldersInit == Init => HoldersInv
  BY SessionsAssumption DEF Init, TableInit, TxInit, HoldersInv, NoRows, Sessions

LEMMA HoldersStep == TypeInv /\ HoldersInv /\ [Next]_vars => HoldersInv'
  <1>. SUFFICES ASSUME TypeInv, HoldersInv, [Next]_vars PROVE HoldersInv'
    OBVIOUS
  <1>1. CASE UNCHANGED vars
    BY <1>1 DEF vars, tableVars, txVars, handlerVars, accVars, HoldersInv, Unread
  <1>. QED BY <1>1, TxStepHolders, AccStepHolders DEF Next

\* Of the sessions that wait for each other, those that wait for a key or a
\* number wait for one about to commit, which waits for nobody, and so do those
\* that wait for a lock of the account service.  The others wait for locks; the
\* one that waits for the greatest id waits for a session whose next id is
\* greater still.
LEMMA NoCircle == TypeInv /\ HoldersInv => NoCircularWait
  <1>. SUFFICES ASSUME TypeInv, HoldersInv, NEW S \in SUBSET Sessions, S # {},
                       \A s \in S : \E t \in S : WaitsFor(s, t)
                PROVE  FALSE
    BY DEF NoCircularWait
  <1>. USE DEF TypeInv, TypeOK, TableTypeOK, TxTypeOK, AccTypeOK
  <1>. DEFINE Waiting == {s \in S : s \in TxSessions /\ pc[s] = "lock"}
              Awaited == {NextAccount(s) : s \in Waiting}
  <1>1. \A s \in S : s \in TxSessions \/ s \in AccSessions
    BY DEF Sessions
  <1>2. \A t \in S : t \in TxSessions => ~Inserted(t)
    BY SessionsAssumption DEF WaitsFor, Inserted
  <1>3. \A t \in S : t \in AccSessions => accPc[t] # "commit"
    BY SessionsAssumption DEF WaitsFor
  \* Who waits for a session of S waits for a row lock of the transaction service.
  <1>4. ASSUME NEW s \in S, NEW t \in S, WaitsFor(s, t)
        PROVE  /\ t \in Waiting
               /\ s \in TxSessions => s \in Waiting
               /\ s \in Waiting => lock[NextAccount(s)] = t
    <2>1. s \in TxSessions => s \in Waiting /\ lock[NextAccount(s)] = t
      BY <1>2, <1>4, SessionsAssumption DEF WaitsFor
    <2>2. \E a \in Accounts : lock[a] = t
      <3>1. CASE s \in TxSessions
        <4>1. NextAccount(s) \in Accounts
          BY <2>1, <3>1, NextAccountUnread DEF RowsRead
        <4>. QED BY <2>1, <3>1, <4>1
      <3>2. CASE s \in AccSessions
        <4>1. accPc[s] = "apply" /\ lock[accObj[s].id] = t
          BY <1>3, <1>4, <3>2, SessionsAssumption DEF WaitsFor, AccInserted
        <4>2. accObj[s].id \in Accounts
          BY <3>2, <4>1 DEF AccObjType
        <4>. QED BY <4>1, <4>2
      <3>. QED BY <1>1, <3>1, <3>2
    <2>3. t \in TxSessions
      BY <1>1, <1>3, <2>2 DEF HoldersInv
    <2>4. PICK u \in S : WaitsFor(t, u)
      OBVIOUS
    <2>5. t \in Waiting
      BY <1>2, <2>3, <2>4, SessionsAssumption DEF WaitsFor
    <2>. QED BY <2>1, <2>5
  <1>5. Waiting # {}
    BY <1>4
  <1>6. \A s \in Waiting : NextAccount(s) \in Accounts /\ NextAccount(s) \in Unread(s)
    BY NextAccountUnread DEF RowsRead
  <1>7. Awaited \subseteq Accounts /\ Awaited # {} /\ IsFiniteSet(Awaited) /\ Awaited \subseteq Int
    <2>. HIDE DEF Waiting
    <2>1. Awaited \subseteq Accounts /\ Awaited # {}
      BY <1>5, <1>6
    <2>2. IsFiniteSet(Awaited)
      BY <2>1, AccountsAssumption, FS_Subset
    <2>3. Awaited \subseteq Int
      BY <2>1, AccountsAssumption
    <2>. QED BY <2>1, <2>2, <2>3
  <1>8. PICK s \in Waiting : \A t \in Waiting : NextAccount(t) <= NextAccount(s)
    <2>1. PICK a \in Awaited : \A b \in Awaited : b <= a
      BY <1>7, FiniteHasGreatest
    <2>. QED BY <2>1
  <1>9. PICK t \in S : WaitsFor(s, t)
    OBVIOUS
  <1>10. t \in Waiting /\ lock[NextAccount(s)] = t
    BY <1>4, <1>9
  <1>11. NextAccount(s) < NextAccount(t)
    <2>1. locked_accounts[t][NextAccount(s)] # None
      BY <1>6, <1>10 DEF HoldersInv
    <2>. QED BY <1>6, <1>10, <2>1 DEF HoldersInv
  <1>12. NextAccount(s) \in Int /\ NextAccount(t) \in Int
    BY <1>6, <1>10, AccountsAssumption
  <1>. QED BY <1>8, <1>10, <1>11, <1>12

\* No sessions of the two services, however many, wait for each other in a circle.
THEOREM NoDeadlock == Spec => []NoCircularWait
  BY TypeInit, TypeStep, HoldersInit, HoldersStep, NoCircle, PTL DEF Spec

-----------------------------------------------------------------------------
(* The two services implement the ledger, as long as no request pays an      *)
(* account from itself: of such a request the source's update is lost.       *)

NoSelfPayment == \A r \in Requests : r.from # r.to

\* A closed account is beyond reach: no balance compares equal to zero.
Usable == {"ACTIVE", "FROZEN"}

OwnerChecked == \A s \in TxSessions : Inserted(s) => Owned(s)

\* An account session updates an account that exists, never to CLOSED, and the
\* account it is about to insert is active.
UpdatesUsable ==
  /\ \A a \in Accounts : status[a] \in Usable
  /\ \A w \in AccSessions :
       /\ accObj[w] # None => accObj[w].status \in Usable
       /\ accPc[w] \in {"number", "insert"} => accReq[w].op = "create"
       /\ Creating(w) => accObj[w].status = "ACTIVE"
       /\ accPc[w] \in {"apply", "commit"} /\ accReq[w].op # "create" => Exists(accObj[w].id)
       /\ accPc[w] = "commit" /\ accReq[w].op # "create" => Wanted(w) \in Usable

StandingInv == OwnerChecked /\ UpdatesUsable

LEMMA TxStepOwned ==
  ASSUME TypeInv, OwnerChecked, TxNext
  PROVE  OwnerChecked'
  <1>. USE DEF TypeInv, TypeOK, TxTypeOK, GoTo
  <1>1. ASSUME NEW s \in TxSessions, Inserted(s)' => Owned(s)',
               \A t \in TxSessions \ {s} :
                 pc'[t] = pc[t] /\ req'[t] = req[t] /\ locked_accounts'[t] = locked_accounts[t]
        PROVE  OwnerChecked'
    BY <1>1 DEF OwnerChecked, Inserted, Owned, Subject
  <1>2. ASSUME NEW s \in TxSessions, NEW x, Abort(s, x)
        PROVE  OwnerChecked'
    BY <1>1, <1>2 DEF Abort, Inserted
  <1>3. ASSUME NEW s \in TxSessions,
               \/ \E r \in Requests : Start(s, r)
               \/ CheckIdempotency(s) \/ Replay(s) \/ LockAccount(s) \/ Commit(s)
               \/ Refresh(s) \/ WriteAudit(s) \/ Publish(s)
               \/ StoreIdempotency(s) \/ LoadEntries(s) \/ Reply(s) \/ Crash(s)
        PROVE  OwnerChecked'
    <2>1. ASSUME NEW t \in TxSessions \ {s}
          PROVE  pc'[t] = pc[t] /\ req'[t] = req[t] /\ locked_accounts'[t] = locked_accounts[t]
      BY <1>3, <2>1 DEF Start, CheckIdempotency, Replay, LockAccount, Commit, Refresh, WriteAudit,
        Publish, StoreIdempotency, LoadEntries, Reply, Crash, Forget
    <2>2. ~Inserted(s)'
      BY <1>3 DEF Start, CheckIdempotency, Replay, LockAccount, Commit, Refresh, WriteAudit, Publish,
        StoreIdempotency, LoadEntries, Reply, Crash, Forget, Inserted
    <2>. QED BY <1>1, <2>1, <2>2
  <1>4. ASSUME NEW s \in TxSessions, InsertTransaction(s) \/ (Post(s) /\ ~Abort(s, "serverError"))
        PROVE  OwnerChecked'
    <2>1. Owned(s)
      BY <1>4 DEF InsertTransaction, Post, OwnerChecked, Inserted
    <2>2. Owned(s)' = Owned(s)
      BY <1>4 DEF InsertTransaction, Post, Owned, Subject
    <2>. QED BY <1>1, <1>4, <2>1, <2>2 DEF InsertTransaction, Post
  <1>5. ASSUME NEW k \in Keys, Expire(k)
        PROVE  OwnerChecked'
    BY <1>5 DEF Expire, handlerVars, OwnerChecked, Inserted, Owned, Subject
  <1>. QED
    BY <1>2, <1>3, <1>4, <1>5
    DEF TxNext, Advance, LockMissing, Reject, InsertConflict, Post, Fail

LEMMA TxKeepsStatus == TxNext => UNCHANGED status
  BY DEF TxNext, Advance, Start, CheckIdempotency, Replay, LockAccount, LockMissing, Reject,
         InsertTransaction, InsertConflict, Post, Commit, Refresh, WriteAudit, Publish,
         StoreIdempotency, LoadEntries, Reply, Fail, Crash, Expire, Abort, tableVars

\* Account session w moves; what the others are about is unchanged.
LEMMA UsableFrame ==
  ASSUME UpdatesUsable, NEW w \in AccSessions,
         \A v \in AccSessions \ {w} :
           accPc'[v] = accPc[v] /\ accReq'[v] = accReq[v] /\ accObj'[v] = accObj[v],
         \A a \in Accounts : status'[a] \in Usable,
         \A v \in AccSessions \ {w} :
           accPc[v] \in {"apply", "commit"} /\ Exists(accObj[v].id) => Exists(accObj[v].id)',
         /\ accObj'[w] # None => accObj'[w].status \in Usable
         /\ accPc'[w] \in {"number", "insert"} => accReq'[w].op = "create"
         /\ Creating(w)' => accObj'[w].status = "ACTIVE"
         /\ accPc'[w] \in {"apply", "commit"} /\ accReq'[w].op # "create" => Exists(accObj[w].id)'
         /\ accPc'[w] = "commit" /\ accReq'[w].op # "create" => Wanted(w)' \in Usable
  PROVE  UpdatesUsable'
  BY DEF UpdatesUsable, Creating, Wanted, Exists

LEMMA AccStepUsable ==
  ASSUME TypeInv, UpdatesUsable, AccNext
  PROVE  UpdatesUsable'
  <1>. USE DEF TypeInv, TypeOK, AccTypeOK, TableTypeOK, AccGoTo
  \* A step of w that leaves the table alone.
  <1>1. ASSUME NEW w \in AccSessions,
               \A v \in AccSessions \ {w} :
                 accPc'[v] = accPc[v] /\ accReq'[v] = accReq[v] /\ accObj'[v] = accObj[v],
               UNCHANGED <<owner, status>>,
               accObj'[w] # None => accObj'[w].status \in Usable,
               accPc'[w] \in {"number", "insert"} => accReq'[w].op = "create",
               Creating(w)' => accObj'[w].status = "ACTIVE",
               accPc'[w] \in {"apply", "commit"} /\ accReq'[w].op # "create" => Exists(accObj[w].id)',
               accPc'[w] = "commit" /\ accReq'[w].op # "create" => Wanted(w)' \in Usable
        PROVE  UpdatesUsable'
    BY <1>1, UsableFrame DEF UpdatesUsable, Exists
  <1>2. ASSUME NEW w \in AccSessions, NEW r \in AccRequests, AccStart(w, r)
        PROVE  UpdatesUsable'
    BY <1>1, <1>2 DEF AccStart, tableVars, Creating, UpdatesUsable
  \* The handler has ended.
  <1>3. ASSUME NEW w \in AccSessions, NEW x, AccEnd(w, x), UNCHANGED <<owner, status, accReq, accObj>>
        PROVE  UpdatesUsable'
    BY <1>1, <1>3 DEF AccEnd, Creating, UpdatesUsable
  <1>4. ASSUME NEW w \in AccSessions, PickNumber(w)
        PROVE  UpdatesUsable'
    <2>1. CASE AccEnd(w, "validationError") /\ UNCHANGED accObj
      BY <1>3, <1>4, <2>1 DEF PickNumber
    <2>2. CASE ~(AccEnd(w, "validationError") /\ UNCHANGED accObj)
      <3>1. /\ accObj'[w].status = "ACTIVE" /\ accPc'[w] = "insert" /\ accReq[w].op = "create"
            /\ \A v \in AccSessions \ {w} : accPc'[v] = accPc[v] /\ accObj'[v] = accObj[v]
            /\ UNCHANGED <<owner, status, accReq>>
        BY <1>4, <2>2 DEF PickNumber, UpdatesUsable
      <3>. QED BY <1>1, <3>1 DEF Usable
    <2>. QED BY <2>1, <2>2
  <1>5. ASSUME NEW w \in AccSessions, InsertAccount(w)
        PROVE  UpdatesUsable'
    <2>1. CASE NumberConflict(w)
      BY <1>3, <1>5, <2>1 DEF InsertAccount
    <2>2. CASE ~NumberConflict(w)
      <3>1. Creating(w)
        BY <1>5 DEF InsertAccount, Creating, UpdatesUsable
      <3>. QED BY <1>1, <1>5, <2>2, <3>1 DEF InsertAccount, Creating, UpdatesUsable
    <2>. QED BY <2>1, <2>2
  <1>6. ASSUME NEW w \in AccSessions, GetAccount(w)
        PROVE  UpdatesUsable'
    <2>. DEFINE a == accReq[w].account
    <2>1. CASE Exists(a) /\ owner[a] = accReq[w].user
      <3>1. a \in Accounts
        BY <1>6, AccRequestsAssumption DEF GetAccount, AccRequestType
      <3>2. /\ accObj'[w].status = status[a] /\ accObj'[w].id = a
            /\ accPc'[w] = "apply" /\ accReq[w].op # "create"
            /\ \A v \in AccSessions \ {w} : accPc'[v] = accPc[v] /\ accObj'[v] = accObj[v]
            /\ UNCHANGED <<owner, status, accReq>>
        BY <1>6, <2>1 DEF GetAccount
      <3>. QED BY <1>1, <2>1, <3>1, <3>2 DEF UpdatesUsable, Creating, Exists
    <2>2. CASE ~(Exists(a) /\ owner[a] = accReq[w].user)
      BY <1>3, <1>6, <2>2 DEF GetAccount
    <2>. QED BY <2>1, <2>2
  \* A request that would close the account is refused here.
  <1>7. ASSUME NEW w \in AccSessions, Apply(w)
        PROVE  UpdatesUsable'
    <2>1. CASE CloseRefused(w)
      BY <1>3, <1>7, <2>1 DEF Apply
    <2>2. CASE ~CloseRefused(w)
      <3>1. NonZero(w)
        BY DEF NonZero, Loaded, Decimal
      <3>2. accReq[w].op # "close" /\ accReq[w].status # "CLOSED"
        BY <2>2, <3>1 DEF CloseRefused
      <3>3. accReq[w].status \in Statuses \cup {"unset"} /\ accReq[w].op # "create" /\ accObj[w] # None
        BY <1>7, AccRequestsAssumption DEF Apply, AccRequestType
      <3>4. Wanted(w) \in Usable
        BY <3>2, <3>3 DEF UpdatesUsable, Wanted, Usable, Statuses
      <3>5. /\ accPc' = [accPc EXCEPT ![w] = "commit"] /\ UNCHANGED <<owner, status, accReq, accObj>>
            /\ Wanted(w)' = Wanted(w)
        BY <1>7, <2>2 DEF Apply, Wanted
      <3>6. Exists(accObj[w].id)' /\ accObj[w].status \in Usable
        BY <1>7, <3>3, <3>5 DEF UpdatesUsable, Apply, Exists
      <3>. QED BY <1>1, <3>3, <3>4, <3>5, <3>6 DEF Creating
    <2>. QED BY <2>1, <2>2
  <1>8. ASSUME NEW w \in AccSessions, AccCommit(w)
        PROVE  UpdatesUsable'
    <2>1. accObj[w] # None /\ accObj[w].id \in Accounts
      BY <1>8 DEF AccCommit, AccObjType
    <2>2. accReq[w].user # None
      BY <1>8, UsersAssumption, AccRequestsAssumption DEF AccCommit, AccRequestType
    <2>3. \A a \in Accounts : Exists(a) => Exists(a)'
      BY <1>8, <2>1, <2>2 DEF AccCommit, Exists
    <2>4. \A a \in Accounts : status'[a] \in Usable
      <3>1. CASE accReq[w].op = "create"
        BY <1>8, <2>1, <3>1 DEF AccCommit, UpdatesUsable
      <3>2. CASE accReq[w].op # "create"
        BY <1>8, <2>1, <3>2 DEF AccCommit, UpdatesUsable
      <3>. QED BY <3>1, <3>2
    <2>5. /\ accPc'[w] = "done" /\ accObj'[w] = accObj[w]
          /\ \A v \in AccSessions \ {w} :
               accPc'[v] = accPc[v] /\ accReq'[v] = accReq[v] /\ accObj'[v] = accObj[v]
      BY <1>8 DEF AccCommit, AccEnd
    <2>6. \A v \in AccSessions : accPc[v] \in {"apply", "commit"} => accObj[v].id \in Accounts
      BY DEF AccObjType
    <2>. QED BY <2>1, <2>3, <2>4, <2>5, <2>6, UsableFrame DEF Creating, UpdatesUsable
  <1>9. ASSUME NEW w \in AccSessions, AccReply(w) \/ AccCrash(w)
        PROVE  UpdatesUsable'
    <2>1. AccForget(w)
      BY <1>9 DEF AccReply, AccCrash
    <2>. QED BY <1>1, <2>1 DEF AccForget, Creating
  <1>10. ASSUME NEW w \in AccSessions, AccFail(w)
         PROVE  UpdatesUsable'
    BY <1>3, <1>10 DEF AccFail
  <1>. QED BY <1>2, <1>4, <1>5, <1>6, <1>7, <1>8, <1>9, <1>10 DEF AccNext, AccStep

LEMMA StandingInit == Init => StandingInv
  BY DEF Init, TableInit, TxInit, AccInit, StandingInv, OwnerChecked, UpdatesUsable, Usable,
         Inserted, Creating

LEMMA StandingStep == TypeInv /\ StandingInv /\ [Next]_vars => StandingInv'
  <1>. SUFFICES ASSUME TypeInv, StandingInv, [Next]_vars PROVE StandingInv'
    OBVIOUS
  <1>1. ASSUME UNCHANGED txVars PROVE OwnerChecked'
    BY <1>1 DEF StandingInv, OwnerChecked, Inserted, Owned, Subject, txVars, handlerVars
  <1>2. ASSUME UNCHANGED <<owner, status, accVars>> PROVE UpdatesUsable'
    BY <1>2 DEF StandingInv, UpdatesUsable, Creating, Wanted, Exists, accVars
  <1>. QED
    BY <1>1, <1>2, TxStepOwned, TxKeepsOwner, TxKeepsStatus, AccStepUsable
    DEF Next, StandingInv, vars, tableVars

\* The ledger's own names for what the code's tables hold.
LEMMA LedgerInitially == Init => LedgerView!LedgerInit
  BY DEF Init, TableInit, TxInit, LedgerView!LedgerInit

\* A commit of the transaction service posts its request, at once.
LEMMA CommitPosts ==
  ASSUME NoSelfPayment, TypeInv, RowsInv, PostingInv, StandingInv,
         NEW s \in TxSessions, Commit(s), NEW r \in Requests, r = req[s]
  PROVE  LedgerView!Post(r)
  <1>. USE DEF TypeInv, TypeOK, TxTypeOK, TableTypeOK
  <1>. DEFINE view(T) == {[key |-> t.key, from |-> t.from, to |-> t.to, amount |-> t.amount] : t \in T}
              row == [id |-> txId[s], key |-> r.key, from |-> r.from, to |-> r.to, amount |-> r.amount]
  <1>1. /\ pc[s] = "commit"
        /\ Unfrozen(s) /\ Funded(s) /\ Owned(s) /\ ~KeyTaken(r.key)
        /\ \A a \in Involved(r) : NewBalance(s, a) <= MaxBalance
    BY DEF Commit, PostingInv, Checked, StandingInv, OwnerChecked, Inserted
  <1>2. /\ r.from # r.to /\ r.amount \in Nat \ {0} /\ MaxBalance \in Nat
        /\ r.from \in Accounts \cup {None} /\ r.to \in Accounts \cup {None}
        /\ r.from # None \/ r.to # None
    BY <1>1, RequestParts, InitialAssumption DEF NoSelfPayment
  <1>3. ASSUME NEW a \in Involved(r)
        PROVE  a \in Accounts /\ Exists(a) /\ locked_accounts[s][a] = Row(a)
    BY <1>1, HeldRows DEF RowsInv
  <1>4. ASSUME NEW a \in Accounts
        PROVE  NewBalance(s, a) = balance[a] + LedgerView!Delta(r, a)
    <2>1. NewBalance(s, a) = IF a = r.to THEN balance[a] + r.amount
                             ELSE IF a = r.from THEN balance[a] - r.amount
                             ELSE balance[a]
      BY <1>1, CommittedBalance DEF RowsInv
    <2>2. balance[a] \in Int
      OBVIOUS
    <2>. QED BY <1>2, <2>1, <2>2 DEF LedgerView!Delta
  <1>5. \A p \in view(transactions) : p.key # r.key
    BY <1>1 DEF KeyTaken
  <1>6. ASSUME NEW a \in {r.from, r.to} \ {None}
        PROVE  /\ owner[a] # None
               /\ status[a] # "FROZEN"
               /\ balance[a] + LedgerView!Delta(r, a) \in 0 .. MaxBalance
    <2>1. a \in Involved(r) /\ a \in Accounts /\ Exists(a) /\ locked_accounts[s][a] = Row(a)
      BY <1>3 DEF Involved
    <2>2. status[a] # "FROZEN"
      BY <1>1, <2>1 DEF Unfrozen, Row
    <2>3. NewBalance(s, a) \in 0 .. MaxBalance
      <3>1. balance[a] \in 0 .. MaxBalance /\ NewBalance(s, a) <= MaxBalance
        BY <1>1, <2>1 DEF PostingInv, BalancesInRange
      <3>2. CASE a = r.from
        <4>1. balance[a] >= r.amount
          BY <1>1, <2>1, <3>2 DEF Funded, Row
        <4>. QED BY <1>2, <1>4, <2>1, <3>1, <3>2, <4>1 DEF LedgerView!Delta
      <3>3. CASE a # r.from
        <4>1. a = r.to
          BY <3>3
        <4>. QED BY <1>2, <1>4, <2>1, <3>1, <3>3, <4>1 DEF LedgerView!Delta
      <3>. QED BY <3>2, <3>3
    <2>. QED BY <1>4, <2>1, <2>2, <2>3 DEF Exists
  <1>7. r.user = owner[IF r.from # None THEN r.from ELSE r.to]
    <2>1. Subject(r) \in Involved(r)
      BY <1>2 DEF Subject, Involved
    <2>2. locked_accounts[s][Subject(r)].owner = owner[Subject(r)]
      <3>1. locked_accounts[s][Subject(r)] = Row(Subject(r))
        BY <1>3, <2>1
      <3>2. Row(Subject(r)).owner = owner[Subject(r)]
        BY DEF Row
      <3>. QED BY <3>1, <3>2
    <2>3. locked_accounts[s][Subject(r)].owner = r.user
      BY <1>1 DEF Owned
    <2>. QED BY <2>2, <2>3 DEF Subject
  <1>8. balance' = [a \in Accounts |-> balance[a] + LedgerView!Delta(r, a)]
    BY <1>4 DEF Commit
  <1>9. view(transactions)' = view(transactions) \cup {LedgerView!Posting(r)}
    <2>1. transactions' = transactions \cup {row}
      BY DEF Commit
    <2>2. /\ row.key = r.key /\ row.from = r.from /\ row.to = r.to /\ row.amount = r.amount
      OBVIOUS
    <2>. HIDE DEF row
    <2>3. view(transactions \cup {row}) = view(transactions) \cup view({row})
      OBVIOUS
    <2>4. view({row}) = {LedgerView!Posting(r)}
      BY <2>2 DEF LedgerView!Posting
    <2>. QED BY <2>1, <2>3, <2>4
  <1>10. UNCHANGED <<owner, status>>
    BY DEF Commit
  <1>. QED BY <1>5, <1>6, <1>7, <1>8, <1>9, <1>10 DEF LedgerView!Post

\* A commit of the account service opens an account, sets a status, or shows
\* nothing.
LEMMA AccCommitShows ==
  ASSUME TypeInv, RowsInv, StandingInv, NEW w \in AccSessions, AccCommit(w), UNCHANGED txVars
  PROVE  [LedgerView!LedgerNext]_(LedgerView!ledgerVars)
  <1>. USE DEF TypeInv, TypeOK, AccTypeOK, TableTypeOK
  <1>. DEFINE a == accObj[w].id
  <1>1. a \in Accounts /\ accPc[w] = "commit"
    BY DEF AccCommit, AccObjType
  <1>2. UNCHANGED transactions
    BY DEF txVars, storeVars
  <1>3. CASE accReq[w].op = "create"
    <2>1. Creating(w) /\ accReq[w].user \in Users
      BY <1>1, <1>3, AccRequestsAssumption DEF Creating, AccRequestType
    <2>2. owner[a] = None /\ accObj[w].balance = 0 /\ accObj[w].status = "ACTIVE"
      BY <2>1 DEF RowsInv, FreshAccounts, Exists, StandingInv, UpdatesUsable
    <2>3. LedgerView!Open(a, accReq[w].user)
      BY <1>2, <1>3, <2>2 DEF AccCommit, LedgerView!Open
    <2>. QED BY <1>1, <2>1, <2>3 DEF LedgerView!LedgerNext
  <1>4. CASE accReq[w].op # "create" /\ lock[a] = w
    <2>1. owner[a] # None /\ Wanted(w) \in {"ACTIVE", "FROZEN"}
      BY <1>1, <1>4 DEF StandingInv, UpdatesUsable, Exists, Usable
    <2>2. LedgerView!SetStatus(a, Wanted(w))
      BY <1>2, <1>4, <2>1 DEF AccCommit, LedgerView!SetStatus
    <2>. QED BY <1>1, <2>1, <2>2 DEF LedgerView!LedgerNext
  <1>5. CASE accReq[w].op # "create" /\ lock[a] # w
    BY <1>2, <1>5 DEF AccCommit, LedgerView!ledgerVars
  <1>. QED BY <1>3, <1>4, <1>5

\* Whatever commits nothing shows nothing.
LEMMA OthersShowNothing ==
  ASSUME Next, \A s \in TxSessions : ~Commit(s), \A w \in AccSessions : ~AccCommit(w)
  PROVE  UNCHANGED <<owner, balance, status, transactions>>
  BY DEF Next, TxNext, AccNext, Advance, AccStep, Start, CheckIdempotency, Replay, LockAccount,
         LockMissing, Reject, InsertTransaction, InsertConflict, Post, Refresh, WriteAudit, Publish,
         StoreIdempotency, LoadEntries, Reply, Fail, Crash, Expire, Abort, AccStart, PickNumber,
         InsertAccount, GetAccount, Apply, AccReply, AccFail, AccCrash, AccForget, tableVars,
         txVars, storeVars

LEMMA LedgerStep ==
  ASSUME NoSelfPayment
  PROVE  TypeInv /\ RowsInv /\ PostingInv /\ StandingInv /\ [Next]_vars =>
           [LedgerView!LedgerNext]_(LedgerView!ledgerVars)
  <1>. SUFFICES ASSUME TypeInv, RowsInv, PostingInv, StandingInv, [Next]_vars
                PROVE  [LedgerView!LedgerNext]_(LedgerView!ledgerVars)
    OBVIOUS
  <1>1. CASE \E s \in TxSessions : Commit(s)
    <2>1. PICK s \in TxSessions : Commit(s)
      BY <1>1
    <2>2. req[s] \in Requests
      BY <2>1 DEF Commit, TypeInv, TypeOK, TxTypeOK
    <2>3. PICK r \in Requests : r = req[s]
      BY <2>2
    <2>4. LedgerView!Post(r)
      BY <2>1, <2>3, CommitPosts
    <2>. QED BY <2>4 DEF LedgerView!LedgerNext
  <1>2. CASE Next /\ \E w \in AccSessions : AccCommit(w)
    <2>1. PICK w \in AccSessions : AccCommit(w)
      BY <1>2
    <2>2. CASE UNCHANGED txVars
      BY <2>1, <2>2, AccCommitShows
    <2>3. CASE ~UNCHANGED txVars
      <3>1. UNCHANGED accVars
        BY <1>2, <2>3 DEF Next
      <3>2. accPc[w] = "commit" /\ accPc'[w] = "done"
        BY <2>1 DEF AccCommit, AccEnd, AccGoTo, TypeInv, TypeOK, AccTypeOK
      <3>. QED BY <3>1, <3>2 DEF accVars
    <2>. QED BY <2>2, <2>3
  <1>3. CASE /\ Next
             /\ \A s \in TxSessions : ~Commit(s)
             /\ \A w \in AccSessions : ~AccCommit(w)
    BY <1>3, OthersShowNothing DEF LedgerView!ledgerVars
  <1>4. CASE UNCHANGED vars
    BY <1>4 DEF vars, tableVars, txVars, storeVars, LedgerView!ledgerVars
  <1>. QED BY <1>1, <1>2, <1>3, <1>4

\* What the two services do together, whatever they interleave, repeat and
\* lose, is what the ledger allows.
THEOREM Refinement ==
  ASSUME NoSelfPayment
  PROVE  Spec => ImplementsLedger
  BY TypeInit, TypeStep, RowsInit, RowsStep, PostingInit, PostingStep, StandingInit, StandingStep,
     LedgerInitially, LedgerStep, PTL
  DEF Spec, ImplementsLedger, LedgerView!LedgerSpec
=============================================================================
