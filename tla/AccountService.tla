--------------------------- MODULE AccountService ---------------------------
(* create_account, update_account and close_account of the account service.  *)
(* An account session is one request handler with the database session its   *)
(* get_db gives it: the handler reads and writes through the ORM and get_db  *)
(* commits when it returns.  Nothing is locked when an account is read.      *)
EXTENDS AccountsTable

CONSTANTS
  AccRequests,   \* requests clients send
  Numbers        \* the ten-digit account numbers

Ops == {"create", "update", "close"}

\* PATCH may leave the status out ("unset").
AccRequestType == [op : Ops, user : Users, account : Accounts \cup {None},
                   status : Statuses \cup {"unset"}]

ASSUME AccRequestsAssumption ==
  /\ AccRequests \subseteq AccRequestType
  /\ \A r \in AccRequests : r.op # "create" => r.account # None
  /\ None \notin AccRequests /\ None \notin Numbers

VARIABLES
  number,      \* account_number of the committed rows
  accPc,       \* where the handler of the session is
  accReq,      \* the request it handles
  accObj,      \* the ORM object: the account it loaded, or is about to insert
  accAnswer    \* its response

accVars == <<number, accPc, accReq, accObj, accAnswer>>

AccObjType == [id : Accounts, number : Numbers, balance : Int, status : Statuses]

ASSUME AccObjAssumption == None \notin AccObjType

\* The numbers accounts opened before the behaviour have: any, all different.
AccInit ==
  /\ number \in [Accounts -> Numbers \cup {None}]
  /\ \A a \in Accounts : number[a] = None <=> ~Exists(a)
  /\ \A a, b \in Accounts : Exists(a) /\ number[a] = number[b] => a = b
  /\ accPc = [w \in AccSessions |-> "idle"]
  /\ accReq = [w \in AccSessions |-> None]
  /\ accObj = [w \in AccSessions |-> None]
  /\ accAnswer = [w \in AccSessions |-> None]

\* A balance as the ORM loads it and as the code compares it: the column is
\* String(20), so a str, and a str never equals a Decimal.
Loaded(b) == <<"str", b>>
Decimal(b) == <<"Decimal", b>>
NonZero(w) == Loaded(accObj[w].balance) # Decimal(0)

NumberUsed(n) == \E a \in Accounts : number[a] = n

\* Session w has flushed the INSERT of its new account and not committed it.
AccInserted(w) == accPc[w] = "commit" /\ accReq[w].op = "create"

AccGoTo(w, label) == accPc' = [accPc EXCEPT ![w] = label]

\* The handler ends and get_db rolls back, or had nothing left to commit.
AccEnd(w, a) ==
  /\ AccGoTo(w, "done")
  /\ accAnswer' = [accAnswer EXCEPT ![w] = a]
  /\ lock' = Unlocked(w)

AccStart(w, r) ==
  /\ accPc[w] = "idle"
  /\ accReq' = [accReq EXCEPT ![w] = r]
  /\ AccGoTo(w, IF r.op = "create" THEN "number" ELSE "get")
  /\ UNCHANGED <<tableVars, number, accObj, accAnswer>>

-----------------------------------------------------------------------------
(* create_account                                                            *)

\* Ten draws: one hits a number no committed account has, or all collide.
PickNumber(w) ==
  /\ accPc[w] = "number"
  /\ \/ \E n \in Numbers, a \in Accounts :
          /\ ~NumberUsed(n)
          /\ ~Exists(a) /\ \A v \in AccSessions : accObj[v] # None => accObj[v].id # a
          /\ accObj' = [accObj EXCEPT ![w] = [id |-> a, number |-> n, balance |-> 0, status |-> "ACTIVE"]]
          /\ AccGoTo(w, "insert")
          /\ UNCHANGED <<accAnswer, lock>>
     \/ (\E n \in Numbers : NumberUsed(n)) /\ AccEnd(w, "validationError") /\ UNCHANGED accObj
  /\ UNCHANGED <<owner, balance, status, number, accReq>>

\* Mutant: the column account_number is not unique.
NoNumberConflict(w) == FALSE

NumberConflict(w) == NumberUsed(accObj[w].number)

\* The flush waits for an uncommitted row with the same number; a committed one
\* is an IntegrityError, answered 500.
InsertAccount(w) ==
  /\ accPc[w] = "insert"
  /\ \A v \in AccSessions \ {w} : AccInserted(v) => accObj[v].number # accObj[w].number
  /\ IF NumberConflict(w)
       THEN AccEnd(w, "serverError")
       ELSE AccGoTo(w, "commit") /\ UNCHANGED <<accAnswer, lock>>
  /\ UNCHANGED <<owner, balance, status, number, accReq, accObj>>

-----------------------------------------------------------------------------
(* update_account and close_account                                          *)

GetAccount(w) ==
  /\ accPc[w] = "get"
  /\ LET r == accReq[w]
         a == r.account
     IN IF Exists(a) /\ owner[a] = r.user
          THEN /\ accObj' = [accObj EXCEPT ![w] =
                     [id |-> a, number |-> number[a], balance |-> balance[a], status |-> status[a]]]
               /\ AccGoTo(w, "apply")
               /\ UNCHANGED <<accAnswer, lock>>
          ELSE AccEnd(w, "notFound") /\ UNCHANGED accObj
  /\ UNCHANGED <<owner, balance, status, number, accReq>>

\* Mutant: an absent status is written like any other.
WantedVerbatim(w) == IF accReq[w].op = "close" THEN "CLOSED" ELSE accReq[w].status

\* The status the request wants the object to have.
Wanted(w) ==
  LET r == accReq[w] IN
  IF r.op = "close" THEN "CLOSED" ELSE IF r.status = "unset" THEN accObj[w].status ELSE r.status

CloseRefused(w) ==
  /\ accReq[w].op = "close" \/ accReq[w].status = "CLOSED"
  /\ NonZero(w) \/ (accReq[w].op = "close" /\ accObj[w].status = "CLOSED")

\* The flush updates the status column only, and only when the object's status
\* differs from the one loaded; the UPDATE waits for the row lock.
Apply(w) ==
  /\ accPc[w] = "apply"
  /\ LET a == accObj[w].id IN
     IF CloseRefused(w) THEN AccEnd(w, "validationError")
     ELSE /\ AccGoTo(w, "commit")
          /\ IF Wanted(w) = accObj[w].status THEN UNCHANGED lock
             ELSE Available(w, a) /\ lock' = [lock EXCEPT ![a] = w]
          /\ UNCHANGED accAnswer
  /\ UNCHANGED <<owner, balance, status, number, accReq, accObj>>

-----------------------------------------------------------------------------

\* Mutant: the UPDATE writes every column of the object, the balance as loaded.
CommitWholeObject(w) ==
  /\ accPc[w] = "commit"
  /\ LET obj == accObj[w]
         a == obj.id
     IN /\ owner' = [owner EXCEPT ![a] = accReq[w].user]
        /\ number' = [number EXCEPT ![a] = obj.number]
        /\ balance' = [balance EXCEPT ![a] = obj.balance]
        /\ status' = [status EXCEPT ![a] = IF accReq[w].op = "create" THEN obj.status ELSE Wanted(w)]
  /\ AccEnd(w, "ok")
  /\ UNCHANGED <<accReq, accObj>>

\* get_db commits the insert or the update.
AccCommit(w) ==
  /\ accPc[w] = "commit"
  /\ LET obj == accObj[w]
         a == obj.id
     IN IF accReq[w].op = "create"
          THEN /\ owner' = [owner EXCEPT ![a] = accReq[w].user]
               /\ number' = [number EXCEPT ![a] = obj.number]
               /\ balance' = [balance EXCEPT ![a] = obj.balance]
               /\ status' = [status EXCEPT ![a] = obj.status]
          ELSE /\ status' = IF lock[a] = w THEN [status EXCEPT ![a] = Wanted(w)] ELSE status
               /\ UNCHANGED <<owner, number, balance>>
  /\ AccEnd(w, "ok")
  /\ UNCHANGED <<accReq, accObj>>

AccForget(w) ==
  /\ AccGoTo(w, "idle")
  /\ accReq' = [accReq EXCEPT ![w] = None]
  /\ accObj' = [accObj EXCEPT ![w] = None]
  /\ accAnswer' = [accAnswer EXCEPT ![w] = None]
  /\ lock' = Unlocked(w)
  /\ UNCHANGED <<owner, balance, status, number>>

AccReply(w) == accPc[w] = "done" /\ AccForget(w)

\* The database fails a statement; at "commit" nothing was committed.
AccFail(w) ==
  /\ accPc[w] \in {"number", "insert", "get", "apply", "commit"}
  /\ AccEnd(w, "serverError")
  /\ UNCHANGED <<owner, balance, status, number, accReq, accObj>>

\* The replica dies with the handler in it.
AccCrash(w) == accPc[w] # "idle" /\ AccForget(w)

AccStep(w) ==
  \/ PickNumber(w) \/ InsertAccount(w) \/ GetAccount(w) \/ Apply(w) \/ AccCommit(w) \/ AccReply(w)

AccNext ==
  \E w \in AccSessions :
    \/ \E r \in AccRequests : AccStart(w, r)
    \/ AccStep(w) \/ AccFail(w) \/ AccCrash(w)

AccTypeOK ==
  /\ number \in [Accounts -> Numbers \cup {None}]
  /\ \A a \in Accounts : Exists(a) => number[a] # None
  /\ accPc \in [AccSessions -> {"idle", "number", "insert", "get", "apply", "commit", "done"}]
  /\ accReq \in [AccSessions -> AccRequests \cup {None}]
  /\ accObj \in [AccSessions -> AccObjType \cup {None}]
  /\ accAnswer \in [AccSessions -> {"ok", "notFound", "validationError", "serverError"} \cup {None}]
  /\ \A w \in AccSessions :
       /\ accPc[w] # "idle" => accReq[w] # None
       /\ accPc[w] \in {"get", "apply"} => accReq[w].op # "create"
       /\ accPc[w] \in {"insert", "apply", "commit"} => accObj[w] # None
=============================================================================
