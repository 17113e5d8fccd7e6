--------------------------- MODULE AccountsTable ---------------------------
(* The table `accounts`: the one piece of state two services write.  The    *)
(* account service inserts rows and updates their status, the transaction    *)
(* service locks rows with SELECT ... FOR UPDATE and updates their balance.  *)
(* The variables are the COMMITTED columns; what a database session has      *)
(* written and not committed is kept by the service that runs the session.   *)
(* PostgreSQL itself is external: a row lock is held by one session until    *)
(* it commits or rolls back, and a read sees committed rows.                 *)
EXTENDS Integers, FiniteSets

CONSTANTS
  Accounts,         \* account ids; the order of the integers is the order of the UUIDs
  Users,            \* user ids
  TxSessions,       \* database sessions of the transaction service
  AccSessions,      \* database sessions of the account service
  InitialOwner,     \* accounts opened before the behaviour starts
  InitialBalance,   \* and what they hold
  MaxBalance,       \* largest balance whose decimal string fits String(20)
  None              \* an absent value (NULL)

Sessions == TxSessions \cup AccSessions

Statuses == {"ACTIVE", "FROZEN", "CLOSED"}

\* What `SELECT id, user_id, balance, status` returns for one account.
RowType == [owner : Users, balance : Int, status : Statuses]

\* A table has finitely many rows.
ASSUME AccountsAssumption == Accounts \subseteq Int /\ IsFiniteSet(Accounts) /\ None \notin Accounts
ASSUME SessionsAssumption == TxSessions \cap AccSessions = {} /\ None \notin Sessions
ASSUME UsersAssumption == None \notin Users /\ None \notin RowType
ASSUME InitialAssumption ==
  /\ InitialOwner \in [Accounts -> Users \cup {None}]
  /\ MaxBalance \in Nat
  /\ InitialBalance \in [Accounts -> 0 .. MaxBalance]
  /\ \A a \in Accounts : InitialOwner[a] = None => InitialBalance[a] = 0

VARIABLES
  owner,     \* user_id of the row, None while there is no such row
  balance,
  status,
  lock       \* the session that holds the row lock, None when it is free

tableVars == <<owner, balance, status, lock>>

Exists(a) == owner[a] # None

Row(a) == [owner |-> owner[a], balance |-> balance[a], status |-> status[a]]

\* Mutant: SELECT without FOR UPDATE waits for nobody.
NeverWaits(s, a) == TRUE

\* Session s can have the lock of row a: nobody else holds it.
Available(s, a) == lock[a] \in {s, None}

\* The locks once session s has ended its transaction.
Unlocked(s) == [a \in Accounts |-> IF lock[a] = s THEN None ELSE lock[a]]

TableInit ==
  /\ owner = InitialOwner
  /\ balance = InitialBalance
  /\ status = [a \in Accounts |-> "ACTIVE"]
  /\ lock = [a \in Accounts |-> None]

TableTypeOK ==
  /\ owner \in [Accounts -> Users \cup {None}]
  /\ balance \in [Accounts -> Int]
  /\ status \in [Accounts -> Statuses]
  /\ lock \in [Accounts -> Sessions \cup {None}]
=============================================================================
