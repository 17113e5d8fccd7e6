------------------------------- MODULE Ledger -------------------------------
(* What the bank promises, without sessions, locks, caches or failures: a    *)
(* posting happens at once, at most once for each idempotency key, only      *)
(* between accounts that are not frozen and only with the funds, and moves   *)
(* exactly its amount.                                                       *)
EXTENDS Integers

CONSTANTS Accounts, Users, Requests, None, MaxBalance, InitialOwner, InitialBalance

VARIABLES owner, balance, status, posted

ledgerVars == <<owner, balance, status, posted>>

\* What remains of a request once it is posted.
Posting(r) == [key |-> r.key, from |-> r.from, to |-> r.to, amount |-> r.amount]

Delta(r, a) == (IF a = r.to THEN r.amount ELSE 0) - (IF a = r.from THEN r.amount ELSE 0)

LedgerInit ==
  /\ owner = InitialOwner
  /\ balance = InitialBalance
  /\ status = [a \in Accounts |-> "ACTIVE"]
  /\ posted = {}

Post(r) ==
  /\ \A p \in posted : p.key # r.key
  /\ \A a \in {r.from, r.to} \ {None} :
       /\ owner[a] # None
       /\ status[a] # "FROZEN"
       /\ balance[a] + Delta(r, a) \in 0 .. MaxBalance
  /\ r.user = owner[IF r.from # None THEN r.from ELSE r.to]
  /\ balance' = [a \in Accounts |-> balance[a] + Delta(r, a)]
  /\ posted' = posted \cup {Posting(r)}
  /\ UNCHANGED <<owner, status>>

Open(a, u) ==
  /\ owner[a] = None
  /\ owner' = [owner EXCEPT ![a] = u]
  /\ balance' = [balance EXCEPT ![a] = 0]
  /\ status' = [status EXCEPT ![a] = "ACTIVE"]
  /\ UNCHANGED posted

SetStatus(a, st) ==
  /\ owner[a] # None
  /\ status' = [status EXCEPT ![a] = st]
  /\ UNCHANGED <<owner, balance, posted>>

LedgerNext ==
  \/ \E r \in Requests : Post(r)
  \/ \E a \in Accounts : \E u \in Users : Open(a, u)
  \/ \E a \in Accounts : \E st \in {"ACTIVE", "FROZEN"} : SetStatus(a, st)

LedgerSpec == LedgerInit /\ [][LedgerNext]_ledgerVars
=============================================================================
