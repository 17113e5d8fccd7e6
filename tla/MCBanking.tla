----------------------------- MODULE MCBanking -----------------------------
(* Banking on small instances: two accounts of two users, one or two         *)
(* handlers of the transaction service and up to two of the account service. *)
EXTENDS Banking, TLC

Money(user, from, to, amount, key) ==
  [user |-> user, from |-> from, to |-> to, amount |-> amount, key |-> key]

Acc(op, user, account, st) == [op |-> op, user |-> user, account |-> account, status |-> st]

MCInitialOwner == 1 :> "alice" @@ 2 :> "bob"
MCInitialBalance == 1 :> 1 @@ 2 :> 1

\* Transfers that cross each other, so that the locks are asked for in both
\* orders; a deposit with a key in use for other accounts, so that no row lock
\* keeps the two apart, and that does not fit the column once the account holds 2;
\* withdrawals by the owner, who may have sent the money away already, and by a
\* stranger.
CrossRequests ==
  {Money("alice", 1, 2, 1, "k1"), Money("bob", 2, 1, 1, "k2"), Money("bob", None, 2, 1, "k2"),
   Money("alice", 1, None, 1, "k2"), Money("bob", 1, None, 1, "k1")}

\* Both accounts are opened, one after the other or at once, while bob pays into
\* one, freezes it and sends a PATCH without a status, and he and a stranger try to
\* close it.
OpenOwner == 1 :> None @@ 2 :> None
OpenBalance == 1 :> 0 @@ 2 :> 0
OpenMoney == {Money("bob", None, 1, 1, "k1")}
OpenRequests ==
  {Acc("create", "bob", None, "unset"), Acc("update", "bob", 1, "FROZEN"),
   Acc("update", "bob", 1, "unset"), Acc("close", "alice", 1, "unset"),
   Acc("close", "bob", 1, "unset")}

\* For the run under fairness: two crossing transfers, which wait for each other's
\* accounts, and two deposits, which wait for each other's row of the unique column.
FairRequests ==
  {Money("alice", 1, 2, 1, "k1"), Money("bob", 2, 1, 1, "k1"),
   Money("alice", None, 1, 1, "k1"), Money("bob", None, 2, 1, "k1")}

\* An account that pays itself.
SelfRequests == {Money("alice", 1, 1, 1, "k1")}

\* One withdrawal of all there is, repeated with the key it was first sent with.
WithdrawRequests == {Money("alice", 1, None, 1, "k1")}

SessionSymmetry == Permutations(TxSessions)
WorkerSymmetry == Permutations(AccSessions)
=============================================================================
