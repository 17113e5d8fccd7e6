--------------------------- MODULE EntriesProofs ---------------------------
(* Proofs about the entries of Banking: the balances and the entries agree.  *)
EXTENDS LedgerProofs

-----------------------------------------------------------------------------
(* The sum of the amounts of a finite set.  MapThenSumSet takes the elements *)
(* one by one in an order CHOOSE fixes; that its value does not depend on    *)
(* the order is shown by taking a smallest set for which it would.           *)

Picked(S) == CHOOSE e \in S : TRUE

Total(S) == MapThenSumSet(LAMBDA e : e.amount, S)

\* f gives for each subset of S its sum.
Sums(f, S) ==
  f = [T \in SUBSET S |-> IF T = {} THEN 0 ELSE Picked(T).amount + f[T \ {Picked(T)}]]

LEMMA TotalIsChosen == \A S : Total(S) = (CHOOSE f : Sums(f, S))[S]
  BY DEF Total, MapThenSumSet, MapThenFoldSet, Sums, Picked

\* Of the finite sets with a property, one has no fewer elements than another.
LEMMA SmallestSet ==
  ASSUME NEW U, IsFiniteSet(U), NEW B \in SUBSET SUBSET U, B # {}
  PROVE  \E T \in B : \A R \in SUBSET U : Cardinality(R) < Cardinality(T) => R \notin B
  <1>. DEFINE Sizes == {Cardinality(T) : T \in B}
  <1>1. \A T \in SUBSET U : Cardinality(T) \in Nat
    BY FS_Subset, FS_CardinalityType
  <1>2. Sizes \in SUBSET Nat /\ Sizes # {}
    BY <1>1
  <1>3. PICK n \in Sizes : \A m \in Sizes : n <= m
    <2>. HIDE DEF Sizes
    <2>. QED BY <1>2, LeastNatural
  <1>4. PICK T \in B : Cardinality(T) = n
    BY <1>3
  <1>5. \A R \in B : Cardinality(T) <= Cardinality(R)
    BY <1>3, <1>4
  <1>. QED BY <1>1, <1>5

\* A set without its picked element, or any other, is smaller.
LEMMA OneLess ==
  ASSUME NEW T, IsFiniteSet(T), NEW e \in T
  PROVE  IsFiniteSet(T \ {e}) /\ Cardinality(T \ {e}) < Cardinality(T)
  <1>1. Cardinality(T) \in Nat /\ IsFiniteSet(T \ {e}) /\ Cardinality(T \ {e}) = Cardinality(T) - 1
    BY FS_CardinalityType, FS_RemoveElement
  <1>. QED BY <1>1

LEMMA PickedIsIn == \A S : S # {} => Picked(S) \in S
  BY DEF Picked

\* The recursion has a solution: each size adds one element to the size before.
LEMMA SumsExist ==
  ASSUME NEW U, IsFiniteSet(U)
  PROVE  \E f : Sums(f, U)
  <1>. DEFINE Upto(n) == {T \in SUBSET U : Cardinality(T) <= n}
              Step(g, T) == IF T = {} THEN 0 ELSE Picked(T).amount + g[T \ {Picked(T)}]
              Solves(f, n) == f = [T \in Upto(n) |-> Step(f, T)]
              Bad == {n \in Nat : ~\E f : Solves(f, n)}
  <1>1. \A T \in SUBSET U : IsFiniteSet(T) /\ Cardinality(T) \in Nat /\ Cardinality(T) <= Cardinality(U)
    BY FS_Subset, FS_CardinalityType
  <1>2. Cardinality(U) \in Nat
    BY FS_CardinalityType
  <1>3. Bad = {}
    <2>. SUFFICES ASSUME Bad # {} PROVE FALSE
      OBVIOUS
    <2>1. PICK n \in Bad : \A m \in Bad : n <= m
      <3>1. Bad \in SUBSET Nat
        OBVIOUS
      <3>. HIDE DEF Bad
      <3>. QED BY <3>1, LeastNatural
    <2>2. n \in Nat /\ ~\E f : Solves(f, n)
      OBVIOUS
    <2>3. ASSUME NEW g, \A T \in Upto(n) : T # {} => T \ {Picked(T)} \in Upto(n - 1),
                 \A T \in Upto(n - 1) : g[T] = Step(g, T)
          PROVE  FALSE
      <3>. DEFINE f == [T \in Upto(n) |-> Step(g, T)]
      <3>1. Upto(n - 1) \subseteq Upto(n)
        BY <1>1, <2>2
      <3>2. \A T \in Upto(n - 1) : f[T] = g[T]
        BY <2>3, <3>1
      <3>3. \A T \in Upto(n) : Step(f, T) = Step(g, T)
        <4>. HIDE DEF f, Upto
        <4>. QED BY <2>3, <3>2
      <3>4. Solves(f, n)
        <4>. HIDE DEF Upto, Step
        <4>. QED BY <3>3
      <3>. QED BY <2>2, <3>4
    <2>4. CASE n = 0
      <3>1. Upto(n) = {{}} /\ Upto(n - 1) = {}
        <4>1. \A T \in SUBSET U : Cardinality(T) <= 0 <=> T = {}
          BY <1>1, FS_EmptySet
        <4>2. \A T \in SUBSET U : ~(Cardinality(T) <= 0 - 1)
          BY <1>1
        <4>. QED BY <2>4, <4>1, <4>2
      <3>. QED BY <2>3, <3>1
    <2>5. CASE n # 0
      <3>1. n - 1 \in Nat /\ n - 1 \notin Bad
        <4>. HIDE DEF Bad
        <4>. QED BY <2>1, <2>2, <2>5
      <3>2. PICK g : Solves(g, n - 1)
        BY <3>1
      <3>3. \A T \in Upto(n - 1) : g[T] = Step(g, T)
        <4>. HIDE DEF Upto, Step
        <4>. QED BY <3>2
      <3>4. ASSUME NEW T \in Upto(n), T # {}
            PROVE  T \ {Picked(T)} \in Upto(n - 1)
        <4>1. Cardinality(T \ {Picked(T)}) < Cardinality(T)
          BY <1>1, <3>4, PickedIsIn, OneLess
        <4>2. T \ {Picked(T)} \in SUBSET U
          BY <3>4
        <4>. QED BY <1>1, <2>2, <3>4, <4>1, <4>2
      <3>. QED BY <2>3, <3>3, <3>4
    <2>. QED BY <2>4, <2>5
  <1>4. PICK f : Solves(f, Cardinality(U))
    BY <1>2, <1>3
  <1>5. Upto(Cardinality(U)) = SUBSET U
    BY <1>1
  <1>6. Sums(f, U)
    BY <1>4, <1>5 DEF Sums
  <1>. QED BY <1>6

\* Solutions agree on the sets they share.
LEMMA SumsAgree ==
  ASSUME NEW U, IsFiniteSet(U), NEW V \in SUBSET U, NEW f, Sums(f, U), NEW g, Sums(g, V)
  PROVE  \A T \in SUBSET V : f[T] = g[T]
  <1>. DEFINE Bad == {T \in SUBSET V : f[T] # g[T]}
  <1>. SUFFICES ASSUME Bad # {} PROVE FALSE
    OBVIOUS
  <1>1. IsFiniteSet(V)
    BY FS_Subset
  <1>2. PICK T \in Bad : \A R \in SUBSET V : Cardinality(R) < Cardinality(T) => R \notin Bad
    <2>1. Bad \in SUBSET SUBSET V
      OBVIOUS
    <2>. HIDE DEF Bad
    <2>. QED BY <1>1, <2>1, SmallestSet
  <1>3. \A R \in SUBSET V :
          /\ f[R] = IF R = {} THEN 0 ELSE Picked(R).amount + f[R \ {Picked(R)}]
          /\ g[R] = IF R = {} THEN 0 ELSE Picked(R).amount + g[R \ {Picked(R)}]
    BY DEF Sums
  <1>4. T # {} /\ T \in SUBSET V
    BY <1>3
  <1>5. T \ {Picked(T)} \in SUBSET V /\ Cardinality(T \ {Picked(T)}) < Cardinality(T)
    BY <1>1, <1>4, FS_Subset, PickedIsIn, OneLess
  <1>6. f[T \ {Picked(T)}] = g[T \ {Picked(T)}]
    BY <1>2, <1>5
  <1>. QED BY <1>3, <1>4, <1>6

\* The sum of a set is its picked element's amount and the sum of the rest.
LEMMA TotalUnfolds ==
  ASSUME NEW U, IsFiniteSet(U)
  PROVE  Total(U) = IF U = {} THEN 0 ELSE Picked(U).amount + Total(U \ {Picked(U)})
  <1>. DEFINE f == CHOOSE f : Sums(f, U)
              V == U \ {Picked(U)}
              g == CHOOSE g : Sums(g, V)
  <1>1. IsFiniteSet(V) /\ V \in SUBSET U
    BY FS_Subset
  <1>2. Sums(f, U) /\ Sums(g, V)
    BY <1>1, SumsExist
  <1>3. Total(U) = f[U] /\ Total(V) = g[V]
    BY TotalIsChosen
  <1>. HIDE DEF f, g
  <1>4. f[V] = g[V]
    BY <1>1, <1>2, SumsAgree
  <1>5. f[U] = IF U = {} THEN 0 ELSE Picked(U).amount + f[V]
    BY <1>2 DEF Sums
  <1>. QED BY <1>3, <1>4, <1>5

HasAmounts(U) == \A e \in U : e.amount \in Nat

LEMMA TotalType ==
  ASSUME NEW U, IsFiniteSet(U), HasAmounts(U)
  PROVE  Total(U) \in Nat
  <1>. DEFINE Bad == {T \in SUBSET U : Total(T) \notin Nat}
  <1>. SUFFICES ASSUME Bad # {} PROVE FALSE
    OBVIOUS
  <1>1. PICK T \in Bad : \A R \in SUBSET U : Cardinality(R) < Cardinality(T) => R \notin Bad
    <2>1. Bad \in SUBSET SUBSET U
      OBVIOUS
    <2>. HIDE DEF Bad
    <2>. QED BY <2>1, SmallestSet
  <1>2. T \in SUBSET U /\ IsFiniteSet(T)
    BY FS_Subset
  <1>3. Total(T) = IF T = {} THEN 0 ELSE Picked(T).amount + Total(T \ {Picked(T)})
    BY <1>2, TotalUnfolds
  <1>4. T # {}
    BY <1>3
  <1>5. T \ {Picked(T)} \notin Bad
    BY <1>1, <1>2, <1>4, PickedIsIn, OneLess
  <1>6. Picked(T).amount \in Nat /\ Total(T \ {Picked(T)}) \in Nat
    BY <1>2, <1>4, <1>5, PickedIsIn DEF HasAmounts
  <1>. QED BY <1>3, <1>4, <1>6

\* Whichever element is taken out, the sum is its amount and the sum of the rest.
LEMMA TotalWithout ==
  ASSUME NEW U, IsFiniteSet(U), HasAmounts(U), NEW e \in U
  PROVE  Total(U) = e.amount + Total(U \ {e})
  <1>. DEFINE Bad == {T \in SUBSET U : \E x \in T : Total(T) # x.amount + Total(T \ {x})}
  <1>. SUFFICES ASSUME Bad # {} PROVE FALSE
    OBVIOUS
  <1>1. PICK T \in Bad : \A R \in SUBSET U : Cardinality(R) < Cardinality(T) => R \notin Bad
    <2>1. Bad \in SUBSET SUBSET U
      OBVIOUS
    <2>. HIDE DEF Bad
    <2>. QED BY <2>1, SmallestSet
  <1>2. PICK x \in T : Total(T) # x.amount + Total(T \ {x})
    OBVIOUS
  <1>. DEFINE y == Picked(T)
  <1>3. T \in SUBSET U /\ IsFiniteSet(T) /\ T # {} /\ y \in T
    BY FS_Subset, PickedIsIn
  <1>. HIDE DEF Bad, y
  <1>4. Total(T) = y.amount + Total(T \ {y})
    BY <1>3, TotalUnfolds DEF y
  <1>5. x # y
    BY <1>2, <1>4
  <1>6. T \ {x} \notin Bad /\ T \ {y} \notin Bad
    BY <1>1, <1>3, OneLess
  <1>7. /\ Total(T \ {y}) = x.amount + Total((T \ {y}) \ {x})
        /\ Total(T \ {x}) = y.amount + Total((T \ {x}) \ {y})
    BY <1>3, <1>5, <1>6 DEF Bad
  <1>8. (T \ {y}) \ {x} = (T \ {x}) \ {y}
    OBVIOUS
  <1>9. x.amount \in Nat /\ y.amount \in Nat /\ Total((T \ {x}) \ {y}) \in Nat
    <2>1. IsFiniteSet((T \ {x}) \ {y}) /\ HasAmounts((T \ {x}) \ {y})
      BY <1>3, FS_Subset DEF HasAmounts
    <2>. QED BY <1>3, <2>1, TotalType DEF HasAmounts
  <1>10. Total(T) = y.amount + (x.amount + Total((T \ {x}) \ {y}))
    BY <1>4, <1>7, <1>8
  <1>11. Total(T) = x.amount + (y.amount + Total((T \ {x}) \ {y}))
    BY <1>9, <1>10
  <1>. QED BY <1>2, <1>7, <1>11

\* What a sum gains with a new element.
LEMMA TotalWith ==
  ASSUME NEW U, IsFiniteSet(U), HasAmounts(U), NEW e, e \notin U, e.amount \in Nat
  PROVE  Total(U \cup {e}) = Total(U) + e.amount
  <1>1. IsFiniteSet(U \cup {e}) /\ HasAmounts(U \cup {e}) /\ (U \cup {e}) \ {e} = U
    BY FS_AddElement DEF HasAmounts
  <1>2. Total(U) \in Nat
    BY TotalType
  <1>3. Total(U \cup {e}) = e.amount + Total((U \cup {e}) \ {e})
    BY <1>1, TotalWithout
  <1>4. Total(U \cup {e}) = e.amount + Total(U)
    BY <1>1, <1>3
  <1>. QED BY <1>2, <1>4

-----------------------------------------------------------------------------
(* Balances and entries.                                                     *)

\* The entries of one side of one account.
SideOf(E, a, side) == {e \in E : e.account = a /\ e.side = side}

\* Entries belong to committed transactions, whose ids begin with their keys:
\* what a commit is about to add is in none of the sums yet.
EntriesInv ==
  /\ IsFiniteSet(entries)
  /\ \A e \in entries : Committed(e.tx)
  /\ \A t \in transactions : t.id[1] = t.key
  /\ \A s \in TxSessions : Inserted(s) => txId[s] = <<req[s].key, s>>
  /\ BalancesMatchEntries

LEMMA EntrySumIsTotal ==
  \A a, side : /\ EntrySum(a, side) = Total(SideOf(entries, a, side))
               /\ EntrySum(a, side)' = Total(SideOf(entries', a, side))
  <1>1. \A a, side : EntrySum(a, side) = Total(SideOf(entries, a, side))
    BY DEF EntrySum, Total, SideOf
  <1>2. ASSUME NEW a, NEW side
        PROVE  EntrySum(a, side)' = Total(SideOf(entries', a, side))
    BY DEF EntrySum, Total, SideOf, MapThenSumSet, MapThenFoldSet
  <1>. QED BY <1>1, <1>2

\* A balance and the sums of its account are integers.
LEMMA SumsAreIntegers ==
  ASSUME TypeInv, EntriesInv, NEW a \in Accounts, NEW side
  PROVE  /\ Total(SideOf(entries, a, side)) \in Nat
         /\ IsFiniteSet(SideOf(entries, a, side)) /\ HasAmounts(SideOf(entries, a, side))
         /\ balance[a] \in Int /\ InitialBalance[a] \in Int
  <1>1. IsFiniteSet(SideOf(entries, a, side))
    BY FS_Subset DEF SideOf, EntriesInv
  <1>2. HasAmounts(SideOf(entries, a, side))
    BY DEF HasAmounts, SideOf, TypeInv, TypeOK, TxTypeOK, EntryType
  <1>3. balance[a] \in Int /\ InitialBalance[a] \in Int
    BY InitialAssumption DEF TypeInv, TypeOK, TableTypeOK
  <1>. QED BY <1>1, <1>2, <1>3, TotalType

\* One side of an account before and after a commit.
LEMMA SideGains ==
  ASSUME TypeInv, EntriesInv, NEW a \in Accounts, NEW side, NEW e,
         e \notin entries, e.account = a, e.side = side, e.amount \in Nat, NEW E,
         SideOf(E, a, side) = SideOf(entries, a, side) \cup {e}
  PROVE  Total(SideOf(E, a, side)) = Total(SideOf(entries, a, side)) + e.amount
  <1>1. e \notin SideOf(entries, a, side)
    BY DEF SideOf
  <1>. QED BY <1>1, SumsAreIntegers, TotalWith

LEMMA CommitKeepsEntries ==
  ASSUME NoSelfPayment, TypeInv, RowsInv, PostingInv, EntriesInv,
         NEW s \in TxSessions, Commit(s)
  PROVE  EntriesInv'
  <1>. USE DEF TypeInv, TypeOK, TxTypeOK, TableTypeOK
  <1>. DEFINE r == req[s]
              Entry(a, side) == [tx |-> txId[s], account |-> a, side |-> side, amount |-> r.amount]
              row == [id |-> txId[s], key |-> r.key, from |-> r.from, to |-> r.to, amount |-> r.amount]
  <1>1. /\ pc[s] = "commit" /\ r \in Requests /\ txId[s] = <<r.key, s>>
        /\ ~KeyTaken(r.key)
    BY DEF Commit, EntriesInv, Inserted, PostingInv, Checked
  <1>2. /\ r.from # r.to /\ r.amount \in Nat
        /\ r.from \in Accounts \cup {None} /\ r.to \in Accounts \cup {None}
    BY <1>1, RequestParts DEF NoSelfPayment
  <1>3. ~Committed(txId[s])
    BY <1>1 DEF EntriesInv, Committed, KeyTaken
  <1>4. transactions' = transactions \cup {row} /\ entries' = entries \cup EntriesOf(s)
    BY DEF Commit
  <1>5. row.id = txId[s] /\ row.key = r.key /\ row \in transactions'
    BY <1>4
  <1>6. \A e \in EntriesOf(s) : e.tx = txId[s]
    BY DEF EntriesOf
  <1>7. \A a, side : Entry(a, side) \notin entries
    BY <1>3 DEF EntriesInv
  <1>8. IsFiniteSet(entries')
    <2>1. IsFiniteSet(EntriesOf(s))
      <3>1. EntriesOf(s) \subseteq {Entry(r.from, "DEBIT")} \cup {Entry(r.to, "CREDIT")}
        BY DEF EntriesOf
      <3>2. IsFiniteSet({Entry(r.from, "DEBIT")}) /\ IsFiniteSet({Entry(r.to, "CREDIT")})
        BY FS_Singleton
      <3>. QED BY <3>1, <3>2, FS_Union, FS_Subset
    <2>. QED BY <1>4, <2>1, FS_Union DEF EntriesInv
  <1>9. \A e \in entries' : Committed(e.tx)'
    <2>1. \E t \in transactions' : t.id = txId[s]
      <3>. HIDE DEF row
      <3>. QED BY <1>5
    <2>2. \A e \in entries : \E t \in transactions' : t.id = e.tx
      <3>. HIDE DEF row
      <3>. QED BY <1>4 DEF EntriesInv, Committed
    <2>3. \A e \in entries' : \E t \in transactions' : t.id = e.tx
      BY <1>4, <1>6, <2>1, <2>2
    <2>. QED BY <2>3 DEF Committed
  <1>10. \A t \in transactions' : t.id[1] = t.key
    <2>. HIDE DEF row
    <2>. QED BY <1>1, <1>4, <1>5 DEF EntriesInv
  <1>11. \A t \in TxSessions : Inserted(t)' => txId'[t] = <<req'[t].key, t>>
    BY DEF Commit, EntriesInv, Inserted, GoTo
  <1>12. ASSUME NEW a \in Accounts
         PROVE  balance'[a] = InitialBalance[a] + EntrySum(a, "CREDIT")' - EntrySum(a, "DEBIT")'
    <2>. DEFINE paid == Total(SideOf(entries, a, "CREDIT"))
                spent == Total(SideOf(entries, a, "DEBIT"))
    <2>1. /\ balance'[a] = IF a = r.to THEN balance[a] + r.amount
                           ELSE IF a = r.from THEN balance[a] - r.amount
                           ELSE balance[a]
          /\ balance[a] = InitialBalance[a] + paid - spent
      BY <1>1, CommittedBalance, EntrySumIsTotal DEF Commit, RowsInv, EntriesInv, BalancesMatchEntries
    <2>2. paid \in Nat /\ spent \in Nat /\ InitialBalance[a] \in Int
      BY SumsAreIntegers
    <2>3. Total(SideOf(entries', a, "CREDIT")) = IF a = r.to THEN paid + r.amount ELSE paid
      <3>1. CASE a = r.to
        <4>1. SideOf(entries', a, "CREDIT") = SideOf(entries, a, "CREDIT") \cup {Entry(a, "CREDIT")}
          BY <1>4, <3>1, AccountsAssumption DEF SideOf, EntriesOf
        <4>2. /\ Entry(a, "CREDIT").account = a /\ Entry(a, "CREDIT").side = "CREDIT"
              /\ Entry(a, "CREDIT").amount = r.amount
          OBVIOUS
        <4>3. Entry(a, "CREDIT") \notin entries
          BY <1>7
        <4>. DEFINE e == Entry(a, "CREDIT")
        <4>. HIDE DEF e, Entry, TypeInv
        <4>4. Total(SideOf(entries', a, "CREDIT")) = Total(SideOf(entries, a, "CREDIT")) + e.amount
          BY <1>2, <4>1, <4>2, <4>3, SideGains DEF e
        <4>. QED BY <3>1, <4>2, <4>4 DEF e
      <3>2. CASE a # r.to
        <4>1. SideOf(entries', a, "CREDIT") = SideOf(entries, a, "CREDIT")
          BY <1>4, <3>2 DEF SideOf, EntriesOf
        <4>. QED BY <3>2, <4>1
      <3>. QED BY <3>1, <3>2
    <2>4. Total(SideOf(entries', a, "DEBIT")) = IF a = r.from THEN spent + r.amount ELSE spent
      <3>1. CASE a = r.from
        <4>1. SideOf(entries', a, "DEBIT") = SideOf(entries, a, "DEBIT") \cup {Entry(a, "DEBIT")}
          BY <1>4, <3>1, AccountsAssumption DEF SideOf, EntriesOf
        <4>2. /\ Entry(a, "DEBIT").account = a /\ Entry(a, "DEBIT").side = "DEBIT"
              /\ Entry(a, "DEBIT").amount = r.amount
          OBVIOUS
        <4>3. Entry(a, "DEBIT") \notin entries
          BY <1>7
        <4>. DEFINE e == Entry(a, "DEBIT")
        <4>. HIDE DEF e, Entry, TypeInv
        <4>4. Total(SideOf(entries', a, "DEBIT")) = Total(SideOf(entries, a, "DEBIT")) + e.amount
          BY <1>2, <4>1, <4>2, <4>3, SideGains DEF e
        <4>. QED BY <3>1, <4>2, <4>4 DEF e
      <3>2. CASE a # r.from
        <4>1. SideOf(entries', a, "DEBIT") = SideOf(entries, a, "DEBIT")
          BY <1>4, <3>2 DEF SideOf, EntriesOf
        <4>. QED BY <3>2, <4>1
      <3>. QED BY <3>1, <3>2
    <2>. HIDE DEF paid, spent
    <2>5. balance'[a] = InitialBalance[a] + Total(SideOf(entries', a, "CREDIT"))
                          - Total(SideOf(entries', a, "DEBIT"))
      BY <1>2, <2>1, <2>2, <2>3, <2>4
    <2>. QED BY <2>5, EntrySumIsTotal
  <1>. QED BY <1>8, <1>9, <1>10, <1>11, <1>12 DEF EntriesInv, BalancesMatchEntries

\* Steps that post nothing.
LEMMA EntriesFrame ==
  ASSUME EntriesInv, UNCHANGED <<transactions, entries>>,
         \A a \in Accounts : balance'[a] = balance[a],
         \A s \in TxSessions : Inserted(s)' => txId'[s] = <<req'[s].key, s>>
  PROVE  EntriesInv'
  <1>1. \A a, side : EntrySum(a, side)' = EntrySum(a, side)
    BY EntrySumIsTotal
  <1>. QED BY <1>1 DEF EntriesInv, BalancesMatchEntries, Committed

\* An id is given with the insert and kept until the handler ends.
LEMMA IdsStay ==
  ASSUME TypeInv, EntriesInv, TxNext, NEW s \in TxSessions, Inserted(s)'
  PROVE  txId'[s] = <<req'[s].key, s>>
  <1>. USE DEF TypeInv, TypeOK, TxTypeOK, GoTo
  <1>1. Inserted(s) => txId[s] = <<req[s].key, s>>
    BY DEF EntriesInv
  <1>2. ASSUME NEW t \in TxSessions, NEW x, Abort(t, x)
        PROVE  txId'[s] = <<req'[s].key, s>>
    BY <1>1, <1>2 DEF Abort, Inserted
  <1>3. ASSUME NEW t \in TxSessions,
               \/ \E r \in Requests : Start(t, r)
               \/ CheckIdempotency(t) \/ Replay(t) \/ LockAccount(t) \/ Commit(t)
               \/ Refresh(t) \/ WriteAudit(t) \/ Publish(t) \/ StoreIdempotency(t)
               \/ LoadEntries(t) \/ Reply(t) \/ Crash(t)
        PROVE  txId'[s] = <<req'[s].key, s>>
    BY <1>1, <1>3
    DEF Start, CheckIdempotency, Replay, LockAccount, Commit, Refresh, WriteAudit, Publish,
        StoreIdempotency, LoadEntries, Reply, Crash, Forget, Inserted
  <1>4. ASSUME NEW t \in TxSessions, InsertTransaction(t) \/ (Post(t) /\ ~Abort(t, "serverError"))
        PROVE  txId'[s] = <<req'[s].key, s>>
    BY <1>1, <1>4 DEF InsertTransaction, Post, Inserted
  <1>5. ASSUME NEW k \in Keys, Expire(k)
        PROVE  txId'[s] = <<req'[s].key, s>>
    BY <1>1, <1>5 DEF Expire, handlerVars, Inserted
  <1>. QED
    BY <1>2, <1>3, <1>4, <1>5 DEF TxNext, Advance, LockMissing, Reject, InsertConflict, Post, Fail

\* The handlers post with their commit alone, and an account is opened empty.
LEMMA OthersPostNothing ==
  ASSUME TypeInv, RowsInv, Next, \A s \in TxSessions : ~Commit(s)
  PROVE  UNCHANGED <<transactions, entries>> /\ \A a \in Accounts : balance'[a] = balance[a]
  <1>1. CASE \E w \in AccSessions : AccCommit(w) /\ UNCHANGED txVars
    <2>1. PICK w \in AccSessions : AccCommit(w) /\ UNCHANGED txVars
      BY <1>1
    <2>2. CASE accReq[w].op = "create"
      BY <2>1, <2>2
      DEF AccCommit, RowsInv, FreshAccounts, Creating, txVars, storeVars, TypeInv, TypeOK, TableTypeOK
    <2>3. CASE accReq[w].op # "create"
      BY <2>1, <2>3 DEF AccCommit, txVars, storeVars
    <2>. QED BY <2>2, <2>3
  <1>2. CASE ~\E w \in AccSessions : AccCommit(w) /\ UNCHANGED txVars
    BY <1>2
    DEF Next, TxNext, AccNext, Advance, AccStep, Start, CheckIdempotency, Replay, LockAccount,
        LockMissing, Reject, InsertTransaction, InsertConflict, Post, Refresh, WriteAudit, Publish,
        StoreIdempotency, LoadEntries, Reply, Fail, Crash, Expire, Abort, AccStart, PickNumber,
        InsertAccount, GetAccount, Apply, AccReply, AccFail, AccCrash, AccForget, tableVars,
        txVars, storeVars
  <1>. QED BY <1>1, <1>2

LEMMA EntriesInit == Init => EntriesInv
  <1>. SUFFICES ASSUME Init PROVE EntriesInv
    OBVIOUS
  <1>1. entries = {} /\ transactions = {} /\ balance = InitialBalance
        /\ \A s \in TxSessions : ~Inserted(s)
    BY DEF Init, TableInit, TxInit, Inserted
  <1>2. IsFiniteSet(entries)
    BY <1>1, FS_EmptySet
  <1>3. ASSUME NEW a \in Accounts
        PROVE  balance[a] = InitialBalance[a] + EntrySum(a, "CREDIT") - EntrySum(a, "DEBIT")
    <2>1. \A side : SideOf(entries, a, side) = {}
      BY <1>1 DEF SideOf
    <2>2. Total({}) = 0
      BY FS_EmptySet, TotalUnfolds
    <2>3. InitialBalance[a] \in Int
      BY InitialAssumption
    <2>. QED BY <1>1, <2>1, <2>2, <2>3, EntrySumIsTotal
  <1>. QED BY <1>1, <1>2, <1>3 DEF EntriesInv, BalancesMatchEntries

LEMMA EntriesStep ==
  ASSUME NoSelfPayment
  PROVE  TypeInv /\ RowsInv /\ PostingInv /\ EntriesInv /\ [Next]_vars => EntriesInv'
  <1>. SUFFICES ASSUME TypeInv, RowsInv, PostingInv, EntriesInv, [Next]_vars PROVE EntriesInv'
    OBVIOUS
  <1>1. CASE \E s \in TxSessions : Commit(s)
    BY <1>1, CommitKeepsEntries
  <1>2. CASE Next /\ \A s \in TxSessions : ~Commit(s)
    <2>1. UNCHANGED <<transactions, entries>> /\ \A a \in Accounts : balance'[a] = balance[a]
      BY <1>2, OthersPostNothing
    <2>2. ASSUME NEW s \in TxSessions, Inserted(s)'
          PROVE  txId'[s] = <<req'[s].key, s>>
      <3>1. CASE TxNext
        BY <2>2, <3>1, IdsStay
      <3>2. CASE UNCHANGED txVars
        BY <2>2, <3>2 DEF EntriesInv, txVars, handlerVars, Inserted
      <3>. QED BY <1>2, <3>1, <3>2 DEF Next
    <2>. QED BY <2>1, <2>2, EntriesFrame
  <1>3. CASE UNCHANGED vars
    <2>1. \A s \in TxSessions : Inserted(s)' => txId'[s] = <<req'[s].key, s>>
      BY <1>3 DEF vars, txVars, handlerVars, EntriesInv, Inserted
    <2>. QED BY <1>3, <2>1, EntriesFrame DEF vars, tableVars, txVars, storeVars
  <1>. QED BY <1>1, <1>2, <1>3

\* No interleaving of any number of handlers, no crash and no repeat makes a
\* balance differ from what its entries add up to.
THEOREM BooksBalance ==
  ASSUME NoSelfPayment
  PROVE  Spec => []BalancesMatchEntries
  <1>1. EntriesInv => BalancesMatchEntries
    BY DEF EntriesInv
  <1>. QED
    BY <1>1, TypeInit, TypeStep, RowsInit, RowsStep, PostingInit, PostingStep, EntriesInit,
       EntriesStep, PTL
    DEF Spec
=============================================================================
