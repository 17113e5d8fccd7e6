------------------------- MODULE NotificationsProofs -------------------------
(* Proofs about Notifications for every number of replicas, partitions and   *)
(* events, and any number of failures and restarts.                          *)
EXTENDS Notifications, TLAPS

\* A replica has notified, or another has, all it has passed: what makes its
\* position safe to commit, whenever it is and whoever has the partition by then.
ReadIsNotified ==
  \A r \in Replicas : \A p \in Partitions :
    position[r][p] # None => 1 .. position[r][p] \subseteq notified[p]

OffsetInv == CommittedIsNotified /\ NotifiedInOrder /\ ReadIsNotified

GroupInv == TypeOK /\ OffsetInv

\* A bounded record stays bounded.
LEMMA RecordedType ==
  ASSUME NEW h \in Seq(Transactions), Len(h) <= MaxHistory, NEW m \in Transactions
  PROVE  Recorded(h, m) \in Seq(Transactions) /\ Len(Recorded(h, m)) <= MaxHistory
  <1>1. MaxHistory \in Nat \ {0} /\ Len(h) \in Nat
    BY NotificationsAssumption
  <1>2. CASE Len(h) < MaxHistory
    BY <1>1, <1>2 DEF Recorded
  <1>3. CASE Len(h) = MaxHistory
    <2>1. h # <<>>
      BY <1>1, <1>3
    <2>2. Tail(h) \in Seq(Transactions) /\ Len(Tail(h)) = Len(h) - 1
      BY <2>1
    <2>3. Recorded(h, m) = Append(Tail(h), m)
      BY <1>3 DEF Recorded
    <2>. QED BY <1>1, <1>3, <2>2, <2>3
  <1>. QED BY <1>1, <1>2, <1>3

\* A topic only grows, and every offset stays one.
LEMMA SendStep ==
  ASSUME GroupInv, NEW t \in Transactions, Send(t)
  PROVE  GroupInv'
  <1>1. /\ topic' \in [Partitions -> Seq(Transactions)]
        /\ \A p \in Partitions : Len(topic[p]) \in Nat /\ Len(topic'[p]) \in Nat
        /\ \A p \in Partitions : Len(topic[p]) <= Len(topic'[p])
    <2>1. PartitionOf[t] \in Partitions
      BY NotificationsAssumption
    <2>2. \A p \in Partitions : topic[p] \in Seq(Transactions)
      BY DEF GroupInv, TypeOK
    <2>3. CASE UNCHANGED topic
      BY <2>2, <2>3 DEF GroupInv, TypeOK
    <2>4. CASE topic' = [topic EXCEPT ![PartitionOf[t]] = Append(@, t)]
      BY <2>1, <2>2, <2>4 DEF GroupInv, TypeOK
    <2>5. CASE topic' = [topic EXCEPT ![PartitionOf[t]] = @ \o <<t, t>>]
      <3>1. <<t, t>> \in Seq(Transactions) /\ Len(<<t, t>>) = 2
        OBVIOUS
      <3>2. \A q \in Seq(Transactions) :
              q \o <<t, t>> \in Seq(Transactions) /\ Len(q \o <<t, t>>) = Len(q) + 2
        BY <3>1
      <3>. QED BY <2>1, <2>2, <2>5, <3>2 DEF GroupInv, TypeOK
    <2>. QED BY <2>3, <2>4, <2>5 DEF Send
  <1>2. failures' \in 0 .. MaxFailures
    BY NotificationsAssumption DEF GroupInv, TypeOK, Send, Failure
  <1>3. TypeOK'
    BY <1>1, <1>2 DEF GroupInv, TypeOK, Send, Offsets, groupVars, seenVars
  <1>4. OffsetInv'
    BY DEF GroupInv, OffsetInv, CommittedIsNotified, NotifiedInOrder, ReadIsNotified, Send, groupVars, seenVars
  <1>. QED BY <1>3, <1>4 DEF GroupInv

\* A partition is read from an offset that was committed, or from its start.
LEMMA AssignStep ==
  ASSUME GroupInv, Assign
  PROVE  GroupInv'
  <1>1. \A p \in Partitions :
          /\ StartPosition(p) \in Nat /\ StartPosition(p) \in Offsets(p)
          /\ 1 .. StartPosition(p) \subseteq notified[p]
    BY NotificationsAssumption
    DEF GroupInv, TypeOK, OffsetInv, CommittedIsNotified, StartPosition, Offsets
  <1>2. /\ position' \in [Replicas -> [Partitions -> Nat \cup {None}]]
        /\ \A r \in Replicas : \A p \in Partitions : position'[r][p] \in {None, StartPosition(p)}
    BY <1>1 DEF Assign
  <1>3. /\ UNCHANGED <<topic, unsent, committed, members, history, notified, repeated, failures, restarts>>
        /\ joined' = {} /\ rebalancing' = FALSE
        /\ task' \in [Replicas -> {"down", "starting", "waiting", "consuming", "closing", "failing", "ended"}]
    BY DEF GroupInv, TypeOK, Assign, sentVars, seenVars
  <1>4. TypeOK'
    BY <1>1, <1>2, <1>3 DEF GroupInv, TypeOK, Offsets
  <1>5. OffsetInv'
    BY <1>1, <1>2, <1>3 DEF GroupInv, OffsetInv, CommittedIsNotified, NotifiedInOrder, ReadIsNotified
  <1>. QED BY <1>4, <1>5 DEF GroupInv

\* The message a replica takes is the next after all that were notified before it.
LEMMA HandleStep ==
  ASSUME GroupInv, NEW r \in Replicas, NEW p \in Partitions, Handle(r, p)
  PROVE  GroupInv'
  <1>. DEFINE offset == position[r][p] + 1
  <1>1. /\ position[r][p] \in Nat /\ Len(topic[p]) \in Nat
        /\ offset \in 1 .. Len(topic[p])
        /\ topic[p][offset] \in Transactions
    BY NotificationsAssumption DEF GroupInv, TypeOK, Handle
  <1>2. /\ position' \in [Replicas -> [Partitions -> Nat \cup {None}]]
        /\ position'[r][p] = offset
        /\ \A s \in Replicas : \A q \in Partitions :
             <<s, q>> # <<r, p>> => position'[s][q] = position[s][q]
    BY <1>1 DEF GroupInv, TypeOK, Handle
  <1>3. /\ notified' \in [Partitions -> SUBSET Nat]
        /\ notified'[p] = notified[p] \cup {offset}
        /\ \A q \in Partitions : q # p => notified'[q] = notified[q]
    BY <1>1 DEF GroupInv, TypeOK, Handle
  <1>4. /\ history' \in [Replicas -> Seq(Transactions)]
        /\ \A s \in Replicas : Len(history'[s]) <= MaxHistory
    BY <1>1, RecordedType DEF GroupInv, TypeOK, Handle
  <1>5. /\ UNCHANGED <<topic, unsent, committed, members, joined, rebalancing, task, failures, restarts>>
        /\ repeated' \in BOOLEAN
    BY DEF GroupInv, TypeOK, Handle, sentVars, groupVars
  <1>6. TypeOK'
    <2>. HIDE DEF offset
    <2>1. \A s \in Replicas : \A q \in Partitions : position'[s][q] \in Offsets(q)' \cup {None}
      BY <1>1, <1>2, <1>5 DEF GroupInv, TypeOK, Offsets
    <2>2. \A q \in Partitions : notified'[q] \subseteq Offsets(q)' \ {0}
      <3>1. \A q \in Partitions : Offsets(q)' = Offsets(q) /\ notified[q] \subseteq Offsets(q) \ {0}
        BY <1>5 DEF GroupInv, TypeOK, Offsets
      <3>2. offset \in Offsets(p) \ {0}
        BY <1>1 DEF Offsets
      <3>. QED BY <1>3, <3>1, <3>2
    <2>3. \A q \in Partitions : committed'[q] \in Offsets(q)' \cup {None}
      BY <1>5 DEF GroupInv, TypeOK, Offsets
    <2>. QED BY <1>2, <1>3, <1>4, <1>5, <2>1, <2>2, <2>3 DEF GroupInv, TypeOK
  <1>7. OffsetInv'
    <2>1. 1 .. offset \subseteq notified'[p]
      <3>1. position[r][p] # None
        BY DEF Handle
      <3>2. 1 .. position[r][p] \subseteq notified[p]
        BY <3>1 DEF GroupInv, OffsetInv, ReadIsNotified
      <3>3. 1 .. offset = 1 .. position[r][p] \cup {offset}
        BY <1>1
      <3>. QED BY <1>3, <3>2, <3>3
    <2>2. \A q \in Partitions : notified[q] \subseteq notified'[q]
      BY <1>3
    <2>. HIDE DEF offset
    <2>3. ReadIsNotified'
      BY <1>2, <2>1, <2>2 DEF GroupInv, OffsetInv, ReadIsNotified
    <2>4. CommittedIsNotified'
      BY <1>5, <2>2 DEF GroupInv, OffsetInv, CommittedIsNotified
    <2>5. NotifiedInOrder'
      BY <1>3, <2>1, <2>2 DEF GroupInv, OffsetInv, NotifiedInOrder
    <2>. QED BY <2>3, <2>4, <2>5 DEF OffsetInv
  <1>. QED BY <1>6, <1>7 DEF GroupInv

Labels == {"down", "starting", "waiting", "consuming", "closing", "failing", "ended"}

\* What the steps that only keep, commit or give up positions have in common.
Keeps(r) ==
  /\ UNCHANGED <<topic, unsent, notified, repeated>>
  /\ committed' = committed \/ committed' = CommittedBy(r)
  /\ position' = position \/ GiveUp(r)
  /\ history' = history \/ history' = [history EXCEPT ![r] = <<>>]
  /\ joined' \subseteq members' /\ members' \subseteq Replicas
  /\ rebalancing' \in BOOLEAN
  /\ task' = task \/ \E label \in Labels : GoTo(r, label)
  /\ failures' \in 0 .. MaxFailures
  /\ restarts' \in 0 .. MaxRestarts

\* No position is lost that was not notified: committing one, or giving one up,
\* leaves the offsets in order.
LEMMA KeepsInv ==
  ASSUME GroupInv, NEW r \in Replicas, Keeps(r)
  PROVE  GroupInv'
  <1>1. /\ committed' \in [Partitions -> Nat \cup {None}]
        /\ \A p \in Partitions : committed'[p] \in {committed[p], position[r][p]}
    <2>1. position[r] \in [Partitions -> Nat \cup {None}]
      BY DEF GroupInv, TypeOK
    <2>2. CASE committed' = committed
      BY <2>2 DEF GroupInv, TypeOK
    <2>3. CASE committed' = CommittedBy(r)
      BY <2>1, <2>3 DEF GroupInv, TypeOK, CommittedBy
    <2>. QED BY <2>2, <2>3 DEF Keeps
  <1>2. /\ position' \in [Replicas -> [Partitions -> Nat \cup {None}]]
        /\ \A s \in Replicas : \A p \in Partitions : position'[s][p] \in {None, position[s][p]}
    <2>1. NoPositions \in [Partitions -> Nat \cup {None}] /\ \A p \in Partitions : NoPositions[p] = None
      BY DEF NoPositions
    <2>2. CASE position' = position
      BY <2>2 DEF GroupInv, TypeOK
    <2>3. CASE GiveUp(r)
      BY <2>1, <2>3 DEF GroupInv, TypeOK, GiveUp
    <2>. QED BY <2>2, <2>3 DEF Keeps
  <1>3. /\ history' \in [Replicas -> Seq(Transactions)]
        /\ \A s \in Replicas : Len(history'[s]) <= MaxHistory
    <2>1. <<>> \in Seq(Transactions) /\ Len(<<>>) = 0 /\ 0 <= MaxHistory
      BY NotificationsAssumption
    <2>2. CASE history' = history
      BY <2>2 DEF GroupInv, TypeOK
    <2>3. CASE history' = [history EXCEPT ![r] = <<>>]
      BY <2>1, <2>3 DEF GroupInv, TypeOK
    <2>. QED BY <2>2, <2>3 DEF Keeps
  <1>4. task' \in [Replicas -> Labels]
    BY DEF GroupInv, TypeOK, Keeps, GoTo, Labels
  <1>5. \A p \in Partitions :
          /\ committed'[p] \in Offsets(p)' \cup {None}
          /\ \A s \in Replicas : position'[s][p] \in Offsets(p)' \cup {None}
          /\ notified'[p] \subseteq Offsets(p)' \ {0}
    BY <1>1, <1>2 DEF GroupInv, TypeOK, Keeps, Offsets
  <1>6. TypeOK'
    BY <1>1, <1>2, <1>3, <1>4, <1>5 DEF GroupInv, TypeOK, Keeps, Labels
  <1>7. OffsetInv'
    BY <1>1, <1>2 DEF GroupInv, OffsetInv, CommittedIsNotified, NotifiedInOrder, ReadIsNotified, Keeps
  <1>. QED BY <1>6, <1>7 DEF GroupInv

-----------------------------------------------------------------------------

LEMMA GroupInit == Init => GroupInv
  <1>. SUFFICES ASSUME Init PROVE GroupInv
    OBVIOUS
  <1>1. <<>> \in Seq(Transactions) /\ Len(<<>>) = 0
    OBVIOUS
  <1>2. TypeOK
    <2>1. MaxFailures \in Nat /\ MaxRestarts \in Nat /\ MaxHistory \in Nat
      BY NotificationsAssumption
    <2>2. /\ topic \in [Partitions -> Seq(Transactions)]
          /\ history \in [Replicas -> Seq(Transactions)]
          /\ \A r \in Replicas : Len(history[r]) <= MaxHistory
      BY <1>1, <2>1 DEF Init
    <2>3. /\ NoPositions \in [Partitions -> Nat \cup {None}]
          /\ \A p \in Partitions : NoPositions[p] = None
      BY DEF NoPositions
    <2>4. /\ committed = NoPositions
          /\ position \in [Replicas -> [Partitions -> Nat \cup {None}]]
          /\ \A r \in Replicas : \A p \in Partitions : position[r][p] = None
      BY <2>3 DEF Init
    <2>5. /\ notified \in [Partitions -> SUBSET Nat]
          /\ \A p \in Partitions : notified[p] = {}
      BY DEF Init
    <2>6. /\ unsent \subseteq Transactions
          /\ joined = {} /\ members = {} /\ rebalancing \in BOOLEAN /\ repeated \in BOOLEAN
          /\ task \in [Replicas -> {"down"}]
          /\ failures = 0 /\ restarts = 0
      BY DEF Init
    <2>7. failures \in 0 .. MaxFailures /\ restarts \in 0 .. MaxRestarts
      BY <2>1, <2>6
    <2>. QED BY <2>2, <2>3, <2>4, <2>5, <2>6, <2>7 DEF TypeOK
  <1>3. OffsetInv
    BY DEF Init, OffsetInv, CommittedIsNotified, NotifiedInOrder, ReadIsNotified, NoPositions
  <1>. QED BY <1>2, <1>3 DEF GroupInv

LEMMA GroupStep == GroupInv /\ [Next]_vars => GroupInv'
  <1>. SUFFICES ASSUME GroupInv, [Next]_vars PROVE GroupInv'
    OBVIOUS
  <1>. USE DEF Keeps, GroupInv, TypeOK, Labels, sentVars, groupVars, seenVars
  <1>1. ASSUME NEW r \in Replicas, Boot(r) PROVE Keeps(r)
    BY <1>1 DEF Boot, GoTo
  <1>2. ASSUME NEW r \in Replicas, Join(r) PROVE Keeps(r)
    BY <1>2 DEF Join, GoTo
  <1>3. ASSUME NEW r \in Replicas, StartFails(r) PROVE Keeps(r)
    BY <1>3, NotificationsAssumption DEF StartFails, Failure, GoTo
  <1>4. ASSUME NEW r \in Replicas, Rejoin(r) PROVE Keeps(r)
    BY <1>4, NotificationsAssumption DEF Rejoin, Failure
  <1>5. ASSUME NEW r \in Replicas, Fenced(r) PROVE Keeps(r)
    BY <1>5 DEF Fenced
  <1>6. ASSUME NEW r \in Replicas, Expire(r) PROVE Keeps(r)
    BY <1>6 DEF Expire, Leave
  <1>7. ASSUME NEW r \in Replicas, Evict(r) PROVE Keeps(r)
    BY <1>7, NotificationsAssumption DEF Evict, Leave, Failure
  <1>8. ASSUME NEW r \in Replicas, AutoCommit(r) PROVE Keeps(r)
    BY <1>8 DEF AutoCommit
  <1>9. ASSUME NEW r \in Replicas, LoopFails(r) PROVE Keeps(r)
    BY <1>9, NotificationsAssumption DEF LoopFails, Failure, GoTo
  <1>10. ASSUME NEW r \in Replicas, Shutdown(r) PROVE Keeps(r)
    BY <1>10, NotificationsAssumption DEF Shutdown, GoTo
  <1>11. ASSUME NEW r \in Replicas, Stop(r) PROVE Keeps(r)
    <2>1. /\ committed' = committed \/ committed' = CommittedBy(r)
          /\ joined' \subseteq members' /\ members' \subseteq Replicas /\ rebalancing' \in BOOLEAN
      BY <1>11 DEF Stop, Leave
    <2>2. failures' \in 0 .. MaxFailures
      BY <1>11, NotificationsAssumption DEF Stop, Failure
    <2>3. \E label \in Labels : GoTo(r, label)
      BY <1>11 DEF Stop
    <2>. QED BY <1>11, <2>1, <2>2, <2>3 DEF Stop
  <1>12. ASSUME NEW r \in Replicas, Die(r) PROVE Keeps(r)
    BY <1>12, NotificationsAssumption DEF Die, Failure, GoTo
  <1>13. CASE UNCHANGED vars
    BY <1>13 DEF vars, OffsetInv, CommittedIsNotified, NotifiedInOrder, ReadIsNotified, Offsets
  <1>. QED
    BY <1>1, <1>2, <1>3, <1>4, <1>5, <1>6, <1>7, <1>8, <1>9, <1>10, <1>11, <1>12, <1>13,
       SendStep, AssignStep, HandleStep, KeepsInv
    DEF Next

\* Every variable keeps its type, and the record of messages its bound.
THEOREM GroupTypes == Spec => []TypeOK
  BY GroupInit, GroupStep, PTL DEF Spec, GroupInv

\* However replicas fail, restart and take over from each other, the group never
\* passes an event nobody was notified of.
THEOREM NoEventPassedOver == Spec => []CommittedIsNotified
  BY GroupInit, GroupStep, PTL DEF Spec, GroupInv, OffsetInv

\* The events of a partition are first notified in its order.
THEOREM NotifiedInTopicOrder == Spec => []NotifiedInOrder
  BY GroupInit, GroupStep, PTL DEF Spec, GroupInv, OffsetInv

-----------------------------------------------------------------------------
(* As long as nothing fails.                                                 *)

\* Who reads is a member, and only who reads, or is being stopped, has positions.
MembersRead ==
  /\ \A r \in Replicas : task[r] \in Reading \cup Closing => r \in members
  /\ \A r \in Replicas : \A p \in Partitions :
       position[r][p] # None => task[r] \in {"consuming"} \cup Closing /\ r \notin joined

\* A partition has one reader, who is where its notifications end; without a
\* reader they end at the offset committed.
OneReader ==
  /\ \A r \in Replicas : \A p \in Partitions :
       position[r][p] # None =>
         /\ notified[p] = 1 .. position[r][p]
         /\ \A s \in Replicas \ {r} : position[s][p] = None
  /\ \A p \in Partitions :
       (\A r \in Replicas : position[r][p] = None) => notified[p] = 1 .. StartPosition(p)

Calm == ~repeated /\ MembersRead /\ OneReader

CalmInv == failures = 0 => Calm

\* A step that leaves positions, offsets and notifications alone.
LEMMA CalmFrame ==
  ASSUME Calm, UNCHANGED <<committed, position, notified, repeated>>, MembersRead'
  PROVE  Calm'
  BY DEF Calm, OneReader, StartPosition

\* A reader that commits where it is and gives its partitions up.
LEMMA CalmHandOver ==
  ASSUME GroupInv, Calm, NEW r \in Replicas, committed' = CommittedBy(r), GiveUp(r),
         UNCHANGED <<notified, repeated>>,
         \A s \in Replicas \ {r} : task'[s] = task[s] /\ (s \in members => s \in members')
                                   /\ (s \in joined' => s \in joined),
         task'[r] \in Reading \cup Closing => r \in members'
  PROVE  Calm'
  <1>. USE DEF GroupInv, TypeOK
  <1>1. /\ \A p \in Partitions : position'[r][p] = None
        /\ \A s \in Replicas \ {r} : position'[s] = position[s]
    BY DEF GiveUp, NoPositions
  <1>2. MembersRead'
    <2>1. ASSUME NEW s \in Replicas, task'[s] \in Reading \cup Closing
          PROVE  s \in members'
      BY <2>1 DEF Calm, MembersRead
    <2>2. ASSUME NEW s \in Replicas, NEW p \in Partitions, position'[s][p] # None
          PROVE  task'[s] \in {"consuming"} \cup Closing /\ s \notin joined'
      <3>1. s # r /\ position[s][p] # None
        BY <1>1, <2>2
      <3>. QED BY <3>1 DEF Calm, MembersRead
    <2>3. Reading' = Reading /\ Closing' = Closing
      BY DEF Reading, Closing
    <2>. QED BY <2>1, <2>2, <2>3 DEF MembersRead
  <1>3. \A p \in Partitions :
          committed'[p] = IF position[r][p] = None THEN committed[p] ELSE position[r][p]
    BY DEF CommittedBy
  <1>4. ASSUME NEW p \in Partitions, \A s \in Replicas : position'[s][p] = None
        PROVE  notified'[p] = 1 .. StartPosition(p)'
    <2>1. CASE position[r][p] = None
      <3>1. \A s \in Replicas : position[s][p] = None
        BY <1>1, <1>4, <2>1
      <3>2. StartPosition(p)' = StartPosition(p)
        BY <1>3, <2>1 DEF StartPosition
      <3>. QED BY <3>1, <3>2 DEF Calm, OneReader
    <2>2. CASE position[r][p] # None
      <3>1. StartPosition(p)' = position[r][p]
        BY <1>3, <2>2 DEF StartPosition
      <3>. QED BY <2>2, <3>1 DEF Calm, OneReader
    <2>. QED BY <2>1, <2>2
  <1>5. ASSUME NEW s \in Replicas, NEW p \in Partitions, position'[s][p] # None
        PROVE  /\ notified'[p] = 1 .. position'[s][p]
               /\ \A t \in Replicas \ {s} : position'[t][p] = None
    <2>1. s # r /\ position'[s] = position[s]
      BY <1>1, <1>5
    <2>. QED BY <1>1, <1>5, <2>1 DEF Calm, OneReader
  <1>. QED BY <1>2, <1>4, <1>5 DEF Calm, OneReader

\* When all members have joined nobody has a position, and each partition is
\* given to one.
LEMMA CalmAssign ==
  ASSUME GroupInv, Calm, Assign
  PROVE  Calm'
  <1>. USE DEF GroupInv, TypeOK
  <1>1. PICK reader \in [Partitions -> members] :
          position' = [r \in Replicas |-> [p \in Partitions |->
            IF reader[p] = r /\ task[r] \in Reading THEN StartPosition(p) ELSE None]]
    BY DEF Assign
  <1>2. \A r \in Replicas : \A p \in Partitions : position[r][p] = None
    BY DEF Assign, Calm, MembersRead, Reading
  <1>3. \A p \in Partitions : notified[p] = 1 .. StartPosition(p)
    BY <1>2 DEF Calm, OneReader
  <1>4. /\ UNCHANGED <<committed, members, notified, repeated>> /\ joined' = {}
        /\ \A p \in Partitions : StartPosition(p)' = StartPosition(p)
    BY DEF Assign, seenVars, StartPosition
  <1>5. ASSUME NEW r \in Replicas, NEW p \in Partitions, position'[r][p] # None
        PROVE  /\ reader[p] = r /\ r \in members /\ task[r] \in Reading
               /\ position'[r][p] = StartPosition(p)
    BY <1>1, <1>5
  <1>6. ASSUME NEW r \in Replicas
        PROVE  task'[r] = IF r \in members /\ task[r] = "waiting" THEN "consuming" ELSE task[r]
    BY DEF Assign
  <1>7. MembersRead'
    BY <1>4, <1>5, <1>6 DEF Calm, MembersRead, Reading, Closing
  <1>8. OneReader'
    BY <1>3, <1>4, <1>5 DEF OneReader
  <1>. QED BY <1>4, <1>7, <1>8 DEF Calm

\* The message the one reader takes is the first that was not notified.
LEMMA CalmHandle ==
  ASSUME GroupInv, Calm, NEW r \in Replicas, NEW p \in Partitions, Handle(r, p)
  PROVE  Calm'
  <1>. USE DEF GroupInv, TypeOK
  <1>. DEFINE offset == position[r][p] + 1
  <1>1. /\ position[r][p] # None /\ position[r][p] \in Nat
        /\ notified[p] = 1 .. position[r][p]
        /\ \A s \in Replicas \ {r} : position[s][p] = None
    BY DEF Handle, Calm, OneReader
  <1>2. offset \notin notified[p] /\ notified[p] \cup {offset} = 1 .. offset /\ offset # None
    BY <1>1, NotificationsAssumption
  <1>3. /\ position'[r][p] = offset
        /\ \A s \in Replicas : \A q \in Partitions :
             <<s, q>> # <<r, p>> => position'[s][q] = position[s][q]
        /\ notified'[p] = notified[p] \cup {offset}
        /\ \A q \in Partitions : q # p => notified'[q] = notified[q]
        /\ repeated' = (repeated \/ offset \in notified[p])
        /\ UNCHANGED <<committed, members, joined, task>>
    BY DEF Handle, groupVars
  <1>. HIDE DEF offset
  <1>4. ~repeated'
    BY <1>2, <1>3 DEF Calm
  <1>5. MembersRead'
    BY <1>1, <1>3 DEF Calm, MembersRead
  <1>6. ASSUME NEW s \in Replicas, NEW q \in Partitions, position'[s][q] # None
        PROVE  /\ notified'[q] = 1 .. position'[s][q]
               /\ \A t \in Replicas \ {s} : position'[t][q] = None
    <2>1. CASE q = p
      BY <1>1, <1>2, <1>3, <1>6, <2>1
    <2>2. CASE q # p
      BY <1>3, <1>6, <2>2 DEF Calm, OneReader
    <2>. QED BY <2>1, <2>2
  <1>7. ASSUME NEW q \in Partitions, \A s \in Replicas : position'[s][q] = None
        PROVE  notified'[q] = 1 .. StartPosition(q)'
    <2>1. q # p
      BY <1>2, <1>3, <1>7
    <2>2. \A s \in Replicas : position[s][q] = None
      BY <1>3, <1>7, <2>1
    <2>. QED BY <1>3, <2>1, <2>2 DEF Calm, OneReader, StartPosition
  <1>. QED BY <1>4, <1>5, <1>6, <1>7 DEF Calm, OneReader

\* Committing where a reader is says nothing about the partitions of others.
LEMMA CalmCommit ==
  ASSUME GroupInv, Calm, NEW r \in Replicas, AutoCommit(r)
  PROVE  Calm'
  <1>1. UNCHANGED <<position, notified, repeated, members, joined, task>>
    BY DEF AutoCommit, seenVars
  <1>2. ASSUME NEW p \in Partitions, \A s \in Replicas : position[s][p] = None
        PROVE  StartPosition(p)' = StartPosition(p)
    BY <1>2 DEF AutoCommit, CommittedBy, StartPosition
  <1>. QED BY <1>1, <1>2 DEF Calm, MembersRead, OneReader

LEMMA CalmInit == Init => CalmInv
  <1>. SUFFICES ASSUME Init PROVE Calm
    BY DEF CalmInv
  <1>1. /\ ~repeated
        /\ \A r \in Replicas : task[r] = "down"
        /\ \A r \in Replicas : \A p \in Partitions : position[r][p] = None
        /\ \A p \in Partitions : notified[p] = {} /\ StartPosition(p) = 0
    BY DEF Init, NoPositions, StartPosition
  <1>2. 1 .. 0 = {}
    OBVIOUS
  <1>. QED BY <1>1, <1>2 DEF Calm, MembersRead, OneReader, Reading, Closing

LEMMA CalmStep == GroupInv /\ CalmInv /\ [Next]_vars => CalmInv'
  <1>. SUFFICES ASSUME GroupInv, CalmInv, [Next]_vars, failures' = 0 PROVE Calm'
    BY DEF CalmInv
  <1>1. failures \in Nat /\ ~Failure
    BY NotificationsAssumption DEF GroupInv, TypeOK, Failure
  <1>. USE DEF Reading, Closing, GoTo
  <1>2. CASE UNCHANGED vars
    BY <1>2, CalmFrame DEF vars, groupVars, seenVars, CalmInv, Calm, MembersRead
  <1>3. CASE Next
    <2>1. failures = 0 /\ Calm
      <3>1. failures' = failures
        BY <1>1, <1>3
        DEF Next, Send, Boot, Join, StartFails, Rejoin, Fenced, Expire, Evict, Handle, AutoCommit,
            LoopFails, Shutdown, Stop, Die, Assign
      <3>. QED BY <3>1 DEF CalmInv
    <2>2. ASSUME NEW t \in Transactions, Send(t) PROVE Calm'
      BY <2>1, <2>2, CalmFrame DEF Send, groupVars, seenVars, Calm, MembersRead
    <2>3. ASSUME NEW r \in Replicas, Boot(r) \/ Join(r) \/ Expire(r) \/ Shutdown(r) PROVE Calm'
      <3>1. UNCHANGED <<committed, position, notified, repeated>>
        BY <2>3 DEF Boot, Join, Expire, Shutdown, groupVars, seenVars
      <3>2. MembersRead'
        <4>1. CASE Boot(r)
          BY <2>1, <4>1 DEF GroupInv, TypeOK, Boot, groupVars, Calm, MembersRead
        <4>2. CASE Join(r)
          BY <2>1, <4>2 DEF GroupInv, TypeOK, Join, Calm, MembersRead
        <4>3. CASE Expire(r)
          BY <2>1, <4>3 DEF GroupInv, TypeOK, Expire, Leave, Abandoned, Calm, MembersRead
        <4>4. CASE Shutdown(r)
          BY <2>1, <4>4 DEF GroupInv, TypeOK, Shutdown, groupVars, Calm, MembersRead
        <4>. QED BY <2>3, <4>1, <4>2, <4>3, <4>4
      <3>. QED BY <2>1, <3>1, <3>2, CalmFrame
    <2>4. ASSUME NEW r \in Replicas, Rejoin(r) PROVE Calm'
      <3>1. committed' = CommittedBy(r)
        BY <1>1, <2>4 DEF Rejoin
      <3>. QED BY <2>1, <2>4, <3>1, CalmHandOver DEF Rejoin, seenVars, Calm, MembersRead
    <2>5. ASSUME NEW r \in Replicas, Stop(r) PROVE Calm'
      <3>1. r \in members /\ committed' = CommittedBy(r) /\ Leave(r)
        BY <1>1, <2>1, <2>5 DEF Stop, Calm, MembersRead
      <3>2. /\ \A s \in Replicas \ {r} : task'[s] = task[s]
            /\ task'[r] \in {"down", "ended"}
        BY <2>5 DEF Stop, GroupInv, TypeOK
      <3>3. GiveUp(r) /\ UNCHANGED <<notified, repeated>>
        BY <2>5 DEF Stop, seenVars
      <3>. QED BY <2>1, <3>1, <3>2, <3>3, CalmHandOver DEF Leave
    \* What only a failure brings about: no reader is taken for dead or dies.
    <2>6. ASSUME NEW r \in Replicas,
                 StartFails(r) \/ Evict(r) \/ LoopFails(r) \/ Die(r) \/ Fenced(r)
          PROVE  FALSE
      BY <1>1, <2>1, <2>6 DEF StartFails, Evict, LoopFails, Die, Fenced, Calm, MembersRead
    <2>7. ASSUME Assign PROVE Calm'
      BY <2>1, <2>7, CalmAssign
    <2>8. ASSUME NEW r \in Replicas, NEW p \in Partitions, Handle(r, p) PROVE Calm'
      BY <2>1, <2>8, CalmHandle
    <2>9. ASSUME NEW r \in Replicas, AutoCommit(r) PROVE Calm'
      BY <2>1, <2>9, CalmCommit
    <2>. QED BY <1>3, <2>2, <2>3, <2>4, <2>5, <2>6, <2>7, <2>8, <2>9 DEF Next
  <1>. QED BY <1>2, <1>3

\* Any number of replicas that come and go in good order, as often as they
\* like, notify no event of the topic twice.
THEOREM RollingUpdate == Spec => []RestartsRepeatNothing
  <1>1. CalmInv => RestartsRepeatNothing
    BY DEF CalmInv, Calm, RestartsRepeatNothing
  <1>. QED BY <1>1, GroupInit, GroupStep, CalmInit, CalmStep, PTL DEF Spec
==============================================================================
