--------------------------- MODULE Notifications ---------------------------
(* From the producer of the transaction service to the notification service: *)
(* topic transaction.created, the consumer group its replicas form, and the  *)
(* task with which each replica reads.  The loop awaits nothing between two  *)
(* messages, so a message is taken, recorded and notified in one step.       *)
EXTENDS Integers, Sequences, FiniteSets

CONSTANTS
  Replicas,      \* of the notification service, all in one consumer group
  Partitions,    \* of the topic
  Transactions,  \* committed transactions, one event each
  PartitionOf,   \* the partition the hash of a transaction's id selects
  MaxHistory,    \* MAX_HISTORY
  MaxFailures,   \* bound on what goes wrong in a behaviour
  MaxRestarts,   \* bound on replicas shut down in good order
  None

ASSUME NotificationsAssumption ==
  /\ PartitionOf \in [Transactions -> Partitions]
  /\ MaxHistory \in Nat \ {0}
  /\ {MaxFailures, MaxRestarts} \subseteq Nat
  /\ None \notin Nat

VARIABLES
  topic,        \* the messages of each partition, in order
  unsent,       \* transactions whose handler has not come to its send
  committed,    \* the group's offsets: how many messages of a partition are done
  members,      \* the group as the broker knows it
  joined,       \* members that wait for the next assignment
  rebalancing,  \* has the broker asked the members to join again?
  task,         \* the consume loop of a replica, "down" without a process
  position,     \* how many messages a replica has taken of the partitions it reads
  history,      \* _message_history
  notified,     \* history: the offsets notified, per partition
  repeated,     \* history: was an offset ever notified twice?
  failures,     \* failures so far
  restarts      \* shutdowns so far

groupVars == <<committed, members, joined, rebalancing>>
sentVars == <<topic, unsent>>
seenVars == <<notified, repeated>>
vars == <<sentVars, groupVars, task, position, history, seenVars, failures, restarts>>

Reading == {"waiting", "consuming"}
Closing == {"closing", "failing"}

NoPositions == [p \in Partitions |-> None]

Init ==
  /\ topic = [p \in Partitions |-> <<>>]
  /\ unsent = Transactions
  /\ committed = NoPositions
  /\ members = {} /\ joined = {} /\ rebalancing = FALSE
  /\ task = [r \in Replicas |-> "down"]
  /\ position = [r \in Replicas |-> NoPositions]
  /\ history = [r \in Replicas |-> <<>>]
  /\ notified = [p \in Partitions |-> {}]
  /\ repeated = FALSE
  /\ failures = 0
  /\ restarts = 0

Failure == failures < MaxFailures /\ failures' = failures + 1

GoTo(r, label) == task' = [task EXCEPT ![r] = label]

GiveUp(r) == position' = [position EXCEPT ![r] = NoPositions]

-----------------------------------------------------------------------------
(* The producer.                                                             *)

\* A handler sends the event of a committed transaction.  The broker acknowledges
\* what every in-sync copy holds; without idempotence a send that is retried may
\* be appended twice; one that fails is logged and forgotten.
Send(t) ==
  /\ t \in unsent
  /\ unsent' = unsent \ {t}
  /\ LET p == PartitionOf[t] IN
       \/ topic' = [topic EXCEPT ![p] = Append(@, t)] /\ UNCHANGED failures
       \/ topic' = [topic EXCEPT ![p] = @ \o <<t, t>>] /\ Failure
       \/ UNCHANGED topic /\ Failure
  /\ UNCHANGED <<groupVars, task, position, history, seenVars, restarts>>

-----------------------------------------------------------------------------
(* Start-up.                                                                 *)

\* The process starts: lifespan creates the task and serves requests at once.
Boot(r) ==
  /\ task[r] = "down"
  /\ GoTo(r, "starting")
  /\ history' = [history EXCEPT ![r] = <<>>]
  /\ UNCHANGED <<sentVars, groupVars, position, seenVars, failures, restarts>>

\* _consumer.start() asks to join the group and waits for an assignment.
Join(r) ==
  /\ task[r] = "starting"
  /\ r \notin members
  /\ members' = members \cup {r}
  /\ joined' = joined \cup {r}
  /\ rebalancing' = TRUE
  /\ GoTo(r, "waiting")
  /\ UNCHANGED <<sentVars, committed, position, history, seenVars, failures, restarts>>

\* It raises, before the try block: the task is over, the process goes on.
StartFails(r) ==
  /\ task[r] \in {"starting", "waiting"}
  /\ Failure
  /\ GoTo(r, "ended")
  /\ UNCHANGED <<sentVars, groupVars, position, history, seenVars, restarts>>

-----------------------------------------------------------------------------
(* The consumer group.                                                       *)

\* Mutant: a replica resumes behind the message after the last one committed.
StartAfterCommitted(p) ==
  IF committed[p] = None THEN 0
  ELSE IF committed[p] < Len(topic[p]) THEN committed[p] + 1 ELSE committed[p]

\* Mutant: auto_offset_reset is "latest".
StartAtLatest(p) == IF committed[p] = None THEN Len(topic[p]) ELSE committed[p]

\* Where a partition is read from: its committed offset, or the earliest.
StartPosition(p) == IF committed[p] = None THEN 0 ELSE committed[p]

\* The offsets once replica r has committed its positions.
CommittedBy(r) ==
  [p \in Partitions |-> IF position[r][p] = None THEN committed[p] ELSE position[r][p]]

\* All members have joined: each partition goes to one of them.
Assign ==
  /\ rebalancing
  /\ joined = members
  /\ \E reader \in [Partitions -> members] :
       position' = [r \in Replicas |-> [p \in Partitions |->
         IF reader[p] = r /\ task[r] \in Reading THEN StartPosition(p) ELSE None]]
  /\ task' = [r \in Replicas |->
       IF r \in members /\ task[r] = "waiting" THEN "consuming" ELSE task[r]]
  /\ joined' = {}
  /\ rebalancing' = FALSE
  /\ UNCHANGED <<sentVars, committed, members, history, seenVars, failures, restarts>>

\* A reader that is asked to join again stops reading, commits and joins.
Rejoin(r) ==
  /\ rebalancing
  /\ r \in members \ joined
  /\ task[r] = "consuming"
  /\ \/ committed' = CommittedBy(r) /\ UNCHANGED failures
     \/ UNCHANGED committed /\ Failure
  /\ GiveUp(r)
  /\ joined' = joined \cup {r}
  /\ UNCHANGED <<sentVars, members, rebalancing, task, history, seenVars, restarts>>

\* A reader the broker took for dead learns of it: its commits are refused, and
\* it joins as a new member.
Fenced(r) ==
  /\ task[r] \in Reading
  /\ r \notin members
  /\ GiveUp(r)
  /\ members' = members \cup {r}
  /\ joined' = joined \cup {r}
  /\ rebalancing' = TRUE
  /\ UNCHANGED <<sentVars, committed, task, history, seenVars, failures, restarts>>

Leave(r) == members' = members \ {r} /\ joined' = joined \ {r} /\ rebalancing' = TRUE

Abandoned(r) == task[r] \in {"down", "starting", "ended"}

\* The session of a member without a reader runs out.
Expire(r) ==
  /\ r \in members
  /\ Abandoned(r)
  /\ Leave(r)
  /\ UNCHANGED <<sentVars, committed, task, position, history, seenVars, failures, restarts>>

\* The heartbeats of a member that reads are late, and its session runs out.
Evict(r) ==
  /\ r \in members
  /\ ~Abandoned(r)
  /\ Failure
  /\ Leave(r)
  /\ UNCHANGED <<sentVars, committed, task, position, history, seenVars, restarts>>

-----------------------------------------------------------------------------
(* The consume loop.                                                         *)

\* Mutant: the record of messages has no bound.
AppendUnbounded(h, m) == Append(h, m)

\* A deque with maxlen drops its oldest element.
Recorded(h, m) == IF Len(h) < MaxHistory THEN Append(h, m) ELSE Append(Tail(h), m)

\* The next message of partition p is taken, recorded and notified.
Handle(r, p) ==
  /\ task[r] = "consuming"
  /\ position[r][p] # None
  /\ position[r][p] < Len(topic[p])
  /\ LET offset == position[r][p] + 1 IN
       /\ position' = [position EXCEPT ![r][p] = offset]
       /\ history' = [history EXCEPT ![r] = Recorded(@, topic[p][offset])]
       /\ repeated' = (repeated \/ offset \in notified[p])
       /\ notified' = [notified EXCEPT ![p] = @ \cup {offset}]
  /\ UNCHANGED <<sentVars, groupVars, task, failures, restarts>>

\* Every five seconds the positions are committed, by members.
AutoCommit(r) ==
  /\ task[r] = "consuming"
  /\ r \in members
  /\ committed' = CommittedBy(r)
  /\ UNCHANGED <<sentVars, members, joined, rebalancing, task, position, history, seenVars, failures,
                 restarts>>

\* The consumer raises an error of Kafka out of the loop.
LoopFails(r) ==
  /\ task[r] = "consuming"
  /\ Failure
  /\ GoTo(r, "failing")
  /\ UNCHANGED <<sentVars, groupVars, position, history, seenVars, restarts>>

\* Mutant: the flag is set and the task not cancelled: the loop takes one more
\* message of a partition, sees the flag and drops it.
ShutdownByFlag(r) ==
  /\ restarts < MaxRestarts /\ restarts' = restarts + 1
  /\ task[r] = "consuming"
  /\ GoTo(r, "closing")
  /\ \E p \in Partitions :
       /\ position[r][p] # None /\ position[r][p] < Len(topic[p])
       /\ position' = [position EXCEPT ![r][p] = @ + 1]
  /\ UNCHANGED <<sentVars, groupVars, history, seenVars, failures>>

\* SIGTERM: lifespan sets the flag and cancels the task in one step, so the loop
\* gets the cancellation where it waits for a message, and never sees the flag.
\* A task that is still in _consumer.start() ends without stop().
Shutdown(r) ==
  /\ restarts < MaxRestarts /\ restarts' = restarts + 1
  /\ \/ task[r] = "consuming" /\ GoTo(r, "closing")
     \/ task[r] \in {"starting", "waiting", "ended"} /\ GoTo(r, "down")
  /\ UNCHANGED <<sentVars, groupVars, position, history, seenVars, failures>>

\* Mutant: no finally clause stops the consumer.
NoStop(r) ==
  /\ task[r] \in Closing
  /\ GoTo(r, IF task[r] = "closing" THEN "down" ELSE "ended")
  /\ GiveUp(r)
  /\ UNCHANGED <<sentVars, groupVars, history, seenVars, failures, restarts>>

\* The finally clause: _consumer.stop() commits, if the broker still counts this
\* replica as a member, and leaves the group; either may fail.  After a shutdown
\* the process ends, after an error it goes on without a reader.
Stop(r) ==
  /\ task[r] \in Closing
  /\ \/ r \in members /\ committed' = CommittedBy(r) /\ Leave(r) /\ UNCHANGED failures
     \/ r \notin members /\ UNCHANGED <<groupVars, failures>>
     \/ r \in members /\ Failure /\ UNCHANGED groupVars
  /\ GoTo(r, IF task[r] = "closing" THEN "down" ELSE "ended")
  /\ GiveUp(r)
  /\ UNCHANGED <<sentVars, history, seenVars, restarts>>

\* The process is killed.
Die(r) ==
  /\ task[r] # "down"
  /\ Failure
  /\ GoTo(r, "down")
  /\ GiveUp(r)
  /\ UNCHANGED <<sentVars, groupVars, history, seenVars, restarts>>

Next ==
  \/ \E t \in Transactions : Send(t)
  \/ \E r \in Replicas :
       \/ Boot(r) \/ Join(r) \/ StartFails(r)
       \/ Rejoin(r) \/ Fenced(r) \/ Expire(r) \/ Evict(r)
       \/ \E p \in Partitions : Handle(r, p)
       \/ AutoCommit(r) \/ LoopFails(r) \/ Shutdown(r) \/ Stop(r) \/ Die(r)
  \/ Assign

Spec == Init /\ [][Next]_vars

\* What a replica and the broker do to get or keep it reading.  At most one of
\* these waits at a time, but for the expiry that a new reader waits for.
Serve(r) == Boot(r) \/ Join(r) \/ Rejoin(r) \/ Fenced(r) \/ Expire(r) \/ Stop(r)

\* The orchestrator starts a process that has ended, the event loop runs the
\* task, and the broker ends sessions and rebalances.  Nothing starts a task that
\* ended in a process that lives.
Fairness ==
  /\ WF_vars(Assign)
  /\ \A r \in Replicas : WF_vars(Serve(r)) /\ WF_vars(\E p \in Partitions : Handle(r, p))

FairSpec == Spec /\ Fairness

-----------------------------------------------------------------------------

Offsets(p) == 0 .. Len(topic[p])

\* Every variable has its type, the last MaxHistory messages at most are kept,
\* and nobody reads past the end of a partition.
TypeOK ==
  /\ topic \in [Partitions -> Seq(Transactions)]
  /\ unsent \subseteq Transactions
  /\ committed \in [Partitions -> Nat \cup {None}]
  /\ \A p \in Partitions : committed[p] \in Offsets(p) \cup {None}
  /\ joined \subseteq members /\ members \subseteq Replicas
  /\ rebalancing \in BOOLEAN
  /\ task \in [Replicas -> {"down", "starting", "waiting", "consuming", "closing", "failing", "ended"}]
  /\ position \in [Replicas -> [Partitions -> Nat \cup {None}]]
  /\ \A r \in Replicas : \A p \in Partitions : position[r][p] \in Offsets(p) \cup {None}
  /\ history \in [Replicas -> Seq(Transactions)]
  /\ \A r \in Replicas : Len(history[r]) <= MaxHistory
  /\ notified \in [Partitions -> SUBSET Nat]
  /\ \A p \in Partitions : notified[p] \subseteq Offsets(p) \ {0}
  /\ repeated \in BOOLEAN
  /\ failures \in 0 .. MaxFailures
  /\ restarts \in 0 .. MaxRestarts

\* Whoever commits, and however it ended: an offset the group has passed was
\* notified, so no crash, rebalance or restart loses an event in the topic.
CommittedIsNotified ==
  \A p \in Partitions : committed[p] # None => 1 .. committed[p] \subseteq notified[p]

\* The first notifications of a partition come in its order: an event is notified
\* only after all before it, whichever replicas read them.
NotifiedInOrder ==
  \A p \in Partitions : \A i \in notified[p] : 1 .. i \subseteq notified[p]

\* Replicas that come and go in good order, as in a rolling update, notify no
\* event of the topic twice: the consumer commits when it is stopped or asked to
\* join again.
RestartsRepeatNothing == failures = 0 => ~repeated

AllEnded == \A r \in Replicas : task[r] = "ended"

InTopic(t) == \E p \in Partitions : \E i \in 1 .. Len(topic[p]) : topic[p][i] = t

Notified(t) == \E p \in Partitions : \E i \in notified[p] : topic[p][i] = t

\* Every event in the topic is notified in the end, also after crashes and
\* rebalances, unless the loops of all replicas have ended with an error.
EveryEventNotified == \A t \in Transactions : InTopic(t) ~> (Notified(t) \/ AllEnded)
=============================================================================
