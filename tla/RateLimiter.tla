---------------------------- MODULE RateLimiter ----------------------------
(* The gateway's sliding-window rate limiter: is_allowed, run by handlers of *)
(* several gateway replicas for requests of one client, on the sorted set    *)
(* Redis keeps for that client.  Clients have a set each and do not meet.    *)
(* Time is a clock of ticks that stand for milliseconds, the same for every  *)
(* replica and for Redis.                                                    *)
EXTENDS Integers, FiniteSets

CONSTANTS
  Handlers,   \* requests of the client that can be under way at once
  Limiters,   \* the RateLimiter objects, told apart by id(self)
  LimiterOf,  \* the object of the replica a handler runs on
  Limit,      \* RATE_LIMIT_REQUESTS
  Second,     \* ticks in a second
  Window,     \* RATE_LIMIT_WINDOW_SECONDS, in ticks
  MaxTime,    \* bound on the clock
  SameMs,     \* may two requests of the client read the same millisecond?
  Delays      \* may time pass between reading the clock and the pipeline?

ASSUME RateAssumption ==
  /\ LimiterOf \in [Handlers -> Limiters]
  /\ {Limit, Second, Window, MaxTime} \subseteq Nat \ {0}
  /\ {SameMs, Delays} \subseteq BOOLEAN

VARIABLES
  now,        \* the clock
  entries,    \* the sorted set: members "<now_ms>:<id>" with score now_ms
  expiresAt,  \* when the key expires
  lastRead,   \* the latest value a handler read from the clock, -1 for none
  pc,         \* where the handler is
  now_ms,     \* the value it read from the clock
  admitted    \* history: requests let through, by time stamp and handler

vars == <<now, entries, expiresAt, lastRead, pc, now_ms, admitted>>

\* Mutant: the entry of a request is stored under the end of its window.
EntryAhead(h) == [ms |-> now_ms[h] + Window, by |-> LimiterOf[h]]

Entry(h) == [ms |-> now_ms[h], by |-> LimiterOf[h]]

\* Redis shows nothing of a key that has expired.
Stored == IF now < expiresAt THEN entries ELSE {}

Init ==
  /\ now = 0
  /\ entries = {}
  /\ expiresAt = 0
  /\ lastRead = -1
  /\ pc = [h \in Handlers |-> "idle"]
  /\ now_ms = [h \in Handlers |-> 0]
  /\ admitted = {}

-----------------------------------------------------------------------------

\* A request arrives and its handler reads the clock.
Arrive(h) ==
  /\ pc[h] = "idle"
  /\ SameMs \/ now > lastRead
  /\ lastRead' = now
  /\ now_ms' = [now_ms EXCEPT ![h] = now]
  /\ pc' = [pc EXCEPT ![h] = "pipeline"]
  /\ UNCHANGED <<now, entries, expiresAt, admitted>>

\* Mutant: the entry that is one tick short of the window is trimmed too.
KeptOffByOne(h) == {e \in Stored : e.ms + Window > now_ms[h] + 1}

\* Mutant: nothing is trimmed, entries go when the key expires.
KeptForever(h) == Stored

\* What ZREMRANGEBYSCORE 0 .. now - window leaves.
Kept(h) == {e \in Stored : e.ms + Window > now_ms[h]}

CurrentCount(h) == Cardinality(Kept(h))

\* The MULTI/EXEC pipeline: trim, count, add, expire.
Pipeline(h) ==
  /\ pc[h] = "pipeline"
  /\ entries' = Kept(h) \cup {Entry(h)}
  /\ expiresAt' = now + Window + Second
  /\ \/ /\ CurrentCount(h) < Limit
        /\ admitted' = admitted \cup {[ms |-> now_ms[h], handler |-> h]}
        /\ pc' = [pc EXCEPT ![h] = "admitted"]
     \/ /\ CurrentCount(h) >= Limit
        /\ pc' = [pc EXCEPT ![h] = "undo"]
        /\ UNCHANGED admitted
  /\ UNCHANGED <<now, lastRead, now_ms>>

\* Mutant: the clock is read again to name the entry that is taken back.
UndoAtClock(h) ==
  /\ pc[h] = "undo"
  /\ entries' = {e \in Stored : e.ms # now}
  /\ pc' = [pc EXCEPT ![h] = "oldest"]
  /\ UNCHANGED <<now, expiresAt, lastRead, now_ms, admitted>>

\* A refused request takes its entry back: every entry with its time stamp.
Undo(h) ==
  /\ pc[h] = "undo"
  /\ entries' = {e \in Stored : e.ms # now_ms[h]}
  /\ pc' = [pc EXCEPT ![h] = "oldest"]
  /\ UNCHANGED <<now, expiresAt, lastRead, now_ms, admitted>>

\* ZRANGE 0 0, for the seconds the client is told to wait.
ReadOldest(h) ==
  /\ pc[h] = "oldest"
  /\ pc' = [pc EXCEPT ![h] = "refused"]
  /\ UNCHANGED <<now, entries, expiresAt, lastRead, now_ms, admitted>>

\* The answer leaves: 429 with Retry-After, or the proxied request goes on.
Reply(h) ==
  /\ pc[h] \in {"admitted", "refused"}
  /\ pc' = [pc EXCEPT ![h] = "idle"]
  /\ now_ms' = [now_ms EXCEPT ![h] = 0]
  /\ UNCHANGED <<now, entries, expiresAt, lastRead, admitted>>

\* Redis fails a call, or the replica dies: what the handler wrote stays.
Die(h) ==
  /\ pc[h] \in {"pipeline", "undo", "oldest"}
  /\ pc' = [pc EXCEPT ![h] = "dead"]
  /\ UNCHANGED <<now, entries, expiresAt, lastRead, now_ms, admitted>>

\* Time passes.  Without delays, no pipeline is overtaken by the clock.
Tick ==
  /\ now < MaxTime
  /\ Delays \/ \A h \in Handlers : pc[h] # "pipeline"
  /\ now' = now + 1
  /\ UNCHANGED <<entries, expiresAt, lastRead, pc, now_ms, admitted>>

Next ==
  \/ \E h \in Handlers :
       Arrive(h) \/ Pipeline(h) \/ Undo(h) \/ ReadOldest(h) \/ Reply(h) \/ Die(h)
  \/ Tick

Spec == Init /\ [][Next]_vars

-----------------------------------------------------------------------------

\* Every variable has its type, and no time stamp is ahead of the clock.
TypeOK ==
  /\ now \in Nat
  /\ entries \subseteq [ms : 0 .. now, by : Limiters]
  /\ expiresAt \in Nat
  /\ lastRead \in -1 .. now
  /\ pc \in [Handlers -> {"idle", "pipeline", "undo", "oldest", "admitted", "refused", "dead"}]
  /\ now_ms \in [Handlers -> 0 .. now]
  /\ admitted \subseteq [ms : 0 .. now, handler : Handlers]

\* The admitted requests of the window that ends at t.
AdmittedIn(t) == {a \in admitted : a.ms <= t /\ t < a.ms + Window}

\* At most Limit requests are admitted in any window, wherever it begins.
AtMostLimit == \A t \in 0 .. now : Cardinality(AdmittedIn(t)) <= Limit

\* An entry in the sorted set stands for a request that was admitted, or for one
\* about to take it back, or for one that died before it could: refused
\* requests do not keep a client out.
OnlyAdmittedStay ==
  \A e \in entries :
    \/ \E a \in admitted : a.ms = e.ms
    \/ \E h \in Handlers : pc[h] \in {"undo", "dead"} /\ Entry(h) = e

\* Entries that keep others out although their request was not let through: their
\* handler has yet to take them back, or died before it did.
Lingering == {now_ms[g] : g \in {g \in Handlers : pc[g] \in {"undo", "dead"} /\ Entry(g) \in entries}}

\* A request is refused only when as many as the limit were let through in its
\* window, or are lingering there: nobody is kept out by what is older than that.
RefusedForCause ==
  [][\A h \in Handlers : pc[h] = "pipeline" /\ pc'[h] = "undo" =>
       LET recent == {ms \in Lingering : now < ms + Window}
       IN Cardinality({a.ms : a \in AdmittedIn(now)} \cup recent) >= Limit]_vars
=============================================================================
