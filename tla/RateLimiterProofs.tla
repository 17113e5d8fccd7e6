-------------------------- MODULE RateLimiterProofs --------------------------
(* Proofs about RateLimiter for any number of requests under way, limit and  *)
(* window.                                                                   *)
EXTENDS RateLimiter, FiniteSetTheorems, TLAPS

-----------------------------------------------------------------------------
(* What holds of any clock: also with equal milliseconds and late pipelines. *)

EntryInv == TypeOK /\ OnlyAdmittedStay

LEMMA EntryInit == Init => EntryInv
  BY RateAssumption DEF Init, EntryInv, TypeOK, OnlyAdmittedStay

LEMMA EntryStep == EntryInv /\ [Next]_vars => EntryInv'
  <1>. SUFFICES ASSUME EntryInv, [Next]_vars PROVE EntryInv'
    OBVIOUS
  <1>. USE DEF EntryInv
  <1>1. ASSUME NEW h \in Handlers, Arrive(h) PROVE EntryInv'
    BY <1>1 DEF TypeOK, OnlyAdmittedStay, Arrive, Entry
  <1>2. ASSUME NEW h \in Handlers, Pipeline(h) PROVE EntryInv'
    <2>1. /\ Entry(h) \in [ms : 0 .. now, by : Limiters] /\ Entry(h).ms = now_ms[h]
          /\ Kept(h) \subseteq entries
      BY RateAssumption DEF TypeOK, Entry, Kept, Stored
    <2>2. expiresAt' \in Nat
      BY <1>2, RateAssumption DEF TypeOK, Pipeline
    <2>3. TypeOK'
      BY <1>2, <2>1, <2>2 DEF TypeOK, Pipeline
    <2>4. OnlyAdmittedStay'
      BY <1>2, <2>1 DEF TypeOK, OnlyAdmittedStay, Pipeline, Entry
    <2>. QED BY <2>3, <2>4
  <1>3. ASSUME NEW h \in Handlers, Undo(h) PROVE EntryInv'
    <2>1. TypeOK'
      BY <1>3 DEF TypeOK, Undo, Stored
    <2>2. \A e \in entries' : e \in entries /\ e.ms # now_ms[h]
      BY <1>3 DEF Undo, Stored
    <2>3. OnlyAdmittedStay'
      BY <1>3, <2>2 DEF TypeOK, OnlyAdmittedStay, Undo, Entry
    <2>. QED BY <2>1, <2>3
  <1>4. ASSUME NEW h \in Handlers, ReadOldest(h) \/ Reply(h) \/ Die(h) PROVE EntryInv'
    BY <1>4 DEF TypeOK, OnlyAdmittedStay, ReadOldest, Reply, Die, Entry
  <1>5. ASSUME Tick PROVE EntryInv'
    BY <1>5 DEF TypeOK, OnlyAdmittedStay, Tick, Entry
  <1>6. CASE UNCHANGED vars
    BY <1>6 DEF vars, TypeOK, OnlyAdmittedStay, Entry
  <1>. QED BY <1>1, <1>2, <1>3, <1>4, <1>5, <1>6 DEF Next

\* Every variable keeps its type, and no time stamp is ahead of the clock.
THEOREM LimiterTypes == Spec => []TypeOK
  BY EntryInit, EntryStep, PTL DEF Spec, EntryInv

\* Of a refused request nothing stays in the set, unless its handler is on the way
\* to take it back or died before it could.
THEOREM RefusedLeaveNothing == Spec => []OnlyAdmittedStay
  BY EntryInit, EntryStep, PTL DEF Spec, EntryInv

-----------------------------------------------------------------------------
(* What holds when no two requests of the client read one millisecond and no *)
(* pipeline is late: the window.                                             *)

Punctual == ~SameMs /\ ~Delays

\* Time stamps in use are no later than the last one read.
StampsRead ==
  /\ \A a \in admitted : a.ms <= lastRead
  /\ \A e \in entries : e.ms <= lastRead
  /\ \A h \in Handlers : pc[h] # "idle" => now_ms[h] <= lastRead

\* A time stamp belongs to one request.
StampsDiffer ==
  /\ \A a, b \in admitted : a.ms = b.ms => a = b
  /\ \A e, f \in entries : e.ms = f.ms => e = f
  /\ \A h \in Handlers : pc[h] \in {"pipeline", "undo"} =>
       /\ \A a \in admitted : a.ms # now_ms[h]
       /\ \A g \in Handlers \ {h} : pc[g] \in {"pipeline", "undo"} => now_ms[g] # now_ms[h]
  /\ \A h \in Handlers : pc[h] = "pipeline" =>
       now_ms[h] = now /\ \A e \in entries : e.ms # now_ms[h]

\* The set still holds the entry of every request admitted in the last window.
AdmittedStay ==
  \A a \in admitted : now < a.ms + Window =>
    a.ms + Window <= expiresAt /\ \E e \in entries : e.ms = a.ms

WindowInv ==
  /\ IsFiniteSet(entries) /\ IsFiniteSet(admitted)
  /\ StampsRead
  /\ StampsDiffer
  /\ AdmittedStay

LEMMA WindowInit == Init => WindowInv
  BY FS_EmptySet, RateAssumption DEF Init, WindowInv, StampsRead, StampsDiffer, AdmittedStay

LEMMA WindowStep ==
  ASSUME Punctual, TypeOK, WindowInv, [Next]_vars
  PROVE  WindowInv'
  <1>. USE DEF WindowInv
  <1>0. Window \in Nat \ {0} /\ Second \in Nat
    BY RateAssumption
  <1>1. ASSUME NEW h \in Handlers, Arrive(h) PROVE WindowInv'
    <2>1. now > lastRead /\ lastRead' = now /\ now_ms'[h] = now /\ UNCHANGED <<now, entries, expiresAt, admitted>>
      BY <1>1 DEF TypeOK, Arrive, Punctual
    <2>2. StampsRead'
      BY <1>1, <2>1 DEF TypeOK, StampsRead, Arrive
    <2>3. StampsDiffer'
      BY <1>1, <2>1 DEF TypeOK, StampsRead, StampsDiffer, Arrive
    <2>4. AdmittedStay'
      BY <2>1 DEF AdmittedStay
    <2>. QED BY <2>1, <2>2, <2>3, <2>4
  <1>2. ASSUME NEW h \in Handlers, Pipeline(h) PROVE WindowInv'
    <2>1. /\ Entry(h).ms = now_ms[h] /\ now_ms[h] = now /\ now \in Nat
          /\ Kept(h) \subseteq entries
          /\ \A e \in entries : now < expiresAt /\ e.ms + Window > now => e \in Kept(h)
      BY <1>2 DEF TypeOK, StampsDiffer, Pipeline, Entry, Kept, Stored
    <2>2. /\ entries' = Kept(h) \cup {Entry(h)}
          /\ expiresAt' = now + Window + Second
          /\ UNCHANGED <<now, lastRead, now_ms>>
          /\ \/ /\ admitted' = admitted \cup {[ms |-> now_ms[h], handler |-> h]}
                /\ pc' = [pc EXCEPT ![h] = "admitted"]
             \/ UNCHANGED admitted /\ pc' = [pc EXCEPT ![h] = "undo"]
      BY <1>2 DEF Pipeline
    <2>3. IsFiniteSet(entries') /\ IsFiniteSet(admitted')
      BY <2>1, <2>2, FS_Subset, FS_AddElement
    <2>4. StampsRead'
      BY <1>2, <2>1, <2>2 DEF TypeOK, StampsRead, Pipeline
    <2>5. StampsDiffer'
      BY <1>2, <2>1, <2>2 DEF TypeOK, StampsDiffer, Pipeline
    <2>6. AdmittedStay'
      <3>1. ASSUME NEW a \in admitted, now < a.ms + Window
            PROVE  a.ms + Window <= expiresAt' /\ \E e \in entries' : e.ms = a.ms
        <4>1. a.ms \in Int /\ a.ms <= now
          BY DEF TypeOK
        <4>2. PICK e \in entries : e.ms = a.ms
          BY <3>1 DEF AdmittedStay
        <4>3. now < expiresAt
          BY <1>0, <3>1, <4>1, <2>1 DEF AdmittedStay, TypeOK
        <4>4. e \in Kept(h)
          BY <1>0, <2>1, <3>1, <4>1, <4>2, <4>3
        <4>. QED BY <1>0, <2>1, <2>2, <4>1, <4>2, <4>4
      <3>2. now + Window <= expiresAt' /\ \E e \in entries' : e.ms = now
        BY <1>0, <2>1, <2>2
      <3>. QED BY <2>1, <2>2, <3>1, <3>2 DEF AdmittedStay
    <2>. QED BY <2>3, <2>4, <2>5, <2>6
  <1>3. ASSUME NEW h \in Handlers, Undo(h) PROVE WindowInv'
    <2>1. /\ \A e \in entries' : e \in entries /\ e.ms # now_ms[h]
          /\ \A e \in entries : now < expiresAt /\ e.ms # now_ms[h] => e \in entries'
          /\ \A a \in admitted : a.ms # now_ms[h]
      BY <1>3 DEF Undo, Stored, StampsDiffer
    <2>2. IsFiniteSet(entries')
      BY <2>1, FS_Subset
    <2>3. StampsRead' /\ StampsDiffer'
      BY <1>3, <2>1 DEF TypeOK, StampsRead, StampsDiffer, Undo
    <2>4. AdmittedStay'
      <3>1. ASSUME NEW a \in admitted, now < a.ms + Window
            PROVE  a.ms + Window <= expiresAt /\ \E e \in entries' : e.ms = a.ms
        <4>1. a.ms \in Int
          BY DEF TypeOK
        <4>. QED BY <1>0, <2>1, <3>1, <4>1 DEF AdmittedStay, TypeOK
      <3>. QED BY <1>3, <3>1 DEF AdmittedStay, Undo
    <2>. QED BY <1>3, <2>2, <2>3, <2>4 DEF Undo
  <1>4. ASSUME NEW h \in Handlers, ReadOldest(h) \/ Reply(h) \/ Die(h) PROVE WindowInv'
    BY <1>4 DEF TypeOK, StampsRead, StampsDiffer, AdmittedStay, ReadOldest, Reply, Die
  <1>5. ASSUME Tick PROVE WindowInv'
    <2>1. StampsRead' /\ StampsDiffer'
      BY <1>5 DEF TypeOK, StampsRead, StampsDiffer, Tick, Punctual
    <2>2. AdmittedStay'
      BY <1>0, <1>5 DEF TypeOK, AdmittedStay, Tick
    <2>. QED BY <1>5, <2>1, <2>2 DEF Tick
  <1>6. CASE UNCHANGED vars
    BY <1>6 DEF vars, StampsRead, StampsDiffer, AdmittedStay
  <1>. QED BY <1>1, <1>2, <1>3, <1>4, <1>5, <1>6 DEF Next

\* Requests admitted in the window that ends now have an entry each that the
\* pipeline keeps.
LEMMA AdmittedCounted ==
  ASSUME TypeOK, WindowInv, NEW h \in Handlers, pc[h] = "pipeline"
  PROVE  /\ IsFiniteSet(AdmittedIn(now)) /\ IsFiniteSet(Kept(h))
         /\ Cardinality(AdmittedIn(now)) <= CurrentCount(h)
  <1>. DEFINE held == [a \in AdmittedIn(now) |-> CHOOSE e \in Kept(h) : e.ms = a.ms]
  <1>1. Kept(h) \subseteq entries
    BY DEF Kept, Stored
  <1>2. IsFiniteSet(Kept(h))
    BY <1>1, FS_Subset DEF WindowInv
  <1>3. \A a \in AdmittedIn(now) : \E e \in Kept(h) : e.ms = a.ms
    <2>1. ASSUME NEW a \in AdmittedIn(now)
          PROVE  \E e \in Kept(h) : e.ms = a.ms
      <3>1. a \in admitted /\ a.ms \in Nat /\ now < a.ms + Window /\ now \in Nat /\ Window \in Nat
        BY RateAssumption DEF AdmittedIn, TypeOK
      <3>2. now < expiresAt /\ now_ms[h] = now
        BY <3>1 DEF WindowInv, AdmittedStay, StampsDiffer, TypeOK
      <3>. QED BY <3>1, <3>2 DEF WindowInv, AdmittedStay, Kept, Stored
    <2>. QED BY <2>1
  <1>4. \A a \in AdmittedIn(now) : held[a] \in Kept(h) /\ held[a].ms = a.ms
    BY <1>3
  <1>5. held \in Injection(AdmittedIn(now), Kept(h))
    <2>1. held \in [AdmittedIn(now) -> Kept(h)]
      BY <1>4
    <2>2. \A a, b \in AdmittedIn(now) : held[a] = held[b] => a = b
      <3>. HIDE DEF held
      <3>1. \A a, b \in AdmittedIn(now) : a.ms = b.ms => a = b
        BY DEF AdmittedIn, WindowInv, StampsDiffer
      <3>. QED BY <1>4, <3>1
    <2>. QED BY <2>1, <2>2 DEF Injection, IsInjective
  <1>. HIDE DEF held
  <1>. QED BY <1>2, <1>5, FS_Injection DEF CurrentCount

\* One more request is admitted only into a window that is not full.
LEMMA LimitStep ==
  ASSUME TypeOK, WindowInv, AtMostLimit, [Next]_vars
  PROVE  AtMostLimit'
  <1>. SUFFICES ASSUME NEW t \in 0 .. now'
                PROVE  Cardinality(AdmittedIn(t)') <= Limit
    BY DEF AtMostLimit
  <1>1. CASE UNCHANGED <<now, admitted>>
    BY <1>1 DEF AtMostLimit, AdmittedIn
  <1>2. ASSUME NEW h \in Handlers, Pipeline(h)
        PROVE  Cardinality(AdmittedIn(t)') <= Limit
    <2>. DEFINE new == [ms |-> now_ms[h], handler |-> h]
    <2>1. now' = now /\ now_ms[h] = now /\ now \in Nat /\ Limit \in Nat
      BY <1>2, RateAssumption DEF TypeOK, WindowInv, StampsDiffer, Pipeline
    <2>2. CASE UNCHANGED admitted
      BY <2>1, <2>2 DEF AtMostLimit, AdmittedIn
    <2>3. CASE admitted' = admitted \cup {new} /\ t # now
      <3>1. AdmittedIn(t)' = AdmittedIn(t)
        BY <2>1, <2>3 DEF AdmittedIn
      <3>. QED BY <2>1, <3>1 DEF AtMostLimit
    <2>4. CASE admitted' = admitted \cup {new} /\ CurrentCount(h) < Limit /\ t = now
      <3>1. AdmittedIn(t)' \subseteq AdmittedIn(now) \cup {new}
        BY <2>4 DEF AdmittedIn
      <3>2. /\ IsFiniteSet(AdmittedIn(now)) /\ IsFiniteSet(Kept(h))
            /\ Cardinality(AdmittedIn(now)) <= CurrentCount(h)
        BY <1>2, AdmittedCounted DEF Pipeline
      <3>3. Cardinality(AdmittedIn(now)) \in Nat /\ CurrentCount(h) \in Nat
        BY <3>2, FS_CardinalityType DEF CurrentCount
      <3>4. /\ IsFiniteSet(AdmittedIn(now) \cup {new})
            /\ Cardinality(AdmittedIn(now) \cup {new}) \in Nat
            /\ Cardinality(AdmittedIn(now) \cup {new}) <= Cardinality(AdmittedIn(now)) + 1
        <4>. HIDE DEF new
        <4>1. /\ IsFiniteSet(AdmittedIn(now) \cup {new})
              /\ Cardinality(AdmittedIn(now) \cup {new})
                   \in {Cardinality(AdmittedIn(now)), Cardinality(AdmittedIn(now)) + 1}
          BY <3>2, FS_AddElement
        <4>. QED BY <3>3, <4>1
      <3>5. /\ Cardinality(AdmittedIn(t)') \in Nat
            /\ Cardinality(AdmittedIn(t)') <= Cardinality(AdmittedIn(now) \cup {new})
        <4>. HIDE DEF new
        <4>1. IsFiniteSet(AdmittedIn(t)')
          BY <3>1, <3>4, FS_Subset
        <4>. QED BY <3>1, <3>4, <4>1, FS_Subset, FS_CardinalityType
      <3>. QED BY <2>1, <2>4, <3>2, <3>3, <3>4, <3>5
    <2>. QED BY <1>2, <2>2, <2>3, <2>4 DEF Pipeline
  <1>3. ASSUME Tick
        PROVE  Cardinality(AdmittedIn(t)') <= Limit
    <2>1. now' = now + 1 /\ now \in Nat /\ Limit \in Nat /\ Window \in Nat /\ admitted' = admitted
      BY <1>3, RateAssumption DEF TypeOK, Tick
    <2>2. CASE t \in 0 .. now
      BY <2>1, <2>2 DEF AtMostLimit, AdmittedIn
    <2>3. CASE t = now + 1
      <3>1. AdmittedIn(t)' \subseteq AdmittedIn(now)
        BY <2>1, <2>3 DEF AdmittedIn, TypeOK
      <3>2. IsFiniteSet(AdmittedIn(now)) /\ now \in 0 .. now
        BY <2>1, FS_Subset DEF WindowInv, AdmittedIn
      <3>3. Cardinality(AdmittedIn(t)') <= Cardinality(AdmittedIn(now)) /\ IsFiniteSet(AdmittedIn(t)')
        BY <3>1, <3>2, FS_Subset
      <3>4. Cardinality(AdmittedIn(t)') \in Nat /\ Cardinality(AdmittedIn(now)) \in Nat
        BY <3>2, <3>3, FS_CardinalityType
      <3>. QED BY <2>1, <3>2, <3>3, <3>4 DEF AtMostLimit
    <2>. QED BY <2>1, <2>2, <2>3
  <1>. QED
    BY <1>1, <1>2, <1>3 DEF Next, Arrive, Undo, ReadOldest, Reply, Die, vars

LEMMA LimitInit == Init => AtMostLimit
  <1>. SUFFICES ASSUME Init, NEW t \in 0 .. now PROVE Cardinality(AdmittedIn(t)) <= Limit
    BY DEF AtMostLimit
  <1>1. AdmittedIn(t) = {}
    BY DEF Init, AdmittedIn
  <1>. QED BY <1>1, FS_EmptySet, RateAssumption

\* When no two requests of a client read one millisecond and no pipeline is late, no
\* window admits more than the limit, for any limit, window and number of requests
\* under way.
THEOREM LimitKept ==
  ASSUME Punctual
  PROVE  Spec => []AtMostLimit
  <1>1. TypeOK /\ WindowInv /\ [Next]_vars => WindowInv'
    BY WindowStep
  <1>2. TypeOK /\ WindowInv /\ AtMostLimit /\ [Next]_vars => AtMostLimit'
    BY LimitStep
  <1>. QED BY <1>1, <1>2, LimiterTypes, WindowInit, LimitInit, PTL DEF Spec

-----------------------------------------------------------------------------
(* Who is refused.                                                           *)

\* The time stamps of the entries the pipeline counts are as many as they are.
LEMMA RefusedStep ==
  ASSUME EntryInv, WindowInv, NEW h \in Handlers, Pipeline(h), CurrentCount(h) >= Limit
  PROVE  LET recent == {ms \in Lingering : now < ms + Window}
         IN Cardinality({a.ms : a \in AdmittedIn(now)} \cup recent) >= Limit
  <1>. DEFINE recent == {ms \in Lingering : now < ms + Window}
              causes == {a.ms : a \in AdmittedIn(now)} \cup recent
              stamps == [e \in Kept(h) |-> e.ms]
              admittedStamps == [a \in admitted |-> a.ms]
              entryStamps == [e \in entries |-> e.ms]
  <1>1. /\ Kept(h) \subseteq entries
        /\ \A e \in Kept(h) : now < e.ms + Window /\ e.ms \in Nat /\ e.ms <= now
    BY DEF EntryInv, WindowInv, StampsDiffer, TypeOK, Pipeline, Kept, Stored
  <1>2. \A e \in Kept(h) : e.ms \in causes
    <2>1. ASSUME NEW e \in Kept(h), NEW a \in admitted, a.ms = e.ms
          PROVE  e.ms \in causes
      <3>1. a \in AdmittedIn(now)
        BY <1>1, <2>1 DEF AdmittedIn
      <3>. QED BY <2>1, <3>1
    <2>2. ASSUME NEW e \in Kept(h), NEW g \in Handlers, pc[g] \in {"undo", "dead"}, Entry(g) = e
          PROVE  e.ms \in causes
      <3>1. e \in entries /\ e.ms = now_ms[g] /\ now < e.ms + Window
        BY <1>1, <2>2 DEF Entry
      <3>2. e.ms \in Lingering
        BY <2>2, <3>1 DEF Lingering
      <3>. QED BY <3>1, <3>2
    <2>. QED BY <1>1, <2>1, <2>2 DEF EntryInv, OnlyAdmittedStay
  <1>3. stamps \in Injection(Kept(h), causes)
    <2>1. stamps \in [Kept(h) -> causes]
      BY <1>2
    <2>2. \A e, f \in Kept(h) : stamps[e] = stamps[f] => e = f
      BY <1>1 DEF WindowInv, StampsDiffer
    <2>. QED BY <2>1, <2>2 DEF Injection, IsInjective
  <1>4. IsFiniteSet(causes)
    <2>1. IsFiniteSet({a.ms : a \in admitted})
      <3>1. admittedStamps \in Surjection(admitted, {a.ms : a \in admitted})
        BY DEF Surjection
      <3>. QED BY <3>1, FS_Surjection DEF WindowInv
    <2>2. IsFiniteSet({e.ms : e \in entries})
      <3>1. entryStamps \in Surjection(entries, {e.ms : e \in entries})
        BY DEF Surjection
      <3>. QED BY <3>1, FS_Surjection DEF WindowInv
    <2>3. causes \subseteq {a.ms : a \in admitted} \cup {e.ms : e \in entries}
      <3>1. {a.ms : a \in AdmittedIn(now)} \subseteq {a.ms : a \in admitted}
        BY DEF AdmittedIn
      <3>2. Lingering \subseteq {e.ms : e \in entries}
        <4>1. \A g \in Handlers : Entry(g).ms = now_ms[g]
          BY DEF Entry
        <4>. QED BY <4>1 DEF Lingering
      <3>. QED BY <3>1, <3>2
    <2>. QED BY <2>1, <2>2, <2>3, FS_Union, FS_Subset
  <1>5. IsFiniteSet(Kept(h))
    BY <1>1, FS_Subset DEF WindowInv
  <1>. HIDE DEF causes, stamps
  <1>6. Cardinality(Kept(h)) <= Cardinality(causes)
    BY <1>3, <1>4, FS_Injection
  <1>7. Cardinality(Kept(h)) \in Nat /\ Cardinality(causes) \in Nat /\ Limit \in Nat
    BY <1>4, <1>5, FS_CardinalityType, RateAssumption
  <1>8. Cardinality(causes) >= Limit
    BY <1>6, <1>7 DEF CurrentCount
  <1>. QED BY <1>8 DEF causes

\* Under the same assumption, a request is refused only when as many as the limit
\* were let through in its window, or have left an entry there that they will take
\* back or died before.
THEOREM RefusalsHaveCause ==
  ASSUME Punctual
  PROVE  Spec => RefusedForCause
  <1>1. TypeOK /\ WindowInv /\ [Next]_vars => WindowInv'
    BY WindowStep
  <1>2. EntryInv /\ WindowInv /\ [Next]_vars =>
          [\A h \in Handlers : pc[h] = "pipeline" /\ pc'[h] = "undo" =>
             LET recent == {ms \in Lingering : now < ms + Window}
             IN Cardinality({a.ms : a \in AdmittedIn(now)} \cup recent) >= Limit]_vars
    <2>. SUFFICES ASSUME EntryInv, WindowInv, Next,
                         NEW h \in Handlers, pc[h] = "pipeline", pc'[h] = "undo"
                  PROVE  LET recent == {ms \in Lingering : now < ms + Window}
                         IN Cardinality({a.ms : a \in AdmittedIn(now)} \cup recent) >= Limit
      OBVIOUS
    <2>1. Pipeline(h) /\ CurrentCount(h) >= Limit
      BY DEF EntryInv, TypeOK, Next, Arrive, Pipeline, Undo, ReadOldest, Reply, Die, Tick
    <2>. QED BY <2>1, RefusedStep
  <1>. QED
    BY <1>1, <1>2, EntryInit, EntryStep, WindowInit, PTL DEF Spec, EntryInv, RefusedForCause
==============================================================================
