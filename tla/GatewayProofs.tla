--------------------------- MODULE GatewayProofs ---------------------------
(* Proofs about Gateway for every set of handlers, users and requests.       *)
EXTENDS Gateway, FiniteSetTheorems, TLAPS

\* A request whose handler has passed validation bears a valid token that names
\* a user: what Send relies on when it builds the identity header.
Validated ==
  \A h \in Handlers : stage[h] \in {"pool", "connect", "send", "sent"} => Authentic(request[h])

ProxyInv == TypeOK /\ Validated /\ RefusedHasNoEffect /\ IdentityFromToken

\* A request with a token that passes names one of the users.
LEMMA AuthenticUser ==
  ASSUME NEW r \in Requests, Authentic(r)
  PROVE  r.token = "valid" /\ r.sub \in Users
  BY GatewayAssumption DEF RequestType, Authentic

\* No more connections are in use once some are given up.
LEMMA WithinPool ==
  ASSUME NEW S, S \subseteq Handlers, NEW T, T \subseteq S, Cardinality(S) <= MaxConnections
  PROVE  Cardinality(T) <= MaxConnections
  <1>1. IsFiniteSet(S)
    BY FS_Subset, GatewayAssumption
  <1>2. IsFiniteSet(T) /\ Cardinality(T) <= Cardinality(S)
    BY <1>1, FS_Subset
  <1>. QED BY <1>1, <1>2, FS_CardinalityType, GatewayAssumption

\* What a handler leaves upstream when it answers by itself.
LEMMA OrphanOf ==
  ASSUME ProxyInv, NEW h \in Handlers, NEW a, NEW j \in Orphaned(h, a)
  PROVE  /\ job[h] # None /\ stage[h] = "sent"
         /\ j.request \in Requests /\ j.user \in Users /\ j.told = a
         /\ j = [request |-> j.request, user |-> j.user, told |-> a]
         /\ j.request.token = "valid" /\ j.user = j.request.sub
  BY DEF ProxyInv, TypeOK, IdentityFromToken, Orphaned, Jobs

\* The gateway answers by itself.  What it gives before a job runs upstream leaves
\* none behind; after that it gives 502 or 504.
LEMMA AnswerStep ==
  ASSUME ProxyInv, NEW h \in Handlers, stage[h] # "idle",
         NEW a \in {"401", "429", "500", "502", "503", "504"}, Answer(h, a),
         stage[h] = "sent" => a \in {"502", "504"}
  PROVE  ProxyInv'
  <1>1. \A j \in Orphaned(h, a) :
          /\ j \in [request : Requests, user : Users, told : {"502", "504"}]
          /\ j.request.token = "valid" /\ j.user = j.request.sub
    BY OrphanOf
  <1>2. Cardinality(Connected') <= MaxConnections
    <2>1. Connected' \subseteq Connected
      BY DEF ProxyInv, TypeOK, Connected, Answer, GoTo
    <2>. QED BY <2>1, WithinPool DEF ProxyInv, TypeOK, Connected
  <1>3. TypeOK'
    <2>1. orphans' \subseteq [request : Requests, user : Users,
            told : {"401", "429", "500", "502", "503", "504", "nothing"}]
      BY <1>1 DEF ProxyInv, TypeOK, Answer
    <2>. QED BY <1>2, <2>1 DEF ProxyInv, TypeOK, Answer, GoTo
  <1>4. Validated'
    BY DEF ProxyInv, TypeOK, Validated, Answer, GoTo
  <1>5. RefusedHasNoEffect'
    BY <1>1 DEF ProxyInv, RefusedHasNoEffect, Answer
  <1>6. IdentityFromToken'
    BY <1>1 DEF ProxyInv, TypeOK, IdentityFromToken, Answer
  <1>. QED BY <1>3, <1>4, <1>5, <1>6 DEF ProxyInv

\* A handler that takes a free connection is one more at most.
LEMMA TakeConnectionStep ==
  ASSUME ProxyInv, NEW h \in Handlers, TakeConnection(h)
  PROVE  ProxyInv'
  <1>1. Cardinality(Connected') <= MaxConnections
    <2>1. Connected' = Connected \cup {h} /\ h \notin Connected
      BY DEF ProxyInv, TypeOK, Connected, TakeConnection, GoTo
    <2>2. IsFiniteSet(Connected)
      BY FS_Subset, GatewayAssumption DEF Connected
    <2>3. Cardinality(Connected') = Cardinality(Connected) + 1 /\ Cardinality(Connected) \in Nat
      BY <2>1, <2>2, FS_AddElement, FS_CardinalityType
    <2>. QED BY <2>3, GatewayAssumption DEF TakeConnection
  <1>2. TypeOK'
    BY <1>1 DEF ProxyInv, TypeOK, TakeConnection, GoTo
  <1>. QED
    BY <1>2 DEF ProxyInv, TypeOK, Validated, RefusedHasNoEffect, IdentityFromToken, TakeConnection, GoTo

\* The job that starts runs for the user the token names.
LEMMA SendStep ==
  ASSUME ProxyInv, NEW h \in Handlers, Send(h)
  PROVE  ProxyInv'
  <1>1. /\ request[h] \in Requests /\ Authentic(request[h])
        /\ request[h].token = "valid" /\ request[h].sub \in Users
    BY GatewayAssumption, AuthenticUser DEF ProxyInv, TypeOK, Validated, Send
  <1>2. /\ job'[h] = [request |-> request[h], user |-> request[h].sub]
        /\ job'[h] \in Jobs /\ job'[h] # None
        /\ \A g \in Handlers : g # h => job'[g] = job[g]
    <2>1. job'[h] = [request |-> request[h], user |-> request[h].sub]
          /\ \A g \in Handlers : g # h => job'[g] = job[g]
      BY DEF ProxyInv, TypeOK, Send, ForwardedUser
    <2>. QED BY <1>1, <2>1, GatewayAssumption DEF Jobs, ProxyInv, TypeOK, Send
  <1>3. Cardinality(Connected') <= MaxConnections
    <2>1. Connected' = Connected
      BY DEF ProxyInv, TypeOK, Connected, Send, GoTo
    <2>. QED BY <2>1 DEF ProxyInv, TypeOK
  <1>4. TypeOK'
    BY <1>2, <1>3 DEF ProxyInv, TypeOK, Send, GoTo
  <1>5. IdentityFromToken'
    BY <1>1, <1>2 DEF ProxyInv, TypeOK, IdentityFromToken, Send
  <1>. QED
    BY <1>4, <1>5 DEF ProxyInv, TypeOK, Validated, RefusedHasNoEffect, Send, GoTo

\* The handler goes on to the next check.
Passes(h, label) == GoTo(h, label) /\ UNCHANGED <<request, job, redirects, answer, orphans>>

\* The steps in which no job starts and none is left behind.
Quiet(h) ==
  \/ \E r \in Requests : Receive(h, r)
  \/ stage[h] = "limit" /\ Passes(h, "validate")
  \/ stage[h] = "validate" /\ Authentic(request[h]) /\ Passes(h, "pool")
  \/ Connect(h) \/ Respond(h) \/ Redirect(h) \/ Reply(h)

LEMMA QuietStep ==
  ASSUME ProxyInv, NEW h \in Handlers, Quiet(h)
  PROVE  ProxyInv'
  <1>. USE DEF Quiet, Passes, GoTo
  <1>1. Cardinality(Connected') <= MaxConnections
    <2>1. Connected' \subseteq Connected
      BY DEF ProxyInv, TypeOK, Connected, Receive, Connect, Respond, Redirect, Reply
    <2>. QED BY <2>1, WithinPool DEF ProxyInv, TypeOK, Connected
  <1>2. TypeOK'
    <2>. USE <1>1 DEF ProxyInv, TypeOK
    <2>1. ASSUME NEW r \in Requests, Receive(h, r)
          PROVE  TypeOK'
      BY <2>1, GatewayAssumption DEF Receive
    <2>2. CASE Redirect(h)
      BY <2>2, GatewayAssumption DEF Redirect
    <2>3. CASE Connect(h) \/ Respond(h)
      BY <2>3 DEF Connect, Respond
    <2>4. CASE Reply(h)
      BY <2>4, GatewayAssumption DEF Reply
    <2>5. CASE stage[h] = "limit" /\ Passes(h, "validate")
      BY <2>5
    <2>6. CASE stage[h] = "validate" /\ Passes(h, "pool")
      BY <2>6
    <2>. QED BY <2>1, <2>2, <2>3, <2>4, <2>5, <2>6
  <1>3. Validated'
    BY DEF ProxyInv, TypeOK, Validated, Receive, Connect, Respond, Redirect, Reply
  <1>4. RefusedHasNoEffect'
    BY DEF ProxyInv, RefusedHasNoEffect, Receive, Connect, Respond, Redirect, Reply
  <1>5. IdentityFromToken'
    <2>1. orphans' = orphans /\ \A g \in Handlers : job'[g] \in {job[g], None}
      BY DEF ProxyInv, TypeOK, Receive, Connect, Respond, Redirect, Reply
    <2>. QED BY <2>1 DEF ProxyInv, IdentityFromToken
  <1>. QED BY <1>2, <1>3, <1>4, <1>5 DEF ProxyInv

\* The process dies: jobs that ran for a handler run on, and no client is told.
LEMMA DieStep ==
  ASSUME ProxyInv, Die
  PROVE  ProxyInv'
  <1>1. \A j \in UNION {Orphaned(h, "nothing") : h \in Handlers} :
          /\ j \in [request : Requests, user : Users, told : {"nothing"}]
          /\ j.request.token = "valid" /\ j.user = j.request.sub
    BY OrphanOf
  <1>2. Cardinality(Connected') <= MaxConnections
    <2>1. Connected' \subseteq Connected
      BY DEF Connected, Die
    <2>. QED BY <2>1, WithinPool DEF ProxyInv, TypeOK, Connected
  <1>3. TypeOK'
    <2>1. orphans' \subseteq [request : Requests, user : Users,
            told : {"401", "429", "500", "502", "503", "504", "nothing"}]
      BY <1>1 DEF ProxyInv, TypeOK, Die
    <2>. QED BY <1>2, <2>1, GatewayAssumption DEF TypeOK, Die
  <1>4. Validated'
    BY DEF Validated, Die
  <1>5. RefusedHasNoEffect'
    BY <1>1 DEF ProxyInv, RefusedHasNoEffect, Die
  <1>6. IdentityFromToken'
    BY <1>1 DEF ProxyInv, IdentityFromToken, Die
  <1>. QED BY <1>3, <1>4, <1>5, <1>6 DEF ProxyInv

-----------------------------------------------------------------------------

LEMMA ProxyInit == Init => ProxyInv
  <1>. SUFFICES ASSUME Init PROVE ProxyInv
    OBVIOUS
  <1>1. Cardinality(Connected) <= MaxConnections
    <2>1. Connected = {}
      BY DEF Init, Connected
    <2>. QED BY <2>1, FS_EmptySet, GatewayAssumption
  <1>. QED
    BY <1>1, GatewayAssumption
    DEF Init, ProxyInv, TypeOK, Validated, RefusedHasNoEffect, IdentityFromToken

LEMMA ProxyStep == ProxyInv /\ [Next]_vars => ProxyInv'
  <1>. SUFFICES ASSUME ProxyInv, [Next]_vars PROVE ProxyInv'
    OBVIOUS
  <1>1. ASSUME NEW h \in Handlers, NEW r \in Requests, Receive(h, r)
        PROVE  ProxyInv'
    BY <1>1, QuietStep DEF Quiet
  <1>2. ASSUME NEW h \in Handlers, RateLimit(h)
        PROVE  ProxyInv'
    BY <1>2, AnswerStep, QuietStep DEF RateLimit, Quiet, Passes
  <1>3. ASSUME NEW h \in Handlers, Validate(h)
        PROVE  ProxyInv'
    BY <1>3, AnswerStep, QuietStep DEF Validate, Quiet, Passes
  <1>4. ASSUME NEW h \in Handlers, Connect(h) \/ Respond(h) \/ Redirect(h) \/ Reply(h)
        PROVE  ProxyInv'
    BY <1>4, QuietStep DEF Quiet
  <1>5. ASSUME NEW h \in Handlers, ConnectFails(h) \/ Break(h) \/ Timeout(h)
        PROVE  ProxyInv'
    BY <1>5, AnswerStep DEF ConnectFails, Break, Timeout
  <1>6. ASSUME EndJob
        PROVE  ProxyInv'
    BY <1>6
    DEF EndJob, handlerVars, ProxyInv, TypeOK, Validated, RefusedHasNoEffect, IdentityFromToken, Connected
  <1>7. CASE UNCHANGED vars
    BY <1>7
    DEF vars, handlerVars, ProxyInv, TypeOK, Validated, RefusedHasNoEffect, IdentityFromToken, Connected
  <1>. QED
    BY <1>1, <1>2, <1>3, <1>4, <1>5, <1>6, <1>7, TakeConnectionStep, SendStep, DieStep DEF Next

\* Every variable keeps its type, and the connections in use keep to their limit.
THEOREM ProxyTypes == Spec => []TypeOK
  BY ProxyInit, ProxyStep, PTL DEF Spec, ProxyInv

\* A request the gateway refused never runs upstream, whatever fails, is late or
\* dies.
THEOREM RefusalIsFinal == Spec => []RefusedHasNoEffect
  BY ProxyInit, ProxyStep, PTL DEF Spec, ProxyInv

\* No service ever works for another user than the one the token names, for any
\* requests of any clients.
THEOREM NoBorrowedIdentity == Spec => []IdentityFromToken
  BY ProxyInit, ProxyStep, PTL DEF Spec, ProxyInv
=============================================================================
