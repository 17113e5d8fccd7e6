------------------------------ MODULE Gateway ------------------------------
(* The proxy of one gateway process: what becomes of a request between its   *)
(* client and a service, with the connections all proxied requests share.    *)
(* RateLimiter has the details of the first step.  A service is a job that   *)
(* runs for a request until it ends, whether or not anybody still waits.     *)
EXTENDS Naturals, FiniteSets

CONSTANTS
  Handlers,        \* requests that can be under way in the process at once
  Users,
  Requests,        \* what clients send
  MaxConnections,  \* of the httpx client, for all services together
  MaxRedirects,    \* that the httpx client follows for one request
  None

\* A request bears a token or none; its token is valid or not, and names a user
\* or none.  The client may have put any user into a header X-User-ID.
RequestType == [token : {"none", "invalid", "valid"}, sub : Users \cup {None},
                claimed : Users \cup {None}]

\* A request at work in a service, for the user the service takes it to be from.
Jobs == [request : Requests, user : Users]

ASSUME GatewayAssumption ==
  /\ Requests \subseteq RequestType
  /\ IsFiniteSet(Handlers)
  /\ MaxConnections \in Nat \ {0}
  /\ MaxRedirects \in Nat
  /\ None \notin Users /\ None \notin Requests /\ None \notin Jobs

VARIABLES
  stage,      \* where the handler is
  request,    \* what it handles
  job,        \* the job upstream whose answer it waits for
  redirects,  \* redirects followed for this request
  answer,     \* the answer to its client
  orphans     \* jobs that run on without a handler, and what their client was told

handlerVars == <<stage, request, job, redirects, answer>>
vars == <<handlerVars, orphans>>

Init ==
  /\ stage = [h \in Handlers |-> "idle"]
  /\ request = [h \in Handlers |-> None]
  /\ job = [h \in Handlers |-> None]
  /\ redirects = [h \in Handlers |-> 0]
  /\ answer = [h \in Handlers |-> None]
  /\ orphans = {}

GoTo(h, label) == stage' = [stage EXCEPT ![h] = label]

\* The job of handler h, if it has one, goes on without it.
Orphaned(h, told) ==
  IF job[h] = None THEN {}
  ELSE {[request |-> job[h].request, user |-> job[h].user, told |-> told]}

\* The gateway answers by itself, whatever goes on upstream.
Answer(h, a) ==
  /\ GoTo(h, "answered")
  /\ answer' = [answer EXCEPT ![h] = a]
  /\ orphans' = orphans \cup Orphaned(h, a)
  /\ job' = [job EXCEPT ![h] = None]
  /\ UNCHANGED <<request, redirects>>

-----------------------------------------------------------------------------
(* proxy_request.                                                            *)

Receive(h, r) ==
  /\ stage[h] = "idle"
  /\ request' = [request EXCEPT ![h] = r]
  /\ GoTo(h, "limit")
  /\ UNCHANGED <<job, redirects, answer, orphans>>

\* check_rate_limit: refused, or on its way, or failed with Redis.
RateLimit(h) ==
  /\ stage[h] = "limit"
  /\ \/ Answer(h, "429")
     \/ Answer(h, "500")
     \/ GoTo(h, "validate") /\ UNCHANGED <<request, job, redirects, answer, orphans>>

\* Mutant: a token without the claim sub passes.
AuthenticWithoutSub(r) == r.token = "valid"

Authentic(r) == r.token = "valid" /\ r.sub # None

\* A service without a URL comes first, then the token; without a token nothing
\* goes through, not to the auth service either.  Reading the body may fail.
Validate(h) ==
  /\ stage[h] = "validate"
  /\ \/ Answer(h, "503")
     \/ ~Authentic(request[h]) /\ Answer(h, "401")
     \/ Authentic(request[h]) /\ Answer(h, "500")
     \/ /\ Authentic(request[h])
        /\ GoTo(h, "pool")
        /\ UNCHANGED <<request, job, redirects, answer, orphans>>

Connected == {h \in Handlers : stage[h] \in {"connect", "send", "sent"}}

\* One of the connections is free: an open one to this service, or a new one.
TakeConnection(h) ==
  /\ stage[h] = "pool"
  /\ Cardinality(Connected) < MaxConnections
  /\ \/ GoTo(h, "connect")
     \/ GoTo(h, "send")
  /\ UNCHANGED <<request, job, redirects, answer, orphans>>

Connect(h) ==
  /\ stage[h] = "connect"
  /\ GoTo(h, "send")
  /\ UNCHANGED <<request, job, redirects, answer, orphans>>

ConnectFails(h) == stage[h] = "connect" /\ Answer(h, "503")

\* Mutant: the headers of the client go along and come last.
ClaimedUser(r) == IF r.claimed # None THEN r.claimed ELSE r.sub

\* X-User-ID of the request that goes upstream.
ForwardedUser(r) == r.sub

\* The request has reached the service, which starts to work on it.
Send(h) ==
  /\ stage[h] = "send"
  /\ job' = [job EXCEPT ![h] = [request |-> request[h], user |-> ForwardedUser(request[h])]]
  /\ GoTo(h, "sent")
  /\ UNCHANGED <<request, redirects, answer, orphans>>

\* The service has answered, with whatever status: it is passed on.
Respond(h) ==
  /\ stage[h] = "sent"
  /\ job' = [job EXCEPT ![h] = None]
  /\ answer' = [answer EXCEPT ![h] = "upstream"]
  /\ GoTo(h, "answered")
  /\ UNCHANGED <<request, redirects, orphans>>

\* Or it has answered with a redirect and done nothing: the request is sent again.
Redirect(h) ==
  /\ stage[h] = "sent"
  /\ job' = [job EXCEPT ![h] = None]
  /\ IF redirects[h] < MaxRedirects
       THEN /\ redirects' = [redirects EXCEPT ![h] = @ + 1]
            /\ GoTo(h, "pool")
            /\ UNCHANGED answer
       ELSE /\ answer' = [answer EXCEPT ![h] = "502"]
            /\ GoTo(h, "answered")
            /\ UNCHANGED redirects
  /\ UNCHANGED <<request, orphans>>

\* Mutant: the clause for ConnectError catches every HTTPError.
BreakAsConnectError(h) == stage[h] \in {"send", "sent"} /\ Answer(h, "503")

\* The connection fails while it is written to or read from.
Break(h) == stage[h] \in {"send", "sent"} /\ Answer(h, "502")

\* Mutant: only the connection attempt has a timeout.
ConnectTimeout(h) == stage[h] \in {"pool", "connect"} /\ Answer(h, "504")

\* UPSTREAM_TIMEOUT_SECONDS are over: for a free connection, to connect, to write
\* or to read, each by itself.
Timeout(h) == stage[h] \in {"pool", "connect", "send", "sent"} /\ Answer(h, "504")

\* The answer leaves.
Reply(h) ==
  /\ stage[h] = "answered"
  /\ GoTo(h, "idle")
  /\ request' = [request EXCEPT ![h] = None]
  /\ redirects' = [redirects EXCEPT ![h] = 0]
  /\ answer' = [answer EXCEPT ![h] = None]
  /\ UNCHANGED <<job, orphans>>

\* A job nobody waits for comes to its end.
EndJob ==
  /\ \E j \in orphans : orphans' = orphans \ {j}
  /\ UNCHANGED handlerVars

\* The gateway process dies, and with it its connections; the services work on.
Die ==
  /\ orphans' = orphans \cup UNION {Orphaned(h, "nothing") : h \in Handlers}
  /\ stage' = [h \in Handlers |-> "idle"]
  /\ request' = [h \in Handlers |-> None]
  /\ job' = [h \in Handlers |-> None]
  /\ redirects' = [h \in Handlers |-> 0]
  /\ answer' = [h \in Handlers |-> None]

Next ==
  \/ \E h \in Handlers :
       \/ \E r \in Requests : Receive(h, r)
       \/ RateLimit(h) \/ Validate(h)
       \/ TakeConnection(h) \/ Connect(h) \/ ConnectFails(h)
       \/ Send(h) \/ Respond(h) \/ Redirect(h) \/ Break(h) \/ Timeout(h)
       \/ Reply(h)
  \/ EndJob \/ Die

Spec == Init /\ [][Next]_vars

\* What the gateway does without a service: Redis answers or fails, the client
\* sends its body, the timers run.
OwnStep(h) == RateLimit(h) \/ Validate(h) \/ Timeout(h) \/ Reply(h)

\* The event loop runs every handler and its timers.  No service need ever accept
\* a connection, read a request or answer it.
FairSpec == Spec /\ \A h \in Handlers : WF_vars(OwnStep(h))

-----------------------------------------------------------------------------

\* Every variable has its type, no more connections are in use than there are,
\* and a handler has a job upstream just when it waits for an answer.
TypeOK ==
  /\ stage \in [Handlers ->
       {"idle", "limit", "validate", "pool", "connect", "send", "sent", "answered"}]
  /\ request \in [Handlers -> Requests \cup {None}]
  /\ job \in [Handlers -> Jobs \cup {None}]
  /\ \A h \in Handlers :
       /\ request[h] = None <=> stage[h] = "idle"
       /\ job[h] # None <=> stage[h] = "sent"
  /\ redirects \in [Handlers -> 0 .. MaxRedirects]
  /\ answer \in [Handlers ->
       {"401", "429", "500", "502", "503", "504", "upstream", None}]
  /\ orphans \subseteq [request : Requests, user : Users,
       told : {"401", "429", "500", "502", "503", "504", "nothing"}]
  /\ Cardinality(Connected) <= MaxConnections

\* A request the gateway refuses, as not allowed (401), over the limit (429) or
\* for want of the service (503), does not run upstream, not even later: only
\* after 502 and 504 may it have had, or still have, its effect.
RefusedHasNoEffect == \A j \in orphans : j.told \in {"502", "504", "nothing"}

\* The services trust X-User-ID: whatever the client sends along, no job runs for
\* anybody but the user its valid token names.
IdentityFromToken ==
  \A j \in orphans \cup {job[h] : h \in {g \in Handlers : job[g] # None}} :
    j.request.token = "valid" /\ j.user = j.request.sub

\* Every request ends, although services may never answer and their requests may
\* hold all connections.
EveryRequestAnswered == \A h \in Handlers : stage[h] # "idle" ~> stage[h] = "idle"
=============================================================================
