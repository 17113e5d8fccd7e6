--------------------------- MODULE RefreshTokens ---------------------------
(* The auth service's refresh tokens: register_user, authenticate_user,      *)
(* refresh_access_token and revoke_refresh_token, each in a handler with a   *)
(* database session of its own, on any replica.  A token is stored as a hash *)
(* that only the token itself matches, so a row is named by its token.       *)
EXTENDS Integers, FiniteSets

CONSTANTS
  Emails,    \* the users, by the address they register with
  MaxToken,  \* bound on the tokens that are ever generated
  Sessions,  \* handlers that can be under way at once
  None

Tokens == 1 .. MaxToken

Ops == {"register", "login", "refresh", "logout"}

Answers == {"ok", "duplicate", "unauthorized", "serverError"}

ASSUME TokensAssumption ==
  /\ MaxToken \in Nat
  /\ None \notin Emails /\ None \notin Tokens /\ None \notin Sessions
  /\ None \notin Answers
  /\ None \notin [token : Tokens, user : Emails]

VARIABLES
  registered,  \* committed rows of `users` with each address
  active,      \* users.is_active
  tokens,      \* committed rows of `refresh_tokens`: the user of each, or None
  expired,     \* tokens whose expires_at is past
  deleting,    \* the session that has deleted a row and not yet committed
  pc,          \* where the handler is
  req,         \* its request: operation, address, token
  record,      \* the row of `refresh_tokens` it matched
  fresh,       \* the refresh token it generated
  answer,      \* its response
  issued,      \* tokens clients were given
  refreshed,   \* history: committed refreshes, old token and new
  revoked,     \* history: tokens of committed logouts
  late         \* history: sessions begun when their token was used or revoked

handlerVars == <<pc, req, record, fresh, answer, late>>
vars == <<registered, active, tokens, expired, deleting, handlerVars, issued, refreshed, revoked>>

NoRequest == [op |-> "logout", email |-> None, token |-> None]

Init ==
  /\ registered = [e \in Emails |-> 0]
  /\ active = Emails
  /\ tokens = [t \in Tokens |-> None]
  /\ expired = {}
  /\ deleting = [t \in Tokens |-> None]
  /\ pc = [s \in Sessions |-> "idle"]
  /\ req = [s \in Sessions |-> NoRequest]
  /\ record = [s \in Sessions |-> None]
  /\ fresh = [s \in Sessions |-> None]
  /\ answer = [s \in Sessions |-> None]
  /\ issued = {}
  /\ refreshed = {}
  /\ revoked = {}
  /\ late = {}

Used == {p.old : p \in refreshed}

\* Values no client, row or handler has: what uuid4() returns next is one.
Unborn ==
  {t \in Tokens : tokens[t] = None /\ t \notin Used \cup revoked /\ \A s \in Sessions : fresh[s] # t}

GoTo(s, label) == pc' = [pc EXCEPT ![s] = label]

\* Row locks are freed when the session's transaction ends.
Released(s) == [t \in Tokens |-> IF deleting[t] = s THEN None ELSE deleting[t]]

\* An exception leaves the handler, get_db rolls back, the client is answered.
Abort(s, a) ==
  /\ GoTo(s, "done")
  /\ answer' = [answer EXCEPT ![s] = a]
  /\ fresh' = [fresh EXCEPT ![s] = None]
  /\ deleting' = Released(s)
  /\ UNCHANGED <<registered, active, tokens, expired, req, record, issued, refreshed, revoked, late>>

-----------------------------------------------------------------------------

\* A client registers, logs in with the right password, or sends a token it was
\* given, or one it was not.  MaxToken bounds the requests that need a token.
Begin(s, r) ==
  /\ pc[s] = "idle"
  /\ r.op # "logout" =>
       Cardinality(Unborn) > Cardinality({t \in Sessions : pc[t] # "idle" /\ fresh[t] = None})
  /\ req' = [req EXCEPT ![s] = r]
  /\ late' = IF r.token \in Used \cup revoked THEN late \cup {s} ELSE late
  /\ GoTo(s, IF r.op \in {"register", "login"} THEN "lookup" ELSE "select")
  /\ UNCHANGED <<registered, active, tokens, expired, deleting, record, fresh, answer,
                 issued, refreshed, revoked>>

\* The address is looked up; the password of a login may be wrong.
Lookup(s) ==
  /\ pc[s] = "lookup"
  /\ LET e == req[s].email IN
     \/ /\ req[s].op = "register"
        /\ IF registered[e] > 0 THEN Abort(s, "duplicate") ELSE
             GoTo(s, "insertUser") /\ UNCHANGED <<registered, active, tokens, expired, deleting,
               req, record, fresh, answer, issued, refreshed, revoked, late>>
     \/ /\ req[s].op = "login"
        /\ \/ Abort(s, "unauthorized")
           \/ /\ registered[e] > 0 /\ e \in active
              /\ GoTo(s, "issue")
              /\ UNCHANGED <<registered, active, tokens, expired, deleting, req, record, fresh,
                             answer, issued, refreshed, revoked, late>>

\* Session s has inserted a user it has not committed.
InsertedUser(s) == req[s].op = "register" /\ pc[s] \in {"issue", "commit"}

\* Mutant: the address is not unique in the database.
AddressNeverTaken(e) == FALSE

AddressTaken(e) == registered[e] > 0

\* The unique index makes the INSERT wait for another session's row, and fail
\* when that one is committed.
InsertUser(s) ==
  /\ pc[s] = "insertUser"
  /\ \A t \in Sessions \ {s} : InsertedUser(t) => req[t].email # req[s].email
  /\ IF AddressTaken(req[s].email) THEN Abort(s, "serverError") ELSE
       GoTo(s, "issue") /\ UNCHANGED <<registered, active, tokens, expired, deleting, req,
         record, fresh, answer, issued, refreshed, revoked, late>>

\* Mutant: a token that matches no row goes on like one that does.
SelectUnchecked(s) ==
  /\ pc[s] = "select"
  /\ req[s].token \in Tokens
  /\ record' = [record EXCEPT ![s] = [token |-> req[s].token, user |-> tokens[req[s].token]]]
  /\ GoTo(s, "delete")
  /\ UNCHANGED <<registered, active, tokens, expired, deleting, req, fresh, answer, issued,
                 refreshed, revoked, late>>

\* refresh and logout: all rows that have not expired are read, and the one
\* whose hash matches the token is kept.  A logout that matches none is done.
Select(s) ==
  /\ pc[s] = "select"
  /\ LET t == req[s].token
         found == t \in Tokens /\ tokens[t] # None /\ t \notin expired
     IN IF found
          THEN /\ record' = [record EXCEPT ![s] = [token |-> t, user |-> tokens[t]]]
               /\ GoTo(s, "delete")
               /\ UNCHANGED <<registered, active, tokens, expired, deleting, req, fresh, answer,
                              issued, refreshed, revoked, late>>
          ELSE Abort(s, IF req[s].op = "logout" THEN "ok" ELSE "unauthorized")

\* Mutant: the deletion is committed at once.
DeleteAndCommit(s) ==
  /\ pc[s] = "delete"
  /\ deleting[record[s].token] = None
  /\ tokens' = [tokens EXCEPT ![record[s].token] = None]
  /\ GoTo(s, IF req[s].op = "logout" THEN "commit" ELSE "issue")
  /\ UNCHANGED <<registered, active, expired, deleting, req, record, fresh, answer, issued,
                 refreshed, revoked, late>>

\* The flushed DELETE waits for another session that is deleting the row.  When
\* that one has committed, no row is left to delete; SQLAlchemy warns, no more.
Delete(s) ==
  /\ pc[s] = "delete"
  /\ deleting[record[s].token] = None
  /\ deleting' = IF tokens[record[s].token] = None THEN deleting ELSE [deleting EXCEPT ![record[s].token] = s]
  /\ GoTo(s, IF req[s].op = "logout" THEN "commit" ELSE "issue")
  /\ UNCHANGED <<registered, active, tokens, expired, req, record, fresh, answer, issued,
                 refreshed, revoked, late>>

\* The user the new token belongs to.
UserOf(s) == IF req[s].op = "refresh" THEN record[s].user ELSE req[s].email

\* Mutant: the client has the tokens before they are committed.
IssueAndAnswer(s) ==
  /\ pc[s] = "issue"
  /\ fresh' = [fresh EXCEPT ![s] = CHOOSE t \in Unborn : \A u \in Unborn : t <= u]
  /\ issued' = issued \cup {fresh'[s]}
  /\ GoTo(s, "commit")
  /\ UNCHANGED <<registered, active, tokens, expired, deleting, req, record, answer,
                 refreshed, revoked, late>>

\* A refresh loads its user, who must be active; then the pair is generated and
\* the row of the new token inserted, which no other session can disturb.
IssueTokens(s) ==
  /\ pc[s] = "issue"
  /\ \/ /\ req[s].op = "refresh" /\ UserOf(s) \notin active
        /\ Abort(s, "unauthorized")
     \/ /\ req[s].op = "refresh" => UserOf(s) \in active
        /\ \E t \in Unborn :
             /\ \A u \in Unborn : t <= u
             /\ fresh' = [fresh EXCEPT ![s] = t]
        /\ GoTo(s, "commit")
        /\ UNCHANGED <<registered, active, tokens, expired, deleting, req, record, answer,
                       issued, refreshed, revoked, late>>

\* Mutant: the row of the old token stays.
TokensKeepingOld(s) == [t \in Tokens |-> IF t = fresh[s] THEN UserOf(s) ELSE tokens[t]]

\* The table when session s commits.
TokensAfter(s) ==
  [t \in Tokens |-> IF deleting[t] = s THEN None ELSE IF t = fresh[s] THEN UserOf(s) ELSE tokens[t]]

\* get_db commits when the route has returned, and before its answer is sent.
Commit(s) ==
  /\ pc[s] = "commit"
  /\ registered' = IF req[s].op = "register" THEN [registered EXCEPT ![req[s].email] = @ + 1]
                   ELSE registered
  /\ tokens' = TokensAfter(s)
  /\ refreshed' = IF req[s].op = "refresh"
                    THEN refreshed \cup {[old |-> req[s].token, new |-> fresh[s]]} ELSE refreshed
  /\ revoked' = IF req[s].op = "logout" THEN revoked \cup {req[s].token} ELSE revoked
  /\ deleting' = Released(s)
  /\ answer' = [answer EXCEPT ![s] = "ok"]
  /\ GoTo(s, "done")
  /\ UNCHANGED <<active, expired, req, record, fresh, issued, late>>

\* The handler has ended as seen from the server.
Forget(s) ==
  /\ GoTo(s, "idle")
  /\ req' = [req EXCEPT ![s] = NoRequest]
  /\ record' = [record EXCEPT ![s] = None]
  /\ fresh' = [fresh EXCEPT ![s] = None]
  /\ answer' = [answer EXCEPT ![s] = None]
  /\ late' = late \ {s}

\* A client that is answered 200 or 201 has the new token.
Reply(s) ==
  /\ pc[s] = "done"
  /\ issued' = issued \cup ({fresh[s]} \ {None})
  /\ Forget(s)
  /\ UNCHANGED <<registered, active, tokens, expired, deleting, refreshed, revoked>>

-----------------------------------------------------------------------------
(* Failures, and what happens around the handlers.                           *)

\* PostgreSQL fails a statement; after the commit, its acknowledgement is lost.
Fail(s) == (pc[s] \notin {"idle", "done"} \/ answer[s] = "ok") /\ Abort(s, "serverError")

\* The replica dies and the database drops its session.
Crash(s) ==
  /\ pc[s] # "idle"
  /\ Forget(s)
  /\ deleting' = Released(s)
  /\ UNCHANGED <<registered, active, tokens, expired, issued, refreshed, revoked>>

\* JWT_REFRESH_TOKEN_EXPIRE_DAYS after it was inserted.
Expire(t) ==
  /\ tokens[t] # None /\ t \notin expired
  /\ expired' = expired \cup {t}
  /\ UNCHANGED <<registered, active, tokens, deleting, handlerVars, issued, refreshed, revoked>>

\* Somebody clears users.is_active in the database; no route of the service does.
Suspend(e) ==
  /\ registered[e] > 0 /\ e \in active
  /\ active' = active \ {e}
  /\ UNCHANGED <<registered, tokens, expired, deleting, handlerVars, issued, refreshed, revoked>>

Request(op, email, token) == [op |-> op, email |-> email, token |-> token]

\* The requests a client can send: one with a token sends one it was given, or
\* a string that is no token.
CanSend ==
  {Request(op, e, None) : op \in {"register", "login"}, e \in Emails} \cup
  {Request(op, None, t) : op \in {"refresh", "logout"}, t \in issued \cup {None}}

\* The steps a handler takes of its own accord.
Advance(s) ==
  \/ Lookup(s) \/ InsertUser(s) \/ Select(s) \/ Delete(s) \/ IssueTokens(s)
  \/ Commit(s) \/ Reply(s)

Next ==
  \/ \E s \in Sessions :
       \/ \E r \in CanSend : Begin(s, r)
       \/ Advance(s)
       \/ Fail(s) \/ Crash(s)
  \/ \E t \in Tokens : Expire(t)
  \/ \E e \in Emails : Suspend(e)

Spec == Init /\ [][Next]_vars

-----------------------------------------------------------------------------

\* Every variable has its type, and a handler that goes on with a row or a new
\* token has one.
TypeOK ==
  /\ registered \in [Emails -> Nat]
  /\ active \subseteq Emails
  /\ tokens \in [Tokens -> Emails \cup {None}]
  /\ expired \subseteq Tokens
  /\ deleting \in [Tokens -> Sessions \cup {None}]
  /\ pc \in [Sessions -> {"idle", "lookup", "insertUser", "select", "delete", "issue", "commit", "done"}]
  /\ req \in [Sessions -> [op : Ops, email : Emails \cup {None}, token : Tokens \cup {None}]]
  /\ record \in [Sessions -> [token : Tokens, user : Emails] \cup {None}]
  /\ fresh \in [Sessions -> Tokens \cup {None}]
  /\ answer \in [Sessions -> Answers \cup {None}]
  /\ issued \subseteq Tokens /\ revoked \subseteq Tokens /\ late \subseteq Sessions
  /\ refreshed \subseteq [old : Tokens, new : Tokens]
  /\ \A s \in Sessions :
       /\ pc[s] = "delete" \/ (pc[s] \in {"issue", "commit"} /\ req[s].op = "refresh")
            => record[s] # None
       /\ pc[s] = "commit" /\ req[s].op # "logout" => fresh[s] # None

\* An address belongs to one user, however many registrations of it race.
OneUserPerEmail == \A e \in Emails : registered[e] <= 1

\* A token a client was given is stored, unless it was used or revoked since: no
\* client holds a token of a transaction that was rolled back.
HandedOutIsStored == \A t \in issued : tokens[t] # None \/ t \in Used \cup revoked

\* A refresh that begins after its token was used or revoked is refused.
SpentStaysSpent ==
  \A s \in late : req[s].op = "refresh" =>
    /\ pc[s] \notin {"delete", "issue", "commit"}
    /\ answer[s] # "ok"

\* A stored token goes away only by a logout with it or by a refresh that stores
\* a token of the same user in its place, in one step: a refresh that fails
\* half-way leaves the client its session.
SessionsContinue ==
  [][\A t \in Tokens : tokens[t] # None /\ tokens'[t] = None =>
       \E s \in Sessions :
         /\ req[s].token = t
         /\ req[s].op = "logout" \/ (fresh[s] # None /\ tokens'[fresh[s]] = tokens[t])]_vars

-----------------------------------------------------------------------------
(* What a comment of the code says, and the code does not do.                *)

\* refresh_access_token: the token is consumed, it cannot be used again.
SingleUse == \A p, q \in refreshed : p.old = q.old => p = q
=============================================================================
