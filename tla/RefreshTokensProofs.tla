------------------------- MODULE RefreshTokensProofs -------------------------
(* Proofs about RefreshTokens for every set of users and every number of     *)
(* handlers and tokens, with any number of failures and crashes.             *)
EXTENDS RefreshTokens, TLAPS

\* A token was used when a refresh with it was committed, or a logout.
Spent == Used \cup revoked

\* Session s has matched a row it is to delete, or has.
Holds(s) == pc[s] = "delete" \/ (pc[s] \in {"issue", "commit"} /\ req[s].op \in {"refresh", "logout"})

\* What a handler has at each of its places: an answer at its end only, a new
\* token only once it is generated, the row of the token it was sent.
HandlerInv ==
  \A s \in Sessions :
    /\ pc[s] \in {"lookup", "insertUser"} => req[s].op \in {"register", "login"}
    /\ pc[s] \in {"select", "delete"} => req[s].op \in {"refresh", "logout"}
    /\ pc[s] = "issue" => req[s].op # "logout"
    /\ req[s].op \in {"register", "login"} => req[s].email \in Emails
    /\ answer[s] # None => pc[s] = "done"
    /\ fresh[s] # None => pc[s] \in {"commit", "done"}
    /\ fresh[s] # None /\ pc[s] = "commit" => req[s].op # "logout"
    /\ s \in late => pc[s] # "idle"
    /\ Holds(s) => record[s] # None /\ record[s].token = req[s].token

\* A registration between its INSERT and its commit is the only one of its
\* address, and the address had no user.
UserInv ==
  /\ OneUserPerEmail
  /\ \A s \in Sessions : InsertedUser(s) =>
       /\ registered[req[s].email] = 0
       /\ \A t \in Sessions \ {s} : InsertedUser(t) => req[t].email # req[s].email

\* The rows session s is deleting are stored, and are that of the token it was
\* sent: there is one.
DeletingOf(s) ==
  \A t \in Tokens : deleting[t] = s =>
    /\ tokens[t] # None
    /\ Holds(s) /\ pc[s] \in {"issue", "commit"}
    /\ req[s].token = t

\* The row session s matched is stored as it was read, or its token was spent;
\* past its DELETE the session has the row, or found it gone.
RecordOf(s) ==
  Holds(s) =>
    /\ tokens[record[s].token] = record[s].user \/ record[s].token \in Spent
    /\ pc[s] \in {"issue", "commit"} => deleting[record[s].token] = s \/ record[s].token \in Spent

\* A new token is nobody else's; it is stored by the commit, and not before.
FreshOf(s) ==
  fresh[s] # None =>
    /\ \A v \in Sessions \ {s} : fresh[v] # fresh[s]
    /\ pc[s] = "commit" => tokens[fresh[s]] = None /\ fresh[s] \notin Spent
    /\ pc[s] = "done" => tokens[fresh[s]] # None \/ fresh[s] \in Spent

\* A session that began late has a token that was spent, and matches no row.
LateOf(s) ==
  s \in late =>
    /\ req[s].token \in Spent
    /\ req[s].op = "refresh" => pc[s] \notin {"delete", "issue", "commit"} /\ answer[s] # "ok"

SessionInv(s) == DeletingOf(s) /\ RecordOf(s) /\ FreshOf(s) /\ LateOf(s)

\* A spent token is stored no more.
SpentInv == \A t \in Spent : tokens[t] = None

TokenInv == (\A s \in Sessions : SessionInv(s)) /\ SpentInv /\ HandedOutIsStored

TypeInv == TypeOK /\ HandlerInv

LEMMA TypeInit == Init => TypeInv
  BY TokensAssumption, SMTT(60)
  DEF Init, TypeInv, TypeOK, HandlerInv, Holds, NoRequest, Ops, Tokens

\* A handler that ends with an exception has nothing left to answer for.
LEMMA AbortTypes ==
  ASSUME TypeInv, NEW s \in Sessions, pc[s] # "idle",
         NEW a \in Answers, Abort(s, a)
  PROVE  TypeInv'
  <1>1. /\ UNCHANGED <<registered, active, tokens, expired, req, record, issued, refreshed, revoked, late>>
        /\ pc' = [pc EXCEPT ![s] = "done"]
        /\ answer' = [answer EXCEPT ![s] = a]
        /\ fresh' = [fresh EXCEPT ![s] = None]
        /\ deleting' \in [Tokens -> Sessions \cup {None}]
    BY DEF Abort, GoTo, Released, TypeInv, TypeOK
  <1>2. TypeOK'
    BY <1>1 DEF TypeInv, TypeOK
  <1>3. HandlerInv'
    BY <1>1 DEF TypeInv, TypeOK, HandlerInv, Holds
  <1>. QED BY <1>2, <1>3 DEF TypeInv

LEMMA BeginTypes ==
  ASSUME TypeInv, NEW s \in Sessions, NEW r \in CanSend, Begin(s, r)
  PROVE  TypeInv'
  <1>1. /\ r \in [op : Ops, email : Emails \cup {None}, token : Tokens \cup {None}]
        /\ r.op \in {"register", "login"} => r.email \in Emails
    BY DEF CanSend, Request, TypeInv, TypeOK, Ops
  <1>2. TypeOK'
    BY <1>1 DEF TypeInv, TypeOK, Begin, GoTo, Ops
  <1>3. HandlerInv'
    BY <1>1, TokensAssumption DEF TypeInv, TypeOK, HandlerInv, Holds, Begin, GoTo, Ops
  <1>. QED BY <1>2, <1>3 DEF TypeInv

LEMMA LookupTypes ==
  ASSUME TypeInv, NEW s \in Sessions, Lookup(s)
  PROVE  TypeInv'
  <1>1. CASE \E a \in {"duplicate", "unauthorized"} : Abort(s, a)
    BY <1>1, AbortTypes DEF Lookup, Answers
  <1>2. CASE ~ \E a \in {"duplicate", "unauthorized"} : Abort(s, a)
    <2>1. /\ UNCHANGED <<registered, active, tokens, expired, deleting, req, record, fresh, answer,
                          issued, refreshed, revoked, late>>
          /\ pc[s] = "lookup" /\ req[s].op \in {"register", "login"}
          /\ pc' = [pc EXCEPT ![s] = "insertUser"] \/ pc' = [pc EXCEPT ![s] = "issue"]
      BY <1>2 DEF Lookup, GoTo
    <2>2. TypeOK'
      BY <2>1 DEF TypeInv, TypeOK
    <2>3. HandlerInv'
      BY <2>1 DEF TypeInv, TypeOK, HandlerInv, Holds
    <2>. QED BY <2>2, <2>3 DEF TypeInv
  <1>. QED BY <1>1, <1>2

LEMMA InsertUserTypes ==
  ASSUME TypeInv, NEW s \in Sessions, InsertUser(s)
  PROVE  TypeInv'
  <1>1. CASE Abort(s, "serverError")
    BY <1>1, AbortTypes DEF InsertUser, Answers
  <1>2. CASE ~Abort(s, "serverError")
    <2>1. /\ UNCHANGED <<registered, active, tokens, expired, deleting, req, record, fresh, answer,
                          issued, refreshed, revoked, late>>
          /\ pc[s] = "insertUser" /\ pc' = [pc EXCEPT ![s] = "issue"]
      BY <1>2 DEF InsertUser, GoTo
    <2>2. TypeOK'
      BY <2>1 DEF TypeInv, TypeOK, HandlerInv
    <2>3. HandlerInv'
      BY <2>1 DEF TypeInv, TypeOK, HandlerInv, Holds
    <2>. QED BY <2>2, <2>3 DEF TypeInv
  <1>. QED BY <1>1, <1>2

LEMMA SelectTypes ==
  ASSUME TypeInv, NEW s \in Sessions, Select(s)
  PROVE  TypeInv'
  <1>1. CASE \E a \in {"ok", "unauthorized"} : Abort(s, a)
    BY <1>1, AbortTypes DEF Select, Answers
  <1>2. CASE ~ \E a \in {"ok", "unauthorized"} : Abort(s, a)
    <2> DEFINE row == [token |-> req[s].token, user |-> tokens[req[s].token]]
    <2>1. /\ UNCHANGED <<registered, active, tokens, expired, deleting, req, fresh, answer,
                          issued, refreshed, revoked, late>>
          /\ pc[s] = "select" /\ pc' = [pc EXCEPT ![s] = "delete"]
          /\ record' = [record EXCEPT ![s] = row]
          /\ req[s].token \in Tokens /\ tokens[req[s].token] # None
      BY <1>2 DEF Select, GoTo
    <2>2. row \in [token : Tokens, user : Emails] /\ row # None /\ row.token = req[s].token
      BY <2>1, TokensAssumption DEF TypeInv, TypeOK
    <2> HIDE DEF row
    <2>3. TypeOK'
      BY <2>1, <2>2 DEF TypeInv, TypeOK
    <2>4. HandlerInv'
      BY <2>1, <2>2 DEF TypeInv, TypeOK, HandlerInv, Holds
    <2>. QED BY <2>3, <2>4 DEF TypeInv
  <1>. QED BY <1>1, <1>2

LEMMA DeleteTypes ==
  ASSUME TypeInv, NEW s \in Sessions, Delete(s)
  PROVE  TypeInv'
  <1>1. record[s].token \in Tokens /\ req[s].op \in {"refresh", "logout"}
    BY DEF TypeInv, TypeOK, HandlerInv, Delete, Holds
  <1>2. TypeOK'
    BY <1>1 DEF TypeInv, TypeOK, HandlerInv, Holds, Delete, GoTo
  <1>3. HandlerInv'
    BY <1>1 DEF TypeInv, TypeOK, HandlerInv, Holds, Delete, GoTo
  <1>. QED BY <1>2, <1>3 DEF TypeInv

LEMMA IssueTypes ==
  ASSUME TypeInv, NEW s \in Sessions, IssueTokens(s)
  PROVE  TypeInv'
  <1>1. CASE Abort(s, "unauthorized")
    BY <1>1, AbortTypes DEF IssueTokens, Answers
  <1>2. CASE ~Abort(s, "unauthorized")
    <2>1. PICK t \in Tokens :
            /\ UNCHANGED <<registered, active, tokens, expired, deleting, req, record, answer,
                            issued, refreshed, revoked, late>>
            /\ pc[s] = "issue" /\ pc' = [pc EXCEPT ![s] = "commit"]
            /\ fresh' = [fresh EXCEPT ![s] = t]
      BY <1>2 DEF IssueTokens, GoTo, Unborn
    <2>2. TypeOK'
      BY <2>1, TokensAssumption DEF TypeInv, TypeOK
    <2>3. HandlerInv'
      BY <2>1 DEF TypeInv, TypeOK, HandlerInv, Holds
    <2>. QED BY <2>2, <2>3 DEF TypeInv
  <1>. QED BY <1>1, <1>2

\* The user of a new token that is there at the commit is one.
LEMMA UserOfFresh ==
  ASSUME TypeInv, NEW s \in Sessions, pc[s] = "commit"
  PROVE  /\ UserOf(s) \in Emails \cup {None}
         /\ fresh[s] # None => UserOf(s) \in Emails
  BY TokensAssumption DEF TypeInv, TypeOK, HandlerInv, Holds, UserOf, Ops

LEMMA CommitTypes ==
  ASSUME TypeInv, NEW s \in Sessions, Commit(s)
  PROVE  TypeInv'
  <1>1. tokens' \in [Tokens -> Emails \cup {None}]
    BY UserOfFresh DEF Commit, TokensAfter, TypeInv, TypeOK
  <1>2. deleting' \in [Tokens -> Sessions \cup {None}]
    BY DEF Commit, Released, TypeInv, TypeOK
  <1>3. registered' \in [Emails -> Nat]
    BY DEF Commit, TypeInv, TypeOK, HandlerInv
  <1>4. req[s].op \in {"refresh", "logout"} => req[s].token \in Tokens
    BY DEF Commit, TypeInv, TypeOK, HandlerInv, Holds
  <1>5. refreshed' \subseteq [old : Tokens, new : Tokens] /\ revoked' \subseteq Tokens
    <2>1. req[s].op = "refresh" => fresh[s] \in Tokens
      BY DEF Commit, TypeInv, TypeOK
    <2>. QED BY <1>4, <2>1 DEF Commit, TypeInv, TypeOK
  <1>6. TypeOK'
    BY <1>1, <1>2, <1>3, <1>5 DEF Commit, GoTo, Answers, TypeInv, TypeOK
  <1>7. HandlerInv'
    BY DEF Commit, GoTo, TypeInv, TypeOK, HandlerInv, Holds
  <1>. QED BY <1>6, <1>7 DEF TypeInv

LEMMA ForgetTypes ==
  ASSUME TypeInv, NEW s \in Sessions, Reply(s) \/ Crash(s)
  PROVE  TypeInv'
  <1>1. /\ UNCHANGED <<registered, active, tokens, expired, refreshed, revoked>>
        /\ issued' \subseteq Tokens
        /\ deleting' \in [Tokens -> Sessions \cup {None}]
    BY DEF Reply, Crash, Released, TypeInv, TypeOK
  <1>2. NoRequest \in [op : Ops, email : Emails \cup {None}, token : Tokens \cup {None}]
        /\ NoRequest.op = "logout"
    BY DEF NoRequest, Ops
  <1>3. Forget(s)
    BY DEF Reply, Crash
  <1>4. TypeOK'
    BY <1>1, <1>2, <1>3 DEF Forget, GoTo, TypeInv, TypeOK
  <1>5. HandlerInv'
    BY <1>2, <1>3 DEF Forget, GoTo, TypeInv, TypeOK, HandlerInv, Holds
  <1>. QED BY <1>4, <1>5 DEF TypeInv

LEMMA TypeStep == TypeInv /\ [Next]_vars => TypeInv'
  <1> SUFFICES ASSUME TypeInv, [Next]_vars
               PROVE  TypeInv'
    OBVIOUS
  <1>1. ASSUME NEW s \in Sessions, NEW r \in CanSend, Begin(s, r)
        PROVE  TypeInv'
    BY <1>1, BeginTypes
  <1>2. ASSUME NEW s \in Sessions, Advance(s)
        PROVE  TypeInv'
    BY <1>2, LookupTypes, InsertUserTypes, SelectTypes, DeleteTypes, IssueTypes, CommitTypes, ForgetTypes
    DEF Advance
  <1>3. ASSUME NEW s \in Sessions, Fail(s)
        PROVE  TypeInv'
    <2>1. pc[s] # "idle"
      BY <1>3, TokensAssumption DEF Fail, Answers, TypeInv, HandlerInv, TypeOK
    <2>. QED BY <1>3, <2>1, AbortTypes DEF Fail, Answers
  <1>4. ASSUME NEW s \in Sessions, Crash(s)
        PROVE  TypeInv'
    BY <1>4, ForgetTypes
  <1>5. ASSUME NEW t \in Tokens, Expire(t)
        PROVE  TypeInv'
    BY <1>5 DEF Expire, handlerVars, TypeInv, TypeOK, HandlerInv, Holds
  <1>6. ASSUME NEW e \in Emails, Suspend(e)
        PROVE  TypeInv'
    BY <1>6 DEF Suspend, handlerVars, TypeInv, TypeOK, HandlerInv, Holds
  <1>7. CASE UNCHANGED vars
    BY <1>7 DEF vars, handlerVars, TypeInv, TypeOK, HandlerInv, Holds
  <1>. QED BY <1>1, <1>2, <1>3, <1>4, <1>5, <1>6, <1>7 DEF Next

-----------------------------------------------------------------------------
(* One user for an address.                                                  *)

\* What a session has inserted is there until it commits or ends.
LEMMA UserKept ==
  ASSUME UserInv, UNCHANGED registered,
         \A s \in Sessions : InsertedUser(s)' => InsertedUser(s) /\ req'[s] = req[s]
  PROVE  UserInv'
  BY DEF UserInv, OneUserPerEmail

LEMMA AbortUser ==
  ASSUME TypeInv, UserInv, NEW s \in Sessions, NEW a, Abort(s, a)
  PROVE  UserInv'
  BY UserKept DEF Abort, GoTo, InsertedUser, TypeInv, TypeOK

LEMMA InsertUserUser ==
  ASSUME TypeInv, UserInv, NEW s \in Sessions, InsertUser(s)
  PROVE  UserInv'
  <1>1. CASE Abort(s, "serverError")
    BY <1>1, AbortUser
  <1>2. CASE ~Abort(s, "serverError")
    <2>1. /\ UNCHANGED <<registered, req>>
          /\ pc' = [pc EXCEPT ![s] = "issue"]
          /\ ~AddressTaken(req[s].email)
          /\ \A t \in Sessions \ {s} : InsertedUser(t) => req[t].email # req[s].email
      BY <1>2 DEF InsertUser, GoTo
    <2>2. req[s].email \in Emails
      BY DEF TypeInv, HandlerInv, InsertUser
    <2>3. registered[req[s].email] = 0
      BY <2>1, <2>2 DEF AddressTaken, TypeInv, TypeOK
    <2>4. /\ \A t \in Sessions : InsertedUser(t)' => t = s \/ InsertedUser(t)
          /\ \A t \in Sessions : req'[t] = req[t]
      BY <2>1 DEF InsertedUser, TypeInv, TypeOK
    <2>. QED BY <2>1, <2>3, <2>4 DEF UserInv, OneUserPerEmail
  <1>. QED BY <1>1, <1>2

LEMMA CommitUser ==
  ASSUME TypeInv, UserInv, NEW s \in Sessions, Commit(s)
  PROVE  UserInv'
  <1>1. /\ UNCHANGED req
        /\ \A t \in Sessions : InsertedUser(t)' => t # s /\ InsertedUser(t)
    BY DEF Commit, GoTo, InsertedUser, TypeInv, TypeOK
  <1>2. CASE req[s].op = "register"
    <2>1. InsertedUser(s) /\ req[s].email \in Emails
      BY <1>2 DEF Commit, InsertedUser, TypeInv, HandlerInv
    <2>0. registered[req[s].email] = 0
      BY <2>1 DEF UserInv
    <2>2. registered' = [registered EXCEPT ![req[s].email] = 1]
      BY <1>2, <2>0 DEF Commit
    <2>3. OneUserPerEmail'
      BY <2>2 DEF OneUserPerEmail, UserInv, TypeInv, TypeOK
    <2>4. \A t \in Sessions : InsertedUser(t)' => req[t].email # req[s].email
      BY <1>1, <2>1 DEF UserInv
    <2>5. \A t \in Sessions : InsertedUser(t)' => registered'[req[t].email] = registered[req[t].email]
      BY <2>2, <2>4 DEF TypeInv, TypeOK
    <2>. QED BY <1>1, <2>3, <2>5 DEF UserInv
  <1>3. CASE req[s].op # "register"
    BY <1>1, <1>3, UserKept DEF Commit
  <1>. QED BY <1>2, <1>3

LEMMA UserStep == TypeInv /\ UserInv /\ [Next]_vars => UserInv'
  <1> SUFFICES ASSUME TypeInv, UserInv, [Next]_vars
               PROVE  UserInv'
    OBVIOUS
  <1>1. ASSUME NEW s \in Sessions, NEW r \in CanSend, Begin(s, r)
        PROVE  UserInv'
    BY <1>1, UserKept DEF Begin, GoTo, InsertedUser, TypeInv, TypeOK
  <1>2. ASSUME NEW s \in Sessions, Lookup(s)
        PROVE  UserInv'
    <2>1. CASE \E a \in Answers : Abort(s, a)
      BY <2>1, AbortUser
    <2>2. CASE ~ \E a \in Answers : Abort(s, a)
      BY <1>2, <2>2, UserKept DEF Lookup, GoTo, Answers, InsertedUser, TypeInv, TypeOK
    <2>. QED BY <2>1, <2>2
  <1>3. ASSUME NEW s \in Sessions, Select(s)
        PROVE  UserInv'
    <2>1. CASE \E a \in Answers : Abort(s, a)
      BY <2>1, AbortUser
    <2>2. CASE ~ \E a \in Answers : Abort(s, a)
      BY <1>3, <2>2, UserKept DEF Select, GoTo, Answers, InsertedUser, TypeInv, TypeOK
    <2>. QED BY <2>1, <2>2
  <1>4. ASSUME NEW s \in Sessions, Delete(s)
        PROVE  UserInv'
    BY <1>4, UserKept DEF Delete, GoTo, InsertedUser, TypeInv, TypeOK, HandlerInv
  <1>5. ASSUME NEW s \in Sessions, IssueTokens(s)
        PROVE  UserInv'
    <2>1. CASE Abort(s, "unauthorized")
      BY <2>1, AbortUser
    <2>2. CASE ~Abort(s, "unauthorized")
      BY <1>5, <2>2, UserKept DEF IssueTokens, GoTo, InsertedUser, TypeInv, TypeOK
    <2>. QED BY <2>1, <2>2
  <1>6. ASSUME NEW s \in Sessions, Reply(s) \/ Crash(s)
        PROVE  UserInv'
    BY <1>6, UserKept DEF Reply, Crash, Forget, GoTo, InsertedUser, TypeInv, TypeOK
  <1>7. ASSUME NEW s \in Sessions, Advance(s)
        PROVE  UserInv'
    BY <1>2, <1>3, <1>4, <1>5, <1>6, <1>7, InsertUserUser, CommitUser DEF Advance
  <1>8. ASSUME NEW s \in Sessions, Fail(s)
        PROVE  UserInv'
    BY <1>8, AbortUser DEF Fail
  <1>9. CASE \/ \E t \in Tokens : Expire(t)
             \/ \E e \in Emails : Suspend(e)
             \/ UNCHANGED vars
    BY <1>9, UserKept DEF Expire, Suspend, vars, handlerVars, InsertedUser
  <1>. QED BY <1>1, <1>6, <1>7, <1>8, <1>9 DEF Next

-----------------------------------------------------------------------------
(* The life of a token.                                                      *)

\* A step of session s that commits nothing: the other sessions hold what they
\* held.
Alone(s) ==
  /\ UNCHANGED <<tokens, refreshed, revoked>>
  /\ \A v \in Sessions \ {s} :
       /\ pc'[v] = pc[v] /\ req'[v] = req[v] /\ record'[v] = record[v]
       /\ fresh'[v] = fresh[v] /\ answer'[v] = answer[v]
       /\ v \in late' => v \in late
       /\ \A t \in Tokens : deleting'[t] = v <=> deleting[t] = v

\* After such a step only what s holds itself is to be looked at.
LEMMA AloneTokens ==
  ASSUME TypeInv, TypeInv', TokenInv, NEW s \in Sessions, Alone(s),
         SessionInv(s)', HandedOutIsStored'
  PROVE  TokenInv'
  <1>1. Spent' = Spent
    BY DEF Alone, Spent, Used
  <1>2. SpentInv'
    BY <1>1 DEF TokenInv, SpentInv, Alone
  <1>3. ASSUME NEW v \in Sessions \ {s}
        PROVE  SessionInv(v)'
    <2>1. SessionInv(v)
      BY DEF TokenInv
    <2>2. DeletingOf(v)'
      BY <2>1 DEF SessionInv, DeletingOf, Holds, Alone
    <2>3. RecordOf(v)'
      <3>1. Holds(v)' => Holds(v) /\ record[v].token \in Tokens
        BY DEF Alone, Holds, TypeInv, TypeOK, HandlerInv
      <3>. QED BY <1>1, <2>1, <3>1 DEF SessionInv, RecordOf, Holds, Alone
    <2>4. FreshOf(v)'
      BY <1>1, <2>1 DEF SessionInv, FreshOf, Alone
    <2>5. LateOf(v)'
      BY <1>1, <2>1 DEF SessionInv, LateOf, Alone
    <2>. QED BY <2>2, <2>3, <2>4, <2>5 DEF SessionInv
  <1>. QED BY <1>2, <1>3 DEF TokenInv

\* A session that ends without a commit holds nothing any more.
LEMMA AbortTokens ==
  ASSUME TypeInv, TypeInv', TokenInv, NEW s \in Sessions, NEW a \in Answers,
         Abort(s, a), req[s].op = "refresh" /\ s \in late => a # "ok"
  PROVE  TokenInv'
  <1>1. Alone(s)
    BY TokensAssumption DEF Alone, Abort, GoTo, Released, TypeInv, TypeOK
  <1>2. Spent' = Spent
    BY <1>1 DEF Alone, Spent, Used
  <1>3. SessionInv(s)'
    <2>1. DeletingOf(s)'
      BY TokensAssumption DEF DeletingOf, Abort, Released
    <2>2. RecordOf(s)' /\ FreshOf(s)'
      BY DEF RecordOf, FreshOf, Holds, Abort, GoTo, TypeInv, TypeOK
    <2>3. LateOf(s)'
      BY <1>2 DEF TokenInv, SessionInv, LateOf, Abort, GoTo, TypeInv, TypeOK
    <2>. QED BY <2>1, <2>2, <2>3 DEF SessionInv
  <1>4. HandedOutIsStored'
    BY DEF Abort, TokenInv, HandedOutIsStored, Used
  <1>. QED BY <1>1, <1>3, <1>4, AloneTokens

\* A handler that gives its token back to the client, or dies with it.
LEMMA ForgetTokens ==
  ASSUME TypeInv, TypeInv', TokenInv, NEW s \in Sessions, Reply(s) \/ Crash(s)
  PROVE  TokenInv'
  <1>1. ~ \E t \in Tokens : deleting'[t] = s
    <2>1. CASE Reply(s)
      <3>1. UNCHANGED deleting /\ pc[s] = "done" /\ DeletingOf(s)
        BY <2>1 DEF Reply, TokenInv, SessionInv
      <3>. QED BY <3>1 DEF DeletingOf
    <2>2. CASE Crash(s)
      BY <2>2, TokensAssumption DEF Crash, Released
    <2>. QED BY <2>1, <2>2
  <1>2. Alone(s)
    BY TokensAssumption
    DEF Alone, Reply, Crash, Forget, GoTo, Released, TypeInv, TypeOK
  <1>3. SessionInv(s)'
    BY <1>1 DEF Reply, Crash, Forget, GoTo, SessionInv, DeletingOf, RecordOf, FreshOf, LateOf, Holds,
      TypeInv, TypeOK
  <1>4. HandedOutIsStored'
    <2>1. fresh[s] # None /\ pc[s] = "done" =>
            tokens[fresh[s]] # None \/ fresh[s] \in Used \cup revoked
      BY DEF TokenInv, SessionInv, FreshOf, Spent
    <2>. QED BY <2>1 DEF Reply, Crash, TokenInv, HandedOutIsStored, Used
  <1>. QED BY <1>2, <1>3, <1>4, AloneTokens

LEMMA BeginTokens ==
  ASSUME TypeInv, TypeInv', TokenInv, NEW s \in Sessions, NEW r \in CanSend, Begin(s, r)
  PROVE  TokenInv'
  <1>1. Alone(s)
    BY DEF Alone, Begin, GoTo, TypeInv, TypeOK
  <1>2. Spent' = Spent
    BY <1>1 DEF Alone, Spent, Used
  <1>3. ~ \E t \in Tokens : deleting[t] = s
    BY DEF Begin, TokenInv, SessionInv, DeletingOf
  <1>4. answer[s] = None /\ fresh[s] = None /\ s \notin late
    BY DEF Begin, TypeInv, HandlerInv
  <1>5. SessionInv(s)'
    BY <1>2, <1>3, <1>4, TokensAssumption
    DEF Begin, GoTo, SessionInv, DeletingOf, RecordOf, FreshOf, LateOf, Holds, Spent, Answers,
      TypeInv, TypeOK
  <1>6. HandedOutIsStored'
    BY DEF Begin, TokenInv, HandedOutIsStored, Used
  <1>. QED BY <1>1, <1>5, <1>6, AloneTokens

\* A handler that goes on and takes nothing.
LEMMA WalkTokens ==
  ASSUME TypeInv, TypeInv', TokenInv, NEW s \in Sessions,
         UNCHANGED <<tokens, deleting, req, record, fresh, answer, issued, refreshed, revoked, late>>,
         pc[s] \in {"lookup", "insertUser"},
         pc' = [pc EXCEPT ![s] = "insertUser"] \/ pc' = [pc EXCEPT ![s] = "issue"]
  PROVE  TokenInv'
  <1>1. Alone(s)
    BY DEF Alone, TypeInv, TypeOK
  <1>2. Spent' = Spent
    BY <1>1 DEF Alone, Spent, Used
  <1>3. ~ \E t \in Tokens : deleting[t] = s
    BY DEF TokenInv, SessionInv, DeletingOf
  <1>4. req[s].op \in {"register", "login"} /\ fresh[s] = None
    BY DEF TypeInv, HandlerInv
  <1>5. SessionInv(s)'
    BY <1>2, <1>3, <1>4 DEF TokenInv, SessionInv, DeletingOf, RecordOf, FreshOf, LateOf, Holds,
      TypeInv, TypeOK
  <1>6. HandedOutIsStored'
    BY DEF TokenInv, HandedOutIsStored, Used
  <1>. QED BY <1>1, <1>5, <1>6, AloneTokens

LEMMA SelectTokens ==
  ASSUME TypeInv, TypeInv', TokenInv, NEW s \in Sessions, Select(s)
  PROVE  TokenInv'
  <1>1. CASE Abort(s, IF req[s].op = "logout" THEN "ok" ELSE "unauthorized")
    BY <1>1, AbortTokens DEF Answers
  <1>2. CASE ~Abort(s, IF req[s].op = "logout" THEN "ok" ELSE "unauthorized")
    <2> DEFINE row == [token |-> req[s].token, user |-> tokens[req[s].token]]
    <2>1. /\ UNCHANGED <<tokens, deleting, req, fresh, answer, issued, refreshed, revoked, late>>
          /\ pc[s] = "select" /\ pc' = [pc EXCEPT ![s] = "delete"]
          /\ record' = [record EXCEPT ![s] = row]
          /\ req[s].token \in Tokens /\ tokens[req[s].token] # None
      BY <1>2 DEF Select, GoTo
    <2>2. row.token = req[s].token /\ row.user = tokens[req[s].token]
      OBVIOUS
    <2> HIDE DEF row
    <2>3. Alone(s)
      BY <2>1 DEF Alone, TypeInv, TypeOK
    <2>4. Spent' = Spent
      BY <2>3 DEF Alone, Spent, Used
    <2>5. ~ \E t \in Tokens : deleting[t] = s
      BY <2>1 DEF TokenInv, SessionInv, DeletingOf
    <2>6. s \notin late /\ fresh[s] = None
      BY <2>1 DEF TokenInv, SessionInv, SpentInv, LateOf, TypeInv, HandlerInv
    <2>7. SessionInv(s)'
      BY <2>1, <2>2, <2>4, <2>5, <2>6
      DEF SessionInv, DeletingOf, RecordOf, FreshOf, LateOf, Holds, TypeInv, TypeOK
    <2>8. HandedOutIsStored'
      BY <2>1 DEF TokenInv, HandedOutIsStored, Used
    <2>. QED BY <2>3, <2>7, <2>8, AloneTokens
  <1>. QED BY <1>1, <1>2

LEMMA DeleteTokens ==
  ASSUME TypeInv, TypeInv', TokenInv, NEW s \in Sessions, Delete(s)
  PROVE  TokenInv'
  <1> DEFINE t == record[s].token
  <1>1. /\ UNCHANGED <<tokens, req, record, fresh, answer, issued, refreshed, revoked, late>>
        /\ pc[s] = "delete" /\ pc' = [pc EXCEPT ![s] = IF req[s].op = "logout" THEN "commit" ELSE "issue"]
        /\ deleting[t] = None
        /\ deleting' = IF tokens[t] = None THEN deleting ELSE [deleting EXCEPT ![t] = s]
    BY DEF Delete, GoTo
  <1>2. /\ t \in Tokens /\ req[s].token = t /\ req[s].op \in {"refresh", "logout"}
        /\ tokens[t] = record[s].user \/ t \in Spent
        /\ record[s].user \in Emails
    BY <1>1 DEF TypeInv, TypeOK, HandlerInv, TokenInv, SessionInv, RecordOf, Holds
  <1> HIDE DEF t
  <1>3. Alone(s)
    BY <1>1, <1>2, TokensAssumption DEF Alone, TypeInv, TypeOK
  <1>4. Spent' = Spent
    BY <1>3 DEF Alone, Spent, Used
  <1>5. ~ \E u \in Tokens : deleting[u] = s
    BY <1>1 DEF TokenInv, SessionInv, DeletingOf
  <1>6. fresh[s] = None
    BY <1>1 DEF TypeInv, HandlerInv
  <1>7. DeletingOf(s)'
    BY <1>1, <1>2, <1>5 DEF DeletingOf, Holds, TypeInv, TypeOK
  <1>8. RecordOf(s)'
    BY <1>1, <1>2, <1>4, TokensAssumption DEF RecordOf, Holds, t, TypeInv, TypeOK
  <1>9. FreshOf(s)' /\ LateOf(s)'
    BY <1>1, <1>2, <1>4, <1>6 DEF TokenInv, SessionInv, FreshOf, LateOf, TypeInv, TypeOK
  <1>10. HandedOutIsStored'
    BY <1>1 DEF TokenInv, HandedOutIsStored, Used
  <1>. QED BY <1>3, <1>7, <1>8, <1>9, <1>10, AloneTokens DEF SessionInv

LEMMA IssueTokensTokens ==
  ASSUME TypeInv, TypeInv', TokenInv, NEW s \in Sessions, IssueTokens(s)
  PROVE  TokenInv'
  <1>1. CASE Abort(s, "unauthorized")
    BY <1>1, AbortTokens DEF Answers
  <1>2. CASE ~Abort(s, "unauthorized")
    <2>1. PICK t \in Unborn :
            /\ UNCHANGED <<tokens, deleting, req, record, answer, issued, refreshed, revoked, late>>
            /\ pc[s] = "issue" /\ pc' = [pc EXCEPT ![s] = "commit"]
            /\ fresh' = [fresh EXCEPT ![s] = t]
      BY <1>2 DEF IssueTokens, GoTo
    <2>2. /\ t \in Tokens /\ tokens[t] = None /\ t \notin Spent
          /\ \A v \in Sessions : fresh[v] # t
      BY DEF Unborn, Spent
    <2>3. Alone(s)
      BY <2>1 DEF Alone, TypeInv, TypeOK
    <2>4. Spent' = Spent
      BY <2>3 DEF Alone, Spent, Used
    <2>5. DeletingOf(s)' /\ RecordOf(s)' /\ LateOf(s)'
      BY <2>1, <2>4 DEF TokenInv, SessionInv, DeletingOf, RecordOf, LateOf, Holds, TypeInv, TypeOK
    <2>6. FreshOf(s)'
      BY <2>1, <2>2, <2>4 DEF FreshOf, TypeInv, TypeOK
    <2>7. HandedOutIsStored'
      BY <2>1 DEF TokenInv, HandedOutIsStored, Used
    <2>. QED BY <2>3, <2>5, <2>6, <2>7, AloneTokens DEF SessionInv
  <1>. QED BY <1>1, <1>2

\* What a commit does to each token, and what made it sure of it.
LEMMA CommitEffect ==
  ASSUME TypeInv, TokenInv, NEW s \in Sessions, Commit(s)
  PROVE  /\ \A t \in Tokens : tokens'[t] = IF deleting[t] = s THEN None
                                           ELSE IF t = fresh[s] THEN UserOf(s) ELSE tokens[t]
         /\ Spent' = Spent \cup (IF req[s].op \in {"refresh", "logout"} THEN {req[s].token} ELSE {})
         /\ \A t \in Tokens : deleting[t] = s =>
              t = req[s].token /\ req[s].op \in {"refresh", "logout"} /\ tokens[t] # None
         /\ fresh[s] # None =>
              /\ fresh[s] \in Tokens /\ UserOf(s) \in Emails
              /\ tokens[fresh[s]] = None /\ fresh[s] \notin Spent /\ deleting[fresh[s]] # s
         /\ req[s].op \in {"refresh", "logout"} =>
              /\ req[s].token \in Tokens
              /\ deleting[req[s].token] = s \/ req[s].token \in Spent
  <1>1. \A t \in Tokens : tokens'[t] = IF deleting[t] = s THEN None
                                       ELSE IF t = fresh[s] THEN UserOf(s) ELSE tokens[t]
    BY DEF Commit, TokensAfter
  <1>2. Spent' = Spent \cup (IF req[s].op \in {"refresh", "logout"} THEN {req[s].token} ELSE {})
    <2>1. Used' = Used \cup (IF req[s].op = "refresh" THEN {req[s].token} ELSE {})
      <3>1. CASE req[s].op = "refresh"
        <4>1. refreshed' = refreshed \cup {[old |-> req[s].token, new |-> fresh[s]]}
          BY <3>1 DEF Commit
        <4> DEFINE p == [old |-> req[s].token, new |-> fresh[s]]
        <4>2. p.old = req[s].token
          OBVIOUS
        <4> HIDE DEF p
        <4>3. refreshed' = refreshed \cup {p}
          BY <4>1 DEF p
        <4>4. \A x : x \in Used' <=> x \in Used \/ x = p.old
          BY <4>3 DEF Used
        <4>5. Used' = Used \cup {p.old}
          BY <4>4
        <4>. QED BY <3>1, <4>2, <4>5
      <3>2. CASE req[s].op # "refresh"
        BY <3>2 DEF Commit, Used
      <3>. QED BY <3>1, <3>2
    <2>2. revoked' = revoked \cup (IF req[s].op = "logout" THEN {req[s].token} ELSE {})
      BY DEF Commit
    <2>. QED BY <2>1, <2>2 DEF Spent
  <1>3. \A t \in Tokens : deleting[t] = s =>
          t = req[s].token /\ req[s].op \in {"refresh", "logout"} /\ tokens[t] # None
    BY DEF Commit, TokenInv, SessionInv, DeletingOf, Holds
  <1>4. fresh[s] # None =>
          /\ fresh[s] \in Tokens /\ UserOf(s) \in Emails
          /\ tokens[fresh[s]] = None /\ fresh[s] \notin Spent
    BY UserOfFresh DEF Commit, TokenInv, SessionInv, FreshOf, TypeInv, TypeOK
  <1>5. req[s].op \in {"refresh", "logout"} =>
          /\ req[s].token \in Tokens
          /\ deleting[req[s].token] = s \/ req[s].token \in Spent
    BY DEF Commit, TokenInv, SessionInv, RecordOf, Holds, TypeInv, TypeOK, HandlerInv
  <1>. QED BY <1>1, <1>2, <1>3, <1>4, <1>5

LEMMA CommitTokens ==
  ASSUME TypeInv, TypeInv', TokenInv, NEW s \in Sessions, Commit(s)
  PROVE  TokenInv'
  <1> USE TokensAssumption
  <1> DEFINE gone == IF req[s].op \in {"refresh", "logout"} THEN {req[s].token} ELSE {}
  <1>1. /\ Spent' = Spent \cup gone
        /\ \A t \in Tokens : deleting[t] = s => t \in gone /\ tokens[t] # None
        /\ \A t \in gone : t \in Tokens /\ (deleting[t] = s \/ t \in Spent)
        /\ fresh[s] # None => fresh[s] \in Tokens /\ UserOf(s) # None /\ tokens[fresh[s]] = None
                                /\ fresh[s] \notin Spent
    BY CommitEffect
  <1>2. \A t \in Tokens : tokens'[t] = IF deleting[t] = s THEN None
                                       ELSE IF t = fresh[s] THEN UserOf(s) ELSE tokens[t]
    BY CommitEffect
  <1>3. /\ UNCHANGED <<req, record, fresh, issued, late>>
        /\ pc[s] = "commit" /\ pc' = [pc EXCEPT ![s] = "done"]
        /\ answer' = [answer EXCEPT ![s] = "ok"]
        /\ \A t \in Tokens : deleting'[t] = IF deleting[t] = s THEN None ELSE deleting[t]
    BY DEF Commit, GoTo, Released
  <1> HIDE DEF gone
  <1>4. Spent \subseteq Tokens /\ \A t \in Spent : tokens[t] = None
    BY DEF TokenInv, SpentInv, Spent, Used, TypeInv, TypeOK
  <1>5. \A t \in Tokens : tokens[t] # None => tokens'[t] = tokens[t] \/ t \in gone
    BY <1>1, <1>2
  <1>6. ASSUME NEW v \in Sessions \ {s}
        PROVE  SessionInv(v)'
    <2>1. SessionInv(v) /\ pc'[v] = pc[v] /\ answer'[v] = answer[v]
      BY <1>3 DEF TokenInv, TypeInv, TypeOK
    <2>2. DeletingOf(v)'
      BY <1>1, <1>2, <1>3, <2>1 DEF SessionInv, DeletingOf, Holds
    <2>3. RecordOf(v)'
      <3>1. Holds(v)' => Holds(v) /\ record[v].token \in Tokens /\ record[v].user # None
        BY <1>3, <2>1 DEF Holds, TypeInv, TypeOK, HandlerInv
      <3>2. \A t \in Tokens : deleting[t] = v => deleting'[t] = v
        BY <1>3
      <3>. QED BY <1>1, <1>3, <1>5, <2>1, <3>1, <3>2 DEF SessionInv, RecordOf, Holds
    <2>4. FreshOf(v)'
      <3>1. fresh[v] # None => fresh[v] \in Tokens /\ fresh[v] # fresh[s]
        BY <2>1 DEF SessionInv, FreshOf, TypeInv, TypeOK
      <3>2. \A t \in Tokens : tokens[t] = None /\ t # fresh[s] => tokens'[t] = None
        BY <1>2
      <3>3. \A t \in gone : tokens[t] # None \/ t \in Spent
        BY <1>1
      <3>. QED BY <1>1, <1>3, <1>5, <2>1, <3>1, <3>2, <3>3 DEF SessionInv, FreshOf
    <2>5. LateOf(v)'
      BY <1>1, <1>3, <2>1 DEF SessionInv, LateOf
    <2>. QED BY <2>2, <2>3, <2>4, <2>5 DEF SessionInv
  <1>7. SessionInv(s)'
    <2>1. SessionInv(s) /\ pc'[s] = "done"
      BY <1>3 DEF TokenInv, TypeInv, TypeOK
    <2>2. DeletingOf(s)' /\ RecordOf(s)'
      BY <1>3, <2>1 DEF DeletingOf, RecordOf, Holds
    <2>3. FreshOf(s)'
      BY <1>1, <1>2, <1>3, <2>1 DEF SessionInv, FreshOf
    <2>4. LateOf(s)'
      BY <1>1, <1>3, <2>1 DEF SessionInv, LateOf
    <2>. QED BY <2>2, <2>3, <2>4 DEF SessionInv
  <1>8. SpentInv'
    <2>1. ASSUME NEW t \in Spent'
          PROVE  tokens'[t] = None
      BY <1>1, <1>2, <1>4, <2>1
    <2>. QED BY <2>1 DEF SpentInv
  <1>9. HandedOutIsStored'
    <2>1. \A t \in issued : t \in Tokens /\ (tokens[t] # None \/ t \in Spent)
      BY DEF TokenInv, HandedOutIsStored, Spent, TypeInv, TypeOK
    <2>2. \A t \in issued : tokens'[t] # None \/ t \in Spent'
      BY <1>1, <1>5, <2>1
    <2>. QED BY <1>3, <2>2 DEF HandedOutIsStored, Spent
  <1>. QED BY <1>6, <1>7, <1>8, <1>9 DEF TokenInv

LEMMA TokenStep == TypeInv /\ TypeInv' /\ TokenInv /\ [Next]_vars => TokenInv'
  <1> SUFFICES ASSUME TypeInv, TypeInv', TokenInv, [Next]_vars
               PROVE  TokenInv'
    OBVIOUS
  <1>1. ASSUME NEW s \in Sessions, NEW r \in CanSend, Begin(s, r)
        PROVE  TokenInv'
    BY <1>1, BeginTokens
  <1>2. ASSUME NEW s \in Sessions, Lookup(s) \/ InsertUser(s)
        PROVE  TokenInv'
    <2>1. CASE \E a \in {"duplicate", "unauthorized", "serverError"} : Abort(s, a)
      BY <2>1, AbortTokens DEF Answers
    <2>2. CASE ~ \E a \in {"duplicate", "unauthorized", "serverError"} : Abort(s, a)
      BY <1>2, <2>2, WalkTokens DEF Lookup, InsertUser, GoTo
    <2>. QED BY <2>1, <2>2
  <1>3. ASSUME NEW s \in Sessions, Advance(s)
        PROVE  TokenInv'
    BY <1>2, <1>3, SelectTokens, DeleteTokens, IssueTokensTokens, CommitTokens, ForgetTokens DEF Advance
  <1>4. ASSUME NEW s \in Sessions, Fail(s)
        PROVE  TokenInv'
    BY <1>4, AbortTokens DEF Fail, Answers
  <1>5. ASSUME NEW s \in Sessions, Crash(s)
        PROVE  TokenInv'
    BY <1>5, ForgetTokens
  <1>6. CASE \/ \E t \in Tokens : Expire(t)
             \/ \E e \in Emails : Suspend(e)
             \/ UNCHANGED vars
    <2>1. UNCHANGED <<tokens, deleting, handlerVars, issued, refreshed, revoked>>
      BY <1>6 DEF Expire, Suspend, vars
    <2>2. Spent' = Spent
      BY <2>1 DEF Spent, Used
    <2>. QED BY <2>1, <2>2 DEF handlerVars, TokenInv, SessionInv, DeletingOf, RecordOf, FreshOf, LateOf,
           Holds, SpentInv, HandedOutIsStored, Used
  <1>. QED BY <1>1, <1>3, <1>4, <1>5, <1>6 DEF Next

-----------------------------------------------------------------------------

TokensInv == TypeInv /\ UserInv /\ TokenInv

LEMMA TokensInductive == Spec => []TokensInv
  <1>1. Init => TokensInv
    <2> SUFFICES ASSUME Init
                 PROVE  UserInv /\ TokenInv
      BY TypeInit DEF TokensInv
    <2>1. UserInv
      BY DEF Init, UserInv, OneUserPerEmail, InsertedUser
    <2>2. Spent = {}
      BY DEF Init, Spent, Used
    <2>3. ASSUME NEW s \in Sessions
          PROVE  SessionInv(s)
      <3>1. /\ \A t \in Tokens : deleting[t] # s
            /\ ~Holds(s) /\ fresh[s] = None /\ s \notin late
        BY TokensAssumption DEF Init, Holds
      <3>. QED BY <3>1 DEF SessionInv, DeletingOf, RecordOf, FreshOf, LateOf
    <2>4. TokenInv
      BY <2>2, <2>3 DEF Init, TokenInv, SpentInv, HandedOutIsStored, Spent
    <2>. QED BY <2>1, <2>4
  <1>2. TokensInv /\ [Next]_vars => TokensInv'
    BY TypeStep, UserStep, TokenStep DEF TokensInv
  <1>. QED BY <1>1, <1>2, PTL DEF Spec

\* The state of the auth service is well typed, and a handler that goes on with
\* a row or a new token has one.
THEOREM TokenTypes == Spec => []TypeOK
  BY TokensInductive, PTL DEF TokensInv, TypeInv

\* register_user: however many registrations of an address race, on however many
\* replicas, one user is committed for it.
THEOREM OneUser == Spec => []OneUserPerEmail
  BY TokensInductive, PTL DEF TokensInv, UserInv

\* A token a client was given is stored until it is used or revoked, whatever is
\* rolled back or crashes around it.
THEOREM HandedOut == Spec => []HandedOutIsStored
  BY TokensInductive, PTL DEF TokensInv, TokenInv

\* refresh_access_token: a refresh that begins after its token was used or
\* revoked is refused.
THEOREM Spending == Spec => []SpentStaysSpent
  <1>1. TokensInv => SpentStaysSpent
    BY DEF TokensInv, TypeInv, TypeOK, TokenInv, SessionInv, LateOf, SpentStaysSpent
  <1>. QED BY <1>1, TokensInductive, PTL

\* A refresh takes the old token away and stores its successor in one step, for
\* the same user; besides that only a logout with it takes a token away.
THEOREM Continuation == Spec => SessionsContinue
  <1> DEFINE Continues ==
        \A t \in Tokens : tokens[t] # None /\ tokens'[t] = None =>
          \E s \in Sessions :
            /\ req[s].token = t
            /\ req[s].op = "logout" \/ (fresh[s] # None /\ tokens'[fresh[s]] = tokens[t])
  <1>1. TokensInv /\ [Next]_vars => Continues
    <2> SUFFICES ASSUME TokensInv, [Next]_vars,
                        NEW t \in Tokens, tokens[t] # None, tokens'[t] = None
                 PROVE  \E s \in Sessions :
                          /\ req[s].token = t
                          /\ req[s].op = "logout" \/ (fresh[s] # None /\ tokens'[fresh[s]] = tokens[t])
      OBVIOUS
    <2>1. PICK s \in Sessions : Commit(s)
      BY DEF Next, vars, Begin, Advance, Lookup, InsertUser, Select, Delete, IssueTokens, Reply, Fail,
        Crash, Expire, Suspend, Abort
    <2>2. TypeInv /\ TokenInv
      BY DEF TokensInv
    <2>3. /\ deleting[t] = s /\ req[s].token = t
          /\ req[s].op \in {"refresh", "logout"}
      BY <2>1, <2>2, CommitEffect, TokensAssumption
    <2>4. CASE req[s].op = "refresh"
      <3>1. fresh[s] # None
        BY <2>1, <2>2, <2>4 DEF Commit, TypeInv, TypeOK
      <3>2. tokens'[fresh[s]] = record[s].user
        <4>1. /\ fresh[s] \in Tokens /\ deleting[fresh[s]] # s
              /\ tokens'[fresh[s]] = UserOf(s)
          BY <2>1, <2>2, <3>1, CommitEffect
        <4>. QED BY <2>4, <4>1 DEF UserOf
      <3>3. record[s].token = t /\ tokens[t] = record[s].user
        <4>1. Holds(s)
          BY <2>1, <2>3 DEF Commit, Holds
        <4>. QED BY <2>2, <2>3, <4>1
             DEF TypeInv, HandlerInv, TokenInv, SessionInv, RecordOf, SpentInv
      <3>. QED BY <2>3, <3>1, <3>2, <3>3
    <2>. QED BY <2>3, <2>4
  <1>. QED BY <1>1, TokensInductive, PTL DEF Spec, SessionsContinue
=============================================================================
