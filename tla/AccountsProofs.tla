--------------------------- MODULE AccountsProofs ---------------------------
(***************************************************************************)
(* What Accounts promises, proved for every value of its constants.        *)
(*                                                                         *)
(* StaleSessionsExplained is not inductive: that a session is closed after *)
(* a password change depends on what pending requests have read.           *)
(* SessionInv adds the facts about those requests; Base, which comes       *)
(* first, is the types and who each row and request belongs to.            *)
(***************************************************************************)
EXTENDS Accounts, TLAPS

\* A request at each stage knows the user it is about.
KnowsUser ==
  \A r \in Requests :
    /\ req[r].pc \in {"checked", "ticket", "start", "session", "setpw"} =>
         req[r].user \in Users
    /\ req[r].pc \in {"run", "setpw"} /\ req[r].jti # None =>
         req[r].user \in Users
    /\ req[r].pc \in {"create", "sessions", "tokens"} => req[r].target \in Users
    /\ req[r].pc = "tokens" => req[r].wipe

\* Live sessions and tokens are somebody's.
HaveUsers ==
  /\ \A j \in Jtis : sessions[j].st = "live" => sessions[j].user \in Users
  /\ \A t \in TokenIds : tokens[t].st = "live" => tokens[t].user \in Users

Base == TypeOK /\ KnowsUser /\ HaveUsers

\* No session is ahead of its user, and none is spared by a request that is.
GensBehind ==
  /\ \A j \in Jtis : sessions[j].st = "live" =>
       sessions[j].gen <= users[sessions[j].user].gen
  /\ \A r \in Requests : req[r].pc = "sessions" =>
       req[r].gen <= users[req[r].target].gen

\* A login that has read the current generation belongs to an active user:
\* every deactivation starts a new one.
LoginsOfActive ==
  \A r \in Requests :
    req[r].pc \in {"checked", "ticket", "start"} =>
      /\ req[r].gen <= users[req[r].user].gen
      /\ req[r].gen = users[req[r].user].gen => get_user(req[r].user)

SessionInv == /\ Base /\ GensBehind /\ LoginsOfActive
              /\ InactiveUsersClosed /\ StaleSessionsExplained

-----------------------------------------------------------------------------

USE AccountsAssumption

\* What sending one request to its next step does to the others: nothing.
LEMMA GotoFacts ==
  ASSUME TypeOK, NEW r \in Requests, NEW q \in Request, Goto(r, q)
  PROVE  /\ req' \in [Requests -> Request]
         /\ req'[r] = q
         /\ \A x \in Requests \ {r} : req'[x] = req[x]
BY DEF Goto, TypeOK

\* An idle request is a request; so is one with a few fields set.
LEMMA IdleType == Idle \in Request
BY DEF Idle, Request, Pcs, Roles, Gens

\* A request that is not idle has not lost track of its user.
LEMMA GotoKnows ==
  ASSUME Base, NEW r \in Requests, NEW q \in Request, Goto(r, q),
         q.pc \in {"checked", "ticket", "start", "session", "setpw"} =>
           q.user \in Users,
         q.pc \in {"run", "setpw"} /\ q.jti # None => q.user \in Users,
         q.pc \in {"create", "sessions", "tokens"} => q.target \in Users,
         q.pc = "tokens" => q.wipe
  PROVE  req' \in [Requests -> Request] /\ KnowsUser'
<1>1. /\ req' \in [Requests -> Request]
      /\ req'[r] = q
      /\ \A x \in Requests \ {r} : req'[x] = req[x]
  BY GotoFacts DEF Base
<1>2. KnowsUser'
  BY <1>1 DEF Base, KnowsUser
<1> QED BY <1>1, <1>2

\* The role of a capped request is one of the two.
LEMMA CapType ==
  ASSUME NEW a \in Roles, NEW b \in Roles PROVE cap_role(a, b) \in {a, b}
BY DEF cap_role

\* The database layer's statements keep the tables well typed and open nothing.
LEMMA RevokeSessionsType ==
  ASSUME Base, NEW u, NEW keep, NEW g \in Gens, revoke_user_sessions(u, keep, g)
  PROVE  /\ sessions' \in [Jtis -> Session]
         /\ \A j \in Jtis : sessions'[j].st = "live" => sessions'[j].user \in Users
BY DEF revoke_user_sessions, Base, TypeOK, HaveUsers, Session, NoSession, Gens

LEMMA RevokeTokensType ==
  ASSUME Base, NEW u, revoke_user_api_tokens(u)
  PROVE  /\ tokens' \in [TokenIds -> ApiToken]
         /\ \A t \in TokenIds : tokens'[t].st = "live" => tokens'[t].user \in Users
BY DEF revoke_user_api_tokens, Base, TypeOK, HaveUsers, ApiToken, NoToken, Gens, Roles

LEMMA SpareSessionsType ==
  ASSUME Base, NEW u, SpareSessions(u)
  PROVE  /\ sessions' \in [Jtis -> Session]
         /\ \A j \in Jtis :
              /\ sessions'[j].st = sessions[j].st
              /\ sessions'[j].user = sessions[j].user
              /\ sessions'[j].gen = sessions[j].gen
              /\ sessions'[j].excused =
                   (sessions[j].excused \/ j \in SessionsOf(u))
<1> SUFFICES ASSUME NEW j \in Jtis
             PROVE  /\ sessions'[j] \in Session
                    /\ sessions'[j].st = sessions[j].st
                    /\ sessions'[j].user = sessions[j].user
                    /\ sessions'[j].gen = sessions[j].gen
                    /\ sessions'[j].excused =
                         (sessions[j].excused \/ j \in SessionsOf(u))
  BY DEF SpareSessions
<1>1. sessions[j] \in Session
  BY DEF Base, TypeOK
<1>2. CASE j \in SessionsOf(u)
  <2>1. sessions'[j] = [sessions[j] EXCEPT !.excused = TRUE]
    BY <1>2 DEF SpareSessions
  <2> QED BY <1>1, <1>2, <2>1 DEF Session
<1>3. CASE j \notin SessionsOf(u)
  <2>1. sessions'[j] = sessions[j]
    BY <1>3 DEF SpareSessions
  <2> QED BY <1>1, <1>3, <2>1 DEF Session
<1> QED BY <1>2, <1>3

LEMMA SpareTokensType ==
  ASSUME Base, NEW u, SpareTokens(u)
  PROVE  /\ tokens' \in [TokenIds -> ApiToken]
         /\ \A t \in TokenIds :
              /\ tokens'[t].st = tokens[t].st
              /\ tokens'[t].user = tokens[t].user
              /\ tokens'[t].tgen = tokens[t].tgen
              /\ tokens'[t].excused =
                   (tokens[t].excused \/ t \in TokensOf(u))
<1> SUFFICES ASSUME NEW t \in TokenIds
             PROVE  /\ tokens'[t] \in ApiToken
                    /\ tokens'[t].st = tokens[t].st
                    /\ tokens'[t].user = tokens[t].user
                    /\ tokens'[t].tgen = tokens[t].tgen
                    /\ tokens'[t].excused =
                         (tokens[t].excused \/ t \in TokensOf(u))
  BY DEF SpareTokens
<1>1. tokens[t] \in ApiToken
  BY DEF Base, TypeOK
<1>2. CASE t \in TokensOf(u)
  <2>1. tokens'[t] = [tokens[t] EXCEPT !.excused = TRUE]
    BY <1>2 DEF SpareTokens
  <2> QED BY <1>1, <1>2, <2>1 DEF ApiToken
<1>3. CASE t \notin TokensOf(u)
  <2>1. tokens'[t] = tokens[t]
    BY <1>3 DEF SpareTokens
  <2> QED BY <1>1, <1>3, <2>1 DEF ApiToken
<1> QED BY <1>2, <1>3

-----------------------------------------------------------------------------

LEMMA BaseInit == Init => Base
<1> SUFFICES ASSUME Init PROVE Base
  OBVIOUS
<1>1. users \in [Users -> UserRow]
  BY DEF Init, UserRow, Roles, Gens
<1>2. /\ NoSession("free") \in Session
      /\ NoSession("free").st = "free"
  BY DEF NoSession, Session, Gens
<1>3. /\ NoToken("free") \in ApiToken
      /\ NoToken("free").st = "free"
  BY DEF NoToken, ApiToken, Gens, Roles
<1>4. sessions \in [Jtis -> Session] /\ \A j \in Jtis : sessions[j].st = "free"
  BY <1>2 DEF Init
<1>5. tokens \in [TokenIds -> ApiToken] /\ \A t \in TokenIds : tokens[t].st = "free"
  BY <1>3 DEF Init
<1>6. req \in [Requests -> Request] /\ \A r \in Requests : req[r].pc = "idle"
  BY IdleType DEF Init, Idle
<1>7. KnowsUser
  BY <1>6 DEF KnowsUser
<1> QED BY <1>1, <1>4, <1>5, <1>6, <1>7 DEF Base, TypeOK, HaveUsers

\* A request that ends leaves no request half described.
LEMMA FinishKnows ==
  ASSUME Base, NEW r \in Requests, Finish(r)
  PROVE  req' \in [Requests -> Request] /\ KnowsUser'
<1>1. Idle.pc = "idle"
  BY DEF Idle
<1> QED BY <1>1, IdleType, GotoKnows DEF Finish

\* An action that writes no table only has to keep the requests well formed.
LEMMA QuietBase ==
  ASSUME Base, UNCHANGED <<users, sessions, tokens>>,
         req' \in [Requests -> Request] /\ KnowsUser'
  PROVE  Base'
BY DEF Base, TypeOK, HaveUsers

LEMMA LoginBase ==
  ASSUME Base, NEW r \in Requests, Login(r) PROVE Base'
<1>r. req[r] \in Request /\ users \in [Users -> UserRow]
  BY DEF Base, TypeOK
<1>1. ASSUME NEW u \in Users, LoginCheck(r, u) PROVE Base'
  <2> DEFINE q == [Idle EXCEPT !.pc = "checked", !.user = u, !.gen = users[u].gen]
  <2>1. q \in Request /\ q.pc = "checked" /\ q.user \in Users
    BY <1>r, IdleType DEF Idle, Request, Pcs, UserRow
  <2>2. Goto(r, q) /\ UNCHANGED <<users, sessions, tokens>>
    BY <1>1 DEF LoginCheck
  <2> HIDE DEF q
  <2> QED BY <2>1, <2>2, GotoKnows, QuietBase
<1>2. ASSUME NEW pc \in {"ticket", "start"},
             req[r].pc \in {"checked", "ticket"},
             Goto(r, [req[r] EXCEPT !.pc = pc]),
             UNCHANGED <<users, sessions, tokens>>
      PROVE  Base'
  <2> DEFINE q == [req[r] EXCEPT !.pc = pc]
  <2>1. q \in Request /\ q.pc = pc /\ q.user = req[r].user
    BY <1>r DEF Request, Pcs
  <2>2. q.user \in Users
    BY <1>2, <2>1 DEF Base, KnowsUser
  <2> HIDE DEF q
  <2> QED BY <1>2, <2>1, <2>2, GotoKnows, QuietBase DEF q
<1>3. CASE LoginReadUser(r)
  BY <1>2, <1>3 DEF LoginReadUser
<1>4. CASE LoginCode(r)
  BY <1>2, <1>4 DEF LoginCode
<1>5. CASE TicketExpires(r)
  BY <1>5, FinishKnows, QuietBase DEF TicketExpires
<1>6. ASSUME NEW j \in Jtis, StartSession(r, j) PROVE Base'
  <2> DEFINE u == req[r].user
             s == [st |-> "live", user |-> u, gen |-> req[r].gen,
                   excused |-> req[r].gen # users[u].gen]
  <2>1. u \in Users /\ req[r].pc = "start"
    BY <1>6 DEF StartSession, Base, KnowsUser
  <2>2. s \in Session
    BY <1>r, <2>1 DEF Session, Request
  <2>3. sessions' = [sessions EXCEPT ![j] = s] /\ UNCHANGED <<users, tokens>>
    BY <1>6 DEF StartSession
  <2>4. s.user \in Users
    BY <2>1
  <2>5. req' \in [Requests -> Request] /\ KnowsUser'
    BY <1>6, FinishKnows DEF StartSession
  <2> HIDE DEF s
  <2> QED BY <2>2, <2>3, <2>4, <2>5 DEF Base, TypeOK, HaveUsers
<1> QED BY <1>1, <1>3, <1>4, <1>5, <1>6 DEF Login

LEMMA MiddlewareBase ==
  ASSUME Base, NEW r \in Requests, Middleware(r) PROVE Base'
<1>r. /\ req[r] \in Request /\ users \in [Users -> UserRow]
      /\ sessions \in [Jtis -> Session] /\ tokens \in [TokenIds -> ApiToken]
  BY DEF Base, TypeOK
<1>1. ASSUME NEW j \in Jtis, BrowserRequest(r, j) PROVE Base'
  <2> DEFINE u == sessions[j].user
             q == [Idle EXCEPT !.pc = "session", !.user = u, !.jti = j,
                               !.role = "admin", !.tgen = users[u].tgen]
  <2>1. u \in Users
    BY <1>1 DEF BrowserRequest, Base, HaveUsers
  <2>2. q \in Request /\ q.pc = "session" /\ q.user \in Users
    BY <1>r, <2>1, IdleType DEF Idle, Request, Pcs, UserRow, Roles
  <2>3. Goto(r, q) /\ UNCHANGED <<users, sessions, tokens>>
    BY <1>1 DEF BrowserRequest
  <2> HIDE DEF q
  <2> QED BY <2>2, <2>3, GotoKnows, QuietBase
<1>2. ASSUME NEW t \in TokenIds, TokenRequest(r, t) PROVE Base'
  <2> DEFINE q == [Idle EXCEPT !.pc = "session", !.user = tokens[t].user,
                               !.role = tokens[t].role]
  <2>1. tokens[t].user \in Users
    BY <1>2 DEF TokenRequest, Base, HaveUsers
  <2>2. q \in Request /\ q.pc = "session" /\ q.user \in Users
    BY <1>r, <2>1, IdleType DEF Idle, Request, Pcs, ApiToken
  <2>3. Goto(r, q) /\ UNCHANGED <<users, sessions, tokens>>
    BY <1>2 DEF TokenRequest
  <2> HIDE DEF q
  <2> QED BY <2>2, <2>3, GotoKnows, QuietBase
<1>3. CASE PlatformRequest(r)
  <2> DEFINE q == [Idle EXCEPT !.pc = "run", !.user = Platform, !.role = "admin"]
  <2>1. q \in Request /\ q.pc = "run" /\ q.jti = None
    BY IdleType DEF Idle, Request, Pcs, Roles
  <2>2. Goto(r, q) /\ UNCHANGED <<users, sessions, tokens>>
    BY <1>3 DEF PlatformRequest
  <2> HIDE DEF q
  <2> QED BY <2>1, <2>2, GotoKnows, QuietBase
<1>4. CASE Authorize(r)
  <2> DEFINE role == cap_role(users[req[r].user].role, req[r].role)
             q == [req[r] EXCEPT !.pc = "run", !.role = role]
  <2>1. req[r].user \in Users
    BY <1>4 DEF Authorize, Base, KnowsUser
  <2>2. role \in Roles
    BY <1>r, <2>1, CapType DEF Request, UserRow
  <2>3. Goto(r, q) /\ UNCHANGED <<users, sessions, tokens>>
    BY <1>4 DEF Authorize
  <2> HIDE DEF role
  <2>4. q \in Request /\ q.pc = "run" /\ q.user \in Users
    BY <1>r, <2>1, <2>2 DEF Request, Pcs
  <2> HIDE DEF q
  <2> QED BY <2>3, <2>4, GotoKnows, QuietBase
<1>5. CASE Answer(r)
  BY <1>5, FinishKnows, QuietBase DEF Answer
<1> QED BY <1>1, <1>2, <1>3, <1>4, <1>5 DEF Middleware

\* What an update leaves in the row, and that it touches no other.
LEMMA UpdateUserRow ==
  ASSUME TypeOK, NEW r \in Requests, NEW u \in Users, NEW role \in Roles,
         NEW active \in {"on", "off", "keep"}, NEW password \in BOOLEAN,
         UpdateUser(r, u, role, active, password)
  PROVE  LET closes == password \/ active = "off" IN
         /\ users' \in [Users -> UserRow]
         /\ users'[u].row
         /\ users'[u].role = role
         /\ users'[u].active =
              (active = "on" \/ (active = "keep" /\ users[u].active))
         /\ closes => /\ users'[u].gen = users[u].gen + 1
                      /\ users'[u].tgen = users[u].tgen + 1
         /\ ~closes => /\ users'[u].gen = users[u].gen
                       /\ users'[u].tgen = users[u].tgen
         /\ \A v \in Users \ {u} : users'[v] = users[v]
<1> DEFINE closes == password \/ active = "off"
           bump == IF closes THEN 1 ELSE 0
           a == active = "on" \/ (active = "keep" /\ users[u].active)
           new == [row |-> TRUE, role |-> role, active |-> a,
                   gen |-> users[u].gen + bump, tgen |-> users[u].tgen + bump]
<1>1. users[u] \in UserRow /\ users[u].row
  BY DEF TypeOK, UpdateUser
<1>2. users[u].gen + bump \in Gens /\ users[u].tgen + bump \in Gens
  BY DEF UpdateUser
<1>3. users' = [users EXCEPT ![u] = new]
  BY DEF UpdateUser, TypeOK
<1>4. a \in BOOLEAN
  BY <1>1 DEF UserRow
<1>5. /\ new \in UserRow /\ new.row = TRUE /\ new.role = role
      /\ new.active = a /\ new.gen = users[u].gen + bump
      /\ new.tgen = users[u].tgen + bump
  <2> HIDE DEF a, bump
  <2> QED BY <1>1, <1>2, <1>4 DEF UserRow
<1>6. /\ closes => bump = 1
      /\ ~closes => bump = 0
  OBVIOUS
<1>7. users[u].gen \in Nat /\ users[u].tgen \in Nat
  BY <1>1 DEF UserRow, Gens
<1> HIDE DEF new, bump
<1>8. /\ users' \in [Users -> UserRow]
      /\ users'[u] = new
      /\ \A v \in Users \ {u} : users'[v] = users[v]
  BY <1>3, <1>5 DEF TypeOK
<1> QED BY <1>1, <1>5, <1>6, <1>7, <1>8

LEMMA CreateWriteRow ==
  ASSUME Base, NEW r \in Requests, CreateWrite(r)
  PROVE  LET u == req[r].target IN
         /\ u \in Users
         /\ users' \in [Users -> UserRow]
         /\ users'[u].row /\ users'[u].active
         /\ users[u].row => /\ users'[u].gen = users[u].gen + 1
                            /\ users'[u].tgen = users[u].tgen + 1
         /\ ~users[u].row => /\ users'[u].gen = users[u].gen
                             /\ users'[u].tgen = users[u].tgen
         /\ \A v \in Users \ {u} : users'[v] = users[v]
<1> DEFINE u == req[r].target
<1>1. u \in Users
  BY DEF CreateWrite, Base, KnowsUser
<1>2. users[u] \in UserRow /\ users \in [Users -> UserRow] /\ req[r].role \in Roles
  BY <1>1 DEF Base, TypeOK, Request
<1>3. CASE ~users[u].row
  <2> DEFINE new == [row |-> TRUE, active |-> TRUE, role |-> req[r].role,
                     gen |-> users[u].gen, tgen |-> users[u].tgen]
  <2>1. users' = [users EXCEPT ![u] = new]
    BY <1>3 DEF CreateWrite
  <2>2. new \in UserRow
    BY <1>2 DEF UserRow
  <2> QED BY <1>1, <1>2, <1>3, <2>1, <2>2
<1>4. CASE users[u].row
  <2> DEFINE new == [row |-> TRUE, active |-> TRUE, role |-> req[r].role,
                     gen |-> users[u].gen + 1, tgen |-> users[u].tgen + 1]
  <2>1. /\ users' = [users EXCEPT ![u] = new]
        /\ users[u].gen < MaxGen /\ users[u].tgen < MaxGen
    BY <1>4 DEF CreateWrite
  <2>2. new \in UserRow
    BY <1>2, <2>1 DEF UserRow, Gens
  <2> QED BY <1>1, <1>2, <1>4, <2>1, <2>2
<1> QED BY <1>1, <1>3, <1>4

LEMMA PasswordWriteRow ==
  ASSUME Base, NEW r \in Requests, PasswordWrite(r)
  PROVE  LET u == req[r].user IN
         /\ u \in Users
         /\ users' \in [Users -> UserRow]
         /\ users'[u].gen = users[u].gen + 1
         /\ users[u].gen + 1 \in Gens
         /\ users'[u].tgen = users[u].tgen
         /\ users'[u].row = users[u].row
         /\ users'[u].active = users[u].active
         /\ users'[u].role = users[u].role
         /\ \A v \in Users \ {u} : users'[v] = users[v]
<1> DEFINE u == req[r].user
           new == [users[u] EXCEPT !.gen = @ + 1]
<1>1. u \in Users
  BY DEF PasswordWrite, Base, KnowsUser
<1>2. users[u] \in UserRow /\ users \in [Users -> UserRow]
  BY <1>1 DEF Base, TypeOK
<1>3. users' = [users EXCEPT ![u] = new] /\ users[u].gen < MaxGen
  BY DEF PasswordWrite
<1>4. users[u].gen + 1 \in Gens
  BY <1>2, <1>3 DEF UserRow, Gens
<1>5. /\ new \in UserRow /\ new.gen = users[u].gen + 1
      /\ new.tgen = users[u].tgen /\ new.row = users[u].row
      /\ new.active = users[u].active /\ new.role = users[u].role
  BY <1>2, <1>4 DEF UserRow
<1> HIDE DEF new
<1>6. /\ users' \in [Users -> UserRow] /\ users'[u] = new
      /\ \A v \in Users \ {u} : users'[v] = users[v]
  BY <1>1, <1>2, <1>3, <1>5
<1> QED BY <1>1, <1>4, <1>5, <1>6

LEMMA ThenRevokeKnows ==
  ASSUME Base, NEW r \in Requests, NEW u \in Users, ThenRevoke(r, u)
  PROVE  req' \in [Requests -> Request] /\ KnowsUser'
<1> DEFINE q == [Idle EXCEPT !.pc = "sessions", !.target = u, !.wipe = TRUE]
<1>1. q \in Request /\ q.pc = "sessions" /\ q.target \in Users
  BY IdleType DEF Idle, Request, Pcs
<1>2. Goto(r, q)
  BY DEF ThenRevoke
<1> HIDE DEF q
<1> QED BY <1>1, <1>2, GotoKnows

LEMMA ManageUsersBase ==
  ASSUME Base, NEW r \in Requests, ManageUsers(r) PROVE Base'
<1>r. req[r] \in Request
  BY DEF Base, TypeOK
<1>1. ASSUME NEW u \in Users, NEW role \in Granted \cup {users[u].role},
             NEW active \in {"on", "off", "keep"}, NEW password \in BOOLEAN,
             UpdateUser(r, u, role, active, password)
      PROVE  Base'
  <2>1. role \in Roles
    BY DEF Base, TypeOK, UserRow
  <2>2. users' \in [Users -> UserRow]
    BY <1>1, <2>1, UpdateUserRow DEF Base
  <2>3. req' \in [Requests -> Request] /\ KnowsUser'
    BY <1>1, FinishKnows, ThenRevokeKnows DEF UpdateUser
  <2> QED BY <1>1, <2>2, <2>3 DEF UpdateUser, Base, TypeOK, HaveUsers
<1>2. ASSUME NEW u \in Users, NEW role \in Granted, CreateCheck(r, u, role)
      PROVE  Base'
  <2> DEFINE q == [Idle EXCEPT !.pc = "create", !.target = u, !.role = role]
  <2>1. q \in Request /\ q.pc = "create" /\ q.target \in Users
    BY IdleType DEF Idle, Request, Pcs
  <2>2. Goto(r, q) /\ UNCHANGED <<users, sessions, tokens>>
    BY <1>2 DEF CreateCheck
  <2> HIDE DEF q
  <2> QED BY <2>1, <2>2, GotoKnows, QuietBase
<1>3. ASSUME NEW u \in Users, RevokeSessionsOf(r, u) PROVE Base'
  <2> DEFINE q == [Idle EXCEPT !.pc = "sessions", !.target = u,
                               !.jti = req[r].jti, !.wipe = TRUE]
  <2>1. q \in Request /\ q.pc = "sessions" /\ q.target \in Users
    BY <1>r, IdleType DEF Idle, Request, Pcs
  <2>2. Goto(r, q) /\ UNCHANGED <<users, sessions, tokens>>
    BY <1>3 DEF RevokeSessionsOf
  <2> HIDE DEF q
  <2> QED BY <2>1, <2>2, GotoKnows, QuietBase
<1> QED BY <1>1, <1>2, <1>3 DEF ManageUsers

LEMMA CompleteBase ==
  ASSUME Base, NEW r \in Requests, Complete(r) PROVE Base'
<1>r. req[r] \in Request
  BY DEF Base, TypeOK
<1>1. CASE CreateWrite(r)
  <2>1. users' \in [Users -> UserRow]
    BY <1>1, CreateWriteRow
  <2>2. req' \in [Requests -> Request] /\ KnowsUser'
    BY <1>1, FinishKnows DEF CreateWrite
  <2>3. \/ UNCHANGED <<sessions, tokens>>
        \/ SpareSessions(req[r].target) /\ SpareTokens(req[r].target)
    BY <1>1 DEF CreateWrite
  <2>4. CASE UNCHANGED <<sessions, tokens>>
    BY <2>1, <2>2, <2>4 DEF Base, TypeOK, HaveUsers
  <2>5. CASE SpareSessions(req[r].target) /\ SpareTokens(req[r].target)
    BY <2>1, <2>2, <2>5, SpareSessionsType, SpareTokensType
       DEF Base, TypeOK, HaveUsers
  <2> QED BY <2>3, <2>4, <2>5
<1>2. CASE RevokeSessions(r)
  <2> DEFINE q == [Idle EXCEPT !.pc = "tokens", !.target = req[r].target,
                               !.wipe = TRUE]
  <2>1. req[r].target \in Users
    BY <1>2 DEF RevokeSessions, Base, KnowsUser
  <2>2. q \in Request /\ q.pc = "tokens" /\ q.target \in Users /\ q.wipe
    BY <2>1, IdleType DEF Idle, Request, Pcs
  <2>3. Goto(r, q) \/ Finish(r)
    BY <1>2 DEF RevokeSessions
  <2> HIDE DEF q
  <2>4. req' \in [Requests -> Request] /\ KnowsUser'
    BY <2>2, <2>3, FinishKnows, GotoKnows
  <2>5. /\ sessions' \in [Jtis -> Session]
        /\ \A j \in Jtis : sessions'[j].st = "live" => sessions'[j].user \in Users
    BY <1>r, <1>2, RevokeSessionsType DEF RevokeSessions, Request
  <2>6. UNCHANGED <<users, tokens>>
    BY <1>2 DEF RevokeSessions
  <2> QED BY <2>4, <2>5, <2>6 DEF Base, TypeOK, HaveUsers
<1>3. CASE RevokeTokens(r)
  BY <1>3, FinishKnows, RevokeTokensType
     DEF RevokeTokens, Base, TypeOK, HaveUsers
<1> QED BY <1>1, <1>2, <1>3 DEF Complete

LEMMA ManageOwnBase ==
  ASSUME Base, NEW r \in Requests, ManageOwn(r) PROVE Base'
<1>r. /\ req[r] \in Request /\ users \in [Users -> UserRow]
      /\ sessions \in [Jtis -> Session] /\ tokens \in [TokenIds -> ApiToken]
  BY DEF Base, TypeOK
<1>1. CASE PasswordCheck(r)
  <2> DEFINE q == [Idle EXCEPT !.pc = "setpw", !.user = req[r].user,
                               !.jti = req[r].jti]
  <2>1. req[r].user \in Users
    BY <1>1 DEF PasswordCheck, OwnAccount, Base, KnowsUser
  <2>2. q \in Request /\ q.pc = "setpw" /\ q.user \in Users
    BY <1>r, <2>1, IdleType DEF Idle, Request, Pcs
  <2>3. Goto(r, q) /\ UNCHANGED <<users, sessions, tokens>>
    BY <1>1 DEF PasswordCheck
  <2> HIDE DEF q
  <2> QED BY <2>2, <2>3, GotoKnows, QuietBase
<1>2. CASE PasswordWrite(r)
  <2> DEFINE u == req[r].user
             q == [Idle EXCEPT !.pc = "sessions", !.target = u,
                               !.jti = req[r].jti, !.gen = users[u].gen + 1]
  <2>1. u \in Users /\ users' \in [Users -> UserRow] /\ users[u].gen + 1 \in Gens
    BY <1>2, PasswordWriteRow
  <2>2. q \in Request /\ q.pc = "sessions" /\ q.target \in Users
    BY <1>r, <2>1, IdleType DEF Idle, Request, Pcs
  <2>3. Goto(r, q) /\ UNCHANGED <<sessions, tokens>>
    BY <1>2 DEF PasswordWrite
  <2> HIDE DEF q
  <2>4. req' \in [Requests -> Request] /\ KnowsUser'
    BY <2>2, <2>3, GotoKnows
  <2> QED BY <2>1, <2>3, <2>4 DEF Base, TypeOK, HaveUsers
<1>3. ASSUME NEW j \in Jtis, RevokeOwnSession(r, j) PROVE Base'
  <2>1. /\ sessions' = [sessions EXCEPT ![j] = NoSession("dead")]
        /\ UNCHANGED <<users, tokens>>
    BY <1>3 DEF RevokeOwnSession
  <2>2. NoSession("dead") \in Session /\ NoSession("dead").st = "dead"
    BY DEF NoSession, Session, Gens
  <2>3. req' \in [Requests -> Request] /\ KnowsUser'
    BY <1>3, FinishKnows DEF RevokeOwnSession
  <2> QED BY <1>r, <2>1, <2>2, <2>3 DEF Base, TypeOK, HaveUsers
<1>4. CASE RevokeOthers(r)
  <2>1. 0 \in Gens
    BY DEF Gens
  <2> QED BY <1>4, <2>1, FinishKnows, RevokeSessionsType
          DEF RevokeOthers, Base, TypeOK, HaveUsers
<1>5. ASSUME NEW t \in TokenIds, NEW role \in Granted, CreateToken(r, t, role)
      PROVE  Base'
  <2> DEFINE u == req[r].user
             k == [st |-> "live", user |-> u, role |-> role,
                   tgen |-> req[r].tgen, excused |-> req[r].tgen # users[u].tgen]
  <2>1. u \in Users
    BY <1>5 DEF CreateToken, OwnAccount, Base, KnowsUser
  <2>2. k \in ApiToken /\ k.user \in Users
    BY <1>r, <2>1 DEF ApiToken, Request
  <2>3. tokens' = [tokens EXCEPT ![t] = k] /\ UNCHANGED <<users, sessions>>
    BY <1>5 DEF CreateToken
  <2>4. req' \in [Requests -> Request] /\ KnowsUser'
    BY <1>5, FinishKnows DEF CreateToken
  <2> HIDE DEF k
  <2> QED BY <1>r, <2>2, <2>3, <2>4 DEF Base, TypeOK, HaveUsers
<1>6. ASSUME NEW t \in TokenIds, RevokeOwnToken(r, t) PROVE Base'
  <2>1. /\ tokens' = [tokens EXCEPT ![t] = NoToken("dead")]
        /\ UNCHANGED <<users, sessions>>
    BY <1>6 DEF RevokeOwnToken
  <2>2. NoToken("dead") \in ApiToken /\ NoToken("dead").st = "dead"
    BY DEF NoToken, ApiToken, Gens, Roles
  <2>3. req' \in [Requests -> Request] /\ KnowsUser'
    BY <1>6, FinishKnows DEF RevokeOwnToken
  <2> QED BY <1>r, <2>1, <2>2, <2>3 DEF Base, TypeOK, HaveUsers
<1> QED BY <1>1, <1>2, <1>3, <1>4, <1>5, <1>6 DEF ManageOwn

LEMMA AbortBase ==
  ASSUME Base, NEW r \in Requests, Abort(r) PROVE Base'
<1>1. req' \in [Requests -> Request] /\ KnowsUser'
  BY FinishKnows DEF Abort
<1>2. /\ sessions' \in [Jtis -> Session]
      /\ \A j \in Jtis : sessions'[j].st = "live" => sessions'[j].user \in Users
  BY SpareSessionsType DEF Abort, Base, TypeOK, HaveUsers
<1>3. /\ tokens' \in [TokenIds -> ApiToken]
      /\ \A t \in TokenIds : tokens'[t].st = "live" => tokens'[t].user \in Users
  BY SpareTokensType DEF Abort, Base, TypeOK, HaveUsers
<1>4. UNCHANGED users
  BY DEF Abort
<1> QED BY <1>1, <1>2, <1>3, <1>4 DEF Base, TypeOK, HaveUsers

LEMMA EndSessionBase ==
  ASSUME Base, NEW j \in Jtis, EndSession(j) PROVE Base'
<1>1. /\ sessions' = [sessions EXCEPT ![j] = NoSession("dead")]
      /\ UNCHANGED <<users, tokens, req>>
  BY DEF EndSession
<1>2. NoSession("dead") \in Session /\ NoSession("dead").st = "dead"
  BY DEF NoSession, Session, Gens
<1> QED BY <1>1, <1>2 DEF Base, TypeOK, HaveUsers, KnowsUser

LEMMA BaseStep == Base /\ [Next]_vars => Base'
<1> SUFFICES ASSUME Base, [Next]_vars PROVE Base'
  OBVIOUS
<1>1. ASSUME NEW r \in Requests, Dropped(r) PROVE Base'
  BY <1>1, FinishKnows, QuietBase DEF Dropped
<1>2. CASE UNCHANGED vars
  BY <1>2 DEF vars, Base, TypeOK, HaveUsers, KnowsUser
<1>3. CASE Next
  BY <1>1, <1>3, LoginBase, MiddlewareBase, ManageUsersBase, CompleteBase,
     ManageOwnBase, AbortBase, EndSessionBase DEF Next
<1> QED BY <1>2, <1>3

LEMMA BaseAlways == Spec => []Base
BY BaseInit, BaseStep, PTL DEF Spec

\* The tables and the requests keep their types: no handler of auth.py or
\* accounts.py leaves a row, or a step of a request, that another cannot read.
THEOREM TypeCorrect == Spec => []TypeOK
<1>1. Base => TypeOK
  BY DEF Base
<1> QED BY <1>1, BaseAlways, PTL

\* The last active admin of an organisation goes only by the superadmin's hand,
\* by an admin that was no longer one, or by a creation that overwrites a row:
\* the guard of api_users_update and api_users_delete, whoever else is active.
THEOREM AdminsSafe == Spec => AdminsRemain
<1> DEFINE Excused == \E r \in Requests :
             /\ req'[r] # req[r]
             /\ \/ req[r].user = Platform
                \/ req[r].pc = "run" /\ req[r].user \notin ActiveAdmins
                \/ req[r].pc = "create"
<1>1. ASSUME Base, [Next]_vars, ActiveAdmins # {}, ActiveAdmins' = {}
      PROVE  Excused
  <2>1. users' # users
    BY <1>1 DEF ActiveAdmins, get_user
  <2>2. PICK r \in Requests :
          \/ \E u \in Users : \E role \in Granted \cup {users[u].role},
               active \in {"on", "off", "keep"}, password \in BOOLEAN :
                 UpdateUser(r, u, role, active, password)
          \/ CreateWrite(r)
          \/ PasswordWrite(r)
    <3>1. PICK r \in Requests :
            \/ Login(r) \/ Middleware(r) \/ Abort(r) \/ Dropped(r)
            \/ ManageUsers(r) \/ Complete(r) \/ ManageOwn(r)
      BY <1>1, <2>1 DEF Next, vars, EndSession
    <3>2. ~(Login(r) \/ Middleware(r))
      BY <2>1 DEF Login, LoginCheck, LoginReadUser, LoginCode, TicketExpires,
                  StartSession, Middleware, BrowserRequest, TokenRequest,
                  PlatformRequest, Authorize, Answer
    <3>3. ~(Abort(r) \/ Dropped(r))
      BY <2>1 DEF Abort, Dropped
    <3>4. Complete(r) => CreateWrite(r)
      BY <2>1 DEF Complete, RevokeSessions, RevokeTokens
    <3>5. ManageOwn(r) => PasswordWrite(r)
      BY <2>1 DEF ManageOwn, PasswordCheck, RevokeOwnSession, RevokeOthers,
                  CreateToken, RevokeOwnToken
    <3>6. ManageUsers(r) =>
            \E u \in Users : \E role \in Granted \cup {users[u].role},
              active \in {"on", "off", "keep"}, password \in BOOLEAN :
                UpdateUser(r, u, role, active, password)
      BY <2>1 DEF ManageUsers, CreateCheck, RevokeSessionsOf
    <3> QED BY <3>1, <3>2, <3>3, <3>4, <3>5, <3>6
  <2>3. CASE CreateWrite(r)
    <3>1. req[r].pc = "create" /\ req'[r].pc = "idle"
      BY <1>1, <2>3, GotoFacts, IdleType DEF CreateWrite, Finish, Idle, Base
    <3> QED BY <3>1
  <2>4. CASE PasswordWrite(r)
    <3>1. \A u \in Users : /\ users'[u].row = users[u].row
                           /\ users'[u].active = users[u].active
                           /\ users'[u].role = users[u].role
      BY <1>1, <2>4, PasswordWriteRow
    <3> QED BY <1>1, <3>1 DEF ActiveAdmins, get_user
  <2>5. ASSUME NEW u \in Users, NEW role \in Granted \cup {users[u].role},
               NEW active \in {"on", "off", "keep"}, NEW password \in BOOLEAN,
               UpdateUser(r, u, role, active, password)
        PROVE  Excused
    <3> DEFINE me == req[r].user
    <3>1. role \in Roles
      BY <1>1 DEF Base, TypeOK, UserRow
    <3>2. /\ users'[u].row /\ users'[u].role = role
          /\ users'[u].active =
               (active = "on" \/ (active = "keep" /\ users[u].active))
          /\ \A v \in Users \ {u} : users'[v] = users[v]
      BY <1>1, <2>5, <3>1, UpdateUserRow DEF Base
    <3>3. me \notin ActiveAdmins
      <4> SUFFICES ASSUME me \in ActiveAdmins PROVE me \in ActiveAdmins'
        BY <1>1
      <4>1. CASE me # u
        BY <3>2, <4>1 DEF ActiveAdmins, get_user
      <4>2. CASE me = u
        <5>1. active # "off" /\ role = "admin"
          BY <2>5, <4>2 DEF UpdateUser, ActiveAdmins
        <5> QED BY <3>2, <4>2, <5>1 DEF ActiveAdmins, get_user
      <4> QED BY <4>1, <4>2
    <3>4. req[r].pc = "run"
      BY <2>5 DEF UpdateUser, MayManageUsers
    <3>5. req'[r] # req[r]
      <4>1. req'[r].pc \in {"idle", "sessions"}
        <5> DEFINE q == [Idle EXCEPT !.pc = "sessions", !.target = u, !.wipe = TRUE]
        <5>1. q \in Request /\ q.pc = "sessions" /\ Idle.pc = "idle"
          BY IdleType DEF Idle, Request, Pcs
        <5>2. Goto(r, q) \/ Goto(r, Idle)
          BY <2>5 DEF UpdateUser, ThenRevoke, Finish
        <5> HIDE DEF q
        <5> QED BY <1>1, <5>1, <5>2, GotoFacts, IdleType DEF Base
      <4> QED BY <3>4, <4>1
    <3> QED BY <3>3, <3>4, <3>5
  <2> QED BY <2>2, <2>3, <2>4, <2>5
<1>2. Base /\ [Next]_vars => [ActiveAdmins # {} /\ ActiveAdmins' = {} => Excused]_vars
  BY <1>1
<1> QED BY <1>2, BaseAlways, PTL DEF Spec, AdminsRemain

-----------------------------------------------------------------------------
(* Sessions *)

\* A step that opens no session and writes no user, by a request that has no
\* session left to close.
LEMMA SessionQuiet ==
  ASSUME SessionInv, Base', NEW r \in Requests, NEW q \in Request, Goto(r, q),
         req[r].pc # "sessions", UNCHANGED users,
         \A j \in Jtis : sessions'[j] = sessions[j] \/ sessions'[j].st = "dead",
         q.pc \in {"checked", "ticket", "start"} =>
           /\ q.gen <= users[q.user].gen
           /\ q.gen = users[q.user].gen => get_user(q.user),
         q.pc = "sessions" => q.gen <= users[q.target].gen
  PROVE  SessionInv'
<1>1. /\ req'[r] = q
      /\ \A x \in Requests \ {r} : req'[x] = req[x]
  BY GotoFacts DEF SessionInv, Base
<1>2. GensBehind'
  BY <1>1 DEF SessionInv, GensBehind
<1>3. LoginsOfActive'
  BY <1>1 DEF SessionInv, LoginsOfActive, get_user
<1>4. \A x \in Requests, u \in Users, j \in Jtis :
        WillClose(x, u, j) => req'[x] = req[x] /\ WillClose(x, u, j)'
  BY <1>1 DEF WillClose
<1>5. \A j \in Jtis : sessions'[j].st = "live" =>
        /\ sessions[j].st = "live" /\ sessions'[j] = sessions[j]
        /\ sessions[j].user \in Users
  BY DEF SessionInv, Base, HaveUsers
<1>6. InactiveUsersClosed'
  BY <1>4, <1>5 DEF SessionInv, InactiveUsersClosed, get_user
<1>7. StaleSessionsExplained'
  BY <1>4, <1>5 DEF SessionInv, StaleSessionsExplained
<1> QED BY <1>2, <1>3, <1>6, <1>7 DEF SessionInv

LEMMA SessionFinish ==
  ASSUME SessionInv, Base', NEW r \in Requests, Finish(r),
         req[r].pc # "sessions", UNCHANGED users,
         \A j \in Jtis : sessions'[j] = sessions[j] \/ sessions'[j].st = "dead"
  PROVE  SessionInv'
<1>1. Idle.pc = "idle"
  BY DEF Idle
<1> QED BY <1>1, IdleType, SessionQuiet DEF Finish

LEMMA SessionLogin ==
  ASSUME SessionInv, Base', NEW r \in Requests, Login(r) PROVE SessionInv'
<1>r. req[r] \in Request
  BY DEF SessionInv, Base, TypeOK
<1>1. ASSUME NEW u \in Users, LoginCheck(r, u) PROVE SessionInv'
  <2> DEFINE q == [Idle EXCEPT !.pc = "checked", !.user = u, !.gen = users[u].gen]
  <2>1. users[u].gen \in Gens
    BY DEF SessionInv, Base, TypeOK, UserRow
  <2>2. q \in Request /\ q.pc = "checked" /\ q.user = u /\ q.gen = users[u].gen
    BY <2>1, IdleType DEF Idle, Request, Pcs
  <2>3. /\ Goto(r, q) /\ UNCHANGED <<users, sessions>>
        /\ get_user(u) /\ req[r].pc = "idle"
    BY <1>1 DEF LoginCheck
  <2>4. users[u].gen <= users[u].gen
    BY <2>1 DEF Gens
  <2> HIDE DEF q
  <2> QED BY <2>2, <2>3, <2>4, SessionQuiet
<1>2. ASSUME NEW pc \in {"ticket", "start"},
             req[r].pc \in {"checked", "ticket"},
             Goto(r, [req[r] EXCEPT !.pc = pc]),
             UNCHANGED <<users, sessions, tokens>>
      PROVE  SessionInv'
  <2> DEFINE q == [req[r] EXCEPT !.pc = pc]
  <2>1. /\ q \in Request /\ q.pc = pc
        /\ q.user = req[r].user /\ q.gen = req[r].gen
    BY <1>r DEF Request, Pcs
  <2>2. /\ q.gen <= users[q.user].gen
        /\ q.gen = users[q.user].gen => get_user(q.user)
    BY <1>2, <2>1 DEF SessionInv, LoginsOfActive
  <2> HIDE DEF q
  <2> QED BY <1>2, <2>1, <2>2, SessionQuiet DEF q
<1>3. CASE LoginReadUser(r)
  BY <1>2, <1>3 DEF LoginReadUser
<1>4. CASE LoginCode(r)
  BY <1>2, <1>4 DEF LoginCode
<1>5. CASE TicketExpires(r)
  BY <1>5, SessionFinish DEF TicketExpires
<1>6. ASSUME NEW j \in Jtis, StartSession(r, j) PROVE SessionInv'
  <2> DEFINE u == req[r].user
  <2>1. /\ u \in Users /\ req[r].pc = "start" /\ UNCHANGED users
        /\ req[r].gen <= users[u].gen
        /\ req[r].gen = users[u].gen => get_user(u)
    BY <1>6 DEF StartSession, SessionInv, Base, KnowsUser, LoginsOfActive
  <2>2. /\ sessions'[j].user = u /\ sessions'[j].gen = req[r].gen
        /\ sessions'[j].excused = (req[r].gen # users[u].gen)
        /\ \A i \in Jtis \ {j} : sessions'[i] = sessions[i]
    BY <1>6 DEF StartSession, SessionInv, Base, TypeOK
  <2>3. /\ req'[r].pc = "idle"
        /\ \A x \in Requests \ {r} : req'[x] = req[x]
    BY <1>6, GotoFacts, IdleType DEF StartSession, Finish, Idle, SessionInv, Base
  <2>4. GensBehind' /\ LoginsOfActive'
    BY <2>1, <2>2, <2>3 DEF SessionInv, GensBehind, LoginsOfActive, get_user
  <2>5. \A x \in Requests, v \in Users, i \in Jtis :
          WillClose(x, v, i) => req'[x] = req[x] /\ WillClose(x, v, i)'
    BY <2>1, <2>3 DEF WillClose
  <2>6. InactiveUsersClosed'
    <3> SUFFICES ASSUME NEW i \in Jtis, (sessions[i].st = "live")',
                        (~get_user(sessions[i].user))'
                 PROVE  \/ sessions'[i].excused
                        \/ \E x \in Requests :
                             (req[x].jti # i /\ WillClose(x, sessions[i].user, i))'
      BY DEF InactiveUsersClosed
    <3>1. CASE i = j
      BY <2>1, <2>2, <3>1 DEF get_user
    <3>2. CASE i # j
      <4>1. sessions'[i] = sessions[i] /\ sessions[i].user \in Users
        BY <2>2, <3>2 DEF SessionInv, Base, HaveUsers
      <4>2. \/ sessions[i].excused
            \/ \E x \in Requests : req[x].jti # i /\ WillClose(x, sessions[i].user, i)
        BY <2>1, <4>1 DEF SessionInv, InactiveUsersClosed, get_user
      <4> QED BY <2>5, <4>1, <4>2 DEF WillClose
    <3> QED BY <3>1, <3>2
  <2>7. StaleSessionsExplained'
    <3> SUFFICES ASSUME NEW i \in Jtis, (sessions[i].st = "live")',
                        (sessions[i].gen # users[sessions[i].user].gen)'
                 PROVE  \/ sessions'[i].excused
                        \/ \E x \in Requests : WillClose(x, sessions[i].user, i)'
      BY DEF StaleSessionsExplained
    <3>1. CASE i = j
      BY <2>1, <2>2, <3>1
    <3>2. CASE i # j
      <4>1. sessions'[i] = sessions[i] /\ sessions[i].user \in Users
        BY <2>2, <3>2 DEF SessionInv, Base, HaveUsers
      <4>2. \/ sessions[i].excused
            \/ \E x \in Requests : WillClose(x, sessions[i].user, i)
        BY <2>1, <4>1 DEF SessionInv, StaleSessionsExplained
      <4> QED BY <2>5, <4>1, <4>2 DEF WillClose
    <3> QED BY <3>1, <3>2
  <2> QED BY <2>4, <2>6, <2>7 DEF SessionInv
<1> QED BY <1>1, <1>3, <1>4, <1>5, <1>6 DEF Login

LEMMA SessionMiddleware ==
  ASSUME SessionInv, Base', NEW r \in Requests, Middleware(r) PROVE SessionInv'
<1>r. /\ req[r] \in Request /\ users \in [Users -> UserRow]
      /\ tokens \in [TokenIds -> ApiToken]
  BY DEF SessionInv, Base, TypeOK
<1>1. ASSUME NEW q \in Request, q.pc \in {"session", "run"}, Goto(r, q),
             UNCHANGED <<users, sessions, tokens>>, req[r].pc # "sessions"
      PROVE  SessionInv'
  BY <1>1, SessionQuiet
<1>2. req' \in [Requests -> Request]
  BY DEF Base, TypeOK
<1>3. ASSUME NEW q, q.pc \in {"session", "run"}, Goto(r, q),
             UNCHANGED <<users, sessions, tokens>>, req[r].pc # "sessions"
      PROVE  SessionInv'
  <2>1. req'[r] = q
    BY <1>3 DEF Goto, SessionInv, Base, TypeOK
  <2> QED BY <1>1, <1>2, <1>3, <2>1
<1>4. ASSUME NEW j \in Jtis, BrowserRequest(r, j) PROVE SessionInv'
  <2> DEFINE u == sessions[j].user
             q == [Idle EXCEPT !.pc = "session", !.user = u, !.jti = j,
                               !.role = "admin", !.tgen = users[u].tgen]
  <2>1. q.pc = "session"
    BY DEF Idle
  <2>2. /\ Goto(r, q) /\ UNCHANGED <<users, sessions, tokens>>
        /\ req[r].pc # "sessions"
    BY <1>4 DEF BrowserRequest
  <2> HIDE DEF q
  <2> QED BY <1>3, <2>1, <2>2
<1>5. ASSUME NEW t \in TokenIds, TokenRequest(r, t) PROVE SessionInv'
  <2> DEFINE q == [Idle EXCEPT !.pc = "session", !.user = tokens[t].user,
                               !.role = tokens[t].role]
  <2>1. q.pc = "session"
    BY DEF Idle
  <2>2. /\ Goto(r, q) /\ UNCHANGED <<users, sessions, tokens>>
        /\ req[r].pc # "sessions"
    BY <1>5 DEF TokenRequest
  <2> HIDE DEF q
  <2> QED BY <1>3, <2>1, <2>2
<1>6. CASE PlatformRequest(r)
  <2> DEFINE q == [Idle EXCEPT !.pc = "run", !.user = Platform, !.role = "admin"]
  <2>1. q.pc = "run"
    BY DEF Idle
  <2>2. /\ Goto(r, q) /\ UNCHANGED <<users, sessions, tokens>>
        /\ req[r].pc # "sessions"
    BY <1>6 DEF PlatformRequest
  <2> HIDE DEF q
  <2> QED BY <1>3, <2>1, <2>2
<1>7. CASE Authorize(r)
  <2> DEFINE q == [req[r] EXCEPT !.pc = "run",
                     !.role = cap_role(users[req[r].user].role, @)]
  <2>1. q.pc = "run"
    BY <1>r DEF Request
  <2>2. /\ Goto(r, q) /\ UNCHANGED <<users, sessions, tokens>>
        /\ req[r].pc # "sessions"
    BY <1>7 DEF Authorize
  <2> HIDE DEF q
  <2> QED BY <1>3, <2>1, <2>2
<1>8. CASE Answer(r)
  BY <1>8, SessionFinish DEF Answer
<1> QED BY <1>4, <1>5, <1>6, <1>7, <1>8 DEF Middleware

\* A new generation for user u, written by request r, which goes on to close
\* the sessions of u (keep is the one it will spare), or by a step that has
\* excused them all.
LEMMA SessionBump ==
  ASSUME SessionInv, Base', NEW r \in Requests, NEW u \in Users,
         users'[u].gen = users[u].gen + 1,
         \A v \in Users \ {u} : users'[v] = users[v],
         \A x \in Requests \ {r} : req'[x] = req[x],
         UNCHANGED sessions,
         req[r].pc # "sessions",
         req'[r].pc = "sessions", req'[r].target = u,
         req'[r].gen <= users'[u].gen,
         req'[r].jti # None => /\ req'[r].gen = users'[u].gen
                               /\ users'[u].row = users[u].row
                               /\ users'[u].active = users[u].active
  PROVE  SessionInv'
<1>1. \A v \in Users : users[v].gen \in Nat /\ users'[v].gen \in Nat
  BY DEF SessionInv, Base, TypeOK, UserRow, Gens
<1>2. \A j \in Jtis : sessions[j].gen \in Nat
  BY DEF SessionInv, Base, TypeOK, Session, Gens
<1>3. \A x \in Requests : req[x].gen \in Nat
  BY DEF SessionInv, Base, TypeOK, Request, Gens
<1>4. GensBehind'
  BY <1>1, <1>2, <1>3
     DEF SessionInv, GensBehind, Base, HaveUsers, KnowsUser
<1>5. LoginsOfActive'
  BY <1>1, <1>3 DEF SessionInv, LoginsOfActive, get_user, Base, KnowsUser
<1>6. \A j \in Jtis : WillClose(r, u, j)'
  BY DEF WillClose
<1>7. \A x \in Requests, v \in Users \ {u}, j \in Jtis :
        WillClose(x, v, j) => WillClose(x, v, j)'
  BY DEF WillClose
<1>8. \A x \in Requests, j \in Jtis :
        req[x].jti # j /\ WillClose(x, u, j) => req'[x] = req[x] /\ WillClose(x, u, j)'
  BY DEF WillClose
<1>9. StaleSessionsExplained'
  BY <1>6, <1>7 DEF SessionInv, StaleSessionsExplained, Base, HaveUsers
<1>10. ASSUME NEW j \in Jtis, sessions'[j].st = "live",
              ~get_user(sessions[j].user)'
       PROVE  \/ sessions'[j].excused
              \/ \E x \in Requests :
                   req'[x].jti # j /\ WillClose(x, sessions[j].user, j)'
  <2> DEFINE v == sessions[j].user
  <2>1. v \in Users /\ sessions[j].st = "live"
    BY <1>10 DEF SessionInv, Base, HaveUsers
  <2>2. CASE v # u
    <3>1. ~get_user(v)
      BY <1>10, <2>1, <2>2 DEF get_user
    <3>2. sessions[j].excused \/ \E x \in Requests :
            req[x].jti # j /\ WillClose(x, v, j)
      BY <2>1, <3>1 DEF SessionInv, InactiveUsersClosed
    <3>3. \A x \in Requests : WillClose(x, v, j) => req'[x] = req[x]
      BY DEF WillClose
    <3> QED BY <1>7, <2>1, <2>2, <3>2, <3>3
  <2>3. CASE v = u /\ req'[r].jti = None
    BY <1>6, <2>3 DEF SessionInv
  <2>4. CASE v = u /\ req'[r].jti # None
    <3>1. ~get_user(u)
      BY <1>10, <2>4 DEF get_user
    <3> QED BY <1>8, <2>1, <2>4, <3>1 DEF SessionInv, InactiveUsersClosed
  <2> QED BY <2>2, <2>3, <2>4
<1>11. InactiveUsersClosed'
  BY <1>10 DEF InactiveUsersClosed
<1> QED BY <1>4, <1>5, <1>9, <1>11 DEF SessionInv

\* A step that starts no generation and deactivates nobody, by a request that
\* had no session left to close.
LEMMA SessionRow ==
  ASSUME SessionInv, Base', NEW r \in Requests, Finish(r),
         req[r].pc # "sessions", UNCHANGED sessions,
         \A v \in Users : users'[v].gen = users[v].gen,
         \A v \in Users : get_user(v) => get_user(v)'
  PROVE  SessionInv'
<1>1. /\ req'[r].pc = "idle"
      /\ \A x \in Requests \ {r} : req'[x] = req[x]
  BY GotoFacts, IdleType DEF Finish, Idle, SessionInv, Base
<1>2. GensBehind' /\ LoginsOfActive'
  BY <1>1 DEF SessionInv, GensBehind, LoginsOfActive, Base, KnowsUser, HaveUsers
<1>3. \A x \in Requests, v \in Users, j \in Jtis :
        WillClose(x, v, j) => req'[x] = req[x] /\ WillClose(x, v, j)'
  BY <1>1 DEF WillClose
<1>4. InactiveUsersClosed'
  BY <1>3 DEF SessionInv, InactiveUsersClosed, Base, HaveUsers
<1>5. StaleSessionsExplained'
  BY <1>3 DEF SessionInv, StaleSessionsExplained, Base, HaveUsers
<1> QED BY <1>2, <1>4, <1>5 DEF SessionInv

LEMMA ThenRevokeFacts ==
  ASSUME Base, NEW r \in Requests, NEW u \in Users, ThenRevoke(r, u)
  PROVE  /\ req'[r].pc = "sessions" /\ req'[r].target = u
         /\ req'[r].jti = None /\ req'[r].gen = 0 /\ req'[r].wipe
         /\ \A x \in Requests \ {r} : req'[x] = req[x]
<1> DEFINE q == [Idle EXCEPT !.pc = "sessions", !.target = u, !.wipe = TRUE]
<1>1. q \in Request /\ q.pc = "sessions" /\ q.target = u
      /\ q.jti = None /\ q.gen = 0 /\ q.wipe
  BY IdleType DEF Idle, Request, Pcs
<1>2. Goto(r, q)
  BY DEF ThenRevoke
<1> HIDE DEF q
<1> QED BY <1>1, <1>2, GotoFacts DEF Base

LEMMA SessionManageUsers ==
  ASSUME SessionInv, Base', NEW r \in Requests, ManageUsers(r) PROVE SessionInv'
<1>r. req[r] \in Request
  BY DEF SessionInv, Base, TypeOK
<1>g. \A u \in Users : users[u].gen \in Nat
  BY DEF SessionInv, Base, TypeOK, UserRow, Gens
<1>1. ASSUME NEW u \in Users, NEW role \in Granted \cup {users[u].role},
             NEW active \in {"on", "off", "keep"}, NEW password \in BOOLEAN,
             UpdateUser(r, u, role, active, password)
      PROVE  SessionInv'
  <2> DEFINE closes == password \/ active = "off"
  <2>1. role \in Roles
    BY DEF SessionInv, Base, TypeOK, UserRow
  <2>2. /\ users'[u].row
        /\ users'[u].active =
             (active = "on" \/ (active = "keep" /\ users[u].active))
        /\ closes => users'[u].gen = users[u].gen + 1
        /\ ~closes => users'[u].gen = users[u].gen
        /\ \A v \in Users \ {u} : users'[v] = users[v]
    BY <1>1, <2>1, UpdateUserRow DEF SessionInv, Base
  <2>3. UNCHANGED sessions /\ req[r].pc = "run" /\ users[u].row
    BY <1>1 DEF UpdateUser, MayManageUsers
  <2>4. CASE closes
    <3>1. ThenRevoke(r, u)
      BY <1>1, <2>4 DEF UpdateUser
    <3>2. /\ req'[r].pc = "sessions" /\ req'[r].target = u
          /\ req'[r].jti = None /\ req'[r].gen = 0
          /\ \A x \in Requests \ {r} : req'[x] = req[x]
      BY <3>1, ThenRevokeFacts DEF SessionInv
    <3> QED BY <1>g, <2>2, <2>3, <2>4, <3>2, SessionBump
  <2>5. CASE ~closes
    <3>1. /\ \A v \in Users : users'[v].gen = users[v].gen
          /\ \A v \in Users : get_user(v) => get_user(v)'
      BY <2>2, <2>3, <2>5 DEF get_user
    <3>2. Finish(r)
      BY <1>1, <2>5 DEF UpdateUser
    <3> QED BY <2>3, <3>1, <3>2, SessionRow
  <2> QED BY <2>4, <2>5
<1>2. ASSUME NEW u \in Users, NEW role \in Granted, CreateCheck(r, u, role)
      PROVE  SessionInv'
  <2> DEFINE q == [Idle EXCEPT !.pc = "create", !.target = u, !.role = role]
  <2>1. q \in Request /\ q.pc = "create"
    BY IdleType DEF Idle, Request, Pcs
  <2>2. Goto(r, q) /\ UNCHANGED <<users, sessions>> /\ req[r].pc = "run"
    BY <1>2 DEF CreateCheck, MayManageUsers
  <2> HIDE DEF q
  <2> QED BY <2>1, <2>2, SessionQuiet
<1>3. ASSUME NEW u \in Users, RevokeSessionsOf(r, u) PROVE SessionInv'
  <2> DEFINE q == [Idle EXCEPT !.pc = "sessions", !.target = u,
                               !.jti = req[r].jti, !.wipe = TRUE]
  <2>1. q \in Request /\ q.pc = "sessions" /\ q.target = u /\ q.gen = 0
    BY <1>r, IdleType DEF Idle, Request, Pcs
  <2>2. Goto(r, q) /\ UNCHANGED <<users, sessions>> /\ req[r].pc = "run"
    BY <1>3 DEF RevokeSessionsOf, MayManageUsers
  <2> HIDE DEF q
  <2> QED BY <1>g, <2>1, <2>2, SessionQuiet
<1> QED BY <1>1, <1>2, <1>3 DEF ManageUsers

LEMMA SessionComplete ==
  ASSUME SessionInv, Base', NEW r \in Requests, Complete(r) PROVE SessionInv'
<1>g. /\ \A u \in Users : users[u].gen \in Nat
      /\ \A j \in Jtis : sessions[j] \in Session /\ sessions[j].gen \in Nat
      /\ \A x \in Requests : req[x] \in Request /\ req[x].gen \in Nat
  BY DEF SessionInv, Base, TypeOK, UserRow, Session, Request, Gens
<1>1. CASE CreateWrite(r)
  <2> DEFINE u == req[r].target
  <2>1. /\ u \in Users
        /\ users'[u].row /\ users'[u].active
        /\ users[u].row => users'[u].gen = users[u].gen + 1
        /\ ~users[u].row => users'[u].gen = users[u].gen
        /\ \A v \in Users \ {u} : users'[v] = users[v]
    BY <1>1, CreateWriteRow DEF SessionInv
  <2>2. /\ Finish(r) /\ req[r].pc = "create"
        /\ ~(users[u].row /\ users[u].active) => UNCHANGED sessions
        /\ users[u].row /\ users[u].active => SpareSessions(u)
    BY <1>1 DEF CreateWrite
  <2>3. /\ req'[r].pc = "idle"
        /\ \A x \in Requests \ {r} : req'[x] = req[x]
    BY <2>2, GotoFacts, IdleType DEF Finish, Idle, SessionInv, Base
  <2>4. CASE ~users[u].row
    <3>1. \A v \in Users : get_user(v) => get_user(v)'
      BY <2>1, <2>4 DEF get_user
    <3> QED BY <2>1, <2>2, <2>4, <3>1, SessionRow DEF SessionInv
  <2>5. CASE users[u].row
    <3>1. /\ \A j \in Jtis : /\ sessions'[j].st = sessions[j].st
                             /\ sessions'[j].user = sessions[j].user
                             /\ sessions'[j].gen = sessions[j].gen
                             /\ sessions[j].excused => sessions'[j].excused
          /\ users[u].active =>
               \A j \in Jtis : j \in SessionsOf(u) => sessions'[j].excused
      BY <2>2, <2>5, SpareSessionsType DEF SessionInv
    <3>2. GensBehind' /\ LoginsOfActive'
      BY <1>g, <2>1, <2>3, <2>5, <3>1
         DEF SessionInv, GensBehind, LoginsOfActive, get_user, Base, KnowsUser,
             HaveUsers
    <3>3. \A x \in Requests, v \in Users, j \in Jtis :
            WillClose(x, v, j) /\ (v # u \/ req[x].jti # j) =>
              req'[x] = req[x] /\ WillClose(x, v, j)'
      BY <2>1, <2>2, <2>3 DEF WillClose
    <3>4. InactiveUsersClosed'
      BY <2>1, <3>1, <3>3
         DEF SessionInv, InactiveUsersClosed, Base, HaveUsers, get_user
    <3>5. ASSUME NEW j \in Jtis, sessions'[j].st = "live",
                 sessions'[j].gen # users'[sessions'[j].user].gen
          PROVE  \/ sessions'[j].excused
                 \/ \E x \in Requests : WillClose(x, sessions[j].user, j)'
      <4> DEFINE v == sessions[j].user
      <4>1. v \in Users /\ sessions[j].st = "live" /\ sessions'[j].user = v
        BY <3>1, <3>5 DEF SessionInv, Base, HaveUsers
      <4>2. CASE v # u
        <5>1. sessions[j].gen # users[v].gen
          BY <2>1, <3>1, <3>5, <4>1, <4>2
        <5>2. sessions[j].excused \/ \E x \in Requests : WillClose(x, v, j)
          BY <4>1, <5>1 DEF SessionInv, StaleSessionsExplained
        <5> QED BY <3>1, <3>3, <4>1, <4>2, <5>2
      <4>3. CASE v = u /\ users[u].active
        BY <3>1, <4>1, <4>3 DEF SessionsOf
      <4>4. CASE v = u /\ ~users[u].active
        <5>1. ~get_user(v)
          BY <4>4 DEF get_user
        <5>2. sessions[j].excused \/ \E x \in Requests :
                req[x].jti # j /\ WillClose(x, v, j)
          BY <4>1, <5>1 DEF SessionInv, InactiveUsersClosed
        <5> QED BY <3>1, <3>3, <4>1, <5>2
      <4> QED BY <4>2, <4>3, <4>4
    <3>6. StaleSessionsExplained'
      BY <3>1, <3>5 DEF StaleSessionsExplained
    <3> QED BY <3>2, <3>4, <3>6 DEF SessionInv
  <2> QED BY <2>4, <2>5
<1>2. CASE RevokeSessions(r)
  <2> DEFINE u == req[r].target
             keep == req[r].jti
             g == req[r].gen
             q == [Idle EXCEPT !.pc = "tokens", !.target = u, !.wipe = TRUE]
  <2>1. /\ u \in Users /\ UNCHANGED users /\ req[r].pc = "sessions"
        /\ revoke_user_sessions(u, keep, g) /\ g <= users[u].gen
    BY <1>2 DEF RevokeSessions, SessionInv, Base, KnowsUser, GensBehind
  <2>2. /\ q \in Request /\ q.pc = "tokens"
        /\ Idle.pc = "idle"
    BY <2>1, IdleType DEF Idle, Request, Pcs
  <2>3. Goto(r, q) \/ Goto(r, Idle)
    BY <1>2 DEF RevokeSessions, Finish
  <2> HIDE DEF q
  <2>4. /\ req'[r].pc \in {"idle", "tokens"}
        /\ \A x \in Requests \ {r} : req'[x] = req[x]
    BY <2>2, <2>3, GotoFacts, IdleType DEF SessionInv, Base
  <2>5. \A j \in Jtis : sessions'[j].st = "live" =>
          /\ sessions[j].st = "live"
          /\ sessions'[j].user = sessions[j].user
          /\ sessions'[j].excused = sessions[j].excused
          /\ sessions[j].user # u \/ j # keep => sessions'[j] = sessions[j]
          /\ sessions[j].user = u => j = keep
          /\ sessions[j].user = u =>
               sessions'[j].gen = IF g > sessions[j].gen THEN g ELSE sessions[j].gen
    <3> SUFFICES ASSUME NEW j \in Jtis, sessions'[j].st = "live"
                 PROVE  /\ sessions[j].st = "live"
                        /\ sessions'[j].user = sessions[j].user
                        /\ sessions'[j].excused = sessions[j].excused
                        /\ sessions[j].user # u \/ j # keep =>
                             sessions'[j] = sessions[j]
                        /\ sessions[j].user = u => j = keep
                        /\ sessions[j].user = u =>
                             sessions'[j].gen =
                               IF g > sessions[j].gen THEN g ELSE sessions[j].gen
      OBVIOUS
    <3>1. CASE j \notin SessionsOf(u)
      <4>1. sessions'[j] = sessions[j]
        BY <2>1, <3>1 DEF revoke_user_sessions
      <4> QED BY <3>1, <4>1 DEF SessionsOf
    <3>2. CASE j \in SessionsOf(u)
      <4>1. j = keep
        BY <2>1, <3>2 DEF revoke_user_sessions, NoSession
      <4>2. sessions'[j] = IF g > sessions[j].gen
                             THEN [sessions[j] EXCEPT !.gen = g] ELSE sessions[j]
        BY <2>1, <3>2, <4>1 DEF revoke_user_sessions
      <4>3. /\ sessions'[j].user = sessions[j].user
            /\ sessions'[j].excused = sessions[j].excused
            /\ sessions'[j].gen = IF g > sessions[j].gen THEN g ELSE sessions[j].gen
        BY <1>g, <4>2 DEF Session
      <4> QED BY <3>2, <4>1, <4>3 DEF SessionsOf
    <3> QED BY <3>1, <3>2
  <2>6. GensBehind' /\ LoginsOfActive'
    BY <1>g, <2>1, <2>4, <2>5
       DEF SessionInv, GensBehind, LoginsOfActive, get_user, Base, HaveUsers
  <2>7. \A x \in Requests \ {r}, v \in Users, j \in Jtis :
          WillClose(x, v, j) => req'[x] = req[x] /\ WillClose(x, v, j)'
    BY <2>1, <2>4 DEF WillClose
  <2>8. \A v \in Users, j \in Jtis :
          WillClose(r, v, j) => v = u /\ (j = keep => g = users[u].gen)
    BY DEF WillClose
  <2>9. ASSUME NEW j \in Jtis, sessions'[j].st = "live"
        PROVE  \A v \in Users : v = sessions[j].user =>
                 /\ ~get_user(v)' => \/ sessions'[j].excused
                                     \/ \E x \in Requests :
                                          req'[x].jti # j /\ WillClose(x, v, j)'
                 /\ sessions'[j].gen # users'[v].gen =>
                      \/ sessions'[j].excused
                      \/ \E x \in Requests : WillClose(x, v, j)'
    <3> SUFFICES ASSUME NEW v \in Users, v = sessions[j].user
                 PROVE  /\ ~get_user(v)' =>
                             \/ sessions'[j].excused
                             \/ \E x \in Requests :
                                  req'[x].jti # j /\ WillClose(x, v, j)'
                        /\ sessions'[j].gen # users'[v].gen =>
                             \/ sessions'[j].excused
                             \/ \E x \in Requests : WillClose(x, v, j)'
      OBVIOUS
    <3>1. /\ sessions[j].st = "live"
          /\ sessions'[j].excused = sessions[j].excused
          /\ v = u => j = keep
      BY <2>5, <2>9
    <3>2. ASSUME ~get_user(v)'
          PROVE  sessions'[j].excused \/ \E x \in Requests :
                   req'[x].jti # j /\ WillClose(x, v, j)'
      <4>1. ~get_user(v)
        BY <2>1, <3>2 DEF get_user
      <4>2. sessions[j].excused \/ \E x \in Requests :
              req[x].jti # j /\ WillClose(x, v, j)
        BY <3>1, <4>1 DEF SessionInv, InactiveUsersClosed
      <4> QED BY <2>7, <2>8, <3>1, <4>2
    <3>3. ASSUME sessions'[j].gen # users'[v].gen
          PROVE  sessions'[j].excused \/ \E x \in Requests : WillClose(x, v, j)'
      <4>1. sessions[j].gen # users[v].gen
        BY <1>g, <2>1, <2>5, <2>9, <3>1, <3>3 DEF SessionInv, GensBehind
      <4>2. sessions[j].excused \/ \E x \in Requests : WillClose(x, v, j)
        BY <3>1, <4>1 DEF SessionInv, StaleSessionsExplained
      <4>3. CASE WillClose(r, v, j)
        <5>1. v = u /\ j = keep /\ g = users[u].gen
          BY <2>8, <3>1, <4>3
        <5>2. sessions[j].gen <= users[u].gen
          BY <3>1, <5>1 DEF SessionInv, GensBehind
        <5>3. sessions'[j].gen = g
          <6>1. sessions'[j].gen = IF g > sessions[j].gen THEN g ELSE sessions[j].gen
            <7>1. sessions[j].user = u
              BY <5>1
            <7> HIDE DEF u, g
            <7> QED BY <2>5, <2>9, <7>1
          <6>2. sessions[j].gen < g
            BY <1>g, <4>1, <5>1, <5>2
          <6> QED BY <6>1, <6>2
        <5> QED BY <2>1, <3>3, <5>1, <5>3
      <4> QED BY <2>7, <3>1, <4>2, <4>3
    <3> QED BY <3>2, <3>3
  <2>10. \A j \in Jtis : sessions'[j].st = "live" =>
           sessions'[j].user = sessions[j].user /\ sessions[j].user \in Users
    BY <2>5 DEF SessionInv, Base, HaveUsers
  <2>11. InactiveUsersClosed'
    BY <2>9, <2>10 DEF InactiveUsersClosed
  <2>12. StaleSessionsExplained'
    BY <2>9, <2>10 DEF StaleSessionsExplained
  <2> QED BY <2>6, <2>11, <2>12 DEF SessionInv
<1>3. CASE RevokeTokens(r)
  BY <1>3, SessionFinish DEF RevokeTokens
<1> QED BY <1>1, <1>2, <1>3 DEF Complete

LEMMA SessionManageOwn ==
  ASSUME SessionInv, Base', NEW r \in Requests, ManageOwn(r) PROVE SessionInv'
<1>r. req[r] \in Request /\ sessions \in [Jtis -> Session]
  BY DEF SessionInv, Base, TypeOK
<1>1. CASE PasswordCheck(r)
  <2> DEFINE q == [Idle EXCEPT !.pc = "setpw", !.user = req[r].user,
                               !.jti = req[r].jti]
  <2>1. req[r].user \in Users
    BY <1>1 DEF PasswordCheck, OwnAccount, SessionInv, Base, KnowsUser
  <2>2. q \in Request /\ q.pc = "setpw"
    BY <1>r, <2>1, IdleType DEF Idle, Request, Pcs
  <2>3. Goto(r, q) /\ UNCHANGED <<users, sessions>> /\ req[r].pc = "run"
    BY <1>1 DEF PasswordCheck, OwnAccount
  <2> HIDE DEF q
  <2> QED BY <2>2, <2>3, SessionQuiet
<1>2. CASE PasswordWrite(r)
  <2> DEFINE u == req[r].user
             q == [Idle EXCEPT !.pc = "sessions", !.target = u,
                               !.jti = req[r].jti, !.gen = users[u].gen + 1]
  <2>1. /\ u \in Users /\ users[u].gen + 1 \in Gens
        /\ users'[u].gen = users[u].gen + 1
        /\ users'[u].row = users[u].row /\ users'[u].active = users[u].active
        /\ \A v \in Users \ {u} : users'[v] = users[v]
    BY <1>2, PasswordWriteRow DEF SessionInv
  <2>2. /\ q \in Request /\ q.pc = "sessions" /\ q.target = u
        /\ q.gen = users'[u].gen
    BY <1>r, <2>1, IdleType DEF Idle, Request, Pcs
  <2>3. Goto(r, q) /\ UNCHANGED sessions /\ req[r].pc = "setpw"
    BY <1>2 DEF PasswordWrite
  <2> HIDE DEF q
  <2>4. req'[r] = q /\ \A x \in Requests \ {r} : req'[x] = req[x]
    BY <2>2, <2>3, GotoFacts DEF SessionInv, Base
  <2>5. q.gen <= users'[u].gen
    BY <2>1, <2>2 DEF Gens
  <2> QED BY <2>1, <2>2, <2>3, <2>4, <2>5, SessionBump
<1>3. ASSUME NEW j \in Jtis, RevokeOwnSession(r, j) PROVE SessionInv'
  <2>1. \A i \in Jtis : sessions'[i] = sessions[i] \/ sessions'[i].st = "dead"
    BY <1>r, <1>3 DEF RevokeOwnSession, NoSession
  <2> QED BY <1>3, <2>1, SessionFinish DEF RevokeOwnSession, OwnAccount
<1>4. CASE RevokeOthers(r)
  <2>1. \A j \in Jtis : sessions[j].gen \in Nat
    BY <1>r DEF Session, Gens
  <2>2. \A j \in Jtis : sessions'[j] = sessions[j] \/ sessions'[j].st = "dead"
    BY <1>4, <2>1 DEF RevokeOthers, revoke_user_sessions, NoSession
  <2> QED BY <1>4, <2>2, SessionFinish DEF RevokeOthers, OwnAccount
<1>5. ASSUME NEW t \in TokenIds, NEW role \in Granted, CreateToken(r, t, role)
      PROVE  SessionInv'
  BY <1>5, SessionFinish DEF CreateToken, OwnAccount
<1>6. ASSUME NEW t \in TokenIds, RevokeOwnToken(r, t) PROVE SessionInv'
  BY <1>6, SessionFinish DEF RevokeOwnToken, OwnAccount
<1> QED BY <1>1, <1>2, <1>3, <1>4, <1>5, <1>6 DEF ManageOwn

LEMMA SessionAbort ==
  ASSUME SessionInv, Base', NEW r \in Requests, Abort(r) PROVE SessionInv'
<1>1. CASE req[r].pc # "sessions"
  BY <1>1, SessionFinish DEF Abort
<1>2. CASE req[r].pc = "sessions"
  <2> DEFINE u == req[r].target
  <2>1. /\ u \in Users /\ UNCHANGED users /\ Finish(r) /\ SpareSessions(u)
    BY <1>2 DEF Abort, SessionInv, Base, KnowsUser
  <2>2. \A j \in Jtis : /\ sessions'[j].st = sessions[j].st
                        /\ sessions'[j].user = sessions[j].user
                        /\ sessions'[j].gen = sessions[j].gen
                        /\ sessions[j].excused => sessions'[j].excused
                        /\ j \in SessionsOf(u) => sessions'[j].excused
    BY <2>1, SpareSessionsType DEF SessionInv
  <2>3. /\ req'[r].pc = "idle"
        /\ \A x \in Requests \ {r} : req'[x] = req[x]
    BY <2>1, GotoFacts, IdleType DEF Finish, Idle, SessionInv, Base
  <2>4. GensBehind' /\ LoginsOfActive'
    BY <2>1, <2>2, <2>3 DEF SessionInv, GensBehind, LoginsOfActive, get_user
  <2>5. \A x \in Requests, v \in Users \ {u}, j \in Jtis :
          WillClose(x, v, j) => req'[x] = req[x] /\ WillClose(x, v, j)'
    BY <2>1, <2>3 DEF WillClose
  <2>6. InactiveUsersClosed'
    BY <2>1, <2>2, <2>5
       DEF SessionInv, InactiveUsersClosed, get_user, SessionsOf, Base, HaveUsers
  <2>7. StaleSessionsExplained'
    BY <2>1, <2>2, <2>5
       DEF SessionInv, StaleSessionsExplained, SessionsOf, Base, HaveUsers
  <2> QED BY <2>4, <2>6, <2>7 DEF SessionInv
<1> QED BY <1>1, <1>2

LEMMA SessionEnd ==
  ASSUME SessionInv, Base', NEW j \in Jtis, EndSession(j) PROVE SessionInv'
<1>1. \A i \in Jtis : sessions'[i].st = "live" => sessions'[i] = sessions[i]
  BY DEF EndSession, NoSession, SessionInv, Base, TypeOK
<1>2. UNCHANGED <<users, req>>
  BY DEF EndSession
<1> QED BY <1>1, <1>2
        DEF SessionInv, GensBehind, LoginsOfActive, InactiveUsersClosed,
            StaleSessionsExplained, WillClose, get_user

LEMMA SessionInit == Init => SessionInv
<1> SUFFICES ASSUME Init PROVE SessionInv
  OBVIOUS
<1>1. /\ \A j \in Jtis : sessions[j].st = "free"
      /\ \A r \in Requests : req[r].pc = "idle"
  BY DEF Init, NoSession, Idle
<1> QED BY <1>1, BaseInit
        DEF SessionInv, GensBehind, LoginsOfActive, InactiveUsersClosed,
            StaleSessionsExplained

LEMMA SessionStep == SessionInv /\ [Next]_vars => SessionInv'
<1> SUFFICES ASSUME SessionInv, [Next]_vars PROVE SessionInv'
  OBVIOUS
<1>1. Base'
  BY BaseStep DEF SessionInv
<1>2. CASE UNCHANGED vars
  BY <1>1, <1>2
     DEF vars, SessionInv, GensBehind, LoginsOfActive, InactiveUsersClosed,
         StaleSessionsExplained, WillClose, get_user
<1>3. ASSUME NEW r \in Requests, Dropped(r) PROVE SessionInv'
  BY <1>1, <1>3, SessionFinish DEF Dropped
<1>4. CASE Next
  BY <1>1, <1>3, <1>4, SessionLogin, SessionMiddleware, SessionManageUsers,
     SessionComplete, SessionManageOwn, SessionAbort, SessionEnd DEF Next
<1> QED BY <1>2, <1>4

LEMMA SessionAlways == Spec => []SessionInv
BY SessionInit, SessionStep, PTL DEF Spec

\* Whatever the interleaving of logins, password changes, deactivations,
\* creations and crashes: a session that outlives the credentials it was opened
\* under is about to be closed, was opened by a login that had read the older
\* ones, or is alive because the statement to close it was lost.
THEOREM StaleSessionsSafe == Spec => []StaleSessionsExplained
<1>1. SessionInv => StaleSessionsExplained
  BY DEF SessionInv
<1> QED BY <1>1, SessionAlways, PTL

\* A deactivated user has no session that a reactivation would revive, with the
\* same exceptions (api_users_update, api_users_delete).
THEOREM InactiveUsersSafe == Spec => []InactiveUsersClosed
<1>1. SessionInv => InactiveUsersClosed
  BY DEF SessionInv
<1> QED BY <1>1, SessionAlways, PTL

-----------------------------------------------------------------------------
(* The API tokens                                                          *)
(*                                                                         *)
(* TokenInv is inductive; it adds to StaleTokensExplained that the tokens  *)
(* of inactive users are explained too, and that a browser's request which *)
(* has read the current generation of the tokens is an active user's.      *)

\* A browser's request that has read the current generation of the tokens
\* belongs to an active user, once rbac_middleware has seen an active row.
CallersActive ==
  \A r \in Requests :
    req[r].jti # None /\ req[r].pc \in {"session", "run"} =>
      /\ req[r].tgen <= users[req[r].user].tgen
      /\ req[r].pc = "run" /\ req[r].tgen = users[req[r].user].tgen =>
           get_user(req[r].user)

\* As InactiveUsersClosed, for tokens.
InactiveTokensClosed ==
  \A t \in TokenIds :
    tokens[t].st = "live" /\ ~get_user(tokens[t].user) =>
      \/ tokens[t].excused
      \/ \E r \in Requests : WillWipe(r, tokens[t].user)

TokenInv == /\ Base /\ CallersActive
            /\ InactiveTokensClosed /\ StaleTokensExplained

-----------------------------------------------------------------------------

USE AccountsAssumption

\* A step that writes no token but to revoke it, starts no generation of them
\* and deactivates nobody, by a request that still revokes whatever it had to.
LEMMA TokenQuiet ==
  ASSUME TokenInv, Base', NEW r \in Requests, NEW q \in Request, Goto(r, q),
         \A u \in Users : users'[u].tgen = users[u].tgen,
         \A u \in Users : get_user(u) => get_user(u)',
         \A t \in TokenIds : tokens'[t] = tokens[t] \/ tokens'[t].st = "dead",
         req[r].pc \in {"sessions", "tokens"} /\ req[r].wipe =>
           q.pc = "tokens" /\ q.target = req[r].target,
         q.jti # None /\ q.pc \in {"session", "run"} =>
           /\ q.tgen <= users'[q.user].tgen
           /\ q.pc = "run" /\ q.tgen = users'[q.user].tgen =>
                users'[q.user].row /\ users'[q.user].active
  PROVE  TokenInv'
<1>1. /\ req'[r] = q
      /\ \A x \in Requests \ {r} : req'[x] = req[x]
  BY GotoFacts DEF TokenInv, Base
<1>2. ASSUME NEW x \in Requests, req'[x].jti # None,
             req'[x].pc \in {"session", "run"}
      PROVE  /\ req'[x].tgen <= users'[req'[x].user].tgen
             /\ req'[x].pc = "run" /\ req'[x].tgen = users'[req'[x].user].tgen =>
                  users'[req'[x].user].row /\ users'[req'[x].user].active
  <2>1. CASE x = r
    BY <1>1, <1>2, <2>1
  <2>2. CASE x # r
    <3>1. req'[x] = req[x] /\ req[x].user \in Users
      BY <1>1, <1>2, <2>2 DEF TokenInv, Base, KnowsUser
    <3> QED BY <1>2, <3>1 DEF TokenInv, CallersActive, get_user
  <2> QED BY <2>1, <2>2
<1>3. CallersActive'
  BY <1>2 DEF CallersActive, get_user
<1>4. req'[r].pc = "tokens" => req'[r].wipe
  BY DEF Base, KnowsUser
<1>5. \A x \in Requests, u \in Users : WillWipe(x, u) => WillWipe(x, u)'
  BY <1>1, <1>4 DEF WillWipe
<1>6. \A t \in TokenIds : tokens'[t].st = "live" =>
        /\ tokens[t].st = "live" /\ tokens'[t] = tokens[t]
        /\ tokens[t].user \in Users
  BY DEF TokenInv, Base, HaveUsers
<1>7. InactiveTokensClosed'
  BY <1>5, <1>6 DEF TokenInv, InactiveTokensClosed
<1>8. StaleTokensExplained'
  BY <1>5, <1>6 DEF TokenInv, StaleTokensExplained
<1> QED BY <1>3, <1>7, <1>8 DEF TokenInv

LEMMA TokenFinish ==
  ASSUME TokenInv, Base', NEW r \in Requests, Finish(r),
         \A u \in Users : users'[u].tgen = users[u].tgen,
         \A u \in Users : get_user(u) => get_user(u)',
         \A t \in TokenIds : tokens'[t] = tokens[t] \/ tokens'[t].st = "dead",
         ~(req[r].pc \in {"sessions", "tokens"} /\ req[r].wipe)
  PROVE  TokenInv'
<1>1. Idle.pc = "idle"
  BY DEF Idle
<1> QED BY <1>1, IdleType, TokenQuiet DEF Finish

\* The same when the tables of users and tokens are left alone.
LEMMA TokenMove ==
  ASSUME TokenInv, Base', NEW r \in Requests, NEW q \in Request, Goto(r, q),
         UNCHANGED <<users, tokens>>,
         req[r].pc \in {"sessions", "tokens"} /\ req[r].wipe =>
           q.pc = "tokens" /\ q.target = req[r].target,
         q.jti # None /\ q.pc \in {"session", "run"} =>
           /\ q.tgen <= users[q.user].tgen
           /\ q.pc = "run" /\ q.tgen = users[q.user].tgen => get_user(q.user)
  PROVE  TokenInv'
<1>1. /\ \A u \in Users : users'[u].tgen = users[u].tgen
      /\ \A u \in Users : get_user(u) => get_user(u)'
  BY DEF get_user
<1>2. users'[q.user] = users[q.user]
  OBVIOUS
<1> QED BY <1>1, <1>2, TokenQuiet DEF get_user

LEMMA TokenStop ==
  ASSUME TokenInv, Base', NEW r \in Requests, Finish(r),
         UNCHANGED <<users, tokens>>,
         ~(req[r].pc \in {"sessions", "tokens"} /\ req[r].wipe)
  PROVE  TokenInv'
<1>1. Idle.pc = "idle"
  BY DEF Idle
<1> QED BY <1>1, IdleType, TokenMove DEF Finish

LEMMA TokenLogin ==
  ASSUME TokenInv, Base', NEW r \in Requests, Login(r) PROVE TokenInv'
<1>r. req[r] \in Request
  BY DEF TokenInv, Base, TypeOK
<1>1. ASSUME NEW u \in Users, LoginCheck(r, u) PROVE TokenInv'
  <2> DEFINE q == [Idle EXCEPT !.pc = "checked", !.user = u, !.gen = users[u].gen]
  <2>1. q \in Request /\ q.pc = "checked"
    BY IdleType DEF Idle, Request, Pcs, TokenInv, Base, TypeOK, UserRow
  <2>2. Goto(r, q) /\ UNCHANGED <<users, tokens>> /\ req[r].pc = "idle"
    BY <1>1 DEF LoginCheck
  <2> HIDE DEF q
  <2> QED BY <2>1, <2>2, TokenMove
<1>2. ASSUME NEW pc \in {"ticket", "start"},
             req[r].pc \in {"checked", "ticket"},
             Goto(r, [req[r] EXCEPT !.pc = pc]),
             UNCHANGED <<users, sessions, tokens>>
      PROVE  TokenInv'
  <2> DEFINE q == [req[r] EXCEPT !.pc = pc]
  <2>1. q \in Request /\ q.pc = pc
    BY <1>r DEF Request, Pcs
  <2>2. Goto(r, q)
    BY <1>2
  <2> HIDE DEF q
  <2> QED BY <1>2, <2>1, <2>2, TokenMove
<1>3. CASE LoginReadUser(r)
  BY <1>2, <1>3 DEF LoginReadUser
<1>4. CASE LoginCode(r)
  BY <1>2, <1>4 DEF LoginCode
<1>5. CASE TicketExpires(r)
  BY <1>5, TokenStop DEF TicketExpires
<1>6. ASSUME NEW j \in Jtis, StartSession(r, j) PROVE TokenInv'
  BY <1>6, TokenStop DEF StartSession
<1> QED BY <1>1, <1>3, <1>4, <1>5, <1>6 DEF Login

LEMMA TokenMiddleware ==
  ASSUME TokenInv, Base', NEW r \in Requests, Middleware(r) PROVE TokenInv'
<1>r. /\ req[r] \in Request /\ users \in [Users -> UserRow]
      /\ tokens \in [TokenIds -> ApiToken]
  BY DEF TokenInv, Base, TypeOK
<1>1. ASSUME NEW j \in Jtis, BrowserRequest(r, j) PROVE TokenInv'
  <2> DEFINE u == sessions[j].user
             q == [Idle EXCEPT !.pc = "session", !.user = u, !.jti = j,
                               !.role = "admin", !.tgen = users[u].tgen]
  <2>1. u \in Users
    BY <1>1 DEF BrowserRequest, TokenInv, Base, HaveUsers
  <2>2. /\ q \in Request /\ q.pc = "session" /\ q.user = u
        /\ q.tgen = users[u].tgen
    BY <1>r, <2>1, IdleType DEF Idle, Request, Pcs, UserRow, Roles
  <2>3. Goto(r, q) /\ UNCHANGED <<users, tokens>> /\ req[r].pc = "idle"
    BY <1>1 DEF BrowserRequest
  <2>4. users[u].tgen <= users[u].tgen
    BY <1>r, <2>1 DEF UserRow, Gens
  <2> HIDE DEF q
  <2> QED BY <2>2, <2>3, <2>4, TokenMove
<1>2. ASSUME NEW t \in TokenIds, TokenRequest(r, t) PROVE TokenInv'
  <2> DEFINE q == [Idle EXCEPT !.pc = "session", !.user = tokens[t].user,
                               !.role = tokens[t].role]
  <2>1. tokens[t].user \in Users
    BY <1>2 DEF TokenRequest, TokenInv, Base, HaveUsers
  <2>2. q \in Request /\ q.pc = "session" /\ q.jti = None
    BY <1>r, <2>1, IdleType DEF Idle, Request, Pcs, ApiToken
  <2>3. Goto(r, q) /\ UNCHANGED <<users, tokens>> /\ req[r].pc = "idle"
    BY <1>2 DEF TokenRequest
  <2> HIDE DEF q
  <2> QED BY <2>2, <2>3, TokenMove
<1>3. CASE PlatformRequest(r)
  <2> DEFINE q == [Idle EXCEPT !.pc = "run", !.user = Platform, !.role = "admin"]
  <2>1. q \in Request /\ q.pc = "run" /\ q.jti = None
    BY IdleType DEF Idle, Request, Pcs, Roles
  <2>2. Goto(r, q) /\ UNCHANGED <<users, tokens>> /\ req[r].pc = "idle"
    BY <1>3 DEF PlatformRequest
  <2> HIDE DEF q
  <2> QED BY <2>1, <2>2, TokenMove
<1>4. CASE Authorize(r)
  <2> DEFINE role == cap_role(users[req[r].user].role, req[r].role)
             q == [req[r] EXCEPT !.pc = "run", !.role = role]
  <2>1. req[r].user \in Users
    BY <1>4 DEF Authorize, TokenInv, Base, KnowsUser
  <2>2. role \in Roles
    BY <1>r, <2>1, CapType DEF Request, UserRow
  <2>3. /\ Goto(r, q) /\ UNCHANGED <<users, tokens>>
        /\ req[r].pc = "session" /\ get_user(req[r].user)
    BY <1>4 DEF Authorize
  <2> HIDE DEF role
  <2>4. /\ q \in Request /\ q.pc = "run" /\ q.user = req[r].user
        /\ q.jti = req[r].jti /\ q.tgen = req[r].tgen
    BY <1>r, <2>2 DEF Request, Pcs
  <2>5. q.jti # None => q.tgen <= users[q.user].tgen
    BY <2>3, <2>4 DEF TokenInv, CallersActive
  <2> HIDE DEF q
  <2> QED BY <2>3, <2>4, <2>5, TokenMove
<1>5. CASE Answer(r)
  BY <1>5, TokenStop DEF Answer
<1> QED BY <1>1, <1>2, <1>3, <1>4, <1>5 DEF Middleware

LEMMA TokenManageUsers ==
  ASSUME TokenInv, Base', NEW r \in Requests, ManageUsers(r) PROVE TokenInv'
<1>r. req[r] \in Request
  BY DEF TokenInv, Base, TypeOK
<1>g. \A u \in Users : users[u].tgen \in Nat
  BY DEF TokenInv, Base, TypeOK, UserRow, Gens
<1>h. \A x \in Requests : req[x].tgen \in Nat
  BY DEF TokenInv, Base, TypeOK, Request, Gens
<1>1. ASSUME NEW u \in Users, NEW role \in Granted \cup {users[u].role},
             NEW active \in {"on", "off", "keep"}, NEW password \in BOOLEAN,
             UpdateUser(r, u, role, active, password)
      PROVE  TokenInv'
  <2> DEFINE closes == password \/ active = "off"
  <2>1. role \in Roles
    BY DEF TokenInv, Base, TypeOK, UserRow
  <2>2. /\ users'[u].row
        /\ users'[u].active =
             (active = "on" \/ (active = "keep" /\ users[u].active))
        /\ closes => users'[u].tgen = users[u].tgen + 1
        /\ ~closes => users'[u].tgen = users[u].tgen
        /\ \A v \in Users \ {u} : users'[v] = users[v]
    BY <1>1, <2>1, UpdateUserRow DEF TokenInv, Base
  <2>3. UNCHANGED tokens /\ req[r].pc = "run" /\ users[u].row
    BY <1>1 DEF UpdateUser, MayManageUsers
  <2>4. CASE closes
    <3>1. ThenRevoke(r, u)
      BY <1>1, <2>4 DEF UpdateUser
    <3>2. /\ req'[r].pc = "sessions" /\ req'[r].target = u /\ req'[r].wipe
          /\ \A x \in Requests \ {r} : req'[x] = req[x]
      BY <3>1, ThenRevokeFacts DEF TokenInv
    <3>3. CallersActive'
      BY <1>g, <1>h, <2>2, <2>4, <3>2
         DEF TokenInv, CallersActive, get_user, Base, KnowsUser
    <3>4. /\ WillWipe(r, u)'
          /\ \A x \in Requests, v \in Users : WillWipe(x, v) => WillWipe(x, v)'
      BY <2>3, <3>2 DEF WillWipe
    <3>5. InactiveTokensClosed'
      BY <2>2, <2>3, <3>4
         DEF TokenInv, InactiveTokensClosed, get_user, Base, HaveUsers
    <3>6. StaleTokensExplained'
      BY <2>2, <2>3, <3>4 DEF TokenInv, StaleTokensExplained, Base, HaveUsers
    <3> QED BY <3>3, <3>5, <3>6 DEF TokenInv
  <2>5. CASE ~closes
    <3>1. /\ \A v \in Users : users'[v].tgen = users[v].tgen
          /\ \A v \in Users : get_user(v) => get_user(v)'
      BY <2>2, <2>3, <2>5 DEF get_user
    <3>2. Finish(r)
      BY <1>1, <2>5 DEF UpdateUser
    <3> QED BY <2>3, <3>1, <3>2, TokenFinish
  <2> QED BY <2>4, <2>5
<1>2. ASSUME NEW u \in Users, NEW role \in Granted, CreateCheck(r, u, role)
      PROVE  TokenInv'
  <2> DEFINE q == [Idle EXCEPT !.pc = "create", !.target = u, !.role = role]
  <2>1. q \in Request /\ q.pc = "create"
    BY IdleType DEF Idle, Request, Pcs
  <2>2. Goto(r, q) /\ UNCHANGED <<users, tokens>> /\ req[r].pc = "run"
    BY <1>2 DEF CreateCheck, MayManageUsers
  <2> HIDE DEF q
  <2> QED BY <2>1, <2>2, TokenMove
<1>3. ASSUME NEW u \in Users, RevokeSessionsOf(r, u) PROVE TokenInv'
  <2> DEFINE q == [Idle EXCEPT !.pc = "sessions", !.target = u,
                               !.jti = req[r].jti, !.wipe = TRUE]
  <2>1. q \in Request /\ q.pc = "sessions"
    BY <1>r, IdleType DEF Idle, Request, Pcs
  <2>2. Goto(r, q) /\ UNCHANGED <<users, tokens>> /\ req[r].pc = "run"
    BY <1>3 DEF RevokeSessionsOf, MayManageUsers
  <2> HIDE DEF q
  <2> QED BY <2>1, <2>2, TokenMove
<1> QED BY <1>1, <1>2, <1>3 DEF ManageUsers

LEMMA TokenComplete ==
  ASSUME TokenInv, Base', NEW r \in Requests, Complete(r) PROVE TokenInv'
<1>g. /\ \A u \in Users : users[u].tgen \in Nat
      /\ \A x \in Requests : req[x] \in Request /\ req[x].tgen \in Nat
  BY DEF TokenInv, Base, TypeOK, UserRow, Request, Gens
<1>1. CASE CreateWrite(r)
  <2> DEFINE u == req[r].target
  <2>1. /\ u \in Users
        /\ users'[u].row /\ users'[u].active
        /\ users[u].row => users'[u].tgen = users[u].tgen + 1
        /\ ~users[u].row => users'[u].tgen = users[u].tgen
        /\ \A v \in Users \ {u} : users'[v] = users[v]
    BY <1>1, CreateWriteRow DEF TokenInv
  <2>2. /\ Finish(r) /\ req[r].pc = "create"
        /\ ~(users[u].row /\ users[u].active) => UNCHANGED tokens
        /\ users[u].row /\ users[u].active => SpareTokens(u)
    BY <1>1 DEF CreateWrite
  <2>3. /\ req'[r].pc = "idle"
        /\ \A x \in Requests \ {r} : req'[x] = req[x]
    BY <2>2, GotoFacts, IdleType DEF Finish, Idle, TokenInv, Base
  <2>4. CASE ~users[u].row
    <3>1. \A v \in Users : get_user(v) => get_user(v)'
      BY <2>1, <2>4 DEF get_user
    <3> QED BY <2>1, <2>2, <2>4, <3>1, TokenFinish DEF TokenInv
  <2>5. CASE users[u].row
    <3>1. /\ \A t \in TokenIds : /\ tokens'[t].st = tokens[t].st
                                 /\ tokens'[t].user = tokens[t].user
                                 /\ tokens'[t].tgen = tokens[t].tgen
                                 /\ tokens[t].excused => tokens'[t].excused
          /\ users[u].active =>
               \A t \in TokenIds : t \in TokensOf(u) => tokens'[t].excused
      BY <2>2, <2>5, SpareTokensType DEF TokenInv
    <3>2. CallersActive'
      BY <1>g, <2>1, <2>3, <2>5
         DEF TokenInv, CallersActive, get_user, Base, KnowsUser
    <3>3. \A x \in Requests, v \in Users : WillWipe(x, v) => WillWipe(x, v)'
      BY <2>2, <2>3 DEF WillWipe
    <3>4. InactiveTokensClosed'
      BY <2>1, <3>1, <3>3
         DEF TokenInv, InactiveTokensClosed, Base, HaveUsers, get_user
    <3>5. StaleTokensExplained'
      BY <2>1, <3>1, <3>3
         DEF TokenInv, StaleTokensExplained, InactiveTokensClosed, Base,
             HaveUsers, get_user, TokensOf
    <3> QED BY <3>2, <3>4, <3>5 DEF TokenInv
  <2> QED BY <2>4, <2>5
<1>2. CASE RevokeSessions(r)
  <2> DEFINE q == [Idle EXCEPT !.pc = "tokens", !.target = req[r].target,
                               !.wipe = TRUE]
  <2>1. req[r].target \in Users /\ UNCHANGED <<users, tokens>>
    BY <1>2 DEF RevokeSessions, TokenInv, Base, KnowsUser
  <2>2. q \in Request /\ q.pc = "tokens" /\ q.target = req[r].target
    BY <2>1, IdleType DEF Idle, Request, Pcs
  <2>3. IF req[r].wipe THEN Goto(r, q) ELSE Finish(r)
    BY <1>2 DEF RevokeSessions
  <2> HIDE DEF q
  <2> QED BY <2>1, <2>2, <2>3, TokenMove, TokenStop
<1>3. CASE RevokeTokens(r)
  <2> DEFINE u == req[r].target
  <2>1. /\ u \in Users /\ UNCHANGED users /\ Finish(r)
        /\ revoke_user_api_tokens(u)
    BY <1>3 DEF RevokeTokens, TokenInv, Base, KnowsUser
  <2>2. /\ req'[r].pc = "idle"
        /\ \A x \in Requests \ {r} : req'[x] = req[x]
    BY <2>1, GotoFacts, IdleType DEF Finish, Idle, TokenInv, Base
  <2>3. CallersActive'
    BY <2>1, <2>2 DEF TokenInv, CallersActive, get_user
  <2>4. \A t \in TokenIds : tokens'[t].st = "live" =>
          tokens[t] = tokens'[t] /\ tokens[t].user \in Users \ {u}
    BY <2>1
       DEF revoke_user_api_tokens, TokensOf, NoToken, TokenInv, Base, HaveUsers
  <2>5. \A x \in Requests, v \in Users \ {u} : WillWipe(x, v) => WillWipe(x, v)'
    BY <2>2 DEF WillWipe
  <2>6. InactiveTokensClosed'
    BY <2>1, <2>4, <2>5 DEF TokenInv, InactiveTokensClosed, get_user
  <2>7. StaleTokensExplained'
    BY <2>1, <2>4, <2>5 DEF TokenInv, StaleTokensExplained
  <2> QED BY <2>3, <2>6, <2>7 DEF TokenInv
<1> QED BY <1>1, <1>2, <1>3 DEF Complete

LEMMA TokenManageOwn ==
  ASSUME TokenInv, Base', NEW r \in Requests, ManageOwn(r) PROVE TokenInv'
<1>r. req[r] \in Request /\ tokens \in [TokenIds -> ApiToken]
  BY DEF TokenInv, Base, TypeOK
<1>1. CASE PasswordCheck(r)
  <2> DEFINE q == [Idle EXCEPT !.pc = "setpw", !.user = req[r].user,
                               !.jti = req[r].jti]
  <2>1. q \in Request /\ q.pc = "setpw"
    BY <1>r, IdleType DEF Idle, Request, Pcs
  <2>2. Goto(r, q) /\ UNCHANGED <<users, tokens>> /\ req[r].pc = "run"
    BY <1>1 DEF PasswordCheck, OwnAccount
  <2> HIDE DEF q
  <2> QED BY <2>1, <2>2, TokenMove
<1>2. CASE PasswordWrite(r)
  <2> DEFINE u == req[r].user
             q == [Idle EXCEPT !.pc = "sessions", !.target = u,
                               !.jti = req[r].jti, !.gen = users[u].gen + 1]
  <2>1. /\ u \in Users /\ users[u].gen + 1 \in Gens
        /\ \A v \in Users : users'[v].tgen = users[v].tgen
        /\ \A v \in Users : get_user(v) => get_user(v)'
    BY <1>2, PasswordWriteRow DEF TokenInv, get_user
  <2>2. q \in Request /\ q.pc = "sessions"
    BY <1>r, <2>1, IdleType DEF Idle, Request, Pcs
  <2>3. Goto(r, q) /\ UNCHANGED tokens /\ req[r].pc = "setpw"
    BY <1>2 DEF PasswordWrite
  <2> HIDE DEF q
  <2> QED BY <2>1, <2>2, <2>3, TokenQuiet
<1>3. ASSUME NEW j \in Jtis, RevokeOwnSession(r, j) PROVE TokenInv'
  BY <1>3, TokenStop DEF RevokeOwnSession, OwnAccount
<1>4. CASE RevokeOthers(r)
  BY <1>4, TokenStop DEF RevokeOthers, OwnAccount
<1>5. ASSUME NEW t \in TokenIds, NEW role \in Granted, CreateToken(r, t, role)
      PROVE  TokenInv'
  <2> DEFINE u == req[r].user
  <2>1. /\ u \in Users /\ UNCHANGED users /\ Finish(r)
        /\ req[r].pc = "run" /\ req[r].jti # None
    BY <1>5 DEF CreateToken, OwnAccount, TokenInv, Base, KnowsUser
  <2>2. /\ tokens'[t].user = u /\ tokens'[t].tgen = req[r].tgen
        /\ tokens'[t].excused = (req[r].tgen # users[u].tgen)
        /\ \A i \in TokenIds \ {t} : tokens'[i] = tokens[i]
    BY <1>r, <1>5 DEF CreateToken
  <2>3. /\ req'[r].pc = "idle"
        /\ \A x \in Requests \ {r} : req'[x] = req[x]
    BY <2>1, GotoFacts, IdleType DEF Finish, Idle, TokenInv, Base
  <2>4. req[r].tgen = users[u].tgen => get_user(u)
    BY <2>1 DEF TokenInv, CallersActive
  <2>5. CallersActive'
    BY <2>1, <2>3 DEF TokenInv, CallersActive, get_user
  <2>6. \A x \in Requests, v \in Users : WillWipe(x, v) => WillWipe(x, v)'
    BY <2>1, <2>3 DEF WillWipe
  <2>7. InactiveTokensClosed'
    BY <2>1, <2>2, <2>4, <2>6
       DEF TokenInv, InactiveTokensClosed, get_user, Base, HaveUsers
  <2>8. StaleTokensExplained'
    BY <2>1, <2>2, <2>6 DEF TokenInv, StaleTokensExplained, Base, HaveUsers
  <2> QED BY <2>5, <2>7, <2>8 DEF TokenInv
<1>6. ASSUME NEW t \in TokenIds, RevokeOwnToken(r, t) PROVE TokenInv'
  <2>1. \A i \in TokenIds : tokens'[i] = tokens[i] \/ tokens'[i].st = "dead"
    BY <1>r, <1>6 DEF RevokeOwnToken, NoToken
  <2>2. UNCHANGED users /\ Finish(r) /\ req[r].pc = "run"
    BY <1>6 DEF RevokeOwnToken, OwnAccount
  <2>3. \A u \in Users : get_user(u) => get_user(u)'
    BY <2>2 DEF get_user
  <2> QED BY <2>1, <2>2, <2>3, TokenFinish
<1> QED BY <1>1, <1>2, <1>3, <1>4, <1>5, <1>6 DEF ManageOwn

LEMMA TokenAbort ==
  ASSUME TokenInv, Base', NEW r \in Requests, Abort(r) PROVE TokenInv'
<1> DEFINE wipes == req[r].pc \in {"sessions", "tokens"} /\ req[r].wipe
<1>1. CASE ~wipes
  BY <1>1, TokenStop DEF Abort
<1>2. CASE wipes
  <2> DEFINE u == req[r].target
  <2>1. /\ u \in Users /\ UNCHANGED users /\ Finish(r) /\ SpareTokens(u)
    BY <1>2 DEF Abort, TokenInv, Base, KnowsUser
  <2>2. \A t \in TokenIds : /\ tokens'[t].st = tokens[t].st
                            /\ tokens'[t].user = tokens[t].user
                            /\ tokens'[t].tgen = tokens[t].tgen
                            /\ tokens[t].excused => tokens'[t].excused
                            /\ t \in TokensOf(u) => tokens'[t].excused
    BY <2>1, SpareTokensType DEF TokenInv
  <2>3. /\ req'[r].pc = "idle"
        /\ \A x \in Requests \ {r} : req'[x] = req[x]
    BY <2>1, GotoFacts, IdleType DEF Finish, Idle, TokenInv, Base
  <2>4. CallersActive'
    BY <2>1, <2>3 DEF TokenInv, CallersActive, get_user
  <2>5. \A x \in Requests, v \in Users \ {u} : WillWipe(x, v) => WillWipe(x, v)'
    BY <2>1, <2>3 DEF WillWipe
  <2>6. InactiveTokensClosed'
    BY <2>1, <2>2, <2>5
       DEF TokenInv, InactiveTokensClosed, get_user, TokensOf, Base, HaveUsers
  <2>7. StaleTokensExplained'
    BY <2>1, <2>2, <2>5
       DEF TokenInv, StaleTokensExplained, TokensOf, Base, HaveUsers
  <2> QED BY <2>4, <2>6, <2>7 DEF TokenInv
<1> QED BY <1>1, <1>2

LEMMA TokenInit == Init => TokenInv
<1> SUFFICES ASSUME Init PROVE TokenInv
  OBVIOUS
<1>1. /\ \A t \in TokenIds : tokens[t].st = "free"
      /\ \A r \in Requests : req[r].pc = "idle"
  BY DEF Init, NoToken, Idle
<1> QED BY <1>1, BaseInit
        DEF TokenInv, CallersActive, InactiveTokensClosed, StaleTokensExplained

LEMMA TokenStep == TokenInv /\ [Next]_vars => TokenInv'
<1> SUFFICES ASSUME TokenInv, [Next]_vars PROVE TokenInv'
  OBVIOUS
<1>1. Base'
  BY BaseStep DEF TokenInv
<1>2. ASSUME UNCHANGED <<users, tokens, req>> PROVE TokenInv'
  BY <1>1, <1>2
     DEF TokenInv, CallersActive, InactiveTokensClosed, StaleTokensExplained,
         WillWipe, get_user
<1>3. ASSUME NEW r \in Requests, Dropped(r) PROVE TokenInv'
  BY <1>1, <1>3, TokenStop DEF Dropped
<1>4. ASSUME NEW j \in Jtis, EndSession(j) PROVE TokenInv'
  BY <1>2, <1>4 DEF EndSession
<1>5. CASE UNCHANGED vars
  BY <1>2, <1>5 DEF vars
<1>6. CASE Next
  BY <1>1, <1>3, <1>4, <1>6, TokenLogin, TokenMiddleware, TokenManageUsers,
     TokenComplete, TokenManageOwn, TokenAbort DEF Next
<1> QED BY <1>5, <1>6

\* Whatever the interleaving: an API token that outlives a reset of its user's
\* password or a deactivation is about to be revoked, was created by a request
\* authorised before it, or is alive because the statement was lost.
THEOREM StaleTokensSafe == Spec => []StaleTokensExplained
<1>1. TokenInv => StaleTokensExplained
  BY DEF TokenInv
<1> QED BY <1>1, TokenInit, TokenStep, PTL DEF Spec

=============================================================================
