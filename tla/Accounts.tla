------------------------------ MODULE Accounts ------------------------------
(***************************************************************************)
(* The accounts of one organisation: user rows, browser sessions and API   *)
(* tokens of its database, and the requests that read and write them.      *)
(*                                                                         *)
(* The superadmin of config.yaml may look at the organisation too; no user *)
(* of it has the superadmin's name.                                        *)
(*                                                                         *)
(* The server is one asyncio event loop.  A handler runs alone between two *)
(* awaits and every database statement is atomic, so an action below is    *)
(* what happens up to and including one statement that matters; what the   *)
(* handler still has to do is in req[r].                                   *)
(*                                                                         *)
(* gen and tgen number the credentials of a user.  gen stands for the      *)
(* salted password_hash (every write stores a new one) and also counts     *)
(* deactivations; tgen counts the changes after which the code revokes the *)
(* API tokens as well.  A session (token) remembers the number it was      *)
(* opened under; nothing in the code reads either.                         *)
(***************************************************************************)
EXTENDS Integers

CONSTANTS
  Users,       \* user names of the organisation
  Founders,    \* users with an admin row when the server starts
  Jtis,        \* session ids, drawn at random by the code: never drawn twice
  TokenIds,    \* API token ids, likewise
  Requests,    \* requests being handled at the same time
  Granted,     \* roles that admins hand out and users ask for in a token
  Platform,    \* the superadmin of config.yaml, looking at this organisation
  None,        \* no session id
  MaxGen,      \* bound: credential changes per user
  Faults       \* may a request die between two statements?

Roles == {"viewer", "operator", "admin"}

ASSUME AccountsAssumption ==
  /\ Founders \subseteq Users
  /\ Granted \subseteq Roles
  /\ Platform \notin Users
  /\ None \notin Users /\ None \notin Jtis
  /\ MaxGen \in Nat
  /\ Faults \in BOOLEAN

VARIABLES
  users,       \* table users
  sessions,    \* table sessions
  tokens,      \* table api_tokens
  req          \* what each request has read and still has to do

vars == <<users, sessions, tokens, req>>

-----------------------------------------------------------------------------
(* Rows *)

Gens == 0 .. MaxGen

UserRow  == [row: BOOLEAN, active: BOOLEAN, role: Roles, gen: Gens, tgen: Gens]

\* excused is history only: the row was written by a request that had read an
\* older generation, or was alive when the statement to close it was lost.
Session  == [st: {"free", "live", "dead"}, user: Users \cup {None}, gen: Gens,
             excused: BOOLEAN]
ApiToken == [st: {"free", "live", "dead"}, user: Users \cup {None}, role: Roles,
             tgen: Gens, excused: BOOLEAN]

\* A row not yet written, or revoked: nothing in the code reads it again.
NoSession(st) == [st |-> st, user |-> None, gen |-> 0, excused |-> FALSE]
NoToken(st)   == [st |-> st, user |-> None, role |-> "viewer", tgen |-> 0,
                  excused |-> FALSE]

Pcs == {"idle", "checked", "ticket", "start", "session", "run", "create",
        "setpw", "sessions", "tokens"}

\* jti: the session a browser's request came with, None for API tokens and
\* for Platform.  wipe: revoke the tokens too.
Request == [pc: Pcs, user: Users \cup {Platform, None},
            jti: Jtis \cup {None}, role: Roles, gen: Gens, tgen: Gens,
            target: Users \cup {None}, wipe: BOOLEAN]

Idle == [pc |-> "idle", user |-> None, jti |-> None, role |-> "viewer",
         gen |-> 0, tgen |-> 0, target |-> None, wipe |-> FALSE]

TypeOK ==
  /\ users \in [Users -> UserRow]
  /\ sessions \in [Jtis -> Session]
  /\ tokens \in [TokenIds -> ApiToken]
  /\ req \in [Requests -> Request]

Init ==
  /\ users = [u \in Users |->
       [row |-> u \in Founders, active |-> u \in Founders,
        role |-> IF u \in Founders THEN "admin" ELSE "viewer",
        gen |-> 0, tgen |-> 0]]
  /\ sessions = [j \in Jtis |-> NoSession("free")]
  /\ tokens = [t \in TokenIds |-> NoToken("free")]
  /\ req = [r \in Requests |-> Idle]

-----------------------------------------------------------------------------
(* Helpers: statements of the database layer and the role order *)

Rank == [viewer |-> 0, operator |-> 1, admin |-> 2]

\* The role of a request made with a token never exceeds the user's own.
cap_role(role, tokenRole) ==
  IF Rank[tokenRole] < Rank[role] THEN tokenRole ELSE role

\* SELECT * FROM users WHERE username = u AND active = 1 finds a row.
get_user(u) == users[u].row /\ users[u].active

SessionsOf(u) == {j \in Jtis : sessions[j].st = "live" /\ sessions[j].user = u}
TokensOf(u)   == {t \in TokenIds : tokens[t].st = "live" /\ tokens[t].user = u}

\* UPDATE sessions SET revoked=1 WHERE username=u AND revoked=0 AND jti<>keep.
\* The session that is kept belongs to whoever wrote generation g.
revoke_user_sessions(u, keep, g) ==
  sessions' = [j \in Jtis |->
    IF j \notin SessionsOf(u) THEN sessions[j]
    ELSE IF j # keep THEN NoSession("dead")
    ELSE IF g > sessions[j].gen THEN [sessions[j] EXCEPT !.gen = g]
    ELSE sessions[j]]

revoke_user_api_tokens(u) ==
  tokens' = [t \in TokenIds |->
    IF t \in TokensOf(u) THEN NoToken("dead") ELSE tokens[t]]

\* History only: the sessions of u that a lost statement leaves alive.
SpareSessions(u) ==
  sessions' = [j \in Jtis |->
    IF j \in SessionsOf(u) THEN [sessions[j] EXCEPT !.excused = TRUE]
    ELSE sessions[j]]
SpareTokens(u) ==
  tokens' = [t \in TokenIds |->
    IF t \in TokensOf(u) THEN [tokens[t] EXCEPT !.excused = TRUE]
    ELSE tokens[t]]

Goto(r, next) == req' = [req EXCEPT ![r] = next]
Finish(r) == Goto(r, Idle)

-----------------------------------------------------------------------------
(* Logging in *)

\* verify_credentials: the row is read and its password verified.
LoginCheck(r, u) ==
  /\ req[r].pc = "idle"
  /\ get_user(u)
  /\ Goto(r, [Idle EXCEPT !.pc = "checked", !.user = u, !.gen = users[u].gen])
  /\ UNCHANGED <<users, sessions, tokens>>

\* The row is read again, for the 2FA flag (module TwoFactor; either value
\* here): with 2FA the browser gets a pending-login cookie instead of a
\* session.  No row, the user deactivated in between, is taken for "no 2FA".
LoginReadUser(r) ==
  LET u == req[r].user IN
  /\ req[r].pc = "checked"
  /\ \/ get_user(u) /\ Goto(r, [req[r] EXCEPT !.pc = "ticket"])
     \/ Goto(r, [req[r] EXCEPT !.pc = "start"])
  /\ UNCHANGED <<users, sessions, tokens>>

\* Second step: the cookie comes back with a code.  TOTPManager.verify accepts
\* a right code, and any code when 2FA is off or the row is inactive; after a
\* wrong code the cookie can be tried again.  The password is not looked at.
LoginCode(r) ==
  /\ req[r].pc = "ticket"
  /\ Goto(r, [req[r] EXCEPT !.pc = "start"])
  /\ UNCHANGED <<users, sessions, tokens>>

\* The cookie is valid for five minutes.
TicketExpires(r) ==
  /\ req[r].pc = "ticket"
  /\ Finish(r)
  /\ UNCHANGED <<users, sessions, tokens>>

\* _start_session: a session with a new id for the user of the login.
StartSession(r, j) ==
  LET u == req[r].user IN
  /\ req[r].pc = "start"
  /\ sessions[j].st = "free"
  /\ sessions' = [sessions EXCEPT ![j] =
       [st |-> "live", user |-> u, gen |-> req[r].gen,
        excused |-> req[r].gen # users[u].gen]]
  /\ Finish(r)
  /\ UNCHANGED <<users, tokens>>

\* Logout, or the end of the session's eight hours.
EndSession(j) ==
  /\ sessions[j].st = "live"
  /\ sessions' = [sessions EXCEPT ![j] = NoSession("dead")]
  /\ UNCHANGED <<users, tokens, req>>

-----------------------------------------------------------------------------
(* Every other request: who is it, and may it? *)

\* auth_middleware and the first half of rbac_middleware: the session is alive.
BrowserRequest(r, j) ==
  LET u == sessions[j].user IN
  /\ req[r].pc = "idle"
  /\ sessions[j].st = "live"
  /\ Goto(r, [Idle EXCEPT !.pc = "session", !.user = u, !.jti = j,
                          !.role = "admin", !.tgen = users[u].tgen])
  /\ UNCHANGED <<users, sessions, tokens>>

\* _verify_api_token: the token is alive; its role caps the request.
TokenRequest(r, t) ==
  LET u == tokens[t].user IN
  /\ req[r].pc = "idle"
  /\ tokens[t].st = "live"
  /\ Goto(r, [Idle EXCEPT !.pc = "session", !.user = u,
                          !.role = tokens[t].role])
  /\ UNCHANGED <<users, sessions, tokens>>

\* The superadmin's session lives in another database and its role is fixed.
PlatformRequest(r) ==
  /\ req[r].pc = "idle"
  /\ Goto(r, [Idle EXCEPT !.pc = "run", !.user = Platform,
                          !.role = "admin"])
  /\ UNCHANGED <<users, sessions, tokens>>

\* The second half of rbac_middleware: an active row gives the role.
Authorize(r) ==
  LET u == req[r].user IN
  /\ req[r].pc = "session"
  /\ get_user(u)
  /\ Goto(r, [req[r] EXCEPT !.pc = "run",
                            !.role = cap_role(users[u].role, @)])
  /\ UNCHANGED <<users, sessions, tokens>>

\* Any answer that writes nothing: 401, 403, 404, a read, a wrong password.
Answer(r) ==
  /\ req[r].pc \in {"session", "run"}
  /\ Finish(r)
  /\ UNCHANGED <<users, sessions, tokens>>

MayManageUsers(r) == req[r].pc = "run" /\ req[r].role = "admin"
OwnAccount(r)     == req[r].pc = "run" /\ req[r].jti # None

-----------------------------------------------------------------------------
(* Managing users *)

\* What follows a change that must close the sessions and tokens of u.
ThenRevoke(r, u) ==
  Goto(r, [Idle EXCEPT !.pc = "sessions", !.target = u, !.wipe = TRUE])

\* Mutants: a new password closes nothing; a deactivation closes nothing; the
\* guard on one's own account is missing.
UpdateUser_password_closes_nothing(r, u, role, active, password) ==
  /\ MayManageUsers(r) /\ users[u].row
  /\ u = req[r].user => active # "off" /\ role \in {"admin", users[u].role}
  /\ password => users[u].gen < MaxGen /\ users[u].tgen < MaxGen
  /\ users' = [users EXCEPT
       ![u].role = role, ![u].active = active = "on" \/ (active = "keep" /\ @),
       ![u].gen = IF password THEN @ + 1 ELSE @,
       ![u].tgen = IF password THEN @ + 1 ELSE @]
  /\ IF active = "off" THEN ThenRevoke(r, u) ELSE Finish(r)
  /\ UNCHANGED <<sessions, tokens>>

UpdateUser_off_closes_nothing(r, u, role, active, password) ==
  /\ MayManageUsers(r) /\ users[u].row
  /\ u = req[r].user => active # "off" /\ role \in {"admin", users[u].role}
  /\ password => users[u].gen < MaxGen /\ users[u].tgen < MaxGen
  /\ users' = [users EXCEPT
       ![u].role = role, ![u].active = active = "on" \/ (active = "keep" /\ @),
       ![u].gen = IF password THEN @ + 1 ELSE @,
       ![u].tgen = IF password THEN @ + 1 ELSE @]
  /\ IF password THEN ThenRevoke(r, u) ELSE Finish(r)
  /\ UNCHANGED <<sessions, tokens>>

UpdateUser_no_guard(r, u, role, active, password) ==
  /\ MayManageUsers(r) /\ users[u].row
  /\ active # "off" /\ ~password
  /\ users' = [users EXCEPT ![u].role = role]
  /\ Finish(r)
  /\ UNCHANGED <<sessions, tokens>>

\* PATCH /api/users/u with a role (or none: the role it has), active = true
\* ("on"), false ("off") or absent ("keep"), and perhaps a password; DELETE
\* /api/users/u does what "off" alone does.  Nobody takes the admin role or
\* the account from itself.  A new password and "off" are followed by two
\* more statements that revoke the sessions and the tokens.
UpdateUser(r, u, role, active, password) ==
  LET closes == password \/ active = "off"
      bump == IF closes THEN 1 ELSE 0
  IN
  /\ MayManageUsers(r)
  /\ users[u].row
  /\ u = req[r].user => active # "off" /\ role \in {"admin", users[u].role}
  /\ users[u].gen + bump \in Gens /\ users[u].tgen + bump \in Gens
  /\ users' = [users EXCEPT ![u] =
       [row |-> TRUE, role |-> role,
        active |-> active = "on" \/ (active = "keep" /\ users[u].active),
        gen |-> users[u].gen + bump, tgen |-> users[u].tgen + bump]]
  /\ IF closes THEN ThenRevoke(r, u) ELSE Finish(r)
  /\ UNCHANGED <<sessions, tokens>>

\* DELETE /api/users/u/sessions keeps the caller's own session.
RevokeSessionsOf(r, u) ==
  /\ MayManageUsers(r)
  /\ users[u].row
  /\ Goto(r, [Idle EXCEPT !.pc = "sessions", !.target = u, !.jti = req[r].jti,
                          !.wipe = TRUE])
  /\ UNCHANGED <<users, sessions, tokens>>

\* POST /api/users: the name must not be that of an active user ...
CreateCheck(r, u, role) ==
  /\ MayManageUsers(r)
  /\ ~get_user(u)
  /\ Goto(r, [Idle EXCEPT !.pc = "create", !.target = u, !.role = role])
  /\ UNCHANGED <<users, sessions, tokens>>

\* ... and the row is inserted, or, when the name is in the table by now,
\* overwritten: password, role, active.  2FA stays as it was and nothing is
\* revoked.
CreateWrite(r) ==
  LET u == req[r].target IN
  /\ req[r].pc = "create"
  /\ \/ /\ ~users[u].row
        /\ users' = [users EXCEPT ![u] =
             [row |-> TRUE, active |-> TRUE, role |-> req[r].role,
              gen |-> users[u].gen, tgen |-> users[u].tgen]]
        /\ UNCHANGED <<sessions, tokens>>
     \/ /\ users[u].row
        /\ users[u].gen < MaxGen /\ users[u].tgen < MaxGen
        /\ users' = [users EXCEPT ![u] =
             [row |-> TRUE, active |-> TRUE, role |-> req[r].role,
              gen |-> users[u].gen + 1, tgen |-> users[u].tgen + 1]]
        /\ IF users[u].active THEN SpareSessions(u) /\ SpareTokens(u)
                              ELSE UNCHANGED <<sessions, tokens>>
  /\ Finish(r)

-----------------------------------------------------------------------------
(* The second and third statement of the handlers that revoke *)

\* Mutant: the handler returns after the sessions.
RevokeSessions_not_tokens(r) ==
  /\ req[r].pc = "sessions"
  /\ revoke_user_sessions(req[r].target, req[r].jti, req[r].gen)
  /\ Finish(r)
  /\ UNCHANGED <<users, tokens>>

RevokeSessions(r) ==
  /\ req[r].pc = "sessions"
  /\ revoke_user_sessions(req[r].target, req[r].jti, req[r].gen)
  /\ IF req[r].wipe
       THEN Goto(r, [Idle EXCEPT !.pc = "tokens", !.target = req[r].target,
                                 !.wipe = TRUE])
       ELSE Finish(r)
  /\ UNCHANGED <<users, tokens>>

RevokeTokens(r) ==
  /\ req[r].pc = "tokens"
  /\ revoke_user_api_tokens(req[r].target)
  /\ Finish(r)
  /\ UNCHANGED <<users, sessions>>

-----------------------------------------------------------------------------
(* The own account: browser sessions only *)

\* POST /api/me/password: the current password is verified ...
PasswordCheck(r) ==
  LET u == req[r].user IN
  /\ OwnAccount(r)
  /\ get_user(u)
  /\ Goto(r, [Idle EXCEPT !.pc = "setpw", !.user = u, !.jti = req[r].jti])
  /\ UNCHANGED <<users, sessions, tokens>>

\* ... the new one stored, and then the other sessions closed (not the tokens).
PasswordWrite(r) ==
  LET u == req[r].user IN
  /\ req[r].pc = "setpw"
  /\ users[u].gen < MaxGen
  /\ users' = [users EXCEPT ![u].gen = @ + 1]
  /\ Goto(r, [Idle EXCEPT !.pc = "sessions", !.target = u, !.jti = req[r].jti,
                          !.gen = users[u].gen + 1])
  /\ UNCHANGED <<sessions, tokens>>

\* DELETE /api/sessions/id: one of one's own live sessions.
RevokeOwnSession(r, j) ==
  /\ OwnAccount(r)
  /\ j \in SessionsOf(req[r].user)
  /\ sessions' = [sessions EXCEPT ![j] = NoSession("dead")]
  /\ Finish(r)
  /\ UNCHANGED <<users, tokens>>

\* POST /api/sessions/revoke-others.
RevokeOthers(r) ==
  /\ OwnAccount(r)
  /\ revoke_user_sessions(req[r].user, req[r].jti, 0)
  /\ Finish(r)
  /\ UNCHANGED <<users, tokens>>

\* POST /api/tokens: a role that does not exceed the one the request runs with.
CreateToken(r, t, role) ==
  LET u == req[r].user IN
  /\ OwnAccount(r)
  /\ cap_role(req[r].role, role) = role
  /\ tokens[t].st = "free"
  /\ tokens' = [tokens EXCEPT ![t] =
       [st |-> "live", user |-> u, role |-> role, tgen |-> req[r].tgen,
        excused |-> req[r].tgen # users[u].tgen]]
  /\ Finish(r)
  /\ UNCHANGED <<users, sessions>>

\* DELETE /api/tokens/id.
RevokeOwnToken(r, t) ==
  /\ OwnAccount(r)
  /\ t \in TokensOf(req[r].user)
  /\ tokens' = [tokens EXCEPT ![t] = NoToken("dead")]
  /\ Finish(r)
  /\ UNCHANGED <<users, sessions>>

-----------------------------------------------------------------------------
(* A request dies: the process is killed, or a statement raises.           *)

Abort(r) ==
  LET u == req[r].target IN
  /\ Faults
  /\ req[r].pc \in {"checked", "start", "create", "setpw", "sessions", "tokens"}
  /\ IF req[r].pc = "sessions" THEN SpareSessions(u) ELSE UNCHANGED sessions
  /\ IF req[r].pc \in {"sessions", "tokens"} /\ req[r].wipe
       THEN SpareTokens(u) ELSE UNCHANGED tokens
  /\ Finish(r)
  /\ UNCHANGED users

\* Bounds: a request for which the model has no session id or generation left.
Dropped(r) ==
  /\ \/ req[r].pc = "start" /\ \A j \in Jtis : sessions[j].st # "free"
     \/ req[r].pc = "create" /\ users[req[r].target].row
          /\ MaxGen \in {users[req[r].target].gen, users[req[r].target].tgen}
     \/ req[r].pc = "setpw" /\ users[req[r].user].gen = MaxGen
  /\ Finish(r)
  /\ UNCHANGED <<users, sessions, tokens>>

-----------------------------------------------------------------------------

Login(r) ==
  \/ \E u \in Users : LoginCheck(r, u)
  \/ LoginReadUser(r)
  \/ LoginCode(r)
  \/ TicketExpires(r)
  \/ \E j \in Jtis : StartSession(r, j)

Middleware(r) ==
  \/ \E j \in Jtis : BrowserRequest(r, j)
  \/ \E t \in TokenIds : TokenRequest(r, t)
  \/ PlatformRequest(r)
  \/ Authorize(r)
  \/ Answer(r)

ManageUsers(r) ==
  \E u \in Users :
    \/ \E role \in Granted \cup {users[u].role},
          active \in {"on", "off", "keep"}, password \in BOOLEAN :
         UpdateUser(r, u, role, active, password)
    \/ \E role \in Granted : CreateCheck(r, u, role)
    \/ RevokeSessionsOf(r, u)

\* The statements a handler still has to run once it has begun to write.
Complete(r) == CreateWrite(r) \/ RevokeSessions(r) \/ RevokeTokens(r)

ManageOwn(r) ==
  \/ PasswordCheck(r)
  \/ PasswordWrite(r)
  \/ \E j \in Jtis : RevokeOwnSession(r, j)
  \/ RevokeOthers(r)
  \/ \E t \in TokenIds, role \in Granted : CreateToken(r, t, role)
  \/ \E t \in TokenIds : RevokeOwnToken(r, t)

Next ==
  \/ \E r \in Requests :
       Login(r) \/ Middleware(r) \/ ManageUsers(r) \/ Complete(r)
         \/ ManageOwn(r) \/ Abort(r) \/ Dropped(r)
  \/ \E j \in Jtis : EndSession(j)

Spec == Init /\ [][Next]_vars

-----------------------------------------------------------------------------
(* Properties *)

\* r still has to run the statement that closes session j of user u (or, for
\* the session it keeps, to vouch for it with the generation it wrote).
WillClose(r, u, j) ==
  /\ req[r].pc = "sessions" /\ req[r].target = u
  /\ req[r].jti = j => req[r].gen = users[u].gen

WillWipe(r, u) ==
  req[r].pc \in {"sessions", "tokens"} /\ req[r].wipe /\ req[r].target = u

\* A session opened under credentials that are no longer the user's is on its
\* way out, unless its login had read them before they changed (api_users_update,
\* api_me_password against login_post), or the statement that closes it was lost.
StaleSessionsExplained ==
  \A j \in Jtis :
    sessions[j].st = "live" /\ sessions[j].gen # users[sessions[j].user].gen =>
      \/ sessions[j].excused
      \/ \E r \in Requests : WillClose(r, sessions[j].user, j)

\* The same for API tokens: the only live token older than the user's last
\* reset or deactivation is one whose request was authorised before it.
StaleTokensExplained ==
  \A t \in TokenIds :
    tokens[t].st = "live" /\ tokens[t].tgen # users[tokens[t].user].tgen =>
      \/ tokens[t].excused
      \/ \E r \in Requests : WillWipe(r, tokens[t].user)

\* A deactivated user has no session that reactivation would bring back to
\* life, with the same two exceptions.
InactiveUsersClosed ==
  \A j \in Jtis :
    sessions[j].st = "live" /\ ~get_user(sessions[j].user) =>
      \/ sessions[j].excused
      \/ \E r \in Requests : req[r].jti # j /\ WillClose(r, sessions[j].user, j)

ActiveAdmins == {u \in Users : get_user(u) /\ users[u].role = "admin"}

\* The organisation loses its last active admin only through the superadmin,
\* through an admin that was itself no longer one when it acted (its role had
\* been read before), or through a creation that overwrites a row.
AdminsRemain ==
  [][ActiveAdmins # {} /\ ActiveAdmins' = {} =>
       \E r \in Requests :
         /\ req'[r] # req[r]
         /\ \/ req[r].user = Platform
            \/ req[r].pc = "run" /\ req[r].user \notin ActiveAdmins
            \/ req[r].pc = "create"]_vars

=============================================================================
