------------------------------ MODULE Accounts ------------------------------
(***************************************************************************)
(* Accounts and sessions: the handlers of the domains auth and user, and   *)
(* the middleware that the calls of administrators pass.  Each statement   *)
(* on the tables users and sessions is a step; no handler uses a           *)
(* transaction.                                                            *)
(***************************************************************************)
EXTENDS UserRows, Naturals, FiniteSets

CONSTANTS Tokens,     \* tokens that generateToken may draw; none comes twice
          Procs,      \* handler goroutines
          Admin,      \* the administrator who is there at the start; bound: stays one
          Domains,    \* bound: the operations that are called
          Profiles1,  \* bound: the profiles that administrators ask for
          Roles1,     \* bound: the roles that they ask for
          Faults      \* bound: do statements fail?

Ops == {"register", "login", "logout", "create", "update", "updateRole", "delete"}

ASSUME AccountsAssumption ==
  /\ Admin \in Ids /\ Emails # {}
  /\ {"admin", "user", "guru"} \subseteq ValidRoles
  /\ Domains \subseteq Ops
  /\ Profiles1 \subseteq Profiles /\ Roles1 \subseteq ValidRoles
  /\ Faults \in BOOLEAN
  /\ None \notin Tokens

VARIABLES
  users,    \* the table users
  sessions, \* the table sessions: the user of a token, or None
  spent,    \* tokens that were drawn
  expired,  \* tokens whose 72 hours are over
  call      \* what each handler is doing

vars == <<users, sessions, spent, expired, call>>

\* auth: before ByToken; role: before the ByID of the role check; lookup: before
\* ByEmail; read: before ByID; then before each INSERT, UPDATE and DELETE.
Places == {"idle", "auth", "role", "lookup", "read", "insertUser", "insertSession",
           "write", "writeRole", "deleteUser", "deleteSessions"}

\* The statuses of the answers; 0 while there is none.
Codes == {0, 200, 201, 204, 401, 403, 409, 422, 500}

Calls == [pc : Places, op : Ops, token : Tokens \cup {None},
          caller : Ids \cup {None},  \* whom the token or the password stands for
          user : Ids \cup {None},    \* whose row is asked for, or was inserted
          row : Rows,                \* the row to be written
          code : Codes]

NoCall == [pc |-> "idle", op |-> "login", token |-> None, caller |-> None, user |-> None,
           row |-> NoRow, code |-> 0]

\* Every variable has its type; no account is without email and role, and only
\* drawn tokens stand for anyone, for accounts that were once there.
TypeOK ==
  /\ users \in [Ids -> Rows]
  /\ sessions \in [Tokens -> Ids \cup {None}]
  /\ spent \subseteq Tokens /\ expired \subseteq spent
  /\ call \in [Procs -> Calls]
  /\ \A i \in LiveIds(users) : None \notin {users[i].email, users[i].role}
  /\ \A t \in Tokens : sessions[t] # None =>
       t \in spent /\ users[sessions[t]].status # "unborn"

Init ==
  /\ users = [i \in Ids |-> IF i = Admin THEN NewRow(CHOOSE e \in Emails : TRUE, "admin", NoProfile)
                            ELSE NoRow]
  /\ sessions = [t \in Tokens |-> None]
  /\ spent = {} /\ expired = {}
  /\ call = [p \in Procs |-> NoCall]
-----------------------------------------------------------------------------
(* Calls arrive.                                                           *)

Answer(p, code) == call' = [call EXCEPT ![p] = [NoCall EXCEPT !.op = call[p].op,
                                                              !.code = code]]

Goto(p, pc) == call' = [call EXCEPT ![p].pc = pc]

Enter(p, c) ==
  /\ c.op \in Domains
  /\ call[p].pc = "idle"
  /\ call' = [call EXCEPT ![p] = c]
  /\ UNCHANGED <<users, sessions, spent, expired>>

\* The bounds leave an id and a token to each call in flight that will want one.
Spare(ops, pool) ==
  Cardinality({q \in Procs : call[q].pc # "idle" /\ call[q].op \in ops}) < Cardinality(pool)

SpareId    == Spare({"register", "create"}, {i \in Ids : users[i].status = "unborn"})
SpareToken == Spare({"register", "login"}, Tokens \ spent)

ArriveRegister(p, email) ==
  /\ SpareId /\ SpareToken
  /\ Enter(p, [NoCall EXCEPT !.op = "register", !.pc = "lookup",
                             !.row = NewRow(email, "user", NoProfile)])

\* The caller knows the password of the account i, and gives an email.
ArriveLogin(p, email, i) ==
  /\ SpareToken
  /\ users[i].status # "unborn"
  /\ Enter(p, [NoCall EXCEPT !.op = "login", !.pc = "lookup", !.caller = i,
                             !.row = NewRow(email, None, NoProfile)])

\* Tokens that were never drawn are those that nobody knows.
WithToken(op, t) == [NoCall EXCEPT !.op = op, !.pc = "auth", !.token = t]

ArriveLogout(p, t) == t \in spent /\ Enter(p, WithToken("logout", t))

ArriveCreate(p, t, row) ==
  /\ t \in spent /\ SpareId
  /\ Enter(p, [WithToken("create", t) EXCEPT !.row = row])

ArriveUpdate(p, t, i, profile) ==
  /\ t \in spent
  /\ Enter(p, [WithToken("update", t) EXCEPT !.user = i, !.row.profile = profile])

ArriveUpdateRole(p, t, i, role) ==
  /\ t \in spent /\ i # Admin
  /\ Enter(p, [WithToken("updateRole", t) EXCEPT !.user = i, !.row.role = role])

ArriveDelete(p, t, i) ==
  t \in spent /\ i # Admin /\ Enter(p, [WithToken("delete", t) EXCEPT !.user = i])
-----------------------------------------------------------------------------
(* Middleware.                                                             *)

\* SELECT ... WHERE token = $1 AND expires_at > NOW().
Valid(t) == sessions[t] # None /\ t \notin expired

Authenticate(p) ==
  LET c == call[p] IN
  /\ c.pc = "auth"
  /\ IF Valid(c.token)
     THEN call' = [call EXCEPT ![p].caller = sessions[c.token],
                               ![p].pc = IF c.op = "logout" THEN "deleteSessions" ELSE "role"]
     ELSE Answer(p, 401)
  /\ UNCHANGED <<users, sessions, spent, expired>>

\* What the handlers do before they read or write anything.
Start(op) == CASE op = "create" -> "lookup" [] op \in {"update", "updateRole"} -> "read"
               [] op = "delete" -> "deleteUser"

RequireRole(i) == users[i].status = "live" /\ users[i].role = "admin"

CheckRole(p) ==
  LET c == call[p] IN
  /\ c.pc = "role"
  /\ \/ users[c.caller].status # "live" /\ Answer(p, 500)
     \/ users[c.caller].status = "live" /\ ~RequireRole(c.caller) /\ Answer(p, 403)
     \/ RequireRole(c.caller) /\ IF c.op = "create" /\ ~validatePosition(c.row.profile.position, c.row.role)
                                 THEN Answer(p, 422)
                                 ELSE Goto(p, Start(c.op))
  /\ UNCHANGED <<users, sessions, spent, expired>>
-----------------------------------------------------------------------------
(* The handlers.                                                           *)

Taken(op) == IF op = "register" THEN 422 ELSE 409

\* ByEmail: register and create want no row, login wants the caller's.
Lookup(p) ==
  LET c == call[p] IN
  /\ c.pc = "lookup"
  /\ IF c.op = "login"
     THEN IF users[c.caller].status = "live" /\ users[c.caller].email = c.row.email
          THEN Goto(p, "insertSession")
          ELSE Answer(p, 401)
     ELSE IF EmailFree(users, c.row.email) THEN Goto(p, "insertUser") ELSE Answer(p, Taken(c.op))
  /\ UNCHANGED <<users, sessions, spent, expired>>

\* Slip: the migrations create no unique index.
Unchecked(i, row) == TRUE

\* UNIQUE (email) and the partial indexes.
Admissible(i, row) == EmailFree(users, row.email) /\ SeatFree(users, i, row.profile)

\* INSERT INTO users under a new id.
InsertUser(p, i) ==
  LET c == call[p] IN
  /\ c.pc = "insertUser"
  /\ users[i].status = "unborn"
  /\ IF Admissible(i, c.row)
     THEN /\ users' = [users EXCEPT ![i] = c.row]
          /\ IF c.op = "create"
             THEN Answer(p, 201)
             ELSE call' = [call EXCEPT ![p].pc = "insertSession", ![p].user = i]
     ELSE Answer(p, IF c.op = "register" THEN 422 ELSE 500) /\ UNCHANGED users
  /\ UNCHANGED <<sessions, spent, expired>>

\* Slip: sessions have no foreign key.
AnyUser(i) == i # None

References(i) == users[i].status = "live"

\* INSERT INTO sessions; the account may be gone by now.
InsertSession(p, t) ==
  LET c == call[p]
      i == IF c.op = "register" THEN c.user ELSE c.caller
  IN /\ c.pc = "insertSession"
     /\ t \notin spent
     /\ spent' = spent \cup {t}
     /\ IF References(i)
        THEN /\ sessions' = [sessions EXCEPT ![t] = i]
             /\ Answer(p, IF c.op = "register" THEN 201 ELSE 200)
        ELSE /\ Answer(p, IF c.op = "register" THEN 422 ELSE 401)
             /\ UNCHANGED sessions
     /\ UNCHANGED <<users, expired>>

\* Slip: only the token that was presented.
OnlyThis(i, t) == {t}

\* DELETE FROM sessions WHERE user_id = $1.
DeletedByLogout(i, t) == {u \in Tokens : sessions[u] = i}

Without(gone) == [t \in Tokens |-> IF t \in gone THEN None ELSE sessions[t]]

DeleteSessions(p) ==
  LET c == call[p] IN
  /\ c.pc = "deleteSessions"
  /\ sessions' = Without(DeletedByLogout(c.caller, c.token))
  /\ Answer(p, 204)
  /\ UNCHANGED <<users, spent, expired>>

\* ByID of Update and UpdateRole.  The row that Update writes is the one read
\* here with the new profile in it.
Read(p) ==
  LET c == call[p]
      u == users[c.user]
  IN /\ c.pc = "read"
     /\ \/ u.status # "live" /\ Answer(p, IF c.op = "update" THEN 500 ELSE 422)
        \/ u.status = "live" /\ c.op = "update" /\
             IF validatePosition(c.row.profile.position, u.role)
             THEN call' = [call EXCEPT ![p].pc = "write",
                                       ![p].row = [u EXCEPT !.profile = c.row.profile]]
             ELSE Answer(p, 500)
        \/ u.status = "live" /\ c.op = "updateRole" /\ Goto(p, "writeRole")
     /\ UNCHANGED <<users, sessions, spent, expired>>

\* Slip: the UPDATE sets the role, too.
WholeRow(i, row) == row

\* Slip: Update fills a new row with what was asked for, which has no email.
EmailForgotten(i, row) == [users[i] EXCEPT !.email = None, !.profile = row.profile]

\* UPDATE users SET email, class, jurusan, position; the role stays.
Updated(i, row) == [users[i] EXCEPT !.email = row.email, !.profile = row.profile]

\* That the row may be gone is no error.
Write(p) ==
  LET c == call[p] IN
  /\ c.pc = "write"
  /\ \/ /\ users[c.user].status = "live"
        /\ SeatFree(users, c.user, c.row.profile)
        /\ users' = [users EXCEPT ![c.user] = Updated(c.user, c.row)]
        /\ Answer(p, 200)
     \/ /\ users[c.user].status = "live"
        /\ ~SeatFree(users, c.user, c.row.profile)
        /\ Answer(p, 500) /\ UNCHANGED users
     \/ users[c.user].status # "live" /\ Answer(p, 200) /\ UNCHANGED users
  /\ UNCHANGED <<sessions, spent, expired>>

WriteRole(p) ==
  LET c == call[p] IN
  /\ c.pc = "writeRole"
  /\ users' = IF users[c.user].status = "live"
              THEN [users EXCEPT ![c.user].role = c.row.role]
              ELSE users
  /\ Answer(p, 200)
  /\ UNCHANGED <<sessions, spent, expired>>

\* Slip: sessions outlive their user.
NoCascade(i) == {}

\* sessions.user_id ... ON DELETE CASCADE.
Cascade(i) == {t \in Tokens : sessions[t] = i}

\* DELETE FROM users; that the row may be gone is no error.
DeleteUser(p) ==
  LET c == call[p] IN
  /\ c.pc = "deleteUser"
  /\ users' = IF users[c.user].status = "live" THEN [users EXCEPT ![c.user] = DeletedRow]
              ELSE users
  /\ sessions' = Without(Cascade(c.user))
  /\ Answer(p, 204)
  /\ UNCHANGED <<spent, expired>>

\* How a handler answers an error of the database.
Failed(op) == CASE op = "register" -> 422 [] op = "login" -> 401 [] op = "updateRole" -> 422
                [] OTHER -> 500

\* A statement fails.
Fail(p) ==
  LET c == call[p] IN
  /\ Faults
  /\ c.pc # "idle"
  /\ Answer(p, IF c.pc = "auth" THEN 401 ELSE IF c.pc = "role" THEN 500 ELSE Failed(c.op))
  /\ UNCHANGED <<users, sessions, spent, expired>>

Expire(t) ==
  /\ t \in spent \ expired
  /\ expired' = expired \cup {t}
  /\ UNCHANGED <<users, sessions, spent, call>>
-----------------------------------------------------------------------------
Arrive(p) ==
  \/ \E email \in Emails : \/ ArriveRegister(p, email)
                           \/ \E i \in Ids : ArriveLogin(p, email, i)
  \/ \E t \in Tokens :
       \/ ArriveLogout(p, t)
       \/ \E email \in Emails, role \in Roles1, profile \in Profiles1 :
            ArriveCreate(p, t, NewRow(email, role, profile))
       \/ \E i \in Ids :
            \/ \E profile \in Profiles1 : ArriveUpdate(p, t, i, profile)
            \/ \E role \in Roles1 : ArriveUpdateRole(p, t, i, role)
            \/ ArriveDelete(p, t, i)

Handle(p) ==
  \/ Authenticate(p) \/ CheckRole(p) \/ Lookup(p) \/ Read(p)
  \/ \E i \in Ids : InsertUser(p, i)
  \/ \E t \in Tokens : InsertSession(p, t)
  \/ Write(p) \/ WriteRole(p) \/ DeleteUser(p) \/ DeleteSessions(p)
  \/ Fail(p)

Next == \/ \E p \in Procs : Arrive(p) \/ Handle(p)
        \/ \E t \in Tokens : Expire(t)

Spec == Init /\ [][Next]_vars

-----------------------------------------------------------------------------
(* Properties.                                                             *)

\* "Email must be unique" (auth.md), and so must the seats that approvals go to
\* (migration 004), although register, create and update look first and write
\* later.
UniqueAccounts ==
  \A i, j \in LiveIds(users) : i # j =>
    users[i].email # users[j].email /\ ~SameSeat(users[i].profile, users[j].profile)

\* "Deleting a user cascades to their sessions" (user.md): no token stands for an
\* account that is gone, not even that of a login that had passed its check.
SessionsHaveUsers ==
  \A t \in Tokens : sessions[t] # None => users[sessions[t]].status = "live"

\* "Logout invalidates all sessions for the user" (auth.md), and neither they nor
\* expired ones are ever accepted again.
KeepsSessionsEnded ==
  /\ \A p \in Procs, t \in Tokens :
       (call[p].pc = "deleteSessions" /\ call'[p].code = 204) => sessions'[t] # call[p].caller
  /\ \A t \in spent : ~Valid(t) => ~Valid(t)'

EndedSessionsStayEnded == [][KeepsSessionsEnded]_vars

\* "Profile updates only modify name and avatar_url" (user.md), at least as far as
\* roles and emails go: no Update that read the row earlier undoes a change of role.
KeepsRoles ==
  \A i \in LiveIds(users) \cap LiveIds(users') :
    /\ users'[i].email = users[i].email
    /\ users'[i].role # users[i].role =>
         \E p \in Procs : /\ call[p].pc = "writeRole" /\ call[p].user = i
                         /\ call[p].row.role = users'[i].role

RolesSurviveEdits == [][KeepsRoles]_vars
=============================================================================
