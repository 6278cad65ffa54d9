--------------------------- MODULE AccountsProofs ---------------------------
(***************************************************************************)
(* Proofs about accounts and sessions, for every number of accounts,       *)
(* tokens and handlers.  Handlers look first and write later, so what they *)
(* looked at may have changed: the unique indexes and foreign keys keep    *)
(* the tables right at each statement, and what a handler still relies on  *)
(* when it writes is in Sound (what its place says of its call) and        *)
(* ReadsHold (what it read and nobody changes).                            *)
(***************************************************************************)
EXTENDS Accounts, TLAPS

\* What the place of a call says of it.
Sound(c) ==
  /\ c.pc = "auth" => c.token # None /\ c.op \in {"logout", "create", "update", "updateRole", "delete"}
  /\ c.pc = "role" => c.caller # None /\ c.op \in {"create", "update", "updateRole", "delete"}
  /\ c.pc = "lookup" => c.op \in {"register", "login", "create"}
  /\ c.pc = "insertUser" => c.op \in {"register", "create"}
  /\ c.pc = "insertSession" => c.op \in {"register", "login"} /\ (c.op = "register" => c.user # None)
  /\ c.pc = "deleteSessions" => c.caller # None
  /\ c.pc = "read" => c.op \in {"update", "updateRole"}
  /\ c.pc = "write" => c.op = "update" /\ c.row.email # None
  /\ c.pc = "writeRole" => c.op = "updateRole"
  /\ c.pc = "deleteUser" => c.op = "delete"
  /\ c.pc # "idle" =>
       /\ c.code = 0
       /\ c.op = "login" => c.caller # None
       /\ c.op \in {"update", "updateRole", "delete"} => c.user # None
       /\ c.op = "updateRole" => c.row.role # None
       /\ c.op \in {"register", "create"} =>
            c.row.status = "live" /\ c.row.email # None /\ c.row.role # None

\* The row that an Update read has kept its email, unless it was deleted.
ReadsHold(c) ==
  c.pc = "write" => /\ users[c.user].status # "unborn"
                    /\ users[c.user].status = "live" => users[c.user].email = c.row.email

CallsHold == \A p \in Procs : Sound(call[p]) /\ ReadsHold(call[p])

Inv == TypeOK /\ CallsHold /\ UniqueAccounts /\ SessionsHaveUsers
-----------------------------------------------------------------------------
\* A handler that is at rest is one.
LEMMA NoCallType ==
  NoCall \in Calls /\ Sound(NoCall) /\ NoCall.pc = "idle" /\ NoRow \in Rows
  BY AccountsAssumption
     DEF NoCall, Calls, Codes, Places, Ops, NoRow, Rows, Profiles, NoProfile, Sound

\* Rows that are asked for.
LEMMA NewRowType ==
  ASSUME NEW email \in Emails, NEW role \in ValidRoles \cup {None}, NEW profile \in Profiles
  PROVE  /\ NewRow(email, role, profile) \in Rows
         /\ NewRow(email, role, profile).status = "live"
         /\ NewRow(email, role, profile).email = email
         /\ NewRow(email, role, profile).role = role
         /\ NewRow(email, role, profile).profile = profile
  BY DEF NewRow, Rows

\* A profile that is empty.
LEMMA NoProfileType == NoProfile \in Profiles
  BY DEF NoProfile, Profiles

\* Two profiles claim a seat together.
LEMMA SameSeatSymmetric ==
  ASSUME NEW x \in Profiles, NEW y \in Profiles
  PROVE  SameSeat(x, y) <=> SameSeat(y, x)
  BY DEF SameSeat, Profiles

\* The invariant holds at the start, with the administrator alone.
LEMMA InvInit == Init => Inv
<1> SUFFICES ASSUME Init PROVE Inv
  OBVIOUS
<1> DEFINE e == CHOOSE e \in Emails : TRUE
<1>1. e \in Emails
  BY AccountsAssumption
<1> HIDE DEF e
<1>2. NewRow(e, "admin", NoProfile) \in Rows
  BY <1>1, NewRowType, NoProfileType, AccountsAssumption
<1>3. users = [i \in Ids |-> IF i = Admin THEN NewRow(e, "admin", NoProfile) ELSE NoRow]
  BY DEF Init, e
<1>4. \A i \in Ids : i # Admin => users[i].status = "unborn"
  BY <1>3 DEF NoRow
<1>5. users[Admin] = NewRow(e, "admin", NoProfile)
  BY <1>3, AccountsAssumption
<1>6. LiveIds(users) \subseteq {Admin}
  BY <1>4 DEF LiveIds
<1>7. TypeOK
  <2>1. users \in [Ids -> Rows]
    BY <1>2, <1>3, NoCallType
  <2>2. call \in [Procs -> Calls]
    BY NoCallType DEF Init
  <2>3. \A i \in LiveIds(users) : None \notin {users[i].email, users[i].role}
    BY <1>1, <1>5, <1>6, AccountsAssumption, UserRowsAssumption, NewRowType, NoProfileType DEF NewRow
  <2> QED
    BY <2>1, <2>2, <2>3 DEF TypeOK, Init
<1>8. CallsHold
  BY NoCallType DEF Init, CallsHold, ReadsHold
<1>9. UniqueAccounts
  BY <1>6 DEF UniqueAccounts
<1>10. SessionsHaveUsers
  BY DEF Init, SessionsHaveUsers
<1> QED
  BY <1>7, <1>8, <1>9, <1>10 DEF Inv
-----------------------------------------------------------------------------
(* What a statement may do to the table users.                             *)

Inserted(i) ==
  \E row \in Rows :
    /\ users[i].status = "unborn" /\ row.status = "live" /\ None \notin {row.email, row.role}
    /\ Admissible(i, row)
    /\ users' = [users EXCEPT ![i] = row]

ProfileChanged(i) ==
  \E profile \in Profiles :
    /\ users[i].status = "live" /\ SeatFree(users, i, profile)
    /\ users' = [users EXCEPT ![i] = [users[i] EXCEPT !.profile = profile]]

RoleChanged(i) ==
  \E role \in ValidRoles :
    /\ users[i].status = "live"
    /\ users' = [users EXCEPT ![i] = [users[i] EXCEPT !.role = role]]

Deleted(i) ==
  /\ users[i].status = "live"
  /\ users' = [users EXCEPT ![i] = DeletedRow]
  /\ sessions' = Without(Cascade(i))

RowsMove ==
  \/ UNCHANGED users
  \/ \E i \in Ids : Inserted(i) \/ ProfileChanged(i) \/ RoleChanged(i) \/ Deleted(i)

\* Accounts keep their email and never come back, and the table stays right.
RowsAreRight ==
  /\ users' \in [Ids -> Rows]
  /\ \A i \in Ids : users[i].status # "unborn" =>
       /\ users'[i].status # "unborn"
       /\ users'[i].status = "live" => users[i].status = "live" /\ users'[i].email = users[i].email
  /\ \A i \in LiveIds(users') : None \notin {users'[i].email, users'[i].role}
  /\ UniqueAccounts'

\* An account takes an email and a seat that are free, another id than its own.
LEMMA InsertedIsRight ==
  ASSUME TypeOK, UniqueAccounts, NEW i \in Ids, Inserted(i)
  PROVE  RowsAreRight
<1>1. PICK row \in Rows :
        /\ users[i].status = "unborn" /\ row.status = "live" /\ None \notin {row.email, row.role}
        /\ Admissible(i, row)
        /\ users' = [users EXCEPT ![i] = row]
  BY DEF Inserted
<1>2. users \in [Ids -> Rows]
  BY DEF TypeOK
<1>3. users'[i] = row /\ \A j \in Ids \ {i} : users'[j] = users[j]
  BY <1>1, <1>2
<1>4. LiveIds(users') = LiveIds(users) \cup {i}
  BY <1>1, <1>3 DEF LiveIds
<1>5. i \notin LiveIds(users)
  BY <1>1 DEF LiveIds
<1>6. \A j \in LiveIds(users) : /\ j \in Ids \ {i}
                                /\ users[j].email # row.email
                                /\ ~SameSeat(users[j].profile, row.profile)
                                /\ users[j].profile \in Profiles
  BY <1>1, <1>2, <1>5 DEF Admissible, EmailFree, SeatFree, LiveIds, Rows
<1>7. row.profile \in Profiles
  BY <1>1 DEF Rows
<1>8. \A j \in LiveIds(users) : ~SameSeat(row.profile, users[j].profile)
  BY <1>6, <1>7, SameSeatSymmetric
<1>9. UniqueAccounts'
  <2> SUFFICES ASSUME NEW j \in LiveIds(users'), NEW k \in LiveIds(users'), j # k
               PROVE  users'[j].email # users'[k].email
                        /\ ~SameSeat(users'[j].profile, users'[k].profile)
    BY DEF UniqueAccounts
  <2>1. CASE j = i
    BY <2>1, <1>3, <1>4, <1>6, <1>8
  <2>2. CASE k = i
    BY <2>2, <1>3, <1>4, <1>6
  <2>3. CASE j # i /\ k # i
    <3>1. j \in LiveIds(users) /\ k \in LiveIds(users) /\ j \in Ids \ {i} /\ k \in Ids \ {i}
      BY <2>3, <1>4 DEF LiveIds
    <3> QED
      BY <3>1, <1>3 DEF UniqueAccounts
  <2> QED
    BY <2>1, <2>2, <2>3
<1>10. \A j \in LiveIds(users') : None \notin {users'[j].email, users'[j].role}
  <2> SUFFICES ASSUME NEW j \in LiveIds(users')
               PROVE  None \notin {users'[j].email, users'[j].role}
    OBVIOUS
  <2>1. CASE j = i
    BY <2>1, <1>1, <1>3
  <2>2. CASE j # i
    BY <2>2, <1>3, <1>4, <1>6 DEF TypeOK
  <2> QED
    BY <2>1, <2>2
<1>11. users' \in [Ids -> Rows]
  BY <1>1, <1>2
<1> QED
  BY <1>1, <1>3, <1>9, <1>10, <1>11 DEF RowsAreRight

\* A profile takes a seat that nobody else has.
LEMMA ProfileChangedIsRight ==
  ASSUME TypeOK, UniqueAccounts, NEW i \in Ids, ProfileChanged(i)
  PROVE  RowsAreRight
<1>1. PICK profile \in Profiles :
        /\ users[i].status = "live" /\ SeatFree(users, i, profile)
        /\ users' = [users EXCEPT ![i] = [users[i] EXCEPT !.profile = profile]]
  BY DEF ProfileChanged
<1>2. users \in [Ids -> Rows]
  BY DEF TypeOK
<1>3. /\ users'[i].status = "live" /\ users'[i].email = users[i].email
      /\ users'[i].role = users[i].role /\ users'[i].profile = profile
      /\ users'[i] \in Rows
      /\ \A j \in Ids \ {i} : users'[j] = users[j]
  BY <1>1, <1>2 DEF Rows
<1>4. LiveIds(users') = LiveIds(users)
  BY <1>1, <1>3 DEF LiveIds
<1>5. \A j \in LiveIds(users) \ {i} : /\ ~SameSeat(users[j].profile, profile)
                                      /\ ~SameSeat(profile, users[j].profile)
  <2>1. \A j \in LiveIds(users) : users[j].profile \in Profiles
    BY <1>2 DEF LiveIds, Rows
  <2> QED
    BY <2>1, <1>1, SameSeatSymmetric DEF SeatFree
<1>6. UniqueAccounts'
  <2> SUFFICES ASSUME NEW j \in LiveIds(users), NEW k \in LiveIds(users), j # k
               PROVE  users'[j].email # users'[k].email
                        /\ ~SameSeat(users'[j].profile, users'[k].profile)
    BY <1>4 DEF UniqueAccounts
  <2>1. j \in Ids /\ k \in Ids
    BY DEF LiveIds
  <2>2. users'[j].email = users[j].email /\ users'[k].email = users[k].email
    BY <2>1, <1>3
  <2>3. users[j].email # users[k].email /\ ~SameSeat(users[j].profile, users[k].profile)
    BY DEF UniqueAccounts
  <2>4. ~SameSeat(users'[j].profile, users'[k].profile)
    BY <2>1, <2>3, <1>3, <1>5
  <2> QED
    BY <2>2, <2>3, <2>4
<1>7. \A j \in LiveIds(users') : None \notin {users'[j].email, users'[j].role}
  BY <1>3, <1>4 DEF TypeOK, LiveIds
<1>8. users' \in [Ids -> Rows]
  BY <1>1, <1>2, <1>3
<1> QED
  BY <1>1, <1>3, <1>6, <1>7, <1>8 DEF RowsAreRight

\* A change of role leaves email and seat.
LEMMA RoleChangedIsRight ==
  ASSUME TypeOK, UniqueAccounts, NEW i \in Ids, RoleChanged(i)
  PROVE  RowsAreRight
<1>1. PICK role \in ValidRoles :
        /\ users[i].status = "live"
        /\ users' = [users EXCEPT ![i] = [users[i] EXCEPT !.role = role]]
  BY DEF RoleChanged
<1>2. users \in [Ids -> Rows]
  BY DEF TypeOK
<1>3. /\ users'[i].status = "live" /\ users'[i].email = users[i].email
      /\ users'[i].role = role /\ users'[i].profile = users[i].profile
      /\ users'[i] \in Rows
      /\ \A j \in Ids \ {i} : users'[j] = users[j]
  BY <1>1, <1>2 DEF Rows
<1>4. LiveIds(users') = LiveIds(users)
  BY <1>1, <1>3 DEF LiveIds
<1>5. \A j \in LiveIds(users) : users'[j].email = users[j].email /\ users'[j].profile = users[j].profile
  BY <1>3 DEF LiveIds
<1>6. UniqueAccounts'
  BY <1>4, <1>5 DEF UniqueAccounts
<1>7. \A j \in LiveIds(users') : None \notin {users'[j].email, users'[j].role}
  BY <1>1, <1>3, <1>4, UserRowsAssumption DEF TypeOK, LiveIds
<1>8. users' \in [Ids -> Rows]
  BY <1>1, <1>2, <1>3
<1> QED
  BY <1>1, <1>3, <1>6, <1>7, <1>8 DEF RowsAreRight

\* A deletion takes an account from the others.
LEMMA DeletedIsRight ==
  ASSUME TypeOK, UniqueAccounts, NEW i \in Ids, Deleted(i)
  PROVE  RowsAreRight
<1>1. /\ users[i].status = "live"
      /\ users' = [users EXCEPT ![i] = DeletedRow]
  BY DEF Deleted
<1>2. users \in [Ids -> Rows]
  BY DEF TypeOK
<1>3. DeletedRow \in Rows /\ DeletedRow.status = "deleted"
  BY NoCallType DEF DeletedRow, NoRow, Rows
<1>4. users'[i] = DeletedRow /\ \A j \in Ids \ {i} : users'[j] = users[j]
  BY <1>1, <1>2
<1>5. LiveIds(users') = LiveIds(users) \ {i}
  BY <1>3, <1>4 DEF LiveIds
<1>6. \A j \in LiveIds(users') : j \in LiveIds(users) /\ users'[j] = users[j]
  BY <1>4, <1>5 DEF LiveIds
<1>7. UniqueAccounts'
  BY <1>6 DEF UniqueAccounts
<1>8. \A j \in LiveIds(users') : None \notin {users'[j].email, users'[j].role}
  BY <1>6 DEF TypeOK
<1>9. users' \in [Ids -> Rows]
  BY <1>1, <1>2, <1>3
<1> QED
  BY <1>1, <1>3, <1>4, <1>7, <1>8, <1>9 DEF RowsAreRight

\* So does every statement.
LEMMA RowsMoveRight ==
  ASSUME TypeOK, UniqueAccounts, RowsMove
  PROVE  RowsAreRight
<1>1. CASE UNCHANGED users
  <2>1. UniqueAccounts'
    BY <1>1 DEF UniqueAccounts
  <2> QED
    BY <1>1, <2>1 DEF TypeOK, RowsAreRight
<1>2. CASE \E i \in Ids : Inserted(i) \/ ProfileChanged(i) \/ RoleChanged(i) \/ Deleted(i)
  BY <1>2, InsertedIsRight, ProfileChangedIsRight, RoleChangedIsRight, DeletedIsRight
<1> QED
  BY <1>1, <1>2 DEF RowsMove
-----------------------------------------------------------------------------
(* What a step of a handler may do to its call and to the table sessions.  *)

Becomes(p, c) ==
  /\ call' = [call EXCEPT ![p] = c]
  /\ c \in Calls /\ Sound(c)
  /\ c.pc = "write" => users[c.user].status = "live" /\ users[c.user].email = c.row.email

Moves(p) == \E c \in Calls : Becomes(p, c)

\* Tokens are ended, or a new one comes to stand for an account that is there.
SessionsMove ==
  /\ spent' \subseteq Tokens /\ expired' = expired
  /\ \/ spent' = spent /\ \E gone \in SUBSET Tokens : sessions' = Without(gone)
     \/ /\ UNCHANGED users
        /\ \E t \in Tokens \ spent : /\ spent' = spent \cup {t}
                                     /\ \/ UNCHANGED sessions
                                        \/ \E i \in LiveIds(users) : sessions' = [sessions EXCEPT ![t] = i]

\* An answer ends a call.
LEMMA AnswerMoves ==
  ASSUME TypeOK, NEW p \in Procs, NEW code \in Codes, Answer(p, code)
  PROVE  Moves(p)
<1> DEFINE c == [NoCall EXCEPT !.op = call[p].op, !.code = code]
<1>1. call[p].op \in Ops
  BY DEF Calls, TypeOK
<1>2. c \in Calls
  BY <1>1, NoCallType DEF Calls
<1>3. c.pc = "idle"
  BY DEF NoCall
<1> HIDE DEF c
<1>4. Sound(c)
  BY <1>3 DEF Sound
<1> QED
  BY <1>2, <1>3, <1>4 DEF Answer, Moves, Becomes, c

\* Nothing is done to sessions.
LEMMA SessionsStay ==
  ASSUME TypeOK, UNCHANGED <<sessions, spent, expired>>
  PROVE  SessionsMove
<1>1. Without({}) = sessions
  BY DEF Without, TypeOK
<1> QED
  BY <1>1 DEF SessionsMove, TypeOK

Steps(p) == Moves(p) /\ RowsMove /\ SessionsMove

\* A call that comes in keeps its handler busy and nothing else.
LEMMA EnterSteps ==
  ASSUME Inv, NEW p \in Procs, NEW c \in Calls, Sound(c), c.pc # "write", Enter(p, c)
  PROVE  Steps(p)
<1>1. Moves(p)
  BY DEF Enter, Moves, Becomes
<1>2. RowsMove /\ SessionsMove
  BY SessionsStay DEF Enter, RowsMove, Inv
<1> QED
  BY <1>1, <1>2 DEF Steps

\* So does every call.
LEMMA ArriveSteps ==
  ASSUME Inv, NEW p \in Procs, Arrive(p)
  PROVE  Steps(p)
<1>1. ASSUME NEW email \in Emails, ArriveRegister(p, email)
      PROVE  Steps(p)
  <2> DEFINE row == NewRow(email, "user", NoProfile)
             c   == [NoCall EXCEPT !.op = "register", !.pc = "lookup", !.row = row]
  <2>1. row \in Rows /\ row.status = "live" /\ row.email = email /\ row.role = "user"
    BY NewRowType, NoProfileType, AccountsAssumption
  <2> HIDE DEF row
  <2>2. "lookup" \in Places /\ "register" \in Ops
    BY DEF Places, Ops
  <2>3. c \in Calls
    BY <2>1, <2>2, NoCallType DEF Calls
  <2>4. c.pc = "lookup" /\ c.op = "register" /\ c.row = row /\ c.code = 0
    BY DEF NoCall
  <2>5. Enter(p, c)
    BY <1>1 DEF ArriveRegister, row
  <2> HIDE DEF c
  <2>6. Sound(c)
    BY <2>1, <2>4, AccountsAssumption, UserRowsAssumption DEF Sound
  <2> QED
    BY EnterSteps, <2>3, <2>4, <2>5, <2>6
<1>2. ASSUME NEW email \in Emails, NEW i \in Ids, ArriveLogin(p, email, i)
      PROVE  Steps(p)
  <2> DEFINE row == NewRow(email, None, NoProfile)
             c   == [NoCall EXCEPT !.op = "login", !.pc = "lookup", !.caller = i, !.row = row]
  <2>1. row \in Rows
    BY NewRowType, NoProfileType
  <2> HIDE DEF row
  <2>2. "lookup" \in Places /\ "login" \in Ops
    BY DEF Places, Ops
  <2>3. c \in Calls
    BY <2>1, <2>2, NoCallType DEF Calls
  <2>4. c.pc = "lookup" /\ c.op = "login" /\ c.caller = i /\ c.row = row /\ c.code = 0
    BY DEF NoCall
  <2>5. Enter(p, c)
    BY <1>2 DEF ArriveLogin, row
  <2> HIDE DEF c
  <2>6. Sound(c)
    BY <2>1, <2>4, AccountsAssumption, UserRowsAssumption DEF Sound
  <2> QED
    BY EnterSteps, <2>3, <2>4, <2>5, <2>6
<1>3. ASSUME NEW t \in Tokens, ArriveLogout(p, t)
      PROVE  Steps(p)
  <2> DEFINE c == WithToken("logout", t)
  <2>1. "auth" \in Places /\ "logout" \in Ops
    BY DEF Places, Ops
  <2>2. c \in Calls
    BY <2>1, NoCallType DEF Calls, WithToken
  <2>3. c.pc = "auth" /\ c.op = "logout" /\ c.token = t /\ c.code = 0
    BY DEF NoCall, WithToken
  <2>4. Enter(p, c)
    BY <1>3 DEF ArriveLogout
  <2> HIDE DEF c
  <2>5. Sound(c)
    BY <2>3, AccountsAssumption, UserRowsAssumption DEF Sound
  <2> QED
    BY EnterSteps, <2>2, <2>3, <2>4, <2>5
<1>4. ASSUME NEW t \in Tokens, NEW email \in Emails, NEW role \in Roles1, NEW profile \in Profiles1,
             ArriveCreate(p, t, NewRow(email, role, profile))
      PROVE  Steps(p)
  <2> DEFINE row == NewRow(email, role, profile)
             c   == [WithToken("create", t) EXCEPT !.row = row]
  <2>1. row \in Rows /\ row.status = "live" /\ row.email = email /\ row.role = role
    BY NewRowType, AccountsAssumption
  <2> HIDE DEF row
  <2>2. "auth" \in Places /\ "create" \in Ops
    BY DEF Places, Ops
  <2>3. c \in Calls
    BY <2>1, <2>2, NoCallType DEF Calls, WithToken
  <2>4. c.pc = "auth" /\ c.op = "create" /\ c.token = t /\ c.row = row /\ c.code = 0
    BY DEF NoCall, WithToken
  <2>5. Enter(p, c)
    BY <1>4 DEF ArriveCreate, row
  <2> HIDE DEF c
  <2>6. Sound(c)
    BY <2>1, <2>4, AccountsAssumption, UserRowsAssumption DEF Sound
  <2> QED
    BY EnterSteps, <2>3, <2>4, <2>5, <2>6
<1>5. ASSUME NEW t \in Tokens, NEW i \in Ids, NEW profile \in Profiles1, ArriveUpdate(p, t, i, profile)
      PROVE  Steps(p)
  <2> DEFINE c == [WithToken("update", t) EXCEPT !.user = i, !.row.profile = profile]
  <2>1. profile \in Profiles
    BY AccountsAssumption
  <2>2. "auth" \in Places /\ "update" \in Ops
    BY DEF Places, Ops
  <2>3. c \in Calls
    BY <2>1, <2>2, NoCallType DEF Calls, WithToken, Rows
  <2>4. c.pc = "auth" /\ c.op = "update" /\ c.token = t /\ c.user = i /\ c.code = 0
    BY DEF NoCall, WithToken
  <2>5. Enter(p, c)
    BY <1>5 DEF ArriveUpdate
  <2> HIDE DEF c
  <2>6. Sound(c)
    BY <2>1, <2>4, AccountsAssumption, UserRowsAssumption DEF Sound
  <2> QED
    BY EnterSteps, <2>3, <2>4, <2>5, <2>6
<1>6. ASSUME NEW t \in Tokens, NEW i \in Ids, NEW role \in Roles1, ArriveUpdateRole(p, t, i, role)
      PROVE  Steps(p)
  <2> DEFINE c == [WithToken("updateRole", t) EXCEPT !.user = i, !.row.role = role]
  <2>1. role \in ValidRoles
    BY AccountsAssumption
  <2>2. "auth" \in Places /\ "updateRole" \in Ops
    BY DEF Places, Ops
  <2>3. c \in Calls
    BY <2>1, <2>2, NoCallType DEF Calls, WithToken, Rows
  <2>4. c.pc = "auth" /\ c.op = "updateRole" /\ c.token = t /\ c.user = i /\ c.row.role = role /\ c.code = 0
    BY DEF NoCall, NoRow, WithToken
  <2>5. Enter(p, c)
    BY <1>6 DEF ArriveUpdateRole
  <2> HIDE DEF c
  <2>6. Sound(c)
    BY <2>1, <2>4, AccountsAssumption, UserRowsAssumption DEF Sound
  <2> QED
    BY EnterSteps, <2>3, <2>4, <2>5, <2>6
<1>7. ASSUME NEW t \in Tokens, NEW i \in Ids, ArriveDelete(p, t, i)
      PROVE  Steps(p)
  <2> DEFINE c == [WithToken("delete", t) EXCEPT !.user = i]
  <2>1. "auth" \in Places /\ "delete" \in Ops
    BY DEF Places, Ops
  <2>2. c \in Calls
    BY <2>1, NoCallType DEF Calls, WithToken
  <2>3. c.pc = "auth" /\ c.op = "delete" /\ c.token = t /\ c.user = i /\ c.code = 0
    BY DEF NoCall, WithToken
  <2>4. Enter(p, c)
    BY <1>7 DEF ArriveDelete
  <2> HIDE DEF c
  <2>5. Sound(c)
    BY <2>3, AccountsAssumption, UserRowsAssumption DEF Sound
  <2> QED
    BY EnterSteps, <2>2, <2>3, <2>4, <2>5
<1> QED
  BY <1>1, <1>2, <1>3, <1>4, <1>5, <1>6, <1>7 DEF Arrive
-----------------------------------------------------------------------------
(* What the handlers do.                                                   *)

\* A handler that only looks leaves the tables alone.
LEMMA TablesStay ==
  ASSUME Inv, UNCHANGED <<users, sessions, spent, expired>>
  PROVE  RowsMove /\ SessionsMove
  BY SessionsStay DEF RowsMove, Inv

\* A call goes on to a place that fits what is known of it.
LEMMA GotoMoves ==
  ASSUME Inv, NEW p \in Procs, NEW pc \in Places, pc # "write", Goto(p, pc),
         Sound([call[p] EXCEPT !.pc = pc])
  PROVE  Moves(p)
<1> DEFINE c == [call[p] EXCEPT !.pc = pc]
<1>1. call[p] \in Calls
  BY DEF Inv, TypeOK
<1>2. c \in Calls /\ c.pc = pc
  BY <1>1 DEF Calls
<1>3. call' = [call EXCEPT ![p] = c]
  BY DEF Goto
<1> QED
  BY <1>2, <1>3 DEF Moves, Becomes

\* What is known of a call before its next step.
LEMMA CallIsSound ==
  ASSUME Inv, NEW p \in Procs
  PROVE  call[p] \in Calls /\ Sound(call[p])
  BY DEF Inv, TypeOK, CallsHold

\* The token is looked up.
LEMMA AuthenticateSteps ==
  ASSUME Inv, NEW p \in Procs, Authenticate(p)
  PROVE  Steps(p)
<1> DEFINE c == call[p]
           d == [c EXCEPT !.caller = sessions[c.token],
                          !.pc = IF c.op = "logout" THEN "deleteSessions" ELSE "role"]
<1>1. c \in Calls /\ Sound(c) /\ c.pc = "auth"
  BY CallIsSound DEF Authenticate
<1>2. CASE Valid(c.token)
  <2>1. c.token \in Tokens
    BY <1>1, <1>2 DEF Sound, Calls
  <2>2. sessions[c.token] \in Ids /\ sessions[c.token] # None
    BY <1>2, <2>1 DEF Valid, Inv, TypeOK
  <2>3. "deleteSessions" \in Places /\ "role" \in Places
    BY DEF Places
  <2>4. d \in Calls
    BY <1>1, <2>2, <2>3 DEF Calls
  <2>5. /\ d.pc = IF c.op = "logout" THEN "deleteSessions" ELSE "role"
        /\ d.caller = sessions[c.token]
        /\ d.op = c.op /\ d.user = c.user /\ d.row = c.row /\ d.code = c.code
    BY <1>1 DEF Calls
  <2>6. call' = [call EXCEPT ![p] = d]
    BY <1>2 DEF Authenticate
  <2> HIDE DEF d
  <2>7. Sound(d)
    BY <1>1, <2>2, <2>5 DEF Sound
  <2>8. Moves(p)
    BY <2>4, <2>5, <2>6, <2>7 DEF Moves, Becomes
  <2> QED
    BY <2>8, TablesStay DEF Authenticate, Steps
<1>3. CASE ~Valid(c.token)
  <2>1. Answer(p, 401) /\ 401 \in Codes
    BY <1>3 DEF Authenticate, Codes
  <2> QED
    BY <2>1, AnswerMoves, TablesStay DEF Authenticate, Steps, Inv
<1> QED
  BY <1>2, <1>3

\* The role is checked.
LEMMA CheckRoleSteps ==
  ASSUME Inv, NEW p \in Procs, CheckRole(p)
  PROVE  Steps(p)
<1>1. call[p] \in Calls /\ Sound(call[p]) /\ call[p].pc = "role"
  BY CallIsSound DEF CheckRole
<1>2. {500, 403, 422} \subseteq Codes
  BY DEF Codes
<1>3. CASE \E code \in {500, 403, 422} : Answer(p, code)
  BY <1>2, <1>3, AnswerMoves, TablesStay DEF CheckRole, Steps, Inv
<1>4. CASE Goto(p, Start(call[p].op))
  <2> DEFINE d == [call[p] EXCEPT !.pc = Start(call[p].op)]
  <2>1. \/ call[p].op = "create" /\ Start(call[p].op) = "lookup"
        \/ call[p].op \in {"update", "updateRole"} /\ Start(call[p].op) = "read"
        \/ call[p].op = "delete" /\ Start(call[p].op) = "deleteUser"
    BY <1>1 DEF Sound, Start
  <2>2. Start(call[p].op) \in Places /\ Start(call[p].op) # "write"
    BY <2>1 DEF Places
  <2>3. /\ d.pc = Start(call[p].op)
        /\ d.op = call[p].op /\ d.user = call[p].user /\ d.row = call[p].row
        /\ d.code = call[p].code /\ d.caller = call[p].caller
    BY <1>1 DEF Calls
  <2>4. Sound(d)
    <3> HIDE DEF d
    <3> QED
      BY <1>1, <2>1, <2>3 DEF Sound
  <2> QED
    BY <1>4, <2>2, <2>4, GotoMoves, TablesStay DEF CheckRole, Steps
<1> QED
  BY <1>3, <1>4 DEF CheckRole

\* ByEmail looks.
LEMMA LookupSteps ==
  ASSUME Inv, NEW p \in Procs, Lookup(p)
  PROVE  Steps(p)
<1>1. call[p] \in Calls /\ Sound(call[p]) /\ call[p].pc = "lookup"
  BY CallIsSound DEF Lookup
<1>2. {401, 409, 422} \subseteq Codes
  BY DEF Codes
<1>3. CASE \E code \in {401, 409, 422} : Answer(p, code)
  BY <1>2, <1>3, AnswerMoves, TablesStay DEF Lookup, Steps, Inv
<1>4. ASSUME NEW pc \in {"insertSession", "insertUser"}, Goto(p, pc),
             call[p].op = "login" <=> pc = "insertSession"
      PROVE  Steps(p)
  <2> DEFINE d == [call[p] EXCEPT !.pc = pc]
  <2>1. pc \in Places /\ pc # "write"
    BY DEF Places
  <2>2. /\ d.pc = pc
        /\ d.op = call[p].op /\ d.user = call[p].user /\ d.row = call[p].row
        /\ d.code = call[p].code /\ d.caller = call[p].caller
    BY <1>1 DEF Calls
  <2>3. Sound(d)
    <3> HIDE DEF d
    <3> QED
      BY <1>1, <1>4, <2>2 DEF Sound
  <2> QED
    BY <1>4, <2>1, <2>3, GotoMoves, TablesStay DEF Lookup, Steps
<1>5. CASE call[p].op = "login"
  BY <1>3, <1>4, <1>5 DEF Lookup
<1>6. CASE call[p].op # "login"
  BY <1>3, <1>4, <1>6 DEF Lookup, Taken
<1> QED
  BY <1>5, <1>6

\* ByID looks; an Update remembers the email that it found.
LEMMA ReadSteps ==
  ASSUME Inv, NEW p \in Procs, Read(p)
  PROVE  Steps(p)
<1> DEFINE c == call[p]
           u == users[c.user]
<1>1. c \in Calls /\ Sound(c) /\ c.pc = "read"
  BY CallIsSound DEF Read
<1>2. c.user \in Ids /\ c.op \in {"update", "updateRole"}
  BY <1>1 DEF Sound, Calls
<1>3. u \in Rows /\ (u.status = "live" => u.email # None)
  BY <1>2 DEF Inv, TypeOK, LiveIds
<1>4. {422, 500} \subseteq Codes
  BY DEF Codes
<1>5. CASE \E code \in {422, 500} : Answer(p, code)
  BY <1>4, <1>5, AnswerMoves, TablesStay DEF Read, Steps, Inv
<1>6. CASE /\ u.status = "live" /\ c.op = "update"
           /\ call' = [call EXCEPT ![p].pc = "write", ![p].row = [u EXCEPT !.profile = c.row.profile]]
  <2> DEFINE row == [u EXCEPT !.profile = c.row.profile]
             d   == [c EXCEPT !.pc = "write", !.row = row]
  <2>1. c.row.profile \in Profiles
    BY <1>1 DEF Calls, Rows
  <2>2. row \in Rows /\ row.email = u.email
    BY <1>3, <2>1 DEF Rows
  <2> HIDE DEF row
  <2>3. d \in Calls
    <3>1. "write" \in Places
      BY DEF Places
    <3> QED
      BY <1>1, <2>2, <3>1 DEF Calls
  <2>4. /\ d.pc = "write" /\ d.row = row /\ d.op = "update" /\ d.user = c.user /\ d.code = c.code
    BY <1>1, <1>6 DEF Calls
  <2>5. call' = [call EXCEPT ![p] = d]
    BY <1>6 DEF row
  <2> HIDE DEF d
  <2>6. Sound(d)
    BY <1>1, <1>3, <1>6, <2>2, <2>4 DEF Sound
  <2>7. Moves(p)
    BY <1>6, <2>2, <2>3, <2>4, <2>5, <2>6 DEF Moves, Becomes
  <2> QED
    BY <2>7, TablesStay DEF Read, Steps
<1>7. CASE c.op = "updateRole" /\ Goto(p, "writeRole")
  <2> DEFINE d == [call[p] EXCEPT !.pc = "writeRole"]
  <2>1. /\ d.pc = "writeRole"
        /\ d.op = call[p].op /\ d.user = call[p].user /\ d.row = call[p].row
        /\ d.code = call[p].code /\ d.caller = call[p].caller
    BY <1>1 DEF Calls
  <2>2. Sound(d)
    <3> HIDE DEF d
    <3> QED
      BY <1>1, <1>7, <2>1 DEF Sound
  <2>3. "writeRole" \in Places
    BY DEF Places
  <2> QED
    BY <1>7, <2>2, <2>3, GotoMoves, TablesStay DEF Read, Steps
<1> QED
  BY <1>2, <1>5, <1>6, <1>7 DEF Read

\* INSERT INTO users takes a row that is admissible.
LEMMA InsertUserSteps ==
  ASSUME Inv, NEW p \in Procs, NEW i \in Ids, InsertUser(p, i)
  PROVE  Steps(p)
<1> DEFINE c == call[p]
<1>1. c \in Calls /\ Sound(c) /\ c.pc = "insertUser"
  BY CallIsSound DEF InsertUser
<1>2. /\ c.op \in {"register", "create"}
      /\ c.row \in Rows /\ c.row.status = "live" /\ None \notin {c.row.email, c.row.role}
  BY <1>1 DEF Sound, Calls
<1>3. {201, 422, 500} \subseteq Codes
  BY DEF Codes
<1>4. SessionsMove
  BY SessionsStay DEF Inv, InsertUser
<1>5. RowsMove
  <2>1. CASE Admissible(i, c.row)
    BY <1>2, <2>1 DEF InsertUser, RowsMove, Inserted
  <2>2. CASE ~Admissible(i, c.row)
    BY <2>2 DEF InsertUser, RowsMove
  <2> QED
    BY <2>1, <2>2
<1>6. CASE \E code \in {201, 422, 500} : Answer(p, code)
  BY <1>3, <1>4, <1>5, <1>6, AnswerMoves DEF Steps, Inv
<1>7. CASE c.op = "register" /\ call' = [call EXCEPT ![p].pc = "insertSession", ![p].user = i]
  <2> DEFINE d == [c EXCEPT !.pc = "insertSession", !.user = i]
  <2>1. d \in Calls
    <3>1. "insertSession" \in Places
      BY DEF Places
    <3> QED
      BY <1>1, <3>1 DEF Calls
  <2>2. d.pc = "insertSession" /\ d.user = i /\ d.op = c.op /\ d.row = c.row /\ d.code = c.code
    BY <1>1 DEF Calls
  <2>3. call' = [call EXCEPT ![p] = d]
    BY <1>7
  <2> HIDE DEF d
  <2>4. Sound(d)
    BY <1>1, <1>7, <2>2, UserRowsAssumption DEF Sound
  <2> QED
    BY <1>4, <1>5, <2>1, <2>2, <2>3, <2>4 DEF Moves, Becomes, Steps
<1> QED
  BY <1>2, <1>6, <1>7 DEF InsertUser

\* INSERT INTO sessions takes a token for an account that is there.
LEMMA InsertSessionSteps ==
  ASSUME Inv, NEW p \in Procs, NEW t \in Tokens, InsertSession(p, t)
  PROVE  Steps(p)
<1> DEFINE i == IF call[p].op = "register" THEN call[p].user ELSE call[p].caller
<1>1. call[p] \in Calls /\ Sound(call[p]) /\ call[p].pc = "insertSession"
  BY CallIsSound DEF InsertSession
<1>2. i \in Ids
  BY <1>1 DEF Sound, Calls
<1>3. {200, 201, 401, 422} \subseteq Codes
  BY DEF Codes
<1>4. \E code \in {200, 201, 401, 422} : Answer(p, code)
  BY DEF InsertSession
<1>5. SessionsMove
  <2>1. /\ spent' = spent \cup {t} /\ t \in Tokens \ spent /\ UNCHANGED users
        /\ spent' \subseteq Tokens /\ expired' = expired
    BY DEF InsertSession, Inv, TypeOK
  <2>2. \/ UNCHANGED sessions
        \/ i \in LiveIds(users) /\ sessions' = [sessions EXCEPT ![t] = i]
    BY <1>2 DEF InsertSession, References, LiveIds
  <2> QED
    BY <2>1, <2>2 DEF SessionsMove
<1>6. RowsMove
  BY DEF InsertSession, RowsMove
<1> QED
  BY <1>3, <1>4, <1>5, <1>6, AnswerMoves DEF Steps, Inv

\* UPDATE users: the row that was read still has the email that is written.
LEMMA WriteSteps ==
  ASSUME Inv, NEW p \in Procs, Write(p)
  PROVE  Steps(p)
<1> DEFINE c == call[p]
           u == users[c.user]
<1>1. c \in Calls /\ Sound(c) /\ ReadsHold(c) /\ c.pc = "write"
  BY CallIsSound DEF Write, Inv, CallsHold
<1>2. c.user \in Ids /\ c.row.profile \in Profiles
  BY <1>1 DEF Sound, Calls, Rows
<1>3. Answer(p, 200) \/ Answer(p, 500)
  BY DEF Write
<1>4. {200, 500} \subseteq Codes
  BY DEF Codes
<1>5. SessionsMove
  BY SessionsStay DEF Write, Inv
<1>6. RowsMove
  <2>1. CASE UNCHANGED users
    BY <2>1 DEF RowsMove
  <2>2. CASE /\ u.status = "live" /\ SeatFree(users, c.user, c.row.profile)
             /\ users' = [users EXCEPT ![c.user] = Updated(c.user, c.row)]
    <3>1. u \in Rows /\ u.email = c.row.email
      BY <1>1, <1>2, <2>2 DEF ReadsHold, Inv, TypeOK
    <3>2. Updated(c.user, c.row) = [u EXCEPT !.profile = c.row.profile]
      BY <3>1 DEF Updated, Rows
    <3> QED
      BY <1>2, <2>2, <3>2 DEF RowsMove, ProfileChanged
  <2> QED
    BY <2>1, <2>2 DEF Write
<1> QED
  BY <1>3, <1>4, <1>5, <1>6, AnswerMoves DEF Steps, Inv

\* UPDATE users SET role.
LEMMA WriteRoleSteps ==
  ASSUME Inv, NEW p \in Procs, WriteRole(p)
  PROVE  Steps(p)
<1> DEFINE c == call[p]
<1>1. c \in Calls /\ Sound(c) /\ c.pc = "writeRole"
  BY CallIsSound DEF WriteRole
<1>2. c.user \in Ids /\ c.row.role \in ValidRoles
  BY <1>1 DEF Sound, Calls, Rows
<1>3. Answer(p, 200) /\ 200 \in Codes
  BY DEF WriteRole, Codes
<1>4. SessionsMove
  BY SessionsStay DEF WriteRole, Inv
<1>5. RowsMove
  <2>1. CASE users[c.user].status = "live"
    BY <1>2, <2>1 DEF WriteRole, RowsMove, RoleChanged
  <2>2. CASE users[c.user].status # "live"
    BY <2>2 DEF WriteRole, RowsMove
  <2> QED
    BY <2>1, <2>2
<1> QED
  BY <1>3, <1>4, <1>5, AnswerMoves DEF Steps, Inv

\* DELETE FROM users takes the sessions along.
LEMMA DeleteUserSteps ==
  ASSUME Inv, NEW p \in Procs, DeleteUser(p)
  PROVE  Steps(p)
<1> DEFINE c == call[p]
<1>1. c \in Calls /\ Sound(c) /\ c.pc = "deleteUser"
  BY CallIsSound DEF DeleteUser
<1>2. c.user \in Ids
  BY <1>1 DEF Sound, Calls
<1>3. Answer(p, 204) /\ 204 \in Codes
  BY DEF DeleteUser, Codes
<1>4. SessionsMove
  BY DEF DeleteUser, SessionsMove, Cascade, Inv, TypeOK
<1>5. RowsMove
  <2>1. CASE users[c.user].status = "live"
    BY <1>2, <2>1 DEF DeleteUser, RowsMove, Deleted
  <2>2. CASE users[c.user].status # "live"
    BY <2>2 DEF DeleteUser, RowsMove
  <2> QED
    BY <2>1, <2>2
<1> QED
  BY <1>3, <1>4, <1>5, AnswerMoves DEF Steps, Inv

\* DELETE FROM sessions.
LEMMA DeleteSessionsSteps ==
  ASSUME Inv, NEW p \in Procs, DeleteSessions(p)
  PROVE  Steps(p)
<1>1. Answer(p, 204) /\ 204 \in Codes
  BY DEF DeleteSessions, Codes
<1>2. SessionsMove
  BY DEF DeleteSessions, SessionsMove, DeletedByLogout, Inv, TypeOK
<1>3. RowsMove
  BY DEF DeleteSessions, RowsMove
<1> QED
  BY <1>1, <1>2, <1>3, AnswerMoves DEF Steps, Inv

\* A statement fails.
LEMMA FailSteps ==
  ASSUME Inv, NEW p \in Procs, Fail(p)
  PROVE  Steps(p)
<1>1. \E code \in {401, 422, 500} : Answer(p, code)
  BY DEF Fail, Failed
<1>2. {401, 422, 500} \subseteq Codes
  BY DEF Codes
<1> QED
  BY <1>1, <1>2, AnswerMoves, TablesStay DEF Fail, Steps, Inv

\* Every step of a handler is such a step.
LEMMA HandlerSteps ==
  ASSUME Inv, NEW p \in Procs, Arrive(p) \/ Handle(p)
  PROVE  Steps(p)
  BY ArriveSteps, AuthenticateSteps, CheckRoleSteps, LookupSteps, ReadSteps, InsertUserSteps,
     InsertSessionSteps, WriteSteps, WriteRoleSteps, DeleteUserSteps, DeleteSessionsSteps, FailSteps
     DEF Handle
-----------------------------------------------------------------------------
(* The invariant.                                                          *)

\* No token stands for an account that is gone: a deletion takes them along, and a
\* new token is for an account that is there.
LEMMA SessionsMoveRight ==
  ASSUME Inv, NEW p \in Procs, Steps(p)
  PROVE  /\ sessions' \in [Tokens -> Ids \cup {None}]
         /\ expired' \subseteq spent' /\ spent' \subseteq Tokens
         /\ \A t \in Tokens : sessions'[t] # None =>
              t \in spent' /\ sessions'[t] \in Ids /\ users'[sessions'[t]].status = "live"
<1>1. /\ sessions \in [Tokens -> Ids \cup {None}] /\ expired \subseteq spent /\ users \in [Ids -> Rows]
      /\ \A t \in Tokens : sessions[t] # None =>
            t \in spent /\ sessions[t] \in Ids /\ users[sessions[t]].status = "live"
  BY DEF Inv, TypeOK, SessionsHaveUsers
<1>2. CASE spent' = spent /\ \E gone \in SUBSET Tokens : sessions' = Without(gone)
  <2>1. PICK gone \in SUBSET Tokens : sessions' = Without(gone)
    BY <1>2
  <2>2. /\ sessions' \in [Tokens -> Ids \cup {None}]
        /\ \A t \in Tokens : sessions'[t] # None => sessions'[t] = sessions[t]
    BY <1>1, <2>1 DEF Without
  <2>3. ASSUME NEW t \in Tokens, sessions'[t] # None
        PROVE  users'[sessions[t]].status = "live"
    <3> DEFINE i == sessions[t]
    <3>1. sessions[t] # None /\ i \in Ids /\ users[i].status = "live"
      BY <1>1, <2>2, <2>3
    <3>2. CASE UNCHANGED users
      BY <3>1, <3>2
    <3>3. ASSUME NEW j \in Ids, Inserted(j) \/ ProfileChanged(j) \/ RoleChanged(j)
          PROVE  users'[i].status = "live"
      BY <1>1, <3>1, <3>3 DEF Inserted, ProfileChanged, RoleChanged, Rows
    <3>4. ASSUME NEW j \in Ids, Deleted(j)
          PROVE  users'[i].status = "live"
      <4>1. i # j
        BY <2>3, <3>1, <3>4 DEF Deleted, Cascade, Without
      <4> QED
        BY <1>1, <3>1, <3>4, <4>1 DEF Deleted
    <3> QED
      BY <3>2, <3>3, <3>4 DEF Steps, RowsMove
  <2> QED
    BY <1>1, <1>2, <2>2, <2>3 DEF Steps, SessionsMove
<1>3. CASE /\ UNCHANGED users
           /\ \E t \in Tokens \ spent : /\ spent' = spent \cup {t}
                                        /\ \/ UNCHANGED sessions
                                           \/ \E i \in LiveIds(users) : sessions' = [sessions EXCEPT ![t] = i]
  BY <1>1, <1>3 DEF Steps, SessionsMove, LiveIds
<1> QED
  BY <1>2, <1>3 DEF Steps, SessionsMove

\* A step of a handler keeps the invariant.
LEMMA StepsKeepInv ==
  ASSUME Inv, NEW p \in Procs, Steps(p)
  PROVE  Inv'
<1>1. RowsAreRight
  BY RowsMoveRight DEF Inv, Steps
<1>2. PICK c \in Calls : Becomes(p, c)
  BY DEF Steps, Moves
<1>3. call \in [Procs -> Calls]
  BY DEF Inv, TypeOK
<1>4. call' \in [Procs -> Calls] /\ call'[p] = c /\ \A q \in Procs \ {p} : call'[q] = call[q]
  BY <1>2, <1>3 DEF Becomes
<1>5. TypeOK'
  <2>1. \A t \in Tokens : sessions'[t] # None => users'[sessions'[t]].status # "unborn"
    BY SessionsMoveRight
  <2> QED
    BY <1>1, <1>4, <2>1, SessionsMoveRight DEF RowsAreRight, TypeOK
<1>6. CallsHold'
  <2> SUFFICES ASSUME NEW q \in Procs
               PROVE  Sound(call'[q]) /\ ReadsHold(call[q])'
    BY DEF CallsHold
  <2>1. CASE q = p
    <3>1. c.pc = "write" => c.user \in Ids
      BY <1>2 DEF Becomes, Sound, Calls
    <3> QED
      BY <1>1, <1>2, <1>4, <2>1, <3>1 DEF Becomes, RowsAreRight, ReadsHold
  <2>2. CASE q # p
    <3>1. Sound(call[q]) /\ ReadsHold(call[q]) /\ call[q] \in Calls /\ call'[q] = call[q]
      BY <1>3, <1>4, <2>2 DEF Inv, CallsHold
    <3>2. call[q].pc = "write" => call[q].user \in Ids
      BY <3>1 DEF Sound, Calls
    <3> QED
      BY <1>1, <3>1, <3>2 DEF RowsAreRight, ReadsHold
  <2> QED
    BY <2>1, <2>2
<1>7. SessionsHaveUsers'
  BY SessionsMoveRight DEF SessionsHaveUsers
<1> QED
  BY <1>1, <1>5, <1>6, <1>7 DEF Inv, RowsAreRight

\* Time passes.
LEMMA ExpireKeepsInv ==
  ASSUME Inv, NEW t \in Tokens, Expire(t)
  PROVE  Inv'
  BY DEF Inv, Expire, TypeOK, CallsHold, ReadsHold, UniqueAccounts, SessionsHaveUsers

\* Every step keeps the invariant.
LEMMA InvStep == Inv /\ [Next]_vars => Inv'
<1> SUFFICES ASSUME Inv, [Next]_vars PROVE Inv'
  OBVIOUS
<1>1. ASSUME NEW p \in Procs, Arrive(p) \/ Handle(p) PROVE Inv'
  BY <1>1, HandlerSteps, StepsKeepInv
<1>2. ASSUME NEW t \in Tokens, Expire(t) PROVE Inv'
  BY <1>2, ExpireKeepsInv
<1>3. CASE UNCHANGED vars
  BY <1>3 DEF vars, Inv, TypeOK, CallsHold, ReadsHold, UniqueAccounts, SessionsHaveUsers
<1> QED
  BY <1>1, <1>2, <1>3 DEF Next

\* What each handler relies on holds throughout.
THEOREM InvAlways == Spec => []Inv
  BY InvInit, InvStep, PTL DEF Spec

\* Every variable has its type: no account is without email and role, and only
\* drawn tokens stand for anyone.
THEOREM TypeCorrect == Spec => []TypeOK
<1>1. Inv => TypeOK
  BY DEF Inv
<1> QED
  BY <1>1, InvAlways, PTL

\* Emails and seats are unique among the accounts that are there, however register,
\* create and update overlap.
THEOREM AccountsAreUnique == Spec => []UniqueAccounts
<1>1. Inv => UniqueAccounts
  BY DEF Inv
<1> QED
  BY <1>1, InvAlways, PTL

\* No token outlives its account, that of a login that had passed its check before the
\* deletion included.
THEOREM SessionsEndWithUsers == Spec => []SessionsHaveUsers
<1>1. Inv => SessionsHaveUsers
  BY DEF Inv
<1> QED
  BY <1>1, InvAlways, PTL
-----------------------------------------------------------------------------
(* What a step may never do.                                               *)

\* Only UpdateRole changes the role of an account that stays.
LEMMA RoleChanges ==
  ASSUME Inv, NEW p \in Procs, Handle(p), NEW i \in LiveIds(users), i \in LiveIds(users'),
         users'[i].role # users[i].role
  PROVE  call[p].pc = "writeRole" /\ call[p].user = i /\ call[p].row.role = users'[i].role
<1>1. users \in [Ids -> Rows] /\ i \in Ids /\ users[i].status = "live" /\ users'[i].status = "live"
  BY DEF Inv, TypeOK, LiveIds
<1>2. users' # users
  OBVIOUS
<1>3. ASSUME NEW j \in Ids, InsertUser(p, j) PROVE FALSE
  <2>1. users' = [users EXCEPT ![j] = call[p].row] /\ j # i
    BY <1>1, <1>2, <1>3 DEF InsertUser
  <2> QED
    BY <1>1, <2>1
<1>4. ASSUME Write(p) PROVE FALSE
  <2>1. users' = [users EXCEPT ![call[p].user] = Updated(call[p].user, call[p].row)]
    BY <1>2, <1>4 DEF Write
  <2>2. CASE call[p].user = i
    BY <1>1, <2>1, <2>2 DEF Updated, Rows
  <2>3. CASE call[p].user # i
    BY <1>1, <2>1, <2>3
  <2> QED
    BY <2>2, <2>3
<1>5. ASSUME DeleteUser(p) PROVE FALSE
  <2>1. users' = [users EXCEPT ![call[p].user] = DeletedRow]
    BY <1>2, <1>5 DEF DeleteUser
  <2>2. DeletedRow.status # "live"
    BY DEF DeletedRow, NoRow
  <2> QED
    BY <1>1, <2>1, <2>2
<1>6. CASE WriteRole(p)
  BY <1>1, <1>2, <1>6 DEF WriteRole, Rows
<1>7. WriteRole(p)
  BY <1>2, <1>3, <1>4, <1>5
     DEF Handle, Authenticate, CheckRole, Lookup, Read, InsertSession, DeleteSessions, Fail
<1> QED
  BY <1>6, <1>7

\* No Update that read the row earlier undoes a change of role, and emails stay.
THEOREM RolesAreKept == Spec => RolesSurviveEdits
<1>1. ASSUME Inv, [Next]_vars, NEW i \in LiveIds(users) \cap LiveIds(users')
      PROVE  /\ users'[i].email = users[i].email
             /\ users'[i].role # users[i].role =>
                  \E p \in Procs : /\ call[p].pc = "writeRole" /\ call[p].user = i
                                  /\ call[p].row.role = users'[i].role
  <2>1. CASE UNCHANGED users
    BY <2>1
  <2>2. ASSUME NEW p \in Procs, Handle(p)
        PROVE  /\ users'[i].email = users[i].email
               /\ users'[i].role # users[i].role =>
                    /\ call[p].pc = "writeRole" /\ call[p].user = i
                    /\ call[p].row.role = users'[i].role
    <3>1. RowsAreRight
      BY <1>1, <2>2, HandlerSteps, RowsMoveRight DEF Inv, Steps
    <3> QED
      BY <1>1, <2>2, <3>1, RoleChanges DEF RowsAreRight, LiveIds
  <2>3. ASSUME NEW p \in Procs, Arrive(p) PROVE UNCHANGED users
    BY <2>3 DEF Arrive, ArriveRegister, ArriveLogin, ArriveLogout, ArriveCreate, ArriveUpdate,
                ArriveUpdateRole, ArriveDelete, Enter
  <2> QED
    BY <1>1, <2>1, <2>2, <2>3 DEF Next, Expire, vars
<1>2. Inv /\ [Next]_vars => KeepsRoles
  BY <1>1 DEF KeepsRoles
<1> QED
  BY <1>2, InvAlways, PTL DEF Spec, RolesSurviveEdits

\* What a logout ended, and what expired, is never accepted again.
THEOREM SessionsStayEnded == Spec => EndedSessionsStayEnded
<1>1. ASSUME Inv, [Next]_vars, NEW p \in Procs, NEW t \in Tokens,
             call[p].pc = "deleteSessions", call'[p].code = 204
      PROVE  sessions'[t] # call[p].caller
  <2>1. call[p].code = 0 /\ call[p].caller # None /\ call[p].caller \in Ids /\ call \in [Procs -> Calls]
    BY <1>1, CallIsSound DEF Sound, Calls, Inv, TypeOK
  <2>2. call' # call
    BY <1>1, <2>1
  <2>3. PICK q \in Procs : Arrive(q) \/ Handle(q)
    BY <1>1, <2>2 DEF Next, Expire, vars
  <2>4. q = p
    BY <1>1, <2>1, <2>3, HandlerSteps DEF Steps, Moves, Becomes
  <2>5. ~Arrive(p)
    BY <1>1 DEF Arrive, ArriveRegister, ArriveLogin, ArriveLogout, ArriveCreate, ArriveUpdate,
                ArriveUpdateRole, ArriveDelete, Enter
  <2>6. DeleteSessions(p) \/ Fail(p)
    BY <1>1, <2>3, <2>4, <2>5 DEF Handle, Authenticate, CheckRole, Lookup, Read, InsertUser,
                                  InsertSession, Write, WriteRole, DeleteUser
  <2>7. ~Fail(p)
    <3>1. ASSUME NEW code \in {401, 422, 500}, Answer(p, code) PROVE call'[p].code # 204
      BY <2>1, <3>1 DEF Answer, NoCall
    <3> QED
      BY <1>1, <3>1 DEF Fail, Failed
  <2> QED
    BY <2>1, <2>6, <2>7 DEF DeleteSessions, DeletedByLogout, Without
<1>2. ASSUME Inv, [Next]_vars, NEW t \in spent, ~Valid(t)
      PROVE  ~Valid(t)'
  <2>1. sessions \in [Tokens -> Ids \cup {None}] /\ t \in Tokens
    BY <1>2 DEF Inv, TypeOK
  <2>2. ASSUME NEW p \in Procs, Arrive(p) \/ Handle(p) PROVE ~Valid(t)'
    BY <1>2, <2>1, <2>2, HandlerSteps DEF Steps, SessionsMove, Valid, Without
  <2>3. ASSUME NEW u \in Tokens, Expire(u) PROVE ~Valid(t)'
    BY <1>2, <2>3 DEF Expire, Valid
  <2>4. CASE UNCHANGED vars
    BY <1>2, <2>4 DEF vars, Valid
  <2> QED
    BY <1>2, <2>2, <2>3, <2>4 DEF Next
<1>3. Inv /\ [Next]_vars => KeepsSessionsEnded
  BY <1>1, <1>2 DEF KeepsSessionsEnded
<1> QED
  BY <1>3, InvAlways, PTL DEF Spec, EndedSessionsStayEnded
=============================================================================
