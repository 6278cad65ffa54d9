------------------------------ MODULE UserRows ------------------------------
(***************************************************************************)
(* The table users: its rows, its unique indexes, and what the services    *)
(* compute from rows.  Names, avatars and times are left out; of a         *)
(* password only whose it is matters.                                      *)
(***************************************************************************)
CONSTANTS Ids,        \* user ids that id.New may hand out
          Emails,
          ValidRoles,
          ValidPositions,
          Classes,    \* classes such as PPLG 1
          Majors,     \* PPLG, AK, HTL (jurusan)
          None        \* the empty string

ASSUME UserRowsAssumption ==
  /\ ValidRoles \subseteq {"jurnal", "guru", "admin", "user"}
  /\ ValidPositions \subseteq {"wali_kelas", "bk", "kesiswaan", "kaprog"}
  /\ None \notin Ids \cup Emails \cup ValidRoles \cup ValidPositions \cup Classes \cup Majors

\* What Update writes of a row.
Profiles == [position : ValidPositions \cup {None},
             class    : Classes \cup {None},
             jurusan  : Majors \cup {None}]

NoProfile == [position |-> None, class |-> None, jurusan |-> None]

Rows == [status  : {"unborn", "live", "deleted"},
         email   : Emails \cup {None},
         role    : ValidRoles \cup {None},
         profile : Profiles]

NoRow == [status |-> "unborn", email |-> None, role |-> None, profile |-> NoProfile]

NewRow(email, role, profile) ==
  [status |-> "live", email |-> email, role |-> role, profile |-> profile]

\* Nothing but its id is remembered of a deleted row.
DeletedRow == [NoRow EXCEPT !.status = "deleted"]

LiveIds(users) == {i \in Ids : users[i].status = "live"}

validatePosition(position, role) == position = None \/ role = "guru"

\* The partial unique indexes on (class), (jurusan) and (position): do two
\* profiles claim the same seat?
SameSeat(x, y) ==
  /\ x.position = y.position
  /\ \/ x.position = "wali_kelas" /\ x.class # None /\ x.class = y.class
     \/ x.position = "kaprog" /\ x.jurusan # None /\ x.jurusan = y.jurusan
     \/ x.position \in {"bk", "kesiswaan"}

SeatFree(users, i, profile) ==
  \A j \in LiveIds(users) \ {i} : ~SameSeat(users[j].profile, profile)

EmailFree(users, email) == \A j \in LiveIds(users) : users[j].email # email

\* FindByPosition: an empty class or jurusan matches all; which of the matching
\* rows LIMIT 1 returns is left to the database.  The role is not asked for.
FindByPosition(users, position, class, jurusan) ==
  {i \in LiveIds(users) : LET x == users[i].profile IN
     /\ x.position = position
     /\ class = None \/ x.class = class
     /\ jurusan = None \/ x.jurusan = jurusan}
=============================================================================
