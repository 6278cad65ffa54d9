----------------------------- MODULE PklRouting -----------------------------
(***************************************************************************)
(* How a new PKL request finds its approvers.  Service.Create reads the    *)
(* requester and then, for one position after the other, who holds it; the *)
(* transaction that inserts request and steps comes last.  Administrators  *)
(* edit the table users in between and afterwards.  What becomes of the    *)
(* steps is the matter of PklApproval; here they are open.                 *)
(***************************************************************************)
EXTENDS UserRows, Naturals, Sequences, SequencesExt

CONSTANTS Reqs,          \* request ids that id.New may hand out
          Procs,         \* handler goroutines
          ApprovalOrder, \* the positions, in order of their steps
          Asked          \* bound: the profiles given to users

ASSUME PklRoutingAssumption ==
  /\ ApprovalOrder \in Seq(ValidPositions) /\ ApprovalOrder # <<>>
  /\ Asked \subseteq Profiles

VARIABLES
  users,    \* the table users
  requests, \* the tables pkl_requests and pkl_approval_steps
  call,     \* what each Create call is doing
  edited    \* the calls during which users were edited; not in the code

vars == <<users, requests, call, edited>>

Requests == [status : {"unborn", "open", "gone"}, requester : Ids \cup {None},
             approvers : Seq(Ids)]

NoRequest == [status |-> "unborn", requester |-> None, approvers |-> <<>>]

Places == {"idle", "read", "find", "insert"}

Codes == {0, 201, 400, 422, 500}

Calls == [pc : Places, requester : Ids \cup {None},
          class : Classes \cup {None}, jurusan : Majors \cup {None},
          approvers : Seq(Ids),          \* those found so far
          code : Codes]

NoCall == [pc |-> "idle", requester |-> None, class |-> None, jurusan |-> None,
           approvers |-> <<>>, code |-> 0]

Open == {r \in Reqs : requests[r].status = "open"}

\* Every variable has its type; a request has an approver for each position, and
\* a call finds one after the other.
TypeOK ==
  /\ users \in [Ids -> Rows]
  /\ requests \in [Reqs -> Requests]
  /\ call \in [Procs -> Calls]
  /\ edited \subseteq {p \in Procs : call[p].pc \in {"find", "insert"}}
  /\ \A r \in Open : Len(requests[r].approvers) = Len(ApprovalOrder)
  /\ \A p \in Procs : call[p].pc = "find" => Len(call[p].approvers) < Len(ApprovalOrder)

Init ==
  /\ users = [i \in Ids |-> NoRow]
  /\ requests = [r \in Reqs |-> NoRequest]
  /\ call = [p \in Procs |-> NoCall]
  /\ edited = {}
-----------------------------------------------------------------------------
(* Service.Create.                                                         *)

Answer(p, code) ==
  /\ call' = [call EXCEPT ![p] = [NoCall EXCEPT !.code = code]]
  /\ edited' = edited \ {p}

\* The bound leaves a request id to each call in flight.
SpareId == Cardinality({q \in Procs : call[q].pc # "idle"})
             < Cardinality({r \in Reqs : requests[r].status = "unborn"})

\* The requester has role user when the call comes in.
Arrive(p, i) ==
  /\ call[p].pc = "idle" /\ SpareId
  /\ users[i].status = "live" /\ users[i].role = "user"
  /\ call' = [call EXCEPT ![p] = [NoCall EXCEPT !.pc = "read", !.requester = i]]
  /\ UNCHANGED <<users, requests, edited>>

\* The request may ask for a period that ends before it starts.
ReadRequester(p) ==
  LET u == users[call[p].requester] IN
  /\ call[p].pc = "read"
  /\ \/ u.status # "live" /\ Answer(p, 422)
     \/ u.status = "live" /\ Answer(p, 400)
     \/ /\ u.status = "live"
        /\ call' = [call EXCEPT ![p].pc = "find", ![p].class = u.profile.class,
                                ![p].jurusan = u.profile.jurusan]
        /\ UNCHANGED edited
  /\ UNCHANGED <<users, requests>>

\* Slip: the class is not looked at.
SchoolWide(position, c) == FindByPosition(users, position, None, None)

\* The wali_kelas is looked for by class, the kaprog by jurusan.
Candidates(position, c) ==
  FindByPosition(users, position, IF position = "wali_kelas" THEN c.class ELSE None,
                                  IF position = "kaprog" THEN c.jurusan ELSE None)

\* Slip: the loop ends one position early.
LastStepMissed == Len(ApprovalOrder) - 1

LastStep == Len(ApprovalOrder)

FindApprover(p, i) ==
  LET c        == call[p]
      position == ApprovalOrder[Len(c.approvers) + 1]
  IN /\ c.pc = "find"
     /\ i \in Candidates(position, c)
     /\ call' = [call EXCEPT ![p].approvers = Append(@, i),
                             ![p].pc = IF Len(c.approvers) + 1 = LastStep THEN "insert" ELSE "find"]
     /\ UNCHANGED <<users, requests, edited>>

FindNobody(p) ==
  LET c        == call[p]
      position == ApprovalOrder[Len(c.approvers) + 1]
  IN /\ c.pc = "find"
     /\ Candidates(position, c) = {}
     /\ Answer(p, 422)
     /\ UNCHANGED <<users, requests>>

\* The transaction of CreateRequest, with the foreign keys to users.
Insert(p, r) ==
  LET c == call[p] IN
  /\ c.pc = "insert"
  /\ requests[r].status = "unborn"
  /\ IF {c.requester} \cup ToSet(c.approvers) \subseteq LiveIds(users)
     THEN /\ requests' = [requests EXCEPT ![r] = [status |-> "open", requester |-> c.requester,
                                                  approvers |-> c.approvers]]
          /\ Answer(p, 201)
     ELSE Answer(p, 500) /\ UNCHANGED requests
  /\ UNCHANGED users

\* A statement fails; the transaction, if there is one, is rolled back.
Fail(p) ==
  /\ call[p].pc # "idle"
  /\ Answer(p, 500)
  /\ UNCHANGED <<users, requests>>
-----------------------------------------------------------------------------
(* Edits of the table users, as Accounts has them, each at its last        *)
(* statement.                                                              *)

Edited == edited' = {p \in Procs : call[p].pc \in {"find", "insert"}}

AddUser(i, role, profile) ==
  /\ users[i].status = "unborn"
  /\ validatePosition(profile.position, role)
  /\ SeatFree(users, i, profile)
  /\ users' = [users EXCEPT ![i] = NewRow(None, role, profile)]
  /\ Edited
  /\ UNCHANGED <<requests, call>>

EditProfile(i, profile) ==
  /\ users[i].status = "live"
  /\ validatePosition(profile.position, users[i].role)
  /\ SeatFree(users, i, profile)
  /\ users' = [users EXCEPT ![i].profile = profile]
  /\ Edited
  /\ UNCHANGED <<requests, call>>

\* The position stays.
EditRole(i, role) ==
  /\ users[i].status = "live"
  /\ users' = [users EXCEPT ![i].role = role]
  /\ Edited
  /\ UNCHANGED <<requests, call>>

\* Slip: approver_id is no foreign key.
NeverApprover(i) == FALSE

\* A step of a request that is not deleted with i refers to i.
IsApprover(i) ==
  \E r \in Open : requests[r].requester # i /\ i \in ToSet(requests[r].approvers)

\* The requests of a user go with the user.  Somebody always stays.
RemoveUser(i) ==
  /\ users[i].status = "live" /\ LiveIds(users) # {i}
  /\ ~IsApprover(i)
  /\ users' = [users EXCEPT ![i] = DeletedRow]
  /\ requests' = [r \in Reqs |-> IF r \in Open /\ requests[r].requester = i
                                 THEN [NoRequest EXCEPT !.status = "gone"] ELSE requests[r]]
  /\ Edited
  /\ UNCHANGED call
-----------------------------------------------------------------------------
Next ==
  \/ \E p \in Procs : \/ \E i \in Ids : Arrive(p, i) \/ FindApprover(p, i)
                      \/ ReadRequester(p)
                      \/ FindNobody(p)
                      \/ Fail(p)
                      \/ \E r \in Reqs : Insert(p, r)
  \/ \E i \in Ids : \/ \E profile \in Asked :
                         \/ \E role \in ValidRoles : AddUser(i, role, profile)
                         \/ EditProfile(i, profile)
                    \/ \E role \in ValidRoles : EditRole(i, role)
                    \/ RemoveUser(i)

Spec == Init /\ [][Next]_vars

-----------------------------------------------------------------------------
(* Properties.                                                             *)

\* A request keeps its requester and all its approvers (migration 005), whatever
\* was deleted between the lookups and the insertion, and afterwards.
PartiesExist ==
  \A r \in Open :
    {requests[r].requester} \cup ToSet(requests[r].approvers) \subseteq LiveIds(users)

\* Does i hold the k-th position for a user with that profile?
Holds(i, k, profile) ==
  LET x == users[i].profile IN
  /\ users[i].status = "live"
  /\ x.position = ApprovalOrder[k]
  /\ x.position = "wali_kelas" => x.class = profile.class
  /\ x.position = "kaprog" => x.jurusan = profile.jurusan

\* "wali_kelas is matched by the requester's class, kaprog by the requester's
\* jurusan" (pkl.md): when users are not edited during the lookups, every step of a
\* new request goes to the one who holds its position for a requester who has class
\* and jurusan.
RoutesRight ==
  \A p \in Procs \ edited, r \in Reqs \ Open :
    (call[p].pc = "insert" /\ call'[p].pc = "idle" /\ requests'[r].status = "open"
       /\ None \notin {call[p].class, call[p].jurusan}) =>
      LET new == requests'[r] IN
      \A k \in DOMAIN new.approvers :
        Holds(new.approvers[k], k, users[new.requester].profile)

RightApprovers == [][RoutesRight]_vars
=============================================================================
