-------------------------- MODULE PklRoutingProofs --------------------------
(***************************************************************************)
(* Proofs about how a new PKL request finds its approvers, for any order   *)
(* of positions and any number of users, requests and calls of Create.     *)
(* The foreign keys keep the parties of a request there; that the lookups  *)
(* found the right ones is known of a call for as long as nobody edits the *)
(* table users (FoundRight).                                               *)
(***************************************************************************)
EXTENDS PklRouting, TLAPS

\* What a call has read and found is what the table users says.
FoundRight(c) ==
  /\ users[c.requester].status = "live"
  /\ c.class = users[c.requester].profile.class
  /\ c.jurusan = users[c.requester].profile.jurusan
  /\ \A k \in DOMAIN c.approvers : c.approvers[k] \in Candidates(ApprovalOrder[k], c)

CallsHold ==
  \A p \in Procs :
    /\ call[p].pc # "idle" => call[p].requester \in Ids
    /\ call[p].pc = "read" => call[p].approvers = <<>>
    /\ call[p].pc = "insert" => Len(call[p].approvers) = Len(ApprovalOrder)
    /\ call[p].pc \in {"find", "insert"} /\ p \notin edited => FoundRight(call[p])

Inv == TypeOK /\ PartiesExist /\ CallsHold
-----------------------------------------------------------------------------
\* Calls and requests that are not there yet.
LEMMA NothingYet ==
  /\ NoCall \in Calls /\ NoCall.pc = "idle" /\ NoCall.approvers = <<>>
  /\ NoRequest \in Requests /\ NoRequest.status = "unborn"
  /\ NoRow \in Rows /\ NoRow.status = "unborn"
  BY DEF NoCall, Calls, Places, Codes, NoRequest, Requests, NoRow, Rows, Profiles, NoProfile

\* Nobody, nothing and no call are there at the start.
LEMMA InvInit == Init => Inv
<1> SUFFICES ASSUME Init PROVE Inv
  OBVIOUS
<1>1. Open = {}
  BY NothingYet DEF Init, Open
<1>2. TypeOK
  BY <1>1, NothingYet DEF Init, TypeOK
<1>3. PartiesExist
  BY <1>1 DEF PartiesExist
<1>4. CallsHold
  BY NothingYet DEF Init, CallsHold
<1> QED
  BY <1>2, <1>3, <1>4 DEF Inv
-----------------------------------------------------------------------------
(* Steps of a call that leave the table users alone.                       *)

\* What is known of a call whose step comes next.
Known(p, c) ==
  /\ c \in Calls
  /\ c.pc # "idle" => c.requester \in Ids
  /\ c.pc = "read" => c.approvers = <<>>
  /\ c.pc = "find" => Len(c.approvers) < Len(ApprovalOrder)
  /\ c.pc = "insert" => Len(c.approvers) = Len(ApprovalOrder)
  /\ c.pc \in {"find", "insert"} /\ p \notin edited' => FoundRight(c)

\* The invariant says it of every call.
LEMMA KnownBefore ==
  ASSUME Inv, UNCHANGED edited, NEW p \in Procs
  PROVE  Known(p, call[p])
  BY DEF Inv, TypeOK, CallsHold, Known

\* A step of one call, which may be over, keeps what is known of the others.
LEMMA CallStep ==
  ASSUME Inv, UNCHANGED users, NEW p \in Procs, NEW c \in Calls,
         call' = [call EXCEPT ![p] = c],
         Known(p, c),
         \/ c.pc = "idle" /\ edited' = edited \ {p}
         \/ UNCHANGED edited /\ (p \in edited => c.pc \in {"find", "insert"})
  PROVE  /\ CallsHold' /\ call' \in [Procs -> Calls]
         /\ edited' \subseteq {q \in Procs : call'[q].pc \in {"find", "insert"}}
         /\ \A q \in Procs : call'[q].pc = "find" => Len(call'[q].approvers) < Len(ApprovalOrder)
<1>1. /\ call \in [Procs -> Calls]
      /\ edited \subseteq {q \in Procs : call[q].pc \in {"find", "insert"}}
      /\ \A q \in Procs : call[q].pc = "find" => Len(call[q].approvers) < Len(ApprovalOrder)
  BY DEF Inv, TypeOK
<1>2. call'[p] = c /\ \A q \in Procs \ {p} : call'[q] = call[q]
  BY <1>1
<1>3. \A q \in Procs \ {p} : q \in edited' <=> q \in edited
  OBVIOUS
<1>4. ASSUME NEW q \in Procs
      PROVE  /\ call'[q].pc # "idle" => call'[q].requester \in Ids
             /\ call'[q].pc = "read" => call'[q].approvers = <<>>
             /\ call'[q].pc = "insert" => Len(call'[q].approvers) = Len(ApprovalOrder)
             /\ call'[q].pc \in {"find", "insert"} /\ q \notin edited' => FoundRight(call'[q])
  <2>1. CASE q = p
    BY <1>2, <2>1 DEF Known
  <2>2. CASE q # p
    BY <1>2, <1>3, <2>2 DEF Inv, CallsHold
  <2> QED
    BY <2>1, <2>2
<1>5. CallsHold'
  BY <1>4 DEF CallsHold, FoundRight, Candidates, FindByPosition, LiveIds
<1>6. edited' \subseteq {q \in Procs : call'[q].pc \in {"find", "insert"}}
  BY <1>1, <1>2
<1>7. \A q \in Procs : call'[q].pc = "find" => Len(call'[q].approvers) < Len(ApprovalOrder)
  BY <1>1, <1>2 DEF Known
<1> QED
  BY <1>1, <1>5, <1>6, <1>7

\* An answer ends a call.
LEMMA AnswerStep ==
  ASSUME Inv, UNCHANGED users, NEW p \in Procs, NEW code \in Codes, Answer(p, code)
  PROVE  /\ CallsHold' /\ call' \in [Procs -> Calls]
         /\ edited' \subseteq {q \in Procs : call'[q].pc \in {"find", "insert"}}
         /\ \A q \in Procs : call'[q].pc = "find" => Len(call'[q].approvers) < Len(ApprovalOrder)
<1> DEFINE c == [NoCall EXCEPT !.code = code]
<1>1. c \in Calls
  BY NothingYet DEF Calls
<1>2. c.pc = "idle"
  BY DEF NoCall
<1>3. call' = [call EXCEPT ![p] = c] /\ edited' = edited \ {p}
  BY DEF Answer
<1> HIDE DEF c
<1>4. Known(p, c)
  BY <1>1, <1>2 DEF Known
<1> QED
  BY <1>1, <1>2, <1>3, <1>4, CallStep

\* While neither users nor requests change, only the calls matter.
LEMMA TablesStay ==
  ASSUME Inv, UNCHANGED <<users, requests>>,
         CallsHold', call' \in [Procs -> Calls],
         edited' \subseteq {q \in Procs : call'[q].pc \in {"find", "insert"}},
         \A q \in Procs : call'[q].pc = "find" => Len(call'[q].approvers) < Len(ApprovalOrder)
  PROVE  Inv'
<1>1. TypeOK'
  BY DEF Inv, TypeOK, Open
<1>2. PartiesExist'
  BY DEF Inv, PartiesExist, Open, LiveIds
<1> QED
  BY <1>1, <1>2 DEF Inv

\* A call comes in.
LEMMA ArriveKeepsInv ==
  ASSUME Inv, NEW p \in Procs, NEW i \in Ids, Arrive(p, i)
  PROVE  Inv'
<1> DEFINE c == [NoCall EXCEPT !.pc = "read", !.requester = i]
<1>1. /\ c \in Calls
      /\ c.pc = "read" /\ c.requester = i /\ c.approvers = <<>>
  <2>1. "read" \in Places
    BY DEF Places
  <2> QED
    BY <2>1, NothingYet DEF Calls
<1>2. p \notin edited
  BY DEF Arrive, Inv, TypeOK
<1>3. call' = [call EXCEPT ![p] = c] /\ UNCHANGED <<users, requests, edited>>
  BY DEF Arrive
<1> HIDE DEF c
<1>4. Known(p, c)
  BY <1>1 DEF Known
<1> QED
  BY <1>1, <1>2, <1>3, <1>4, CallStep, TablesStay

\* The requester is read, with class and jurusan.
LEMMA ReadRequesterKeepsInv ==
  ASSUME Inv, NEW p \in Procs, ReadRequester(p)
  PROVE  Inv'
<1> DEFINE u == users[call[p].requester]
           c == [call[p] EXCEPT !.pc = "find", !.class = u.profile.class, !.jurusan = u.profile.jurusan]
<1>1. /\ call[p] \in Calls /\ call[p].pc = "read"
      /\ call[p].requester \in Ids /\ call[p].approvers = <<>>
  BY DEF ReadRequester, Inv, TypeOK, CallsHold
<1>2. UNCHANGED <<users, requests>>
  BY DEF ReadRequester
<1>3. CASE \E code \in Codes : Answer(p, code)
  BY <1>2, <1>3, AnswerStep, TablesStay
<1>4. CASE u.status = "live" /\ call' = [call EXCEPT ![p] = c] /\ UNCHANGED edited
  <2>1. u.profile.class \in Classes \cup {None} /\ u.profile.jurusan \in Majors \cup {None}
    BY <1>1 DEF Inv, TypeOK, Rows, Profiles
  <2>2. c \in Calls
    <3>1. "find" \in Places
      BY DEF Places
    <3> QED
      BY <1>1, <2>1, <3>1 DEF Calls
  <2>3. /\ c.pc = "find" /\ c.requester = call[p].requester /\ c.approvers = <<>>
        /\ c.class = u.profile.class /\ c.jurusan = u.profile.jurusan
    BY <1>1 DEF Calls
  <2>4. call' = [call EXCEPT ![p] = c]
    BY <1>4
  <2> HIDE DEF c
  <2>5. Len(<<>>) < Len(ApprovalOrder)
    BY PklRoutingAssumption
  <2>6. FoundRight(c)
    BY <1>4, <2>3 DEF FoundRight
  <2>7. Known(p, c)
    BY <1>1, <2>2, <2>3, <2>5, <2>6 DEF Known
  <2> QED
    BY <1>2, <1>4, <2>2, <2>3, <2>4, <2>7, CallStep, TablesStay
<1> QED
  BY <1>3, <1>4 DEF ReadRequester, Codes

\* An approver is found for the next position.
LEMMA FindApproverKeepsInv ==
  ASSUME Inv, NEW p \in Procs, NEW i \in Ids, FindApprover(p, i)
  PROVE  Inv'
<1> DEFINE found == call[p].approvers
           n     == Len(found) + 1
           c     == [call[p] EXCEPT !.approvers = Append(found, i),
                                    !.pc = IF n = LastStep THEN "insert" ELSE "find"]
<1>1. /\ call[p] \in Calls /\ call[p].pc = "find" /\ call[p].requester \in Ids
      /\ Len(found) < Len(ApprovalOrder)
      /\ p \notin edited => FoundRight(call[p])
  BY DEF FindApprover, Inv, TypeOK, CallsHold
<1>2. found \in Seq(Ids) /\ Len(ApprovalOrder) \in Nat
  BY <1>1, PklRoutingAssumption DEF Calls
<1>3. /\ Append(found, i) \in Seq(Ids) /\ Append(found, i)[n] = i
      /\ Len(Append(found, i)) = n /\ n \in Nat /\ n <= Len(ApprovalOrder)
      /\ \A k \in 1 .. n - 1 : Append(found, i)[k] = found[k]
      /\ DOMAIN Append(found, i) = 1 .. n /\ DOMAIN found = 1 .. n - 1
  BY <1>1, <1>2
<1>4. call' = [call EXCEPT ![p] = c] /\ UNCHANGED <<users, requests, edited>>
  BY DEF FindApprover
<1>5. i \in Candidates(ApprovalOrder[n], call[p])
  BY DEF FindApprover
<1> HIDE DEF n
<1>6. c \in Calls
  <2>1. (IF n = LastStep THEN "insert" ELSE "find") \in Places
    BY DEF Places
  <2> QED
    BY <1>1, <1>3, <2>1 DEF Calls
<1>7. /\ c.pc = (IF n = LastStep THEN "insert" ELSE "find") /\ c.requester = call[p].requester
      /\ c.class = call[p].class /\ c.jurusan = call[p].jurusan
      /\ c.approvers = Append(found, i)
  BY <1>1 DEF Calls
<1> HIDE DEF c
<1>8. p \notin edited => FoundRight(c)
  <2> SUFFICES ASSUME p \notin edited
               PROVE  FoundRight(c)
    OBVIOUS
  <2>1. \A position : Candidates(position, c) = Candidates(position, call[p])
    BY <1>7 DEF Candidates
  <2>2. ASSUME NEW k \in 1 .. n
        PROVE  c.approvers[k] \in Candidates(ApprovalOrder[k], c)
    <3>1. CASE k = n
      BY <1>3, <1>5, <1>7, <2>1, <3>1
    <3>2. CASE k # n
      <4>1. k \in 1 .. n - 1
        BY <1>3, <3>2
      <4>2. found[k] \in Candidates(ApprovalOrder[k], call[p])
        BY <1>1, <1>3, <4>1 DEF FoundRight
      <4> QED
        BY <1>3, <1>7, <2>1, <4>1, <4>2
    <3> QED
      BY <3>1, <3>2
  <2>3. DOMAIN c.approvers = 1 .. n
    BY <1>3, <1>7
  <2> QED
    BY <1>1, <1>7, <2>2, <2>3 DEF FoundRight
<1>9. Known(p, c)
  BY <1>1, <1>2, <1>3, <1>4, <1>6, <1>7, <1>8 DEF Known, LastStep
<1> QED
  BY <1>4, <1>6, <1>7, <1>9, CallStep, TablesStay

\* The transaction inserts a request whose parties are there.
LEMMA InsertKeepsInv ==
  ASSUME Inv, NEW p \in Procs, NEW r \in Reqs, Insert(p, r)
  PROVE  Inv'
<1> DEFINE c   == call[p]
           new == [status |-> "open", requester |-> c.requester, approvers |-> c.approvers]
<1>1. /\ c \in Calls /\ c.pc = "insert" /\ c.requester \in Ids
      /\ Len(c.approvers) = Len(ApprovalOrder) /\ UNCHANGED users
      /\ requests \in [Reqs -> Requests]
  BY DEF Insert, Inv, TypeOK, CallsHold
<1>2. \E code \in Codes : Answer(p, code)
  BY DEF Insert, Codes
<1>3. /\ CallsHold' /\ call' \in [Procs -> Calls]
      /\ edited' \subseteq {q \in Procs : call'[q].pc \in {"find", "insert"}}
      /\ \A q \in Procs : call'[q].pc = "find" => Len(call'[q].approvers) < Len(ApprovalOrder)
  BY <1>1, <1>2, AnswerStep
<1>4. CASE UNCHANGED requests
  BY <1>1, <1>3, <1>4, TablesStay
<1>5. CASE /\ {c.requester} \cup ToSet(c.approvers) \subseteq LiveIds(users)
           /\ requests' = [requests EXCEPT ![r] = new]
  <2>1. new \in Requests
    BY <1>1 DEF Requests, Calls
  <2>2. /\ requests' \in [Reqs -> Requests] /\ requests'[r] = new
        /\ \A q \in Reqs \ {r} : requests'[q] = requests[q]
    BY <1>1, <1>5, <2>1
  <2>3. \A q \in Open' : q = r \/ (q \in Open /\ requests'[q] = requests[q])
    BY <2>2 DEF Open
  <2>4. TypeOK'
    BY <1>1, <1>3, <2>2, <2>3 DEF Inv, TypeOK
  <2>5. PartiesExist'
    BY <1>1, <1>5, <2>2, <2>3 DEF Inv, PartiesExist, LiveIds
  <2> QED
    BY <1>3, <2>4, <2>5 DEF Inv
<1> QED
  BY <1>4, <1>5 DEF Insert
-----------------------------------------------------------------------------
(* Edits of the table users.                                               *)

\* An edit that leaves everybody there keeps the invariant: nothing is known any
\* more of the lookups of the calls in flight.
LEMMA EditKeepsInv ==
  ASSUME Inv, users' \in [Ids -> Rows], LiveIds(users) \subseteq LiveIds(users'),
         Edited, UNCHANGED <<requests, call>>
  PROVE  Inv'
<1>1. \A p \in Procs : call[p].pc \in {"find", "insert"} => p \in edited'
  BY DEF Edited
<1>2. CallsHold'
  BY <1>1 DEF Inv, CallsHold
<1>3. TypeOK'
  BY DEF Inv, TypeOK, Edited, Open
<1>4. PartiesExist'
  BY DEF Inv, PartiesExist, Open
<1> QED
  BY <1>2, <1>3, <1>4 DEF Inv

\* Users come and change.
LEMMA ChangeKeepsInv ==
  ASSUME Inv, NEW i \in Ids, NEW profile \in Profiles, NEW role \in ValidRoles,
         AddUser(i, role, profile) \/ EditProfile(i, profile) \/ EditRole(i, role)
  PROVE  Inv'
<1>1. users \in [Ids -> Rows]
  BY DEF Inv, TypeOK
<1>2. PICK row \in Rows : row.status = "live" /\ users' = [users EXCEPT ![i] = row]
  <2>1. CASE AddUser(i, role, profile)
    BY <1>1, <2>1 DEF AddUser, NewRow, Rows
  <2>2. CASE EditProfile(i, profile)
    <3> DEFINE row == [users[i] EXCEPT !.profile = profile]
    <3>1. row \in Rows /\ row.status = "live"
      BY <1>1, <2>2 DEF EditProfile, Rows
    <3> QED
      BY <2>2, <3>1 DEF EditProfile
  <2>3. CASE EditRole(i, role)
    <3> DEFINE row == [users[i] EXCEPT !.role = role]
    <3>1. row \in Rows /\ row.status = "live"
      BY <1>1, <2>3 DEF EditRole, Rows
    <3> QED
      BY <2>3, <3>1 DEF EditRole
  <2> QED
    BY <2>1, <2>2, <2>3
<1>3. users' \in [Ids -> Rows] /\ LiveIds(users) \subseteq LiveIds(users')
  BY <1>1, <1>2 DEF LiveIds
<1> QED
  BY <1>3, EditKeepsInv DEF AddUser, EditProfile, EditRole

\* A user leaves with the requests made; nobody whose approval is asked can.
LEMMA RemoveKeepsInv ==
  ASSUME Inv, NEW i \in Ids, RemoveUser(i)
  PROVE  Inv'
<1>1. /\ users \in [Ids -> Rows] /\ requests \in [Reqs -> Requests]
      /\ users' = [users EXCEPT ![i] = DeletedRow]
  BY DEF RemoveUser, Inv, TypeOK
<1>2. DeletedRow \in Rows /\ DeletedRow.status = "deleted"
  BY NothingYet DEF DeletedRow, NoRow, Rows
<1>3. users' \in [Ids -> Rows] /\ \A j \in LiveIds(users) \ {i} : j \in LiveIds(users')
  BY <1>1, <1>2 DEF LiveIds
<1>4. /\ [NoRequest EXCEPT !.status = "gone"] \in Requests
      /\ [NoRequest EXCEPT !.status = "gone"].status # "open"
  BY NothingYet DEF Requests
<1>5. requests' \in [Reqs -> Requests]
  BY <1>1, <1>4 DEF RemoveUser
<1>6. \A r \in Open' : r \in Open /\ requests'[r] = requests[r] /\ requests[r].requester # i
  BY <1>1, <1>4 DEF RemoveUser, Open
<1>7. TypeOK'
  BY <1>3, <1>5, <1>6 DEF Inv, TypeOK, RemoveUser, Edited
<1>8. PartiesExist'
  <2>1. \A r \in Open : requests[r].requester # i => i \notin ToSet(requests[r].approvers)
    BY DEF RemoveUser, IsApprover
  <2> QED
    BY <1>3, <1>6, <2>1 DEF Inv, PartiesExist
<1>9. CallsHold'
  BY DEF Inv, CallsHold, RemoveUser, Edited
<1> QED
  BY <1>7, <1>8, <1>9 DEF Inv
-----------------------------------------------------------------------------
(* The theorems.                                                           *)

\* Every step keeps the invariant.
LEMMA InvStep == Inv /\ [Next]_vars => Inv'
<1> SUFFICES ASSUME Inv, [Next]_vars PROVE Inv'
  OBVIOUS
<1>1. ASSUME NEW p \in Procs, FindNobody(p) \/ Fail(p) PROVE Inv'
  <2>1. UNCHANGED <<users, requests>> /\ \E code \in Codes : Answer(p, code)
    BY <1>1 DEF FindNobody, Fail, Codes
  <2> QED
    BY <2>1, AnswerStep, TablesStay
<1>2. ASSUME NEW p \in Procs, NEW i \in Ids, Arrive(p, i) \/ FindApprover(p, i) PROVE Inv'
  BY <1>2, ArriveKeepsInv, FindApproverKeepsInv
<1>3. ASSUME NEW p \in Procs, ReadRequester(p) PROVE Inv'
  BY <1>3, ReadRequesterKeepsInv
<1>4. ASSUME NEW p \in Procs, NEW r \in Reqs, Insert(p, r) PROVE Inv'
  BY <1>4, InsertKeepsInv
<1>5. ASSUME NEW i \in Ids, NEW profile \in Asked,
             EditProfile(i, profile) \/ \E role \in ValidRoles : AddUser(i, role, profile)
      PROVE Inv'
  <2>1. profile \in Profiles
    BY PklRoutingAssumption
  <2>2. CASE \E role \in ValidRoles : AddUser(i, role, profile)
    BY <2>1, <2>2, ChangeKeepsInv
  <2>3. CASE EditProfile(i, profile)
    <3>1. users \in [Ids -> Rows] /\ users[i].status = "live"
      BY <2>3 DEF EditProfile, Inv, TypeOK
    <3> DEFINE row == [users[i] EXCEPT !.profile = profile]
    <3>2. row \in Rows /\ row.status = "live"
      BY <2>1, <3>1 DEF Rows
    <3>3. users' \in [Ids -> Rows] /\ LiveIds(users) \subseteq LiveIds(users')
      BY <2>3, <3>1, <3>2 DEF EditProfile, LiveIds
    <3> QED
      BY <2>3, <3>3, EditKeepsInv DEF EditProfile
  <2> QED
    BY <1>5, <2>2, <2>3
<1>6. ASSUME NEW i \in Ids, NEW role \in ValidRoles, EditRole(i, role) PROVE Inv'
  <2>1. NoProfile \in Profiles
    BY DEF NoProfile, Profiles
  <2> QED
    BY <1>6, <2>1, ChangeKeepsInv
<1>7. ASSUME NEW i \in Ids, RemoveUser(i) PROVE Inv'
  BY <1>7, RemoveKeepsInv
<1>8. CASE UNCHANGED vars
  BY <1>8 DEF vars, Inv, TypeOK, PartiesExist, CallsHold, FoundRight, Candidates, FindByPosition,
              LiveIds, Open
<1> QED
  BY <1>1, <1>2, <1>3, <1>4, <1>5, <1>6, <1>7, <1>8 DEF Next

\* What a call of Create relies on holds throughout.
THEOREM InvAlways == Spec => []Inv
  BY InvInit, InvStep, PTL DEF Spec

\* Every variable has its type, and every open request has an approver for each
\* position.
THEOREM TypeCorrect == Spec => []TypeOK
<1>1. Inv => TypeOK
  BY DEF Inv
<1> QED
  BY <1>1, InvAlways, PTL

\* The requester and the approvers of an open request are there, whatever was
\* deleted between the lookups and the insertion, and afterwards.
THEOREM PartiesStay == Spec => []PartiesExist
<1>1. Inv => PartiesExist
  BY DEF Inv
<1> QED
  BY <1>1, InvAlways, PTL

\* When users are not edited during the lookups of Create, every step of the request
\* goes to the one who holds its position for the requester.
THEOREM RoutedRight == Spec => RightApprovers
<1>1. ASSUME Inv, [Next]_vars, NEW p \in Procs \ edited, NEW r \in Reqs \ Open,
             call[p].pc = "insert", call'[p].pc = "idle", requests'[r].status = "open",
             None \notin {call[p].class, call[p].jurusan},
             NEW k \in DOMAIN requests'[r].approvers
      PROVE  Holds(requests'[r].approvers[k], k, users[requests'[r].requester].profile)
  <2>1. requests \in [Reqs -> Requests] /\ call \in [Procs -> Calls] /\ requests[r].status # "open"
    BY <1>1 DEF Inv, TypeOK, Open
  <2>2. requests' # requests /\ call' # call
    BY <1>1, <2>1
  <2>3. PICK q \in Procs, s \in Reqs : Insert(q, s)
    BY <1>1, <2>2 DEF Next, vars, Arrive, FindApprover, ReadRequester, FindNobody, Fail, AddUser,
                      EditProfile, EditRole, RemoveUser
  <2>4. q = p
    BY <1>1, <2>1, <2>3 DEF Insert, Answer
  <2>5. requests'[r].requester = call[p].requester /\ requests'[r].approvers = call[p].approvers
    BY <1>1, <2>1, <2>3, <2>4 DEF Insert
  <2>6. FoundRight(call[p])
    BY <1>1 DEF Inv, CallsHold
  <2>7. call[p].approvers[k] \in Candidates(ApprovalOrder[k], call[p])
    BY <1>1, <2>5, <2>6 DEF FoundRight
  <2> QED
    BY <1>1, <2>5, <2>6, <2>7 DEF FoundRight, Candidates, FindByPosition, LiveIds, Holds
<1>2. Inv /\ [Next]_vars => RoutesRight
  BY <1>1 DEF RoutesRight
<1> QED
  BY <1>2, InvAlways, PTL DEF Spec, RightApprovers
=============================================================================
