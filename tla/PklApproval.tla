----------------------------- MODULE PklApproval -----------------------------
(***************************************************************************)
(* The internship (PKL) approval workflow as the server runs it: every     *)
(* HTTP call is a handler that reads the request row, then its step rows,  *)
(* checks what it read in memory, and writes in one transaction whose      *)
(* UPDATEs are guarded by the statuses it had read.                        *)
(*                                                                         *)
(* Each SQL statement is one step, so that the statements of concurrent    *)
(* handlers interleave.  Row locks are PostgreSQL's at READ COMMITTED: an  *)
(* UPDATE that matches a row another transaction has locked waits and then *)
(* looks at the committed row again, one that matches no row returns at    *)
(* once.  What a transaction has written and not yet committed shows only  *)
(* as the locks it holds.                                                  *)
(***************************************************************************)
EXTENDS Naturals

CONSTANTS Reqs,      \* request ids that Create may hand out
          Gurus,     \* users with role guru
          Students,  \* users with role user
          Admin,     \* the admin, who reads, and deletes accounts
          Procs,     \* handler goroutines, of one or several servers
          N,         \* number of approval steps (len(ApprovalOrder), 4)
          Chains,    \* the approver tuples that routing may come up with
          Ops,       \* the handlers that are called: a bound on what is explored
          OverlappingDecides, \* may one guru have two decide calls in flight?
          Free, Nil  \* no lock holder, no value

Users == Gurus \cup Students \cup {Admin}

ASSUME PklAssumption ==
  /\ N \in Nat \ {0}
  /\ Chains \subseteq [1 .. N -> Gurus]
  /\ Ops \subseteq {"decide", "cancel", "get"}
  /\ OverlappingDecides \in BOOLEAN
  /\ Free \notin Procs \cup {Admin}
  /\ Admin \notin Procs \cup Gurus \cup Students
  /\ Nil \notin Reqs \cup Users

VARIABLES
  row,      \* pkl_requests: status, current_step, requester, approvers
  steps,    \* pkl_approval_steps: the status of each step of each request
  reqLock,  \* which transaction holds the lock of a request row
  stepLock, \* ... of a step row
  call      \* what each handler is doing

db    == <<row, steps>>
locks == <<reqLock, stepLock>>
vars  == <<row, steps, reqLock, stepLock, call>>

Order == 1 .. N

Open         == {"pending", "needs_further_action"}
Existing     == Open \cup {"accepted", "rejected", "cancelled"}
StepStatuses == {"pending", "approved", "rejected", "needs_further_action"}
Decisions    == {"approve", "reject", "needs_further_action"}

NoSteps  == [i \in Order |-> "none"]
NewSteps == [i \in Order |-> "pending"]

Rows == [status : Existing \cup {"unborn", "deleted"}, current : Nat,
         owner : Students \cup {Nil}, approver : [Order -> Gurus \cup {Nil}]]

Exists(r) == row[r].status \in Existing

-----------------------------------------------------------------------------
(* The calls: which handler, on which request, by whom, with which body.   *)

\* For a decide call the body is the decision, "maybe" being any other text;
\* for a cancel call it says whether there is a reason.
Bodies == [decide |-> Decisions \cup {"maybe"},
           cancel |-> {"reason", ""},
           get    |-> {""}]

Errors ==
  {"none", "pkl request not found", "pkl request has no approval steps",
   "invalid request step state", "forbidden: not your step to decide",
   "step already decided", "request is not awaiting a decision",
   "request already needs further action", "invalid decision",
   "approval step already decided", "pkl request status changed",
   "cancellation reason is required", "forbidden: not the requester",
   "only pending or needs_further_action requests can be cancelled",
   "request cannot be cancelled in its current state",
   "forbidden: not an approver on this request", "database error"}

\* Where a handler is: before ByID, before StepsByRequest, before the first
\* and the second UPDATE, before COMMIT.
Places == {"idle", "readRequest", "readSteps", "writeStep", "writeRequest",
           "commit"}

Calls ==
  [pc : Places, op : {"decide", "cancel", "get"}, r : Reqs \cup {Nil},
   caller : Users \cup {Nil}, body : Decisions \cup {"maybe", "reason", ""},
   seen : Existing \cup {"unborn"}, current : Nat, k : Order,
   steps : [Order -> StepStatuses \cup {"none"}], err : Errors]

NoCall == [pc |-> "idle", op |-> "get", r |-> Nil, caller |-> Nil, body |-> "",
           seen |-> "unborn", current |-> 1, k |-> 1, steps |-> NoSteps,
           err |-> "none"]

\* Slip: one of the errors of the second UPDATE is not mapped.
DecideCodeUnmapped(err) ==
  CASE err = "none" -> 200
    [] err \in {"step already decided", "request already needs further action",
                "request is not awaiting a decision", "approval step already decided"}
         -> 409
    [] OTHER -> 500

\* The HTTP status that Handler.Decide answers an error with.
DecideCode(err) ==
  CASE err = "none" -> 200
    [] err = "pkl request not found" -> 404
    [] err = "forbidden: not your step to decide" -> 403
    [] err = "invalid decision" -> 400
    [] err \in {"step already decided", "request already needs further action",
                "request is not awaiting a decision",
                "approval step already decided", "pkl request status changed"}
         -> 409
    [] OTHER -> 500

-----------------------------------------------------------------------------
(* What Decide computes from the rows it has read.                         *)

\* Slip: any guru settles the question.
QuestionsOfAnyone(r, u) == {i \in Order : steps[r][i] = "needs_further_action"}

\* The guru's own step that asked for more, if there is one.
OwnQuestions(r, u) ==
  {i \in Order : row[r].approver[i] = u /\ steps[r][i] = "needs_further_action"}

First(S) == CHOOSE i \in S : \A j \in S : i <= j

\* Slip: current_step is taken for an index that starts at 0.
MyStepZeroBased(c) == c.current - 1

\* The step a decide call is about: the one the request row points at or,
\* when the request is held up, the caller's own.
MyStep(c) == IF c.seen = "pending" THEN c.current
                                   ELSE First(OwnQuestions(c.r, c.caller))

\* The early returns of Decide between its reads and its write, in order.
DecideRefusal(c) ==
  IF steps[c.r] = NoSteps THEN "pkl request has no approval steps"
  ELSE IF c.seen = "pending" THEN
    IF c.current \notin Order THEN "invalid request step state"
    ELSE IF row[c.r].approver[c.current] # c.caller
      THEN "forbidden: not your step to decide"
    ELSE IF steps[c.r][c.current] # "pending" THEN "step already decided"
    ELSE IF c.body \notin Decisions THEN "invalid decision"
    ELSE "none"
  ELSE IF c.seen = "needs_further_action" THEN
    IF OwnQuestions(c.r, c.caller) = {} THEN "forbidden: not your step to decide"
    ELSE IF c.body = "needs_further_action"
      THEN "request already needs further action"
    ELSE IF c.body \notin Decisions THEN "invalid decision"
    ELSE "none"
  ELSE "request is not awaiting a decision"

\* What an accepted decision writes.
NextStep(c) == CASE c.body = "approve" -> "approved"
                 [] c.body = "reject"  -> "rejected"
                 [] OTHER -> "needs_further_action"

\* Slip: the last step is recognised by its index, not by its sequence.
NextStatusOffByOne(c) == CASE c.body = "approve" /\ c.k = N - 1 -> "accepted"
                           [] c.body = "approve" /\ c.k # N - 1 -> "pending"
                           [] c.body = "reject" -> "rejected"
                           [] OTHER -> "needs_further_action"

NextStatus(c) == CASE c.body = "approve" /\ c.k = N -> "accepted"
                   [] c.body = "approve" /\ c.k # N -> "pending"
                   [] c.body = "reject" -> "rejected"
                   [] OTHER -> "needs_further_action"

\* Slips: the pointer moves past the last step; it does not move at all.
NextCurrentAlways(c) == IF c.body = "approve" THEN c.current + 1 ELSE c.current
NextCurrentNever(c)  == c.current

NextCurrent(c) ==
  IF c.body = "approve" /\ c.k # N THEN c.current + 1 ELSE c.current

\* Slip: an UPDATE without the clause on the status.
UnguardedStep(c)   == TRUE
UnguardedDecide(c) == TRUE
UnguardedCancel(c) == TRUE

\* The guards of the UPDATEs: the row must still be as the handler read it.
StepGuard(c)   == steps[c.r][c.k] = c.seen
DecideGuard(c) == row[c.r].status = c.seen
CancelGuard(c) == row[c.r].status \in Open

RequestGuard(c) == IF c.op = "decide" THEN DecideGuard(c) ELSE CancelGuard(c)

-----------------------------------------------------------------------------
Init ==
  /\ row = [r \in Reqs |-> [status |-> "unborn", current |-> 1, owner |-> Nil,
                            approver |-> [i \in Order |-> Nil]]]
  /\ steps = [r \in Reqs |-> NoSteps]
  /\ reqLock = [r \in Reqs |-> Free]
  /\ stepLock = [r \in Reqs |-> [i \in Order |-> Free]]
  /\ call = [p \in Procs |-> NoCall]

\* Create: the request and its steps appear in one transaction.  How the
\* approvers are found is not modelled here: any tuple of Chains will do.
Create(r, s, chain) ==
  /\ row[r].status = "unborn"
  /\ row' = [row EXCEPT ![r] = [status |-> "pending", current |-> 1,
                                owner |-> s, approver |-> chain]]
  /\ steps' = [steps EXCEPT ![r] = NewSteps]
  /\ UNCHANGED <<locks, call>>

\* A call arrives.  The decide route takes gurus, the cancel route students;
\* an idle handler still shows how its last call ended.
Arrive(p, op, r, u, body) ==
  /\ call[p].pc = "idle"
  /\ u \in (CASE op = "decide" -> Gurus [] op = "cancel" -> Students
              [] OTHER -> Users)
  /\ body \in Bodies[op]
  /\ op = "decide" => \/ OverlappingDecides
                      \/ \A q \in Procs : \/ call[q].pc = "idle"
                                          \/ call[q].op # "decide"
                                          \/ call[q].caller # u
  /\ call' = [call EXCEPT ![p] =
       IF op = "cancel" /\ body = ""
       THEN [NoCall EXCEPT !.op = op, !.err = "cancellation reason is required"]
       ELSE [NoCall EXCEPT !.op = op, !.pc = "readRequest",
                           !.r = r, !.caller = u, !.body = body]]
  /\ UNCHANGED <<db, locks>>

\* The handler answers; a transaction it had open is over.
Answer(p, err) ==
  call' = [call EXCEPT ![p] = [NoCall EXCEPT !.op = call[p].op, !.err = err]]

\* Slip: the rollback is forgotten.
UnlockNothing(p) == UNCHANGED locks

Unlock(p) ==
  /\ reqLock' = [r \in Reqs |-> IF reqLock[r] = p THEN Free ELSE reqLock[r]]
  /\ stepLock' = [r \in Reqs |-> [i \in Order |->
       IF stepLock[r][i] = p THEN Free ELSE stepLock[r][i]]]

CancelRefusal(c) ==
  IF row[c.r].owner # c.caller THEN "forbidden: not the requester"
  ELSE IF row[c.r].status \notin Open
    THEN "only pending or needs_further_action requests can be cancelled"
  ELSE "none"

\* ByID: the request row, and for a cancel call all that it checks.
ReadRequest(p) ==
  LET c == call[p] IN
  /\ c.pc = "readRequest"
  /\ \/ /\ ~Exists(c.r)
        /\ Answer(p, "pkl request not found")
     \/ /\ Exists(c.r)
        /\ c.op = "cancel"
        /\ IF CancelRefusal(c) # "none" THEN Answer(p, CancelRefusal(c))
           ELSE call' = [call EXCEPT ![p].pc = "writeRequest",
                                     ![p].seen = row[c.r].status]
     \/ /\ Exists(c.r)
        /\ c.op # "cancel"
        /\ call' = [call EXCEPT ![p].pc = "readSteps",
                                ![p].seen = row[c.r].status,
                                ![p].current = row[c.r].current]
  /\ UNCHANGED <<db, locks>>

\* StepsByRequest of a decide call, and the checks on both reads.
ReadSteps(p) ==
  LET c == call[p] IN
  /\ c.pc = "readSteps"
  /\ c.op = "decide"
  /\ IF DecideRefusal(c) # "none" THEN Answer(p, DecideRefusal(c))
     ELSE call' = [call EXCEPT ![p].pc = "writeStep", ![p].k = MyStep(c)]
  /\ UNCHANGED <<db, locks>>

\* Who may see a request, given the step rows that were read.
GetRefusal(c) ==
  IF c.caller \in Gurus /\ \/ steps[c.r] = NoSteps
                           \/ \A i \in Order : row[c.r].approver[i] # c.caller
    THEN "forbidden: not an approver on this request"
  ELSE IF c.caller \in Students /\ row[c.r].owner # c.caller
    THEN "forbidden: not the requester"
  ELSE "none"

\* StepsByRequest of a get call, and its answer.
ReadStepsForGet(p) ==
  LET c == call[p] IN
  /\ c.pc = "readSteps"
  /\ c.op = "get"
  /\ IF GetRefusal(c) # "none" THEN Answer(p, GetRefusal(c))
     ELSE call' = [call EXCEPT ![p] = [NoCall EXCEPT !.op = "get", !.seen = c.seen,
                                       !.current = c.current, !.steps = steps[c.r]]]
  /\ UNCHANGED <<db, locks>>

\* UPDATE pkl_approval_steps ... WHERE status = expectedStepStatus
WriteStep(p) ==
  LET c == call[p] IN
  /\ c.pc = "writeStep"
  /\ \/ /\ ~StepGuard(c)
        /\ Answer(p, "approval step already decided")
        /\ UNCHANGED locks
     \/ /\ StepGuard(c)
        /\ stepLock[c.r][c.k] = Free
        /\ stepLock' = [stepLock EXCEPT ![c.r][c.k] = p]
        /\ call' = [call EXCEPT ![p].pc = "writeRequest"]
        /\ UNCHANGED reqLock
  /\ UNCHANGED db

\* UPDATE pkl_requests ... WHERE status = expectedReqStatus, or, for a cancel
\* call, WHERE status IN ('pending', 'needs_further_action')
WriteRequest(p) ==
  LET c == call[p] IN
  /\ c.pc = "writeRequest"
  /\ \/ /\ ~RequestGuard(c)
        /\ Answer(p, IF c.op = "decide" THEN "pkl request status changed"
                     ELSE "request cannot be cancelled in its current state")
        /\ Unlock(p)
     \/ /\ RequestGuard(c)
        /\ reqLock[c.r] = Free
        /\ reqLock' = [reqLock EXCEPT ![c.r] = p]
        /\ call' = [call EXCEPT ![p].pc = "commit"]
        /\ UNCHANGED stepLock
  /\ UNCHANGED db

\* COMMIT takes effect, but its answer may be lost on the way back.
Commit(p, err) ==
  LET c == call[p] IN
  /\ c.pc = "commit"
  /\ \/ /\ c.op = "decide"
        /\ steps' = [steps EXCEPT ![c.r][c.k] = NextStep(c)]
        /\ row' = [row EXCEPT ![c.r].status = NextStatus(c),
                              ![c.r].current = NextCurrent(c)]
     \/ /\ c.op = "cancel"
        /\ row' = [row EXCEPT ![c.r].status = "cancelled"]
        /\ UNCHANGED steps
  /\ Unlock(p)
  /\ Answer(p, err)

\* A statement fails, the client hangs up, the server goes down: whatever the
\* handler had not committed is rolled back.
Fail(p) ==
  /\ call[p].pc # "idle"
  /\ Unlock(p)
  /\ Answer(p, "database error")
  /\ UNCHANGED db

-----------------------------------------------------------------------------
(* Deleting the account of a student cascades to the student's requests:   *)
(* the request rows are locked one by one, then the step rows.             *)

OwnedBy(s) == {r \in Reqs : Exists(r) /\ row[r].owner = s}

PurgeLock(s, r) ==
  /\ r \in OwnedBy(s)
  /\ reqLock[r] = Free
  /\ reqLock' = [reqLock EXCEPT ![r] = Admin]
  /\ UNCHANGED <<db, stepLock, call>>

PurgeCommit(s) ==
  /\ OwnedBy(s) # {}
  /\ \A r \in OwnedBy(s) : /\ reqLock[r] = Admin
                           /\ \A i \in Order : stepLock[r][i] = Free
  /\ row' = [r \in Reqs |-> IF r \in OwnedBy(s)
                            THEN [row[r] EXCEPT !.status = "deleted"] ELSE row[r]]
  /\ steps' = [r \in Reqs |-> IF r \in OwnedBy(s) THEN NoSteps ELSE steps[r]]
  /\ reqLock' = [r \in Reqs |-> IF r \in OwnedBy(s) THEN Free ELSE reqLock[r]]
  /\ UNCHANGED <<stepLock, call>>

PurgeAbort ==
  /\ \E r \in Reqs : reqLock[r] = Admin
  /\ Unlock(Admin)
  /\ UNCHANGED <<db, call>>

\* A decide call holds a step row and waits for its request row, which the
\* cascade holds while it waits for that step row: PostgreSQL's detector ends
\* one of the two.
Deadlocked(p) ==
  /\ call[p].pc = "writeRequest"
  /\ RequestGuard(call[p])
  /\ reqLock[call[p].r] = Admin
  /\ stepLock[call[p].r][call[p].k] = p

DeadlockVictim(p) == Deadlocked(p) /\ (Fail(p) \/ PurgeAbort)

-----------------------------------------------------------------------------
HandlerStep(p) ==
  \/ ReadRequest(p) \/ ReadSteps(p) \/ ReadStepsForGet(p)
  \/ WriteStep(p) \/ WriteRequest(p)
  \/ Commit(p, "none") \/ Commit(p, "database error")

Next ==
  \/ \E r \in Reqs, s \in Students, chain \in Chains : Create(r, s, chain)
  \/ \E p \in Procs :
       \/ \E op \in Ops, r \in Reqs, u \in Users :
            \E body \in Bodies[op] : Arrive(p, op, r, u, body)
       \/ HandlerStep(p)
       \/ Fail(p)
  \/ \E s \in Students : (\E r \in Reqs : PurgeLock(s, r)) \/ PurgeCommit(s)
  \/ PurgeAbort

Spec == Init /\ [][Next]_vars

\* A goroutine runs on until it waits for a lock; PostgreSQL hands a row lock
\* to its waiters in turn, so that none is passed over for ever; a cascade
\* that has begun goes on; and a deadlock is detected.
Fairness ==
  /\ \A p \in Procs : /\ WF_vars(ReadRequest(p) \/ ReadSteps(p) \/ ReadStepsForGet(p))
                      /\ WF_vars(Commit(p, "none") \/ Commit(p, "database error"))
                      /\ SF_vars(WriteStep(p))
                      /\ SF_vars(WriteRequest(p))
                      /\ WF_vars(DeadlockVictim(p))
  /\ \A s \in Students :
       /\ SF_vars(PurgeCommit(s))
       /\ \A r \in Reqs :
            SF_vars((\E q \in OwnedBy(s) : reqLock[q] = Admin) /\ PurgeLock(s, r))

FairSpec == Spec /\ Fairness

-----------------------------------------------------------------------------
(* Properties.                                                             *)

\* Every variable has its type; an active call has a request and a caller.
TypeOK ==
  /\ row \in [Reqs -> Rows]
  /\ steps \in [Reqs -> [Order -> StepStatuses \cup {"none"}]]
  /\ reqLock \in [Reqs -> Procs \cup {Admin, Free}]
  /\ stepLock \in [Reqs -> [Order -> Procs \cup {Free}]]
  /\ call \in [Procs -> Calls]
  /\ \A p \in Procs : call[p].pc # "idle" => call[p].r \in Reqs

\* The approvers are asked in the order of their positions: a step is touched
\* only when all the steps before it are approved, however the calls overlap.
DecidedInOrder ==
  \A r \in Reqs : Exists(r) =>
    \A i, j \in Order : i < j /\ steps[r][j] # "pending" => steps[r][i] = "approved"

\* The status on the request row, written by another UPDATE than the steps,
\* always says what the steps say: accepted exactly when all have approved,
\* rejected when one has rejected, held up when one has a question.
StatusMatchesSteps ==
  \A r \in Reqs : Exists(r) =>
    LET some(x) == \E i \in Order : steps[r][i] = x
    IN /\ row[r].status = "accepted" <=> \A i \in Order : steps[r][i] = "approved"
       /\ row[r].status = "rejected" <=> some("rejected")
       /\ row[r].status = "needs_further_action" => some("needs_further_action")
       /\ row[r].status = "pending" => ~some("needs_further_action")

\* pkl.md: approving "resumes the next step".  While a request is pending,
\* current_step names the step whose turn it is, so that its approver can act.
PointsAtTheTurn ==
  \A r \in Reqs : row[r].status = "pending" =>
    /\ row[r].current \in Order
    /\ steps[r][row[r].current] = "pending"
    /\ \A i \in 1 .. row[r].current - 1 : steps[r][i] = "approved"

\* What is decided stays decided: a closed request and an approved or rejected
\* step change no more, unless the requester's account goes.
KeepsDecisions ==
  \A r \in Reqs : row'[r].status # "deleted" =>
    /\ row[r].status \in Existing \ Open => row'[r].status = row[r].status
    /\ \A i \in Order : steps[r][i] \in {"approved", "rejected"}
                          => steps'[r][i] = steps[r][i]

DecisionsAreFinal == [][KeepsDecisions]_vars

\* A step changes only by a decide call of the guru it is assigned to, who is
\* then the only one to change anything; what the guru asked for is settled
\* by nobody else.
DecidesOwnStep ==
  \A r \in Reqs, i \in Order :
    (Exists(r) /\ row'[r].status # "deleted" /\ steps'[r][i] # steps[r][i]) =>
      /\ \E p \in Procs : /\ call[p].op = "decide" /\ call[p].pc = "commit"
                          /\ call[p].r = r /\ call[p].caller = row[r].approver[i]
      /\ \A j \in Order \ {i} : steps'[r][j] = steps[r][j]

OnlyItsApproverDecides == [][DecidesOwnStep]_vars

\* "Concurrent decisions and cancels are guarded by optimistic checks;
\* conflicts return 409" (pkl.md): a decide call that passed its checks and then
\* finds that another call was faster is answered 409.
LostRace(p) == /\ call[p].op = "decide"
               /\ call[p].pc \in {"writeStep", "writeRequest"}
               /\ call'[p].pc = "idle"
               /\ call'[p].err # "database error"

LosersGet409 == \A p \in Procs : LostRace(p) => DecideCode(call'[p].err) = 409

LostDecideIs409 == [][LosersGet409]_vars

\* current_step stays within the bounds that the table checks, and is never
\* ahead of the approvals, although a decide call computes it from a row that
\* may be out of date when it writes.
PointerNotAhead ==
  \A r \in Reqs : Exists(r) =>
    /\ row[r].current \in Order
    /\ \A i \in 1 .. row[r].current - 1 : steps[r][i] = "approved"

\* What a get call has read of the request row is not ahead of the steps st.
NotAheadOf(c, st) ==
  /\ c.seen = "accepted" => \A i \in Order : st[i] = "approved"
  /\ c.seen = "rejected" => \E i \in Order : st[i] = "rejected"
  /\ c.seen = "needs_further_action" => \E i \in Order : st[i] # "pending"
  /\ \A i \in 1 .. c.current - 1 : st[i] = "approved"

\* Get reads the request and then the steps, in two statements: what it
\* answers may be of two moments, but the steps never lag behind the status.
GetIsNotTorn ==
  \A p \in Procs :
    LET c == call[p] IN
    (c.pc = "idle" /\ c.op = "get" /\ c.err = "none" /\ c.steps # NoSteps)
      => NotAheadOf(c, c.steps)

\* Every call is answered: handlers and the cascade of an account deletion
\* never wait for each other for ever.
EveryCallIsAnswered ==
  \A p \in Procs : call[p].pc # "idle" ~> call[p].pc = "idle"

\* The handlers, their locks and their guards implement the approval chain.
Chain == INSTANCE ApprovalChain WITH status <- [r \in Reqs |-> row[r].status]

ImplementsChain == Chain!ChainSpec
-----------------------------------------------------------------------------
(* Why it works.  A decide call cannot trust current_step when it writes,  *)
(* for the row may have moved on; what it can trust is that the steps      *)
(* before the one it had read are approved, since approvals are final, and *)
(* that the rows it has locked still have the statuses that it expects.    *)

Deciding(c) == c.op = "decide" /\ c.pc \in {"writeStep", "writeRequest", "commit"}

\* The steps of a request that is not in the table are not there either.
RowsTogether ==
  \A r \in Reqs, i \in Order : Exists(r) <=> steps[r][i] # "none"

\* What a handler read before it wrote is still true enough.
ReadsHoldFor(p) ==
  LET c == call[p] IN
  /\ c.pc \notin {"idle", "readRequest"} => row[c.r].status # "unborn"
  /\ (c.op = "decide" /\ c.pc \notin {"idle", "readRequest"} /\ Exists(c.r)) =>
       /\ c.current \in Order
       /\ \A i \in 1 .. c.current - 1 : steps[c.r][i] = "approved"
  /\ Deciding(c) =>
       /\ c.seen \in Open
       /\ c.body \in Decisions
       /\ c.seen = "needs_further_action" => c.body # "needs_further_action"
       /\ c.seen = "pending" => c.k = c.current
       /\ row[c.r].approver[c.k] = c.caller

\* A transaction owns the rows it has matched, and they still match.
LocksHoldFor(p) ==
  LET c == call[p] IN
  /\ (c.op = "decide" /\ c.pc \in {"writeRequest", "commit"}) =>
       stepLock[c.r][c.k] = p /\ StepGuard(c)
  /\ c.pc = "commit" => reqLock[c.r] = p /\ RequestGuard(c)
  /\ c.pc \in {"writeRequest", "commit"} => c.op \in {"decide", "cancel"}
  /\ c.pc = "writeStep" => c.op = "decide"

ReadsHold == \A p \in Procs : ReadsHoldFor(p)
LocksHold == \A p \in Procs : LocksHoldFor(p)

\* The inductive invariant.
Inv == /\ TypeOK /\ RowsTogether /\ DecidedInOrder /\ StatusMatchesSteps
       /\ PointerNotAhead /\ ReadsHold /\ LocksHold

\* What a get call relies on between its two reads.
GetReadsHold ==
  \A p \in Procs :
    LET c == call[p] IN
    (c.pc = "readSteps" /\ c.op = "get") =>
      /\ row[c.r].status # "unborn" /\ c.current \in Order
      /\ Exists(c.r) => NotAheadOf(c, steps[c.r])

GetInv == GetReadsHold /\ GetIsNotTorn

\* A guru with one decide call at a time sees no other question of theirs than
\* the one that current_step pointed at when that call read it.
QuestionAtPointer ==
  \A r \in Reqs : row[r].status = "needs_further_action" =>
    steps[r][row[r].current] = "needs_further_action"

OneDecideEach ==
  \A p, q \in Procs :
    (/\ call[p].pc # "idle" /\ call[p].op = "decide"
     /\ call[q].pc # "idle" /\ call[q].op = "decide"
     /\ call[p].caller = call[q].caller) => p = q

QuestionsKept ==
  \A p \in Procs :
    LET c == call[p] IN
    (/\ c.op = "decide" /\ c.pc \notin {"idle", "readRequest"}
     /\ c.seen = "needs_further_action")
      => OwnQuestions(c.r, c.caller) \subseteq {c.current}

TurnInv == QuestionAtPointer /\ OneDecideEach /\ QuestionsKept /\ PointsAtTheTurn
=============================================================================
