-------------------------- MODULE PklApprovalProofs --------------------------
(***************************************************************************)
(* Proofs about the approval workflow, for every number of requests, users *)
(* and handlers, every length of the chain and every routing.              *)
(*                                                                         *)
(* Inv is inductive: TypeStep shows the types, InvStep the rest, one step  *)
(* per action.  The difficult action is Commit of a decide call, which     *)
(* writes values computed from rows that may have moved on: AtCommit says  *)
(* what such a call still knows.  The action properties and the refinement *)
(* follow from Inv and from what each action does to the tables            *)
(* (HowTablesChange, DecideEffect, CancelEffect).                          *)
(***************************************************************************)
EXTENDS PklApproval, TLAPS

\* The chain is not empty, and its steps are numbers.
LEMMA OneInOrder == 1 \in Order /\ Order \subseteq Nat
  BY PklAssumption DEF Order

\* The idle handler is a handler.
LEMMA NoCallType == NoCall \in Calls
  BY OneInOrder DEF NoCall, Calls, Places, NoSteps, StepStatuses, Errors

\* The empty tables, with every handler idle, have their types.
LEMMA TypeInit == Init => TypeOK
  <1> SUFFICES ASSUME Init PROVE TypeOK
    OBVIOUS
  <1>1. row \in [Reqs -> Rows]
    BY OneInOrder DEF Init, Rows
  <1>2. /\ steps \in [Reqs -> [Order -> StepStatuses \cup {"none"}]]
        /\ reqLock \in [Reqs -> Procs \cup {Admin, Free}]
        /\ stepLock \in [Reqs -> [Order -> Procs \cup {Free}]]
    BY DEF Init, NoSteps
  <1>3. /\ call \in [Procs -> Calls]
        /\ \A p \in Procs : call[p].pc # "idle" => call[p].r \in Reqs
    BY NoCallType DEF Init, NoCall
  <1>4. QED
    BY <1>1, <1>2, <1>3 DEF TypeOK

\* An answer leaves a well-typed, idle handler behind.
LEMMA AnswerType ==
  ASSUME TypeOK, NEW p \in Procs, NEW err \in Errors, Answer(p, err)
  PROVE  /\ call' \in [Procs -> Calls]
         /\ \A q \in Procs : call'[q].pc # "idle" => call'[q].r \in Reqs
  <1>1. [NoCall EXCEPT !.op = call[p].op, !.err = err] \in Calls
    BY NoCallType DEF TypeOK, Calls
  <1>2. [NoCall EXCEPT !.op = call[p].op, !.err = err].pc = "idle"
    BY DEF NoCall
  <1>3. QED
    BY <1>1, <1>2 DEF TypeOK, Answer

\* A transaction that ends leaves well-typed locks behind.
LEMMA UnlockType ==
  ASSUME TypeOK, NEW p \in Procs \cup {Admin}, Unlock(p)
  PROVE  /\ reqLock' \in [Reqs -> Procs \cup {Admin, Free}]
         /\ stepLock' \in [Reqs -> [Order -> Procs \cup {Free}]]
  BY DEF TypeOK, Unlock

\* At most one step of a request asks for more, so that the first is the only
\* one.
LEMMA OneQuestion ==
  ASSUME TypeOK, RowsTogether, DecidedInOrder, NEW r \in Reqs, NEW u,
         OwnQuestions(r, u) # {}
  PROVE  First(OwnQuestions(r, u)) \in OwnQuestions(r, u)
  <1>1. PICK i \in Order : i \in OwnQuestions(r, u)
    BY DEF OwnQuestions
  <1>2. Exists(r)
    BY <1>1 DEF OwnQuestions, RowsTogether
  <1>3. ASSUME NEW j \in OwnQuestions(r, u) PROVE j = i
    <2>1. /\ i \in Order /\ steps[r][i] = "needs_further_action"
          /\ j \in Order /\ steps[r][j] = "needs_further_action"
      BY <1>1 DEF OwnQuestions
    <2>2. ~(i < j) /\ ~(j < i)
      BY <1>2, <2>1 DEF DecidedInOrder
    <2>3. QED
      BY <2>1, <2>2, OneInOrder
  <1>4. i \in Nat
    BY OneInOrder
  <1>5. \E x \in OwnQuestions(r, u) : \A j \in OwnQuestions(r, u) : x <= j
    BY <1>1, <1>3, <1>4
  <1>6. QED
    BY <1>5, Zenon DEF First

\* The step that a decide call settles on is a step of the chain.
LEMMA MyStepIsAStep ==
  ASSUME TypeOK, RowsTogether, DecidedInOrder,
         NEW c \in Calls, c.r \in Reqs, DecideRefusal(c) = "none"
  PROVE  /\ MyStep(c) \in Order
         /\ steps[c.r][MyStep(c)] = c.seen
         /\ row[c.r].approver[MyStep(c)] = c.caller
         /\ c.seen \in Open
         /\ c.body \in Decisions
         /\ c.seen = "needs_further_action" => c.body # "needs_further_action"
         /\ c.seen = "pending" => MyStep(c) = c.current
  <1>1. c.seen \in Open
    BY DEF DecideRefusal, Open
  <1>2. CASE c.seen = "pending"
    BY <1>2 DEF DecideRefusal, MyStep, Open
  <1>3. CASE c.seen = "needs_further_action"
    <2>1. OwnQuestions(c.r, c.caller) # {}
      BY <1>3 DEF DecideRefusal
    <2>2. First(OwnQuestions(c.r, c.caller)) \in OwnQuestions(c.r, c.caller)
      BY <2>1, OneQuestion
    <2>3. QED
      BY <1>3, <2>2 DEF DecideRefusal, MyStep, OwnQuestions, Open
  <1>4. QED
    BY <1>1, <1>2, <1>3 DEF Open

\* What a decide call writes fits the columns it writes to.
LEMMA NextTypes ==
  ASSUME NEW c \in Calls
  PROVE  /\ NextStep(c) \in StepStatuses
         /\ NextStatus(c) \in Existing
         /\ NextCurrent(c) \in Nat
  <1>1. NextStep(c) \in StepStatuses
    BY DEF NextStep, StepStatuses
  <1>2. NextStatus(c) \in Existing
    BY DEF NextStatus, Existing, Open
  <1>3. NextCurrent(c) \in Nat
    <2>1. c.current \in Nat
      BY DEF Calls
    <2>2. QED
      BY <2>1 DEF NextCurrent
  <1>4. QED
    BY <1>1, <1>2, <1>3

\* The type of call when the handler p goes on with a record c.
LEMMA CallUpdate ==
  ASSUME TypeOK, NEW p \in Procs, NEW c \in Calls, c.pc # "idle" => c.r \in Reqs,
         call' = [call EXCEPT ![p] = c]
  PROVE  /\ call' \in [Procs -> Calls]
         /\ \A q \in Procs : call'[q].pc # "idle" => call'[q].r \in Reqs
  BY DEF TypeOK

\* Every step keeps the types.  ReadSteps needs more than types: the step that
\* a decide call picks among its questions exists because the steps are decided
\* in order.
LEMMA TypeStep == TypeOK /\ RowsTogether /\ DecidedInOrder /\ [Next]_vars => TypeOK'
  <1> SUFFICES ASSUME TypeOK, RowsTogether, DecidedInOrder, [Next]_vars PROVE TypeOK'
    OBVIOUS
  <1> USE OneInOrder
  <1>1. ASSUME NEW r \in Reqs, NEW s \in Students, NEW chain \in Chains,
               Create(r, s, chain)
        PROVE TypeOK'
    <2>1. [status |-> "pending", current |-> 1, owner |-> s, approver |-> chain] \in Rows
      BY PklAssumption DEF Rows, Existing, Open, Order
    <2>2. row' \in [Reqs -> Rows]
      BY <1>1, <2>1 DEF Create, TypeOK
    <2>3. steps' \in [Reqs -> [Order -> StepStatuses \cup {"none"}]]
      BY <1>1 DEF Create, TypeOK, NewSteps, StepStatuses
    <2>4. QED
      BY <1>1, <2>2, <2>3 DEF Create, TypeOK, locks
  <1>2. ASSUME NEW p \in Procs, NEW op \in Ops, NEW r \in Reqs, NEW u \in Users,
               NEW body \in Bodies[op], Arrive(p, op, r, u, body)
        PROVE TypeOK'
    <2>1. op \in {"decide", "cancel", "get"}
      BY PklAssumption
    <2>2. body \in Decisions \cup {"maybe", "reason", ""}
      <3>1. CASE op = "decide"
        BY <3>1 DEF Bodies
      <3>2. CASE op = "cancel"
        BY <3>2 DEF Bodies
      <3>3. CASE op = "get"
        BY <3>3 DEF Bodies
      <3>4. QED
        BY <2>1, <3>1, <3>2, <3>3
    <2>3. CASE op = "cancel" /\ body = ""
      <3>1. [NoCall EXCEPT !.op = op, !.err = "cancellation reason is required"] \in Calls
        BY <2>1, NoCallType DEF Calls, Errors
      <3>2. [NoCall EXCEPT !.op = op, !.err = "cancellation reason is required"].pc = "idle"
        BY DEF NoCall
      <3>3. QED
        BY <1>2, <2>3, <3>1, <3>2, CallUpdate DEF Arrive, db, locks, TypeOK
    <2>4. CASE ~(op = "cancel" /\ body = "")
      <3> DEFINE c == [NoCall EXCEPT !.op = op, !.pc = "readRequest",
                           !.r = r, !.caller = u, !.body = body]
      <3>1. c \in Calls /\ c.r \in Reqs
        BY <2>1, <2>2, NoCallType DEF NoCall, Calls, Places
      <3>2. call' = [call EXCEPT ![p] = c]
        BY <1>2, <2>4 DEF Arrive
      <3> HIDE DEF c
      <3>3. QED
        BY <1>2, <3>1, <3>2, CallUpdate DEF Arrive, db, locks, TypeOK
    <2>5. QED
      BY <2>3, <2>4
  <1>3. ASSUME NEW p \in Procs, ReadRequest(p)
        PROVE TypeOK'
    <2>1. call[p] \in Calls /\ call[p].r \in Reqs
      BY <1>3 DEF ReadRequest, TypeOK
    <2>2. CancelRefusal(call[p]) \in Errors
      BY DEF CancelRefusal, Errors
    <2>3. /\ call' \in [Procs -> Calls]
          /\ \A q \in Procs : call'[q].pc # "idle" => call'[q].r \in Reqs
      <3>1. CASE Answer(p, "pkl request not found")
        BY <3>1, AnswerType DEF Errors
      <3>2. CASE Answer(p, CancelRefusal(call[p]))
        BY <2>2, <3>2, AnswerType
      <3>3. CASE /\ Exists(call[p].r)
                 /\ call' = [call EXCEPT ![p].pc = "writeRequest",
                                     ![p].seen = row[call[p].r].status]
        BY <2>1, <3>3 DEF TypeOK, Calls, Places, Exists
      <3>4. CASE /\ Exists(call[p].r)
                 /\ call' = [call EXCEPT ![p].pc = "readSteps",
                                ![p].seen = row[call[p].r].status,
                                ![p].current = row[call[p].r].current]
        BY <2>1, <3>4 DEF TypeOK, Calls, Places, Exists, Rows
      <3>5. QED
        BY <1>3, <3>1, <3>2, <3>3, <3>4 DEF ReadRequest
    <2>4. QED
      BY <1>3, <2>3 DEF ReadRequest, TypeOK, db, locks
  <1>4. ASSUME NEW p \in Procs, ReadSteps(p)
        PROVE TypeOK'
    <2>1. call[p] \in Calls /\ call[p].r \in Reqs
      BY <1>4 DEF ReadSteps, TypeOK
    <2>2. DecideRefusal(call[p]) \in Errors
      BY DEF DecideRefusal, Errors
    <2>3. /\ call' \in [Procs -> Calls]
          /\ \A q \in Procs : call'[q].pc # "idle" => call'[q].r \in Reqs
      <3>1. CASE Answer(p, DecideRefusal(call[p]))
        BY <2>2, <3>1, AnswerType
      <3>2. CASE /\ DecideRefusal(call[p]) = "none"
                 /\ call' = [call EXCEPT ![p].pc = "writeStep", ![p].k = MyStep(call[p])]
        <4>1. MyStep(call[p]) \in Order
          BY <2>1, <3>2, MyStepIsAStep
        <4>2. QED
          BY <2>1, <3>2, <4>1 DEF TypeOK, Calls, Places
      <3>3. QED
        BY <1>4, <3>1, <3>2 DEF ReadSteps
    <2>4. QED
      BY <1>4, <2>3 DEF ReadSteps, TypeOK, db, locks
  <1>5. ASSUME NEW p \in Procs, ReadStepsForGet(p)
        PROVE TypeOK'
    <2>1. call[p] \in Calls /\ call[p].r \in Reqs
      BY <1>5 DEF ReadStepsForGet, TypeOK
    <2>2. GetRefusal(call[p]) \in Errors
      BY DEF GetRefusal, Errors
    <2>3. /\ call' \in [Procs -> Calls]
          /\ \A q \in Procs : call'[q].pc # "idle" => call'[q].r \in Reqs
      <3>1. CASE Answer(p, GetRefusal(call[p]))
        BY <2>2, <3>1, AnswerType
      <3> DEFINE c == [NoCall EXCEPT !.op = "get", !.seen = call[p].seen,
                         !.current = call[p].current, !.steps = steps[call[p].r]]
      <3>2. CASE call' = [call EXCEPT ![p] = c]
        <4>1. c \in Calls /\ c.pc = "idle"
          BY <2>1, NoCallType DEF NoCall, Calls, TypeOK
        <4> HIDE DEF c
        <4>2. QED
          BY <3>2, <4>1, CallUpdate
      <3>3. QED
        BY <1>5, <3>1, <3>2 DEF ReadStepsForGet
    <2>4. QED
      BY <1>5, <2>3 DEF ReadStepsForGet, TypeOK, db, locks
  <1>6. ASSUME NEW p \in Procs, WriteStep(p)
        PROVE TypeOK'
    <2>1. call[p] \in Calls /\ call[p].r \in Reqs
      BY <1>6 DEF WriteStep, TypeOK
    <2>2. CASE Answer(p, "approval step already decided") /\ UNCHANGED locks
      BY <1>6, <2>2, AnswerType DEF WriteStep, Errors, TypeOK, db, locks
    <2>3. CASE /\ stepLock' = [stepLock EXCEPT ![call[p].r][call[p].k] = p]
               /\ call' = [call EXCEPT ![p].pc = "writeRequest"]
               /\ UNCHANGED reqLock
      BY <1>6, <2>1, <2>3 DEF WriteStep, TypeOK, db, Calls, Places
    <2>4. QED
      BY <1>6, <2>2, <2>3 DEF WriteStep
  <1>7. ASSUME NEW p \in Procs, WriteRequest(p)
        PROVE TypeOK'
    <2>1. call[p] \in Calls /\ call[p].r \in Reqs
      BY <1>7 DEF WriteRequest, TypeOK
    <2>2. ASSUME NEW err \in Errors, Answer(p, err), Unlock(p)
          PROVE TypeOK'
      BY <1>7, <2>2, AnswerType, UnlockType DEF WriteRequest, TypeOK, db
    <2>3. CASE /\ reqLock' = [reqLock EXCEPT ![call[p].r] = p]
               /\ call' = [call EXCEPT ![p].pc = "commit"]
               /\ UNCHANGED stepLock
      BY <1>7, <2>1, <2>3 DEF WriteRequest, TypeOK, db, Calls, Places
    <2>4. QED
      BY <1>7, <2>2, <2>3 DEF WriteRequest, Errors
  <1>8. ASSUME NEW p \in Procs, NEW err \in {"none", "database error"}, Commit(p, err)
        PROVE TypeOK'
    <2>1. call[p] \in Calls /\ call[p].r \in Reqs
      BY <1>8 DEF Commit, TypeOK
    <2>2. /\ NextStep(call[p]) \in StepStatuses
          /\ NextStatus(call[p]) \in Existing
          /\ NextCurrent(call[p]) \in Nat
      BY <2>1, NextTypes
    <2>3. Answer(p, err) /\ Unlock(p) /\ err \in Errors
      BY <1>8 DEF Commit, Errors
    <2>4. CASE /\ call[p].op = "decide"
               /\ steps' = [steps EXCEPT ![call[p].r][call[p].k] = NextStep(call[p])]
               /\ row' = [row EXCEPT ![call[p].r].status = NextStatus(call[p]),
                                     ![call[p].r].current = NextCurrent(call[p])]
      <3>1. row' \in [Reqs -> Rows]
        BY <2>1, <2>2, <2>4 DEF TypeOK, Rows
      <3>2. steps' \in [Reqs -> [Order -> StepStatuses \cup {"none"}]]
        BY <2>1, <2>2, <2>4 DEF TypeOK
      <3>3. QED
        BY <2>3, <3>1, <3>2, AnswerType, UnlockType DEF TypeOK
    <2>5. CASE /\ row' = [row EXCEPT ![call[p].r].status = "cancelled"]
               /\ UNCHANGED steps
      <3>1. row' \in [Reqs -> Rows]
        BY <2>1, <2>5 DEF TypeOK, Rows, Existing
      <3>2. QED
        BY <2>3, <2>5, <3>1, AnswerType, UnlockType DEF TypeOK
    <2>6. QED
      BY <1>8, <2>4, <2>5 DEF Commit
  <1>9. ASSUME NEW p \in Procs, Fail(p)
        PROVE TypeOK'
    BY <1>9, AnswerType, UnlockType DEF Fail, TypeOK, Errors, db
  <1>10. ASSUME NEW s \in Students, NEW r \in Reqs, PurgeLock(s, r)
        PROVE TypeOK'
    BY <1>10 DEF PurgeLock, TypeOK, db
  <1>11. ASSUME NEW s \in Students, PurgeCommit(s)
        PROVE TypeOK'
    BY <1>11 DEF PurgeCommit, TypeOK, NoSteps, Rows
  <1>12. CASE PurgeAbort
    BY <1>12, UnlockType DEF PurgeAbort, TypeOK, db
  <1>13. CASE UNCHANGED vars
    BY <1>13 DEF vars, TypeOK
  <1>14. QED
    BY <1>1, <1>2, <1>3, <1>4, <1>5, <1>6, <1>7, <1>8, <1>9, <1>10, <1>11, <1>12, <1>13
       DEF Next, HandlerStep

-----------------------------------------------------------------------------
(* The invariant.                                                          *)

\* The invariant holds of empty tables and idle handlers.
LEMMA InvInit == Init => Inv
  <1> SUFFICES ASSUME Init PROVE Inv
    OBVIOUS
  <1>1. \A r \in Reqs : ~Exists(r) /\ row[r].status # "pending"
    BY DEF Init, Exists, Existing, Open
  <1>2. RowsTogether
    BY <1>1 DEF Init, RowsTogether, NoSteps
  <1>3. ReadsHold /\ LocksHold
    BY DEF Init, ReadsHold, LocksHold, ReadsHoldFor, LocksHoldFor, NoCall, Deciding
  <1>4. QED
    BY <1>1, <1>2, <1>3, TypeInit
       DEF Inv, DecidedInOrder, StatusMatchesSteps, PointerNotAhead

\* A handler that does not move keeps what it has read and locked as long as
\* the tables stay as they are and nobody takes its locks.
LEMMA OthersKeep ==
  ASSUME Inv, UNCHANGED db, NEW q \in Procs, call'[q] = call[q],
         \A r \in Reqs : reqLock[r] = q => reqLock'[r] = q,
         \A r \in Reqs, i \in Order : stepLock[r][i] = q => stepLock'[r][i] = q
  PROVE  ReadsHoldFor(q)' /\ LocksHoldFor(q)'
  <1>1. ReadsHoldFor(q) /\ LocksHoldFor(q)
    BY DEF Inv, ReadsHold, LocksHold
  <1>2. call[q] \in Calls /\ (call[q].pc # "idle" => call[q].r \in Reqs)
    BY DEF Inv, TypeOK
  <1>3. ReadsHoldFor(q)'
    BY <1>1 DEF ReadsHoldFor, Deciding, Exists, db
  <1>4. call[q].k \in Order
    BY <1>2 DEF Calls
  <1>5. LocksHoldFor(q)'
    BY <1>1, <1>2, <1>4 DEF LocksHoldFor, StepGuard, RequestGuard, DecideGuard, CancelGuard, db
  <1>6. QED
    BY <1>3, <1>5

\* Of an idle handler the invariant says nothing.
LEMMA IdleKeeps ==
  ASSUME NEW p \in Procs, call'[p].pc = "idle"
  PROVE  ReadsHoldFor(p)' /\ LocksHoldFor(p)'
  BY DEF ReadsHoldFor, LocksHoldFor, Deciding

\* Answering makes one handler idle and leaves the others alone.
LEMMA AnswerIsIdle ==
  ASSUME TypeOK, NEW p \in Procs, NEW err, Answer(p, err)
  PROVE  call'[p].pc = "idle" /\ \A q \in Procs \ {p} : call'[q] = call[q]
  BY DEF TypeOK, Answer, NoCall

\* The end of one transaction leaves the locks of the others alone.
LEMMA UnlockKeeps ==
  ASSUME TypeOK, NEW p, Unlock(p), NEW q, q # p
  PROVE  /\ \A r \in Reqs : reqLock[r] = q => reqLock'[r] = q
         /\ \A r \in Reqs, i \in Order : stepLock[r][i] = q => stepLock'[r][i] = q
  BY DEF TypeOK, Unlock

\* The tables' part of the invariant.
Tables == RowsTogether /\ DecidedInOrder /\ StatusMatchesSteps /\ PointerNotAhead

\* It is kept by every step that leaves the tables alone.
LEMMA TablesKeep == Tables /\ UNCHANGED db => Tables'
  BY DEF Tables, RowsTogether, DecidedInOrder, StatusMatchesSteps, PointerNotAhead, Exists, db

\* A step that leaves the tables alone and at which one handler moves: what is
\* left to show is what that handler has read and locked.
LEMMA HandlerMoves ==
  ASSUME Inv, TypeOK', UNCHANGED db, NEW p \in Procs,
         \A q \in Procs \ {p} : call'[q] = call[q],
         \A q \in Procs \ {p} :
           /\ \A r \in Reqs : reqLock[r] = q => reqLock'[r] = q
           /\ \A r \in Reqs, i \in Order : stepLock[r][i] = q => stepLock'[r][i] = q,
         ReadsHoldFor(p)', LocksHoldFor(p)'
  PROVE  Inv'
  <1>1. \A q \in Procs : ReadsHoldFor(q)' /\ LocksHoldFor(q)'
    BY OthersKeep
  <1>2. Tables'
    BY TablesKeep DEF Inv, Tables
  <1>3. QED
    BY <1>1, <1>2 DEF Inv, Tables, ReadsHold, LocksHold

\* A handler that answers without having written.
LEMMA HandlerEnds ==
  ASSUME Inv, TypeOK', UNCHANGED db, NEW p \in Procs, NEW err, Answer(p, err),
         UNCHANGED locks \/ Unlock(p)
  PROVE  Inv'
  <1>1. TypeOK
    BY DEF Inv
  <1>2. call'[p].pc = "idle" /\ \A q \in Procs \ {p} : call'[q] = call[q]
    BY <1>1, AnswerIsIdle
  <1>3. ASSUME NEW q \in Procs \ {p}
        PROVE /\ \A r \in Reqs : reqLock[r] = q => reqLock'[r] = q
              /\ \A r \in Reqs, i \in Order : stepLock[r][i] = q => stepLock'[r][i] = q
    BY <1>1, UnlockKeeps DEF locks
  <1>4. QED
    BY <1>2, <1>3, IdleKeeps, HandlerMoves

\* What a decide call knows when it commits: it holds the rows of its request
\* and of its step, it is that step's turn, and its copy of current_step is at
\* most out of date.
LEMMA AtCommit ==
  ASSUME Inv, NEW p \in Procs, call[p].pc = "commit", call[p].op = "decide"
  PROVE  LET c == call[p] IN
         /\ c \in Calls /\ c.r \in Reqs /\ c.k \in Order
         /\ c.seen \in Open /\ c.body \in Decisions
         /\ c.seen = "needs_further_action" => c.body # "needs_further_action"
         /\ row[c.r].status = c.seen /\ steps[c.r][c.k] = c.seen
         /\ reqLock[c.r] = p /\ stepLock[c.r][c.k] = p
         /\ row[c.r].approver[c.k] = c.caller
         /\ Exists(c.r)
         /\ c.current \in Order /\ c.current <= c.k
         /\ \A i \in Order : i < c.k => steps[c.r][i] = "approved"
         /\ \A i \in Order : c.k < i => steps[c.r][i] = "pending"
  <1> DEFINE c == call[p]
  <1>1. c \in Calls /\ c.r \in Reqs /\ c.k \in Order
    BY DEF Inv, TypeOK, Calls
  <1>2. /\ reqLock[c.r] = p /\ stepLock[c.r][c.k] = p
        /\ row[c.r].status = c.seen /\ steps[c.r][c.k] = c.seen
    BY DEF Inv, LocksHold, LocksHoldFor, StepGuard, RequestGuard, DecideGuard
  <1>3. /\ c.seen \in Open /\ c.body \in Decisions
        /\ c.seen = "needs_further_action" => c.body # "needs_further_action"
        /\ c.seen = "pending" => c.k = c.current
        /\ row[c.r].approver[c.k] = c.caller
    BY DEF Inv, ReadsHold, ReadsHoldFor, Deciding
  <1>4. Exists(c.r)
    BY <1>2, <1>3 DEF Exists, Existing
  <1>5. c.current \in Order /\ \A i \in 1 .. c.current - 1 : steps[c.r][i] = "approved"
    BY <1>4 DEF Inv, ReadsHold, ReadsHoldFor
  <1>6. steps[c.r][c.k] # "approved"
    BY <1>2, <1>3 DEF Open
  <1>7. c.current <= c.k
    <2>1. ~(c.k \in 1 .. c.current - 1)
      BY <1>5, <1>6
    <2>2. QED
      BY <1>1, <1>5, <2>1, PklAssumption DEF Order
  <1>8. \A i \in Order : i < c.k => steps[c.r][i] = "approved"
    <2>1. CASE c.seen = "pending"
      BY <1>1, <1>3, <1>5, <2>1, PklAssumption DEF Order
    <2>2. CASE c.seen = "needs_further_action"
      BY <1>1, <1>2, <1>4, <2>2 DEF Inv, DecidedInOrder
    <2>3. QED
      BY <1>3, <2>1, <2>2 DEF Open
  <1>9. \A i \in Order : c.k < i => steps[c.r][i] = "pending"
    BY <1>1, <1>4, <1>6 DEF Inv, DecidedInOrder
  <1>10. QED
    BY <1>1, <1>2, <1>3, <1>4, <1>5, <1>7, <1>8, <1>9

\* The handlers that wait or read while p commits.
LEMMA OthersSurviveCommit ==
  ASSUME Inv, NEW p \in Procs, NEW err, Commit(p, err), NEW q \in Procs \ {p}
  PROVE  ReadsHoldFor(q)' /\ LocksHoldFor(q)'
  <1> DEFINE c == call[p]
             d == call[q]
  <1>1. TypeOK /\ Answer(p, err) /\ Unlock(p) /\ c.pc = "commit"
    BY DEF Inv, Commit
  <1>2. /\ call'[q] = d
        /\ \A r \in Reqs : reqLock[r] = q => reqLock'[r] = q
        /\ \A r \in Reqs, i \in Order : stepLock[r][i] = q => stepLock'[r][i] = q
    BY <1>1, AnswerIsIdle, UnlockKeeps
  <1>3. /\ c \in Calls /\ c.r \in Reqs /\ c.k \in Order
        /\ d \in Calls /\ d.k \in Order /\ (d.pc # "idle" => d.r \in Reqs)
    BY <1>1 DEF TypeOK, Calls
  <1>4. reqLock[c.r] = p
    BY <1>1 DEF Inv, LocksHold, LocksHoldFor
  <1>5. ReadsHoldFor(q) /\ LocksHoldFor(q)
    BY DEF Inv, ReadsHold, LocksHold
  <1>6. ASSUME NEW r \in Reqs
        PROVE /\ Exists(r)' => Exists(r)
              /\ row[r].status # "unborn" => row'[r].status # "unborn"
              /\ row'[r].approver = row[r].approver
              /\ \A i \in Order : steps[r][i] = "approved" => steps'[r][i] = "approved"
              /\ \A i \in Order : stepLock[r][i] = q => steps'[r][i] = steps[r][i]
              /\ reqLock[r] = q => row'[r] = row[r]
    <2>1. CASE c.op = "decide"
      <3>1. /\ steps' = [steps EXCEPT ![c.r][c.k] = NextStep(c)]
            /\ row' = [row EXCEPT ![c.r].status = NextStatus(c),
                                  ![c.r].current = NextCurrent(c)]
        BY <1>1, <2>1 DEF Commit
      <3>2. Exists(c.r) /\ stepLock[c.r][c.k] = p /\ steps[c.r][c.k] # "approved"
        BY <1>1, <2>1, AtCommit DEF Open
      <3>3. /\ row'[r].approver = row[r].approver
            /\ reqLock[r] = q => row'[r] = row[r]
            /\ r # c.r => row'[r] = row[r]
        BY <1>1, <1>3, <1>4, <3>1 DEF TypeOK, Rows
      <3>4. /\ \A i \in Order : steps[r][i] = "approved" => steps'[r][i] = "approved"
            /\ \A i \in Order : stepLock[r][i] = q => steps'[r][i] = steps[r][i]
        BY <1>1, <1>3, <3>1, <3>2 DEF TypeOK
      <3>5. row'[c.r].status # "unborn"
        <4>1. NextStatus(c) # "unborn"
          BY DEF NextStatus
        <4>2. QED
          BY <1>1, <1>3, <3>1, <4>1 DEF TypeOK, Rows
      <3>6. QED
        BY <3>2, <3>3, <3>4, <3>5 DEF Exists
    <2>2. CASE c.op = "cancel"
      <3>1. row' = [row EXCEPT ![c.r].status = "cancelled"] /\ UNCHANGED steps
        BY <1>1, <2>2 DEF Commit
      <3>2. Exists(c.r)
        BY <1>1, <2>2 DEF Inv, LocksHold, LocksHoldFor, RequestGuard, CancelGuard,
                          Exists, Existing
      <3>3. /\ row'[r].approver = row[r].approver
            /\ reqLock[r] = q => row'[r] = row[r]
            /\ r # c.r => row'[r] = row[r]
        BY <1>1, <1>3, <1>4, <3>1 DEF TypeOK, Rows
      <3>4. row'[c.r].status # "unborn"
        BY <1>1, <1>3, <3>1 DEF TypeOK, Rows
      <3>5. QED
        BY <3>1, <3>2, <3>3, <3>4 DEF Exists
    <2>3. QED
      BY <1>1, <2>1, <2>2 DEF Commit
  <1>7. ReadsHoldFor(q)'
    <2>1. CASE d.pc = "idle"
      BY <1>2, <2>1, IdleKeeps
    <2>2. CASE d.pc # "idle"
      <3>1. d.r \in Reqs
        BY <1>3, <2>2
      <3>2. (d.op = "decide" /\ d.pc \notin {"idle", "readRequest"} /\ row'[d.r].status \in Existing) =>
              /\ d.current \in Order
              /\ \A i \in 1 .. d.current - 1 : steps'[d.r][i] = "approved"
        <4> SUFFICES ASSUME d.op = "decide", d.pc \notin {"idle", "readRequest"},
                            row'[d.r].status \in Existing
                     PROVE /\ d.current \in Order
                           /\ \A i \in 1 .. d.current - 1 : steps'[d.r][i] = "approved"
          OBVIOUS
        <4>1. /\ d.current \in Order
              /\ \A i \in 1 .. d.current - 1 : steps[d.r][i] = "approved"
          BY <1>5, <1>6, <3>1 DEF ReadsHoldFor, Exists
        <4>2. \A i \in 1 .. d.current - 1 : i \in Order
          BY <4>1, PklAssumption DEF Order
        <4>3. \A i \in Order : steps[d.r][i] = "approved" => steps'[d.r][i] = "approved"
          BY <1>6, <3>1
        <4>4. QED
          BY <4>1, <4>2, <4>3
      <3>3. /\ row'[d.r].approver = row[d.r].approver
            /\ row[d.r].status # "unborn" => row'[d.r].status # "unborn"
        BY <1>6, <3>1
      <3>4. QED
        BY <1>2, <1>5, <3>2, <3>3 DEF ReadsHoldFor, Deciding, Exists
    <2>3. QED
      BY <2>1, <2>2
  <1>8. LocksHoldFor(q)'
    <2>1. CASE d.pc = "idle"
      BY <1>2, <2>1, IdleKeeps
    <2>2. CASE d.pc # "idle"
      <3>1. d.r \in Reqs
        BY <1>3, <2>2
      <3>2. QED
        BY <1>2, <1>3, <1>5, <1>6, <3>1
           DEF LocksHoldFor, StepGuard, RequestGuard, DecideGuard, CancelGuard
    <2>3. QED
      BY <2>1, <2>2
  <1>9. QED
    BY <1>7, <1>8

\* The request that a decide call settles, after the commit.
LEMMA DecideKeepsTables ==
  ASSUME Inv, NEW p \in Procs, NEW err, Commit(p, err), call[p].op = "decide"
  PROVE  Tables'
  <1> DEFINE c == call[p]
  <1>1. TypeOK /\ c.pc = "commit"
    BY DEF Inv, Commit
  <1>2. /\ c \in Calls /\ c.r \in Reqs /\ c.k \in Order
        /\ c.seen \in Open /\ c.body \in Decisions
        /\ steps[c.r][c.k] = c.seen
        /\ Exists(c.r)
        /\ c.current \in Order /\ c.current <= c.k
        /\ \A i \in Order : i < c.k => steps[c.r][i] = "approved"
        /\ \A i \in Order : c.k < i => steps[c.r][i] = "pending"
    BY <1>1, AtCommit
  <1>3. /\ steps' = [steps EXCEPT ![c.r][c.k] = NextStep(c)]
        /\ row' = [row EXCEPT ![c.r].status = NextStatus(c),
                              ![c.r].current = NextCurrent(c)]
    BY <1>1 DEF Commit
  <1>4. \A r \in Reqs \ {c.r} : row'[r] = row[r] /\ steps'[r] = steps[r]
    BY <1>1, <1>2, <1>3 DEF TypeOK
  <1>5. /\ row'[c.r].status = NextStatus(c) /\ row'[c.r].current = NextCurrent(c)
        /\ steps'[c.r][c.k] = NextStep(c)
        /\ \A i \in Order : i < c.k => steps'[c.r][i] = "approved"
        /\ \A i \in Order : c.k < i => steps'[c.r][i] = "pending"
    BY <1>1, <1>2, <1>3, OneInOrder DEF TypeOK, Rows
  <1>6. \A i \in Order : i < c.k \/ i = c.k \/ c.k < i
    <2>1. c.k \in Order
      BY <1>2
    <2>2. QED
      BY <2>1, PklAssumption DEF Order
  <1>7. row'[c.r].status \in Existing
    <2>1. NextStatus(c) \in Existing
      BY <1>2, NextTypes
    <2>2. QED
      BY <1>5, <2>1
  <1>8. NextStep(c) # "none"
    BY DEF NextStep
  <1>9. RowsTogether'
    <2>1. \A i \in Order : steps'[c.r][i] # "none"
      BY <1>5, <1>6, <1>8
    <2>2. QED
      BY <1>1, <1>4, <1>7, <2>1 DEF Inv, RowsTogether, Exists
  <1>10. DecidedInOrder'
    <2>1. \A i, j \in Order : i < j /\ steps'[c.r][j] # "pending" => steps'[c.r][i] = "approved"
      <3> SUFFICES ASSUME NEW i \in Order, NEW j \in Order, i < j, ~(c.k < j)
                   PROVE steps'[c.r][i] = "approved"
        BY <1>5
      <3>1. i < c.k
        BY <1>2, OneInOrder
      <3>2. QED
        BY <1>5, <3>1
    <2>2. QED
      BY <1>1, <1>4, <2>1 DEF Inv, DecidedInOrder, Exists
  <1>11. PointerNotAhead'
    <2>1. NextCurrent(c) \in Order /\ \A i \in 1 .. NextCurrent(c) - 1 : steps'[c.r][i] = "approved"
      <3>1. CASE c.body = "approve" /\ c.k # N
        <4>1. NextStep(c) = "approved" /\ NextCurrent(c) = c.current + 1
          BY <3>1 DEF NextStep, NextCurrent
        <4>2. NextCurrent(c) \in Order
          BY <1>2, <3>1, <4>1, PklAssumption DEF Order
        <4>3. \A i \in 1 .. NextCurrent(c) - 1 : i \in Order /\ (i < c.k \/ i = c.k)
          BY <1>2, <4>1, PklAssumption DEF Order
        <4>4. QED
          BY <1>5, <4>1, <4>2, <4>3
      <3>2. CASE ~(c.body = "approve" /\ c.k # N)
        <4>1. NextCurrent(c) = c.current
          BY <3>2 DEF NextCurrent
        <4>2. \A i \in 1 .. c.current - 1 : i \in Order /\ i < c.k
          BY <1>2, PklAssumption DEF Order
        <4>3. QED
          BY <1>2, <1>5, <4>1, <4>2
      <3>3. QED
        BY <3>1, <3>2
    <2>2. QED
      BY <1>1, <1>4, <1>5, <2>1 DEF Inv, PointerNotAhead, Exists
  <1>12. StatusMatchesSteps'
    <2> DEFINE some(x) == \E i \in Order : steps'[c.r][i] = x
    <2>1. /\ NextStatus(c) = "accepted" <=> \A i \in Order : steps'[c.r][i] = "approved"
          /\ NextStatus(c) = "rejected" <=> some("rejected")
          /\ NextStatus(c) = "needs_further_action" => some("needs_further_action")
          /\ NextStatus(c) = "pending" => ~some("needs_further_action")
      <3>1. CASE c.body = "approve" /\ c.k = N
        <4>1. NextStep(c) = "approved" /\ NextStatus(c) = "accepted"
          BY <3>1 DEF NextStep, NextStatus
        <4>2. \A i \in Order : i < c.k \/ i = c.k
          BY <3>1, PklAssumption DEF Order
        <4>3. QED
          BY <1>2, <1>5, <4>1, <4>2
      <3>2. CASE c.body = "approve" /\ c.k # N
        <4>1. NextStep(c) = "approved" /\ NextStatus(c) = "pending"
          BY <3>2 DEF NextStep, NextStatus
        <4>2. N \in Order /\ c.k < N
          BY <1>2, <3>2, PklAssumption DEF Order
        <4>3. steps'[c.r][N] = "pending"
          BY <1>5, <4>2
        <4>4. \A i \in Order : steps'[c.r][i] \in {"approved", "pending"}
          BY <1>5, <1>6, <4>1
        <4>5. QED
          BY <4>1, <4>2, <4>3, <4>4
      <3>3. CASE c.body = "reject"
        <4>1. NextStep(c) = "rejected" /\ NextStatus(c) = "rejected"
          BY <3>3 DEF NextStep, NextStatus
        <4>2. QED
          BY <1>2, <1>5, <4>1
      <3>4. CASE c.body = "needs_further_action"
        <4>1. NextStep(c) = "needs_further_action" /\ NextStatus(c) = "needs_further_action"
          BY <3>4 DEF NextStep, NextStatus
        <4>2. \A i \in Order : steps'[c.r][i] # "rejected"
          BY <1>5, <1>6, <4>1
        <4>3. QED
          BY <1>2, <1>5, <4>1, <4>2
      <3>5. QED
        BY <1>2, <3>1, <3>2, <3>3, <3>4 DEF Decisions
    <2>2. QED
      BY <1>1, <1>4, <1>5, <2>1 DEF Inv, StatusMatchesSteps, Exists
  <1>13. QED
    BY <1>9, <1>10, <1>11, <1>12 DEF Tables

\* The commit of a cancel call keeps the tables consistent.
LEMMA CancelKeepsTables ==
  ASSUME Inv, NEW p \in Procs, NEW err, Commit(p, err), call[p].op = "cancel"
  PROVE  Tables'
  <1> DEFINE c == call[p]
  <1>1. TypeOK /\ c.pc = "commit" /\ c.r \in Reqs
    BY DEF Inv, Commit, TypeOK
  <1>2. row[c.r].status \in Open
    BY <1>1 DEF Inv, LocksHold, LocksHoldFor, RequestGuard, CancelGuard
  <1>3. row' = [row EXCEPT ![c.r].status = "cancelled"] /\ UNCHANGED steps
    BY <1>1 DEF Commit
  <1>4. /\ \A r \in Reqs \ {c.r} : row'[r] = row[r]
        /\ row'[c.r].status = "cancelled" /\ row'[c.r].current = row[c.r].current
    BY <1>1, <1>3 DEF TypeOK, Rows
  <1>5. /\ \A r \in Reqs : Exists(r)' <=> Exists(r)
        /\ \A r \in Reqs : row'[r].current = row[r].current
    BY <1>2, <1>4 DEF Exists, Existing
  <1>6. RowsTogether' /\ DecidedInOrder' /\ PointerNotAhead'
    BY <1>3, <1>5 DEF Inv, RowsTogether, DecidedInOrder, PointerNotAhead
  <1>7. StatusMatchesSteps'
    BY <1>1, <1>2, <1>3, <1>4, <1>5 DEF Inv, StatusMatchesSteps, Open, Exists, Existing
  <1>8. QED
    BY <1>6, <1>7 DEF Tables

\* Every step keeps the invariant.
LEMMA InvStep == Inv /\ [Next]_vars => Inv'
  <1> SUFFICES ASSUME Inv, [Next]_vars PROVE Inv'
    OBVIOUS
  <1>1. TypeOK /\ TypeOK'
    BY TypeStep DEF Inv
  <1>2. ASSUME NEW r \in Reqs, NEW s \in Students, NEW chain \in Chains,
               Create(r, s, chain)
        PROVE Inv'
    <2>1. /\ \A q \in Reqs \ {r} : row'[q] = row[q] /\ steps'[q] = steps[q]
          /\ row'[r].status = "pending" /\ row'[r].current = 1
          /\ \A i \in Order : steps'[r][i] = "pending"
          /\ ~Exists(r)
      BY <1>1, <1>2 DEF Create, TypeOK, NewSteps, Exists, Existing, Open
    <2>2. \A i \in Order : steps[r][i] = "none"
      BY <2>1 DEF Inv, RowsTogether
    <2>3. RowsTogether' /\ DecidedInOrder'
      BY <1>1, <2>1 DEF Inv, RowsTogether, DecidedInOrder, Exists, Existing, Open
    <2>4. StatusMatchesSteps'
      BY <1>1, <2>1, OneInOrder DEF Inv, StatusMatchesSteps, Exists
    <2>5. PointerNotAhead'
      <3>1. 1 .. row'[r].current - 1 = {}
        BY <2>1
      <3>2. QED
        BY <1>1, <2>1, <3>1, OneInOrder DEF Inv, PointerNotAhead, Exists
    <2>6. ASSUME NEW q \in Procs
          PROVE ReadsHoldFor(q)' /\ LocksHoldFor(q)'
      <3> DEFINE d == call[q]
      <3>1. UNCHANGED <<reqLock, stepLock, call>>
        BY <1>2 DEF Create, locks
      <3>2. ReadsHoldFor(q) /\ LocksHoldFor(q)
        BY DEF Inv, ReadsHold, LocksHold
      <3>3. d \in Calls /\ d.k \in Order /\ (d.pc # "idle" => d.r \in Reqs)
        BY <1>1 DEF TypeOK, Calls
      <3>4. CASE d.pc # "idle" /\ d.r # r
        <4>1. row'[d.r] = row[d.r] /\ steps'[d.r] = steps[d.r]
          BY <2>1, <3>3, <3>4
        <4>2. QED
          BY <3>1, <3>2, <4>1 DEF ReadsHoldFor, LocksHoldFor, Deciding, Exists,
             StepGuard, RequestGuard, DecideGuard, CancelGuard
      <3>5. CASE d.pc # "idle" /\ d.r = r
        <4>1. d.pc = "readRequest"
          BY <1>2, <3>2, <3>5 DEF ReadsHoldFor, Create
        <4>2. QED
          BY <3>1, <4>1 DEF ReadsHoldFor, LocksHoldFor, Deciding
      <3>6. CASE d.pc = "idle"
        BY <3>1, <3>6, IdleKeeps
      <3>7. QED
        BY <3>4, <3>5, <3>6
    <2>7. QED
      BY <1>1, <2>3, <2>4, <2>5, <2>6 DEF Inv, ReadsHold, LocksHold
  <1>3. ASSUME NEW p \in Procs, NEW op \in Ops, NEW r \in Reqs, NEW u \in Users,
               NEW body \in Bodies[op], Arrive(p, op, r, u, body)
        PROVE Inv'
    <2>1. /\ call'[p].pc \in {"idle", "readRequest"}
          /\ \A q \in Procs \ {p} : call'[q] = call[q]
          /\ UNCHANGED <<row, steps, reqLock, stepLock>>
      BY <1>1, <1>3 DEF Arrive, TypeOK, NoCall, db, locks
    <2>2. ReadsHoldFor(p)' /\ LocksHoldFor(p)'
      BY <2>1 DEF ReadsHoldFor, LocksHoldFor, Deciding
    <2>3. QED
      BY <1>1, <2>1, <2>2, HandlerMoves DEF db
  <1>4. ASSUME NEW p \in Procs, ReadRequest(p)
        PROVE Inv'
    <2> DEFINE c == call[p]
    <2>1. c.r \in Reqs /\ UNCHANGED db /\ UNCHANGED locks
      BY <1>1, <1>4 DEF ReadRequest, TypeOK
    <2>2. ASSUME NEW err, Answer(p, err)
          PROVE Inv'
      BY <1>1, <2>1, <2>2, HandlerEnds
    <2>3. CASE /\ c.op = "cancel" /\ Exists(c.r)
               /\ call' = [call EXCEPT ![p].pc = "writeRequest",
                                       ![p].seen = row[c.r].status]
      <3>1. /\ \A q \in Procs \ {p} : call'[q] = call[q]
            /\ call'[p].pc = "writeRequest" /\ call'[p].op = "cancel" /\ call'[p].r = c.r
        <4>1. call \in [Procs -> Calls] /\ c \in Calls
          BY <1>1 DEF TypeOK
        <4>2. call'[p] = [c EXCEPT !.pc = "writeRequest", !.seen = row[c.r].status]
          BY <2>3, <4>1
        <4>3. \A q \in Procs \ {p} : call'[q] = call[q]
          BY <2>3, <4>1
        <4>4. QED
          BY <2>3, <4>1, <4>2, <4>3 DEF Calls
      <3>2. row'[call'[p].r].status # "unborn"
        BY <2>1, <2>3, <3>1 DEF Exists, Existing, Open, db
      <3>3. ReadsHoldFor(p)' /\ LocksHoldFor(p)'
        BY <3>1, <3>2 DEF ReadsHoldFor, LocksHoldFor, Deciding
      <3>4. QED
        BY <1>1, <2>1, <3>1, <3>3, HandlerMoves DEF locks
    <2>4. CASE /\ c.op # "cancel" /\ Exists(c.r)
               /\ call' = [call EXCEPT ![p].pc = "readSteps",
                                ![p].seen = row[c.r].status,
                                ![p].current = row[c.r].current]
      <3>1. /\ \A q \in Procs \ {p} : call'[q] = call[q]
            /\ call'[p].pc = "readSteps" /\ call'[p].r = c.r
            /\ call'[p].current = row[c.r].current
        BY <1>1, <2>4 DEF TypeOK, Calls
      <3>2. /\ row[c.r].current \in Order
            /\ \A i \in 1 .. row[c.r].current - 1 : steps[c.r][i] = "approved"
            /\ row[c.r].status # "unborn"
        BY <2>1, <2>4 DEF Inv, PointerNotAhead, Exists, Existing, Open
      <3>3. ReadsHoldFor(p)' /\ LocksHoldFor(p)'
        BY <2>1, <2>4, <3>1, <3>2 DEF ReadsHoldFor, LocksHoldFor, Deciding, db
      <3>4. QED
        BY <1>1, <2>1, <3>1, <3>3, HandlerMoves DEF locks
    <2>5. QED
      BY <1>4, <2>2, <2>3, <2>4 DEF ReadRequest
  <1>5. ASSUME NEW p \in Procs, ReadSteps(p)
        PROVE Inv'
    <2> DEFINE c == call[p]
    <2>1. /\ c \in Calls /\ c.r \in Reqs /\ UNCHANGED db /\ UNCHANGED locks
          /\ c.pc = "readSteps" /\ c.op = "decide"
      BY <1>1, <1>5 DEF ReadSteps, TypeOK
    <2>2. CASE Answer(p, DecideRefusal(c))
      BY <1>1, <2>1, <2>2, HandlerEnds
    <2>3. CASE /\ DecideRefusal(c) = "none"
               /\ call' = [call EXCEPT ![p].pc = "writeStep", ![p].k = MyStep(c)]
      <3>1. /\ \A q \in Procs \ {p} : call'[q] = call[q]
            /\ call'[p].pc = "writeStep" /\ call'[p].op = "decide" /\ call'[p].r = c.r
            /\ call'[p].k = MyStep(c) /\ call'[p].seen = c.seen /\ call'[p].body = c.body
            /\ call'[p].current = c.current /\ call'[p].caller = c.caller
        BY <1>1, <2>1, <2>3 DEF TypeOK, Calls
      <3>2. /\ row[c.r].approver[MyStep(c)] = c.caller
            /\ c.seen \in Open
            /\ c.body \in Decisions
            /\ c.seen = "needs_further_action" => c.body # "needs_further_action"
            /\ c.seen = "pending" => MyStep(c) = c.current
        BY <1>1, <2>1, <2>3, MyStepIsAStep DEF Inv
      <3>3. ReadsHoldFor(p)
        BY DEF Inv, ReadsHold
      <3>4. ReadsHoldFor(p)' /\ LocksHoldFor(p)'
        BY <2>1, <3>1, <3>2, <3>3 DEF ReadsHoldFor, LocksHoldFor, Exists, db
      <3>5. QED
        BY <1>1, <2>1, <3>1, <3>4, HandlerMoves DEF locks
    <2>4. QED
      BY <1>5, <2>2, <2>3 DEF ReadSteps
  <1>6. ASSUME NEW p \in Procs, ReadStepsForGet(p)
        PROVE Inv'
    <2>1. /\ UNCHANGED db /\ UNCHANGED locks
          /\ call'[p].pc = "idle" /\ \A q \in Procs \ {p} : call'[q] = call[q]
      BY <1>1, <1>6, AnswerIsIdle DEF ReadStepsForGet, TypeOK, NoCall
    <2>2. QED
      BY <1>1, <2>1, IdleKeeps, HandlerMoves DEF locks
  <1>7. ASSUME NEW p \in Procs, WriteStep(p)
        PROVE Inv'
    <2> DEFINE c == call[p]
    <2>1. /\ c \in Calls /\ c.r \in Reqs /\ c.k \in Order /\ UNCHANGED db
          /\ c.pc = "writeStep"
      BY <1>1, <1>7 DEF WriteStep, TypeOK, Calls
    <2>2. CASE Answer(p, "approval step already decided") /\ UNCHANGED locks
      BY <1>1, <2>1, <2>2, HandlerEnds
    <2>3. CASE /\ StepGuard(c)
               /\ stepLock[c.r][c.k] = Free
               /\ stepLock' = [stepLock EXCEPT ![c.r][c.k] = p]
               /\ call' = [call EXCEPT ![p].pc = "writeRequest"]
               /\ UNCHANGED reqLock
      <3>1. /\ \A q \in Procs \ {p} : call'[q] = call[q]
            /\ call'[p].pc = "writeRequest" /\ call'[p].op = c.op /\ call'[p].r = c.r
            /\ call'[p].k = c.k /\ call'[p].seen = c.seen /\ call'[p].body = c.body
            /\ call'[p].current = c.current /\ call'[p].caller = c.caller
        BY <1>1, <2>1, <2>3 DEF TypeOK, Calls
      <3>2. stepLock'[c.r][c.k] = p
        BY <1>1, <2>1, <2>3 DEF TypeOK
      <3>3. \A q \in Procs \ {p} :
              /\ \A r \in Reqs : reqLock[r] = q => reqLock'[r] = q
              /\ \A r \in Reqs, i \in Order : stepLock[r][i] = q => stepLock'[r][i] = q
        BY <1>1, <2>1, <2>3, PklAssumption DEF TypeOK
      <3>4. ReadsHoldFor(p) /\ LocksHoldFor(p)
        BY DEF Inv, ReadsHold, LocksHold
      <3>5. ReadsHoldFor(p)'
        BY <2>1, <3>1, <3>4 DEF ReadsHoldFor, LocksHoldFor, Deciding, Exists, db
      <3>6. LocksHoldFor(p)'
        BY <2>1, <2>3, <3>1, <3>2, <3>4 DEF LocksHoldFor, StepGuard, db
      <3>7. QED
        BY <1>1, <2>1, <3>1, <3>3, <3>5, <3>6, HandlerMoves
    <2>4. QED
      BY <1>7, <2>2, <2>3 DEF WriteStep
  <1>8. ASSUME NEW p \in Procs, WriteRequest(p)
        PROVE Inv'
    <2> DEFINE c == call[p]
    <2>1. /\ c \in Calls /\ c.r \in Reqs /\ c.k \in Order /\ UNCHANGED db
          /\ c.pc = "writeRequest"
      BY <1>1, <1>8 DEF WriteRequest, TypeOK, Calls
    <2>2. ASSUME NEW err, Answer(p, err), Unlock(p)
          PROVE Inv'
      BY <1>1, <2>1, <2>2, HandlerEnds
    <2>3. CASE /\ RequestGuard(c)
               /\ reqLock[c.r] = Free
               /\ reqLock' = [reqLock EXCEPT ![c.r] = p]
               /\ call' = [call EXCEPT ![p].pc = "commit"]
               /\ UNCHANGED stepLock
      <3>1. /\ \A q \in Procs \ {p} : call'[q] = call[q]
            /\ call'[p].pc = "commit" /\ call'[p].op = c.op /\ call'[p].r = c.r
            /\ call'[p].k = c.k /\ call'[p].seen = c.seen /\ call'[p].body = c.body
            /\ call'[p].current = c.current /\ call'[p].caller = c.caller
        BY <1>1, <2>1, <2>3 DEF TypeOK, Calls
      <3>2. reqLock'[c.r] = p
        BY <1>1, <2>1, <2>3 DEF TypeOK
      <3>3. \A q \in Procs \ {p} :
              /\ \A r \in Reqs : reqLock[r] = q => reqLock'[r] = q
              /\ \A r \in Reqs, i \in Order : stepLock[r][i] = q => stepLock'[r][i] = q
        BY <1>1, <2>1, <2>3, PklAssumption DEF TypeOK
      <3>4. ReadsHoldFor(p) /\ LocksHoldFor(p)
        BY DEF Inv, ReadsHold, LocksHold
      <3>5. ReadsHoldFor(p)'
        BY <2>1, <3>1, <3>4 DEF ReadsHoldFor, Deciding, Exists, db
      <3>6. LocksHoldFor(p)'
        BY <2>1, <2>3, <3>1, <3>2, <3>4
           DEF LocksHoldFor, StepGuard, RequestGuard, DecideGuard, CancelGuard, db
      <3>7. QED
        BY <1>1, <2>1, <3>1, <3>3, <3>5, <3>6, HandlerMoves
    <2>4. QED
      BY <1>8, <2>2, <2>3 DEF WriteRequest
  <1>9. ASSUME NEW p \in Procs, NEW err \in {"none", "database error"}, Commit(p, err)
        PROVE Inv'
    <2>1. Tables'
      BY <1>9, DecideKeepsTables, CancelKeepsTables DEF Commit
    <2>2. call'[p].pc = "idle"
      BY <1>1, <1>9, AnswerIsIdle DEF Commit
    <2>3. \A q \in Procs : ReadsHoldFor(q)' /\ LocksHoldFor(q)'
      BY <1>9, <2>2, IdleKeeps, OthersSurviveCommit
    <2>4. QED
      BY <1>1, <2>1, <2>3 DEF Inv, Tables, ReadsHold, LocksHold
  <1>10. ASSUME NEW p \in Procs, Fail(p)
         PROVE Inv'
    BY <1>1, <1>10, HandlerEnds DEF Fail
  <1>11. ASSUME UNCHANGED <<db, call>>,
                \A q \in Procs :
                  /\ \A r \in Reqs : reqLock[r] = q => reqLock'[r] = q
                  /\ \A r \in Reqs, i \in Order : stepLock[r][i] = q => stepLock'[r][i] = q
         PROVE Inv'
    <2>1. Tables'
      BY <1>11, TablesKeep DEF Inv, Tables
    <2>2. \A q \in Procs : ReadsHoldFor(q)' /\ LocksHoldFor(q)'
      BY <1>11, OthersKeep
    <2>3. QED
      BY <1>1, <2>1, <2>2 DEF Inv, Tables, ReadsHold, LocksHold
  <1>12. ASSUME NEW s \in Students, NEW r \in Reqs, PurgeLock(s, r)
         PROVE Inv'
    <2>1. \A q \in Procs :
            /\ \A x \in Reqs : reqLock[x] = q => reqLock'[x] = q
            /\ \A x \in Reqs, i \in Order : stepLock[x][i] = q => stepLock'[x][i] = q
      BY <1>1, <1>12, PklAssumption DEF PurgeLock, TypeOK
    <2>2. QED
      BY <1>11, <1>12, <2>1 DEF PurgeLock
  <1>13. CASE PurgeAbort
    <2>1. \A q \in Procs :
            /\ \A r \in Reqs : reqLock[r] = q => reqLock'[r] = q
            /\ \A r \in Reqs, i \in Order : stepLock[r][i] = q => stepLock'[r][i] = q
      BY <1>1, <1>13, UnlockKeeps, PklAssumption DEF PurgeAbort
    <2>2. QED
      BY <1>11, <1>13, <2>1 DEF PurgeAbort
  <1>14. ASSUME NEW s \in Students, PurgeCommit(s)
         PROVE Inv'
    <2>1. UNCHANGED <<stepLock, call>>
      BY <1>14 DEF PurgeCommit
    <2>2. ASSUME NEW r \in Reqs
          PROVE \/ /\ row'[r] = row[r] /\ steps'[r] = steps[r] /\ reqLock'[r] = reqLock[r]
                \/ /\ Exists(r) /\ reqLock[r] = Admin
                   /\ \A i \in Order : stepLock[r][i] = Free
                   /\ row'[r].status = "deleted" /\ row'[r].approver = row[r].approver
                   /\ \A i \in Order : steps'[r][i] = "none"
      BY <1>1, <1>14 DEF PurgeCommit, OwnedBy, NoSteps, TypeOK, Rows
    <2>3. \A r \in Reqs : (row'[r] = row[r] /\ steps'[r] = steps[r]) \/ ~Exists(r)'
      BY <2>2 DEF Exists, Existing, Open
    <2>4. RowsTogether'
      BY <2>2, <2>3 DEF Inv, RowsTogether, Exists
    <2>5. DecidedInOrder' /\ StatusMatchesSteps' /\ PointerNotAhead'
      BY <2>3 DEF Inv, DecidedInOrder, StatusMatchesSteps, PointerNotAhead, Exists
    <2>6. ASSUME NEW q \in Procs
          PROVE ReadsHoldFor(q)' /\ LocksHoldFor(q)'
      <3> DEFINE d == call[q]
      <3>1. ReadsHoldFor(q) /\ LocksHoldFor(q)
        BY DEF Inv, ReadsHold, LocksHold
      <3>2. d \in Calls /\ d.k \in Order /\ (d.pc # "idle" => d.r \in Reqs)
        BY <1>1 DEF TypeOK, Calls
      <3>3. CASE d.pc = "idle"
        BY <2>1, <3>3, IdleKeeps
      <3>4. CASE /\ d.pc # "idle"
                 /\ row'[d.r] = row[d.r] /\ steps'[d.r] = steps[d.r]
                 /\ reqLock'[d.r] = reqLock[d.r]
        BY <2>1, <3>1, <3>2, <3>4
           DEF ReadsHoldFor, LocksHoldFor, Deciding, Exists,
               StepGuard, RequestGuard, DecideGuard, CancelGuard
      <3>5. CASE /\ d.pc # "idle"
                 /\ reqLock[d.r] = Admin
                 /\ \A i \in Order : stepLock[d.r][i] = Free
                 /\ row'[d.r].status = "deleted" /\ row'[d.r].approver = row[d.r].approver
        <4>1. d.pc # "commit" /\ ~(d.op = "decide" /\ d.pc = "writeRequest")
          BY <3>1, <3>2, <3>5, PklAssumption DEF LocksHoldFor
        <4>2. QED
          BY <2>1, <3>1, <3>5, <4>1
             DEF ReadsHoldFor, LocksHoldFor, Deciding, Exists, Existing, Open
      <3>6. QED
        BY <2>2, <3>2, <3>3, <3>4, <3>5
    <2>7. QED
      BY <1>1, <2>4, <2>5, <2>6 DEF Inv, ReadsHold, LocksHold
  <1>15. CASE UNCHANGED vars
    BY <1>11, <1>15 DEF vars, db
  <1>16. QED
    BY <1>2, <1>3, <1>4, <1>5, <1>6, <1>7, <1>8, <1>9, <1>10, <1>12, <1>13, <1>14, <1>15
       DEF Next, HandlerStep

-----------------------------------------------------------------------------
(* The theorems.                                                           *)

\* Whatever the calls and their interleaving, the invariant holds.
THEOREM Invariance == Spec => []Inv
  <1>1. QED
    BY InvInit, InvStep, PTL DEF Spec

\* The variables keep their types.
THEOREM TypeCorrect == Spec => []TypeOK
  <1>1. Inv => TypeOK
    BY DEF Inv
  <1>2. QED
    BY <1>1, Invariance, PTL

\* pkl: for any chain of approvers, any number of requests and any number of
\* concurrent calls, approvals happen in the order of the positions.
THEOREM ApprovalsInOrder == Spec => []DecidedInOrder
  <1>1. Inv => DecidedInOrder
    BY DEF Inv
  <1>2. QED
    BY <1>1, Invariance, PTL

\* The status of a request, written by a statement of its own, says what its
\* steps say.
THEOREM StatusIsTrue == Spec => []StatusMatchesSteps
  <1>1. Inv => StatusMatchesSteps
    BY DEF Inv
  <1>2. QED
    BY <1>1, Invariance, PTL

\* current_step, computed from a row that may be out of date, is never ahead of
\* the approvals.
THEOREM PointerFollows == Spec => []PointerNotAhead
  <1>1. Inv => PointerNotAhead
    BY DEF Inv
  <1>2. QED
    BY <1>1, Invariance, PTL

-----------------------------------------------------------------------------
(* Decisions, and the abstract chain.                                      *)

\* The four ways in which the tables change.
LEMMA HowTablesChange ==
  ASSUME [Next]_vars
  PROVE  \/ UNCHANGED db
         \/ \E r \in Reqs, s \in Students, chain \in Chains : Create(r, s, chain)
         \/ \E p \in Procs, err \in {"none", "database error"} : Commit(p, err)
         \/ \E s \in Students : PurgeCommit(s)
  BY DEF Next, HandlerStep, vars, db, Arrive, ReadRequest, ReadSteps, ReadStepsForGet,
         WriteStep, WriteRequest, Fail, PurgeLock, PurgeAbort

\* What the commit of a decide call does to its request, and to no other.
LEMMA DecideEffect ==
  ASSUME Inv, NEW p \in Procs, NEW err, Commit(p, err), call[p].op = "decide"
  PROVE  LET c == call[p] IN
         /\ \A r \in Reqs \ {c.r} : row'[r] = row[r] /\ steps'[r] = steps[r]
         /\ row'[c.r].status = NextStatus(c)
         /\ steps'[c.r] = [steps[c.r] EXCEPT ![c.k] = NextStep(c)]
  <1>1. TypeOK /\ call[p].pc = "commit"
    BY DEF Inv, Commit
  <1>2. call[p].r \in Reqs /\ call[p].k \in Order
    BY <1>1, AtCommit
  <1>3. /\ steps' = [steps EXCEPT ![call[p].r][call[p].k] = NextStep(call[p])]
        /\ row' = [row EXCEPT ![call[p].r].status = NextStatus(call[p]),
                              ![call[p].r].current = NextCurrent(call[p])]
    BY <1>1 DEF Commit
  <1>4. QED
    BY <1>1, <1>2, <1>3 DEF TypeOK, Rows

\* What the commit of a cancel call does to the tables.
LEMMA CancelEffect ==
  ASSUME Inv, NEW p \in Procs, NEW err, Commit(p, err), call[p].op = "cancel"
  PROVE  LET c == call[p] IN
         /\ c.r \in Reqs /\ row[c.r].status \in Open
         /\ \A r \in Reqs \ {c.r} : row'[r] = row[r]
         /\ row'[c.r].status = "cancelled"
         /\ steps' = steps
  <1>1. TypeOK /\ call[p].pc = "commit" /\ call[p].r \in Reqs
    BY DEF Inv, Commit, TypeOK
  <1>2. row[call[p].r].status \in Open
    BY <1>1 DEF Inv, LocksHold, LocksHoldFor, RequestGuard, CancelGuard
  <1>3. row' = [row EXCEPT ![call[p].r].status = "cancelled"] /\ UNCHANGED steps
    BY <1>1 DEF Commit
  <1>4. QED
    BY <1>1, <1>2, <1>3 DEF TypeOK, Rows

\* No step undoes a decision.
LEMMA KeepsDecisionsStep == Inv /\ [Next]_vars => KeepsDecisions
  <1> SUFFICES ASSUME Inv, [Next]_vars PROVE KeepsDecisions
    OBVIOUS
  <1>1. TypeOK
    BY DEF Inv
  <1>2. CASE UNCHANGED db
    BY <1>2 DEF KeepsDecisions, db
  <1>3. ASSUME NEW r \in Reqs, NEW s \in Students, NEW chain \in Chains, Create(r, s, chain)
        PROVE KeepsDecisions
    <2>1. ~Exists(r) /\ \A q \in Reqs \ {r} : row'[q] = row[q] /\ steps'[q] = steps[q]
      BY <1>1, <1>3 DEF Create, Exists, Existing, Open, TypeOK
    <2>2. \A i \in Order : steps[r][i] = "none"
      BY <2>1 DEF Inv, RowsTogether
    <2>3. QED
      BY <2>1, <2>2 DEF KeepsDecisions, Exists
  <1>4. ASSUME NEW p \in Procs, NEW err, Commit(p, err), call[p].op = "decide"
        PROVE KeepsDecisions
    <2> DEFINE c == call[p]
    <2>1. /\ c.r \in Reqs /\ c.k \in Order /\ c.seen \in Open
          /\ row[c.r].status = c.seen /\ steps[c.r][c.k] = c.seen
      BY <1>4, AtCommit DEF Commit
    <2>2. /\ \A r \in Reqs \ {c.r} : row'[r] = row[r] /\ steps'[r] = steps[r]
          /\ \A i \in Order \ {c.k} : steps'[c.r][i] = steps[c.r][i]
      BY <1>1, <1>4, <2>1, DecideEffect DEF TypeOK
    <2>3. QED
      BY <2>1, <2>2 DEF KeepsDecisions, Open
  <1>5. ASSUME NEW p \in Procs, NEW err, Commit(p, err), call[p].op = "cancel"
        PROVE KeepsDecisions
    BY <1>5, CancelEffect DEF KeepsDecisions
  <1>6. ASSUME NEW s \in Students, PurgeCommit(s)
        PROVE KeepsDecisions
    BY <1>1, <1>6 DEF PurgeCommit, KeepsDecisions, TypeOK, Rows
  <1>7. QED
    BY <1>2, <1>3, <1>4, <1>5, <1>6, HowTablesChange DEF Commit

\* No interleaving of calls undoes a decision.
THEOREM Finality == Spec => DecisionsAreFinal
  BY Invariance, KeepsDecisionsStep, PTL DEF Spec, DecisionsAreFinal

\* No step decides for a guru who has not called.
LEMMA DecidesOwnStepStep == Inv /\ [Next]_vars => DecidesOwnStep
  <1> SUFFICES ASSUME Inv, [Next]_vars PROVE DecidesOwnStep
    OBVIOUS
  <1>1. TypeOK
    BY DEF Inv
  <1>2. CASE UNCHANGED db
    BY <1>2 DEF DecidesOwnStep, db
  <1>3. ASSUME NEW r \in Reqs, NEW s \in Students, NEW chain \in Chains, Create(r, s, chain)
        PROVE DecidesOwnStep
    BY <1>1, <1>3 DEF Create, DecidesOwnStep, Exists, Existing, Open, TypeOK
  <1>4. ASSUME NEW p \in Procs, NEW err, Commit(p, err), call[p].op = "decide"
        PROVE DecidesOwnStep
    <2> DEFINE c == call[p]
    <2>1. /\ c.r \in Reqs /\ c.k \in Order /\ c.pc = "commit"
          /\ row[c.r].approver[c.k] = c.caller
      BY <1>4, AtCommit DEF Commit
    <2>2. /\ \A r \in Reqs \ {c.r} : row'[r] = row[r] /\ steps'[r] = steps[r]
          /\ \A i \in Order \ {c.k} : steps'[c.r][i] = steps[c.r][i]
      BY <1>1, <1>4, <2>1, DecideEffect DEF TypeOK
    <2>3. QED
      BY <1>4, <2>1, <2>2 DEF DecidesOwnStep
  <1>5. ASSUME NEW p \in Procs, NEW err, Commit(p, err), call[p].op = "cancel"
        PROVE DecidesOwnStep
    BY <1>5, CancelEffect DEF DecidesOwnStep
  <1>6. ASSUME NEW s \in Students, PurgeCommit(s)
        PROVE DecidesOwnStep
    BY <1>1, <1>6 DEF PurgeCommit, DecidesOwnStep, TypeOK, Rows
  <1>7. QED
    BY <1>2, <1>3, <1>4, <1>5, <1>6, HowTablesChange DEF Commit

\* A step is decided by the guru it belongs to, and by nobody else.
THEOREM Authority == Spec => OnlyItsApproverDecides
  BY Invariance, DecidesOwnStepStep, PTL DEF Spec, OnlyItsApproverDecides

\* Every step of the handlers is a step of the approval chain, or none.
LEMMA ChainStep == Inv /\ [Next]_vars => [Chain!ChainNext]_Chain!chainVars
  <1> SUFFICES ASSUME Inv, [Next]_vars PROVE [Chain!ChainNext]_Chain!chainVars
    OBVIOUS
  <1> USE DEF Chain!Order, Chain!Open, Chain!Closed, Chain!Existing
  <1> DEFINE status == [r \in Reqs |-> row[r].status]
  <1>1. TypeOK
    BY DEF Inv
  <1>2. CASE UNCHANGED db
    BY <1>2 DEF Chain!chainVars, db
  <1>3. ASSUME NEW r \in Reqs, NEW s \in Students, NEW chain \in Chains, Create(r, s, chain)
        PROVE Chain!ChainNext
    <2>1. status[r] = "unborn" /\ steps' = [steps EXCEPT ![r] = NewSteps]
      BY <1>3 DEF Create
    <2>2. \A q \in Reqs : row'[q].status = IF q = r THEN "pending" ELSE row[q].status
      BY <1>1, <1>3 DEF Create, TypeOK
    <2>3. Chain!Submit(r)
      BY <2>1, <2>2 DEF Chain!Submit, Chain!NewSteps, NewSteps, Order
    <2>4. QED
      BY <2>3 DEF Chain!ChainNext
  <1>4. ASSUME NEW p \in Procs, NEW err, Commit(p, err), call[p].op = "decide"
        PROVE Chain!ChainNext
    <2> DEFINE c == call[p]
    <2>1. c.r \in Reqs /\ c.k \in Order
      BY <1>4, AtCommit DEF Commit
    <2>2. PICK r \in Reqs, i \in Order : r = c.r /\ i = c.k
      BY <2>1
    <2>3. /\ c.seen \in Open /\ c.body \in Decisions
          /\ c.seen = "needs_further_action" => c.body # "needs_further_action"
          /\ row[r].status = c.seen /\ steps[r][i] = c.seen
          /\ \A j \in Order : j < i => steps[r][j] = "approved"
      BY <1>4, <2>2, AtCommit DEF Commit
    <2>4. ASSUME NEW verdict, NEW next, verdict = NextStep(c), next = NextStatus(c)
          PROVE  Chain!Decide(r, i, verdict, next)
      <3>1. steps' = [steps EXCEPT ![r][i] = verdict]
        BY <1>4, <2>2, <2>4 DEF Commit
      <3>2. \A q \in Reqs : row'[q].status = IF q = r THEN next ELSE row[q].status
        BY <1>4, <2>2, <2>4, DecideEffect
      <3>3. \A j \in 1 .. i - 1 : j \in Order /\ j < i
        BY PklAssumption DEF Order
      <3>4. Chain!Turn(r, i)
        BY <2>3, <3>3 DEF Chain!Turn, Open
      <3>5. QED
        BY <3>1, <3>2, <3>4 DEF Chain!Decide
    <2>5. CASE c.body = "approve"
      <3>1. NextStep(c) = "approved" /\ NextStatus(c) = IF i = N THEN "accepted" ELSE "pending"
        BY <2>2, <2>5 DEF NextStep, NextStatus
      <3>2. Chain!Approve(r, i)
        BY <2>4, <3>1 DEF Chain!Approve
      <3>3. QED
        BY <3>2 DEF Chain!ChainNext, Order
    <2>6. CASE c.body = "reject"
      <3>1. NextStep(c) = "rejected" /\ NextStatus(c) = "rejected"
        BY <2>6 DEF NextStep, NextStatus
      <3>2. Chain!Reject(r, i)
        BY <2>4, <3>1 DEF Chain!Reject
      <3>3. QED
        BY <3>2 DEF Chain!ChainNext, Order
    <2>7. CASE c.body = "needs_further_action"
      <3>1. /\ NextStep(c) = "needs_further_action"
            /\ NextStatus(c) = "needs_further_action"
        BY <2>7 DEF NextStep, NextStatus
      <3>2. status[r] = "pending"
        BY <2>3, <2>7 DEF Open
      <3>3. Chain!AskForMore(r, i)
        BY <2>4, <3>1, <3>2 DEF Chain!AskForMore
      <3>4. QED
        BY <3>3 DEF Chain!ChainNext, Order
    <2>8. QED
      BY <2>3, <2>5, <2>6, <2>7 DEF Decisions
  <1>5. ASSUME NEW p \in Procs, NEW err, Commit(p, err), call[p].op = "cancel"
        PROVE Chain!ChainNext
    <2> DEFINE c == call[p]
    <2>1. c.r \in Reqs /\ row[c.r].status \in Open /\ steps' = steps
      BY <1>5, CancelEffect
    <2>2. PICK r \in Reqs : r = c.r
      BY <2>1
    <2>3. \A q \in Reqs : row'[q].status = IF q = r THEN "cancelled" ELSE row[q].status
      BY <1>5, <2>2, CancelEffect
    <2>4. Chain!Withdraw(r)
      BY <2>1, <2>2, <2>3 DEF Chain!Withdraw, Open
    <2>5. QED
      BY <2>4 DEF Chain!ChainNext
  <1>6. ASSUME NEW s \in Students, PurgeCommit(s)
        PROVE Chain!ChainNext
    <2>1. OwnedBy(s) \in SUBSET Reqs
      BY DEF OwnedBy
    <2>2. PICK R \in SUBSET Reqs : R = OwnedBy(s)
      BY <2>1
    <2>3. R # {} /\ \A r \in R : row[r].status \in Existing
      BY <1>6, <2>2 DEF PurgeCommit, OwnedBy, Exists
    <2>4. \A r \in Reqs : row'[r].status = IF r \in R THEN "deleted" ELSE row[r].status
      BY <1>1, <1>6, <2>2 DEF PurgeCommit, TypeOK, Rows
    <2>5. steps' = [r \in Reqs |-> IF r \in R THEN NoSteps ELSE steps[r]]
      BY <1>6, <2>2 DEF PurgeCommit
    <2>6. Chain!Remove(R)
      BY <2>3, <2>4, <2>5 DEF Chain!Remove, Chain!NoSteps, NoSteps, Order, Existing, Open
    <2>7. QED
      BY <2>6 DEF Chain!ChainNext
  <1>7. QED
    BY <1>2, <1>3, <1>4, <1>5, <1>6, HowTablesChange DEF Commit

\* The handlers, with their reads out of date and their guarded updates,
\* implement the approval chain, in which every decision is taken in turn.
THEOREM Implementation == Spec => ImplementsChain
  <1>1. Init => Chain!ChainInit
    BY DEF Init, Chain!ChainInit, Chain!NoSteps, NoSteps, Chain!Order, Order
  <1>2. QED
    BY <1>1, Invariance, ChainStep, PTL DEF Spec, ImplementsChain, Chain!ChainSpec

-----------------------------------------------------------------------------
(***************************************************************************)
(* What calls have read of a request and answer or write later: Get is not *)
(* torn, a decide call which loses a race is answered 409, and             *)
(* current_step names the step whose turn it is as long as no guru has two *)
(* decide calls in flight.                                                 *)
(*                                                                         *)
(* CallMoves says what a step does to one handler, StepsGrow what it does  *)
(* to the steps of a request.                                              *)
(***************************************************************************)

\* How a step may change the record of one handler: not at all, to an answer,
\* to the start of a call, past its first read, or further on with what it read.
CallMoves(p) ==
  LET c == call[p]
      d == call'[p]
      same == d.op = c.op /\ d.r = c.r /\ d.caller = c.caller
  IN
  \/ d = c
  \/ d.pc = "idle" /\ d.steps = NoSteps
  \/ /\ c.pc = "readSteps" /\ c.op = "get" /\ d.pc = "idle" /\ UNCHANGED db
     /\ d.steps = steps[c.r] /\ d.seen = c.seen /\ d.current = c.current
  \/ /\ c.pc = "idle" /\ d.pc = "readRequest" /\ UNCHANGED db
     /\ \A q \in Procs \ {p} : call'[q] = call[q]
     /\ d.op = "decide" /\ ~OverlappingDecides =>
          \A q \in Procs : call[q].pc # "idle" /\ call[q].op = "decide"
                             => call[q].caller # d.caller
  \/ /\ c.pc = "readRequest" /\ d.pc # "idle" /\ same /\ UNCHANGED db
     /\ c.op # "cancel" => /\ d.pc = "readSteps" /\ Exists(c.r)
                           /\ d.seen = row[c.r].status
                           /\ d.current = row[c.r].current
  \/ /\ c.pc \notin {"idle", "readRequest"}
     /\ d.pc \notin {"idle", "readRequest", "readSteps"}
     /\ same /\ d.seen = c.seen /\ d.current = c.current

\* A handler that answers with an error, or without rows.
LEMMA AnswerMoves ==
  ASSUME TypeOK, NEW p \in Procs, NEW err, Answer(p, err)
  PROVE  \A q \in Procs : CallMoves(q)
  BY DEF Answer, CallMoves, NoCall, TypeOK

\* A handler that goes on to its next UPDATE or to COMMIT, having chosen a step.
LEMMA Advances ==
  ASSUME TypeOK, NEW p \in Procs, call[p].pc \notin {"idle", "readRequest"},
         NEW pc \in {"writeStep", "writeRequest", "commit"}, NEW k,
         \/ call' = [call EXCEPT ![p].pc = pc]
         \/ call' = [call EXCEPT ![p].pc = pc, ![p].k = k]
  PROVE  \A q \in Procs : CallMoves(q)
  <1>1. \A q \in Procs \ {p} : call'[q] = call[q]
    BY DEF TypeOK
  <1>2. \/ call'[p] = [call[p] EXCEPT !.pc = pc]
        \/ call'[p] = [call[p] EXCEPT !.pc = pc, !.k = k]
    BY DEF TypeOK
  <1>3. /\ call'[p].pc = pc /\ call'[p].op = call[p].op /\ call'[p].r = call[p].r
        /\ call'[p].caller = call[p].caller /\ call'[p].seen = call[p].seen
        /\ call'[p].current = call[p].current
    <2>1. call[p] \in Calls
      BY DEF TypeOK
    <2>2. QED
      BY <1>2, <2>1 DEF Calls
  <1>4. CallMoves(p)
    BY <1>3 DEF CallMoves
  <1>5. QED
    BY <1>1, <1>4 DEF CallMoves

\* Every step is such a change, of every handler.
LEMMA EveryCallMoves ==
  ASSUME Inv, [Next]_vars
  PROVE  \A p \in Procs : CallMoves(p)
  <1>1. TypeOK
    BY DEF Inv
  <1>2. CASE UNCHANGED call
    BY <1>2 DEF CallMoves
  <1>3. ASSUME NEW p \in Procs, NEW op \in Ops, NEW r \in Reqs, NEW u \in Users,
               NEW body \in Bodies[op], Arrive(p, op, r, u, body)
        PROVE \A q \in Procs : CallMoves(q)
    <2>1. \A q \in Procs \ {p} : call'[q] = call[q]
      BY <1>1, <1>3 DEF Arrive, TypeOK
    <2>2. CASE op = "cancel" /\ body = ""
      BY <1>1, <1>3, <2>1, <2>2 DEF Arrive, CallMoves, NoCall, TypeOK
    <2>3. CASE ~(op = "cancel" /\ body = "")
      <3>1. call'[p] = [NoCall EXCEPT !.op = op, !.pc = "readRequest",
                                      !.r = r, !.caller = u, !.body = body]
        BY <1>1, <1>3, <2>3 DEF Arrive, TypeOK
      <3>2. call'[p].pc = "readRequest" /\ call'[p].op = op /\ call'[p].caller = u
        BY <3>1 DEF NoCall
      <3>3. CallMoves(p)
        BY <1>3, <2>1, <3>2 DEF Arrive, CallMoves
      <3>4. QED
        BY <2>1, <3>3 DEF CallMoves
    <2>4. QED
      BY <2>2, <2>3
  <1>4. ASSUME NEW p \in Procs, ReadRequest(p)
        PROVE \A q \in Procs : CallMoves(q)
    <2>1. CASE \E err : Answer(p, err)
      BY <1>1, <2>1, AnswerMoves
    <2>2. CASE ~\E err : Answer(p, err)
      <3>1. \/ /\ call[p].op = "cancel"
               /\ call' = [call EXCEPT ![p].pc = "writeRequest",
                                       ![p].seen = row[call[p].r].status]
            \/ /\ call[p].op # "cancel" /\ Exists(call[p].r)
               /\ call' = [call EXCEPT ![p].pc = "readSteps",
                                       ![p].seen = row[call[p].r].status,
                                       ![p].current = row[call[p].r].current]
        BY <1>4, <2>2 DEF ReadRequest
      <3>2. call[p].pc = "readRequest" /\ call[p] \in Calls
        BY <1>1, <1>4 DEF ReadRequest, TypeOK
      <3>3. \A q \in Procs \ {p} : call'[q] = call[q]
        BY <1>1, <3>1 DEF TypeOK
      <3>4. CASE call[p].op = "cancel"
        <4>1. call'[p] = [call[p] EXCEPT !.pc = "writeRequest", !.seen = row[call[p].r].status]
          BY <1>1, <3>1, <3>4 DEF TypeOK
        <4>2. /\ call'[p].pc = "writeRequest" /\ call'[p].op = call[p].op
              /\ call'[p].r = call[p].r /\ call'[p].caller = call[p].caller
          BY <3>2, <4>1 DEF Calls
        <4>3. CallMoves(p)
          BY <1>4, <3>2, <3>4, <4>2 DEF CallMoves, ReadRequest
        <4>4. QED
          BY <3>3, <4>3 DEF CallMoves
      <3>6. CASE call[p].op # "cancel"
        <4>1. call'[p] = [call[p] EXCEPT !.pc = "readSteps",
                                         !.seen = row[call[p].r].status,
                                         !.current = row[call[p].r].current]
          BY <1>1, <3>1, <3>6 DEF TypeOK
        <4>2. /\ call'[p].pc = "readSteps" /\ call'[p].op = call[p].op
              /\ call'[p].r = call[p].r /\ call'[p].caller = call[p].caller
              /\ call'[p].seen = row[call[p].r].status
              /\ call'[p].current = row[call[p].r].current
          BY <3>2, <4>1 DEF Calls
        <4>3. CallMoves(p)
          BY <1>4, <3>1, <3>2, <3>6, <4>2 DEF CallMoves, ReadRequest
        <4>4. QED
          BY <3>3, <4>3 DEF CallMoves
      <3>5. QED
        BY <3>4, <3>6
    <2>3. QED
      BY <2>1, <2>2
  <1>5. ASSUME NEW p \in Procs, ReadSteps(p)
        PROVE \A q \in Procs : CallMoves(q)
    <2>1. CASE Answer(p, DecideRefusal(call[p]))
      BY <1>1, <2>1, AnswerMoves
    <2>2. CASE call' = [call EXCEPT ![p].pc = "writeStep", ![p].k = MyStep(call[p])]
      BY <1>1, <1>5, <2>2, Advances DEF ReadSteps
    <2>3. QED
      BY <1>5, <2>1, <2>2 DEF ReadSteps
  <1>6. ASSUME NEW p \in Procs, ReadStepsForGet(p)
        PROVE \A q \in Procs : CallMoves(q)
    <2>1. CASE Answer(p, GetRefusal(call[p]))
      BY <1>1, <2>1, AnswerMoves
    <2>2. CASE call' = [call EXCEPT ![p] =
                 [NoCall EXCEPT !.op = "get", !.seen = call[p].seen,
                                !.current = call[p].current,
                                !.steps = steps[call[p].r]]]
      BY <1>1, <1>6, <2>2 DEF ReadStepsForGet, CallMoves, NoCall, TypeOK
    <2>3. QED
      BY <1>6, <2>1, <2>2 DEF ReadStepsForGet
  <1>7. ASSUME NEW p \in Procs, WriteStep(p)
        PROVE \A q \in Procs : CallMoves(q)
    <2>1. CASE Answer(p, "approval step already decided")
      BY <1>1, <2>1, AnswerMoves
    <2>2. CASE call' = [call EXCEPT ![p].pc = "writeRequest"]
      BY <1>1, <1>7, <2>2, Advances DEF WriteStep
    <2>3. QED
      BY <1>7, <2>1, <2>2 DEF WriteStep
  <1>8. ASSUME NEW p \in Procs, WriteRequest(p)
        PROVE \A q \in Procs : CallMoves(q)
    <2>1. CASE \E err : Answer(p, err)
      BY <1>1, <2>1, AnswerMoves
    <2>2. CASE call' = [call EXCEPT ![p].pc = "commit"]
      BY <1>1, <1>8, <2>2, Advances DEF WriteRequest
    <2>3. QED
      BY <1>8, <2>1, <2>2 DEF WriteRequest
  <1>9. ASSUME NEW p \in Procs, NEW err, Commit(p, err) \/ Fail(p)
        PROVE \A q \in Procs : CallMoves(q)
    BY <1>1, <1>9, AnswerMoves DEF Commit, Fail
  <1>10. QED
    BY <1>2, <1>3, <1>4, <1>5, <1>6, <1>7, <1>8, <1>9
       DEF Next, HandlerStep, Create, PurgeLock, PurgeCommit, PurgeAbort, vars

\* The steps of a request that stays in the table: decided ones stay as they
\* are, and none becomes undecided.
LEMMA StepsGrow ==
  ASSUME Inv, [Next]_vars, NEW r \in Reqs, row[r].status # "unborn"
  PROVE  /\ row'[r].status # "unborn"
         /\ row'[r].status \in Existing =>
              /\ Exists(r)
              /\ row'[r].approver = row[r].approver
              /\ \A i \in Order :
                   /\ steps[r][i] \in {"approved", "rejected"}
                        => steps'[r][i] = steps[r][i]
                   /\ steps[r][i] # "pending" => steps'[r][i] # "pending"
  <1>1. TypeOK
    BY DEF Inv
  <1>2. CASE UNCHANGED db
    BY <1>2 DEF db, Exists
  <1>3. ASSUME NEW q \in Reqs, NEW s \in Students, NEW chain \in Chains, Create(q, s, chain)
        PROVE row'[r] = row[r] /\ steps'[r] = steps[r]
    BY <1>1, <1>3 DEF Create, TypeOK
  <1>4. ASSUME NEW p \in Procs, NEW err, Commit(p, err), call[p].op = "decide"
        PROVE /\ (row'[r].status # "unborn" /\ Exists(r)) \/ row'[r] = row[r]
              /\ row'[r].approver = row[r].approver
              /\ \A i \in Order :
                   /\ steps[r][i] \in {"approved", "rejected"}
                        => steps'[r][i] = steps[r][i]
                   /\ steps[r][i] # "pending" => steps'[r][i] # "pending"
    <2> DEFINE c == call[p]
    <2>1. /\ c \in Calls /\ c.r \in Reqs /\ c.k \in Order /\ c.seen \in Open
          /\ steps[c.r][c.k] = c.seen /\ Exists(c.r)
      BY <1>4, AtCommit DEF Commit
    <2>2. /\ row' = [row EXCEPT ![c.r].status = NextStatus(c), ![c.r].current = NextCurrent(c)]
          /\ steps' = [steps EXCEPT ![c.r][c.k] = NextStep(c)]
      BY <1>4 DEF Commit
    <2>3. NextStatus(c) # "unborn" /\ NextStep(c) # "pending"
      BY DEF NextStatus, NextStep
    <2> HIDE DEF c
    <2>4. row'[r].approver = row[r].approver
      BY <1>1, <2>1, <2>2 DEF TypeOK, Rows
    <2>5. (row'[r].status # "unborn" /\ Exists(r)) \/ row'[r] = row[r]
      BY <1>1, <2>1, <2>2, <2>3 DEF TypeOK, Rows
    <2>6. QED
      BY <1>1, <2>1, <2>2, <2>3, <2>4, <2>5 DEF TypeOK, Open
  <1>5. ASSUME NEW p \in Procs, NEW err, Commit(p, err), call[p].op = "cancel"
        PROVE /\ (row'[r].status # "unborn" /\ Exists(r)) \/ row'[r] = row[r]
              /\ row'[r].approver = row[r].approver /\ steps'[r] = steps[r]
    <2>1. call[p].r \in Reqs /\ row[call[p].r].status \in Open
      BY <1>5, CancelEffect
    <2>2. row' = [row EXCEPT ![call[p].r].status = "cancelled"] /\ steps' = steps
      BY <1>5 DEF Commit
    <2>3. QED
      BY <1>1, <2>1, <2>2 DEF TypeOK, Rows, Exists, Existing
  <1>6. ASSUME NEW s \in Students, PurgeCommit(s)
        PROVE row'[r].status = "deleted" \/ (row'[r] = row[r] /\ steps'[r] = steps[r])
    BY <1>1, <1>6 DEF PurgeCommit, TypeOK, Rows
  <1>7. QED
    BY <1>2, <1>3, <1>4, <1>5, <1>6, HowTablesChange DEF Commit, Exists, Existing, Open

-----------------------------------------------------------------------------
(* Get.                                                                    *)

\* What was not ahead of the steps of a request is not ahead of them after a
\* step.
LEMMA StaysNotAhead ==
  ASSUME NEW c, NEW st, NEW new, c.current \in Order, NotAheadOf(c, st),
         \A i \in Order : /\ st[i] \in {"approved", "rejected"} => new[i] = st[i]
                          /\ st[i] # "pending" => new[i] # "pending"
  PROVE  NotAheadOf(c, new)
  <1>1. \A i \in 1 .. c.current - 1 : i \in Order
    BY PklAssumption DEF Order
  <1>2. QED
    BY <1>1 DEF NotAheadOf

\* The request row, as it is, is not ahead of the steps, as they are.
LEMMA RowNotAhead ==
  ASSUME Inv, NEW r \in Reqs, Exists(r), NEW c,
         c.seen = row[r].status, c.current = row[r].current
  PROVE  c.current \in Order /\ NotAheadOf(c, steps[r])
  BY DEF Inv, StatusMatchesSteps, PointerNotAhead, NotAheadOf

\* GetInv is kept.
LEMMA GetStep == Inv /\ Inv' /\ GetInv /\ [Next]_vars => GetInv'
  <1> SUFFICES ASSUME Inv, Inv', GetInv, [Next]_vars, NEW p \in Procs
               PROVE  /\ (call'[p].pc = "readSteps" /\ call'[p].op = "get") =>
                           /\ row'[call'[p].r].status # "unborn"
                           /\ call'[p].current \in Order
                           /\ row'[call'[p].r].status \in Existing
                                => NotAheadOf(call'[p], steps'[call'[p].r])
                      /\ (/\ call'[p].pc = "idle" /\ call'[p].op = "get"
                          /\ call'[p].err = "none" /\ call'[p].steps # NoSteps)
                           => NotAheadOf(call'[p], call'[p].steps)
    BY DEF GetInv, GetReadsHold, GetIsNotTorn, NotAheadOf, Exists
  <1> DEFINE c == call[p]
             d == call'[p]
  <1>1. CallMoves(p)
    BY EveryCallMoves
  <1>2. c.pc # "idle" => c.r \in Reqs
    BY DEF Inv, TypeOK
  <1>3. (c.pc = "readSteps" /\ c.op = "get") =>
           /\ row[c.r].status # "unborn" /\ c.current \in Order
           /\ Exists(c.r) => NotAheadOf(c, steps[c.r])
    BY DEF GetInv, GetReadsHold
  <1>4. CASE d = c
    <2>1. (c.pc = "readSteps" /\ c.op = "get") =>
            /\ row'[c.r].status # "unborn"
            /\ row'[c.r].status \in Existing => NotAheadOf(c, steps'[c.r])
      <3> SUFFICES ASSUME c.pc = "readSteps", c.op = "get"
                   PROVE  /\ row'[c.r].status # "unborn"
                          /\ row'[c.r].status \in Existing => NotAheadOf(c, steps'[c.r])
        OBVIOUS
      <3>1. c.r \in Reqs /\ row[c.r].status # "unborn" /\ c.current \in Order
        BY <1>2, <1>3
      <3>2. /\ row'[c.r].status # "unborn"
            /\ row'[c.r].status \in Existing =>
                 /\ Exists(c.r)
                 /\ \A i \in Order :
                      /\ steps[c.r][i] \in {"approved", "rejected"}
                           => steps'[c.r][i] = steps[c.r][i]
                      /\ steps[c.r][i] # "pending" => steps'[c.r][i] # "pending"
        BY <3>1, StepsGrow
      <3> HIDE DEF c
      <3>3. QED
        BY <1>3, <3>1, <3>2, StaysNotAhead
    <2>2. QED
      BY <1>3, <1>4, <2>1 DEF GetInv, GetIsNotTorn, NotAheadOf
  <1>5. CASE /\ c.pc = "readSteps" /\ c.op = "get" /\ d.pc = "idle" /\ UNCHANGED db
             /\ d.steps = steps[c.r] /\ d.seen = c.seen /\ d.current = c.current
    <2>1. steps[c.r] # NoSteps => Exists(c.r)
      <3>1. steps[c.r] \in [Order -> StepStatuses \cup {"none"}]
        BY <1>2, <1>5 DEF Inv, TypeOK
      <3>2. (\A i \in Order : steps[c.r][i] = "none") => steps[c.r] = NoSteps
        BY <3>1 DEF NoSteps
      <3>3. QED
        BY <1>2, <1>5, <3>2 DEF Inv, RowsTogether
    <2>2. QED
      BY <1>3, <1>5, <2>1 DEF NotAheadOf
  <1>6. CASE /\ c.pc = "readRequest" /\ d.pc = "readSteps" /\ d.op = "get" /\ d.r = c.r
             /\ UNCHANGED db /\ Exists(c.r)
             /\ d.seen = row[c.r].status /\ d.current = row[c.r].current
    <2>1. d.current \in Order /\ NotAheadOf(d, steps[c.r])
      BY <1>2, <1>6, RowNotAhead
    <2>2. QED
      BY <1>6, <2>1 DEF db, Exists, Existing, Open
  <1>7. QED
    BY <1>1, <1>4, <1>5, <1>6 DEF CallMoves

\* pkl: a request as Get hands it out, read by two statements between which
\* others decide and cancel, never has a status that its steps do not support.
THEOREM GetIsWhole == Spec => []GetIsNotTorn
  <1>1. Init => GetInv
    <2>1. Init => \A p \in Procs : call[p] = NoCall
      BY DEF Init
    <2>2. NoCall.pc = "idle" /\ NoCall.steps = NoSteps
      BY DEF NoCall
    <2>3. QED
      BY <2>1, <2>2 DEF GetInv, GetReadsHold, GetIsNotTorn
  <1>2. Inv /\ Inv' /\ GetInv /\ [Next]_vars => GetInv'
    BY GetStep
  <1>3. GetInv => GetIsNotTorn
    BY DEF GetInv
  <1>4. QED
    BY <1>1, <1>2, <1>3, Invariance, PTL DEF Spec

-----------------------------------------------------------------------------
(* Lost races.                                                             *)

\* pkl: a decide call that passed its checks and loses against another one is
\* answered 409, whichever of its two UPDATEs matches no row.
THEOREM LosersAreTold == Spec => LostDecideIs409
  <1>1. Inv /\ [Next]_vars => LosersGet409
    <2> SUFFICES ASSUME Inv, [Next]_vars, NEW p \in Procs, LostRace(p)
                 PROVE  DecideCode(call'[p].err) = 409
      BY DEF LosersGet409
    <2>1. TypeOK /\ call'[p] # call[p]
      BY DEF Inv, LostRace
    <2>2. ASSUME NEW q \in Procs, NEW err, Answer(q, err)
          PROVE q = p /\ call'[p].err = err
      <3>1. q = p
        BY <2>1, <2>2 DEF Answer, TypeOK
      <3>2. QED
        BY <2>1, <2>2, <3>1 DEF Answer, TypeOK, NoCall
    <2>3. ASSUME NEW pc \in {"writeRequest", "commit"}, call' = [call EXCEPT ![p].pc = pc]
          PROVE  FALSE
      <3>1. call[p] \in Calls /\ call'[p] = [call[p] EXCEPT !.pc = pc]
        BY <2>1, <2>3 DEF TypeOK
      <3>2. call'[p].pc = pc
        BY <3>1 DEF Calls
      <3>3. QED
        BY <2>3, <3>2 DEF LostRace
    <2>4. CASE WriteStep(p)
      <3>1. Answer(p, "approval step already decided")
        BY <2>4, <2>3 DEF WriteStep
      <3>2. call'[p].err = "approval step already decided"
        BY <2>2, <3>1
      <3>3. QED
        BY <3>2 DEF DecideCode
    <2>5. CASE WriteRequest(p)
      <3>1. Answer(p, "pkl request status changed")
        BY <2>5, <2>3 DEF WriteRequest, LostRace
      <3>2. call'[p].err = "pkl request status changed"
        BY <2>2, <3>1
      <3>3. QED
        BY <3>2 DEF DecideCode
    <2>6. ASSUME NEW q \in Procs, q # p, HandlerStep(q)
          PROVE call'[p] = call[p]
      BY <2>1, <2>6 DEF HandlerStep, ReadRequest, ReadSteps, ReadStepsForGet, WriteStep,
                        WriteRequest, Commit, Answer, TypeOK
    <2>7. ASSUME NEW q \in Procs, NEW op \in Ops, NEW r \in Reqs, NEW u \in Users,
                 NEW body \in Bodies[op], Arrive(q, op, r, u, body)
          PROVE q = p /\ call[p].pc = "idle"
      BY <2>1, <2>7 DEF Arrive, TypeOK
    <2>8. ASSUME NEW q \in Procs, Fail(q)
          PROVE FALSE
      BY <2>2, <2>8 DEF Fail, LostRace
    <2>9. CASE HandlerStep(p)
      BY <2>4, <2>5, <2>9 DEF HandlerStep, ReadRequest, ReadSteps, ReadStepsForGet,
                              Commit, LostRace
    <2>10. QED
      BY <2>1, <2>6, <2>7, <2>8, <2>9
         DEF Next, LostRace, Create, PurgeLock, PurgeCommit, PurgeAbort, vars
  <1>2. QED
    BY <1>1, Invariance, PTL DEF Spec, LostDecideIs409

-----------------------------------------------------------------------------
(* The turn.                                                               *)

\* Steps are compared as the numbers that they are.
LEMMA SameStep == \A i, j \in Order : ~(i < j) /\ ~(j < i) => i = j
  BY OneInOrder

\* A step and the next one.
LEMMA StepAndNext ==
  ASSUME NEW k \in Order
  PROVE  /\ k < k + 1 /\ k + 1 # k /\ (k + 1) - 1 = k
         /\ \A i \in 1 .. k : i = k \/ (i \in 1 .. k - 1 /\ i # k)
         /\ \A i \in 1 .. k - 1 : i \in Order
         /\ k # N => k + 1 \in Order
  BY PklAssumption DEF Order

\* Where the pointer is after the commit of a decide call: the call had read it
\* at the step it decides, or there was another call of that guru meanwhile.
LEMMA CommitAtPointer ==
  ASSUME Inv, QuestionsKept, NEW p \in Procs, call[p].pc = "commit", call[p].op = "decide"
  PROVE  call[p].k = call[p].current
  <1> DEFINE c == call[p]
  <1>1. /\ c.r \in Reqs /\ c.k \in Order /\ c.seen \in Open
        /\ steps[c.r][c.k] = c.seen /\ row[c.r].approver[c.k] = c.caller
    BY AtCommit
  <1>2. CASE c.seen = "pending"
    BY <1>2 DEF Inv, ReadsHold, ReadsHoldFor, Deciding
  <1>3. CASE c.seen = "needs_further_action"
    BY <1>1, <1>3 DEF QuestionsKept, OwnQuestions
  <1>4. QED
    BY <1>1, <1>2, <1>3 DEF Open

\* What TurnInv says of the tables is kept.
LEMMA TurnTables ==
  ASSUME Inv, TurnInv, [Next]_vars
  PROVE  QuestionAtPointer' /\ PointsAtTheTurn'
  <1>1. TypeOK
    BY DEF Inv
  <1>2. CASE UNCHANGED db
    BY <1>2 DEF TurnInv, QuestionAtPointer, PointsAtTheTurn, db
  <1>3. ASSUME NEW r \in Reqs, NEW s \in Students, NEW chain \in Chains, Create(r, s, chain)
        PROVE QuestionAtPointer' /\ PointsAtTheTurn'
    <2>1. \A q \in Reqs \ {r} : row'[q] = row[q] /\ steps'[q] = steps[q]
      BY <1>1, <1>3 DEF Create, TypeOK
    <2>2. row'[r].status = "pending" /\ row'[r].current = 1 /\ steps'[r] = NewSteps
      BY <1>1, <1>3 DEF Create, TypeOK
    <2>3. QED
      BY <2>1, <2>2, OneInOrder DEF TurnInv, QuestionAtPointer, PointsAtTheTurn, NewSteps
  <1>4. ASSUME NEW p \in Procs, NEW err, Commit(p, err), call[p].op = "decide"
        PROVE QuestionAtPointer' /\ PointsAtTheTurn'
    <2> DEFINE c == call[p]
    <2>1. /\ c \in Calls /\ c.r \in Reqs /\ c.k \in Order /\ c.seen \in Open
          /\ c.body \in Decisions /\ c.k = c.current
          /\ c.seen = "needs_further_action" => c.body # "needs_further_action"
          /\ steps[c.r][c.k] = c.seen /\ Exists(c.r)
      BY <1>4, AtCommit, CommitAtPointer DEF Commit, TurnInv
    <2>2. /\ \A q \in Reqs \ {c.r} : row'[q] = row[q] /\ steps'[q] = steps[q]
          /\ row'[c.r].status = NextStatus(c)
          /\ steps'[c.r] = [steps[c.r] EXCEPT ![c.k] = NextStep(c)]
      BY <1>4, DecideEffect
    <2>3. row'[c.r].current = NextCurrent(c)
      <3>1. row' = [row EXCEPT ![c.r].status = NextStatus(c), ![c.r].current = NextCurrent(c)]
        BY <1>4 DEF Commit
      <3> HIDE DEF c
      <3>2. QED
        BY <1>1, <2>1, <3>1 DEF TypeOK, Rows
    <2>4. steps'[c.r][c.k] = NextStep(c)
          /\ \A i \in Order \ {c.k} : steps'[c.r][i] = steps[c.r][i]
      BY <1>1, <2>1, <2>2 DEF TypeOK
    <2> HIDE DEF c
    <2>5. NextStatus(c) = "needs_further_action" => steps'[c.r][row'[c.r].current] = "needs_further_action"
      BY <2>1, <2>3, <2>4 DEF NextStatus, NextStep, NextCurrent, Decisions
    <2>6. ASSUME NextStatus(c) = "pending"
          PROVE  /\ row'[c.r].current \in Order
                 /\ steps'[c.r][row'[c.r].current] = "pending"
                 /\ \A i \in 1 .. row'[c.r].current - 1 : steps'[c.r][i] = "approved"
      <3>1. c.body = "approve" /\ c.k # N
        BY <2>1, <2>6 DEF NextStatus, Decisions
      <3>2. row'[c.r].current = c.k + 1 /\ c.k + 1 \in Order
        BY <2>1, <2>3, <3>1, StepAndNext DEF NextCurrent
      <3>3. steps[c.r][c.k + 1] = "pending"
        <4>1. c.k < c.k + 1 /\ steps[c.r][c.k] # "approved"
          BY <2>1, StepAndNext DEF Open
        <4>2. QED
          BY <2>1, <3>2, <4>1 DEF Inv, DecidedInOrder
      <3>4. \A i \in 1 .. c.k - 1 : i \in Order /\ steps[c.r][i] = "approved"
        <4>1. \A i \in 1 .. c.k - 1 : i \in Order
          BY <2>1, StepAndNext
        <4>2. \A i \in 1 .. c.current - 1 : steps[c.r][i] = "approved"
          BY <1>4, <2>1 DEF Inv, ReadsHold, ReadsHoldFor, Commit, c
        <4>3. QED
          BY <2>1, <4>1, <4>2
      <3>5. NextStep(c) = "approved"
        BY <3>1 DEF NextStep
      <3>6. ASSUME NEW i \in 1 .. c.k
            PROVE steps'[c.r][i] = "approved"
        <4>1. i = c.k \/ (i \in 1 .. c.k - 1 /\ i # c.k)
          BY <2>1, StepAndNext
        <4>2. QED
          BY <2>4, <3>4, <3>5, <4>1
      <3>7. steps'[c.r][c.k + 1] = "pending"
        <4>1. c.k + 1 # c.k
          BY <2>1, StepAndNext
        <4>2. QED
          BY <2>4, <3>2, <3>3, <4>1
      <3>8. (c.k + 1) - 1 = c.k
        BY <2>1, StepAndNext
      <3>9. QED
        BY <3>2, <3>6, <3>7, <3>8
    <2>7. ASSUME NEW r \in Reqs
          PROVE  /\ row'[r].status = "needs_further_action" =>
                      steps'[r][row'[r].current] = "needs_further_action"
                 /\ row'[r].status = "pending" =>
                      /\ row'[r].current \in Order
                      /\ steps'[r][row'[r].current] = "pending"
                      /\ \A i \in 1 .. row'[r].current - 1 : steps'[r][i] = "approved"
      <3>1. CASE r = c.r
        BY <2>2, <2>5, <2>6, <3>1
      <3>2. CASE r # c.r
        BY <2>2, <3>2 DEF TurnInv, QuestionAtPointer, PointsAtTheTurn
      <3>3. QED
        BY <3>1, <3>2
    <2>8. QED
      BY <2>7 DEF QuestionAtPointer, PointsAtTheTurn
  <1>5. ASSUME NEW p \in Procs, NEW err, Commit(p, err), call[p].op = "cancel"
        PROVE QuestionAtPointer' /\ PointsAtTheTurn'
    BY <1>5, CancelEffect DEF TurnInv, QuestionAtPointer, PointsAtTheTurn
  <1>6. ASSUME NEW s \in Students, PurgeCommit(s)
        PROVE QuestionAtPointer' /\ PointsAtTheTurn'
    <2>1. \A r \in Reqs : row'[r].status = "deleted" \/ (row'[r] = row[r] /\ steps'[r] = steps[r])
      BY <1>1, <1>6 DEF PurgeCommit, TypeOK, Rows
    <2>2. QED
      BY <2>1 DEF TurnInv, QuestionAtPointer, PointsAtTheTurn
  <1>7. QED
    BY <1>2, <1>3, <1>4, <1>5, <1>6, HowTablesChange DEF Commit

\* A guru has one decide call at a time.
LEMMA OneDecideStep ==
  ASSUME Inv, OneDecideEach, ~OverlappingDecides, [Next]_vars
  PROVE  OneDecideEach'
  <1> SUFFICES ASSUME NEW p \in Procs, NEW q \in Procs, p # q,
                      call'[p].pc # "idle", call'[p].op = "decide",
                      call'[q].pc # "idle", call'[q].op = "decide",
                      call'[p].caller = call'[q].caller
               PROVE  FALSE
    BY DEF OneDecideEach
  <1>1. CallMoves(p) /\ CallMoves(q)
    BY EveryCallMoves
  <1>2. QED
    BY <1>1 DEF CallMoves, OneDecideEach

\* What a decide call that read a question relies on is kept.
LEMMA QuestionsStep ==
  ASSUME Inv, Inv', TurnInv, ~OverlappingDecides, [Next]_vars
  PROVE  QuestionsKept'
  <1> SUFFICES ASSUME NEW p \in Procs,
                      call'[p].op = "decide",
                      call'[p].pc \notin {"idle", "readRequest"},
                      call'[p].seen = "needs_further_action",
                      NEW i \in Order,
                      row'[call'[p].r].approver[i] = call'[p].caller,
                      steps'[call'[p].r][i] = "needs_further_action"
               PROVE  i = call'[p].current
    BY DEF QuestionsKept, OwnQuestions
  <1> DEFINE c == call[p]
             d == call'[p]
  <1>1. CallMoves(p) /\ TypeOK
    BY EveryCallMoves DEF Inv
  <1>2. CASE /\ c.pc = "readRequest" /\ d.r = c.r /\ Exists(c.r) /\ UNCHANGED db
             /\ d.seen = row[c.r].status /\ d.current = row[c.r].current
    <2>1. c.r \in Reqs
      BY <1>1, <1>2 DEF TypeOK
    <2>2. /\ d.current \in Order /\ steps[c.r][d.current] = "needs_further_action"
          /\ steps[c.r][i] = "needs_further_action"
      BY <1>2, <2>1 DEF Inv, PointerNotAhead, TurnInv, QuestionAtPointer, db
    <2>3. ~(i < d.current) /\ ~(d.current < i)
      BY <1>2, <2>1, <2>2 DEF Inv, DecidedInOrder
    <2>4. QED
      BY <2>2, <2>3, SameStep
  <1>3. CASE /\ c.pc \notin {"idle", "readRequest"} /\ c.op = "decide" /\ d.r = c.r
             /\ d.caller = c.caller /\ d.seen = c.seen /\ d.current = c.current
    <2>1. c.r \in Reqs /\ row[c.r].status # "unborn"
      BY <1>1, <1>3 DEF TypeOK, Inv, ReadsHold, ReadsHoldFor
    <2>2. (row[c.r].approver[i] = c.caller /\ steps[c.r][i] = "needs_further_action")
             => i = c.current
      BY <1>3 DEF TurnInv, QuestionsKept, OwnQuestions
    <2>3. row'[c.r].status \in Existing
      BY <1>3, <2>1 DEF Inv, RowsTogether, Exists
    <2>4. row'[c.r].approver = row[c.r].approver
      BY <2>1, <2>3, StepsGrow
    <2>5. CASE steps'[c.r][i] = steps[c.r][i]
      BY <1>3, <2>2, <2>4, <2>5
    <2>6. CASE steps'[c.r][i] # steps[c.r][i]
      <3>1. PICK q \in Procs, err \in {"none", "database error"} :
               Commit(q, err) /\ call[q].op = "decide"
        <4>1. ASSUME NEW r \in Reqs, NEW s \in Students, NEW chain \in Chains, Create(r, s, chain)
              PROVE FALSE
          BY <1>1, <2>1, <2>6, <4>1 DEF Create, TypeOK
        <4>2. ASSUME NEW s \in Students, PurgeCommit(s)
              PROVE FALSE
          BY <1>1, <1>3, <2>1, <2>6, <4>2 DEF PurgeCommit, NoSteps
        <4>3. QED
          BY <2>6, <4>1, <4>2, HowTablesChange, CancelEffect DEF Commit, db
      <3>2. call[q].r = c.r /\ call[q].k = i
        <4>1. /\ call[q].r \in Reqs /\ call[q].k \in Order
              /\ \A r \in Reqs \ {call[q].r} : steps'[r] = steps[r]
              /\ steps'[call[q].r] = [steps[call[q].r] EXCEPT ![call[q].k] = NextStep(call[q])]
          <5>1. call[q].pc = "commit" /\ call[q].op = "decide"
            BY <3>1 DEF Commit
          <5>2. call[q].r \in Reqs /\ call[q].k \in Order
            BY <5>1, AtCommit
          <5>3. QED
            BY <3>1, <5>2, DecideEffect
        <4>2. call[q].r = c.r
          BY <2>1, <2>6, <4>1
        <4>3. \A j \in Order \ {call[q].k} : steps'[c.r][j] = steps[c.r][j]
          BY <1>1, <4>1, <4>2 DEF TypeOK
        <4>4. QED
          BY <2>6, <4>2, <4>3
      <3>3. call[q].caller = c.caller
        <4>1. row[call[q].r].approver[call[q].k] = call[q].caller
          BY <3>1, AtCommit DEF Commit
        <4>2. row'[c.r].approver[i] = c.caller
          BY <1>3
        <4>3. QED
          BY <2>4, <3>2, <4>1, <4>2
      <3>4. q = p
        BY <1>3, <3>1, <3>3 DEF Commit, TurnInv, OneDecideEach
      <3>5. call'[q].pc = "idle"
        BY <1>1, <3>1, AnswerIsIdle DEF Commit
      <3>6. QED
        BY <3>4, <3>5
    <2>7. QED
      BY <2>5, <2>6
  <1>4. QED
    BY <1>1, <1>2, <1>3 DEF CallMoves

\* pkl: as long as no guru has two decide calls in flight, a pending request
\* points at the step whose turn it is, so that its approver can go on.
THEOREM TurnIsKept ==
  ASSUME ~OverlappingDecides
  PROVE  Spec => []PointsAtTheTurn
  <1>1. Init => TurnInv
    <2> SUFFICES ASSUME Init PROVE TurnInv
      OBVIOUS
    <2>1. \A p \in Procs : call[p] = NoCall
      BY DEF Init
    <2>2. NoCall.pc = "idle"
      BY DEF NoCall
    <2>3. \A r \in Reqs : row[r].status = "unborn"
      BY DEF Init
    <2>4. QED
      BY <2>1, <2>2, <2>3
         DEF TurnInv, QuestionAtPointer, PointsAtTheTurn, OneDecideEach, QuestionsKept
  <1>2. Inv /\ Inv' /\ TurnInv /\ [Next]_vars => TurnInv'
    <2> SUFFICES ASSUME Inv, Inv', TurnInv, [Next]_vars PROVE TurnInv'
      OBVIOUS
    <2>1. OneDecideEach
      BY DEF TurnInv
    <2>2. QED
      BY <2>1, TurnTables, OneDecideStep, QuestionsStep DEF TurnInv
  <1>3. TurnInv => PointsAtTheTurn
    BY DEF TurnInv
  <1>4. QED
    BY <1>1, <1>2, <1>3, Invariance, PTL DEF Spec
===============================================================================
