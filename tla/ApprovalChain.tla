---------------------------- MODULE ApprovalChain ----------------------------
(***************************************************************************)
(* What an internship (PKL) request promises, whatever happens in between: *)
(* its approvers decide one after the other, in the order of their         *)
(* positions, each decision is final except "needs further action", which  *)
(* only the one who asked for it may settle, and the status of the request *)
(* follows from the decisions.  There is no pointer to the step whose turn *)
(* it is, no database and no handler here: PklApproval has those, and      *)
(* implements this specification.                                          *)
(***************************************************************************)
EXTENDS Naturals

CONSTANTS Reqs,   \* the requests
          N       \* the number of approval steps of a request

VARIABLES status, \* status[r]: where request r stands
          steps   \* steps[r][i]: the decision of the i-th approver of r

chainVars == <<status, steps>>

Order == 1 .. N

Open     == {"pending", "needs_further_action"}
Closed   == {"accepted", "rejected", "cancelled"}
Existing == Open \cup Closed

StepStatuses == {"pending", "approved", "rejected", "needs_further_action"}

NoSteps  == [i \in Order |-> "none"]
NewSteps == [i \in Order |-> "pending"]

ChainInit ==
  /\ status = [r \in Reqs |-> "unborn"]
  /\ steps = [r \in Reqs |-> NoSteps]

\* A request is filed with every step pending.
Submit(r) ==
  /\ status[r] = "unborn"
  /\ status' = [status EXCEPT ![r] = "pending"]
  /\ steps' = [steps EXCEPT ![r] = NewSteps]

\* It is the turn of step i: all before it have approved, and i is either
\* undecided or the one whose question holds the request up.
Turn(r, i) ==
  /\ status[r] \in Open
  /\ steps[r][i] = status[r]
  /\ \A j \in 1 .. i - 1 : steps[r][j] = "approved"

Decide(r, i, verdict, next) ==
  /\ Turn(r, i)
  /\ steps' = [steps EXCEPT ![r][i] = verdict]
  /\ status' = [status EXCEPT ![r] = next]

Approve(r, i) ==
  Decide(r, i, "approved", IF i = N THEN "accepted" ELSE "pending")

Reject(r, i) == Decide(r, i, "rejected", "rejected")

\* The approver asks for something first; a question is asked only once.
AskForMore(r, i) ==
  /\ status[r] = "pending"
  /\ Decide(r, i, "needs_further_action", "needs_further_action")

\* The requester withdraws a request that is still open.
Withdraw(r) ==
  /\ status[r] \in Open
  /\ status' = [status EXCEPT ![r] = "cancelled"]
  /\ UNCHANGED steps

\* The requester's account is deleted, and the requests with it.
Remove(R) ==
  /\ R # {}
  /\ \A r \in R : status[r] \in Existing
  /\ status' = [r \in Reqs |-> IF r \in R THEN "deleted" ELSE status[r]]
  /\ steps' = [r \in Reqs |-> IF r \in R THEN NoSteps ELSE steps[r]]

ChainNext ==
  \/ \E r \in Reqs :
       \/ Submit(r)
       \/ Withdraw(r)
       \/ \E i \in Order : Approve(r, i) \/ Reject(r, i) \/ AskForMore(r, i)
  \/ \E R \in SUBSET Reqs : Remove(R)

ChainSpec == ChainInit /\ [][ChainNext]_chainVars
=============================================================================
