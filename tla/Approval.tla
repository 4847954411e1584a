------------------------------ MODULE Approval ------------------------------
(***************************************************************************)
(* What Nova promises about an action an operator asks for, whichever part *)
(* performs it: nothing is done before another operator has approved, no   *)
(* more is done than was asked for, a job is only called done once enough  *)
(* of it is, what is done or ended is so for good, and a job that stopped  *)
(* half way goes on from there.  The triage workflows (Workflow) implement *)
(* it by the steps of a playbook, the external actions (ExternalResponse)  *)
(* by the requests that reach a provider.                                  *)
(***************************************************************************)
EXTENDS Naturals

CONSTANTS
    None,
    Jobs,       \* what operators ask for
    Operators,
    Budgets,    \* how often a job has to act at least and may act at most
    LateActs    \* whether what was begun before a job stopped may still act

VARIABLE requests

\* What nobody has asked for.
Absent == [requester |-> None, approver |-> None, state |-> "absent", acts |-> 0,
           budget |-> None]

Becomes(j, row) == requests' = [requests EXCEPT ![j] = row]

Moves(j, from, to) ==
    /\ requests[j].state \in from
    /\ Becomes(j, [requests[j] EXCEPT !.state = to])

Propose(j, op, budget) ==
    /\ requests[j].state = "absent"
    /\ Becomes(j, [requester |-> op, approver |-> None, state |-> "proposed", acts |-> 0,
                   budget |-> budget])

Approve(j, op) ==
    /\ requests[j].state = "proposed" /\ op # requests[j].requester
    /\ Becomes(j, [requests[j] EXCEPT !.state = "approved", !.approver = op])

MayAct(row) ==
    /\ row.approver # None /\ row.acts < row.budget.most
    /\ row.state = "approved" \/ LateActs

Act(j) ==
    /\ MayAct(requests[j])
    /\ Becomes(j, [requests[j] EXCEPT !.acts = @ + 1])

\* The act that was still missing.
LastAct(j) ==
    /\ requests[j].state = "approved" /\ MayAct(requests[j])
    /\ requests[j].acts + 1 >= requests[j].budget.least
    /\ Becomes(j, [requests[j] EXCEPT !.acts = @ + 1, !.state = "done"])

\* What was begun proves to be enough.
Complete(j) ==
    /\ Moves(j, {"approved", "stopped"}, "done")
    /\ requests[j].acts >= requests[j].budget.least

Stop(j)   == Moves(j, {"approved"}, "stopped")
Resume(j) == Moves(j, {"stopped"}, "approved")
End(j)    == Moves(j, {"proposed", "approved", "stopped"}, "ended")

Init == requests = [j \in Jobs |-> Absent]

Next ==
    \E j \in Jobs :
        \/ \E op \in Operators :
              Approve(j, op) \/ \E budget \in Budgets : Propose(j, op, budget)
        \/ Act(j) \/ LastAct(j) \/ Complete(j) \/ Stop(j) \/ Resume(j) \/ End(j)

Spec == Init /\ [][Next]_requests
=============================================================================
