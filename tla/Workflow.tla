------------------------------- MODULE Workflow -------------------------------
(***************************************************************************)
(* Approved triage workflows and investigation cases: nova/enterprise.py   *)
(* with the case functions of both engines.  Operators request, approve,   *)
(* cancel and retry jobs, by the revision of the listing they looked at,   *)
(* and edit cases by hand; the workers of the gateways execute one step of *)
(* one job per transaction.                                                *)
(*                                                                         *)
(* Requests, cases and history belong to a tenant and no query joins two   *)
(* tenants, so the module is about one.  A request key names its job, and  *)
(* an alert its only case.  A process that dies inside a transaction       *)
(* leaves nothing behind.  Notes are counted for workflows, and history is *)
(* kept by job: entries about cases and notes of operators are left out.   *)
(*                                                                         *)
(* A worker is a thread of a gateway (nova/server.py).  In the local       *)
(* server it drains the journal before it looks for a job, in the same     *)
(* pass: what fails there costs the workflows their turn, and failures in  *)
(* a row end the thread for good.                                          *)
(***************************************************************************)
EXTENDS Integers, Sequences

CONSTANTS
    None,
    Operators,
    Jobs,
    Alerts,        \* alerts that were raised; they are never deleted
    Workers,       \* worker threads
    MaxAttempts,   \* failures of one step in a row that fail the job (3)
    MaxFailures,   \* passes failing in a row that end a worker (5)
    MaxRevision    \* bound: no retry of a job from this revision on

Playbook == <<"case.create", "case.status", "case.note">>
Statuses == {"open", "investigating", "resolved", "closed"}
States   == {"pending_approval", "queued", "completed", "failed", "cancelled"}
Actions  == {"approve", "cancel", "retry"}

Job  == [requester : Operators, approver : Operators \cup {None}, alert : Alerts,
         state : States, step : 0..Len(Playbook), attempts : 0..MaxAttempts,
         revision : Nat, case : Alerts \cup {None}]
Case == [status : Statuses, notes : [Jobs -> Nat]]
View == [job : Jobs, row : Job]

\* What is said of a job: who did it, what, and the number in the detail (the
\* revision of a transition, the step, the attempt).
Entry == [by : Operators \cup {"workflow"},
          action : {"request", "step", "step_failed"} \cup Actions, value : Nat]

ASSUME WorkflowAssumption ==
    /\ {MaxAttempts, MaxFailures} \subseteq Nat \ {0} /\ MaxRevision \in Nat
    /\ None \notin Operators \cup Alerts \cup Job \cup Case \cup View
    /\ "workflow" \notin Operators

VARIABLES
    jobs,    \* nova_workflows
    cases,   \* cases and the notes that workflows left on them, by alert
    audit,   \* audit rows about each job, in the order of their chain
    view,    \* operator -> the row he looked at last
    failures \* worker -> passes that failed in a row; worker_error is set if any

vars == <<jobs, cases, audit, view, failures>>

TypeOK ==
    /\ jobs \in [Jobs -> Job \cup {None}]
    /\ cases \in [Alerts -> Case \cup {None}]
    /\ audit \in [Jobs -> Seq(Entry)]
    /\ view \in [Operators -> View \cup {None}]
    /\ failures \in [Workers -> 0..MaxFailures]

Init ==
    /\ jobs = [j \in Jobs |-> None]
    /\ cases = [a \in Alerts |-> None]
    /\ audit = [j \in Jobs |-> <<>>]
    /\ view = [op \in Operators |-> None]
    /\ failures = [w \in Workers |-> 0]

Updated(j, row) == jobs' = [jobs EXCEPT ![j] = [row EXCEPT !.revision = @ + 1]]

Audited(j, entries) == audit' = [audit EXCEPT ![j] = @ \o entries]

-----------------------------------------------------------------------------
(* Operators *)

\* A key that comes again returns the row it has, or is refused.
create(op, j, a) ==
    /\ jobs[j] = None
    /\ jobs' = [jobs EXCEPT ![j] =
          [requester |-> op, approver |-> None, alert |-> a, state |-> "pending_approval",
           step |-> 0, attempts |-> 0, revision |-> 0, case |-> None]]
    /\ Audited(j, <<[by |-> op, action |-> "request", value |-> 0]>>)
    /\ UNCHANGED <<cases, view, failures>>

listing(op, j) ==
    /\ jobs[j] # None
    /\ view' = [view EXCEPT ![op] = [job |-> j, row |-> jobs[j]]]
    /\ UNCHANGED <<jobs, cases, audit, failures>>

\* Mutant: the revision of the request is not compared.
CurrentView(op, j) == view[op] # None /\ view[op].job = j

\* The revision an operator names is the one of the row he looked at.
Current(op, j) ==
    view[op] # None /\ view[op].job = j /\ view[op].row.revision = jobs[j].revision

\* Mutant: whoever requested a job may approve it.
AllowedSelf(op, job, action) ==
    CASE action = "approve" -> job.state = "pending_approval"
      [] action = "cancel"  -> job.state \in {"pending_approval", "queued", "failed"}
      [] action = "retry"   -> job.state = "failed" /\ job.revision < MaxRevision

Allowed(op, job, action) ==
    CASE action = "approve" -> job.state = "pending_approval" /\ op # job.requester
      [] action = "cancel"  -> job.state \in {"pending_approval", "queued", "failed"}
      [] action = "retry"   -> /\ job.state = "failed" /\ job.approver # None
                               /\ job.revision < MaxRevision

transition(op, j, action) ==
    LET job == jobs[j] IN
    /\ Current(op, j) /\ Allowed(op, job, action)
    /\ Updated(j, [job EXCEPT !.state = IF action = "cancel" THEN "cancelled" ELSE "queued",
                              !.approver = IF action = "approve" THEN op ELSE @,
                              !.attempts = 0])
    /\ Audited(j, <<[by |-> op, action |-> action, value |-> job.revision + 1]>>)
    /\ UNCHANGED <<cases, view, failures>>

Opened(a) ==
    IF cases[a] # None THEN cases
    ELSE [cases EXCEPT ![a] = [status |-> "open", notes |-> [j \in Jobs |-> 0]]]

create_case(a) == cases' = Opened(a) /\ UNCHANGED <<jobs, audit, view, failures>>

\* Any operator may set any status at any time.
update_case(a, status) ==
    /\ cases[a] # None
    /\ cases' = [cases EXCEPT ![a].status = status]
    /\ UNCHANGED <<jobs, audit, view, failures>>

-----------------------------------------------------------------------------
(* Workers: one step in one transaction *)

\* The case is bound to the job by the step that opened it.
Bound(job) == job.case # None /\ job.case = job.alert /\ cases[job.case] # None

\* The case table after the job's next step.
Effect(j) ==
    LET job == jobs[j] IN
    CASE Playbook[job.step + 1] = "case.create" -> Opened(job.alert)
      [] Playbook[job.step + 1] = "case.status" ->
            [cases EXCEPT ![job.case].status = "investigating"]
      [] Playbook[job.step + 1] = "case.note" ->
            [cases EXCEPT ![job.case].notes[j] = @ + 1]

StepEntry(job) == [by |-> "workflow", action |-> "step", value |-> job.step + 1]

Succeed(j) ==
    LET job == jobs[j] IN
    /\ job.step > 0 => Bound(job)
    /\ cases' = Effect(j)
    /\ Updated(j, [job EXCEPT !.step = @ + 1, !.attempts = 0, !.case = job.alert,
                              !.state = IF job.step + 1 = Len(Playbook) THEN "completed"
                                        ELSE "queued"])
    /\ Audited(j, <<StepEntry(job)>>)

\* Mutant: the step that failed keeps its effects.
RolledBackLate(j) == Effect(j)

\* The savepoint takes back what the step did.
RolledBack(j) == cases

\* Mutant: one failure more than allowed.
FailedStateLate(attempts) == IF attempts > MaxAttempts THEN "failed" ELSE "queued"

FailedState(attempts) == IF attempts >= MaxAttempts THEN "failed" ELSE "queued"

FailEntry(job) == [by |-> "workflow", action |-> "step_failed", value |-> job.attempts + 1]

\* Mutant: the audit row of the step is written before the savepoint.
FailEntriesKept(job) == <<StepEntry(job), FailEntry(job)>>

FailEntries(job) == <<FailEntry(job)>>

\* Any exception on the way through the step.
Fail(j) ==
    LET job      == jobs[j]
        attempts == job.attempts + 1
    IN  /\ cases' = RolledBack(j)
        /\ Updated(j, [job EXCEPT !.attempts = attempts, !.state = FailedState(attempts)])
        /\ Audited(j, FailEntries(job))

\* Mutant: a job whose step failed is not selected again.
QueuedFresh(j) == jobs[j] # None /\ jobs[j].state = "queued" /\ jobs[j].attempts = 0

\* Jobs wait for their time after a failure and the oldest that is due goes
\* first; at some moment or other that is any job in the queue.
Queued(j) == jobs[j] # None /\ jobs[j].state = "queued"

Stopped(w) == failures[w] = MaxFailures

\* A pass that got through the journal executes a step of a job that is due.
tick(w, j) ==
    /\ ~ Stopped(w) /\ Queued(j)
    /\ Succeed(j) \/ Fail(j)
    /\ failures' = [failures EXCEPT ![w] = 0]
    /\ UNCHANGED view

\* A pass that found no job due.
pass(w) ==
    /\ ~ Stopped(w)
    /\ failures' = [failures EXCEPT ![w] = 0]
    /\ UNCHANGED <<jobs, cases, audit, view>>

\* Any exception of a pass, the journal's or the transaction's own.
pass_fails(w) ==
    /\ ~ Stopped(w)
    /\ failures' = [failures EXCEPT ![w] = @ + 1]
    /\ UNCHANGED <<jobs, cases, audit, view>>

\* The operator starts the gateway again.
restart(w) ==
    /\ Stopped(w)
    /\ failures' = [failures EXCEPT ![w] = 0]
    /\ UNCHANGED <<jobs, cases, audit, view>>

Next ==
    \/ \E op \in Operators, j \in Jobs :
          \/ \E a \in Alerts : create(op, j, a)
          \/ listing(op, j)
          \/ \E action \in Actions : transition(op, j, action)
    \/ \E a \in Alerts : create_case(a) \/ \E status \in Statuses : update_case(a, status)
    \/ \E w \in Workers :
          \/ \E j \in Jobs : tick(w, j)
          \/ pass(w) \/ pass_fails(w) \/ restart(w)

Spec == Init /\ [][Next]_vars

\* A worker loops until it is stopped; a failed job waits at most 300 seconds, in
\* which younger ones have their turn.  A pass that fails may fail again.
Fairness == \A j \in Jobs : WF_vars(\E w \in Workers : tick(w, j))

FairSpec == Spec /\ Fairness

-----------------------------------------------------------------------------
(* Properties *)

Requested(j) == jobs[j] # None

\* The effects of a workflow on its case are those of the steps its row counts:
\* the note is there once when all are done and not before, whatever failed, was
\* cancelled or retried in between, and only if a second operator approved.
EffectsOnce ==
    \A j \in Jobs, a \in Alerts : Requested(j) =>
        /\ cases[a] # None =>
              cases[a].notes[j] =
                  IF a = jobs[j].alert /\ jobs[j].step = Len(Playbook) THEN 1 ELSE 0
        /\ jobs[j].step > 0 => /\ cases[jobs[j].alert] # None
                               /\ jobs[j].approver \notin {None, jobs[j].requester}

\* The row an audit entry leaves behind, as a reader of the history would say.
Told(row, e) ==
    CASE e.action = "request" -> [requester |-> e.by, approver |-> None, step |-> 0,
                                  attempts |-> 0, state |-> "pending_approval"]
      [] e.action = "approve" -> [row EXCEPT !.approver = e.by, !.state = "queued"]
      [] e.action = "cancel"  -> [row EXCEPT !.state = "cancelled", !.attempts = 0]
      [] e.action = "retry"   -> [row EXCEPT !.state = "queued", !.attempts = 0]
      [] e.action = "step"    -> [row EXCEPT !.step = e.value, !.attempts = 0,
                                     !.state = IF e.value = Len(Playbook) THEN "completed"
                                              ELSE "queued"]
      [] e.action = "step_failed" -> [row EXCEPT !.attempts = e.value,
                                         !.state = IF e.value = MaxAttempts THEN "failed" ELSE @]

Story(entries) ==
    LET row[n \in 0..Len(entries)] == IF n = 0 THEN None ELSE Told(row[n - 1], entries[n])
    IN  row[Len(entries)]

\* The history of a job explains its row: every committed change is told once,
\* in order, nothing that was rolled back is, and the revision counts them.
AuditExplains ==
    \A j \in Jobs :
        IF Requested(j)
        THEN /\ jobs[j].revision = Len(audit[j]) - 1
             /\ Story(audit[j]) = [requester |-> jobs[j].requester,
                                   approver |-> jobs[j].approver, step |-> jobs[j].step,
                                   attempts |-> jobs[j].attempts, state |-> jobs[j].state]
        ELSE audit[j] = <<>>

\* What only an operator does to a job.
Decided(j) ==
    /\ Requested(j)
    /\ \/ jobs'[j].approver # jobs[j].approver
       \/ jobs'[j].state = "cancelled" /\ jobs[j].state # "cancelled"
       \/ jobs'[j].state = "queued" /\ jobs[j].state = "failed"

\* Nobody approves, cancels or retries a job in another condition than the one he
\* looked at: the steps and failures of workers in between refuse him.
ActsOnWhatWasSeen ==
    [][\A j \in Jobs : Decided(j) =>
          \E op \in Operators : view[op] = [job |-> j, row |-> jobs[j]]]_vars

\* A job as the request for an action: a step acts once, all steps are needed, and
\* nothing acts on a job that stands still.
Stage(state) ==
    CASE state = "pending_approval" -> "proposed"
      [] state = "queued"    -> "approved"
      [] state = "failed"    -> "stopped"
      [] state = "completed" -> "done"
      [] state = "cancelled" -> "ended"

AllSteps == [least |-> Len(Playbook), most |-> Len(Playbook)]

RequestOf(j) ==
    IF jobs[j] = None
    THEN [requester |-> None, approver |-> None, state |-> "absent", acts |-> 0,
          budget |-> None]
    ELSE [requester |-> jobs[j].requester, approver |-> jobs[j].approver,
          state |-> Stage(jobs[j].state), acts |-> jobs[j].step, budget |-> AllSteps]

Requests == [j \in Jobs |-> RequestOf(j)]

Promise == INSTANCE Approval WITH
    requests <- Requests, Budgets <- {AllSteps}, LateActs <- FALSE

\* Workflows keep the promise about approved actions: whatever fails, is cancelled or
\* retried, steps are taken only between the approval of a second operator and the end.
ImplementsApproval == Promise!Spec

\* An approved workflow comes to an end, unless every worker has stopped.
EventuallyEnds ==
    \A j \in Jobs :
        (Requested(j) /\ jobs[j].state = "queued") ~>
            \/ Requested(j) /\ jobs[j].state \in {"completed", "failed", "cancelled"}
            \/ \A w \in Workers : Stopped(w)
===============================================================================
