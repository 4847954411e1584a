---------------------------- MODULE Workflow_proofs ----------------------------
(***************************************************************************)
(* Theorems about workflows for any number of operators, jobs, alerts and  *)
(* workers and any limits.  A revision names one condition of a row: who   *)
(* names it acts on that condition.  The note of a job is written by the   *)
(* step that completes it, in the transaction that counts the step.        *)
(***************************************************************************)
EXTENDS Workflow, TLAPS, WellFoundedInduction

\* A job that goes on has steps before it; one that was ever queued, or has made
\* a step, was approved by somebody else.
Ordered ==
    \A j \in Jobs : Requested(j) =>
        /\ jobs[j].state = "pending_approval" => jobs[j].step = 0
        /\ jobs[j].state \in {"queued", "failed"} =>
              /\ jobs[j].step < Len(Playbook)
              /\ jobs[j].approver \notin {None, jobs[j].requester}
        /\ jobs[j].state = "queued" => jobs[j].attempts < MaxAttempts

Done(j, a) == Requested(j) /\ a = jobs[j].alert /\ jobs[j].step = Len(Playbook)

\* EffectsOnce, for jobs that were never requested too.
Effects ==
    \A j \in Jobs :
        /\ \A a \in Alerts : cases[a] # None => cases[a].notes[j] = IF Done(j, a) THEN 1 ELSE 0
        /\ Requested(j) /\ jobs[j].step > 0 => /\ cases[jobs[j].alert] # None
                                               /\ jobs[j].approver \notin {None, jobs[j].requester}

\* What an operator saw is what is there, or has an older revision.
Seen ==
    \A op \in Operators, j \in Jobs : view[op] # None /\ view[op].job = j =>
        /\ Requested(j)
        /\ view[op].row.revision <= jobs[j].revision
        /\ view[op].row.revision = jobs[j].revision => view[op].row = jobs[j]

IInv == TypeOK /\ Ordered /\ Effects /\ Seen

-----------------------------------------------------------------------------
\* What a playbook's steps are.
LEMMA PlaybookHas ==
    /\ Len(Playbook) = 3
    /\ Playbook[1] = "case.create" /\ Playbook[2] = "case.status" /\ Playbook[3] = "case.note"
BY DEF Playbook

\* An update gives the job one new row with the next revision.
LEMMA UpdateRow ==
    ASSUME TypeOK, NEW j \in Jobs, Requested(j), NEW row \in Job, Updated(j, row)
    PROVE  /\ jobs' \in [Jobs -> Job \cup {None}] /\ jobs'[j] \in Job /\ jobs'[j] # None
           /\ jobs'[j].requester = row.requester /\ jobs'[j].approver = row.approver
           /\ jobs'[j].alert = row.alert /\ jobs'[j].state = row.state
           /\ jobs'[j].step = row.step /\ jobs'[j].attempts = row.attempts
           /\ jobs'[j].revision = row.revision + 1
           /\ \A i \in Jobs : i # j => jobs'[i] = jobs[i]
<1> DEFINE new == [row EXCEPT !.revision = row.revision + 1]
<1>1. /\ new \in Job
      /\ new.requester = row.requester /\ new.approver = row.approver
      /\ new.alert = row.alert /\ new.state = row.state
      /\ new.step = row.step /\ new.attempts = row.attempts
      /\ new.revision = row.revision + 1
  BY DEF Job
<1>2. jobs' = [jobs EXCEPT ![j] = new] /\ jobs \in [Jobs -> Job \cup {None}]
  BY DEF Updated, TypeOK
<1> HIDE DEF new
<1>3. new # None
  BY <1>1, WorkflowAssumption
<1>4. QED
  BY <1>1, <1>2, <1>3 DEF new

\* New entries keep the history well formed.
LEMMA AuditType ==
    ASSUME TypeOK, NEW j \in Jobs, NEW e \in Entry, Audited(j, <<e>>)
    PROVE  audit' \in [Jobs -> Seq(Entry)]
<1>1. audit \in [Jobs -> Seq(Entry)] /\ audit[j] \in Seq(Entry)
  BY DEF TypeOK
<1>2. <<e>> \in Seq(Entry)
  OBVIOUS
<1>3. audit[j] \o <<e>> \in Seq(Entry)
  BY <1>1, <1>2
<1>4. QED
  BY <1>1, <1>3 DEF Audited

\* A step that leaves the rows alone, opens cases without notes and may let an
\* operator look at a row.
LEMMA QuietKeeps ==
    ASSUME IInv, UNCHANGED <<jobs, audit>>,
           cases' \in [Alerts -> Case \cup {None}],
           view' \in [Operators -> View \cup {None}],
           failures' \in [Workers -> 0..MaxFailures],
           \A a \in Alerts :
              /\ cases[a] # None => cases'[a] # None
              /\ cases'[a] # None =>
                    \A j \in Jobs : cases'[a].notes[j] = IF cases[a] = None THEN 0
                                                         ELSE cases[a].notes[j],
           \A op \in Operators : \/ view'[op] = view[op]
                                 \/ \E j \in Jobs : /\ Requested(j)
                                                    /\ view'[op] = [job |-> j, row |-> jobs[j]]
    PROVE  IInv'
<1>1. TypeOK /\ Ordered /\ Effects /\ Seen
  BY DEF IInv
<1>2. TypeOK'
  BY <1>1 DEF TypeOK
<1>3. Ordered'
  BY <1>1 DEF Ordered, Requested
<1>4. Effects'
  <2>1. \A j \in Jobs : Requested(j) => jobs[j].alert \in Alerts
    BY <1>1 DEF TypeOK, Requested, Job
  <2>2. ASSUME NEW j \in Jobs, NEW a \in Alerts, cases'[a] # None
        PROVE  cases'[a].notes[j] = IF Done(j, a) THEN 1 ELSE 0
    <3>1. CASE cases[a] # None
      BY <1>1, <2>2, <3>1 DEF Effects
    <3>2. CASE cases[a] = None
      <4>1. ~ Done(j, a)
        BY <1>1, <3>2, PlaybookHas DEF Effects, Done
      <4>2. QED
        BY <2>2, <3>2, <4>1
    <3>3. QED
      BY <3>1, <3>2
  <2>3. ASSUME NEW j \in Jobs, Requested(j), jobs[j].step > 0
        PROVE  cases'[jobs[j].alert] # None /\ jobs[j].approver \notin {None, jobs[j].requester}
    BY <1>1, <2>1, <2>3 DEF Effects
  <2>4. \A j \in Jobs, a \in Alerts : Done(j, a)' <=> Done(j, a)
    BY DEF Requested, Done
  <2>5. QED
    BY <2>2, <2>3, <2>4 DEF Effects, Requested
<1>5. Seen'
  <2>1. ASSUME NEW op \in Operators, NEW j \in Jobs, view'[op] # None, view'[op].job = j
        PROVE  /\ Requested(j)
               /\ view'[op].row.revision <= jobs[j].revision
               /\ view'[op].row.revision = jobs[j].revision => view'[op].row = jobs[j]
    <3>1. CASE view'[op] = view[op]
      BY <1>1, <2>1, <3>1 DEF Seen
    <3>2. ASSUME NEW i \in Jobs, Requested(i), view'[op] = [job |-> i, row |-> jobs[i]]
          PROVE  /\ Requested(j)
                 /\ view'[op].row.revision <= jobs[j].revision
                 /\ view'[op].row.revision = jobs[j].revision => view'[op].row = jobs[j]
      <4>1. i = j /\ view'[op].row = jobs[j]
        BY <2>1, <3>2
      <4>2. jobs[j].revision \in Nat
        BY <1>1, <3>2, <4>1 DEF TypeOK, Requested, Job
      <4>3. QED
        BY <3>2, <4>1, <4>2
    <3>3. QED
      BY <3>1, <3>2
  <2>2. QED
    BY <2>1 DEF Seen, Requested
<1>6. QED
  BY <1>2, <1>3, <1>4, <1>5 DEF IInv

\* A step that gives a job its next row; the note is there if the row is done.
LEMMA RowKeeps ==
    ASSUME IInv, NEW j \in Jobs, Requested(j), NEW row \in Job, Updated(j, row),
           row.revision = jobs[j].revision, row.alert = jobs[j].alert,
           row.state = "pending_approval" => row.step = 0,
           row.state \in {"queued", "failed"} \/ row.step > 0 =>
              row.approver \notin {None, row.requester},
           row.state \in {"queued", "failed"} => row.step < Len(Playbook),
           row.state = "queued" => row.attempts < MaxAttempts,
           row.step > 0 => cases'[row.alert] # None,
           jobs[j].step = Len(Playbook) => row.step = Len(Playbook),
           NEW e \in Entry, Audited(j, <<e>>), UNCHANGED view,
           failures' \in [Workers -> 0..MaxFailures],
           cases' \in [Alerts -> Case \cup {None}],
           \A a \in Alerts :
              /\ cases[a] # None => cases'[a] # None
              /\ cases'[a] # None =>
                    \A i \in Jobs : cases'[a].notes[i] =
                       IF i = j /\ a = row.alert /\ row.step = Len(Playbook) THEN 1
                       ELSE IF cases[a] = None THEN 0 ELSE cases[a].notes[i]
    PROVE  IInv'
<1>1. TypeOK /\ Ordered /\ Effects /\ Seen
  BY DEF IInv
<1>2. /\ jobs' \in [Jobs -> Job \cup {None}] /\ jobs'[j] \in Job /\ jobs'[j] # None
      /\ jobs'[j].requester = row.requester /\ jobs'[j].approver = row.approver
      /\ jobs'[j].alert = row.alert /\ jobs'[j].state = row.state
      /\ jobs'[j].step = row.step /\ jobs'[j].attempts = row.attempts
      /\ jobs'[j].revision = jobs[j].revision + 1
      /\ \A i \in Jobs : i # j => jobs'[i] = jobs[i]
  BY <1>1, UpdateRow
<1>3. TypeOK'
  BY <1>1, <1>2, AuditType DEF TypeOK
<1>4. \A i \in Jobs : Requested(i)' <=> Requested(i)
  BY <1>2 DEF Requested
<1>5. Ordered'
  <2>1. ASSUME NEW i \in Jobs, jobs'[i] # None
        PROVE  /\ jobs'[i].state = "pending_approval" => jobs'[i].step = 0
               /\ jobs'[i].state \in {"queued", "failed"} =>
                     /\ jobs'[i].step < Len(Playbook)
                     /\ jobs'[i].approver \notin {None, jobs'[i].requester}
               /\ jobs'[i].state = "queued" => jobs'[i].attempts < MaxAttempts
    <3>1. CASE i = j
      BY <1>2, <3>1
    <3>2. CASE i # j
      BY <1>1, <1>2, <2>1, <3>2 DEF Ordered, Requested
    <3>3. QED
      BY <3>1, <3>2
  <2>2. QED
    BY <2>1 DEF Ordered, Requested
<1>6. Effects'
  <2>1. jobs[j].alert \in Alerts /\ jobs[j].step \in Nat /\ row.step \in Nat
    BY <1>1, PlaybookHas DEF TypeOK, Requested, Job
  <2>2. ASSUME NEW i \in Jobs, NEW a \in Alerts, cases'[a] # None
        PROVE  cases'[a].notes[i] = IF jobs'[i] # None /\ a = jobs'[i].alert
                                       /\ jobs'[i].step = Len(Playbook) THEN 1 ELSE 0
    <3>1. cases[a] = None => ~ Done(i, a)
      BY <1>1, PlaybookHas DEF Effects, Done
    <3>2. (IF cases[a] = None THEN 0 ELSE cases[a].notes[i]) = IF Done(i, a) THEN 1 ELSE 0
      BY <1>1, <3>1 DEF Effects
    <3>3. CASE i = j
      BY <1>2, <2>1, <2>2, <3>2, <3>3 DEF Done, Requested
    <3>4. CASE i # j
      BY <1>2, <2>2, <3>2, <3>4 DEF Done, Requested
    <3>5. QED
      BY <3>3, <3>4
  <2>3. ASSUME NEW i \in Jobs, jobs'[i] # None, jobs'[i].step > 0
        PROVE  cases'[jobs'[i].alert] # None /\ jobs'[i].approver \notin {None, jobs'[i].requester}
    <3>1. CASE i = j
      BY <1>2, <2>3, <3>1
    <3>2. CASE i # j
      <4>1. jobs'[i] = jobs[i] /\ Requested(i) /\ jobs[i].alert \in Alerts
        BY <1>1, <1>2, <2>3, <3>2 DEF TypeOK, Requested, Job
      <4>2. QED
        BY <1>1, <2>3, <4>1 DEF Effects
    <3>3. QED
      BY <3>1, <3>2
  <2>4. QED
    BY <2>2, <2>3 DEF Effects, Done, Requested
<1>7. Seen'
  <2>1. ASSUME NEW op \in Operators, NEW i \in Jobs, view[op] # None, view[op].job = i
        PROVE  /\ jobs'[i] # None
               /\ view[op].row.revision <= jobs'[i].revision
               /\ view[op].row.revision = jobs'[i].revision => view[op].row = jobs'[i]
    <3>1. CASE i # j
      BY <1>1, <1>2, <2>1, <3>1 DEF Seen, Requested
    <3>2. CASE i = j
      <4>1. view[op].row.revision <= jobs[j].revision
        BY <1>1, <2>1, <3>2 DEF Seen
      <4>2. jobs[j].revision \in Nat /\ view[op].row.revision \in Nat
        BY <1>1, <2>1 DEF TypeOK, View, Job, Requested
      <4>3. QED
        BY <1>2, <3>2, <4>1, <4>2
    <3>3. QED
      BY <3>1, <3>2
  <2>2. QED
    BY <2>1 DEF Seen, Requested
<1>8. QED
  BY <1>3, <1>5, <1>6, <1>7 DEF IInv

\* A request has no row before it, and no note.
LEMMA CreateKeeps ==
    ASSUME IInv, NEW op \in Operators, NEW j \in Jobs, NEW a \in Alerts, create(op, j, a)
    PROVE  IInv'
<1> DEFINE row == [requester |-> op, approver |-> None, alert |-> a, state |-> "pending_approval",
                   step |-> 0, attempts |-> 0, revision |-> 0, case |-> None]
           e == [by |-> op, action |-> "request", value |-> 0]
<1>1. TypeOK /\ Ordered /\ Effects /\ Seen
  BY DEF IInv
<1>2. /\ jobs[j] = None /\ jobs' = [jobs EXCEPT ![j] = row] /\ Audited(j, <<e>>)
      /\ UNCHANGED <<cases, view, failures>>
  BY DEF create
<1>3. /\ row \in Job /\ row.state = "pending_approval" /\ row.step = 0 /\ e \in Entry
  BY WorkflowAssumption, PlaybookHas DEF Job, States, Entry
<1> HIDE DEF row, e
<1>4. /\ jobs' \in [Jobs -> Job \cup {None}] /\ jobs'[j] = row /\ row # None
      /\ \A i \in Jobs : i # j => jobs'[i] = jobs[i]
  BY <1>1, <1>2, <1>3, WorkflowAssumption DEF TypeOK
<1>5. TypeOK'
  BY <1>1, <1>2, <1>3, <1>4, AuditType DEF TypeOK
<1>6. Ordered'
  <2>1. ASSUME NEW i \in Jobs, jobs'[i] # None
        PROVE  /\ jobs'[i].state = "pending_approval" => jobs'[i].step = 0
               /\ jobs'[i].state \in {"queued", "failed"} =>
                     /\ jobs'[i].step < Len(Playbook)
                     /\ jobs'[i].approver \notin {None, jobs'[i].requester}
               /\ jobs'[i].state = "queued" => jobs'[i].attempts < MaxAttempts
    BY <1>1, <1>3, <1>4, <2>1 DEF Ordered, Requested
  <2>2. QED
    BY <2>1 DEF Ordered, Requested
<1>7. Effects'
  <2>1. \A i \in Jobs, b \in Alerts : Done(i, b)' <=> Done(i, b)
    BY <1>2, <1>3, <1>4, PlaybookHas DEF Done, Requested
  <2>2. ASSUME NEW i \in Jobs, jobs'[i] # None, jobs'[i].step > 0
        PROVE  jobs'[i] = jobs[i] /\ Requested(i)
    BY <1>3, <1>4, <2>2 DEF Requested
  <2>3. QED
    BY <1>1, <1>2, <2>1, <2>2 DEF Effects, Requested
<1>8. Seen'
  BY <1>1, <1>2, <1>4 DEF Seen, Requested
<1>9. QED
  BY <1>5, <1>6, <1>7, <1>8 DEF IInv

\* An operator's decision.
LEMMA TransitionKeeps ==
    ASSUME IInv, NEW op \in Operators, NEW j \in Jobs, Requested(j), NEW action \in Actions,
           transition(op, j, action)
    PROVE  IInv'
<1> DEFINE job == jobs[j]
           row == [job EXCEPT !.state = IF action = "cancel" THEN "cancelled" ELSE "queued",
                              !.approver = IF action = "approve" THEN op ELSE @,
                              !.attempts = 0]
           e == [by |-> op, action |-> action, value |-> job.revision + 1]
<1>1. TypeOK /\ Ordered /\ Effects /\ job \in Job
  BY DEF IInv, TypeOK, Requested
<1>2. /\ Allowed(op, job, action) /\ Updated(j, row) /\ Audited(j, <<e>>)
      /\ UNCHANGED <<cases, view, failures>>
  BY DEF transition
<1>3. /\ row \in Job /\ row.revision = job.revision /\ row.alert = job.alert
      /\ row.step = job.step /\ row.attempts = 0 /\ row.requester = job.requester
      /\ row.state = IF action = "cancel" THEN "cancelled" ELSE "queued"
      /\ row.approver = IF action = "approve" THEN op ELSE job.approver
  <2>1. op \in Operators /\ job \in Job
    BY <1>1
  <2>2. {"queued", "cancelled"} \subseteq States /\ 0 \in 0..MaxAttempts
    BY WorkflowAssumption DEF States
  <2> HIDE DEF job
  <2>3. CASE action = "cancel"
    BY <2>1, <2>2, <2>3 DEF Job
  <2>4. CASE action = "approve"
    BY <2>1, <2>2, <2>4 DEF Job
  <2>5. CASE action = "retry"
    BY <2>1, <2>2, <2>5 DEF Job
  <2>6. QED
    BY <2>3, <2>4, <2>5 DEF Actions
<1>4. e \in Entry
  BY <1>1 DEF Entry, Job, Actions
<1>5. job.step \in Nat /\ job.alert \in Alerts
  BY <1>1, PlaybookHas DEF Job
<1> HIDE DEF row, e
<1>6. action = "approve" => job.step = 0 /\ op \notin {None, job.requester}
  BY <1>1, <1>2, WorkflowAssumption DEF Allowed, Ordered, Requested
<1>7. action = "retry" => job.step < Len(Playbook) /\ job.approver \notin {None, job.requester}
  BY <1>1, <1>2 DEF Allowed, Ordered, Requested, Actions
<1>8. action = "cancel" => job.state \in {"pending_approval", "queued", "failed"}
  BY <1>2 DEF Allowed
<1>9. job.step < Len(Playbook)
  BY <1>1, <1>6, <1>7, <1>8, PlaybookHas DEF Ordered, Requested, Actions
<1>10. job.step > 0 => cases[job.alert] # None /\ job.approver \notin {None, job.requester}
  BY <1>1 DEF Effects, Requested
<1>11. 0 < MaxAttempts
  BY WorkflowAssumption
<1>12. row.state \in {"queued", "failed"} \/ row.step > 0 => row.approver \notin {None, row.requester}
  BY <1>3, <1>6, <1>7, <1>10 DEF Actions
<1>13. failures' \in [Workers -> 0..MaxFailures] /\ cases' \in [Alerts -> Case \cup {None}]
  BY <1>1, <1>2 DEF TypeOK
<1>14. QED
  BY <1>2, <1>3, <1>4, <1>5, <1>9, <1>10, <1>11, <1>12, <1>13, RowKeeps

\* What a failed step leaves of the job.
LEMMA FailKeeps ==
    ASSUME IInv, NEW w \in Workers, NEW j \in Jobs, Queued(j), Fail(j), UNCHANGED view,
           failures' = [failures EXCEPT ![w] = 0]
    PROVE  IInv'
<1> DEFINE job == jobs[j]
           next == job.attempts + 1
           row  == [job EXCEPT !.attempts = next, !.state = FailedState(next)]
           e    == [by |-> "workflow", action |-> "step_failed", value |-> next]
<1>1. TypeOK /\ Ordered /\ Effects /\ job \in Job /\ Requested(j)
  BY DEF IInv, TypeOK, Queued, Requested
<1>2. /\ job.state = "queued" /\ job.step < Len(Playbook) /\ job.attempts < MaxAttempts
      /\ job.approver \notin {None, job.requester}
  BY <1>1 DEF Queued, Ordered
<1>3. Updated(j, row) /\ Audited(j, <<e>>) /\ UNCHANGED cases
  BY DEF Fail, FailEntries, FailEntry, RolledBack
<1>4. job.attempts \in Nat /\ MaxAttempts \in Nat /\ next \in 0..MaxAttempts /\ next \in Nat
  BY <1>1, <1>2, WorkflowAssumption DEF Job
<1>5. /\ FailedState(next) \in {"queued", "failed"}
      /\ FailedState(next) = "queued" => next < MaxAttempts
  BY <1>4 DEF FailedState
<1>6. e \in Entry
  BY <1>4 DEF Entry
<1> HIDE DEF next, e
<1>7. /\ row \in Job /\ row.revision = job.revision /\ row.alert = job.alert
      /\ row.step = job.step /\ row.attempts = next /\ row.requester = job.requester
      /\ row.state = FailedState(next) /\ row.approver = job.approver
  BY <1>1, <1>4, <1>5 DEF Job, States
<1> HIDE DEF row
<1>8. job.step > 0 => cases[job.alert] # None
  BY <1>1 DEF Effects
<1>9. failures' \in [Workers -> 0..MaxFailures] /\ cases' \in [Alerts -> Case \cup {None}]
  BY <1>1, <1>3, WorkflowAssumption DEF TypeOK
<1>10. job.step \in Nat /\ job.step # Len(Playbook)
  BY <1>1, <1>2, PlaybookHas DEF Job
<1>11. QED
  BY <1>1, <1>2, <1>3, <1>5, <1>6, <1>7, <1>8, <1>9, <1>10, RowKeeps

\* What each step of the playbook does to the cases.
LEMMA StepEffect ==
    ASSUME IInv, NEW j \in Jobs, Queued(j), Succeed(j)
    PROVE  /\ cases' \in [Alerts -> Case \cup {None}]
           /\ cases'[jobs[j].alert] # None
           /\ \A a \in Alerts :
              /\ cases[a] # None => cases'[a] # None
              /\ cases'[a] # None =>
                    \A i \in Jobs : cases'[a].notes[i] =
                       IF i = j /\ a = jobs[j].alert /\ jobs[j].step + 1 = Len(Playbook) THEN 1
                       ELSE IF cases[a] = None THEN 0 ELSE cases[a].notes[i]
<1> DEFINE job == jobs[j]
<1>1. TypeOK /\ Ordered /\ Effects /\ job \in Job /\ Requested(j) /\ job.alert \in Alerts
  BY DEF IInv, TypeOK, Queued, Requested, Job
<1>2. job.step \in {0, 1, 2} /\ cases \in [Alerts -> Case \cup {None}] /\ None \notin Case
  BY <1>1, PlaybookHas, WorkflowAssumption DEF Queued, Ordered, Job, TypeOK
<1>3. (job.step > 0 => Bound(job)) /\ cases' = Effect(j)
  BY DEF Succeed
<1>4. CASE job.step = 0
  <2> DEFINE new == [status |-> "open", notes |-> [i \in Jobs |-> 0]]
  <2>1. new \in Case /\ new # None /\ \A i \in Jobs : new.notes[i] = 0
    BY <1>2 DEF Case, Statuses
  <2>2. cases' = IF cases[job.alert] # None THEN cases ELSE [cases EXCEPT ![job.alert] = new]
    BY <1>3, <1>4, PlaybookHas DEF Effect, Opened
  <2> HIDE DEF new
  <2>3. job.step + 1 # Len(Playbook)
    BY <1>4, PlaybookHas
  <2>4. QED
    BY <1>1, <1>2, <2>1, <2>2, <2>3
<1>5. CASE job.step \in {1, 2}
  <2>1. job.case = job.alert /\ cases[job.alert] # None /\ cases[job.alert] \in Case
    BY <1>1, <1>2, <1>3, <1>5 DEF Bound
  <2> DEFINE old == cases[job.alert]
  <2>2. old.notes \in [Jobs -> Nat] /\ old.status \in Statuses
    BY <2>1 DEF Case
  <2>3. CASE job.step = 1
    <3> DEFINE new == [old EXCEPT !.status = "investigating"]
    <3>1. cases' = [cases EXCEPT ![job.alert] = new]
      BY <1>3, <2>1, <2>3, PlaybookHas DEF Effect
    <3>2. new \in Case /\ new.notes = old.notes
      BY <2>1 DEF Case, Statuses
    <3> HIDE DEF new
    <3>3. job.step + 1 # Len(Playbook)
      BY <2>3, PlaybookHas
    <3>4. QED
      BY <1>1, <1>2, <2>1, <3>1, <3>2, <3>3
  <2>4. CASE job.step = 2
    <3> DEFINE new == [old EXCEPT !.notes = [old.notes EXCEPT ![j] = old.notes[j] + 1]]
    <3>1. cases' = [cases EXCEPT ![job.alert] = new]
      BY <1>3, <2>1, <2>4, PlaybookHas DEF Effect
    <3>2. old.notes[j] = 0
      BY <1>1, <2>1, <2>4, PlaybookHas DEF Effects, Done
    <3>3. /\ new \in Case /\ new.notes[j] = 1
          /\ \A i \in Jobs : i # j => new.notes[i] = old.notes[i]
      BY <2>1, <2>2, <3>2 DEF Case
    <3> HIDE DEF new
    <3>4. job.step + 1 = Len(Playbook)
      BY <2>4, PlaybookHas
    <3>5. QED
      BY <1>1, <1>2, <2>1, <3>1, <3>3, <3>4
  <2>5. QED
    BY <1>5, <2>3, <2>4
<1>6. QED
  BY <1>2, <1>4, <1>5

\* A step that succeeds.
LEMMA SucceedKeeps ==
    ASSUME IInv, NEW w \in Workers, NEW j \in Jobs, Queued(j), Succeed(j), UNCHANGED view,
           failures' = [failures EXCEPT ![w] = 0]
    PROVE  IInv'
<1> DEFINE job  == jobs[j]
           next == job.step + 1
           row  == [job EXCEPT !.step = next, !.attempts = 0, !.case = job.alert,
                               !.state = IF next = Len(Playbook) THEN "completed" ELSE "queued"]
           e    == [by |-> "workflow", action |-> "step", value |-> next]
<1>1. TypeOK /\ Ordered /\ Effects /\ job \in Job /\ Requested(j)
  BY DEF IInv, TypeOK, Queued, Requested
<1>2. /\ job.state = "queued" /\ job.step < Len(Playbook)
      /\ job.approver \notin {None, job.requester}
  BY <1>1 DEF Queued, Ordered
<1>3. Updated(j, row) /\ Audited(j, <<e>>)
  BY DEF Succeed, StepEntry
<1>4. /\ job.step \in Nat /\ next \in 0..Len(Playbook) /\ next \in Nat /\ next > 0
      /\ 0 \in 0..MaxAttempts /\ 0 < MaxAttempts
  BY <1>1, <1>2, PlaybookHas, WorkflowAssumption DEF Job
<1>5. e \in Entry
  BY <1>4 DEF Entry
<1> HIDE DEF next, e
<1>6. /\ row \in Job /\ row.revision = job.revision /\ row.alert = job.alert
      /\ row.step = next /\ row.attempts = 0 /\ row.requester = job.requester
      /\ row.state = (IF next = Len(Playbook) THEN "completed" ELSE "queued")
      /\ row.approver = job.approver
  BY <1>1, <1>4 DEF Job, States
<1> HIDE DEF row
<1>7. row.state \in {"queued", "failed"} => row.step < Len(Playbook)
  BY <1>4, <1>6, PlaybookHas
<1>8. failures' \in [Workers -> 0..MaxFailures]
  BY <1>1, WorkflowAssumption DEF TypeOK
<1>9. next = job.step + 1 /\ job.step # Len(Playbook)
  BY <1>2, <1>4, PlaybookHas DEF next
<1>10. QED
  BY <1>1, <1>2, <1>3, <1>4, <1>5, <1>6, <1>7, <1>8, <1>9, StepEffect, RowKeeps

\* No case and no job at first.
LEMMA InitInv == Init => IInv
<1> SUFFICES ASSUME Init PROVE IInv
  OBVIOUS
<1>1. TypeOK
  BY WorkflowAssumption DEF Init, TypeOK
<1>2. QED
  BY <1>1 DEF Init, IInv, Ordered, Effects, Seen, Requested

\* One step per action.
LEMMA StepInv == IInv /\ [Next]_vars => IInv'
<1> SUFFICES ASSUME IInv, [Next]_vars PROVE IInv'
  OBVIOUS
<1>1. TypeOK /\ Seen
  BY DEF IInv
<1>2. ASSUME NEW op \in Operators, NEW j \in Jobs, NEW a \in Alerts, create(op, j, a)
      PROVE  IInv'
  BY <1>2, CreateKeeps
<1>3. ASSUME NEW op \in Operators, NEW j \in Jobs, listing(op, j)
      PROVE  IInv'
  <2> DEFINE seen == [job |-> j, row |-> jobs[j]]
  <2>1. /\ Requested(j) /\ view' = [view EXCEPT ![op] = seen]
        /\ UNCHANGED <<jobs, cases, audit, failures>>
    BY <1>3 DEF listing, Requested
  <2>2. seen \in View
    BY <1>1, <2>1 DEF TypeOK, Requested, View
  <2>3. /\ view' \in [Operators -> View \cup {None}]
        /\ \A o \in Operators : view'[o] = view[o] \/ view'[o] = seen
    BY <1>1, <2>1, <2>2 DEF TypeOK
  <2>4. QED
    BY <1>1, <2>1, <2>3, QuietKeeps DEF TypeOK
<1>4. ASSUME NEW op \in Operators, NEW j \in Jobs, NEW action \in Actions,
             transition(op, j, action)
      PROVE  IInv'
  <2>1. Requested(j)
    BY <1>1, <1>4 DEF transition, Current, Seen
  <2>2. QED
    BY <1>4, <2>1, TransitionKeeps
<1>5. ASSUME NEW a \in Alerts, create_case(a)
      PROVE  IInv'
  <2> DEFINE new == [status |-> "open", notes |-> [i \in Jobs |-> 0]]
  <2>1. new \in Case /\ \A i \in Jobs : new.notes[i] = 0
    BY DEF Case, Statuses
  <2>2. /\ cases' = IF cases[a] # None THEN cases ELSE [cases EXCEPT ![a] = new]
        /\ UNCHANGED <<jobs, audit, view, failures>>
    BY <1>5 DEF create_case, Opened
  <2> HIDE DEF new
  <2>3. cases \in [Alerts -> Case \cup {None}] /\ None \notin Case
    BY <1>1, WorkflowAssumption DEF TypeOK
  <2>4. QED
    BY <1>1, <2>1, <2>2, <2>3, QuietKeeps DEF TypeOK
<1>6. ASSUME NEW a \in Alerts, NEW status \in Statuses, update_case(a, status)
      PROVE  IInv'
  <2> DEFINE new == [cases[a] EXCEPT !.status = status]
  <2>1. /\ cases \in [Alerts -> Case \cup {None}] /\ None \notin Case /\ cases[a] # None
        /\ cases' = [cases EXCEPT ![a] = new] /\ UNCHANGED <<jobs, audit, view, failures>>
    BY <1>1, <1>6, WorkflowAssumption DEF TypeOK, update_case
  <2>2. new \in Case /\ new.notes = cases[a].notes
    BY <2>1 DEF Case
  <2> HIDE DEF new
  <2>3. QED
    BY <1>1, <2>1, <2>2, QuietKeeps DEF TypeOK
<1>7. ASSUME NEW w \in Workers, NEW j \in Jobs, tick(w, j)
      PROVE  IInv'
  BY <1>7, SucceedKeeps, FailKeeps DEF tick
<1>8. ASSUME NEW w \in Workers, pass(w) \/ pass_fails(w) \/ restart(w)
      PROVE  IInv'
  <2>1. failures \in [Workers -> 0..MaxFailures] /\ MaxFailures \in Nat
    BY <1>1, WorkflowAssumption DEF TypeOK
  <2>2. UNCHANGED <<jobs, cases, audit, view>> /\ failures' \in [Workers -> 0..MaxFailures]
    BY <1>8, <2>1 DEF pass, pass_fails, restart, Stopped
  <2>3. QED
    BY <1>1, <2>2, QuietKeeps DEF TypeOK
<1>9. CASE UNCHANGED vars
  BY <1>1, <1>9, QuietKeeps DEF vars, TypeOK
<1>10. QED
  BY <1>2, <1>3, <1>4, <1>5, <1>6, <1>7, <1>8, <1>9 DEF Next

\* The invariant holds in every reachable state.
LEMMA Inductive == Spec => []IInv
BY InitInv, StepInv, PTL DEF Spec

\* The tables of workflows, cases and their history are well formed in every
\* reachable state.
THEOREM WorkflowTypeCorrect == Spec => []TypeOK
<1>1. IInv => TypeOK
  BY DEF IInv
<1>2. QED
  BY <1>1, Inductive, PTL

\* The effects of a workflow are those of the steps its row counts, whatever failed,
\* was cancelled, retried or executed by whichever worker.
THEOREM EffectsHold == Spec => []EffectsOnce
<1>1. IInv => EffectsOnce
  BY DEF IInv, Effects, EffectsOnce, Done
<1>2. QED
  BY <1>1, Inductive, PTL

\* A worker approves and cancels nothing.
LEMMA TickRow ==
    ASSUME IInv, NEW j \in Jobs, Queued(j), Succeed(j) \/ Fail(j)
    PROVE  jobs'[j].approver = jobs[j].approver /\ jobs'[j].state # "cancelled"
<1> DEFINE job == jobs[j]
<1>1. TypeOK /\ job \in Job /\ Requested(j)
  BY DEF IInv, TypeOK, Queued, Requested
<1> SUFFICES \E row : /\ jobs' = [jobs EXCEPT ![j] = row]
                      /\ row.approver = job.approver /\ row.state # "cancelled"
  BY <1>1 DEF TypeOK
<1>2. CASE Succeed(j)
  <2> DEFINE next == job.step + 1
             row == [job EXCEPT !.step = next, !.attempts = 0, !.case = job.alert,
                       !.state = IF next = Len(Playbook) THEN "completed" ELSE "queued"]
             new == [row EXCEPT !.revision = row.revision + 1]
  <2>1. jobs' = [jobs EXCEPT ![j] = new]
    BY <1>2 DEF Succeed, Updated
  <2>2. new.approver = job.approver /\ new.state # "cancelled"
    BY <1>1 DEF Job
  <2> HIDE DEF new
  <2>3. QED
    BY <2>1, <2>2
<1>3. CASE Fail(j)
  <2> DEFINE next == job.attempts + 1
             row == [job EXCEPT !.attempts = next, !.state = FailedState(next)]
             new == [row EXCEPT !.revision = row.revision + 1]
  <2>1. jobs' = [jobs EXCEPT ![j] = new]
    BY <1>3 DEF Fail, Updated
  <2>2. new.approver = job.approver /\ new.state # "cancelled"
    BY <1>1 DEF Job, FailedState
  <2> HIDE DEF new
  <2>3. QED
    BY <2>1, <2>2
<1>4. QED
  BY <1>2, <1>3

Informed ==
    \A j \in Jobs : Decided(j) => \E op \in Operators : view[op] = [job |-> j, row |-> jobs[j]]

\* Every step that decides names the revision it read.
LEMMA StepInformed == IInv /\ [Next]_vars => Informed
<1> SUFFICES ASSUME IInv, [Next]_vars, NEW j \in Jobs, Decided(j)
             PROVE  \E op \in Operators : view[op] = [job |-> j, row |-> jobs[j]]
  BY DEF Informed
<1>1. TypeOK /\ Seen
  BY DEF IInv
<1>2. ASSUME NEW i \in Jobs, i # j, NEW row, jobs' = [jobs EXCEPT ![i] = row]
      PROVE  FALSE
  BY <1>1, <1>2 DEF Decided, TypeOK
<1>3. PICK op \in Operators, action \in Actions : transition(op, j, action)
  <2>1. ~ UNCHANGED jobs
    BY DEF Decided
  <2>2. ASSUME NEW op \in Operators, NEW i \in Jobs, NEW a \in Alerts, create(op, i, a)
        PROVE  FALSE
    BY <1>2, <2>2 DEF create, Decided, Requested
  <2>3. ASSUME NEW w \in Workers, NEW i \in Jobs, tick(w, i)
        PROVE  FALSE
    <3>1. i = j
      BY <1>2, <2>3 DEF tick, Succeed, Fail, Updated
    <3> DEFINE job == jobs[j]
    <3>2. job.state = "queued" /\ Requested(j) /\ job \in Job /\ jobs \in [Jobs -> Job \cup {None}]
      BY <1>1, <2>3, <3>1 DEF tick, Queued, Requested, TypeOK
    <3>3. jobs'[j].approver = job.approver /\ jobs'[j].state # "cancelled"
      BY <2>3, <3>1, TickRow DEF tick
    <3>4. QED
      BY <3>2, <3>3 DEF Decided
  <2>4. ASSUME NEW op \in Operators, NEW i \in Jobs, NEW action \in Actions,
               transition(op, i, action)
        PROVE  i = j
    BY <1>2, <2>4 DEF transition, Updated
  <2>5. QED
    BY <2>1, <2>2, <2>3, <2>4
       DEF Next, vars, listing, create_case, update_case, pass, pass_fails, restart
<1>4. view[op] # None /\ view[op] \in View /\ view[op].job = j /\ view[op].row = jobs[j]
  BY <1>1, <1>3 DEF transition, Current, Seen, TypeOK
<1>5. view[op] = [job |-> j, row |-> jobs[j]]
  BY <1>4 DEF View
<1>6. QED
  BY <1>5

\* Operators act on the condition they looked at: a revision names one condition.
THEOREM DecisionsAreInformed == Spec => ActsOnWhatWasSeen
<1>1. IInv /\ [Next]_vars => [Informed]_vars
  BY StepInformed
<1>2. QED
  BY <1>1, Inductive, PTL DEF ActsOnWhatWasSeen, Informed, Spec

-----------------------------------------------------------------------------
(* The history *)

\* A set of numbers that has zero and the successor of each of its members has all
\* numbers: induction, for the recursive function that tells the story of a job.
LEMMA Successors ==
    ASSUME NEW S, 0 \in S, \A n \in Nat : n \in S => n + 1 \in S
    PROVE  Nat \subseteq S
<1> DEFINE Others == {n \in Nat : n \notin S}
<1> SUFFICES ASSUME Others # {} PROVE FALSE
  OBVIOUS
<1>1. IsWellFoundedOn(OpToRel(<, Nat), Nat)
  BY NatLessThanWellFounded
<1>2. Others \subseteq Nat
  OBVIOUS
<1>3. PICK least \in Others : \A n \in Others : ~ (<<n, least>> \in OpToRel(<, Nat))
  <2> HIDE DEF Others
  <2> QED BY <1>1, <1>2, WFMin
<1>4. \A n \in Others : ~ (n < least)
  BY <1>2, <1>3 DEF OpToRel
<1>5. least \in Nat /\ least # 0
  BY DEF Others
<1>6. least - 1 \in Nat /\ least - 1 \notin Others
  BY <1>4, <1>5
<1>7. QED
  BY <1>5, <1>6

\* What the entries up to the one at "length" make of no row.
Tells(row, entries, length) ==
    row = [n \in 0..length |-> IF n = 0 THEN None ELSE Told(row[n - 1], entries[n])]

\* One more entry continues a story.
LEMMA StoryContinues ==
    ASSUME NEW entries, NEW length \in Nat, NEW old, Tells(old, entries, length)
    PROVE  \E new : Tells(new, entries, length + 1)
<1> DEFINE told == Told(old[length], entries[length + 1])
           new  == [n \in 0..(length + 1) |-> IF n = length + 1 THEN told ELSE old[n]]
<1>1. \A n \in 0..length : old[n] = IF n = 0 THEN None ELSE Told(old[n - 1], entries[n])
  BY DEF Tells
<1>2. \A n \in 0..length : new[n] = old[n]
  OBVIOUS
<1>3. new[length + 1] = told
  OBVIOUS
<1>4. ASSUME NEW n \in 0..(length + 1)
      PROVE  new[n] = IF n = 0 THEN None ELSE Told(new[n - 1], entries[n])
  <2>1. CASE n = length + 1
    <3>1. n # 0 /\ n - 1 = length /\ new[n - 1] = old[length]
      BY <1>2, <2>1
    <3> HIDE DEF new
    <3>2. QED
      BY <1>3, <2>1, <3>1
  <2>2. CASE n \in 0..length
    <3>1. n # 0 => n - 1 \in 0..length
      BY <2>2
    <3>2. n # 0 => new[n - 1] = old[n - 1]
      BY <1>2, <3>1
    <3> HIDE DEF new
    <3>3. QED
      BY <1>1, <1>2, <2>2, <3>2
  <2>3. QED
    BY <2>1, <2>2
<1>5. new = [n \in 0..(length + 1) |-> IF n = 0 THEN None ELSE Told(new[n - 1], entries[n])]
  <2>1. new = [n \in 0..(length + 1) |-> new[n]]
    OBVIOUS
  <2> HIDE DEF new
  <2>2. QED
    BY <1>4, <2>1
<1> HIDE DEF new
<1>6. QED
  BY <1>5 DEF Tells

\* Every history tells a story.
LEMMA StoryExists ==
    ASSUME NEW entries, NEW length \in Nat
    PROVE  \E row : Tells(row, entries, length)
<1> DEFINE Told0(n) == \E row : Tells(row, entries, n)
           Good == {n \in Nat : Told0(n)}
<1>1. 0 \in Good
  <2> DEFINE row == [n \in 0..0 |-> None]
  <2>1. row = [n \in 0..0 |-> IF n = 0 THEN None ELSE Told(row[n - 1], entries[n])]
    OBVIOUS
  <2> HIDE DEF row
  <2>2. QED
    BY <2>1 DEF Tells
<1>2. \A n \in Nat : n \in Good => n + 1 \in Good
  BY StoryContinues
<1> HIDE DEF Good
<1>3. Nat \subseteq Good
  BY <1>1, <1>2, Successors
<1>4. QED
  BY <1>3 DEF Good

\* There is one story, and a longer history begins with the same one.
LEMMA StoryUnique ==
    ASSUME NEW entries, NEW longer, NEW length \in Nat, NEW more \in Nat, length <= more,
           \A n \in 1..length : longer[n] = entries[n],
           NEW row, Tells(row, entries, length), NEW next, Tells(next, longer, more)
    PROVE  \A n \in 0..length : next[n] = row[n]
<1> DEFINE Same == {n \in Nat : n <= length => next[n] = row[n]}
<1>1. \A n \in 0..length : row[n] = IF n = 0 THEN None ELSE Told(row[n - 1], entries[n])
  BY DEF Tells
<1>2. \A n \in 0..more : next[n] = IF n = 0 THEN None ELSE Told(next[n - 1], longer[n])
  BY DEF Tells
<1>3. 0 \in Same
  BY <1>1, <1>2
<1>4. ASSUME NEW n \in Nat, n \in Same
      PROVE  n + 1 \in Same
  <2> SUFFICES ASSUME n + 1 <= length PROVE next[n + 1] = row[n + 1]
    OBVIOUS
  <2>1. next[n] = row[n]
    BY <1>4
  <2>2. n + 1 \in 0..length /\ n + 1 \in 0..more /\ n + 1 \in 1..length /\ n + 1 # 0
    OBVIOUS
  <2>3. (n + 1) - 1 = n
    OBVIOUS
  <2>4. row[n + 1] = Told(row[n], entries[n + 1])
    BY <1>1, <2>2, <2>3
  <2>5. next[n + 1] = Told(next[n], longer[n + 1])
    BY <1>2, <2>2, <2>3
  <2>6. QED
    BY <2>1, <2>2, <2>4, <2>5
<1> HIDE DEF Same
<1>5. Nat \subseteq Same
  BY <1>3, <1>4, Successors
<1>6. QED
  BY <1>5 DEF Same

\* The story is what the last row is.
LEMMA StoryIs ==
    ASSUME NEW entries \in Seq(Entry)
    PROVE  \E row : Tells(row, entries, Len(entries)) /\ Story(entries) = row[Len(entries)]
<1> DEFINE row == CHOOSE row : Tells(row, entries, Len(entries))
<1>1. Len(entries) \in Nat
  OBVIOUS
<1>2. Tells(row, entries, Len(entries))
  BY <1>1, StoryExists
<1>3. Story(entries) = row[Len(entries)]
  BY DEF Story, Tells
<1> HIDE DEF row
<1>4. QED
  BY <1>2, <1>3


\* The first entry is told of no row.
LEMMA StoryBegins ==
    ASSUME NEW e \in Entry
    PROVE  Story(<<e>>) = Told(None, e)
<1>1. <<e>> \in Seq(Entry) /\ Len(<<e>>) = 1 /\ <<e>>[1] = e
  OBVIOUS
<1>2. PICK row : Tells(row, <<e>>, 1) /\ Story(<<e>>) = row[1]
  BY <1>1, StoryIs
<1>3. \A n \in 0..1 : row[n] = IF n = 0 THEN None ELSE Told(row[n - 1], <<e>>[n])
  BY <1>2 DEF Tells
<1>4. row[1] = Told(row[0], e) /\ row[0] = None
  BY <1>1, <1>3
<1>5. QED
  BY <1>2, <1>4

\* The next entry is told of what the history has told so far.
LEMMA StoryGoesOn ==
    ASSUME NEW entries \in Seq(Entry), NEW e \in Entry
    PROVE  Story(entries \o <<e>>) = Told(Story(entries), e)
<1> DEFINE longer == entries \o <<e>>
           last   == Len(entries)
<1>1. /\ longer \in Seq(Entry) /\ Len(longer) = last + 1 /\ last \in Nat
      /\ longer[last + 1] = e /\ \A n \in 1..last : longer[n] = entries[n]
  OBVIOUS
<1>2. PICK row : Tells(row, entries, last) /\ Story(entries) = row[last]
  BY StoryIs
<1> HIDE DEF longer, last
<1>3. PICK next : Tells(next, longer, last + 1) /\ Story(longer) = next[last + 1]
  BY <1>1, StoryIs
<1>4. next[last] = row[last]
  BY <1>1, <1>2, <1>3, StoryUnique
<1>5. \A n \in 0..(last + 1) : next[n] = IF n = 0 THEN None ELSE Told(next[n - 1], longer[n])
  BY <1>3 DEF Tells
<1>6. last + 1 \in 0..(last + 1) /\ last + 1 # 0 /\ (last + 1) - 1 = last
  BY <1>1
<1>7. next[last + 1] = Told(next[last], e)
  BY <1>1, <1>5, <1>6
<1>8. QED
  BY <1>2, <1>3, <1>4, <1>7 DEF longer

\* What the history tells of a row.
RowTold(row) ==
    [requester |-> row.requester, approver |-> row.approver, step |-> row.step,
     attempts |-> row.attempts, state |-> row.state]

Explained(j) ==
    IF Requested(j)
    THEN jobs[j].revision = Len(audit[j]) - 1 /\ Story(audit[j]) = RowTold(jobs[j])
    ELSE audit[j] = <<>>

\* Nothing was tried before the approval, which leaves the counter of attempts alone.
Fresh == \A j \in Jobs : Requested(j) /\ jobs[j].state = "pending_approval" => jobs[j].attempts = 0

AuditInv == IInv /\ Fresh /\ \A j \in Jobs : Explained(j)

\* A step that gives a job its next row and tells of it.
LEMMA RowExplained ==
    ASSUME AuditInv, NEW j \in Jobs, Requested(j), NEW row \in Job, Updated(j, row),
           row.revision = jobs[j].revision, row.state # "pending_approval",
           NEW e \in Entry, Audited(j, <<e>>), Told(RowTold(jobs[j]), e) = RowTold(row)
    PROVE  Fresh' /\ \A i \in Jobs : Explained(i)'
<1>1. TypeOK /\ Fresh /\ \A i \in Jobs : Explained(i)
  BY DEF AuditInv, IInv
<1>2. /\ jobs' \in [Jobs -> Job \cup {None}] /\ jobs'[j] \in Job /\ jobs'[j] # None
      /\ jobs'[j].requester = row.requester /\ jobs'[j].approver = row.approver
      /\ jobs'[j].alert = row.alert /\ jobs'[j].state = row.state
      /\ jobs'[j].step = row.step /\ jobs'[j].attempts = row.attempts
      /\ jobs'[j].revision = jobs[j].revision + 1
      /\ \A i \in Jobs : i # j => jobs'[i] = jobs[i]
  BY <1>1, UpdateRow
<1>3. /\ audit'[j] = audit[j] \o <<e>> /\ audit[j] \in Seq(Entry)
      /\ \A i \in Jobs : i # j => audit'[i] = audit[i]
  BY <1>1 DEF Audited, TypeOK
<1>4. Fresh'
  <2>1. ASSUME NEW i \in Jobs, jobs'[i] # None, jobs'[i].state = "pending_approval"
        PROVE  jobs'[i].attempts = 0
    BY <1>1, <1>2, <2>1 DEF Fresh, Requested
  <2>2. QED
    BY <2>1 DEF Fresh, Requested
<1>5. Explained(j)'
  <2>1. jobs[j].revision = Len(audit[j]) - 1 /\ Story(audit[j]) = RowTold(jobs[j])
    BY <1>1 DEF Explained
  <2>2. Len(audit'[j]) = Len(audit[j]) + 1 /\ Len(audit[j]) \in Nat
    BY <1>3
  <2>3. jobs'[j].revision = Len(audit'[j]) - 1
    BY <1>2, <2>1, <2>2
  <2>4. Story(audit'[j]) = RowTold(row)
    BY <1>3, <2>1, StoryGoesOn
  <2>5. RowTold(row) = RowTold(jobs'[j])
    BY <1>2 DEF RowTold
  <2>6. QED
    BY <1>2, <2>3, <2>4, <2>5 DEF Explained, Requested, RowTold
<1>6. ASSUME NEW i \in Jobs, i # j
      PROVE  Explained(i)'
  BY <1>1, <1>2, <1>3, <1>6 DEF Explained, Requested, RowTold
<1>7. QED
  BY <1>4, <1>5, <1>6

\* A request is the first entry.
LEMMA CreateExplained ==
    ASSUME AuditInv, NEW op \in Operators, NEW j \in Jobs, NEW a \in Alerts, create(op, j, a)
    PROVE  Fresh' /\ \A i \in Jobs : Explained(i)'
<1> DEFINE row == [requester |-> op, approver |-> None, alert |-> a, state |-> "pending_approval",
                   step |-> 0, attempts |-> 0, revision |-> 0, case |-> None]
           e == [by |-> op, action |-> "request", value |-> 0]
<1>1. TypeOK /\ Fresh /\ \A i \in Jobs : Explained(i)
  BY DEF AuditInv, IInv
<1>2. jobs[j] = None /\ jobs' = [jobs EXCEPT ![j] = row] /\ Audited(j, <<e>>)
  BY DEF create
<1>3. row \in Job /\ e \in Entry
  BY WorkflowAssumption, PlaybookHas DEF Job, States, Entry
<1>4. row.attempts = 0 /\ row.revision = 0 /\ Told(None, e) = RowTold(row)
  BY DEF Told, RowTold
<1> HIDE DEF row, e
<1>5. jobs'[j] = row /\ row # None /\ \A i \in Jobs : i # j => jobs'[i] = jobs[i]
  BY <1>1, <1>2, <1>3, WorkflowAssumption DEF TypeOK
<1>6. /\ audit[j] = <<>>
      /\ audit'[j] = audit[j] \o <<e>> /\ \A i \in Jobs : i # j => audit'[i] = audit[i]
  BY <1>1, <1>2 DEF Audited, TypeOK, Explained, Requested
<1>7. audit'[j] = <<e>>
  BY <1>6
<1>8. Story(audit'[j]) = RowTold(jobs'[j]) /\ jobs'[j].revision = Len(audit'[j]) - 1
  BY <1>3, <1>4, <1>5, <1>7, StoryBegins
<1>9. Explained(j)'
  BY <1>5, <1>8 DEF Explained, Requested, RowTold
<1>10. ASSUME NEW i \in Jobs, i # j
       PROVE  Explained(i)'
  BY <1>1, <1>5, <1>6, <1>10 DEF Explained, Requested, RowTold
<1>11. Fresh'
  <2>1. ASSUME NEW i \in Jobs, jobs'[i] # None, jobs'[i].state = "pending_approval"
        PROVE  jobs'[i].attempts = 0
    BY <1>1, <1>4, <1>5, <2>1 DEF Fresh, Requested
  <2>2. QED
    BY <2>1 DEF Fresh, Requested
<1>12. QED
  BY <1>9, <1>10, <1>11

\* A decision is told with who took it.
LEMMA TransitionExplained ==
    ASSUME AuditInv, NEW op \in Operators, NEW j \in Jobs, NEW action \in Actions,
           transition(op, j, action)
    PROVE  Fresh' /\ \A i \in Jobs : Explained(i)'
<1> DEFINE job == jobs[j]
           row == [job EXCEPT !.state = IF action = "cancel" THEN "cancelled" ELSE "queued",
                              !.approver = IF action = "approve" THEN op ELSE @,
                              !.attempts = 0]
           e == [by |-> op, action |-> action, value |-> job.revision + 1]
<1>1. TypeOK /\ Fresh /\ Requested(j) /\ job \in Job
  BY DEF AuditInv, IInv, TypeOK, Seen, transition, Current, Requested
<1>2. Allowed(op, job, action) /\ Updated(j, row) /\ Audited(j, <<e>>)
  BY DEF transition
<1>3. e \in Entry /\ e.by = op /\ e.action = action
  BY <1>1 DEF Entry, Job, Actions
<1>4. action = "approve" => job.attempts = 0
  BY <1>1, <1>2 DEF Allowed, Fresh
<1> HIDE DEF job, e
<1>5. /\ row \in Job /\ row.revision = job.revision
      /\ row.step = job.step /\ row.attempts = 0 /\ row.requester = job.requester
      /\ row.state = IF action = "cancel" THEN "cancelled" ELSE "queued"
      /\ row.approver = IF action = "approve" THEN op ELSE job.approver
  <2>1. {"queued", "cancelled"} \subseteq States /\ 0 \in 0..MaxAttempts
    BY WorkflowAssumption DEF States
  <2>2. CASE action = "cancel"
    BY <1>1, <2>1, <2>2 DEF Job
  <2>3. CASE action = "approve"
    BY <1>1, <2>1, <2>3 DEF Job
  <2>4. CASE action = "retry"
    BY <1>1, <2>1, <2>4 DEF Job
  <2>5. QED
    BY <2>2, <2>3, <2>4 DEF Actions
<1> HIDE DEF row
<1>6. Told(RowTold(job), e) = RowTold(row)
  <2>1. CASE action = "cancel"
    BY <1>3, <1>5, <2>1 DEF Told, RowTold
  <2>2. CASE action = "approve"
    BY <1>3, <1>4, <1>5, <2>2 DEF Told, RowTold
  <2>3. CASE action = "retry"
    BY <1>3, <1>5, <2>3 DEF Told, RowTold
  <2>4. QED
    BY <2>1, <2>2, <2>3 DEF Actions
<1>7. row.state # "pending_approval"
  BY <1>5
<1>8. QED
  BY <1>1, <1>2, <1>3, <1>5, <1>6, <1>7, RowExplained DEF job

\* A failure is told with its number; nothing else of the step is.
LEMMA FailExplained ==
    ASSUME AuditInv, NEW j \in Jobs, Queued(j), Fail(j)
    PROVE  Fresh' /\ \A i \in Jobs : Explained(i)'
<1> DEFINE job  == jobs[j]
           next == job.attempts + 1
           row  == [job EXCEPT !.attempts = next, !.state = FailedState(next)]
           e    == [by |-> "workflow", action |-> "step_failed", value |-> next]
<1>1. TypeOK /\ Ordered /\ Requested(j) /\ job \in Job
  BY DEF AuditInv, IInv, TypeOK, Queued, Requested
<1>2. job.state = "queued" /\ job.attempts < MaxAttempts
  BY <1>1 DEF Queued, Ordered
<1>3. Updated(j, row) /\ Audited(j, <<e>>)
  BY DEF Fail, FailEntries, FailEntry
<1>4. job.attempts \in Nat /\ MaxAttempts \in Nat /\ next \in 0..MaxAttempts /\ next \in Nat
  BY <1>1, <1>2, WorkflowAssumption DEF Job
<1>5. /\ FailedState(next) \in {"queued", "failed"}
      /\ FailedState(next) = IF next = MaxAttempts THEN "failed" ELSE "queued"
  BY <1>4 DEF FailedState
<1>6. e \in Entry /\ e.action = "step_failed" /\ e.value = next
  BY <1>4 DEF Entry
<1> HIDE DEF job, next, e
<1>7. /\ row \in Job /\ row.revision = job.revision /\ row.step = job.step
      /\ row.attempts = next /\ row.requester = job.requester
      /\ row.state = FailedState(next) /\ row.approver = job.approver
  BY <1>1, <1>4, <1>5 DEF Job, States
<1> HIDE DEF row
<1>8. Told(RowTold(job), e) = RowTold(row)
  BY <1>2, <1>5, <1>6, <1>7 DEF Told, RowTold
<1>9. row.state # "pending_approval"
  BY <1>5, <1>7
<1>10. QED
  BY <1>1, <1>3, <1>6, <1>7, <1>8, <1>9, RowExplained DEF job

\* A step is told with its place in the playbook.
LEMMA SucceedExplained ==
    ASSUME AuditInv, NEW j \in Jobs, Queued(j), Succeed(j)
    PROVE  Fresh' /\ \A i \in Jobs : Explained(i)'
<1> DEFINE job  == jobs[j]
           next == job.step + 1
           row  == [job EXCEPT !.step = next, !.attempts = 0, !.case = job.alert,
                               !.state = IF next = Len(Playbook) THEN "completed" ELSE "queued"]
           e    == [by |-> "workflow", action |-> "step", value |-> next]
<1>1. TypeOK /\ Ordered /\ Requested(j) /\ job \in Job
  BY DEF AuditInv, IInv, TypeOK, Queued, Requested
<1>2. job.state = "queued" /\ job.step < Len(Playbook)
  BY <1>1 DEF Queued, Ordered
<1>3. Updated(j, row) /\ Audited(j, <<e>>)
  BY DEF Succeed, StepEntry
<1>4. job.step \in Nat /\ next \in 0..Len(Playbook) /\ next \in Nat /\ 0 \in 0..MaxAttempts
  BY <1>1, <1>2, PlaybookHas, WorkflowAssumption DEF Job
<1>5. e \in Entry /\ e.action = "step" /\ e.value = next
  BY <1>4 DEF Entry
<1> HIDE DEF job, next, e
<1>6. /\ row \in Job /\ row.revision = job.revision /\ row.step = next /\ row.attempts = 0
      /\ row.requester = job.requester /\ row.approver = job.approver
      /\ row.state = (IF next = Len(Playbook) THEN "completed" ELSE "queued")
  BY <1>1, <1>4 DEF Job, States
<1> HIDE DEF row
<1>7. Told(RowTold(job), e) = RowTold(row)
  BY <1>5, <1>6 DEF Told, RowTold
<1>8. row.state # "pending_approval"
  BY <1>6
<1>9. QED
  BY <1>1, <1>3, <1>5, <1>6, <1>7, <1>8, RowExplained DEF job

\* One step per action that touches rows or history; the others leave both alone.
LEMMA StepAudit == AuditInv /\ [Next]_vars => Fresh' /\ \A j \in Jobs : Explained(j)'
<1> SUFFICES ASSUME AuditInv, [Next]_vars PROVE Fresh' /\ \A j \in Jobs : Explained(j)'
  OBVIOUS
<1>1. ASSUME NEW op \in Operators, NEW j \in Jobs, NEW a \in Alerts, create(op, j, a)
      PROVE  Fresh' /\ \A i \in Jobs : Explained(i)'
  BY <1>1, CreateExplained
<1>2. ASSUME NEW op \in Operators, NEW j \in Jobs, NEW action \in Actions,
             transition(op, j, action)
      PROVE  Fresh' /\ \A i \in Jobs : Explained(i)'
  BY <1>2, TransitionExplained
<1>3. ASSUME NEW w \in Workers, NEW j \in Jobs, tick(w, j)
      PROVE  Fresh' /\ \A i \in Jobs : Explained(i)'
  BY <1>3, SucceedExplained, FailExplained DEF tick
<1>4. CASE UNCHANGED <<jobs, audit>>
  BY <1>4 DEF AuditInv, Fresh, Explained, Requested, RowTold
<1>5. QED
  BY <1>1, <1>2, <1>3, <1>4
     DEF Next, vars, listing, create_case, update_case, pass, pass_fails, restart

\* The history of a job explains its row in every reachable state: nothing that was
\* committed is missing, and nothing that a savepoint took back is told.
THEOREM HistoryExplains == Spec => []AuditExplains
<1>1. Init => AuditInv
  <2>1. Init => Fresh /\ \A j \in Jobs : Explained(j)
    BY DEF Init, Fresh, Explained, Requested
  <2>2. QED
    BY <2>1, InitInv DEF AuditInv
<1>2. AuditInv /\ [Next]_vars => AuditInv'
  <2>1. AuditInv => IInv
    BY DEF AuditInv
  <2>2. QED
    BY <2>1, StepInv, StepAudit DEF AuditInv
<1>3. AuditInv => AuditExplains
  BY DEF AuditInv, Explained, RowTold, AuditExplains
<1>4. QED
  BY <1>1, <1>2, <1>3, PTL DEF Spec

-----------------------------------------------------------------------------
(* The promise about approved actions *)

\* The request that a row of a job stands for.
RowAsks(row) == [requester |-> row.requester, approver |-> row.approver,
                 state |-> Stage(row.state), acts |-> row.step, budget |-> AllSteps]

\* An update of a job's row changes its request and no other.
LEMMA UpdateAsks ==
    ASSUME TypeOK, NEW j \in Jobs, Requested(j), NEW row \in Job, Updated(j, row)
    PROVE  /\ Requests[j] = RowAsks(jobs[j])
           /\ Requests' = [Requests EXCEPT ![j] = RowAsks(row)]
<1>1. /\ jobs'[j] # None /\ \A i \in Jobs : i # j => jobs'[i] = jobs[i]
      /\ jobs'[j].requester = row.requester /\ jobs'[j].approver = row.approver
      /\ jobs'[j].state = row.state /\ jobs'[j].step = row.step
  BY UpdateRow
<1>2. RequestOf(j)' = RowAsks(row)
  BY <1>1 DEF RequestOf, RowAsks
<1>3. \A i \in Jobs : i # j => RequestOf(i)' = RequestOf(i)
  BY <1>1 DEF RequestOf
<1>4. Requests[j] = RowAsks(jobs[j])
  BY DEF Requests, RequestOf, RowAsks, Requested
<1>5. /\ Requests' = [i \in Jobs |-> RequestOf(i)']
      /\ Requests = [i \in Jobs |-> RequestOf(i)]
  BY DEF Requests
<1>6. QED
  BY <1>2, <1>3, <1>4, <1>5

\* A job's row is asked for, as a request nobody has approved.
LEMMA CreateProposes ==
    ASSUME IInv, NEW op \in Operators, NEW j \in Jobs, NEW a \in Alerts, create(op, j, a)
    PROVE  Promise!Next
<1> DEFINE row == [requester |-> op, approver |-> None, alert |-> a,
                   state |-> "pending_approval", step |-> 0, attempts |-> 0, revision |-> 0,
                   case |-> None]
           new == [requester |-> op, approver |-> None, state |-> "proposed", acts |-> 0,
                   budget |-> AllSteps]
<1>1. TypeOK
  BY DEF IInv
<1>2. row \in Job
  BY PlaybookHas, WorkflowAssumption DEF Job, States
<1>3. jobs[j] = None /\ jobs' = [jobs EXCEPT ![j] = row] /\ row # None
  BY <1>2, WorkflowAssumption DEF create
<1>4. /\ row.requester = op /\ row.approver = None /\ row.state = "pending_approval"
      /\ row.step = 0
  OBVIOUS
<1> HIDE DEF row
<1>5. jobs'[j] = row /\ \A i \in Jobs : i # j => jobs'[i] = jobs[i]
  BY <1>1, <1>3 DEF TypeOK
<1>6. RequestOf(j)' = new
  BY <1>3, <1>4, <1>5 DEF RequestOf, Stage
<1>7. \A i \in Jobs : i # j => RequestOf(i)' = RequestOf(i)
  BY <1>5 DEF RequestOf
<1>8. /\ Requests' = [i \in Jobs |-> RequestOf(i)']
      /\ Requests = [i \in Jobs |-> RequestOf(i)]
  BY DEF Requests
<1> HIDE DEF new
<1>9. Requests' = [Requests EXCEPT ![j] = new]
  BY <1>6, <1>7, <1>8
<1>10. Requests[j].state = "absent"
  BY <1>3 DEF Requests, RequestOf
<1>11. Promise!Propose(j, op, AllSteps)
  BY <1>9, <1>10 DEF Promise!Propose, Promise!Becomes, new
<1>12. QED
  BY <1>11 DEF Promise!Next

\* An approval is given by another operator, a retry goes on, a cancellation ends.
LEMMA TransitionPromised ==
    ASSUME IInv, NEW op \in Operators, NEW j \in Jobs, Requested(j), NEW action \in Actions,
           transition(op, j, action)
    PROVE  Promise!Next
<1> DEFINE job == jobs[j]
           row == [job EXCEPT !.state = IF action = "cancel" THEN "cancelled" ELSE "queued",
                              !.approver = IF action = "approve" THEN op ELSE @,
                              !.attempts = 0]
           ask == Requests[j]
<1>1. TypeOK /\ job \in Job
  BY DEF IInv, TypeOK, Requested
<1>2. Allowed(op, job, action) /\ Updated(j, row)
  BY DEF transition
<1>3. /\ row \in Job /\ row.step = job.step /\ row.requester = job.requester
      /\ row.state = IF action = "cancel" THEN "cancelled" ELSE "queued"
      /\ row.approver = IF action = "approve" THEN op ELSE job.approver
  <2>1. op \in Operators /\ job \in Job
    BY <1>1
  <2>2. {"queued", "cancelled"} \subseteq States /\ 0 \in 0..MaxAttempts
    BY WorkflowAssumption DEF States
  <2> HIDE DEF job
  <2>3. CASE action = "cancel"
    BY <2>1, <2>2, <2>3 DEF Job
  <2>4. CASE action = "approve"
    BY <2>1, <2>2, <2>4 DEF Job
  <2>5. CASE action = "retry"
    BY <2>1, <2>2, <2>5 DEF Job
  <2>6. QED
    BY <2>3, <2>4, <2>5 DEF Actions
<1> HIDE DEF row
<1>4. ask = RowAsks(job) /\ Requests' = [Requests EXCEPT ![j] = RowAsks(row)]
  BY <1>1, <1>2, <1>3, UpdateAsks
<1>5. CASE action = "approve"
  <2>1. job.state = "pending_approval" /\ op # job.requester /\ row.state = "queued"
    BY <1>2, <1>3, <1>5 DEF Allowed
  <2>2. RowAsks(row) = [ask EXCEPT !.state = "approved", !.approver = op]
    <3>1. /\ Stage(row.state) = "approved" /\ row.approver = op
          /\ row.requester = job.requester /\ row.step = job.step
      BY <1>3, <1>5, <2>1 DEF Stage
    <3> DEFINE mid == [ask EXCEPT !.state = "approved"]
    <3> HIDE DEF ask, job
    <3>2. mid = [requester |-> job.requester, approver |-> job.approver,
                 state |-> "approved", acts |-> job.step, budget |-> AllSteps]
      BY <1>4 DEF RowAsks
    <3> HIDE DEF mid
    <3>3. RowAsks(row) = [mid EXCEPT !.approver = op]
      BY <3>1, <3>2 DEF RowAsks
    <3>4. QED
      BY <3>3 DEF mid
  <2>3. ask.state = "proposed" /\ op # ask.requester
    BY <1>4, <2>1 DEF RowAsks, Stage
  <2>4. Promise!Approve(j, op)
    BY <1>4, <2>2, <2>3 DEF Promise!Approve, Promise!Becomes
  <2>5. QED
    BY <2>4 DEF Promise!Next
<1>6. CASE action = "cancel"
  <2>1. job.state \in {"pending_approval", "queued", "failed"} /\ row.state = "cancelled"
    BY <1>2, <1>3, <1>6 DEF Allowed
  <2>2. RowAsks(row) = [ask EXCEPT !.state = "ended"]
    BY <1>3, <1>4, <1>6, <2>1 DEF RowAsks, Stage
  <2>3. ask.state \in {"proposed", "approved", "stopped"}
    BY <1>4, <2>1 DEF RowAsks, Stage
  <2>4. Promise!End(j)
    BY <1>4, <2>2, <2>3 DEF Promise!End, Promise!Moves, Promise!Becomes
  <2>5. QED
    BY <2>4 DEF Promise!Next
<1>7. CASE action = "retry"
  <2>1. job.state = "failed" /\ row.state = "queued"
    BY <1>2, <1>3, <1>7 DEF Allowed
  <2>2. RowAsks(row) = [ask EXCEPT !.state = "approved"]
    BY <1>3, <1>4, <1>7, <2>1 DEF RowAsks, Stage
  <2>3. ask.state = "stopped"
    BY <1>4, <2>1 DEF RowAsks, Stage
  <2>4. Promise!Resume(j)
    BY <1>4, <2>2, <2>3 DEF Promise!Resume, Promise!Moves, Promise!Becomes
  <2>5. QED
    BY <2>4 DEF Promise!Next
<1>8. QED
  BY <1>5, <1>6, <1>7 DEF Actions

\* A step of the playbook is an act, the last one completes the request.
LEMMA SucceedActs ==
    ASSUME IInv, NEW j \in Jobs, Queued(j), Succeed(j)
    PROVE  Promise!Next
<1> DEFINE job  == jobs[j]
           next == job.step + 1
           row  == [job EXCEPT !.step = next, !.attempts = 0, !.case = job.alert,
                               !.state = IF next = Len(Playbook) THEN "completed" ELSE "queued"]
           ask  == Requests[j]
<1>1. TypeOK /\ job \in Job /\ Requested(j)
  BY DEF IInv, TypeOK, Queued, Requested
<1>2. job.state = "queued" /\ job.step < Len(Playbook) /\ job.approver # None
  BY <1>1 DEF IInv, Queued, Ordered
<1>3. Updated(j, row)
  BY DEF Succeed
<1>4. job.step \in Nat /\ next \in 0..Len(Playbook) /\ 0 \in 0..MaxAttempts
  BY <1>1, <1>2, PlaybookHas, WorkflowAssumption DEF Job
<1>5. next = job.step + 1
  OBVIOUS
<1> HIDE DEF next
<1>6. /\ row \in Job /\ row.step = next /\ row.requester = job.requester
      /\ row.state = (IF next = Len(Playbook) THEN "completed" ELSE "queued")
      /\ row.approver = job.approver
  BY <1>1, <1>4 DEF Job, States
<1> HIDE DEF row
<1>7. ask = RowAsks(job) /\ Requests' = [Requests EXCEPT ![j] = RowAsks(row)]
  BY <1>1, <1>3, <1>6, UpdateAsks
<1>8. /\ ask.state = "approved" /\ ask.approver # None /\ ask.acts = job.step
      /\ ask.budget.least = Len(Playbook) /\ ask.budget.most = Len(Playbook)
  BY <1>2, <1>7 DEF RowAsks, Stage, AllSteps
<1>9. Promise!MayAct(ask)
  BY <1>2, <1>8 DEF Promise!MayAct
<1>10. CASE next = Len(Playbook)
  <2>1. RowAsks(row) = [ask EXCEPT !.acts = next, !.state = "done"]
    <3>1. /\ Stage(row.state) = "done" /\ row.step = next
          /\ row.requester = job.requester /\ row.approver = job.approver
      BY <1>6, <1>10 DEF Stage
    <3> DEFINE mid == [ask EXCEPT !.acts = next]
    <3> HIDE DEF ask, job
    <3>2. mid = [requester |-> job.requester, approver |-> job.approver,
                 state |-> Stage(job.state), acts |-> next, budget |-> AllSteps]
      BY <1>7 DEF RowAsks
    <3> HIDE DEF mid
    <3>3. RowAsks(row) = [mid EXCEPT !.state = "done"]
      BY <3>1, <3>2 DEF RowAsks
    <3>4. QED
      BY <3>3 DEF mid
  <2>2. ask.acts + 1 = next /\ ask.acts + 1 >= ask.budget.least
    BY <1>4, <1>5, <1>8, <1>10, PlaybookHas
  <2>3. Promise!LastAct(j)
    BY <1>7, <1>8, <1>9, <2>1, <2>2 DEF Promise!LastAct, Promise!Becomes
  <2>4. QED
    BY <2>3 DEF Promise!Next
<1>11. CASE next # Len(Playbook)
  <2>1. RowAsks(row) = [ask EXCEPT !.acts = next]
    BY <1>2, <1>6, <1>7, <1>11 DEF RowAsks, Stage
  <2>2. ask.acts + 1 = next
    BY <1>5, <1>8
  <2>3. Promise!Act(j)
    BY <1>7, <1>9, <2>1, <2>2 DEF Promise!Act, Promise!Becomes
  <2>4. QED
    BY <2>3 DEF Promise!Next
<1>12. QED
  BY <1>10, <1>11

\* A failure leaves the request alone, or it stops at the last that is allowed.
LEMMA FailStops ==
    ASSUME IInv, NEW j \in Jobs, Queued(j), Fail(j)
    PROVE  Promise!Next \/ UNCHANGED Requests
<1> DEFINE job  == jobs[j]
           next == job.attempts + 1
           row  == [job EXCEPT !.attempts = next, !.state = FailedState(next)]
           ask  == Requests[j]
<1>1. TypeOK /\ job \in Job /\ Requested(j)
  BY DEF IInv, TypeOK, Queued, Requested
<1>2. job.state = "queued" /\ job.attempts < MaxAttempts
  BY <1>1 DEF IInv, Queued, Ordered
<1>3. Updated(j, row)
  BY DEF Fail
<1>4. job.attempts \in Nat /\ MaxAttempts \in Nat /\ next \in 0..MaxAttempts
  BY <1>1, <1>2, WorkflowAssumption DEF Job
<1>5. FailedState(next) \in {"queued", "failed"}
  BY DEF FailedState
<1> HIDE DEF next
<1>6. /\ row \in Job /\ row.step = job.step /\ row.requester = job.requester
      /\ row.state \in {"queued", "failed"} /\ row.approver = job.approver
  BY <1>1, <1>4, <1>5 DEF Job, States
<1> HIDE DEF row
<1>7. ask = RowAsks(job) /\ Requests' = [Requests EXCEPT ![j] = RowAsks(row)]
  BY <1>1, <1>3, <1>6, UpdateAsks
<1>8. CASE row.state = "queued"
  <2>1. RowAsks(row) = ask
    BY <1>2, <1>6, <1>7, <1>8 DEF RowAsks
  <2>2. QED
    BY <1>7, <2>1 DEF Requests
<1>9. CASE row.state = "failed"
  <2>1. RowAsks(row) = [ask EXCEPT !.state = "stopped"]
    BY <1>6, <1>7, <1>9 DEF RowAsks, Stage
  <2>2. ask.state = "approved"
    BY <1>2, <1>7 DEF RowAsks, Stage
  <2>3. Promise!Stop(j)
    BY <1>7, <2>1, <2>2 DEF Promise!Stop, Promise!Moves, Promise!Becomes
  <2>4. QED
    BY <2>3 DEF Promise!Next
<1>10. QED
  BY <1>6, <1>8, <1>9

\* Workflows keep the promise about approved actions, for any number of jobs, workers
\* and operators: each transaction is a step of the abstract requests or none.
THEOREM ApprovalImplemented == Spec => ImplementsApproval
<1>1. Init => Promise!Init
  BY DEF Init, Promise!Init, Promise!Absent, Requests, RequestOf
<1>2. IInv /\ [Next]_vars => [Promise!Next]_Requests
  <2> SUFFICES ASSUME IInv, [Next]_vars
               PROVE  Promise!Next \/ UNCHANGED Requests
    OBVIOUS
  <2>1. CASE UNCHANGED jobs
    BY <2>1 DEF Requests, RequestOf
  <2>2. ASSUME NEW op \in Operators, NEW j \in Jobs, NEW action \in Actions,
               transition(op, j, action)
        PROVE  Promise!Next
    <3>1. Requested(j)
      BY <2>2 DEF transition, Current, Seen, IInv
    <3>2. QED
      BY <2>2, <3>1, TransitionPromised
  <2>3. ASSUME NEW w \in Workers, NEW j \in Jobs, tick(w, j)
        PROVE  Promise!Next \/ UNCHANGED Requests
    BY <2>3, SucceedActs, FailStops DEF tick
  <2>4. QED
    BY <2>1, <2>2, <2>3, CreateProposes
       DEF Next, vars, listing, create_case, update_case, pass, pass_fails, restart
<1>3. QED
  BY <1>1, <1>2, Inductive, PTL DEF Spec, ImplementsApproval, Promise!Spec
=============================================================================
