----------------------- MODULE ExternalResponse_proofs -----------------------
(***************************************************************************)
(* Theorems about external responses for any number of jobs, gateways and  *)
(* configurations and any budgets.  One POST at most leaves for a Defender *)
(* job because the worker that submits is the one whose insert created the *)
(* intent: while it submits nothing was sent, and nobody else submits.     *)
(* On top of that invariant: what is sent was approved, what ended stays   *)
(* as it ended, what is recorded is what the provider did, and an endpoint *)
(* sees a webhook job as often as its budget allows: each request uses up  *)
(* one of RetryLimit attempts, and none of them belongs to two workers.    *)
(***************************************************************************)
EXTENDS ExternalResponse, TLAPS, FiniteSetTheorems

\* Rows and workers refer to jobs that exist and to actions the provider has.
Known ==
    /\ \A j \in Jobs : jobs[j] = None => ops[j] = None /\ posts[j] = 0 /\ remote[j] = <<>>
    /\ \A j \in Jobs : ops[j] # None =>
          /\ ops[j].operation # None => ops[j].operation \in DOMAIN remote[j]
          /\ ops[j].state \in {"pending", "completed", "failed"} => ops[j].operation # None
    /\ \A g \in Gateways :
          /\ work[g].pc # "idle" => jobs[work[g].job] # None
          /\ work[g].pc = "exchange" /\ work[g].operation # None =>
                work[g].operation \in DOMAIN remote[work[g].job]
          /\ work[g].pc = "save" =>
                /\ work[g].result \in {"uncertain", "pending", "completed", "failed"}
                /\ work[g].operation = None => work[g].result = "uncertain"
                /\ work[g].operation # None => work[g].operation \in DOMAIN remote[work[g].job]
          /\ work[g].pc = "finish" => work[g].result \in JobStates
          /\ review[g] # None => /\ jobs[review[g].job] # None
                                 /\ review[g].operation \in DOMAIN remote[review[g].job]

\* The worker submits the action of the job.
Submits(g, j) == work[g].pc = "exchange" /\ work[g].operation = None /\ work[g].job = j

Exclusive ==
    \A j \in Jobs : IsDefender(j) =>
        /\ posts[j] <= 1
        /\ ops[j] = None => posts[j] = 0
        /\ \A g \in Gateways : Submits(g, j) =>
              /\ ops[j] # None /\ posts[j] = 0
              /\ \A h \in Gateways : Submits(h, j) => h = g

IInv == TypeOK /\ Known /\ Exclusive

-----------------------------------------------------------------------------
(* Type correctness *)

\* An updated row is a row.
LEMMA UpdateType ==
    ASSUME jobs \in [Jobs -> Job \cup {None}], NEW j \in Jobs, NEW row \in Job, Updated(j, row)
    PROVE  jobs' \in [Jobs -> Job \cup {None}]
<1>1. [row EXCEPT !.revision = @ + 1] \in Job
  BY DEF Job
<1>2. QED
  BY <1>1 DEF Updated

\* Each vendor state stands for an outcome of the provider, and each is a
\* state of the job.
LEMMA VendorStateType ==
    ASSUME NEW s \in Statuses
    PROVE  VendorState(s) \in {"completed", "pending", "failed"}
BY DEF Statuses, VendorState

LEMMA JobStateType ==
    ASSUME NEW v \in {"uncertain", "pending", "completed", "failed"}
    PROVE  JobState(v) \in JobStates
BY DEF JobState, JobStates

\* The worker moves on with the job it has claimed.
Moves(g, pc, operation, result) ==
    /\ work' \in [Gateways -> Claimed]
    /\ \A h \in Gateways : work'[h].pc # "idle" => work'[h].job \in Jobs
    /\ work'[g].pc = pc /\ work'[g].operation = operation /\ work'[g].result = result
    /\ work'[g].job = work[g].job
    /\ \A h \in Gateways : h # g => work'[h] = work[h]

LEMMA MoveType ==
    ASSUME TypeOK, NEW g \in Gateways, work[g].pc # "idle",
           NEW pc \in {"exchange", "save", "finish"},
           NEW operation \in Nat \cup {None},
           NEW result \in JobStates \cup VendorStates \cup {None},
           work' = [work EXCEPT ![g].pc = pc, ![g].operation = operation, ![g].result = result]
    PROVE  Moves(g, pc, operation, result)
<1>1. work \in [Gateways -> Claimed] /\ work[g].job \in Jobs
  BY DEF TypeOK
<1>2. /\ work' \in [Gateways -> Claimed]
      /\ work'[g].pc = pc /\ work'[g].operation = operation /\ work'[g].result = result
      /\ work'[g].job = work[g].job
      /\ \A h \in Gateways : h # g => work'[h] = work[h]
  BY <1>1, ZenonT(60) DEF Claimed
<1>3. QED
  BY <1>1, <1>2 DEF Moves, TypeOK

LEMMA OutcomeMoves ==
    ASSUME TypeOK, NEW g \in Gateways, work[g].pc # "idle", NEW state \in JobStates,
           Outcome(g, state)
    PROVE  Moves(g, "finish", None, state)
BY MoveType DEF Outcome

LEMMA RecordMoves ==
    ASSUME TypeOK, NEW g \in Gateways, work[g].pc # "idle", NEW operation \in Nat \cup {None},
           NEW state \in VendorStates, Record(g, operation, state)
    PROVE  Moves(g, "save", operation, state)
BY MoveType DEF Record

LEMMA ExchangeMoves ==
    ASSUME TypeOK, NEW g \in Gateways, work[g].pc # "idle", NEW operation \in Nat \cup {None},
           Exchange(g, operation)
    PROVE  Moves(g, "exchange", operation, work[g].result)
<1>1. work \in [Gateways -> Claimed] /\ work[g].job \in Jobs
  BY DEF TypeOK
<1>2. /\ work' \in [Gateways -> Claimed]
      /\ work'[g].pc = "exchange" /\ work'[g].operation = operation
      /\ work'[g].result = work[g].result /\ work'[g].job = work[g].job
      /\ \A h \in Gateways : h # g => work'[h] = work[h]
  BY <1>1 DEF Claimed, Exchange
<1>3. QED
  BY <1>1, <1>2 DEF Moves, TypeOK

\* Rows neither appear nor vanish, and keep the configuration of their request.
JobsKept ==
    \A k \in Jobs : /\ jobs'[k] = None <=> jobs[k] = None
                    /\ jobs[k] # None => jobs'[k].config = jobs[k].config

\* An update of a row that keeps the configuration.
LEMMA UpdateKeeps ==
    ASSUME jobs \in [Jobs -> Job \cup {None}], NEW j \in Jobs, jobs[j] # None, NEW row \in Job,
           row.config = jobs[j].config, Updated(j, row)
    PROVE  JobsKept /\ jobs' \in [Jobs -> Job \cup {None}]
<1>1. /\ [row EXCEPT !.revision = @ + 1] \in Job
      /\ [row EXCEPT !.revision = @ + 1].config = row.config
  BY DEF Job
<1>2. jobs' = [jobs EXCEPT ![j] = [row EXCEPT !.revision = @ + 1]]
  BY DEF Updated
<1> DEFINE new == [row EXCEPT !.revision = @ + 1]
<1> HIDE DEF new
<1>3. new \in Job /\ new.config = row.config /\ jobs' = [jobs EXCEPT ![j] = new]
  BY <1>1, <1>2 DEF new
<1>4. QED
  BY <1>3, ExternalResponseAssumption DEF JobsKept

\* A step that leaves the adapters' state alone: workers only take a claim,
\* record an outcome or stop, reconcilers only take a genuine answer or stop.
Quiet ==
    /\ UNCHANGED <<ops, remote, posts>>
    /\ JobsKept
    /\ \A h \in Gateways :
          \/ work'[h] = work[h]
          \/ /\ work'[h].pc \in {"idle", "claimed", "finish"}
             /\ work'[h].pc # "idle" => jobs[work'[h].job] # None
             /\ work'[h].pc = "finish" => work'[h].result \in JobStates
    /\ \A h \in Gateways :
          \/ review'[h] = review[h]
          \/ review'[h] = None
          \/ /\ jobs[review'[h].job] # None
             /\ review'[h].operation \in DOMAIN remote[review'[h].job]

LEMMA QuietKeeps ==
    ASSUME IInv, TypeOK', Quiet
    PROVE  Known' /\ Exclusive'
<1>1. TypeOK /\ Known /\ Exclusive
  BY DEF IInv
<1>2. ASSUME NEW h \in Gateways, work'[h].pc # "idle"
      PROVE  work'[h].job \in Jobs
  BY <1>2 DEF TypeOK
<1>3. ASSUME NEW h \in Gateways, review'[h] # None
      PROVE  review'[h].job \in Jobs
  BY <1>3 DEF TypeOK, Answer
<1>4. Known'
  BY <1>1, <1>2, <1>3 DEF Known, Quiet, JobsKept, TypeOK
<1>5. ASSUME NEW g \in Gateways, NEW j \in Jobs, Submits(g, j)'
      PROVE  Submits(g, j)
  BY <1>5 DEF Submits, Quiet
<1>6. \A j \in Jobs : IsDefender(j)' => IsDefender(j)
  BY DEF IsDefender, Quiet, JobsKept
<1>7. Exclusive'
  BY <1>1, <1>5, <1>6 DEF Exclusive, Quiet
<1>8. QED
  BY <1>4, <1>7

-----------------------------------------------------------------------------
(* Operators and processes *)

LEMMA CreateKeeps ==
    ASSUME IInv, NEW g \in Gateways, NEW j \in Jobs, NEW actor \in Operators,
           NEW name \in Connectors, create(g, j, actor, name)
    PROVE  IInv'
<1>1. TypeOK /\ Known /\ Exclusive
  BY DEF IInv
<1>2. config[<<g, name>>] \in Configs
  BY <1>1 DEF create, TypeOK
<1> DEFINE row == [state |-> "awaiting_approval", requester |-> actor, approver |-> None,
                   connector |-> name, config |-> config[<<g, name>>],
                   attempts |-> 0, revision |-> 0, lease |-> None]
<1>3. row \in Job
  BY <1>2 DEF Job, JobStates
<1>4. jobs' = [jobs EXCEPT ![j] = row] /\ jobs[j] = None
  BY DEF create
<1>5. UNCHANGED <<config, ops, work, review, remote, posts>>
  BY DEF create, processVars, providerVars
<1> HIDE DEF row
<1>6. row # None
  BY <1>3, ExternalResponseAssumption
<1>7. TypeOK'
  BY <1>1, <1>3, <1>4, <1>5 DEF TypeOK
<1>8. \A k \in Jobs : jobs'[k] = IF k = j THEN row ELSE jobs[k]
  BY <1>1, <1>4 DEF TypeOK
<1>9. /\ \A h \in Gateways : work[h].pc # "idle" => work[h].job \in Jobs
      /\ \A h \in Gateways : review[h] # None => review[h].job \in Jobs
  BY <1>1 DEF TypeOK, Answer
<1>10. Known'
  BY <1>1, <1>5, <1>6, <1>8, <1>9 DEF Known
<1>11. \A k \in Jobs : k # j => (IsDefender(k)' <=> IsDefender(k))
  BY <1>8 DEF IsDefender
<1>12. \A h \in Gateways : ~ Submits(h, j)
  BY <1>1, <1>4 DEF Known, Submits
<1>13. Exclusive'
  BY <1>1, <1>4, <1>5, <1>11, <1>12 DEF Exclusive, Known, Submits
<1>14. QED
  BY <1>7, <1>10, <1>13 DEF IInv

LEMMA DecisionKeeps ==
    ASSUME IInv, NEW j \in Jobs, NEW actor \in Operators,
           (\E g \in Gateways : approve(g, j, actor)) \/ cancel(j, actor)
    PROVE  IInv'
<1>1. TypeOK /\ jobs[j] \in Job /\ jobs[j] # None
  BY DEF IInv, TypeOK, approve, cancel
<1>2. PICK state \in {"ready", "cancelled"} :
           Updated(j, [jobs[j] EXCEPT !.state = state, !.approver = actor])
  BY DEF approve, cancel
<1>3. /\ [jobs[j] EXCEPT !.state = state, !.approver = actor] \in Job
      /\ [jobs[j] EXCEPT !.state = state, !.approver = actor].config = jobs[j].config
  BY <1>1 DEF Job, JobStates
<1>4. JobsKept /\ jobs' \in [Jobs -> Job \cup {None}]
  BY <1>1, <1>2, <1>3, UpdateKeeps DEF TypeOK
<1>5. UNCHANGED <<config, ops, work, review, remote, posts>>
  BY DEF approve, cancel, processVars, providerVars
<1>6. TypeOK'
  BY <1>1, <1>4, <1>5 DEF TypeOK
<1>7. Quiet
  BY <1>4, <1>5 DEF Quiet
<1>8. QED
  BY <1>6, <1>7, QuietKeeps DEF IInv

LEMMA VerifyKeeps ==
    ASSUME IInv, NEW g \in Gateways, NEW j \in Jobs, NEW actor \in Operators,
           verify(g, j, actor)
    PROVE  IInv'
<1>1. TypeOK /\ jobs[j] \in Job /\ jobs[j] # None
  BY DEF IInv, TypeOK, verify
<1>2. PICK o \in DOMAIN remote[j] :
           review' = [review EXCEPT ![g] = [job |-> j, revision |-> jobs[j].revision,
                                            operation |-> o, status |-> remote[j][o]]]
  BY DEF verify
<1> DEFINE answer == [job |-> j, revision |-> jobs[j].revision,
                      operation |-> o, status |-> remote[j][o]]
<1>3. o \in Nat /\ remote[j][o] \in Statuses
  BY <1>1 DEF TypeOK
<1>4. answer \in Answer /\ answer.job = j /\ answer.operation = o
  BY <1>1, <1>3 DEF Answer, Job
<1>5. UNCHANGED <<config, jobs, ops, work, remote, posts>>
  BY DEF verify, databaseVars, providerVars
<1> HIDE DEF answer
<1>6. review' = [review EXCEPT ![g] = answer]
  BY <1>2 DEF answer
<1>7. TypeOK'
  BY <1>1, <1>4, <1>5, <1>6 DEF TypeOK
<1>8. Quiet
  BY <1>1, <1>4, <1>5, <1>6 DEF Quiet, JobsKept, TypeOK
<1>9. QED
  BY <1>7, <1>8, QuietKeeps DEF IInv

LEMMA RestartKeeps ==
    ASSUME IInv, NEW g \in Gateways, NEW files \in Files, restart(g, files)
    PROVE  IInv'
<1>1. TypeOK
  BY DEF IInv
<1>2. config' \in [Gateways \X Connectors -> Configs \cup {None}]
  <2>1. files \in [Connectors -> Configs \cup {None}]
    BY ExternalResponseAssumption
  <2>2. QED
    BY <1>1, <2>1 DEF restart, TypeOK
<1>3. Idle \in Claimed /\ Idle.pc = "idle"
  BY DEF Idle, Claimed
<1>4. /\ UNCHANGED <<jobs, ops, remote, posts>>
      /\ work' = [work EXCEPT ![g] = Idle]
      /\ review' = [review EXCEPT ![g] = None]
  BY DEF restart, databaseVars, providerVars
<1>5. TypeOK'
  BY <1>1, <1>2, <1>3, <1>4 DEF TypeOK
<1>6. Quiet
  BY <1>1, <1>3, <1>4 DEF Quiet, JobsKept, TypeOK
<1>7. QED
  BY <1>5, <1>6, QuietKeeps DEF IInv

\* Settling an action changes no operation id and no answer that was given.
LEMMA SettleKeeps ==
    ASSUME IInv, NEW j \in Jobs, NEW o \in DOMAIN remote[j], settle(j, o)
    PROVE  IInv'
<1>1. TypeOK /\ Known /\ Exclusive
  BY DEF IInv
<1>2. PICK status \in Statuses : remote' = [remote EXCEPT ![j][o] = status]
  BY DEF settle, Statuses
<1>3. /\ remote' \in [Jobs -> Seq(Statuses)]
      /\ \A k \in Jobs : DOMAIN remote'[k] = DOMAIN remote[k]
  <2>1. /\ [remote[j] EXCEPT ![o] = status] \in Seq(Statuses)
        /\ DOMAIN [remote[j] EXCEPT ![o] = status] = DOMAIN remote[j]
    BY <1>1 DEF TypeOK
  <2> DEFINE actions == [remote[j] EXCEPT ![o] = status]
  <2>2. remote' = [remote EXCEPT ![j] = actions]
    BY <1>2
  <2> HIDE DEF actions
  <2>3. QED
    BY <1>1, <2>1, <2>2 DEF TypeOK, actions
<1>4. remote[j] # <<>> /\ \A k \in Jobs : k # j => remote'[k] = remote[k]
  BY <1>1, <1>2 DEF TypeOK
<1>5. UNCHANGED <<config, jobs, ops, work, review, posts>>
  BY DEF settle, databaseVars, processVars
<1>6. TypeOK'
  BY <1>1, <1>3, <1>5 DEF TypeOK
<1>7. /\ \A h \in Gateways : work[h].pc # "idle" => work[h].job \in Jobs
      /\ \A h \in Gateways : review[h] # None => review[h].job \in Jobs
  BY <1>1 DEF TypeOK, Answer
<1>8. Known'
  BY <1>1, <1>3, <1>4, <1>5, <1>7 DEF Known
<1>9. Exclusive'
  BY <1>1, <1>5 DEF Exclusive, IsDefender, Submits
<1>10. QED
  BY <1>6, <1>8, <1>9 DEF IInv

-----------------------------------------------------------------------------
(* The response worker *)

\* A worker that only records what becomes of the job.
LEMMA OutcomeKeeps ==
    ASSUME IInv, NEW g \in Gateways, work[g].pc # "idle", NEW state \in JobStates,
           Outcome(g, state), UNCHANGED <<config, jobs, ops, review, remote, posts>>
    PROVE  IInv'
<1>1. TypeOK /\ Known
  BY DEF IInv
<1>2. Moves(g, "finish", None, state)
  BY <1>1, OutcomeMoves
<1>3. TypeOK'
  BY <1>1, <1>2 DEF Moves, TypeOK
<1>4. Quiet
  BY <1>1, <1>2 DEF Quiet, JobsKept, Known, Moves
<1>5. QED
  BY <1>3, <1>4, QuietKeeps DEF IInv

\* A worker that drops what it holds.
LEMMA DropKeeps ==
    ASSUME IInv, NEW g \in Gateways, work' = [work EXCEPT ![g] = Idle],
           JobsKept, jobs' \in [Jobs -> Job \cup {None}],
           UNCHANGED <<config, ops, review, remote, posts>>
    PROVE  IInv'
<1>1. TypeOK
  BY DEF IInv
<1>2. Idle \in Claimed /\ Idle.pc = "idle"
  BY DEF Idle, Claimed
<1>3. TypeOK'
  BY <1>1, <1>2 DEF TypeOK
<1>4. Quiet
  BY <1>1, <1>2 DEF Quiet, TypeOK
<1>5. QED
  BY <1>3, <1>4, QuietKeeps DEF IInv

LEMMA ClaimKeeps ==
    ASSUME IInv, NEW g \in Gateways, NEW j \in Jobs, claim(g, j)
    PROVE  IInv'
<1>1. TypeOK /\ jobs[j] \in Job /\ jobs[j] # None
  BY DEF IInv, TypeOK, claim, Claimable
<1>2. UNCHANGED <<config, ops, review, remote, posts>>
  BY DEF claim, providerVars
<1>3. CASE GiveUp(g, j)
  <2>1. /\ [jobs[j] EXCEPT !.state = GivenUp(g, j)] \in Job
        /\ [jobs[j] EXCEPT !.state = GivenUp(g, j)].config = jobs[j].config
    BY <1>1 DEF Job, JobStates, GivenUp
  <2>2. JobsKept /\ jobs' \in [Jobs -> Job \cup {None}]
    BY <1>1, <1>3, <2>1, UpdateKeeps DEF GiveUp, TypeOK
  <2>3. TypeOK'
    BY <1>1, <1>2, <1>3, <2>2 DEF GiveUp, TypeOK
  <2>4. Quiet
    BY <1>2, <1>3, <2>2 DEF GiveUp, Quiet
  <2>5. QED
    BY <2>3, <2>4, QuietKeeps DEF IInv
<1>4. CASE Take(g, j)
  <2> DEFINE lease == jobs[j].revision + 1
             row   == [jobs[j] EXCEPT !.state = "running", !.lease = lease,
                                      !.attempts = jobs[j].attempts + 1]
             held  == [pc |-> "claimed", job |-> j, lease |-> lease,
                       attempt |-> jobs[j].attempts + 1, operation |-> None, result |-> None]
  <2>1. lease \in Nat /\ jobs[j].attempts + 1 \in Nat
    BY <1>1 DEF Job
  <2>2. row \in Job /\ row.config = jobs[j].config
    BY <1>1, <2>1 DEF Job, JobStates
  <2>3. held \in Claimed /\ held.pc = "claimed" /\ held.job = j
    BY <2>1 DEF Claimed
  <2>4. Updated(j, row) /\ work' = [work EXCEPT ![g] = held]
    BY <1>4 DEF Take
  <2> HIDE DEF row, held, lease
  <2>5. JobsKept /\ jobs' \in [Jobs -> Job \cup {None}]
    BY <1>1, <2>2, <2>4, UpdateKeeps DEF TypeOK
  <2>6. TypeOK'
    BY <1>1, <1>2, <2>3, <2>4, <2>5 DEF TypeOK
  <2>7. Quiet
    BY <1>1, <1>2, <2>3, <2>4, <2>5 DEF Quiet, TypeOK
  <2>8. QED
    BY <2>6, <2>7, QuietKeeps DEF IInv
<1>5. QED
  BY <1>3, <1>4 DEF claim

LEMMA FinishKeeps ==
    ASSUME IInv, NEW g \in Gateways, finish(g)
    PROVE  IInv'
<1>1. TypeOK /\ Known /\ work[g].job \in Jobs
  BY DEF IInv, TypeOK, finish
<1>2. jobs[work[g].job] \in Job /\ jobs[work[g].job] # None /\ work[g].result \in JobStates
  BY <1>1 DEF Known, TypeOK, finish
<1> DEFINE j   == work[g].job
           row == [jobs[j] EXCEPT !.state = work[g].result, !.lease = None]
<1>3. row \in Job /\ row.config = jobs[j].config
  BY <1>2 DEF Job
<1>4. Updated(j, row) \/ UNCHANGED jobs
  BY DEF finish
<1> HIDE DEF row
<1>5. JobsKept /\ jobs' \in [Jobs -> Job \cup {None}]
  <2>1. CASE Updated(j, row)
    BY <1>1, <1>2, <1>3, <2>1, UpdateKeeps DEF TypeOK
  <2>2. CASE UNCHANGED jobs
    BY <1>1, <2>2 DEF JobsKept, TypeOK
  <2>3. QED
    BY <1>4, <2>1, <2>2
<1>6. QED
  BY <1>5, DropKeeps DEF finish, providerVars

\* The configuration decides which adapter a worker runs.
LEMMA AdapterOfJob ==
    ASSUME IInv, NEW g \in Gateways, work[g].pc # "idle", MaySend(g, work[g].job)
    PROVE  /\ work[g].job \in Jobs /\ jobs[work[g].job] # None
           /\ IsVendor(Current(g, work[g].job)) <=> IsDefender(work[g].job)
           /\ Current(g, work[g].job) \in Configs
<1>1. work[g].job \in Jobs /\ jobs[work[g].job] # None /\ jobs[work[g].job] \in Job
  BY DEF IInv, TypeOK, Known
<1>2. jobs[work[g].job].config \in Configs
  BY <1>1 DEF Job
<1>3. jobs[work[g].job].config # None
  BY <1>2, ExternalResponseAssumption
<1>4. QED
  BY <1>1, <1>2, <1>3 DEF MaySend, Unchanged, IsVendor, IsDefender

LEMMA SendKeeps ==
    ASSUME IInv, NEW g \in Gateways, send(g)
    PROVE  IInv'
<1> DEFINE j == work[g].job
<1>1. TypeOK /\ Known /\ Exclusive
  BY DEF IInv
<1>2. j \in Jobs /\ jobs[j] # None /\ ~ IsDefender(j)
  BY AdapterOfJob DEF send
<1>3. UNCHANGED <<config, jobs, ops, review>> /\ work[g].pc = "claimed"
  BY DEF send, databaseVars
<1>4. PICK state \in JobStates : Outcome(g, state)
  BY DEF send, Unperformed, AfterFault, JobStates
<1>5. CASE UNCHANGED <<remote, posts>>
  BY <1>3, <1>4, <1>5, OutcomeKeeps
<1>6. CASE \E actions \in {remote[j], Performed(j)} : Deliver(j, actions)
  <2>1. PICK actions \in {remote[j], Performed(j)} : Deliver(j, actions)
    BY <1>6
  <2>2. actions \in Seq(Statuses) /\ DOMAIN remote[j] \subseteq DOMAIN actions
    <3>1. remote[j] \in Seq(Statuses) /\ <<"Succeeded">> \in Seq(Statuses)
      BY <1>1, <1>2 DEF TypeOK, Statuses
    <3>2. remote[j] = <<>> => DOMAIN remote[j] = {}
      OBVIOUS
    <3>3. QED
      BY <3>1, <3>2 DEF Performed
  <2> HIDE DEF j
  <2>3. /\ remote' = [remote EXCEPT ![j] = actions]
        /\ posts' = [posts EXCEPT ![j] = posts[j] + 1]
    BY <2>1 DEF Deliver
  <2>4. Moves(g, "finish", None, state)
    BY <1>1, <1>3, <1>4, OutcomeMoves
  <2>5. TypeOK'
    BY <1>1, <1>2, <1>3, <2>2, <2>3, <2>4 DEF Moves, TypeOK
  <2>6. /\ \A h \in Gateways : work[h].pc # "idle" => work[h].job \in Jobs
        /\ \A h \in Gateways : review[h] # None => review[h].job \in Jobs
        /\ \A k \in Jobs : DOMAIN remote[k] \subseteq DOMAIN remote'[k]
        /\ \A k \in Jobs : k # j => remote'[k] = remote[k] /\ posts'[k] = posts[k]
    BY <1>1, <1>2, <2>2, <2>3 DEF TypeOK, Answer
  <2>7. Known'
    <3>1. \A k \in Jobs : jobs'[k] = None => ops'[k] = None /\ posts'[k] = 0 /\ remote'[k] = <<>>
      BY <1>1, <1>2, <1>3, <2>6 DEF Known
    <3>2. \A h \in Gateways : h # g => work'[h] = work[h]
      BY <2>4 DEF Moves
    <3>3. jobs[work'[g].job] # None /\ work'[g].pc = "finish" /\ work'[g].result \in JobStates
      BY <1>2, <2>4 DEF Moves, j
    <3>4. QED
      BY <1>1, <1>3, <2>6, <3>1, <3>2, <3>3 DEF Known
  <2>8. \A h \in Gateways, k \in Jobs : Submits(h, k)' => Submits(h, k)
    BY <2>4 DEF Moves, Submits
  <2>9. \A k \in Jobs : IsDefender(k)' => IsDefender(k) /\ posts'[k] = posts[k]
    BY <1>2, <1>3, <2>6 DEF IsDefender
  <2>10. Exclusive'
    BY <1>1, <1>3, <2>8, <2>9 DEF Exclusive
  <2>11. QED
    BY <2>5, <2>7, <2>10 DEF IInv
<1>7. QED
  BY <1>5, <1>6 DEF send, providerVars

\* The worker whose insert takes effect is the only one to submit.
LEMMA IntendKeeps ==
    ASSUME IInv, NEW g \in Gateways, intend(g)
    PROVE  IInv'
<1> DEFINE j == work[g].job
<1>1. TypeOK /\ Known /\ Exclusive
  BY DEF IInv
<1>2. j \in Jobs /\ jobs[j] # None /\ IsDefender(j) /\ Current(g, j) \in Configs
  BY AdapterOfJob DEF intend
<1>3. UNCHANGED <<config, jobs, review, remote, posts>> /\ work[g].pc = "claimed"
  BY DEF intend, providerVars
<1>4. /\ \A h \in Gateways : work[h].pc # "idle" => work[h].job \in Jobs
      /\ \A h \in Gateways : review[h] # None => review[h].job \in Jobs
      /\ \A k \in Jobs : ops[k] # None => ops[k] \in Operation
  BY <1>1 DEF TypeOK, Answer
<1>5. CASE FirstIntent(j)
  <2> DEFINE intent == [state |-> "submitting", operation |-> None, config |-> Current(g, j)]
  <2>1. intent \in Operation /\ intent.operation = None /\ intent.state = "submitting"
    BY <1>2 DEF Operation, VendorStates
  <2>2. ops' = [ops EXCEPT ![j] = intent] /\ Exchange(g, None)
    BY <1>5 DEF intend
  <2>3. intent # None
    BY <2>1, ExternalResponseAssumption
  <2> HIDE DEF intent, j
  <2>4. Moves(g, "exchange", None, work[g].result)
    BY <1>1, <1>3, <2>2, ExchangeMoves
  <2>5. TypeOK'
    BY <1>1, <1>2, <1>3, <2>1, <2>2, <2>4 DEF Moves, TypeOK
  <2>6. \A k \in Jobs : ops'[k] = IF k = j THEN intent ELSE ops[k]
    BY <1>1, <2>2 DEF TypeOK
  <2>7. Known'
    <3>1. \A h \in Gateways : h # g => work'[h] = work[h]
      BY <2>4 DEF Moves
    <3>2. /\ work'[g].pc = "exchange" /\ work'[g].operation = None
          /\ work'[g].job = j
      BY <2>4 DEF Moves, j
    <3>3. QED
      BY <1>1, <1>2, <1>3, <1>4, <2>1, <2>6, <3>1, <3>2 DEF Known
  <2>8. ops[j] = None /\ posts[j] = 0 /\ \A h \in Gateways : ~ Submits(h, j)
    BY <1>1, <1>2, <1>5 DEF FirstIntent, Exclusive
  <2>9. \A h \in Gateways, k \in Jobs : Submits(h, k)' => Submits(h, k) \/ (h = g /\ k = j)
    BY <2>4 DEF Moves, Submits, j
  <2>10. \A k \in Jobs : IsDefender(k)' <=> IsDefender(k)
    BY <1>3 DEF IsDefender
  <2>11. Exclusive'
    BY <1>1, <1>3, <2>3, <2>6, <2>8, <2>9, <2>10 DEF Exclusive
  <2>12. QED
    BY <2>5, <2>7, <2>11 DEF IInv
<1>6. CASE ~ FirstIntent(j) /\ \E state \in JobStates : Outcome(g, state)
  <2>1. ops' = ops
    BY <1>6 DEF intend, FirstIntent
  <2>2. QED
    BY <1>3, <1>6, <2>1, OutcomeKeeps
<1>7. CASE ~ FirstIntent(j) /\ ops[j].state = "pending" /\ Exchange(g, ops[j].operation)
  <2> DEFINE o == ops[j].operation
  <2>1. ops' = ops
    BY <1>7 DEF intend, FirstIntent
  <2>2. o \in Nat /\ o # None /\ o \in DOMAIN remote[j]
    BY <1>1, <1>2, <1>4, <1>7, ExternalResponseAssumption DEF FirstIntent, Known, Operation
  <2> HIDE DEF o, j
  <2>3. Moves(g, "exchange", o, work[g].result)
    BY <1>1, <1>3, <1>7, <2>2, ExchangeMoves DEF o
  <2>4. TypeOK'
    BY <1>1, <1>3, <2>1, <2>3 DEF Moves, TypeOK
  <2>5. Known'
    <3>1. \A h \in Gateways : h # g => work'[h] = work[h]
      BY <2>3 DEF Moves
    <3>2. work'[g].pc = "exchange" /\ work'[g].operation = o /\ work'[g].job = j
      BY <2>3 DEF Moves, j
    <3>3. QED
      BY <1>1, <1>2, <1>3, <1>4, <2>1, <2>2, <3>1, <3>2 DEF Known
  <2>6. \A h \in Gateways, k \in Jobs : Submits(h, k)' => Submits(h, k)
    BY <2>2, <2>3 DEF Moves, Submits
  <2>7. \A k \in Jobs : IsDefender(k)' <=> IsDefender(k)
    BY <1>3 DEF IsDefender
  <2>8. Exclusive'
    BY <1>1, <1>3, <2>1, <2>6, <2>7 DEF Exclusive
  <2>9. QED
    BY <2>4, <2>5, <2>8 DEF IInv
<1>8. ~ FirstIntent(j) => \/ \E state \in JobStates : Outcome(g, state)
                          \/ ops[j].state = "pending" /\ Exchange(g, ops[j].operation)
  <2>1. ASSUME ~ FirstIntent(j)
        PROVE  ops[j] \in Operation
    BY <1>2, <1>4, <2>1 DEF FirstIntent
  <2>2. QED
    BY <2>1 DEF intend, Operation, VendorStates, JobStates
<1>9. QED
  BY <1>5, <1>6, <1>7, <1>8

\* The submission uses up the right to submit, whatever comes of it.
LEMMA SubmitKeeps ==
    ASSUME IInv, NEW g \in Gateways, submit(g)
    PROVE  IInv'
<1> DEFINE j == work[g].job
<1>1. TypeOK /\ Known /\ Exclusive
  BY DEF IInv
<1>2. UNCHANGED <<config, jobs, ops, review>> /\ work[g].pc = "exchange" /\ work[g].operation = None
  BY DEF submit, databaseVars
<1>3. j \in Jobs /\ jobs[j] # None /\ remote[j] \in Seq(Statuses)
  BY <1>1, <1>2 DEF TypeOK, Known
<1>4. /\ \A h \in Gateways : work[h].pc # "idle" => work[h].job \in Jobs
      /\ \A h \in Gateways : review[h] # None => review[h].job \in Jobs
  BY <1>1 DEF TypeOK, Answer
<1>5. PICK actions \in Seq(Statuses), o \in Nat \cup {None},
           state \in {"uncertain", "pending", "completed", "failed"} :
           /\ Record(g, o, state)
           /\ \/ UNCHANGED <<remote, posts>> /\ actions = remote[j]
              \/ Deliver(j, actions)
           /\ DOMAIN remote[j] \subseteq DOMAIN actions
           /\ o = None => state = "uncertain"
           /\ o # None => o \in DOMAIN actions
  <2>1. CASE Record(g, None, "uncertain") /\ (UNCHANGED <<remote, posts>> \/ Deliver(j, remote[j]))
    BY <1>3, <2>1
  <2>2. ASSUME NEW s \in Statuses, Deliver(j, Append(remote[j], s)),
               \/ Record(g, Len(remote[j]) + 1, VendorState(s))
               \/ Record(g, None, "uncertain")
        PROVE  \E actions \in Seq(Statuses), o \in Nat \cup {None},
                  state \in {"uncertain", "pending", "completed", "failed"} :
                  /\ Record(g, o, state)
                  /\ \/ UNCHANGED <<remote, posts>> /\ actions = remote[j]
                     \/ Deliver(j, actions)
                  /\ DOMAIN remote[j] \subseteq DOMAIN actions
                  /\ o = None => state = "uncertain"
                  /\ o # None => o \in DOMAIN actions
    <3>1. /\ Append(remote[j], s) \in Seq(Statuses)
          /\ DOMAIN remote[j] \subseteq DOMAIN Append(remote[j], s)
          /\ Len(remote[j]) + 1 \in DOMAIN Append(remote[j], s)
          /\ Len(remote[j]) + 1 \in Nat
      BY <1>3
    <3>2. Len(remote[j]) + 1 # None
      BY <3>1, ExternalResponseAssumption
    <3>3. VendorState(s) \in {"uncertain", "pending", "completed", "failed"}
      BY VendorStateType
    <3> HIDE DEF j
    <3>4. CASE Record(g, None, "uncertain")
      BY <2>2, <3>1, <3>4
    <3>5. CASE Record(g, Len(remote[j]) + 1, VendorState(s))
      BY <2>2, <3>1, <3>2, <3>3, <3>5
    <3>6. QED
      BY <2>2, <3>4, <3>5
  <2>3. QED
    BY <2>1, <2>2 DEF submit, providerVars
<1> HIDE DEF j
<1>6. Moves(g, "save", o, state)
  BY <1>1, <1>2, <1>5, RecordMoves DEF VendorStates
<1>7. /\ posts' \in [Jobs -> Nat] /\ posts'[j] <= posts[j] + 1
      /\ remote' = [remote EXCEPT ![j] = actions]
      /\ \A k \in Jobs : k # j => posts'[k] = posts[k]
  BY <1>1, <1>3, <1>5 DEF Deliver, TypeOK
<1>8. /\ remote'[j] = actions
      /\ \A k \in Jobs : k # j => remote'[k] = remote[k]
      /\ \A k \in Jobs : DOMAIN remote[k] \subseteq DOMAIN remote'[k]
  BY <1>1, <1>3, <1>5, <1>7 DEF TypeOK
<1>9. TypeOK'
  BY <1>1, <1>2, <1>3, <1>5, <1>6, <1>7 DEF Moves, TypeOK
<1>10. Known'
  <2>1. \A k \in Jobs : jobs'[k] = None => ops'[k] = None /\ posts'[k] = 0 /\ remote'[k] = <<>>
    BY <1>1, <1>2, <1>3, <1>7, <1>8 DEF Known
  <2>2. \A h \in Gateways : h # g => work'[h] = work[h]
    BY <1>6 DEF Moves
  <2>3. work'[g].job = j /\ work'[g].pc = "save" /\ work'[g].operation = o /\ work'[g].result = state
    BY <1>6 DEF Moves, j
  <2>4. QED
    BY <1>1, <1>2, <1>3, <1>4, <1>5, <1>8, <2>1, <2>2, <2>3 DEF Known
<1>11. \A h \in Gateways, k \in Jobs : Submits(h, k)' => Submits(h, k) /\ h # g
  BY <1>6 DEF Moves, Submits
<1>12. Submits(g, j)
  BY <1>2 DEF Submits, j
<1>13. \A k \in Jobs : IsDefender(k)' <=> IsDefender(k)
  BY <1>2 DEF IsDefender
<1>14. Exclusive'
  <2>1. ASSUME NEW k \in Jobs, IsDefender(k), k # j
        PROVE  /\ posts'[k] <= 1
               /\ ops'[k] = None => posts'[k] = 0
               /\ \A h \in Gateways : Submits(h, k)' =>
                     /\ ops'[k] # None /\ posts'[k] = 0
                     /\ \A i \in Gateways : Submits(i, k)' => i = h
    BY <1>1, <1>2, <1>7, <1>11, <2>1 DEF Exclusive
  <2>2. ASSUME NEW k \in Jobs, IsDefender(k), k = j
        PROVE  /\ posts'[k] <= 1 /\ ops'[k] # None
               /\ \A h \in Gateways : ~ Submits(h, k)'
    <3>1. posts[k] = 0 /\ ops[k] # None /\ \A h \in Gateways : Submits(h, k) => h = g
      BY <1>1, <1>3, <1>12, <2>2 DEF Exclusive
    <3>2. posts'[k] <= 1
      BY <1>7, <2>2, <3>1
    <3>3. QED
      BY <1>2, <1>11, <3>1, <3>2
  <2>3. QED
    BY <1>13, <2>1, <2>2 DEF Exclusive
<1>15. QED
  BY <1>9, <1>10, <1>14 DEF IInv

LEMMA PollKeeps ==
    ASSUME IInv, NEW g \in Gateways, poll(g)
    PROVE  IInv'
<1> DEFINE j == work[g].job
           o == work[g].operation
<1>1. TypeOK /\ Known /\ Exclusive
  BY DEF IInv
<1>2. UNCHANGED <<config, jobs, ops, review, remote, posts>> /\ work[g].pc = "exchange" /\ o # None
  BY DEF poll, databaseVars, providerVars
<1>3. j \in Jobs /\ jobs[j] # None /\ o \in DOMAIN remote[j] /\ remote[j] \in Seq(Statuses)
  BY <1>1, <1>2 DEF TypeOK, Known
<1>4. o \in Nat /\ remote[j][o] \in Statuses
  BY <1>3
<1>5. CASE Outcome(g, "ready")
  BY <1>2, <1>5, OutcomeKeeps DEF JobStates
<1>6. CASE Record(g, o, VendorState(remote[j][o]))
  <2> DEFINE state == VendorState(remote[j][o])
  <2>1. state \in {"completed", "pending", "failed"}
    BY <1>4, VendorStateType
  <2> HIDE DEF state, j, o
  <2>2. Moves(g, "save", o, state)
    BY <1>1, <1>2, <1>4, <1>6, <2>1, RecordMoves DEF VendorStates, state
  <2>3. TypeOK'
    BY <1>1, <1>2, <2>2 DEF Moves, TypeOK
  <2>4. /\ \A h \in Gateways : work[h].pc # "idle" => work[h].job \in Jobs
        /\ \A h \in Gateways : review[h] # None => review[h].job \in Jobs
    BY <1>1 DEF TypeOK, Answer
  <2>5. Known'
    <3>1. \A h \in Gateways : h # g => work'[h] = work[h]
      BY <2>2 DEF Moves
    <3>2. /\ work'[g].pc = "save" /\ work'[g].operation = o /\ work'[g].result = state
          /\ work'[g].job = j
      BY <2>2 DEF Moves, j
    <3>3. QED
      BY <1>1, <1>2, <1>3, <2>1, <2>4, <3>1, <3>2 DEF Known
  <2>6. \A h \in Gateways, k \in Jobs : Submits(h, k)' => Submits(h, k)
    BY <2>2 DEF Moves, Submits
  <2>7. \A k \in Jobs : IsDefender(k)' <=> IsDefender(k)
    BY <1>2 DEF IsDefender
  <2>8. Exclusive'
    BY <1>1, <1>2, <2>6, <2>7 DEF Exclusive
  <2>9. QED
    BY <2>3, <2>5, <2>8 DEF IInv
<1>7. QED
  BY <1>5, <1>6 DEF poll

\* A receipt is saved or not; the intent is there in either case.
LEMMA SaveKeeps ==
    ASSUME IInv, NEW g \in Gateways, save(g)
    PROVE  IInv'
<1> DEFINE j      == work[g].job
           o      == work[g].operation
           result == work[g].result
<1>1. TypeOK /\ Known /\ Exclusive
  BY DEF IInv
<1>2. UNCHANGED <<config, jobs, review, remote, posts>> /\ work[g].pc = "save"
  BY DEF save, providerVars
<1>3. /\ j \in Jobs /\ jobs[j] # None
      /\ result \in {"uncertain", "pending", "completed", "failed"}
      /\ o = None => result = "uncertain"
      /\ o # None => o \in DOMAIN remote[j]
      /\ o \in Nat \cup {None}
  BY <1>1, <1>2 DEF TypeOK, Known, Claimed
<1>4. JobState(result) \in JobStates
  BY <1>3, JobStateType
<1>5. Outcome(g, JobState(result))
  BY DEF save
<1>6. CASE ~ Unsettled(j)
  <2>1. ops' = ops
    BY <1>6 DEF save
  <2>2. QED
    BY <1>2, <1>4, <1>5, <2>1, OutcomeKeeps
<1>7. CASE Unsettled(j)
  <2>1. ops[j] # None /\ ops[j] \in Operation
    BY <1>1, <1>3, <1>7 DEF Unsettled, TypeOK
  <2> DEFINE receipt == [ops[j] EXCEPT !.state = result, !.operation = o]
  <2>2. receipt \in Operation /\ receipt.state = result /\ receipt.operation = o
    BY <1>3, <2>1 DEF Operation, VendorStates
  <2>3. ops' = [ops EXCEPT ![j] = receipt]
    BY <1>7 DEF save
  <2>4. Moves(g, "finish", None, JobState(result))
    BY <1>1, <1>2, <1>4, <1>5, OutcomeMoves
  <2> HIDE DEF receipt, j, o, result
  <2>5. receipt # None
    BY <2>2, ExternalResponseAssumption
  <2>6. \A k \in Jobs : ops'[k] = IF k = j THEN receipt ELSE ops[k]
    BY <1>1, <2>3 DEF TypeOK
  <2>7. TypeOK'
    BY <1>1, <1>2, <2>2, <2>3, <2>4 DEF Moves, TypeOK
  <2>8. /\ \A h \in Gateways : work[h].pc # "idle" => work[h].job \in Jobs
        /\ \A h \in Gateways : review[h] # None => review[h].job \in Jobs
    BY <1>1 DEF TypeOK, Answer
  <2>9. Known'
    <3>1. \A h \in Gateways : h # g => work'[h] = work[h]
      BY <2>4 DEF Moves
    <3>2. /\ work'[g].pc = "finish" /\ work'[g].result \in JobStates
          /\ work'[g].job = j
      BY <1>4, <2>4 DEF Moves, j
    <3>3. \A k \in Jobs : ops'[k] # None =>
             /\ ops'[k].operation # None => ops'[k].operation \in DOMAIN remote'[k]
             /\ ops'[k].state \in {"pending", "completed", "failed"} => ops'[k].operation # None
      BY <1>1, <1>2, <1>3, <2>2, <2>6 DEF Known
    <3>4. QED
      BY <1>1, <1>2, <1>3, <2>6, <2>8, <3>1, <3>2, <3>3 DEF Known
  <2>10. \A h \in Gateways, k \in Jobs : Submits(h, k)' => Submits(h, k)
    BY <2>4 DEF Moves, Submits
  <2>11. \A k \in Jobs : /\ IsDefender(k)' <=> IsDefender(k)
                         /\ ops'[k] = None <=> ops[k] = None
    BY <1>2, <2>1, <2>5, <2>6 DEF IsDefender
  <2>12. Exclusive'
    BY <1>1, <1>2, <2>10, <2>11 DEF Exclusive
  <2>13. QED
    BY <2>7, <2>9, <2>12 DEF IInv
<1>8. QED
  BY <1>6, <1>7

LEMMA ReconcileKeeps ==
    ASSUME IInv, NEW g \in Gateways, reconcile(g)
    PROVE  IInv'
<1> DEFINE j     == review[g].job
           o     == review[g].operation
           state == VendorState(review[g].status)
<1>1. TypeOK /\ Known /\ Exclusive
  BY DEF IInv
<1>2. /\ UNCHANGED <<config, work, remote, posts>>
      /\ review[g] # None /\ review' = [review EXCEPT ![g] = None]
  BY DEF reconcile, providerVars
<1>3. /\ review[g] \in Answer /\ j \in Jobs /\ jobs[j] # None /\ jobs[j] \in Job
      /\ o \in Nat /\ o \in DOMAIN remote[j]
  BY <1>1, <1>2 DEF TypeOK, Answer, Known
<1>4. state \in {"completed", "pending", "failed"}
  BY <1>3, VendorStateType DEF Answer
<1>5. JobState(state) \in JobStates
  BY <1>4, JobStateType
<1>6. \A h \in Gateways : review'[h] = review[h] \/ review'[h] = None
  BY <1>1, <1>2 DEF TypeOK
<1>7. CASE UNCHANGED <<jobs, ops>>
  <2>1. TypeOK'
    BY <1>1, <1>2, <1>7 DEF TypeOK
  <2>2. Quiet
    BY <1>1, <1>2, <1>6, <1>7 DEF Quiet, JobsKept
  <2>3. QED
    BY <2>1, <2>2, QuietKeeps DEF IInv
<1>8. CASE /\ ops[j] # None
           /\ Updated(j, [jobs[j] EXCEPT !.state = JobState(state), !.attempts = 0, !.lease = None])
           /\ ops' = [ops EXCEPT ![j].state = state, ![j].operation = o]
  <2> DEFINE row     == [jobs[j] EXCEPT !.state = JobState(state), !.attempts = 0, !.lease = None]
             receipt == [ops[j] EXCEPT !.state = state, !.operation = o]
  <2>1. row \in Job /\ row.config = jobs[j].config
    BY <1>3, <1>5 DEF Job
  <2>2. ops[j] \in Operation
    BY <1>1, <1>3, <1>8 DEF TypeOK
  <2>3. receipt \in Operation /\ receipt.state = state /\ receipt.operation = o
    BY <1>3, <1>4, <2>2 DEF Operation, VendorStates
  <2>4. Updated(j, row) /\ ops' = [ops EXCEPT ![j] = receipt]
    BY <1>8
  <2> HIDE DEF row, receipt, j, o, state
  <2>5. JobsKept /\ jobs' \in [Jobs -> Job \cup {None}]
    BY <1>1, <1>3, <2>1, <2>4, UpdateKeeps DEF TypeOK
  <2>6. receipt # None /\ o # None
    BY <1>3, <2>3, ExternalResponseAssumption
  <2>7. \A k \in Jobs : ops'[k] = IF k = j THEN receipt ELSE ops[k]
    BY <1>1, <2>4 DEF TypeOK
  <2>8. TypeOK'
    BY <1>1, <1>2, <2>3, <2>4, <2>5 DEF TypeOK
  <2>9. /\ \A h \in Gateways : work[h].pc # "idle" => work[h].job \in Jobs
        /\ \A h \in Gateways : review[h] # None => review[h].job \in Jobs
    BY <1>1 DEF TypeOK, Answer
  <2>10. Known'
    <3>1. \A k \in Jobs : ops'[k] # None =>
             /\ ops'[k].operation # None => ops'[k].operation \in DOMAIN remote'[k]
             /\ ops'[k].state \in {"pending", "completed", "failed"} => ops'[k].operation # None
      BY <1>1, <1>2, <1>3, <2>3, <2>6, <2>7 DEF Known
    <3>2. \A k \in Jobs : jobs'[k] = None => ops'[k] = None /\ posts'[k] = 0 /\ remote'[k] = <<>>
      BY <1>1, <1>2, <1>3, <2>5, <2>7 DEF Known, JobsKept
    <3>3. \A k \in Jobs : jobs[k] # None => jobs'[k] # None
      BY <2>5 DEF JobsKept
    <3>4. QED
      BY <1>1, <1>2, <1>6, <2>9, <3>1, <3>2, <3>3 DEF Known
  <2>11. \A k \in Jobs : /\ IsDefender(k)' <=> IsDefender(k)
                         /\ ops'[k] = None <=> ops[k] = None
    BY <1>8, <2>5, <2>6, <2>7 DEF IsDefender, JobsKept
  <2>12. \A h \in Gateways, k \in Jobs : Submits(h, k)' <=> Submits(h, k)
    BY <1>2 DEF Submits
  <2>13. Exclusive'
    BY <1>1, <1>2, <2>11, <2>12 DEF Exclusive
  <2>14. QED
    BY <2>8, <2>10, <2>13 DEF IInv
<1>9. QED
  BY <1>7, <1>8 DEF reconcile, databaseVars

-----------------------------------------------------------------------------
(* The invariant and what follows from it *)

LEMMA InitInv == Init => IInv
<1> SUFFICES ASSUME Init PROVE IInv
  OBVIOUS
<1>1. config \in [Gateways \X Connectors -> Configs \cup {None}]
  <2>1. PICK read \in [Gateways -> Files] :
             config = [x \in Gateways \X Connectors |-> read[x[1]][x[2]]]
    BY DEF Init
  <2>2. \A g \in Gateways : read[g] \in [Connectors -> Configs \cup {None}]
    BY ExternalResponseAssumption
  <2>3. QED
    BY <2>1, <2>2
<1>2. Idle \in Claimed /\ Idle.pc = "idle"
  BY DEF Idle, Claimed
<1>3. TypeOK
  BY <1>1, <1>2 DEF Init, TypeOK
<1>4. Known
  BY <1>2 DEF Init, Known
<1>5. Exclusive
  BY DEF Init, Exclusive, IsDefender
<1>6. QED
  BY <1>3, <1>4, <1>5 DEF IInv

LEMMA StepInv == IInv /\ [Next]_vars => IInv'
<1> SUFFICES ASSUME IInv, [Next]_vars PROVE IInv'
  OBVIOUS
<1>1. ASSUME NEW g \in Gateways, refuse(g)
      PROVE  IInv'
  BY <1>1, OutcomeKeeps DEF refuse, databaseVars, providerVars, JobStates
<1>2. ASSUME NEW g \in Gateways, fault(g)
      PROVE  IInv'
  <2>1. AfterFault(g) \in JobStates
    BY DEF AfterFault, JobStates
  <2>2. QED
    BY <1>2, <2>1, OutcomeKeeps DEF fault, databaseVars, providerVars
<1>3. ASSUME NEW g \in Gateways, abandon(g)
      PROVE  IInv'
  <2>1. JobsKept /\ jobs' \in [Jobs -> Job \cup {None}]
    BY <1>3 DEF abandon, databaseVars, JobsKept, IInv, TypeOK
  <2>2. QED
    BY <1>3, <2>1, DropKeeps DEF abandon, databaseVars, providerVars
<1>4. ASSUME NEW g \in Gateways, tick(g)
      PROVE  IInv'
  BY <1>1, <1>2, <1>3, <1>4, ClaimKeeps, SendKeeps, IntendKeeps, SubmitKeeps, PollKeeps,
     SaveKeeps, FinishKeeps DEF tick
<1>5. CASE UNCHANGED vars
  <2>1. TypeOK'
    BY <1>5 DEF vars, IInv, TypeOK
  <2>2. Quiet
    BY <1>5 DEF vars, Quiet, JobsKept
  <2>3. QED
    BY <2>1, <2>2, QuietKeeps DEF IInv
<1>6. QED
  BY <1>4, <1>5, CreateKeeps, DecisionKeeps, VerifyKeeps, ReconcileKeeps, RestartKeeps,
     SettleKeeps DEF Next

\* The tables, the workers and the provider's actions are well formed.
THEOREM ResponseTypeCorrect == Spec => []TypeOK
<1>1. IInv => TypeOK
  BY DEF IInv
<1>2. QED
  BY <1>1, InitInv, StepInv, PTL DEF Spec

\* One POST at most reaches Defender for a job, for any number of gateways,
\* restarts, expired leases, faults and reconciliations.
THEOREM SubmittedOnce == Spec => []AtMostOneSubmission
<1>1. IInv => AtMostOneSubmission
  BY DEF IInv, Exclusive, AtMostOneSubmission
<1>2. QED
  BY <1>1, InitInv, StepInv, PTL DEF Spec

-----------------------------------------------------------------------------
(* What ended stays as it ended *)

Ended == {"completed", "failed", "cancelled"}

\* A job that ended is no candidate for any update.
LEMMA UpdateSpares ==
    ASSUME TypeOK, NEW j \in Jobs, NEW row, Updated(j, row),
           jobs[j] # None => jobs[j].state \notin Ended
    PROVE  KeepsOutcomes
<1> DEFINE new == [row EXCEPT !.revision = @ + 1]
<1> HIDE DEF new
<1>1. jobs' = [jobs EXCEPT ![j] = new]
  BY DEF Updated, new
<1>2. QED
  BY <1>1 DEF KeepsOutcomes, TypeOK, Ended

LEMMA StepKeepsOutcomes == IInv /\ [Next]_vars => KeepsOutcomes
<1> SUFFICES ASSUME IInv, [Next]_vars PROVE KeepsOutcomes
  OBVIOUS
<1>1. TypeOK /\ Known
  BY DEF IInv
<1>2. CASE jobs' = jobs
  BY <1>2 DEF KeepsOutcomes
<1>3. ASSUME NEW g \in Gateways, NEW j \in Jobs, NEW actor \in Operators, NEW name \in Connectors,
             create(g, j, actor, name)
      PROVE  KeepsOutcomes
  BY <1>1, <1>3 DEF create, KeepsOutcomes, TypeOK
<1>4. ASSUME NEW g \in Gateways, NEW j \in Jobs, NEW actor \in Operators, approve(g, j, actor)
      PROVE  KeepsOutcomes
  BY <1>1, <1>4, UpdateSpares DEF approve, Ended
<1>5. ASSUME NEW j \in Jobs, NEW actor \in Operators, cancel(j, actor)
      PROVE  KeepsOutcomes
  BY <1>1, <1>5, UpdateSpares DEF cancel, Ended
<1>6. ASSUME NEW g \in Gateways, NEW j \in Jobs, claim(g, j)
      PROVE  KeepsOutcomes
  BY <1>1, <1>6, UpdateSpares DEF claim, GiveUp, Take, Claimable, Ended
<1>7. ASSUME NEW g \in Gateways, finish(g)
      PROVE  KeepsOutcomes
  <2>1. work[g].job \in Jobs
    BY <1>1, <1>7 DEF finish, TypeOK
  <2>2. CASE HoldsLease(g)
    BY <1>1, <1>7, <2>1, <2>2, UpdateSpares DEF finish, HoldsLease, Ended
  <2>3. QED
    BY <1>2, <1>7, <2>2 DEF finish
<1>8. ASSUME NEW g \in Gateways, reconcile(g)
      PROVE  KeepsOutcomes
  <2>1. review[g].job \in Jobs
    BY <1>1, <1>8 DEF reconcile, TypeOK, Answer
  <2>2. CASE CurrentRow(g) /\ ops[review[g].job] # None
                           /\ ops[review[g].job].config = jobs[review[g].job].config
    BY <1>1, <1>8, <2>1, <2>2, UpdateSpares DEF reconcile, CurrentRow, Ended
  <2>3. QED
    BY <1>2, <1>8, <2>2 DEF reconcile, databaseVars
<1>9. ASSUME NEW g \in Gateways, tick(g)
      PROVE  KeepsOutcomes
  <2>1. jobs' = jobs \/ (\E j \in Jobs : claim(g, j)) \/ finish(g)
    BY <1>9 DEF tick, refuse, send, intend, submit, poll, save, fault, abandon, databaseVars
  <2>2. QED
    BY <1>2, <1>6, <1>7, <2>1
<1>10. QED
  BY <1>2, <1>3, <1>4, <1>5, <1>8, <1>9 DEF Next, verify, restart, settle, databaseVars, vars

\* A job that was completed, failed or cancelled is never touched again, by no
\* late worker and no reconciliation, for any number of jobs and gateways.
THEOREM EndedJobsStand == Spec => OutcomesStand
<1>1. QED
  BY InitInv, StepInv, StepKeepsOutcomes, PTL DEF Spec, OutcomesStand

-----------------------------------------------------------------------------
(* What is sent was approved *)

Undecided == {"awaiting_approval", "cancelled"}

\* Another operator has approved the job.
Approved(j) ==
    /\ jobs[j] # None /\ jobs[j].state \notin Undecided
    /\ jobs[j].approver \notin {None, jobs[j].requester}

\* Whoever works on a job and whatever was sent for it, it was approved; and a
\* worker submits under the configuration of the request.
Authorized ==
    /\ \A j \in Jobs : jobs[j] # None /\ jobs[j].state \notin Undecided => Approved(j)
    /\ \A j \in Jobs : posts[j] > 0 => Approved(j)
    /\ \A g \in Gateways :
          /\ work[g].pc # "idle" => Approved(work[g].job)
          /\ work[g].pc = "exchange" => Unchanged(g, work[g].job)
          /\ work[g].pc = "finish" => work[g].result \notin Undecided

\* A step keeps what a request was made for, and approval.
RowsKept ==
    \A k \in Jobs :
        /\ jobs[k] # None => /\ jobs'[k] # None
                             /\ jobs'[k].connector = jobs[k].connector
                             /\ jobs'[k].config = jobs[k].config
        /\ Approved(k) => Approved(k)'
        /\ jobs'[k] # None /\ jobs'[k].state \notin Undecided => Approved(k)'

LEMMA SameRowsKept ==
    ASSUME Authorized, jobs' = jobs
    PROVE  RowsKept
BY DEF Authorized, RowsKept, Approved

LEMMA UpdateRowsKept ==
    ASSUME TypeOK, Authorized, NEW j \in Jobs, jobs[j] # None, NEW row \in Job, Updated(j, row),
           row.connector = jobs[j].connector, row.config = jobs[j].config,
           \/ row.state \in Undecided /\ ~ Approved(j)
           \/ row.state \notin Undecided /\ row.approver \notin {None, row.requester}
    PROVE  RowsKept
<1> DEFINE new == [row EXCEPT !.revision = @ + 1]
<1>1. /\ new \in Job /\ new.connector = row.connector /\ new.config = row.config
      /\ new.state = row.state /\ new.approver = row.approver /\ new.requester = row.requester
  BY DEF Job
<1> HIDE DEF new
<1>2. jobs' = [jobs EXCEPT ![j] = new]
  BY DEF Updated, new
<1>3. \A k \in Jobs : jobs'[k] = IF k = j THEN new ELSE jobs[k]
  BY <1>2 DEF TypeOK
<1>4. new # None
  BY <1>1, ExternalResponseAssumption
<1>5. QED
  BY <1>1, <1>3, <1>4 DEF RowsKept, Approved, Authorized

\* What is asked of a step: a worker that goes on keeps its process's
\* configuration and works on an approved job.
Proceeds(h) ==
    /\ \A c \in Connectors : config'[<<h, c>>] = config[<<h, c>>]
    /\ \/ work'[h] = work[h]
       \/ /\ work'[h].job \in Jobs /\ Approved(work'[h].job)
          /\ work'[h].pc = "exchange" => Unchanged(h, work'[h].job)
          /\ work'[h].pc = "finish" => work'[h].result \notin Undecided

LEMMA AuthorizedKeeps ==
    ASSUME IInv, TypeOK', Authorized, RowsKept,
           \A h \in Gateways : work'[h].pc = "idle" \/ Proceeds(h),
           \A k \in Jobs : posts'[k] # posts[k] => Approved(k)
    PROVE  Authorized'
<1>1. \A k \in Jobs : posts'[k] > 0 => Approved(k)'
  BY DEF Authorized, RowsKept, Approved
<1>2. ASSUME NEW h \in Gateways, NEW k \in Jobs, work'[h].pc # "idle", work'[h].job = k
      PROVE  /\ Approved(k)'
             /\ work'[h].pc = "exchange" => Unchanged(h, k)'
             /\ work'[h].pc = "finish" => work'[h].result \notin Undecided
  <2>1. Proceeds(h)
    BY <1>2
  <2>2. /\ Approved(k)
        /\ work'[h].pc = "exchange" => Unchanged(h, k)
        /\ work'[h].pc = "finish" => work'[h].result \notin Undecided
    BY <1>2, <2>1 DEF Proceeds, Authorized
  <2>3. jobs[k] \in Job
    BY <2>2 DEF IInv, TypeOK, Approved
  <2>4. jobs[k].connector \in Connectors
    BY <2>3 DEF Job
  <2>5. QED
    BY <2>1, <2>2, <2>4 DEF RowsKept, Proceeds, Unchanged, Current, Approved
<1>3. \A k \in Jobs : (jobs[k] # None /\ jobs[k].state \notin Undecided)' => Approved(k)'
  BY DEF RowsKept, Approved
<1>4. \A h \in Gateways : work'[h].pc # "idle" => work'[h].job \in Jobs
  BY DEF TypeOK
<1>5. QED
  BY <1>1, <1>2, <1>3, <1>4 DEF Authorized, Approved, Unchanged, Current

\* A worker that goes on with the job it has.
LEMMA MoveProceeds ==
    ASSUME IInv, Authorized, NEW g \in Gateways, work[g].pc # "idle",
           NEW pc, NEW operation, NEW result, Moves(g, pc, operation, result),
           pc = "exchange" => Unchanged(g, work[g].job),
           pc = "finish" => result \notin Undecided,
           UNCHANGED config
    PROVE  \A h \in Gateways : Proceeds(h)
<1>1. work[g].job \in Jobs /\ Approved(work[g].job)
  BY DEF IInv, TypeOK, Authorized
<1>2. /\ work'[g].pc = pc /\ work'[g].result = result /\ work'[g].job = work[g].job
      /\ \A h \in Gateways : h # g => work'[h] = work[h]
  BY DEF Moves
<1>3. QED
  BY <1>1, <1>2 DEF Proceeds

LEMMA OperatorsAuthorize ==
    ASSUME IInv, IInv', Authorized, NEW j \in Jobs, NEW actor \in Operators,
           \/ \E g \in Gateways, name \in Connectors : create(g, j, actor, name)
           \/ \E g \in Gateways : approve(g, j, actor) \/ verify(g, j, actor)
           \/ cancel(j, actor)
    PROVE  Authorized'
<1>1. TypeOK /\ TypeOK' /\ actor # None
  BY ExternalResponseAssumption DEF IInv
<1>2. UNCHANGED <<config, work, posts>>
  BY DEF create, approve, verify, cancel, processVars, providerVars, databaseVars
<1>3. RowsKept
  <2>1. ASSUME NEW g \in Gateways, NEW name \in Connectors, create(g, j, actor, name)
        PROVE  RowsKept
    <3> DEFINE row == [state |-> "awaiting_approval", requester |-> actor, approver |-> None,
                       connector |-> name, config |-> config[<<g, name>>],
                       attempts |-> 0, revision |-> 0, lease |-> None]
    <3>1. jobs[j] = None /\ jobs' = [jobs EXCEPT ![j] = row] /\ row.state \in Undecided
      BY <2>1 DEF create, Undecided
    <3> HIDE DEF row
    <3>2. \A k \in Jobs : jobs'[k] = IF k = j THEN row ELSE jobs[k]
      BY <1>1, <3>1 DEF TypeOK
    <3>3. QED
      BY <3>1, <3>2 DEF RowsKept, Approved, Authorized
  <2>2. ASSUME NEW g \in Gateways, approve(g, j, actor)
        PROVE  RowsKept
    <3> DEFINE row == [jobs[j] EXCEPT !.state = "ready", !.approver = actor]
    <3>1. jobs[j] \in Job /\ jobs[j] # None /\ Updated(j, row) /\ actor # jobs[j].requester
      BY <1>1, <2>2 DEF approve, MayApprove, TypeOK
    <3>2. /\ row \in Job /\ row.connector = jobs[j].connector /\ row.config = jobs[j].config
          /\ row.state \notin Undecided /\ row.approver \notin {None, row.requester}
      BY <1>1, <3>1 DEF Job, JobStates, Undecided
    <3> HIDE DEF row
    <3>3. QED
      BY <1>1, <3>1, <3>2, UpdateRowsKept
  <2>3. ASSUME cancel(j, actor)
        PROVE  RowsKept
    <3> DEFINE row == [jobs[j] EXCEPT !.state = "cancelled", !.approver = actor]
    <3>1. jobs[j] \in Job /\ jobs[j] # None /\ Updated(j, row) /\ ~ Approved(j)
      BY <1>1, <2>3 DEF cancel, TypeOK, Approved, Undecided
    <3>2. /\ row \in Job /\ row.connector = jobs[j].connector /\ row.config = jobs[j].config
          /\ row.state \in Undecided
      BY <1>1, <3>1 DEF Job, JobStates, Undecided
    <3> HIDE DEF row
    <3>3. QED
      BY <1>1, <3>1, <3>2, UpdateRowsKept
  <2>4. ASSUME NEW g \in Gateways, verify(g, j, actor)
        PROVE  RowsKept
    BY <2>4, SameRowsKept DEF verify, databaseVars
  <2>5. QED
    BY <2>1, <2>2, <2>3, <2>4
<1>4. QED
  BY <1>1, <1>2, <1>3, AuthorizedKeeps DEF Proceeds

LEMMA ClaimAuthorizes ==
    ASSUME IInv, IInv', Authorized, NEW g \in Gateways, NEW j \in Jobs, claim(g, j)
    PROVE  Authorized'
<1>1. TypeOK /\ TypeOK' /\ jobs[j] \in Job /\ jobs[j] # None /\ Approved(j)
  BY DEF IInv, TypeOK, claim, Claimable, Authorized, Undecided
<1>2. UNCHANGED <<config, posts>>
  BY DEF claim, providerVars
<1>3. CASE GiveUp(g, j)
  <2> DEFINE row == [jobs[j] EXCEPT !.state = GivenUp(g, j)]
  <2>1. /\ row \in Job /\ row.connector = jobs[j].connector /\ row.config = jobs[j].config
        /\ row.state \notin Undecided /\ row.approver \notin {None, row.requester}
    BY <1>1 DEF Job, JobStates, GivenUp, Undecided, Approved
  <2>2. Updated(j, row) /\ UNCHANGED work
    BY <1>3 DEF GiveUp
  <2> HIDE DEF row
  <2>3. RowsKept
    BY <1>1, <2>1, <2>2, UpdateRowsKept
  <2>4. QED
    BY <1>1, <1>2, <2>2, <2>3, AuthorizedKeeps DEF Proceeds
<1>4. CASE Take(g, j)
  <2> DEFINE lease == jobs[j].revision + 1
             row   == [jobs[j] EXCEPT !.state = "running", !.lease = lease,
                                      !.attempts = jobs[j].attempts + 1]
             held  == [pc |-> "claimed", job |-> j, lease |-> lease,
                       attempt |-> jobs[j].attempts + 1, operation |-> None, result |-> None]
  <2>1. lease \in Nat /\ jobs[j].attempts + 1 \in Nat
    BY <1>1 DEF Job
  <2>2. /\ row \in Job /\ row.connector = jobs[j].connector /\ row.config = jobs[j].config
        /\ row.state \notin Undecided /\ row.approver \notin {None, row.requester}
    BY <1>1, <2>1 DEF Job, JobStates, Undecided, Approved
  <2>3. held.pc = "claimed" /\ held.job = j
    OBVIOUS
  <2>4. Updated(j, row) /\ work' = [work EXCEPT ![g] = held]
    BY <1>4 DEF Take
  <2> HIDE DEF row, held, lease
  <2>5. RowsKept
    BY <1>1, <2>2, <2>4, UpdateRowsKept
  <2>6. \A h \in Gateways : Proceeds(h)
    BY <1>1, <1>2, <2>3, <2>4 DEF Proceeds, TypeOK
  <2>7. QED
    BY <1>1, <1>2, <2>5, <2>6, AuthorizedKeeps
<1>5. QED
  BY <1>3, <1>4 DEF claim

LEMMA ResultAuthorizes ==
    ASSUME IInv, IInv', Authorized, NEW g \in Gateways, finish(g)
    PROVE  Authorized'
<1> DEFINE j   == work[g].job
           row == [jobs[j] EXCEPT !.state = work[g].result, !.lease = None]
<1>1. TypeOK /\ TypeOK' /\ j \in Jobs /\ jobs[j] \in Job /\ jobs[j] # None /\ Approved(j)
  BY DEF IInv, TypeOK, Known, finish, Authorized
<1>2. work[g].result \in JobStates /\ work[g].result \notin Undecided
  BY DEF IInv, Known, finish, Authorized
<1>3. /\ row \in Job /\ row.connector = jobs[j].connector /\ row.config = jobs[j].config
      /\ row.state \notin Undecided /\ row.approver \notin {None, row.requester}
  BY <1>1, <1>2 DEF Job, Approved
<1>4. UNCHANGED <<config, posts>> /\ work' = [work EXCEPT ![g] = Idle]
  BY DEF finish, providerVars
<1>5. Updated(j, row) \/ UNCHANGED jobs
  BY DEF finish
<1> HIDE DEF row, j
<1>6. RowsKept
  BY <1>1, <1>3, <1>5, UpdateRowsKept, SameRowsKept
<1>7. Idle.pc = "idle" /\ \A h \in Gateways : work'[h] = IF h = g THEN Idle ELSE work[h]
  BY <1>1, <1>4 DEF TypeOK, Idle
<1>8. \A h \in Gateways : work'[h].pc = "idle" \/ Proceeds(h)
  BY <1>4, <1>7 DEF Proceeds
<1>9. QED
  BY <1>1, <1>4, <1>6, <1>8, AuthorizedKeeps

LEMMA ReconcileAuthorizes ==
    ASSUME IInv, IInv', Authorized, NEW g \in Gateways, reconcile(g)
    PROVE  Authorized'
<1> DEFINE j     == review[g].job
           state == JobState(VendorState(review[g].status))
           row   == [jobs[j] EXCEPT !.state = state, !.attempts = 0, !.lease = None]
<1>1. TypeOK /\ TypeOK' /\ j \in Jobs /\ jobs[j] \in Job /\ jobs[j] # None
  BY DEF IInv, TypeOK, Known, reconcile, Answer
<1>2. state \in JobStates \ Undecided
  <2>1. review[g].status \in Statuses
    BY <1>1 DEF reconcile, TypeOK, Answer
  <2>2. VendorState(review[g].status) \in {"completed", "pending", "failed"}
    BY <2>1, VendorStateType
  <2>3. QED
    BY <2>2 DEF JobState, JobStates, Undecided
<1>3. UNCHANGED <<config, work, posts>>
  BY DEF reconcile, providerVars
<1>4. UNCHANGED jobs \/ (Updated(j, row) /\ CurrentRow(g))
  BY DEF reconcile, databaseVars
<1> HIDE DEF state
<1>5. CASE Updated(j, row) /\ CurrentRow(g)
  <2>1. Approved(j)
    BY <1>1, <1>5 DEF CurrentRow, Authorized, Undecided
  <2>2. /\ row \in Job /\ row.connector = jobs[j].connector /\ row.config = jobs[j].config
        /\ row.state \notin Undecided /\ row.approver \notin {None, row.requester}
    BY <1>1, <1>2, <2>1 DEF Job, Approved
  <2> HIDE DEF row, j
  <2>3. RowsKept
    BY <1>1, <1>5, <2>2, UpdateRowsKept
  <2>4. QED
    BY <1>1, <1>3, <2>3, AuthorizedKeeps DEF Proceeds
<1>6. CASE UNCHANGED jobs
  BY <1>1, <1>3, <1>6, SameRowsKept, AuthorizedKeeps DEF Proceeds
<1>7. QED
  BY <1>4, <1>5, <1>6

\* Steps outside of the database: only send and submit reach the provider.
LEMMA ExchangeAuthorizes ==
    ASSUME IInv, IInv', Authorized, NEW g \in Gateways,
           \/ refuse(g) \/ send(g) \/ intend(g) \/ submit(g) \/ poll(g) \/ save(g) \/ fault(g)
    PROVE  /\ Authorized'
           /\ \A k \in Jobs : posts'[k] # posts[k] => work[g].job = k /\ Unchanged(g, k)
<1> DEFINE j == work[g].job
<1>1. TypeOK /\ TypeOK' /\ work[g].pc # "idle" /\ j \in Jobs /\ Approved(j)
  BY DEF IInv, TypeOK, Authorized, refuse, send, intend, submit, poll, save, fault
<1>2. UNCHANGED <<config, jobs>>
  BY DEF refuse, send, intend, submit, poll, save, fault, databaseVars
<1>3. RowsKept
  BY <1>2, SameRowsKept
<1>4. \A k \in Jobs : posts'[k] # posts[k] => k = j /\ Unchanged(g, k)
  <2>1. CASE send(g) \/ submit(g)
    <3>1. Unchanged(g, j)
      BY <2>1 DEF send, submit, MaySend, Authorized
    <3>2. posts' = posts \/ posts' = [posts EXCEPT ![j] = posts[j] + 1]
      BY <2>1 DEF send, submit, Deliver, providerVars
    <3>3. QED
      BY <1>1, <3>1, <3>2 DEF TypeOK
  <2>2. CASE refuse(g) \/ intend(g) \/ poll(g) \/ save(g) \/ fault(g)
    BY <2>2 DEF refuse, intend, poll, save, fault, providerVars
  <2>3. QED
    BY <2>1, <2>2
<1>5. \/ \E state \in JobStates \ Undecided : Outcome(g, state)
      \/ \E operation \in Nat \cup {None}, state \in VendorStates : Record(g, operation, state)
      \/ \E operation \in Nat \cup {None} : Exchange(g, operation) /\ Unchanged(g, j)
  <2>1. AfterFault(g) \in JobStates \ Undecided
    BY DEF AfterFault, JobStates, Undecided
  <2>2. {"completed", "failed", "uncertain", "ready"} \subseteq JobStates \ Undecided
    BY DEF JobStates, Undecided
  <2>3. CASE refuse(g) \/ send(g) \/ fault(g)
    BY <2>1, <2>2, <2>3 DEF refuse, send, fault, Unperformed
  <2>4. CASE intend(g)
    <3>1. CASE FirstIntent(j)
      BY <2>4, <3>1 DEF intend, MaySend
    <3>2. CASE ~ FirstIntent(j)
      <4>1. ops[j] \in Operation
        BY <1>1, <3>2 DEF TypeOK, FirstIntent
      <4>2. ops[j].operation \in Nat \cup {None} /\ ops[j].state \in VendorStates
        BY <4>1 DEF Operation
      <4>3. \/ Outcome(g, "failed") \/ Exchange(g, ops[j].operation) \/ Outcome(g, "uncertain")
            \/ Outcome(g, "completed")
        BY <2>4, <3>2, <4>2 DEF intend, VendorStates
      <4>4. QED
        BY <2>2, <2>4, <4>2, <4>3 DEF intend, MaySend
    <3>3. QED
      BY <3>1, <3>2
  <2>5. CASE submit(g) \/ poll(g)
    <3>1. \A s \in Statuses : VendorState(s) \in VendorStates
      BY VendorStateType DEF VendorStates
    <3>2. "uncertain" \in VendorStates /\ remote[j] \in Seq(Statuses) /\ Len(remote[j]) + 1 \in Nat
      BY <1>1 DEF VendorStates, TypeOK
    <3>3. CASE submit(g)
      BY <3>1, <3>2, <3>3 DEF submit
    <3>4. CASE poll(g)
      <4>1. work[g].operation \in DOMAIN remote[j]
        BY <1>1, <3>4 DEF poll, IInv, Known
      <4>2. work[g].operation \in Nat /\ remote[j][work[g].operation] \in Statuses
        BY <3>2, <4>1
      <4>3. QED
        BY <2>2, <3>1, <3>4, <4>2 DEF poll
    <3>5. QED
      BY <2>5, <3>3, <3>4
  <2>6. CASE save(g)
    <3>1. work[g].result \in {"uncertain", "pending", "completed", "failed"}
      BY <2>6 DEF save, IInv, Known
    <3>2. JobState(work[g].result) \in JobStates \ Undecided
      BY <3>1 DEF JobState, JobStates, Undecided
    <3>3. QED
      BY <2>6, <3>2 DEF save
  <2>7. QED
    BY <2>3, <2>4, <2>5, <2>6
<1>6. \A h \in Gateways : Proceeds(h)
  <2>1. CASE \E state \in JobStates \ Undecided : Outcome(g, state)
    BY <1>1, <1>2, <2>1, OutcomeMoves, MoveProceeds
  <2>2. CASE \E operation \in Nat \cup {None}, state \in VendorStates : Record(g, operation, state)
    BY <1>1, <1>2, <2>2, RecordMoves, MoveProceeds
  <2>3. CASE \E operation \in Nat \cup {None} : Exchange(g, operation) /\ Unchanged(g, j)
    BY <1>1, <1>2, <2>3, ExchangeMoves, MoveProceeds
  <2>4. QED
    BY <1>5, <2>1, <2>2, <2>3
<1>7. QED
  BY <1>1, <1>3, <1>4, <1>6, AuthorizedKeeps

\* A step of a gateway that leaves tables and provider alone and works on
\* nothing new.
LEMMA PauseAuthorizes ==
    ASSUME IInv, IInv', Authorized, UNCHANGED <<jobs, posts>>,
           \A h \in Gateways : work'[h].pc = "idle" \/ Proceeds(h)
    PROVE  Authorized'
<1>1. RowsKept
  BY SameRowsKept
<1>2. QED
  BY <1>1, AuthorizedKeeps DEF IInv

LEMMA StepAuthorizes ==
    ASSUME IInv, Authorized, [Next]_vars
    PROVE  Authorized' /\ SendsAsApproved
<1>1. IInv' /\ TypeOK /\ TypeOK'
  BY StepInv DEF IInv
<1>2. \A k \in Jobs : Authorized' /\ posts'[k] > 0 => Approved(k)'
  BY DEF Authorized
<1>3. ASSUME Authorized',
             \A k \in Jobs : posts'[k] # posts[k] => \E g \in Gateways : work[g].job = k /\ Unchanged(g, k)
      PROVE  SendsAsApproved
  BY <1>2, <1>3 DEF SendsAsApproved, Approved, Undecided
<1>4. ASSUME UNCHANGED <<jobs, posts>>,
             \A h \in Gateways : work'[h].pc = "idle" \/ Proceeds(h)
      PROVE  Authorized' /\ SendsAsApproved
  BY <1>1, <1>3, <1>4, PauseAuthorizes
<1>5. ASSUME NEW g \in Gateways, NEW j \in Jobs, NEW actor \in Operators,
             \/ \E name \in Connectors : create(g, j, actor, name)
             \/ approve(g, j, actor) \/ verify(g, j, actor) \/ cancel(j, actor)
      PROVE  Authorized' /\ SendsAsApproved
  BY <1>1, <1>3, <1>5, OperatorsAuthorize
     DEF create, approve, verify, cancel, providerVars
<1>6. ASSUME NEW j \in Jobs, NEW actor \in Operators, cancel(j, actor)
      PROVE  Authorized' /\ SendsAsApproved
  BY <1>1, <1>3, <1>6, OperatorsAuthorize DEF cancel, providerVars
<1>7. ASSUME NEW g \in Gateways, tick(g)
      PROVE  Authorized' /\ SendsAsApproved
  <2>1. CASE abandon(g)
    <3>1. \A h \in Gateways : work'[h].pc = "idle" \/ Proceeds(h)
      BY <1>1, <2>1 DEF abandon, Proceeds, TypeOK, Idle
    <3>2. QED
      BY <1>4, <2>1, <3>1 DEF abandon, databaseVars, providerVars
  <2>2. ASSUME NEW j \in Jobs, claim(g, j)
        PROVE  Authorized' /\ SendsAsApproved
    BY <1>1, <1>3, <2>2, ClaimAuthorizes DEF claim, providerVars
  <2>3. CASE finish(g)
    BY <1>1, <1>3, <2>3, ResultAuthorizes DEF finish, providerVars
  <2>4. CASE refuse(g) \/ send(g) \/ intend(g) \/ submit(g) \/ poll(g) \/ save(g) \/ fault(g)
    BY <1>1, <1>3, <2>4, ExchangeAuthorizes
  <2>5. QED
    BY <1>7, <2>1, <2>2, <2>3, <2>4 DEF tick
<1>8. ASSUME NEW g \in Gateways, reconcile(g)
      PROVE  Authorized' /\ SendsAsApproved
  BY <1>1, <1>3, <1>8, ReconcileAuthorizes DEF reconcile, providerVars
<1>9. ASSUME NEW g \in Gateways, NEW files \in Files, restart(g, files)
      PROVE  Authorized' /\ SendsAsApproved
  <2>1. \A h \in Gateways, c \in Connectors : h # g => config'[<<h, c>>] = config[<<h, c>>]
    BY <1>9 DEF restart
  <2>2. \A h \in Gateways : work'[h] = IF h = g THEN Idle ELSE work[h]
    BY <1>1, <1>9 DEF restart, TypeOK
  <2>3. \A h \in Gateways : work'[h].pc = "idle" \/ Proceeds(h)
    BY <2>1, <2>2 DEF Proceeds, Idle
  <2>4. QED
    BY <1>4, <1>9, <2>3 DEF restart, databaseVars, providerVars
<1>10. ASSUME NEW j \in Jobs, NEW o \in DOMAIN remote[j], settle(j, o)
       PROVE  Authorized' /\ SendsAsApproved
  BY <1>4, <1>10 DEF settle, databaseVars, processVars, Proceeds
<1>11. CASE UNCHANGED vars
  BY <1>4, <1>11 DEF vars, Proceeds
<1>12. QED
  BY <1>5, <1>6, <1>7, <1>8, <1>9, <1>10, <1>11 DEF Next

LEMMA InitAuthorized == Init => Authorized
BY DEF Init, Authorized, Idle

\* Nothing reaches a provider that another operator than the requester did not
\* approve, or under another configuration than the request's, whatever is
\* restarted with other files, cancelled or claimed late.
THEOREM ApprovedOnly == Spec => SentAsApproved
<1>1. Init => IInv /\ Authorized
  BY InitInv, InitAuthorized
<1>2. IInv /\ Authorized /\ [Next]_vars => (IInv /\ Authorized)' /\ SendsAsApproved
  BY StepInv, StepAuthorizes
<1>3. QED
  BY <1>1, <1>2, PTL DEF Spec, SentAsApproved

-----------------------------------------------------------------------------
(* What is recorded is what the provider did *)

Done(j) == \E o \in DOMAIN remote[j] : remote[j][o] = "Succeeded"

\* A Defender job has one action at most, and an endpoint's actions succeeded.
ActionsKnown ==
    \A j \in Jobs :
        /\ IsDefender(j) => Len(remote[j]) <= posts[j]
        /\ jobs[j] # None /\ ~ IsDefender(j) =>
              \A o \in DOMAIN remote[j] : remote[j][o] = "Succeeded"

JobReal(j) ==
    jobs[j] # None /\ jobs[j].state = "completed" =>
        /\ Done(j)
        /\ IsDefender(j) => ops[j] # None /\ ops[j].state = "completed"

ReceiptReal(j) ==
    ops[j] # None =>
        /\ ops[j].state = "completed" => remote[j][ops[j].operation] = "Succeeded"
        /\ ops[j].state = "failed" => remote[j][ops[j].operation] = "Failed"

\* A worker holds the last lease that was given for its job or an older one, and
\* is about to record what the provider said.  The receipt agrees as long as the
\* lease lasts, since only a reconciliation could replace it.
WorkReal(g, j) ==
    /\ work[g].lease \in Nat /\ work[g].lease <= jobs[j].revision
    /\ work[g].pc \in {"exchange", "save"} => IsDefender(j) /\ ops[j] # None
    /\ work[g].pc = "save" =>
          /\ work[g].result = "completed" => remote[j][work[g].operation] = "Succeeded"
          /\ work[g].result = "failed" => remote[j][work[g].operation] = "Failed"
    /\ work[g].pc = "finish" =>
          /\ work[g].result # "running"
          /\ work[g].result = "completed" =>
                /\ Done(j)
                /\ IsDefender(j) /\ HoldsLease(g) => ops[j] # None /\ ops[j].state = "completed"

ReviewReal(g) ==
    review[g] # None /\ review[g].status # "Pending" =>
        remote[review[g].job][review[g].operation] = review[g].status

Truthful ==
    /\ ActionsKnown
    /\ \A j \in Jobs : JobReal(j) /\ ReceiptReal(j)
    /\ \A g \in Gateways, j \in Jobs : work[g].pc # "idle" /\ work[g].job = j => WorkReal(g, j)
    /\ \A g \in Gateways : ReviewReal(g)

\* Actions do not vanish, and what was settled stays.
Monotone ==
    \A k \in Jobs :
        /\ DOMAIN remote[k] \subseteq DOMAIN remote'[k]
        /\ \A o \in DOMAIN remote[k] :
              remote[k][o] # "Pending" => remote'[k][o] = remote[k][o]

\* Rows only advance, and a completed one has a reason.
Advances(k) ==
    /\ jobs[k] # None => /\ jobs'[k] # None /\ jobs'[k].config = jobs[k].config
                         /\ jobs'[k].revision >= jobs[k].revision
    /\ \/ jobs'[k] = jobs[k]
       \/ jobs'[k] # None /\ jobs'[k].state # "completed"
       \/ /\ jobs[k] # None /\ Done(k)
          /\ IsDefender(k) => ops'[k] # None /\ ops'[k].state = "completed"

\* A receipt is kept or replaced by a genuine one; one that says completed only
\* gives way to another while the job is uncertain.
Receives(k) ==
    \/ ops'[k] = ops[k]
    \/ /\ ops[k] = None /\ ops'[k] # None /\ ops'[k].state = "submitting"
    \/ /\ ops'[k] # None /\ ReceiptReal(k)' /\ jobs[k] # None /\ jobs'[k] # None
       /\ \/ ops[k] # None /\ ops[k].state # "completed"
          \/ jobs[k].state = "uncertain" /\ jobs'[k].state # "running"
             /\ (jobs'[k].state = "completed" => ops'[k].state = "completed")

Remains(h) ==
    /\ work'[h] = work[h]
    /\ work[h].pc # "idle" /\ HoldsLease(h)' => HoldsLease(h)

\* The kinds of the jobs are those of their requests.
LEMMA KindKept ==
    ASSUME NEW k \in Jobs, jobs[k] # None, Advances(k)
    PROVE  jobs'[k] # None /\ (IsDefender(k)' <=> IsDefender(k))
BY DEF Advances, IsDefender

LEMMA DoneStays ==
    ASSUME NEW k \in Jobs, Monotone, Done(k)
    PROVE  Done(k)'
<1>1. PICK o \in DOMAIN remote[k] : remote[k][o] = "Succeeded"
  BY DEF Done
<1>2. o \in DOMAIN remote'[k] /\ remote'[k][o] = "Succeeded"
  BY <1>1 DEF Monotone
<1>3. QED
  BY <1>2 DEF Done

LEMMA JobRealKeeps ==
    ASSUME Truthful, Monotone, NEW k \in Jobs, Advances(k), Receives(k)
    PROVE  JobReal(k)'
<1>1. SUFFICES ASSUME jobs'[k] # None, jobs'[k].state = "completed"
               PROVE  Done(k)' /\ (IsDefender(k)' => ops'[k] # None /\ ops'[k].state = "completed")
  BY DEF JobReal
<1>2. CASE jobs'[k] = jobs[k]
  <2>1. Done(k) /\ (IsDefender(k) => ops[k] # None /\ ops[k].state = "completed")
    BY <1>1, <1>2 DEF Truthful, JobReal
  <2>2. IsDefender(k)' <=> IsDefender(k)
    BY <1>2 DEF IsDefender
  <2>3. IsDefender(k) => ops'[k] # None /\ ops'[k].state = "completed"
    BY <1>1, <1>2, <2>1 DEF Receives
  <2>4. QED
    BY <2>1, <2>2, <2>3, DoneStays
<1>3. CASE /\ jobs[k] # None /\ Done(k)
           /\ IsDefender(k) => ops'[k] # None /\ ops'[k].state = "completed"
  BY <1>3, KindKept, DoneStays
<1>4. QED
  BY <1>1, <1>2, <1>3 DEF Advances

LEMMA ReceiptRealKeeps ==
    ASSUME IInv, Truthful, Monotone, NEW k \in Jobs, Receives(k)
    PROVE  ReceiptReal(k)'
<1>1. CASE ops'[k] = ops[k]
  <2>1. ReceiptReal(k)
    BY DEF Truthful
  <2>2. ops[k] # None /\ ops[k].state \in {"completed", "failed"} =>
          ops[k].operation \in DOMAIN remote[k]
    BY DEF IInv, Known
  <2>3. QED
    BY <1>1, <2>1, <2>2 DEF ReceiptReal, Monotone
<1>2. CASE ops'[k] # None /\ ops'[k].state = "submitting"
  BY <1>2 DEF ReceiptReal
<1>3. QED
  BY <1>1, <1>2 DEF Receives

\* A receipt does not vanish, and while a worker keeps its lease it stays completed.
LEMMA WorkRealKeeps ==
    ASSUME IInv, TypeOK', Truthful, Monotone, NEW h \in Gateways, NEW k \in Jobs,
           Advances(k), Receives(k), Remains(h), work[h].pc # "idle", work[h].job = k
    PROVE  WorkReal(h, k)'
<1>1. WorkReal(h, k) /\ jobs[k] # None
  BY DEF Truthful, IInv, Known
<1>2. work'[h] = work[h] /\ (HoldsLease(h)' => HoldsLease(h))
  BY DEF Remains
<1>3. jobs[k] \in Job /\ jobs'[k] \in Job /\ jobs'[k].revision >= jobs[k].revision
  BY <1>1 DEF Advances, IInv, TypeOK
<1>4. IsDefender(k)' <=> IsDefender(k)
  BY <1>1, KindKept
<1>5. ops[k] # None => ops'[k] # None
  BY DEF Receives
<1>6. ASSUME HoldsLease(h)', ops[k] # None, ops[k].state = "completed"
      PROVE  ops'[k] # None /\ ops'[k].state = "completed"
  BY <1>2, <1>6 DEF Receives, HoldsLease
<1>7. work'[h].lease \in Nat /\ work'[h].lease <= jobs[k].revision
  BY <1>1, <1>2 DEF WorkReal
<1>8. work'[h].pc = "save" /\ work'[h].result \in {"completed", "failed"} =>
        work'[h].operation \in DOMAIN remote[k]
  BY <1>2 DEF IInv, Known
<1>9. /\ work'[h].pc \in {"exchange", "save"} => IsDefender(k)' /\ ops'[k] # None
      /\ work'[h].pc = "save" =>
            /\ work'[h].result = "completed" => remote'[k][work'[h].operation] = "Succeeded"
            /\ work'[h].result = "failed" => remote'[k][work'[h].operation] = "Failed"
  BY <1>1, <1>2, <1>4, <1>5, <1>8 DEF WorkReal, Monotone
<1>10. work'[h].lease <= jobs'[k].revision
  <2>1. jobs[k].revision \in Nat /\ jobs'[k].revision \in Nat
    BY <1>3 DEF Job
  <2>2. QED
    BY <1>3, <1>7, <2>1
<1>11. work'[h].pc = "finish" =>
          /\ work'[h].result # "running"
          /\ work'[h].result = "completed" =>
                /\ Done(k)'
                /\ IsDefender(k)' /\ HoldsLease(h)' => ops'[k] # None /\ ops'[k].state = "completed"
  BY <1>1, <1>2, <1>4, <1>6, DoneStays DEF WorkReal
<1>12. QED
  BY <1>7, <1>9, <1>10, <1>11 DEF WorkReal

\* A step whose rows advance, whose receipts are genuine and whose workers go on
\* or hold something genuine keeps everything true.
LEMMA TruthKeeps ==
    ASSUME IInv, IInv', Truthful, Monotone, ActionsKnown',
           \A k \in Jobs : Advances(k) /\ Receives(k),
           \A h \in Gateways : \/ work'[h].pc = "idle" \/ Remains(h)
                               \/ \A k \in Jobs : work'[h].job = k => WorkReal(h, k)',
           \A h \in Gateways : review'[h] = review[h] \/ ReviewReal(h)'
    PROVE  Truthful'
<1>1. TypeOK' /\ TypeOK
  BY DEF IInv
<1>2. \A k \in Jobs : JobReal(k)' /\ ReceiptReal(k)'
  BY JobRealKeeps, ReceiptRealKeeps
<1>3. ASSUME NEW h \in Gateways, NEW k \in Jobs, work'[h].pc # "idle", work'[h].job = k
      PROVE  WorkReal(h, k)'
  <2>1. CASE Remains(h)
    <3>1. work[h].pc # "idle" /\ work[h].job = k
      BY <1>3, <2>1 DEF Remains
    <3>2. QED
      BY <1>1, <2>1, <3>1, WorkRealKeeps
  <2>2. QED
    BY <1>3, <2>1
<1>4. ASSUME NEW h \in Gateways
      PROVE  ReviewReal(h)'
  <2>1. CASE review'[h] = review[h] /\ review[h] # None
    <3>1. ReviewReal(h)
      BY DEF Truthful
    <3>2. review[h].job \in Jobs /\ review[h].operation \in DOMAIN remote[review[h].job]
      BY <1>1, <2>1 DEF IInv, Known, TypeOK, Answer
    <3>3. QED
      BY <2>1, <3>1, <3>2 DEF ReviewReal, Monotone
  <2>2. QED
    BY <2>1 DEF ReviewReal
<1>5. QED
  BY <1>2, <1>3, <1>4 DEF Truthful

\* Without a delivery the provider's actions are known as before.
LEMMA ActionsKept ==
    ASSUME Truthful, UNCHANGED <<remote, posts>>,
           \A k \in Jobs : jobs'[k] # None => /\ jobs[k] # None
                                              /\ jobs'[k].config = jobs[k].config
    PROVE  Monotone /\ ActionsKnown'
<1>1. Monotone
  BY DEF Monotone
<1>2. ActionsKnown'
  BY DEF Truthful, ActionsKnown, IsDefender
<1>3. QED
  BY <1>1, <1>2

\* A step of operators or workers that only updates one row, in which no worker
\* gains a lease.
LEMMA RowTruth ==
    ASSUME IInv, IInv', Truthful, NEW j \in Jobs, jobs[j] # None, NEW row, Updated(j, row),
           row \in Job, row.config = jobs[j].config, row.revision = jobs[j].revision,
           row.state # "completed" \/ (Done(j) /\ (IsDefender(j) => ops'[j] # None /\ ops'[j].state = "completed"))
    PROVE  /\ \A k \in Jobs : Advances(k)
           /\ \A k \in Jobs : jobs'[k] # None => /\ jobs[k] # None
                                                 /\ jobs'[k].config = jobs[k].config
           /\ jobs'[j].state = row.state /\ jobs'[j].lease = row.lease
           /\ jobs'[j].revision = row.revision + 1
           /\ \A k \in Jobs : k # j => jobs'[k] = jobs[k]
<1> DEFINE new == [row EXCEPT !.revision = @ + 1]
<1>1. /\ new \in Job /\ new.config = row.config /\ new.state = row.state /\ new.lease = row.lease
      /\ new.revision = row.revision + 1 /\ row.revision \in Nat
  BY DEF Job
<1> HIDE DEF new
<1>2. jobs' = [jobs EXCEPT ![j] = new]
  BY DEF Updated, new
<1>3. TypeOK
  BY DEF IInv
<1>4. new # None
  BY <1>1, ExternalResponseAssumption
<1>5. \A k \in Jobs : jobs'[k] = IF k = j THEN new ELSE jobs[k]
  BY <1>2, <1>3 DEF TypeOK
<1>6. jobs[j] \in Job /\ new.revision >= jobs[j].revision
  <2>1. jobs[j] \in Job
    BY <1>3 DEF TypeOK
  <2>2. QED
    BY <1>1, <2>1
<1>7. ASSUME NEW k \in Jobs PROVE Advances(k)
  <2>1. CASE k = j
    BY <1>1, <1>4, <1>5, <1>6, <2>1 DEF Advances
  <2>2. CASE k # j
    <3>1. jobs[k] # None => jobs[k].revision \in Nat
      BY <1>3 DEF TypeOK, Job
    <3>2. QED
      BY <1>5, <2>2, <3>1 DEF Advances
  <2>3. QED
    BY <2>1, <2>2
<1>8. QED
  BY <1>1, <1>5, <1>7

\* Who loses a lease loses it to a row that is not running.
LEMMA Bystander ==
    ASSUME IInv, NEW h \in Gateways, work'[h] = work[h], NEW j \in Jobs,
           \A k \in Jobs : k # j => jobs'[k] = jobs[k],
           jobs'[j].state # "running" \/ work[h].job # j \/ jobs'[j].lease # work[h].lease
    PROVE  Remains(h)
<1>1. work[h].pc # "idle" => work[h].job \in Jobs
  BY DEF IInv, TypeOK
<1>2. QED
  BY <1>1 DEF Remains, HoldsLease

LEMMA CreateTrue ==
    ASSUME IInv, IInv', Truthful, NEW g \in Gateways, NEW j \in Jobs, NEW actor \in Operators,
           NEW name \in Connectors, create(g, j, actor, name)
    PROVE  Truthful'
<1> DEFINE row == [state |-> "awaiting_approval", requester |-> actor, approver |-> None,
                   connector |-> name, config |-> config[<<g, name>>],
                   attempts |-> 0, revision |-> 0, lease |-> None]
<1>1. /\ jobs[j] = None /\ jobs' = [jobs EXCEPT ![j] = row]
      /\ UNCHANGED <<config, ops, work, review, remote, posts>>
  BY DEF create, processVars, providerVars
<1>2. row.state = "awaiting_approval"
  OBVIOUS
<1> HIDE DEF row
<1>3. TypeOK /\ Known /\ TypeOK'
  BY DEF IInv
<1>4. /\ \A k \in Jobs : k # j => jobs'[k] = jobs[k]
      /\ jobs'[j] = row /\ jobs'[j].state # "completed" /\ jobs'[j].state # "running"
  BY <1>1, <1>2, <1>3 DEF TypeOK
<1>5. row # None
  <2>1. row \in Job
    <3>1. config[<<g, name>>] \in Configs
      BY <1>3 DEF create, TypeOK
    <3>2. QED
      BY <3>1 DEF row, Job, JobStates
  <2>2. QED
    BY <2>1, ExternalResponseAssumption
<1>6. \A k \in Jobs : jobs[k] # None => jobs[k].revision \in Nat
  BY <1>3 DEF TypeOK, Job
<1>7. \A k \in Jobs : Advances(k) /\ Receives(k)
  BY <1>1, <1>4, <1>5, <1>6 DEF Advances, Receives
<1>8. Monotone
  BY <1>1 DEF Monotone
<1>9. ActionsKnown'
  <2>1. posts[j] = 0 /\ remote[j] = <<>>
    BY <1>1, <1>3 DEF Known
  <2>2. Len(<<>>) = 0 /\ DOMAIN <<>> = {}
    OBVIOUS
  <2>3. \A k \in Jobs : k # j => (IsDefender(k)' <=> IsDefender(k))
    BY <1>4 DEF IsDefender
  <2>4. \A k \in Jobs : posts[k] \in Nat
    BY <1>3 DEF TypeOK
  <2>5. QED
    BY <1>1, <1>4, <2>1, <2>2, <2>3, <2>4 DEF Truthful, ActionsKnown
<1>10. \A h \in Gateways : Remains(h)
  BY <1>1, <1>4, Bystander
<1>11. QED
  BY <1>1, <1>7, <1>8, <1>9, <1>10, TruthKeeps

LEMMA DecisionTrue ==
    ASSUME IInv, IInv', Truthful, NEW j \in Jobs, NEW actor \in Operators,
           (\E g \in Gateways : approve(g, j, actor)) \/ cancel(j, actor)
    PROVE  Truthful'
<1>1. TypeOK /\ jobs[j] \in Job /\ jobs[j] # None
  BY DEF IInv, TypeOK, approve, cancel
<1>2. PICK state \in {"ready", "cancelled"} :
           Updated(j, [jobs[j] EXCEPT !.state = state, !.approver = actor])
  BY DEF approve, cancel
<1> DEFINE row == [jobs[j] EXCEPT !.state = state, !.approver = actor]
<1>3. /\ row \in Job /\ row.config = jobs[j].config /\ row.revision = jobs[j].revision
      /\ row.state # "completed" /\ row.state # "running" /\ Updated(j, row)
  BY <1>1, <1>2 DEF Job, JobStates
<1>4. UNCHANGED <<config, ops, work, review, remote, posts>>
  BY DEF approve, cancel, processVars, providerVars
<1> HIDE DEF row
<1>5. /\ \A k \in Jobs : Advances(k)
      /\ \A k \in Jobs : jobs'[k] # None => jobs[k] # None /\ jobs'[k].config = jobs[k].config
      /\ jobs'[j].state # "running"
      /\ \A k \in Jobs : k # j => jobs'[k] = jobs[k]
  BY <1>1, <1>3, RowTruth
<1>6. Monotone /\ ActionsKnown'
  BY <1>4, <1>5, ActionsKept
<1>7. \A h \in Gateways : Remains(h)
  BY <1>4, <1>5, Bystander
<1>8. QED
  BY <1>4, <1>5, <1>6, <1>7, TruthKeeps DEF Receives

LEMMA ClaimTrue ==
    ASSUME IInv, IInv', Truthful, NEW g \in Gateways, NEW j \in Jobs, claim(g, j)
    PROVE  Truthful'
<1>1. TypeOK /\ jobs[j] \in Job /\ jobs[j] # None /\ work[g].pc = "idle"
  BY DEF IInv, TypeOK, claim, Claimable
<1>2. UNCHANGED <<config, ops, review, remote, posts>>
  BY DEF claim, providerVars
<1>3. CASE GiveUp(g, j)
  <2> DEFINE row == [jobs[j] EXCEPT !.state = GivenUp(g, j)]
  <2>1. /\ row \in Job /\ row.config = jobs[j].config /\ row.revision = jobs[j].revision
        /\ row.state # "completed" /\ row.state # "running"
    BY <1>1 DEF Job, JobStates, GivenUp
  <2>2. Updated(j, row) /\ UNCHANGED work
    BY <1>3 DEF GiveUp
  <2> HIDE DEF row
  <2>3. /\ \A k \in Jobs : Advances(k)
        /\ \A k \in Jobs : jobs'[k] # None => jobs[k] # None /\ jobs'[k].config = jobs[k].config
        /\ jobs'[j].state # "running"
        /\ \A k \in Jobs : k # j => jobs'[k] = jobs[k]
    BY <1>1, <2>1, <2>2, RowTruth
  <2>4. Monotone /\ ActionsKnown'
    BY <1>2, <2>3, ActionsKept
  <2>5. \A h \in Gateways : Remains(h)
    BY <2>2, <2>3, Bystander
  <2>6. QED
    BY <1>2, <2>3, <2>4, <2>5, TruthKeeps DEF Receives
<1>4. CASE Take(g, j)
  <2> DEFINE lease == jobs[j].revision + 1
             row   == [jobs[j] EXCEPT !.state = "running", !.lease = lease,
                                      !.attempts = jobs[j].attempts + 1]
             held  == [pc |-> "claimed", job |-> j, lease |-> lease,
                       attempt |-> jobs[j].attempts + 1, operation |-> None, result |-> None]
  <2>1. jobs[j].revision \in Nat /\ lease \in Nat /\ jobs[j].attempts + 1 \in Nat
    BY <1>1 DEF Job
  <2>2. /\ row \in Job /\ row.config = jobs[j].config /\ row.revision = jobs[j].revision
        /\ row.state # "completed" /\ row.lease = lease
    BY <1>1, <2>1 DEF Job, JobStates
  <2>3. held.pc = "claimed" /\ held.job = j /\ held.lease = lease
    OBVIOUS
  <2>4. Updated(j, row) /\ work' = [work EXCEPT ![g] = held]
    BY <1>4 DEF Take
  <2>5. \A h \in Gateways : work'[h] = IF h = g THEN held ELSE work[h]
    BY <1>1, <2>4 DEF TypeOK
  <2> HIDE DEF row, held
  <2>6. /\ \A k \in Jobs : Advances(k)
        /\ \A k \in Jobs : jobs'[k] # None => jobs[k] # None /\ jobs'[k].config = jobs[k].config
        /\ jobs'[j].lease = lease /\ jobs'[j].revision = lease
        /\ \A k \in Jobs : k # j => jobs'[k] = jobs[k]
    BY <1>1, <2>2, <2>4, RowTruth
  <2>7. Monotone /\ ActionsKnown'
    BY <1>2, <2>6, ActionsKept
  <2>8. ASSUME NEW h \in Gateways, h # g
        PROVE  work'[h].pc = "idle" \/ Remains(h)
    <3>1. CASE work[h].pc = "idle"
      BY <2>5, <2>8, <3>1
    <3>2. CASE work[h].pc # "idle" /\ work[h].job = j
      <4>1. work[h].lease \in Nat /\ work[h].lease <= jobs[j].revision
        BY <3>2 DEF Truthful, WorkReal
      <4>2. work[h].lease # lease
        BY <2>1, <4>1
      <4>3. QED
        BY <2>5, <2>6, <2>8, <4>2, Bystander
    <3>3. CASE work[h].job # j
      BY <2>5, <2>6, <2>8, <3>3, Bystander
    <3>4. QED
      BY <3>1, <3>2, <3>3
  <2>9. \A k \in Jobs : work'[g].job = k => WorkReal(g, k)'
    BY <2>1, <2>3, <2>5, <2>6 DEF WorkReal
  <2>10. QED
    BY <1>2, <2>6, <2>7, <2>8, <2>9, TruthKeeps DEF Receives
<1>5. QED
  BY <1>3, <1>4 DEF claim

\* What a worker with a valid lease records is true.
LEMMA FinishTrue ==
    ASSUME IInv, IInv', Truthful, NEW g \in Gateways, finish(g)
    PROVE  Truthful'
<1> DEFINE j   == work[g].job
           row == [jobs[j] EXCEPT !.state = work[g].result, !.lease = None]
<1>1. /\ TypeOK /\ TypeOK' /\ j \in Jobs /\ jobs[j] \in Job /\ jobs[j] # None
      /\ work[g].result \in JobStates
  BY DEF IInv, TypeOK, Known, finish
<1>2. /\ UNCHANGED <<config, ops, review, remote, posts>>
      /\ \A h \in Gateways : work'[h] = IF h = g THEN Idle ELSE work[h]
  BY <1>1 DEF finish, providerVars, TypeOK
<1>3. Idle.pc = "idle"
  BY DEF Idle
<1>4. CASE HoldsLease(g)
  <2>1. Updated(j, row)
    BY <1>4 DEF finish
  <2>2. WorkReal(g, j) /\ work[g].pc = "finish"
    BY <1>1 DEF finish, Truthful
  <2>3. /\ row \in Job /\ row.config = jobs[j].config /\ row.revision = jobs[j].revision
        /\ row.state = work[g].result
    BY <1>1 DEF Job
  <2>4. row.state # "completed" \/ (Done(j) /\ (IsDefender(j) => ops'[j] # None /\ ops'[j].state = "completed"))
    BY <1>2, <1>4, <2>2, <2>3 DEF WorkReal
  <2>5. row.state # "running"
    BY <2>2, <2>3 DEF WorkReal
  <2> HIDE DEF row, j
  <2>6. /\ \A k \in Jobs : Advances(k)
        /\ \A k \in Jobs : jobs'[k] # None => jobs[k] # None /\ jobs'[k].config = jobs[k].config
        /\ jobs'[j].state # "running"
        /\ \A k \in Jobs : k # j => jobs'[k] = jobs[k]
    BY <1>1, <2>1, <2>3, <2>4, <2>5, RowTruth
  <2>7. Monotone /\ ActionsKnown'
    BY <1>2, <2>6, ActionsKept
  <2>8. \A h \in Gateways : work'[h].pc = "idle" \/ Remains(h)
    BY <1>1, <1>2, <1>3, <2>6, Bystander
  <2>9. QED
    BY <1>2, <2>6, <2>7, <2>8, TruthKeeps DEF Receives
<1>5. CASE ~ HoldsLease(g)
  <2>1. UNCHANGED jobs
    BY <1>5 DEF finish
  <2>2. \A k \in Jobs : jobs[k] # None => jobs[k].revision \in Nat
    BY <1>1 DEF TypeOK, Job
  <2>3. \A k \in Jobs : Advances(k) /\ Receives(k)
    BY <1>2, <2>1, <2>2 DEF Advances, Receives
  <2>4. Monotone /\ ActionsKnown'
    BY <1>2, <2>1, ActionsKept
  <2>5. \A h \in Gateways : work'[h].pc = "idle" \/ Remains(h)
    BY <1>2, <1>3, <2>1 DEF Remains, HoldsLease
  <2>6. QED
    BY <1>2, <2>3, <2>4, <2>5, TruthKeeps
<1>6. QED
  BY <1>4, <1>5

\* Steps in which the tables stay and workers go on, stop or hold what is true.
LEMMA ExchangeTrue ==
    ASSUME IInv, IInv', Truthful, Monotone, ActionsKnown', UNCHANGED jobs,
           \A k \in Jobs : Receives(k),
           \A h \in Gateways : \/ work'[h].pc = "idle" \/ work'[h] = work[h]
                               \/ \A k \in Jobs : work'[h].job = k => WorkReal(h, k)',
           \A h \in Gateways : review'[h] = review[h] \/ ReviewReal(h)'
    PROVE  Truthful'
<1>1. \A k \in Jobs : jobs[k] # None => jobs[k].revision \in Nat
  BY DEF IInv, TypeOK, Job
<1>2. \A k \in Jobs : Advances(k)
  BY <1>1 DEF Advances
<1>3. \A h \in Gateways : work'[h] = work[h] => Remains(h)
  BY DEF Remains, HoldsLease
<1>4. QED
  BY <1>2, <1>3, TruthKeeps

LEMMA VerifyTrue ==
    ASSUME IInv, IInv', Truthful, NEW g \in Gateways, NEW j \in Jobs, NEW actor \in Operators,
           verify(g, j, actor)
    PROVE  Truthful'
<1>1. UNCHANGED <<config, jobs, ops, work, remote, posts>>
  BY DEF verify, databaseVars, providerVars
<1>2. PICK o \in DOMAIN remote[j] :
           review' = [review EXCEPT ![g] = [job |-> j, revision |-> jobs[j].revision,
                                            operation |-> o, status |-> remote[j][o]]]
  BY DEF verify
<1> DEFINE answer == [job |-> j, revision |-> jobs[j].revision,
                      operation |-> o, status |-> remote[j][o]]
<1>3. answer.job = j /\ answer.operation = o /\ answer.status = remote[j][o]
  OBVIOUS
<1> HIDE DEF answer
<1>4. \A h \in Gateways : review'[h] = IF h = g THEN answer ELSE review[h]
  BY <1>2 DEF IInv, TypeOK, answer
<1>5. \A h \in Gateways : review'[h] = review[h] \/ ReviewReal(h)'
  BY <1>1, <1>3, <1>4 DEF ReviewReal
<1>6. Monotone /\ ActionsKnown'
  BY <1>1, ActionsKept
<1>7. QED
  BY <1>1, <1>5, <1>6, ExchangeTrue DEF Receives

LEMMA StopTrue ==
    ASSUME IInv, IInv', Truthful, NEW g \in Gateways, work' = [work EXCEPT ![g] = Idle],
           review' = review \/ review' = [review EXCEPT ![g] = None],
           UNCHANGED <<jobs, ops, remote, posts>>
    PROVE  Truthful'
<1>1. \A h \in Gateways : work'[h].pc = "idle" \/ work'[h] = work[h]
  BY DEF IInv, TypeOK, Idle
<1>2. \A h \in Gateways : review'[h] = review[h] \/ ReviewReal(h)'
  BY DEF IInv, TypeOK, ReviewReal
<1>3. Monotone /\ ActionsKnown'
  BY ActionsKept
<1>4. QED
  BY <1>1, <1>2, <1>3, ExchangeTrue DEF Receives

LEMMA SettleTrue ==
    ASSUME IInv, IInv', Truthful, NEW j \in Jobs, NEW o \in DOMAIN remote[j], settle(j, o)
    PROVE  Truthful'
<1>1. UNCHANGED <<config, jobs, ops, work, review, posts>> /\ remote[j][o] = "Pending"
  BY DEF settle, databaseVars, processVars
<1>2. PICK status \in {"Succeeded", "Failed"} : remote' = [remote EXCEPT ![j][o] = status]
  BY DEF settle
<1> DEFINE actions == [remote[j] EXCEPT ![o] = status]
<1>3. /\ DOMAIN actions = DOMAIN remote[j] /\ Len(actions) = Len(remote[j])
      /\ \A i \in DOMAIN remote[j] : remote[j][i] # "Pending" => actions[i] = remote[j][i]
  BY <1>1 DEF IInv, TypeOK
<1>4. remote' = [remote EXCEPT ![j] = actions]
  BY <1>2
<1> HIDE DEF actions
<1>5. \A k \in Jobs : remote'[k] = IF k = j THEN actions ELSE remote[k]
  BY <1>4 DEF IInv, TypeOK
<1>6. Monotone
  BY <1>3, <1>5 DEF Monotone
<1>7. ActionsKnown'
  <2>1. \A k \in Jobs : IsDefender(k)' <=> IsDefender(k)
    BY <1>1 DEF IsDefender
  <2>2. ASSUME jobs[j] # None, ~ IsDefender(j)
        PROVE  FALSE
    BY <1>1, <2>2 DEF Truthful, ActionsKnown
  <2>3. \A k \in Jobs : Len(remote'[k]) = Len(remote[k])
    BY <1>3, <1>5
  <2>4. QED
    BY <1>1, <1>5, <2>1, <2>2, <2>3 DEF Truthful, ActionsKnown
<1>8. QED
  BY <1>1, <1>6, <1>7, ExchangeTrue DEF Receives

\* A worker takes up a receipt or an exchange that is true.
LEMMA HoldTrue ==
    ASSUME IInv, IInv', Truthful, Monotone, ActionsKnown', UNCHANGED <<jobs, review>>,
           \A k \in Jobs : Receives(k),
           NEW g \in Gateways, NEW j \in Jobs, work[g].pc # "idle", work[g].job = j,
           NEW pc \in {"exchange", "save"}, NEW operation, NEW result,
           Moves(g, pc, operation, result), work'[g].lease = work[g].lease,
           IsDefender(j), ops'[j] # None,
           pc = "save" => /\ result = "completed" => remote'[j][operation] = "Succeeded"
                          /\ result = "failed" => remote'[j][operation] = "Failed"
    PROVE  Truthful'
<1>1. /\ work'[g].pc = pc /\ work'[g].operation = operation /\ work'[g].result = result
      /\ work'[g].job = j /\ \A h \in Gateways : h # g => work'[h] = work[h]
  BY DEF Moves
<1>2. WorkReal(g, j) /\ (IsDefender(j)' <=> IsDefender(j))
  BY DEF Truthful, IsDefender
<1>3. WorkReal(g, j)'
  BY <1>1, <1>2 DEF WorkReal
<1>4. QED
  BY <1>1, <1>3, ExchangeTrue

\* A worker is about to record an outcome that is true.
LEMMA OutcomeTrue ==
    ASSUME IInv, IInv', Truthful, Monotone, ActionsKnown', UNCHANGED <<jobs, review>>,
           \A k \in Jobs : Receives(k),
           NEW g \in Gateways, NEW j \in Jobs, work[g].pc # "idle", work[g].job = j,
           NEW state \in {"completed", "ready", "failed", "uncertain"}, Outcome(g, state),
           state = "completed" => \E o \in DOMAIN remote'[j] : remote'[j][o] = "Succeeded",
           state = "completed" /\ IsDefender(j) /\ HoldsLease(g) =>
              ops'[j] # None /\ ops'[j].state = "completed"
    PROVE  Truthful'
<1>1. work \in [Gateways -> Claimed] /\ WorkReal(g, j)
  BY DEF IInv, TypeOK, Truthful
<1>2. /\ work'[g].pc = "finish" /\ work'[g].result = state
      /\ work'[g].job = j /\ work'[g].lease = work[g].lease
      /\ \A h \in Gateways : h # g => work'[h] = work[h]
  BY <1>1 DEF Claimed, Outcome
<1>3. (IsDefender(j)' <=> IsDefender(j)) /\ (HoldsLease(g)' <=> HoldsLease(g))
  BY <1>2 DEF IsDefender, HoldsLease
<1>4. WorkReal(g, j)'
  BY <1>1, <1>2, <1>3 DEF WorkReal, Done
<1>5. QED
  BY <1>2, <1>4, ExchangeTrue

LEMMA FailureTrue ==
    ASSUME IInv, IInv', Truthful, NEW g \in Gateways, work[g].pc # "idle",
           NEW state \in {"ready", "failed", "uncertain"}, Outcome(g, state),
           UNCHANGED <<jobs, ops, review, remote, posts>>
    PROVE  Truthful'
<1>1. work[g].job \in Jobs
  BY DEF IInv, TypeOK
<1>2. Monotone /\ ActionsKnown'
  BY ActionsKept
<1>3. \A k \in Jobs : Receives(k)
  BY DEF Receives
<1>4. QED
  BY <1>1, <1>2, <1>3, OutcomeTrue

\* An endpoint's answer is that of an action it performed.
LEMMA SendTrue ==
    ASSUME IInv, IInv', Truthful, NEW g \in Gateways, send(g)
    PROVE  Truthful'
<1>0. PICK j \in Jobs : work[g].job = j
  BY DEF IInv, TypeOK, send
<1>1. /\ TypeOK /\ j \in Jobs /\ jobs[j] # None /\ ~ IsDefender(j) /\ work[g].pc = "claimed"
      /\ UNCHANGED <<config, jobs, ops, review>>
  BY <1>0, AdapterOfJob DEF send, databaseVars, IInv
<1>2. Unperformed(g) \subseteq {"ready", "failed"}
  BY DEF Unperformed, AfterFault
<1>3. CASE UNCHANGED providerVars /\ \E state \in Unperformed(g) : Outcome(g, state)
  BY <1>1, <1>2, <1>3, FailureTrue DEF providerVars
<1>4. ASSUME NEW actions \in {remote[j], Performed(j)}, Deliver(j, actions),
             NEW state \in {"completed", "ready", "failed"}, Outcome(g, state),
             state = "completed" => actions = Performed(j)
      PROVE  Truthful'
  <2>1. remote[j] \in Seq(Statuses) /\ \A i \in DOMAIN remote[j] : remote[j][i] = "Succeeded"
    BY <1>1 DEF TypeOK, Truthful, ActionsKnown
  <2>2. /\ DOMAIN remote[j] \subseteq DOMAIN actions
        /\ \A i \in DOMAIN actions : actions[i] = "Succeeded"
        /\ \A i \in DOMAIN remote[j] : actions[i] = remote[j][i]
        /\ actions = Performed(j) => 1 \in DOMAIN actions
    <3>1. CASE remote[j] = <<>>
      <4>1. DOMAIN remote[j] = {} /\ Performed(j) = <<"Succeeded">>
        BY <3>1 DEF Performed
      <4>2. actions = <<>> \/ actions = <<"Succeeded">>
        BY <3>1, <4>1
      <4>3. DOMAIN <<"Succeeded">> = {1} /\ <<"Succeeded">>[1] = "Succeeded" /\ DOMAIN <<>> = {}
            /\ <<>> # <<"Succeeded">>
        OBVIOUS
      <4>4. CASE actions = <<>>
        BY <4>1, <4>3, <4>4
      <4>5. CASE actions = <<"Succeeded">>
        BY <4>1, <4>3, <4>5
      <4>6. QED
        BY <4>2, <4>4, <4>5
    <3>2. CASE remote[j] # <<>>
      <4>1. actions = remote[j] /\ 1 \in DOMAIN remote[j]
        BY <2>1, <3>2 DEF Performed
      <4>2. QED
        BY <2>1, <4>1
    <3>3. QED
      BY <3>1, <3>2
  <2>3. /\ \A k \in Jobs : remote'[k] = IF k = j THEN actions ELSE remote[k]
        /\ \A k \in Jobs : k # j => posts'[k] = posts[k]
    BY <1>1, <1>4 DEF Deliver, TypeOK
  <2>4. Monotone
    BY <2>2, <2>3 DEF Monotone
  <2>5. ActionsKnown'
    <3>1. \A k \in Jobs : IsDefender(k)' <=> IsDefender(k)
      BY <1>1 DEF IsDefender
    <3>2. QED
      BY <1>1, <2>2, <2>3, <3>1 DEF Truthful, ActionsKnown
  <2>6. state = "completed" => \E o \in DOMAIN remote'[j] : remote'[j][o] = "Succeeded"
    BY <1>1, <1>4, <2>2, <2>3
  <2>7. \A k \in Jobs : Receives(k)
    BY <1>1 DEF Receives
  <2>8. QED
    BY <1>0, <1>1, <1>4, <2>4, <2>5, <2>6, <2>7, OutcomeTrue
<1>5. \/ UNCHANGED providerVars /\ \E state \in Unperformed(g) : Outcome(g, state)
      \/ \E actions \in {remote[j], Performed(j)}, state \in {"completed", "ready", "failed"} :
            /\ Deliver(j, actions) /\ Outcome(g, state)
            /\ state = "completed" => actions = Performed(j)
  BY <1>0, <1>2 DEF send
<1>6. QED
  BY <1>3, <1>4, <1>5

LEMMA RecordKeepsLease ==
    ASSUME IInv, NEW g \in Gateways, NEW operation, NEW state,
           Record(g, operation, state) \/ Exchange(g, operation)
    PROVE  work'[g].lease = work[g].lease
BY DEF Record, Exchange, IInv, TypeOK, Claimed

\* Each vendor state stands for one outcome of the provider.
LEMMA VendorStateReal ==
    ASSUME NEW s \in Statuses
    PROVE  /\ VendorState(s) = "completed" => s = "Succeeded"
           /\ VendorState(s) = "failed" => s = "Failed"
BY DEF Statuses, VendorState

LEMMA IntendTrue ==
    ASSUME IInv, IInv', Truthful, NEW g \in Gateways, intend(g)
    PROVE  Truthful'
<1>0. PICK j \in Jobs : work[g].job = j
  BY DEF IInv, TypeOK, intend
<1>1. /\ TypeOK /\ Known /\ jobs[j] # None /\ IsDefender(j) /\ work[g].pc = "claimed"
      /\ UNCHANGED <<config, jobs, review, remote, posts>>
  BY <1>0, AdapterOfJob DEF intend, providerVars, IInv
<1>2. Monotone /\ ActionsKnown'
  BY <1>1, ActionsKept
<1>3. CASE FirstIntent(j)
  <2> DEFINE intent == [state |-> "submitting", operation |-> None, config |-> Current(g, j)]
  <2>1. ops' = [ops EXCEPT ![j] = intent] /\ Exchange(g, None) /\ ops[j] = None
    BY <1>0, <1>3 DEF intend, FirstIntent
  <2>2. intent.state = "submitting"
    OBVIOUS
  <2> HIDE DEF intent
  <2>3. \A k \in Jobs : ops'[k] = IF k = j THEN intent ELSE ops[k]
    BY <1>1, <2>1 DEF TypeOK
  <2>4. intent # None
    <3>1. intent \in Operation
      BY <1>0, AdapterOfJob DEF intent, Operation, VendorStates, intend
    <3>2. QED
      BY <3>1, ExternalResponseAssumption
  <2>5. \A k \in Jobs : Receives(k)
    BY <2>1, <2>2, <2>3, <2>4 DEF Receives
  <2>6. Moves(g, "exchange", None, work[g].result) /\ work'[g].lease = work[g].lease
    BY <1>1, <2>1, ExchangeMoves, RecordKeepsLease
  <2>7. QED
    BY <1>0, <1>1, <1>2, <2>3, <2>4, <2>5, <2>6, HoldTrue
<1>4. CASE ~ FirstIntent(j)
  <2>1. ops' = ops /\ ops[j] # None /\ ops[j] \in Operation
    BY <1>0, <1>1, <1>4 DEF intend, FirstIntent, TypeOK
  <2>2. ops[j].operation \in Nat \cup {None} /\ ops[j].state \in VendorStates
    BY <2>1 DEF Operation
  <2>3. \A k \in Jobs : Receives(k)
    BY <2>1 DEF Receives
  <2>4. \/ Outcome(g, "failed") \/ Outcome(g, "uncertain")
        \/ Exchange(g, ops[j].operation)
        \/ Outcome(g, "completed") /\ ops[j].state = "completed"
    BY <1>0, <1>4, <2>2 DEF intend, VendorStates
  <2>5. CASE Outcome(g, "failed") \/ Outcome(g, "uncertain")
    BY <1>1, <2>1, <2>5, FailureTrue
  <2>6. CASE Exchange(g, ops[j].operation)
    <3>1. Moves(g, "exchange", ops[j].operation, work[g].result) /\ work'[g].lease = work[g].lease
      BY <1>1, <2>2, <2>6, ExchangeMoves, RecordKeepsLease
    <3>2. QED
      BY <1>0, <1>1, <1>2, <2>1, <2>3, <3>1, HoldTrue
  <2>7. CASE Outcome(g, "completed") /\ ops[j].state = "completed"
    <3>1. ops[j].operation \in DOMAIN remote[j] /\ remote[j][ops[j].operation] = "Succeeded"
      BY <1>1, <2>1, <2>7 DEF Known, Truthful, ReceiptReal
    <3>2. \E o \in DOMAIN remote'[j] : remote'[j][o] = "Succeeded"
      BY <1>1, <3>1
    <3>3. QED
      BY <1>0, <1>1, <1>2, <2>1, <2>3, <2>7, <3>2, OutcomeTrue
  <2>8. QED
    BY <2>4, <2>5, <2>6, <2>7
<1>5. QED
  BY <1>3, <1>4

\* The one submission of a job brings the one action.
LEMMA SubmitTrue ==
    ASSUME IInv, IInv', Truthful, NEW g \in Gateways, submit(g)
    PROVE  Truthful'
<1>0. PICK j \in Jobs : work[g].job = j
  BY DEF IInv, TypeOK, submit
<1>1. /\ TypeOK /\ work[g].pc = "exchange" /\ work[g].operation = None
      /\ UNCHANGED <<config, jobs, ops, review>>
  BY DEF submit, databaseVars, IInv
<1>2. WorkReal(g, j) /\ IsDefender(j) /\ ops[j] # None
  BY <1>0, <1>1 DEF Truthful, WorkReal
<1>3. remote[j] \in Seq(Statuses) /\ posts[j] = 0 /\ Len(remote[j]) <= posts[j]
  BY <1>0, <1>1, <1>2 DEF IInv, TypeOK, Exclusive, Submits, Truthful, ActionsKnown
<1>4. Len(remote[j]) = 0 /\ DOMAIN remote[j] = {}
  BY <1>3
<1>5. \A k \in Jobs : Receives(k)
  BY <1>1 DEF Receives
<1>6. PICK actions \in Seq(Statuses), o \in Nat \cup {None},
           state \in {"uncertain", "pending", "completed", "failed"} :
           /\ Record(g, o, state)
           /\ \/ UNCHANGED <<remote, posts>> /\ actions = remote[j]
              \/ Deliver(j, actions) /\ Len(actions) <= 1
           /\ state = "completed" => actions[o] = "Succeeded"
           /\ state = "failed" => actions[o] = "Failed"
  <2>1. CASE Record(g, None, "uncertain") /\ (UNCHANGED <<remote, posts>> \/ Deliver(j, remote[j]))
    <3>1. Len(remote[j]) <= 1 /\ remote[j] \in Seq(Statuses)
      BY <1>3, <1>4
    <3> USE <3>1
    <3>2. WITNESS remote[j] \in Seq(Statuses), None \in Nat \cup {None},
                  "uncertain" \in {"uncertain", "pending", "completed", "failed"}
    <3>3. QED
      BY <2>1
  <2>2. ASSUME NEW s \in Statuses, Deliver(j, Append(remote[j], s)),
               \/ Record(g, Len(remote[j]) + 1, VendorState(s))
               \/ Record(g, None, "uncertain")
        PROVE  \E actions \in Seq(Statuses), o \in Nat \cup {None},
                  state \in {"uncertain", "pending", "completed", "failed"} :
                  /\ Record(g, o, state)
                  /\ \/ UNCHANGED <<remote, posts>> /\ actions = remote[j]
                     \/ Deliver(j, actions) /\ Len(actions) <= 1
                  /\ state = "completed" => actions[o] = "Succeeded"
                  /\ state = "failed" => actions[o] = "Failed"
    <3> DEFINE after == Append(remote[j], s)
    <3>1. /\ after \in Seq(Statuses) /\ Len(after) <= 1
          /\ after[Len(remote[j]) + 1] = s /\ Len(remote[j]) + 1 \in Nat
      BY <1>3, <1>4
    <3>2. VendorState(s) \in {"completed", "pending", "failed"}
      BY VendorStateType
    <3>3. /\ VendorState(s) = "completed" => s = "Succeeded"
          /\ VendorState(s) = "failed" => s = "Failed"
      BY VendorStateReal
    <3> HIDE DEF after
    <3>4. Deliver(j, after)
      BY <2>2 DEF after
    <3>5. CASE Record(g, None, "uncertain")
      BY <3>1, <3>4, <3>5
    <3>6. CASE Record(g, Len(remote[j]) + 1, VendorState(s))
      BY <3>1, <3>2, <3>3, <3>4, <3>6
    <3>7. QED
      BY <2>2, <3>5, <3>6
  <2>3. QED
    BY <1>0, <2>1, <2>2 DEF submit, providerVars
<1>7. /\ \A k \in Jobs : remote'[k] = IF k = j THEN actions ELSE remote[k]
      /\ \A k \in Jobs : k # j => posts'[k] = posts[k]
      /\ Len(actions) <= posts'[j]
  <2>1. CASE UNCHANGED <<remote, posts>> /\ actions = remote[j]
    BY <1>3, <2>1
  <2>2. CASE Deliver(j, actions) /\ Len(actions) <= 1
    <3>1. posts'[j] = 1
      BY <1>1, <1>3, <2>2 DEF Deliver, TypeOK
    <3>2. QED
      BY <1>1, <2>2, <3>1 DEF Deliver, TypeOK
  <2>3. QED
    BY <1>6, <2>1, <2>2
<1>8. Monotone
  BY <1>4, <1>7 DEF Monotone
<1>9. ActionsKnown'
  <2>1. \A k \in Jobs : IsDefender(k)' <=> IsDefender(k)
    BY <1>1 DEF IsDefender
  <2>2. QED
    BY <1>1, <1>2, <1>7, <2>1 DEF Truthful, ActionsKnown
<1>10. Moves(g, "save", o, state) /\ work'[g].lease = work[g].lease
  BY <1>1, <1>6, RecordMoves, RecordKeepsLease DEF VendorStates
<1>11. /\ state = "completed" => remote'[j][o] = "Succeeded"
       /\ state = "failed" => remote'[j][o] = "Failed"
  BY <1>6, <1>7
<1>12. QED
  BY <1>0, <1>1, <1>2, <1>5, <1>8, <1>9, <1>10, <1>11, HoldTrue

LEMMA PollTrue ==
    ASSUME IInv, IInv', Truthful, NEW g \in Gateways, poll(g)
    PROVE  Truthful'
<1>0. PICK j \in Jobs : work[g].job = j
  BY DEF IInv, TypeOK, poll
<1> DEFINE o == work[g].operation
<1>1. /\ TypeOK /\ work[g].pc = "exchange" /\ o \in DOMAIN remote[j]
      /\ UNCHANGED <<config, jobs, ops, review, remote, posts>>
  BY <1>0 DEF poll, databaseVars, providerVars, IInv, Known
<1>2. remote[j] \in Seq(Statuses) /\ o \in Nat /\ remote[j][o] \in Statuses
  BY <1>1 DEF TypeOK
<1>3. Outcome(g, "ready") \/ Record(g, o, VendorState(remote[j][o]))
  BY <1>0 DEF poll
<1>4. CASE Outcome(g, "ready")
  BY <1>1, <1>4, FailureTrue
<1>5. CASE Record(g, o, VendorState(remote[j][o]))
  <2> DEFINE state == VendorState(remote[j][o])
  <2>1. /\ state \in VendorStates
        /\ state = "completed" => remote[j][o] = "Succeeded"
        /\ state = "failed" => remote[j][o] = "Failed"
    BY <1>2, VendorStateType, VendorStateReal DEF VendorStates
  <2> HIDE DEF state
  <2>2. PICK operation \in Nat : operation = o
    BY <1>2
  <2>3. Moves(g, "save", operation, state) /\ work'[g].lease = work[g].lease
    BY <1>1, <1>5, <2>1, <2>2, RecordMoves, RecordKeepsLease DEF state
  <2>4. WorkReal(g, j) /\ Monotone /\ ActionsKnown' /\ \A k \in Jobs : Receives(k)
    BY <1>0, <1>1, ActionsKept DEF Truthful, Receives
  <2>5. IsDefender(j) /\ ops'[j] # None
    BY <1>1, <2>4 DEF WorkReal
  <2>6. PICK result \in VendorStates : result = state
    BY <2>1
  <2>7. /\ result = "completed" => remote'[j][operation] = "Succeeded"
        /\ result = "failed" => remote'[j][operation] = "Failed"
    BY <1>1, <2>1, <2>2, <2>6
  <2>8. Moves(g, "save", operation, result)
    BY <2>3, <2>6
  <2> HIDE DEF o
  <2>9. QED
    BY <1>0, <1>1, <2>3, <2>4, <2>5, <2>7, <2>8, HoldTrue
<1>6. QED
  BY <1>3, <1>4, <1>5

\* The receipt that is there, or the one this worker writes, is the one its
\* outcome refers to: a job has one action.
LEMMA SaveTrue ==
    ASSUME IInv, IInv', Truthful, NEW g \in Gateways, save(g)
    PROVE  Truthful'
<1>0. PICK j \in Jobs : work[g].job = j
  BY DEF IInv, TypeOK, save
<1>1. PICK o \in Nat \cup {None}, result \in {"uncertain", "pending", "completed", "failed"} :
           work[g].operation = o /\ work[g].result = result
  BY DEF save, IInv, Known, TypeOK, Claimed
<1>2. /\ TypeOK /\ Known /\ Exclusive /\ work[g].pc = "save"
      /\ UNCHANGED <<config, jobs, review, remote, posts>>
      /\ jobs[j] # None /\ WorkReal(g, j)
  BY <1>0 DEF save, providerVars, IInv, Known, Truthful
<1>3. /\ IsDefender(j) /\ ops[j] # None /\ ops[j] \in Operation
      /\ result = "completed" => remote[j][o] = "Succeeded"
      /\ result = "failed" => remote[j][o] = "Failed"
      /\ result \in {"completed", "failed"} => o \in DOMAIN remote[j]
  BY <1>0, <1>1, <1>2 DEF WorkReal, TypeOK, Known
<1>4. remote[j] \in Seq(Statuses) /\ Len(remote[j]) <= 1
  <2>1. posts[j] \in Nat /\ posts[j] <= 1 /\ Len(remote[j]) <= posts[j] /\ remote[j] \in Seq(Statuses)
    BY <1>2, <1>3 DEF Exclusive, Truthful, ActionsKnown, TypeOK
  <2>2. QED
    BY <2>1
<1>5. \A i, k \in DOMAIN remote[j] : i = k
  BY <1>4
<1>6. Monotone /\ ActionsKnown'
  BY <1>2, ActionsKept
<1>7. /\ ops' = IF Unsettled(j) THEN [ops EXCEPT ![j].state = result, ![j].operation = o] ELSE ops
      /\ Outcome(g, JobState(result))
  BY <1>0, <1>1 DEF save
<1>8. (\A k \in Jobs : Receives(k)) /\ ops'[j] # None /\ (result = "completed" => ops'[j].state = "completed")
  <2>1. CASE Unsettled(j)
    <3> DEFINE receipt == [ops[j] EXCEPT !.state = result, !.operation = o]
    <3>1. receipt.state = result /\ receipt.operation = o
      BY <1>3 DEF Operation
    <3>2. ops' = [ops EXCEPT ![j] = receipt]
      BY <1>7, <2>1
    <3> HIDE DEF receipt
    <3>3. \A k \in Jobs : ops'[k] = IF k = j THEN receipt ELSE ops[k]
      BY <1>2, <3>2 DEF TypeOK
    <3>4. receipt # None
      <4>1. receipt \in Operation
        BY <1>3 DEF receipt, Operation, VendorStates
      <4>2. QED
        BY <4>1, ExternalResponseAssumption
    <3>5. ReceiptReal(j)'
      BY <1>2, <1>3, <3>1, <3>3 DEF ReceiptReal
    <3>6. Receives(j)
      BY <1>2, <1>3, <2>1, <3>3, <3>4, <3>5 DEF Receives, Unsettled
    <3>7. \A k \in Jobs : k # j => Receives(k)
      BY <3>3 DEF Receives
    <3>8. QED
      BY <3>1, <3>3, <3>4, <3>6, <3>7
  <2>2. CASE ~ Unsettled(j)
    <3>1. ops' = ops /\ ops[j].state \in {"completed", "failed"}
      BY <1>3, <1>7, <2>2 DEF Unsettled
    <3>2. /\ ops[j].operation \in DOMAIN remote[j]
          /\ ops[j].state = "failed" => remote[j][ops[j].operation] = "Failed"
      BY <1>2, <1>3, <3>1 DEF Known, Truthful, ReceiptReal
    <3>3. result = "completed" => ops[j].state = "completed"
      BY <1>3, <1>5, <3>1, <3>2
    <3>4. QED
      BY <1>3, <3>1, <3>3 DEF Receives
  <2>3. QED
    BY <2>1, <2>2
<1>9. CASE result = "completed"
  <2>1. \E i \in DOMAIN remote'[j] : remote'[j][i] = "Succeeded"
    BY <1>2, <1>3, <1>9
  <2>2. Outcome(g, "completed")
    BY <1>7, <1>9 DEF JobState
  <2>3. QED
    BY <1>0, <1>2, <1>6, <1>8, <1>9, <2>1, <2>2, OutcomeTrue
<1>10. CASE result # "completed"
  <2>1. PICK state \in {"ready", "failed", "uncertain"} : Outcome(g, state)
    BY <1>7, <1>10 DEF JobState
  <2>2. QED
    BY <1>0, <1>2, <1>6, <1>8, <2>1, OutcomeTrue
<1>11. QED
  BY <1>9, <1>10

\* A reconciliation replaces a receipt only while the job is uncertain, when no
\* worker has a lease that counts.
LEMMA ReconcileTrue ==
    ASSUME IInv, IInv', Truthful, NEW g \in Gateways, reconcile(g)
    PROVE  Truthful'
<1>0. PICK j \in Jobs, o \in Nat, status \in Statuses :
           review[g].job = j /\ review[g].operation = o /\ review[g].status = status
  BY DEF IInv, TypeOK, reconcile, Answer
<1> DEFINE state == VendorState(status)
           row   == [jobs[j] EXCEPT !.state = JobState(state), !.attempts = 0, !.lease = None]
<1>1. /\ TypeOK /\ TypeOK' /\ Known /\ jobs[j] # None /\ jobs[j] \in Job
      /\ review[g] # None /\ o \in DOMAIN remote[j]
      /\ status # "Pending" => remote[j][o] = status
  BY <1>0 DEF IInv, TypeOK, Known, reconcile, Truthful, ReviewReal
<1>2. UNCHANGED <<config, work, remote, posts>>
  BY DEF reconcile, providerVars
<1>3. \A h \in Gateways : review'[h] = review[h] \/ ReviewReal(h)'
  BY <1>1 DEF reconcile, TypeOK, ReviewReal
<1>4. CASE UNCHANGED <<jobs, ops>>
  <2>1. Monotone /\ ActionsKnown' /\ \A k \in Jobs : Receives(k)
    BY <1>2, <1>4, ActionsKept DEF Receives
  <2>2. QED
    BY <1>2, <1>3, <1>4, <2>1, ExchangeTrue
<1>5. ASSUME CurrentRow(g), ops[j] # None, Updated(j, row),
             ops' = [ops EXCEPT ![j].state = state, ![j].operation = o]
      PROVE  Truthful'
  <2> DEFINE receipt == [ops[j] EXCEPT !.state = state, !.operation = o]
  <2>1. /\ state \in {"completed", "pending", "failed"}
        /\ state = "completed" => remote[j][o] = "Succeeded"
        /\ state = "failed" => remote[j][o] = "Failed"
    BY <1>0, <1>1, VendorStateType, VendorStateReal
  <2> HIDE DEF state
  <2>2. ops[j] \in Operation
    BY <1>1, <1>5 DEF TypeOK
  <2>3. receipt \in Operation /\ receipt.state = state /\ receipt.operation = o
    BY <2>1, <2>2 DEF Operation, VendorStates
  <2>4. JobState(state) \in {"completed", "ready", "failed"} /\ (JobState(state) = "completed" => state = "completed")
    BY <2>1 DEF JobState
  <2>5. /\ row \in Job /\ row.config = jobs[j].config /\ row.revision = jobs[j].revision
        /\ row.state = JobState(state)
    BY <1>1, <2>4 DEF Job, JobStates
  <2>6. jobs[j].state = "uncertain"
    BY <1>0, <1>5 DEF CurrentRow
  <2> HIDE DEF row, receipt
  <2>7. receipt # None /\ \A k \in Jobs : ops'[k] = IF k = j THEN receipt ELSE ops[k]
    <3>1. ops' = [ops EXCEPT ![j] = receipt]
      BY <1>5 DEF receipt
    <3>2. QED
      BY <1>1, <2>3, <3>1, ExternalResponseAssumption DEF TypeOK
  <2>8. row.state = "completed" => Done(j) /\ ops'[j] # None /\ ops'[j].state = "completed"
    BY <1>1, <2>1, <2>3, <2>4, <2>5, <2>7 DEF Done
  <2>9. /\ \A k \in Jobs : Advances(k)
        /\ \A k \in Jobs : jobs'[k] # None => jobs[k] # None /\ jobs'[k].config = jobs[k].config
        /\ jobs'[j].state = row.state
        /\ \A k \in Jobs : k # j => jobs'[k] = jobs[k]
    BY <1>1, <1>5, <2>5, <2>8, RowTruth
  <2>10. Monotone /\ ActionsKnown'
    BY <1>2, <2>9, ActionsKept
  <2>11. \A h \in Gateways : Remains(h)
    BY <1>2, <2>4, <2>5, <2>9, Bystander
  <2>12. ReceiptReal(j)'
    BY <1>2, <2>1, <2>3, <2>7 DEF ReceiptReal
  <2>13. jobs'[j] # None
    BY <1>1, <2>9 DEF Advances
  <2>14. Receives(j)
    BY <1>1, <2>3, <2>4, <2>5, <2>6, <2>7, <2>9, <2>12, <2>13 DEF Receives
  <2>15. \A k \in Jobs : Receives(k)
    BY <2>7, <2>14 DEF Receives
  <2>16. QED
    BY <1>3, <2>9, <2>10, <2>11, <2>15, TruthKeeps
<1>6. QED
  BY <1>0, <1>4, <1>5 DEF reconcile, databaseVars

LEMMA StepTrue ==
    ASSUME IInv, Truthful, [Next]_vars
    PROVE  Truthful'
<1>1. IInv'
  BY StepInv
<1>2. ASSUME NEW g \in Gateways, tick(g)
      PROVE  Truthful'
  <2>1. CASE refuse(g) \/ fault(g)
    <3>1. PICK state \in {"ready", "failed", "uncertain"} : Outcome(g, state)
      BY <2>1 DEF refuse, fault, AfterFault
    <3>2. QED
      BY <1>1, <2>1, <3>1, FailureTrue DEF refuse, fault, databaseVars, providerVars
  <2>2. CASE abandon(g)
    BY <1>1, <2>2, StopTrue DEF abandon, databaseVars, providerVars
  <2>3. QED
    BY <1>1, <1>2, <2>1, <2>2, ClaimTrue, SendTrue, IntendTrue, SubmitTrue, PollTrue, SaveTrue,
       FinishTrue DEF tick
<1>3. ASSUME NEW g \in Gateways, NEW files \in Files, restart(g, files)
      PROVE  Truthful'
  BY <1>1, <1>3, StopTrue DEF restart, databaseVars, providerVars
<1>4. CASE UNCHANGED vars
  <2>1. Monotone /\ ActionsKnown' /\ \A k \in Jobs : Receives(k)
    BY <1>4, ActionsKept DEF vars, Receives
  <2>2. QED
    BY <1>1, <1>4, <2>1, ExchangeTrue DEF vars
<1>5. QED
  BY <1>1, <1>2, <1>3, <1>4, CreateTrue, DecisionTrue, VerifyTrue, ReconcileTrue, SettleTrue DEF Next

LEMMA InitTrue == Init => Truthful
BY DEF Init, Truthful, ActionsKnown, IsDefender, JobReal, ReceiptReal, ReviewReal, Idle

\* A recorded success or failure is the provider's, a completed Defender job has
\* its receipt, and no late worker, lease or reconciliation takes that away.
THEOREM OutcomesHold == Spec => []OutcomesAreReal
<1>1. Init => IInv /\ Truthful
  BY InitInv, InitTrue
<1>2. IInv /\ Truthful /\ [Next]_vars => (IInv /\ Truthful)'
  BY StepInv, StepTrue
<1>3. IInv /\ Truthful => OutcomesAreReal
  <2> SUFFICES ASSUME IInv, Truthful PROVE OutcomesAreReal
    OBVIOUS
  <2>1. \A j \in Jobs : JobReal(j) /\ ReceiptReal(j)
    BY DEF Truthful
  <2>2. \A j \in Jobs : ops[j] # None /\ ops[j].state \in {"pending", "completed", "failed"} =>
           ops[j].operation \in DOMAIN remote[j]
    BY DEF IInv, Known
  <2>3. QED
    BY <2>1, <2>2 DEF OutcomesAreReal, JobReal, ReceiptReal, Done
<1>4. QED
  BY <1>1, <1>2, <1>3, PTL DEF Spec

-----------------------------------------------------------------------------
(* How often an endpoint sees a webhook job *)

Claims(g, j) == work[g].pc = "claimed" /\ work[g].job = j

\* The attempts of a webhook job that may still send: those to come and those
\* a worker has begun.
Open(j) ==
    {a \in 1 .. RetryLimit :
        \/ jobs[j] = None \/ a > jobs[j].attempts
        \/ \E g \in Gateways : Claims(g, j) /\ work[g].attempt = a}

IsWebhook(j) == jobs[j] # None /\ ~ IsDefender(j)

\* A reconciliation, which gives attempts back, is of a Defender job.
ReviewsDefender == \A g \in Gateways : review[g] # None => IsDefender(review[g].job)

\* An attempt was counted, belongs to one worker, and is within the limit if
\* that worker may send.
AttemptsDiffer ==
    \A g \in Gateways, j \in Jobs : Claims(g, j) /\ IsWebhook(j) =>
        /\ work[g].attempt \in Nat \ {0} /\ work[g].attempt <= jobs[j].attempts
        /\ Unchanged(g, j) => work[g].attempt <= RetryLimit
        /\ \A h \in Gateways : Claims(h, j) /\ work[h].attempt = work[g].attempt => h = g

WithinLimit == \A j \in Jobs : IsWebhook(j) => posts[j] + Cardinality(Open(j)) <= RetryLimit

\* A worker in an exchange works on a Defender job.
ExchangesDefender == \A g \in Gateways : work[g].pc = "exchange" => IsDefender(work[g].job)

Budget == ReviewsDefender /\ ExchangesDefender /\ AttemptsDiffer /\ WithinLimit

-----------------------------------------------------------------------------
LEMMA AttemptsFinite ==
    ASSUME NEW S \in SUBSET (1 .. RetryLimit)
    PROVE  IsFiniteSet(S) /\ Cardinality(S) \in Nat /\ Cardinality(S) <= RetryLimit
<1>1. RetryLimit \in Nat /\ RetryLimit \in Int /\ 1 \in Int
  BY ExternalResponseAssumption
<1>2. IsFiniteSet(1 .. RetryLimit) /\ Cardinality(1 .. RetryLimit) = RetryLimit
  BY <1>1, FS_Interval
<1>3. QED
  BY <1>2, FS_Subset, FS_CardinalityType

\* A step keeps what a request is for, and gives no attempt of a webhook back.
AttemptsKept ==
    \A k \in Jobs : jobs[k] # None =>
        /\ jobs'[k] # None
        /\ jobs'[k].connector = jobs[k].connector /\ jobs'[k].config = jobs[k].config
        /\ IsWebhook(k) => jobs'[k].attempts = jobs[k].attempts

\* No attempt begins, and who enters an exchange works on a Defender job.
WorkersKept ==
    \A h \in Gateways :
        \/ work'[h].pc \notin {"claimed", "exchange"}
        \/ work'[h].pc = "exchange" /\ IsDefender(work'[h].job)
        \/ /\ work'[h] = work[h]
           /\ \A c \in Connectors : config'[<<h, c>>] = config[<<h, c>>]

\* A request is sent by a worker that has begun an attempt and ends it.
Spends(k) ==
    /\ posts'[k] = posts[k] + 1
    /\ \E g \in Gateways : Claims(g, k) /\ Unchanged(g, k) /\ work'[g].pc # "claimed"

\* Any step but a claim.
LEMMA BudgetKeeps ==
    ASSUME IInv, IInv', Budget, AttemptsKept,
           \A k \in Jobs : posts'[k] = posts[k] \/ IsDefender(k) \/ Spends(k),
           \A h \in Gateways : \/ review'[h] = review[h] \/ review'[h] = None
                               \/ IsDefender(review'[h].job),
           WorkersKept
    PROVE  Budget'
<1>1. TypeOK /\ Known /\ TypeOK' /\ RetryLimit \in Nat
  BY ExternalResponseAssumption DEF IInv
<1>2. \A k \in Jobs : jobs[k] # None => (IsDefender(k)' <=> IsDefender(k))
  BY DEF AttemptsKept, IsDefender
<1>3. ReviewsDefender'
  <2>1. \A h \in Gateways : review'[h] # None => review'[h].job \in Jobs
    BY <1>1 DEF TypeOK, Answer
  <2>2. \A k \in Jobs : IsDefender(k) => IsDefender(k)'
    BY DEF AttemptsKept, IsDefender
  <2>3. \A h \in Gateways : review'[h] # None => IsDefender(review'[h].job)
    BY DEF Budget, ReviewsDefender
  <2>4. QED
    BY <2>1, <2>2, <2>3 DEF ReviewsDefender, IsDefender
<1>4. ASSUME NEW g \in Gateways, NEW j \in Jobs, Claims(g, j)'
      PROVE  /\ Claims(g, j) /\ work'[g] = work[g] /\ jobs[j] # None
             /\ Unchanged(g, j)' => Unchanged(g, j)
             /\ IsWebhook(j)' => IsWebhook(j)
  <2>1. /\ Claims(g, j) /\ work'[g] = work[g]
        /\ \A c \in Connectors : config'[<<g, c>>] = config[<<g, c>>]
    BY <1>4 DEF Claims, WorkersKept
  <2>2. jobs[j] # None /\ jobs[j] \in Job
    BY <1>1, <2>1 DEF Claims, Known, TypeOK
  <2>3. jobs[j].connector \in Connectors
    BY <2>2 DEF Job
  <2>4. Unchanged(g, j)' => Unchanged(g, j)
    BY <2>1, <2>2, <2>3 DEF AttemptsKept, Unchanged, Current
  <2>5. QED
    BY <1>2, <2>1, <2>2, <2>4 DEF IsWebhook
<1>5. AttemptsDiffer'
  <2>1. ASSUME NEW g \in Gateways, NEW j \in Jobs, Claims(g, j)', IsWebhook(j)'
        PROVE  /\ work'[g].attempt \in Nat \ {0} /\ work'[g].attempt <= jobs'[j].attempts
               /\ Unchanged(g, j)' => work'[g].attempt <= RetryLimit
               /\ \A h \in Gateways : Claims(h, j)' /\ work'[h].attempt = work'[g].attempt => h = g
    BY <1>4, <2>1 DEF Budget, AttemptsDiffer, AttemptsKept
  <2>2. QED
    BY <2>1 DEF AttemptsDiffer
<1>6. ASSUME NEW j \in Jobs, IsWebhook(j)'
      PROVE  posts'[j] + Cardinality(Open(j)') <= RetryLimit
  <2>1. /\ Open(j) \in SUBSET (1 .. RetryLimit) /\ Open(j)' \in SUBSET (1 .. RetryLimit)
        /\ posts[j] \in Nat
    BY <1>1 DEF Open, TypeOK
  <2>2. /\ IsFiniteSet(Open(j)) /\ Cardinality(Open(j)) \in Nat
        /\ Cardinality(Open(j)') \in Nat /\ Cardinality(Open(j)') <= RetryLimit
    BY <2>1, AttemptsFinite
  <2>3. CASE jobs[j] = None
    <3>1. posts'[j] = 0
      BY <1>1, <2>3 DEF Known, IsDefender, Spends, Claims
    <3>2. QED
      BY <1>1, <2>2, <3>1
  <2>4. CASE jobs[j] # None
    <3>1. IsWebhook(j) /\ posts[j] + Cardinality(Open(j)) <= RetryLimit
      BY <1>2, <1>6, <2>4 DEF IsWebhook, Budget, WithinLimit
    <3>2. Open(j)' \subseteq Open(j)
      BY <1>4, <2>4, <3>1 DEF AttemptsKept, Open
    <3>3. CASE posts'[j] = posts[j]
      <4>1. Cardinality(Open(j)') <= Cardinality(Open(j))
        BY <2>2, <3>2, FS_Subset
      <4>2. QED
        BY <1>1, <2>1, <2>2, <3>1, <3>3, <4>1
    <3>4. CASE Spends(j)
      <4>1. PICK g \in Gateways : Claims(g, j) /\ Unchanged(g, j) /\ work'[g].pc # "claimed"
        BY <3>4 DEF Spends
      <4> DEFINE a == work[g].attempt
      <4>2. a \in 1 .. RetryLimit /\ a <= jobs[j].attempts
            /\ \A h \in Gateways : Claims(h, j) /\ work[h].attempt = a => h = g
        BY <1>1, <3>1, <4>1 DEF Budget, AttemptsDiffer
      <4>3. a \in Open(j)
        BY <4>1, <4>2 DEF Open
      <4>4. jobs[j].attempts \in Nat /\ jobs'[j].attempts = jobs[j].attempts /\ jobs'[j] # None
        <5>1. jobs[j] \in Job
          BY <1>1, <2>4 DEF TypeOK
        <5>2. QED
          BY <2>4, <3>1, <5>1 DEF Job, AttemptsKept
      <4>5. \A h \in Gateways : Claims(h, j)' => work'[h].attempt # a
        BY <1>4, <4>1, <4>2 DEF Claims
      <4>6. a \notin Open(j)'
        BY <4>2, <4>4, <4>5 DEF Open
      <4> HIDE DEF a
      <4>7. Open(j)' \in SUBSET (Open(j) \ {a})
        BY <3>2, <4>6
      <4>8. IsFiniteSet(Open(j) \ {a}) /\ Cardinality(Open(j) \ {a}) = Cardinality(Open(j)) - 1
        BY <2>2, <4>3, FS_RemoveElement
      <4>9. Cardinality(Open(j)') <= Cardinality(Open(j)) - 1
        BY <4>7, <4>8, FS_Subset
      <4>10. QED
        BY <1>1, <2>1, <2>2, <3>1, <3>4, <4>9 DEF Spends
    <3>5. QED
      BY <3>1, <3>3, <3>4 DEF IsWebhook
  <2>5. QED
    BY <2>3, <2>4
<1>7. ExchangesDefender'
  <2>1. \A h \in Gateways : work'[h].pc = "exchange" => work'[h].job \in Jobs
    BY <1>1 DEF TypeOK
  <2>2. \A k \in Jobs : IsDefender(k) => IsDefender(k)'
    BY DEF AttemptsKept, IsDefender
  <2>3. \A h \in Gateways : work'[h].pc = "exchange" => IsDefender(work'[h].job)
    BY DEF Budget, ExchangesDefender, WorkersKept
  <2>4. QED
    BY <2>1, <2>2, <2>3 DEF ExchangesDefender, IsDefender
<1>8. QED
  BY <1>3, <1>5, <1>6, <1>7 DEF Budget, WithinLimit

\* An update that leaves the attempts of a webhook alone.
LEMMA UpdateRows ==
    ASSUME TypeOK, NEW j \in Jobs, jobs[j] # None, NEW row \in Job, Updated(j, row),
           row.connector = jobs[j].connector, row.config = jobs[j].config,
           IsWebhook(j) => row.attempts = jobs[j].attempts
    PROVE  AttemptsKept
<1> DEFINE new == [row EXCEPT !.revision = @ + 1]
<1>1. /\ new \in Job /\ new.connector = row.connector /\ new.config = row.config
      /\ new.attempts = row.attempts
  BY DEF Job
<1> HIDE DEF new
<1>2. \A k \in Jobs : jobs'[k] = IF k = j THEN new ELSE jobs[k]
  BY DEF Updated, new, TypeOK
<1>3. new # None
  BY <1>1, ExternalResponseAssumption
<1>4. QED
  BY <1>1, <1>2, <1>3 DEF AttemptsKept

\* A claim begins an attempt that nobody had, and leaves as many as before.
LEMMA TakeBudget ==
    ASSUME IInv, IInv', Budget, NEW g \in Gateways, NEW j \in Jobs, claim(g, j), Take(g, j)
    PROVE  Budget'
<1>1. /\ TypeOK /\ TypeOK' /\ Known /\ jobs[j] \in Job /\ jobs[j] # None
      /\ UNCHANGED <<config, ops, review, remote, posts>>
  BY DEF IInv, TypeOK, claim, Claimable, providerVars
<1> DEFINE lease == jobs[j].revision + 1
           next  == jobs[j].attempts + 1
           row   == [jobs[j] EXCEPT !.state = "running", !.lease = lease, !.attempts = next]
           new   == [row EXCEPT !.revision = @ + 1]
           held  == [pc |-> "claimed", job |-> j, lease |-> lease,
                     attempt |-> next, operation |-> None, result |-> None]
<1>2. lease \in Nat /\ jobs[j].attempts \in Nat /\ next \in Nat /\ RetryLimit \in Nat
  BY <1>1, ExternalResponseAssumption DEF Job
<1>3. /\ new \in Job /\ new.connector = jobs[j].connector /\ new.config = jobs[j].config
      /\ new.attempts = next
  BY <1>1, <1>2 DEF Job, JobStates
<1>4. held.pc = "claimed" /\ held.job = j /\ held.attempt = next
  OBVIOUS
<1>5. jobs' = [jobs EXCEPT ![j] = new] /\ work' = [work EXCEPT ![g] = held] /\ ~ Exhausted(g, j)
  BY DEF Take, Updated
<1> HIDE DEF new, held, row, lease
<1>6. /\ \A k \in Jobs : jobs'[k] = IF k = j THEN new ELSE jobs[k]
      /\ \A h \in Gateways : work'[h] = IF h = g THEN held ELSE work[h]
  BY <1>1, <1>5 DEF TypeOK
<1>7. new # None
  BY <1>3, ExternalResponseAssumption
<1>8. \A k \in Jobs : /\ IsDefender(k)' <=> IsDefender(k)
                      /\ IsWebhook(k)' <=> IsWebhook(k)
                      /\ \A h \in Gateways : Unchanged(h, k)' <=> Unchanged(h, k)
  BY <1>1, <1>3, <1>6, <1>7 DEF IsDefender, IsWebhook, Unchanged, Current
<1>9. ReviewsDefender'
  <2>1. \A h \in Gateways : review[h] # None => review[h].job \in Jobs
    BY <1>1 DEF TypeOK, Answer
  <2>2. QED
    BY <1>1, <1>8, <2>1 DEF Budget, ReviewsDefender
<1>10. \A h \in Gateways, k \in Jobs : Claims(h, k)' =>
          \/ h # g /\ Claims(h, k) /\ work'[h] = work[h]
          \/ h = g /\ k = j /\ work'[h].attempt = next
  BY <1>4, <1>6 DEF Claims
<1>11. ASSUME IsWebhook(j)
       PROVE  \A h \in Gateways : Claims(h, j) => work[h].attempt <= jobs[j].attempts /\ work[h].attempt \in Nat
  BY <1>11 DEF Budget, AttemptsDiffer
<1>12. ASSUME IsWebhook(j), Unchanged(g, j)
       PROVE  next <= RetryLimit
  <2>1. ~ IsVendor(Current(g, j))
    BY <1>12 DEF IsWebhook, IsDefender, IsVendor, Unchanged
  <2>2. QED
    BY <1>2, <1>5, <2>1 DEF Exhausted
<1>13. AttemptsDiffer'
  <2>1. ASSUME NEW h \in Gateways, NEW k \in Jobs, Claims(h, k)', IsWebhook(k)'
        PROVE  /\ work'[h].attempt \in Nat \ {0} /\ work'[h].attempt <= jobs'[k].attempts
               /\ Unchanged(h, k)' => work'[h].attempt <= RetryLimit
               /\ \A i \in Gateways : Claims(i, k)' /\ work'[i].attempt = work'[h].attempt => i = h
    <3>1. CASE k # j
      BY <1>6, <1>8, <1>10, <2>1, <3>1 DEF Budget, AttemptsDiffer
    <3>2. CASE k = j /\ h = g
      BY <1>2, <1>3, <1>6, <1>8, <1>10, <1>11, <1>12, <2>1, <3>2
    <3>3. CASE k = j /\ h # g
      <4>1. /\ Claims(h, j) /\ work'[h] = work[h] /\ IsWebhook(j)
            /\ work[h].attempt \in Nat \ {0} /\ work[h].attempt <= jobs[j].attempts
            /\ Unchanged(h, j) => work[h].attempt <= RetryLimit
            /\ \A i \in Gateways : Claims(i, j) /\ work[i].attempt = work[h].attempt => i = h
        BY <1>8, <1>10, <2>1, <3>3 DEF Budget, AttemptsDiffer
      <4>2. work[h].attempt < next
        BY <1>2, <4>1
      <4>3. QED
        BY <1>2, <1>3, <1>6, <1>8, <1>10, <3>3, <4>1, <4>2
    <3>4. QED
      BY <3>1, <3>2, <3>3
  <2>2. QED
    BY <2>1 DEF AttemptsDiffer
<1>14. WithinLimit'
  <2>1. ASSUME NEW k \in Jobs, IsWebhook(k)'
        PROVE  posts'[k] + Cardinality(Open(k)') <= RetryLimit
    <3>1. /\ Open(k) \in SUBSET (1 .. RetryLimit) /\ Open(k)' \in SUBSET (1 .. RetryLimit)
          /\ posts[k] \in Nat /\ posts'[k] = posts[k]
      BY <1>1 DEF Open, TypeOK
    <3>2. IsFiniteSet(Open(k)) /\ Cardinality(Open(k)) \in Nat /\ Cardinality(Open(k)') \in Nat
      BY <3>1, AttemptsFinite
    <3>3. posts[k] + Cardinality(Open(k)) <= RetryLimit
      BY <1>8, <2>1 DEF Budget, WithinLimit
    <3>4. Open(k)' \subseteq Open(k)
      <4>1. CASE k # j
        BY <1>6, <1>8, <1>10, <2>1, <4>1 DEF Open, IsWebhook
      <4>2. CASE k = j
        BY <1>2, <1>3, <1>6, <1>7, <1>10, <4>2 DEF Open
      <4>3. QED
        BY <4>1, <4>2
    <3>5. Cardinality(Open(k)') <= Cardinality(Open(k))
      BY <3>2, <3>4, FS_Subset
    <3>6. QED
      BY <1>2, <3>1, <3>2, <3>3, <3>5
  <2>2. QED
    BY <2>1 DEF WithinLimit
<1>15. ExchangesDefender'
  <2>1. \A h \in Gateways : work[h].pc = "exchange" => work[h].job \in Jobs
    BY <1>1 DEF TypeOK
  <2>2. \A h \in Gateways : work'[h].pc = "exchange" => work'[h] = work[h]
    BY <1>4, <1>6
  <2>3. QED
    BY <1>8, <2>1, <2>2 DEF Budget, ExchangesDefender
<1>16. QED
  BY <1>9, <1>13, <1>14, <1>15 DEF Budget

\* Steps that send nothing, begin no attempt and change no row's attempts.
LEMMA CalmBudget ==
    ASSUME IInv, IInv', Budget, AttemptsKept, UNCHANGED posts,
           \A h \in Gateways : review'[h] = review[h] \/ review'[h] = None,
           WorkersKept
    PROVE  Budget'
BY BudgetKeeps

LEMMA SameRows ==
    ASSUME UNCHANGED jobs
    PROVE  AttemptsKept
BY DEF AttemptsKept

\* A worker that moves on has no attempt before it any more.
LEMMA MovesOn ==
    ASSUME IInv, NEW g \in Gateways, UNCHANGED config,
           \/ \E state : Outcome(g, state)
           \/ \E operation, state : Record(g, operation, state)
           \/ /\ \E operation : Exchange(g, operation)
              /\ IsDefender(work[g].job)
    PROVE  work'[g].pc # "claimed" /\ WorkersKept
<1>1. work \in [Gateways -> Claimed]
  BY DEF IInv, TypeOK
<1>2. /\ \/ work'[g].pc \in {"finish", "save"}
         \/ work'[g].pc = "exchange" /\ work'[g].job = work[g].job /\ IsDefender(work[g].job)
      /\ \A h \in Gateways : h # g => work'[h] = work[h]
  <2>1. CASE \E state : Outcome(g, state)
    BY <1>1, <2>1, ZenonT(60) DEF Outcome, Claimed
  <2>2. CASE \E operation, state : Record(g, operation, state)
    BY <1>1, <2>2, ZenonT(60) DEF Record, Claimed
  <2>3. ASSUME NEW operation, work' = [work EXCEPT ![g].pc = "exchange", ![g].operation = operation]
        PROVE  /\ work'[g].pc = "exchange" /\ work'[g].job = work[g].job
               /\ \A h \in Gateways : h # g => work'[h] = work[h]
    BY <1>1, <2>3 DEF Claimed
  <2>4. QED
    BY <2>1, <2>2, <2>3 DEF Exchange
<1>3. QED
  BY <1>2 DEF WorkersKept

LEMMA StepBudget ==
    ASSUME IInv, Budget, [Next]_vars
    PROVE  Budget'
<1>1. TypeOK /\ Known /\ IInv'
  BY StepInv DEF IInv
<1>2. ASSUME NEW g \in Gateways, NEW j \in Jobs, NEW actor \in Operators, NEW name \in Connectors,
             create(g, j, actor, name)
      PROVE  Budget'
  <2>1. AttemptsKept
    BY <1>1, <1>2 DEF create, AttemptsKept, TypeOK
  <2>2. QED
    BY <1>1, <1>2, <2>1, CalmBudget DEF create, processVars, providerVars, WorkersKept
<1>3. ASSUME NEW j \in Jobs, NEW actor \in Operators,
             (\E g \in Gateways : approve(g, j, actor)) \/ cancel(j, actor)
      PROVE  Budget'
  <2>1. jobs[j] \in Job /\ jobs[j] # None
    BY <1>1, <1>3 DEF TypeOK, approve, cancel
  <2>2. PICK state \in {"ready", "cancelled"} :
             Updated(j, [jobs[j] EXCEPT !.state = state, !.approver = actor])
    BY <1>3 DEF approve, cancel
  <2> DEFINE row == [jobs[j] EXCEPT !.state = state, !.approver = actor]
  <2>3. /\ row \in Job /\ row.connector = jobs[j].connector /\ row.config = jobs[j].config
        /\ row.attempts = jobs[j].attempts
    BY <2>1 DEF Job, JobStates
  <2>4. AttemptsKept
    BY <1>1, <2>1, <2>2, <2>3, UpdateRows
  <2>5. QED
    BY <1>1, <1>3, <2>4, CalmBudget DEF approve, cancel, processVars, providerVars, WorkersKept
<1>4. ASSUME NEW g \in Gateways, NEW j \in Jobs, NEW actor \in Operators, verify(g, j, actor)
      PROVE  Budget'
  <2>1. UNCHANGED <<config, jobs, work, posts>>
    BY <1>4 DEF verify, databaseVars, providerVars
  <2>2. IsDefender(j)
    BY <1>4 DEF verify, IsVendor, Unchanged, IsDefender
  <2>3. \A h \in Gateways : review'[h] = review[h] \/ IsDefender(review'[h].job)
    BY <1>1, <1>4, <2>2 DEF verify, TypeOK
  <2>4. AttemptsKept
    BY <2>1, SameRows
  <2>5. QED
    BY <1>1, <2>1, <2>3, <2>4, BudgetKeeps DEF WorkersKept
<1>5. ASSUME NEW g \in Gateways, NEW j \in Jobs, claim(g, j)
      PROVE  Budget'
  <2>1. CASE GiveUp(g, j)
    <3> DEFINE row == [jobs[j] EXCEPT !.state = GivenUp(g, j)]
    <3>1. jobs[j] \in Job /\ jobs[j] # None /\ Updated(j, row) /\ UNCHANGED work
      BY <1>1, <1>5, <2>1 DEF claim, Claimable, GiveUp, TypeOK
    <3>2. /\ row \in Job /\ row.connector = jobs[j].connector /\ row.config = jobs[j].config
          /\ row.attempts = jobs[j].attempts
      BY <3>1 DEF Job, JobStates, GivenUp
    <3> HIDE DEF row
    <3>3. AttemptsKept
      BY <1>1, <3>1, <3>2, UpdateRows
    <3>4. QED
      BY <1>1, <1>5, <3>1, <3>3, CalmBudget DEF claim, providerVars, WorkersKept
  <2>2. QED
    BY <1>1, <1>5, <2>1, TakeBudget DEF claim
<1>6. ASSUME NEW g \in Gateways, finish(g)
      PROVE  Budget'
  <2> DEFINE j   == work[g].job
             row == [jobs[j] EXCEPT !.state = work[g].result, !.lease = None]
  <2>1. /\ j \in Jobs /\ jobs[j] \in Job /\ jobs[j] # None /\ work[g].result \in JobStates
    BY <1>1, <1>6 DEF finish, TypeOK, Known
  <2>2. /\ row \in Job /\ row.connector = jobs[j].connector /\ row.config = jobs[j].config
        /\ row.attempts = jobs[j].attempts
    BY <2>1 DEF Job
  <2>3. Updated(j, row) \/ UNCHANGED jobs
    BY <1>6 DEF finish
  <2> HIDE DEF row, j
  <2>4. AttemptsKept
    BY <1>1, <2>1, <2>2, <2>3, UpdateRows, SameRows
  <2>5. WorkersKept
    BY <1>1, <1>6 DEF finish, TypeOK, Idle, WorkersKept
  <2>6. QED
    BY <1>1, <1>6, <2>4, <2>5, CalmBudget DEF finish, providerVars
<1>7. ASSUME NEW g \in Gateways, abandon(g) \/ \E files \in Files : restart(g, files)
      PROVE  Budget'
  <2>1. /\ UNCHANGED <<jobs, posts>> /\ work' = [work EXCEPT ![g] = Idle]
        /\ \A h \in Gateways, c \in Connectors : h # g => config'[<<h, c>>] = config[<<h, c>>]
        /\ \A h \in Gateways : review'[h] = review[h] \/ review'[h] = None
    BY <1>1, <1>7 DEF abandon, restart, databaseVars, providerVars, TypeOK
  <2>2. WorkersKept
    BY <1>1, <2>1 DEF TypeOK, Idle, WorkersKept
  <2>3. AttemptsKept
    BY <2>1, SameRows
  <2>4. QED
    BY <1>1, <2>1, <2>2, <2>3, CalmBudget
<1>8. ASSUME NEW g \in Gateways,
             refuse(g) \/ fault(g) \/ intend(g) \/ poll(g) \/ save(g) \/ submit(g)
      PROVE  Budget'
  <2>1. UNCHANGED <<config, jobs, review>>
    BY <1>8 DEF refuse, fault, intend, poll, save, submit, databaseVars
  <2>2. AttemptsKept
    BY <2>1, SameRows
  <2>3. \/ \E state : Outcome(g, state)
        \/ \E operation, state : Record(g, operation, state)
        \/ /\ \E operation : Exchange(g, operation)
           /\ IsDefender(work[g].job)
    <3>1. CASE refuse(g) \/ fault(g) \/ poll(g) \/ save(g) \/ submit(g)
      BY <3>1 DEF refuse, fault, poll, save, submit
    <3>2. CASE intend(g) /\ FirstIntent(work[g].job)
      BY <1>1, <3>2, AdapterOfJob DEF intend, FirstIntent
    <3>3. CASE intend(g) /\ ~ FirstIntent(work[g].job)
      <4>1. work[g].job \in Jobs /\ ops[work[g].job] \in Operation
        BY <1>1, <3>3 DEF intend, FirstIntent, TypeOK
      <4>2. ops[work[g].job].state \in VendorStates
        BY <4>1 DEF Operation
      <4>3. QED
        BY <3>3, <4>2, AdapterOfJob DEF intend, VendorStates
    <3>4. QED
      BY <1>8, <3>1, <3>2, <3>3
  <2>4. WorkersKept
    BY <2>1, <2>3, MovesOn
  <2>5. \A k \in Jobs : posts'[k] = posts[k] \/ IsDefender(k)
    <3>1. CASE submit(g)
      <4>1. work[g].job \in Jobs /\ IsDefender(work[g].job)
        BY <1>1, <3>1 DEF submit, TypeOK, Budget, ExchangesDefender
      <4>2. posts' = posts \/ posts' = [posts EXCEPT ![work[g].job] = @ + 1]
        BY <3>1 DEF submit, Deliver, providerVars
      <4>3. QED
        BY <1>1, <4>1, <4>2 DEF TypeOK
    <3>2. CASE ~ submit(g)
      BY <1>8, <3>2 DEF refuse, fault, intend, poll, save, providerVars
    <3>3. QED
      BY <3>1, <3>2
  <2>6. QED
    BY <1>1, <2>1, <2>2, <2>4, <2>5, BudgetKeeps
<1>9. ASSUME NEW g \in Gateways, send(g)
      PROVE  Budget'
  <2>1. work[g].pc = "claimed" /\ MaySend(g, work[g].job) /\ UNCHANGED <<config, jobs, review>>
    BY <1>9 DEF send, databaseVars
  <2>2. PICK j \in Jobs : Claims(g, j) /\ Unchanged(g, j) /\ work[g].job = j
    BY <1>1, <2>1 DEF TypeOK, Claims, MaySend
  <2>3. \E state : Outcome(g, state)
    BY <1>9 DEF send
  <2>4. work'[g].pc # "claimed" /\ WorkersKept
    BY <2>1, <2>3, MovesOn
  <2>5. posts' = posts \/ posts' = [posts EXCEPT ![j] = posts[j] + 1]
    BY <1>9, <2>2 DEF send, Deliver, providerVars
  <2>6. \A k \in Jobs : posts'[k] = posts[k] \/ Spends(k)
    BY <1>1, <2>2, <2>4, <2>5 DEF Spends, TypeOK
  <2>7. AttemptsKept
    BY <2>1, SameRows
  <2>8. QED
    BY <1>1, <2>1, <2>4, <2>6, <2>7, BudgetKeeps
<1>10. ASSUME NEW g \in Gateways, reconcile(g)
       PROVE  Budget'
  <2> DEFINE state == VendorState(review[g].status)
  <2>1. PICK j \in Jobs : review[g].job = j /\ review[g].status \in Statuses
    BY <1>1, <1>10 DEF reconcile, TypeOK, Answer
  <2> DEFINE row == [jobs[j] EXCEPT !.state = JobState(state), !.attempts = 0, !.lease = None]
  <2>2. jobs[j] # None /\ jobs[j] \in Job /\ IsDefender(j)
    BY <1>1, <1>10, <2>1 DEF reconcile, TypeOK, Known, Budget, ReviewsDefender
  <2>3. JobState(state) \in JobStates
    BY <2>1, VendorStateType, JobStateType
  <2>4. /\ row \in Job /\ row.connector = jobs[j].connector /\ row.config = jobs[j].config
    BY <2>2, <2>3 DEF Job
  <2>5. UNCHANGED jobs \/ Updated(j, row)
    BY <1>10, <2>1 DEF reconcile, databaseVars
  <2> HIDE DEF row
  <2>6. AttemptsKept
    BY <1>1, <2>2, <2>4, <2>5, UpdateRows, SameRows DEF IsWebhook
  <2>7. QED
    BY <1>1, <1>10, <2>6, CalmBudget DEF reconcile, providerVars, TypeOK, WorkersKept
<1>11. ASSUME NEW j \in Jobs, NEW o \in DOMAIN remote[j], settle(j, o)
       PROVE  Budget'
  BY <1>1, <1>11, SameRows, CalmBudget DEF settle, databaseVars, processVars, WorkersKept
<1>12. CASE UNCHANGED vars
  BY <1>1, <1>12, SameRows, CalmBudget DEF vars, WorkersKept
<1>13. ASSUME NEW g \in Gateways, tick(g)
       PROVE  Budget'
  BY <1>5, <1>6, <1>7, <1>8, <1>9, <1>13 DEF tick
<1>14. QED
  BY <1>2, <1>3, <1>4, <1>7, <1>10, <1>11, <1>12, <1>13 DEF Next

LEMMA InitBudget == Init => Budget
BY DEF Init, Budget, ReviewsDefender, ExchangesDefender, AttemptsDiffer, WithinLimit, IsWebhook, Claims, Idle

\* An endpoint sees a webhook job at most RetryLimit times: every request uses up
\* an attempt, no attempt belongs to two workers, and none is given back, whatever
\* dies, is claimed again or runs under other files.
THEOREM DeliveriesBounded == Spec => []BoundedDeliveries
<1>1. Init => IInv /\ Budget
  BY InitInv, InitBudget
<1>2. IInv /\ Budget /\ [Next]_vars => (IInv /\ Budget)'
  BY StepInv, StepBudget
<1>3. IInv /\ Budget => BoundedDeliveries
  <2> SUFFICES ASSUME IInv, Budget, NEW j \in Jobs, IsWebhook(j)
               PROVE  posts[j] <= RetryLimit
    BY DEF BoundedDeliveries, IsWebhook
  <2>1. /\ Open(j) \in SUBSET (1 .. RetryLimit) /\ posts[j] \in Nat /\ RetryLimit \in Nat
        /\ posts[j] + Cardinality(Open(j)) <= RetryLimit
    BY ExternalResponseAssumption DEF Open, IInv, TypeOK, Budget, WithinLimit
  <2>2. Cardinality(Open(j)) \in Nat
    BY <2>1, AttemptsFinite
  <2>3. QED
    BY <2>1, <2>2
<1>4. QED
  BY <1>1, <1>2, <1>3, PTL DEF Spec

-----------------------------------------------------------------------------
(* Failures are confirmed while the configuration stands *)

\* The files agree about each connector that is Defender in one of them.
DefenderStands ==
    \A f, h \in Files, name \in Connectors : IsVendor(f[name]) => h[name] = f[name]

Loaded(g) == \E f \in Files : \A name \in Connectors : config[<<g, name>>] = f[name]

\* Every process has the configuration of a Defender job, and so has its receipt.
Agreed(j) ==
    IsDefender(j) => /\ \A g \in Gateways : Unchanged(g, j)
                     /\ ops[j] # None => ops[j].config = jobs[j].config

HasFailed(j) == ops[j] # None /\ ops[j].state = "failed"

\* A worker that is about to record a failure, and may, has a reason.
Reason(g, j) ==
    work[g].result = "failed" /\ IsDefender(j) /\ HoldsLease(g) =>
        HasFailed(j) \/ work[g].attempt >= RetryLimit

Standing ==
    /\ \A g \in Gateways : Loaded(g)
    /\ \A j \in Jobs : Agreed(j)
    /\ \A g \in Gateways, j \in Jobs : work[g].pc = "finish" /\ work[g].job = j => Reason(g, j)

\* What a step does to the row and the receipt of a job: a new row has the
\* configuration of a process; a row that is running afterwards is the same or has a
\* new lease; a receipt that says failed stays while its row does; and a Defender job
\* fails for a reason.
RowMoves(k) ==
    /\ jobs[k] # None => /\ jobs'[k] # None /\ jobs'[k].connector = jobs[k].connector
                         /\ jobs'[k].config = jobs[k].config
    /\ jobs[k] = None /\ jobs'[k] # None =>
          /\ ops'[k] = None /\ jobs'[k].connector \in Connectors /\ config' = config
          /\ \E g \in Gateways : config[<<g, jobs'[k].connector>>] = jobs'[k].config
    /\ \/ jobs'[k] = jobs[k]
       \/ jobs'[k].state # "running"
       \/ jobs'[k].lease = jobs[k].revision + 1
    /\ jobs'[k] = jobs[k] /\ HasFailed(k) => HasFailed(k)'
    /\ IsDefender(k) /\ ops'[k] # None => ops'[k].config = jobs[k].config
    /\ IsDefender(k) /\ jobs[k].state # "failed" /\ jobs'[k].state = "failed" =>
          \/ HasFailed(k)'
          \/ \E g \in Gateways : work[g].job = k /\ work[g].result = "failed"
                                /\ work[g].attempt >= RetryLimit

\* What Updated makes of the rows.
LEMMA UpdatedIs ==
    ASSUME IInv, NEW j \in Jobs, NEW row \in Job, Updated(j, row)
    PROVE  /\ jobs'[j] # None /\ jobs'[j].state = row.state /\ jobs'[j].lease = row.lease
           /\ jobs'[j].connector = row.connector /\ jobs'[j].config = row.config
           /\ \A k \in Jobs : k # j => jobs'[k] = jobs[k]
<1> DEFINE new == [row EXCEPT !.revision = @ + 1]
<1>1. /\ new \in Job /\ new.connector = row.connector /\ new.config = row.config
      /\ new.state = row.state /\ new.lease = row.lease
  BY DEF Job
<1> HIDE DEF new
<1>2. \A k \in Jobs : jobs'[k] = IF k = j THEN new ELSE jobs[k]
  BY DEF Updated, new, IInv, TypeOK
<1>3. new # None
  BY <1>1, ExternalResponseAssumption
<1>4. QED
  BY <1>1, <1>2, <1>3

\* A step that leaves rows and receipts alone.
LEMMA RowsRest ==
    ASSUME Standing, NEW k \in Jobs, jobs'[k] = jobs[k], ops'[k] = ops[k]
    PROVE  RowMoves(k)
BY DEF RowMoves, Standing, Agreed, HasFailed

\* One row is updated and its receipt is not.
LEMMA RowUpdates ==
    ASSUME IInv, Standing, NEW j \in Jobs, jobs[j] # None, NEW row \in Job, Updated(j, row), ops' = ops,
           row.connector = jobs[j].connector, row.config = jobs[j].config,
           row.state = "running" => row.lease = jobs[j].revision + 1,
           IsDefender(j) /\ row.state = "failed" =>
              \/ HasFailed(j)
              \/ \E g \in Gateways : work[g].job = j /\ work[g].result = "failed"
                                    /\ work[g].attempt >= RetryLimit,
           NEW k \in Jobs
    PROVE  RowMoves(k)
<1>1. CASE k # j
  BY <1>1, UpdatedIs, RowsRest
<1>2. CASE k = j
  <2>1. /\ jobs'[j] # None /\ jobs'[j].state = row.state /\ jobs'[j].lease = row.lease
        /\ jobs'[j].connector = row.connector /\ jobs'[j].config = row.config
    BY UpdatedIs
  <2>2. IsDefender(j) /\ ops[j] # None => ops[j].config = jobs[j].config
    BY DEF Standing, Agreed
  <2>3. HasFailed(j)' <=> HasFailed(j)
    BY DEF HasFailed
  <2>4. QED
    BY <1>2, <2>1, <2>2, <2>3 DEF RowMoves
<1>3. QED
  BY <1>1, <1>2

\* The rows of every step.
LEMMA RowsMove ==
    ASSUME IInv, Truthful, Standing, [Next]_vars, NEW k \in Jobs
    PROVE  RowMoves(k)
<1>1. TypeOK /\ Known
  BY DEF IInv
<1>2. ASSUME NEW g \in Gateways, NEW j \in Jobs, NEW actor \in Operators, NEW name \in Connectors,
             create(g, j, actor, name)
      PROVE  RowMoves(k)
  <2>1. CASE k # j
    BY <1>1, <1>2, <2>1, RowsRest DEF create, TypeOK
  <2>2. CASE k = j
    <3>1. /\ jobs[j] = None /\ ops' = ops /\ jobs'[j].state = "awaiting_approval" /\ config' = config
          /\ jobs'[j].connector = name /\ jobs'[j].config = config[<<g, name>>]
      BY <1>1, <1>2 DEF create, TypeOK, processVars
    <3>2. ops[j] = None
      BY <1>1, <3>1 DEF Known
    <3>3. QED
      BY <2>2, <3>1, <3>2 DEF RowMoves, IsDefender, HasFailed
  <2>3. QED
    BY <2>1, <2>2
<1>3. ASSUME NEW j \in Jobs, NEW actor \in Operators, (\E g \in Gateways : approve(g, j, actor)) \/ cancel(j, actor)
      PROVE  RowMoves(k)
  <2>1. /\ jobs[j] # None /\ jobs[j] \in Job /\ ops' = ops
        /\ \E state \in {"ready", "cancelled"} : Updated(j, [jobs[j] EXCEPT !.state = state, !.approver = actor])
    BY <1>1, <1>3 DEF approve, cancel, TypeOK
  <2>2. PICK state \in {"ready", "cancelled"} : Updated(j, [jobs[j] EXCEPT !.state = state, !.approver = actor])
    BY <2>1
  <2> DEFINE row == [jobs[j] EXCEPT !.state = state, !.approver = actor]
  <2>3. /\ row \in Job /\ row.connector = jobs[j].connector /\ row.config = jobs[j].config
        /\ row.state = state
    BY <2>1 DEF Job, JobStates
  <2>4. Updated(j, row)
    BY <2>2
  <2> HIDE DEF row
  <2>5. QED
    BY <2>1, <2>3, <2>4, RowUpdates
<1>4. ASSUME NEW g \in Gateways, NEW j \in Jobs, claim(g, j)
      PROVE  RowMoves(k)
  <2>1. jobs[j] # None /\ jobs[j] \in Job /\ ops' = ops
    BY <1>1, <1>4 DEF claim, Claimable, TypeOK
  <2>2. CASE GiveUp(g, j)
    <3> DEFINE row == [jobs[j] EXCEPT !.state = GivenUp(g, j)]
    <3>1. /\ row \in Job /\ row.connector = jobs[j].connector /\ row.config = jobs[j].config
          /\ row.state = GivenUp(g, j) /\ row.state # "running"
      BY <2>1 DEF Job, JobStates, GivenUp
    <3>2. Updated(j, row)
      BY <2>2 DEF GiveUp
    <3>3. IsDefender(j) => GivenUp(g, j) = "uncertain"
      <4>1. IsDefender(j) => Current(g, j) = jobs[j].config /\ jobs[j].config \in Configs
        BY <2>1 DEF Standing, Agreed, Unchanged, Job
      <4>2. QED
        BY <4>1, ExternalResponseAssumption DEF IsDefender, IsVendor, GivenUp
    <3> HIDE DEF row
    <3>4. IsDefender(j) /\ row.state = "failed" => HasFailed(j)
      BY <3>1, <3>3
    <3>5. row.state = "running" => row.lease = jobs[j].revision + 1
      BY <3>1
    <3>6. QED
      BY <2>1, <3>1, <3>2, <3>4, <3>5, RowUpdates
  <2>3. CASE Take(g, j)
    <3> DEFINE lease == jobs[j].revision + 1
               row   == [jobs[j] EXCEPT !.state = "running", !.lease = lease,
                                        !.attempts = jobs[j].attempts + 1]
    <3>1. lease \in Nat /\ jobs[j].attempts + 1 \in Nat
      BY <2>1 DEF Job
    <3>2. /\ row \in Job /\ row.connector = jobs[j].connector /\ row.config = jobs[j].config
          /\ row.state = "running" /\ row.lease = lease
      BY <2>1, <3>1 DEF Job, JobStates
    <3>3. Updated(j, row)
      BY <2>3 DEF Take
    <3> HIDE DEF row
    <3>4. row.state # "failed"
      BY <3>2
    <3>5. QED
      BY <2>1, <3>2, <3>3, <3>4, RowUpdates
  <2>4. QED
    BY <1>4, <2>2, <2>3 DEF claim
<1>5. ASSUME NEW g \in Gateways, finish(g)
      PROVE  RowMoves(k)
  <2>1. PICK j \in Jobs : work[g].job = j
    BY <1>1, <1>5 DEF finish, TypeOK
  <2>2. jobs[j] # None /\ jobs[j] \in Job /\ ops' = ops /\ work[g].pc = "finish"
    BY <1>1, <1>5, <2>1 DEF finish, Known, TypeOK
  <2>3. CASE ~ HoldsLease(g)
    BY <1>5, <2>2, <2>3, RowsRest DEF finish
  <2>4. CASE HoldsLease(g)
    <3> DEFINE row == [jobs[j] EXCEPT !.state = work[g].result, !.lease = None]
    <3>1. work[g].result \in JobStates /\ work[g].result # "running"
      BY <1>1, <2>1, <2>2 DEF Known, Truthful, WorkReal
    <3>2. /\ row \in Job /\ row.connector = jobs[j].connector /\ row.config = jobs[j].config
          /\ row.state = work[g].result
      BY <2>2, <3>1 DEF Job
    <3>3. Updated(j, row)
      BY <1>5, <2>1, <2>4 DEF finish
    <3>4. Reason(g, j)
      BY <2>1, <2>2 DEF Standing
    <3> HIDE DEF row
    <3>5. IsDefender(j) /\ row.state = "failed" =>
              \/ HasFailed(j)
              \/ \E h \in Gateways : work[h].job = j /\ work[h].result = "failed"
                                    /\ work[h].attempt >= RetryLimit
      BY <2>1, <2>4, <3>2, <3>4 DEF Reason
    <3>6. QED
      BY <2>2, <3>1, <3>2, <3>3, <3>5, RowUpdates
  <2>5. QED
    BY <2>3, <2>4
<1>6. ASSUME NEW g \in Gateways, reconcile(g)
      PROVE  RowMoves(k)
  <2> DEFINE state == VendorState(review[g].status)
  <2>1. PICK j \in Jobs : review[g].job = j /\ review[g].status \in Statuses
    BY <1>1, <1>6 DEF reconcile, TypeOK, Answer
  <2>2. jobs[j] # None /\ jobs[j] \in Job
    BY <1>1, <1>6, <2>1 DEF reconcile, Known, TypeOK
  <2>3. CASE UNCHANGED databaseVars
    BY <2>3, RowsRest DEF databaseVars
  <2>4. CASE ~ UNCHANGED databaseVars
    <3> DEFINE row == [jobs[j] EXCEPT !.state = JobState(state), !.attempts = 0, !.lease = None]
    <3>1. /\ CurrentRow(g) /\ ops[j] # None /\ ops[j].config = jobs[j].config
          /\ Updated(j, row)
          /\ ops' = [ops EXCEPT ![j].state = state, ![j].operation = review[g].operation]
      BY <1>6, <2>1, <2>4 DEF reconcile
    <3>2. state \in {"completed", "pending", "failed"} /\ JobState(state) \in {"completed", "ready", "failed"}
      BY <2>1 DEF Statuses, VendorState, JobState
    <3>3. /\ row \in Job /\ row.connector = jobs[j].connector /\ row.config = jobs[j].config
          /\ row.state = JobState(state)
      BY <2>2, <3>2 DEF Job, JobStates
    <3>4. jobs[j].state = "uncertain"
      BY <2>1, <3>1 DEF CurrentRow
    <3> HIDE DEF row
    <3>5. /\ jobs'[j] # None /\ jobs'[j].state = JobState(state)
          /\ jobs'[j].connector = jobs[j].connector /\ jobs'[j].config = jobs[j].config
          /\ \A i \in Jobs : i # j => jobs'[i] = jobs[i]
      BY <3>1, <3>3, UpdatedIs
    <3>6. ops[j] \in Operation
      BY <1>1, <3>1 DEF TypeOK
    <3>7. /\ ops'[j].state = state /\ ops'[j].config = ops[j].config /\ ops'[j] # None
          /\ \A i \in Jobs : i # j => ops'[i] = ops[i]
      <4> DEFINE new == [ops[j] EXCEPT !.state = state, !.operation = review[g].operation]
      <4>1. new.state = state /\ new.config = ops[j].config
        BY <3>6 DEF Operation
      <4>2. new \in Operation
        <5>1. review[g].operation \in Nat
          BY <1>1, <1>6 DEF TypeOK, Answer, reconcile
        <5>2. state \in VendorStates
          BY <3>2 DEF VendorStates
        <5> HIDE DEF state
        <5>3. QED
          BY <3>6, <5>1, <5>2 DEF Operation
      <4>3. ops' = [ops EXCEPT ![j] = new]
        BY <3>1
      <4> HIDE DEF new
      <4>4. \A i \in Jobs : ops'[i] = IF i = j THEN new ELSE ops[i]
        BY <1>1, <4>3 DEF TypeOK
      <4>5. QED
        BY <4>1, <4>2, <4>4, ExternalResponseAssumption
    <3> HIDE DEF state
    <3>8. CASE k # j
      BY <3>5, <3>7, <3>8, RowsRest
    <3>9. CASE k = j
      <4>1. JobState(state) = "failed" => state = "failed"
        BY <3>2 DEF JobState
      <4>2. jobs'[k] # jobs[k]
        BY <3>2, <3>4, <3>5, <3>9
      <4>3. jobs'[j].state # "running"
        BY <3>2, <3>5
      <4>4. HasFailed(j)' <=> state = "failed"
        BY <3>7 DEF HasFailed
      <4> HIDE DEF state
      <4>5. ops'[j].config = jobs[j].config
        BY <3>1, <3>7
      <4>6. IsDefender(j) /\ jobs[j].state # "failed" /\ jobs'[j].state = "failed" => HasFailed(j)'
        BY <3>5, <4>1, <4>4
      <4>7. QED
        BY <2>2, <3>5, <3>9, <4>2, <4>3, <4>5, <4>6 DEF RowMoves
    <3>10. QED
      BY <3>8, <3>9
  <2>5. QED
    BY <2>3, <2>4
<1>7. ASSUME NEW g \in Gateways, intend(g)
      PROVE  RowMoves(k)
  <2>1. PICK j \in Jobs : work[g].job = j
    BY <1>1, <1>7 DEF intend, TypeOK
  <2>2. jobs' = jobs /\ Unchanged(g, j)
    BY <1>7, <2>1 DEF intend, MaySend
  <2>3. CASE ops' = ops
    BY <2>2, <2>3, RowsRest
  <2>4. CASE ops' # ops
    <3> DEFINE intent == [state |-> "submitting", operation |-> None, config |-> Current(g, j)]
    <3>1. ops[j] = None /\ ops' = [ops EXCEPT ![j] = intent]
      BY <1>7, <2>1, <2>4 DEF intend, FirstIntent
    <3>2. intent.config = jobs[j].config
      BY <2>2 DEF Unchanged
    <3> HIDE DEF intent
    <3>3. \A i \in Jobs : ops'[i] = IF i = j THEN intent ELSE ops[i]
      BY <1>1, <3>1 DEF TypeOK
    <3>4. CASE k # j
      BY <2>2, <3>3, <3>4, RowsRest
    <3>5. CASE k = j
      BY <2>2, <3>1, <3>2, <3>3, <3>5 DEF RowMoves, HasFailed
    <3>6. QED
      BY <3>4, <3>5
  <2>5. QED
    BY <2>3, <2>4
<1>8. ASSUME NEW g \in Gateways, save(g)
      PROVE  RowMoves(k)
  <2>1. PICK j \in Jobs : work[g].job = j
    BY <1>1, <1>8 DEF save, TypeOK
  <2>2. jobs' = jobs
    BY <1>8 DEF save
  <2>3. CASE ~ Unsettled(j)
    BY <1>8, <2>1, <2>2, <2>3, RowsRest DEF save
  <2>4. CASE Unsettled(j)
    <3> DEFINE new == [ops[j] EXCEPT !.state = work[g].result, !.operation = work[g].operation]
    <3>1. ops[j] \in Operation /\ ops[j] # None /\ ~ HasFailed(j)
      BY <1>1, <2>4 DEF TypeOK, Unsettled, HasFailed
    <3>2. new.config = ops[j].config
      BY <3>1 DEF Operation
    <3>3. ops' = [ops EXCEPT ![j] = new]
      BY <1>8, <2>1, <2>4 DEF save
    <3> HIDE DEF new
    <3>4. \A i \in Jobs : ops'[i] = IF i = j THEN new ELSE ops[i]
      BY <1>1, <3>3 DEF TypeOK
    <3>5. IsDefender(j) => ops[j].config = jobs[j].config
      BY <3>1 DEF Standing, Agreed
    <3>6. CASE k # j
      BY <2>2, <3>4, <3>6, RowsRest
    <3>7. CASE k = j
      BY <2>2, <3>1, <3>2, <3>4, <3>5, <3>7 DEF RowMoves
    <3>8. QED
      BY <3>6, <3>7
  <2>5. QED
    BY <2>3, <2>4
<1>9. CASE UNCHANGED databaseVars
  BY <1>9, RowsRest DEF databaseVars
<1>10. QED
  <2>1. ASSUME NEW g \in Gateways, tick(g)
        PROVE  RowMoves(k)
    BY <1>4, <1>5, <1>7, <1>8, <1>9, <2>1
       DEF tick, refuse, send, submit, poll, fault, abandon, databaseVars
  <2>2. CASE UNCHANGED vars
    BY <1>9, <2>2 DEF vars, databaseVars
  <2>3. ASSUME NEW g \in Gateways, NEW j \in Jobs, NEW actor \in Operators, verify(g, j, actor)
        PROVE  RowMoves(k)
    BY <1>9, <2>3 DEF verify
  <2>4. ASSUME NEW g \in Gateways, NEW files \in Files, restart(g, files)
        PROVE  RowMoves(k)
    BY <1>9, <2>4 DEF restart
  <2>5. ASSUME NEW j \in Jobs, NEW o \in DOMAIN remote[j], settle(j, o)
        PROVE  RowMoves(k)
    BY <1>9, <2>5 DEF settle
  <2>6. QED
    BY <1>2, <1>3, <1>6, <2>1, <2>2, <2>3, <2>4, <2>5 DEF Next

\* A lease that holds after a step held before it, over the same row.
LEMMA LeaseHeld ==
    ASSUME IInv, Truthful, NEW h \in Gateways, NEW j \in Jobs, RowMoves(j),
           work[h].pc # "idle", work[h].job = j,
           work'[h].job = j, work'[h].lease = work[h].lease, HoldsLease(h)'
    PROVE  HoldsLease(h) /\ jobs'[j] = jobs[j] /\ (HasFailed(j) => HasFailed(j)')
<1>1. jobs'[j].state = "running" /\ jobs'[j].lease = work[h].lease
  BY DEF HoldsLease
<1>2. work[h].lease \in Nat /\ work[h].lease <= jobs[j].revision
  BY DEF Truthful, WorkReal
<1>3. jobs[j] \in Job
  BY DEF IInv, TypeOK, Known
<1>4. jobs[j].revision \in Nat
  BY <1>3 DEF Job
<1>5. jobs'[j] = jobs[j]
  BY <1>1, <1>2, <1>4 DEF RowMoves
<1>6. QED
  BY <1>1, <1>5 DEF RowMoves, HoldsLease

\* What a worker takes to its last transaction, if it is a failure, is confirmed.
LEMMA OutcomeReasoned ==
    ASSUME IInv, Truthful, Standing, NEW g \in Gateways, NEW j \in Jobs, work[g].job = j,
           refuse(g) \/ send(g) \/ intend(g) \/ poll(g) \/ save(g) \/ fault(g),
           IsDefender(j), work'[g].pc = "finish", work'[g].result = "failed"
    PROVE  HasFailed(j)' \/ work[g].attempt >= RetryLimit
<1>1. /\ TypeOK /\ Known /\ jobs[j] # None /\ jobs[j] \in Job /\ work \in [Gateways -> Claimed]
      /\ work[g] \in Claimed
  BY DEF IInv, TypeOK, IsDefender
<1>2. Unchanged(g, j) /\ IsVendor(Current(g, j))
  <2>1. Unchanged(g, j)
    BY DEF Standing, Agreed
  <2>2. jobs[j].config # None
    BY <1>1, ExternalResponseAssumption DEF Job
  <2>3. QED
    BY <2>1, <2>2 DEF Unchanged, IsVendor, IsDefender
<1>3. ops[j] # None => ops[j].config = Current(g, j)
  BY <1>2 DEF Standing, Agreed, Unchanged
<1>4. ASSUME NEW state, Outcome(g, state) PROVE state = "failed"
  BY <1>1, <1>4 DEF Outcome, Claimed
<1>5. ASSUME NEW operation, NEW state, Record(g, operation, state) \/ Exchange(g, operation)
      PROVE  FALSE
  BY <1>1, <1>5 DEF Record, Exchange, Claimed
<1>6. CASE refuse(g)
  BY <1>2, <1>6 DEF refuse, MaySend
<1>7. CASE send(g)
  BY <1>2, <1>7 DEF send
<1>8. CASE intend(g)
  <2>1. ~ FirstIntent(j) /\ ops' = ops
    BY <1>5, <1>8 DEF intend
  <2>2. ops[j] # None /\ ops[j] \in Operation
    BY <1>1, <2>1 DEF FirstIntent, TypeOK
  <2>3. CASE ops[j].state = "pending"
    BY <1>3, <1>5, <1>8, <2>1, <2>2, <2>3 DEF intend
  <2>4. CASE ops[j].state \in {"submitting", "uncertain"}
    BY <1>3, <1>4, <1>8, <2>1, <2>2, <2>4 DEF intend
  <2>5. CASE ops[j].state \notin {"pending", "submitting", "uncertain"}
    <3>1. Outcome(g, ops[j].state)
      BY <1>3, <1>8, <2>1, <2>2, <2>5 DEF intend
    <3>2. ops[j].state = "failed"
      BY <1>4, <3>1
    <3>3. QED
      BY <2>1, <2>2, <3>2 DEF HasFailed
  <2>6. QED
    BY <2>3, <2>4, <2>5
<1>9. CASE poll(g)
  <2>1. Outcome(g, "ready")
    BY <1>5, <1>9 DEF poll
  <2>2. QED
    BY <1>4, <2>1
<1>10. CASE save(g)
  <2>1. work[g].pc = "save" /\ Outcome(g, JobState(work[g].result))
    BY <1>10 DEF save
  <2>2. work[g].result = "failed" /\ work[g].result # "uncertain"
    BY <1>4, <2>1 DEF JobState
  <2>3. WorkReal(g, j) /\ ReceiptReal(j)
    BY <2>1 DEF Truthful
  <2>4. /\ ops[j] # None /\ ops[j] \in Operation /\ work[g].operation \in DOMAIN remote[j]
        /\ remote[j][work[g].operation] = "Failed"
    BY <1>1, <2>1, <2>2, <2>3 DEF WorkReal, Known, TypeOK
  <2>5. CASE Unsettled(j)
    <3> DEFINE new == [ops[j] EXCEPT !.state = work[g].result, !.operation = work[g].operation]
    <3>1. ops' = [ops EXCEPT ![j] = new]
      BY <1>10, <2>5 DEF save
    <3>2. new.state = "failed" /\ new \in Operation
      BY <1>1, <2>2, <2>4 DEF Operation, VendorStates, Claimed
    <3> HIDE DEF new
    <3>3. ops'[j] = new /\ new # None
      BY <1>1, <3>1, <3>2, ExternalResponseAssumption DEF TypeOK
    <3>4. QED
      BY <3>2, <3>3 DEF HasFailed
  <2>6. CASE ~ Unsettled(j)
    <3>1. ops[j].state \in {"completed", "failed"} /\ ops' = ops
      BY <1>10, <2>4, <2>6 DEF save, Unsettled
    <3>2. CASE ops[j].state = "completed"
      <4>1. /\ ops[j].operation \in DOMAIN remote[j]
            /\ remote[j][ops[j].operation] = "Succeeded"
        BY <1>1, <2>3, <2>4, <3>2 DEF ReceiptReal, Known
      <4>2. Len(remote[j]) <= 1
        BY <1>1 DEF Truthful, ActionsKnown, IInv, Exclusive, TypeOK
      <4>3. work[g].operation = ops[j].operation
        BY <1>1, <2>4, <4>1, <4>2 DEF TypeOK
      <4>4. QED
        BY <2>4, <4>1, <4>3
    <3>3. QED
      BY <2>4, <3>1, <3>2 DEF HasFailed
  <2>7. QED
    BY <2>5, <2>6
<1>11. CASE fault(g)
  <2>1. AfterFault(g) = "failed"
    BY <1>4, <1>11 DEF fault
  <2>2. QED
    BY <2>1 DEF AfterFault
<1>12. QED
  BY <1>6, <1>7, <1>8, <1>9, <1>10, <1>11

\* A worker that does not move has the reason it had, and others get theirs.
LEMMA ReasonKept ==
    ASSUME IInv, IInv', Truthful, Standing, NEW h \in Gateways, NEW j \in Jobs, RowMoves(j),
           work'[h].pc = "finish", work'[h].job = j,
           \/ work'[h] = work[h]
           \/ /\ work[h].pc # "idle" /\ work[h].job = j
              /\ work'[h].lease = work[h].lease /\ work'[h].attempt = work[h].attempt
              /\ work'[h].result = "failed" /\ IsDefender(j) =>
                    HasFailed(j)' \/ work[h].attempt >= RetryLimit
    PROVE  Reason(h, j)'
<1> SUFFICES ASSUME work'[h].result = "failed", IsDefender(j)', HoldsLease(h)'
             PROVE  HasFailed(j)' \/ work'[h].attempt >= RetryLimit
  BY DEF Reason
<1>1. HoldsLease(h) /\ jobs'[j] = jobs[j] /\ (HasFailed(j) => HasFailed(j)')
  BY LeaseHeld
<1>2. IsDefender(j)
  BY <1>1 DEF IsDefender
<1>3. CASE work'[h] = work[h]
  BY <1>1, <1>2, <1>3 DEF Standing, Reason
<1>4. CASE work'[h] # work[h]
  BY <1>2, <1>4
<1>5. QED
  BY <1>3, <1>4

\* What a tick makes of the worker.
LEMMA TickReasoned ==
    ASSUME IInv, IInv', Truthful, Standing, NEW g \in Gateways, tick(g), \A k \in Jobs : RowMoves(k),
           NEW h \in Gateways, NEW j \in Jobs, work'[h].pc = "finish", work'[h].job = j
    PROVE  Reason(h, j)'
<1>1. work \in [Gateways -> Claimed] /\ work[g] \in Claimed
  BY DEF IInv, TypeOK
<1>2. h # g => work'[h] = work[h]
  <2> SUFFICES ASSUME h # g PROVE work'[h] = work[h]
    OBVIOUS
  <2>1. ASSUME NEW operation, NEW state,
               Outcome(g, state) \/ Record(g, operation, state) \/ Exchange(g, operation)
        PROVE  work'[h] = work[h]
    BY <1>1, <2>1 DEF Outcome, Record, Exchange
  <2>2. CASE refuse(g) \/ send(g) \/ submit(g) \/ poll(g) \/ save(g) \/ fault(g)
    BY <2>1, <2>2 DEF refuse, send, submit, poll, save, fault
  <2>3. CASE intend(g)
    BY <2>1, <2>3 DEF intend
  <2>4. CASE finish(g) \/ abandon(g)
    BY <1>1, <2>4 DEF finish, abandon
  <2>5. ASSUME NEW i \in Jobs, claim(g, i) PROVE work'[h] = work[h]
    BY <1>1, <2>5 DEF claim, GiveUp, Take
  <2>6. QED
    BY <2>2, <2>3, <2>4, <2>5 DEF tick
<1>3. CASE h # g
  BY <1>2, <1>3, ReasonKept
<1>4. CASE h = g
  <2>1. \/ refuse(g) \/ send(g) \/ intend(g) \/ submit(g) \/ poll(g) \/ save(g) \/ fault(g)
        \/ work'[g] = work[g]
    <3>1. finish(g) \/ abandon(g) => work'[g].pc = "idle"
      BY <1>1 DEF finish, abandon, Idle
    <3>2. ASSUME NEW i \in Jobs, claim(g, i) PROVE work'[g] = work[g] \/ work'[g].pc = "claimed"
      BY <1>1, <3>2 DEF claim, GiveUp, Take
    <3>3. QED
      BY <1>4, <3>1, <3>2 DEF tick
  <2>2. CASE work'[g] = work[g]
    BY <1>4, <2>2, ReasonKept
  <2>3. CASE submit(g)
    BY <1>1, <1>4, <2>3 DEF submit, Record, Claimed
  <2>4. CASE refuse(g) \/ send(g) \/ intend(g) \/ poll(g) \/ save(g) \/ fault(g)
    <3>1. /\ work[g].pc # "idle" /\ work'[g].job = work[g].job
          /\ work'[g].lease = work[g].lease /\ work'[g].attempt = work[g].attempt
      BY <1>1, <2>4 DEF refuse, send, intend, poll, save, fault, Outcome, Exchange, Record, Claimed
    <3>2. work'[g].result = "failed" /\ IsDefender(j) =>
             HasFailed(j)' \/ work[g].attempt >= RetryLimit
      BY <1>4, <2>4, <3>1, OutcomeReasoned
    <3>3. QED
      BY <1>4, <3>1, <3>2, ReasonKept
  <2>5. QED
    BY <2>1, <2>2, <2>3, <2>4
<1>5. QED
  BY <1>3, <1>4

\* What is neither a tick nor a start moves no worker and no configuration.
LEMMA OthersRest ==
    ASSUME [Next]_vars
    PROVE  \/ config' = config /\ work' = work
           \/ \E g \in Gateways : tick(g)
           \/ \E g \in Gateways, files \in Files : restart(g, files)
<1>1. ASSUME NEW g \in Gateways, NEW j \in Jobs, NEW actor \in Operators, NEW name \in Connectors,
             create(g, j, actor, name)
      PROVE  config' = config /\ work' = work
  BY <1>1 DEF create, processVars
<1>2. ASSUME NEW g \in Gateways, NEW j \in Jobs, NEW actor \in Operators,
             approve(g, j, actor) \/ verify(g, j, actor)
      PROVE  config' = config /\ work' = work
  BY <1>2 DEF approve, verify, processVars
<1>3. ASSUME NEW j \in Jobs, NEW actor \in Operators, cancel(j, actor)
      PROVE  config' = config /\ work' = work
  BY <1>3 DEF cancel, processVars
<1>4. ASSUME NEW g \in Gateways, reconcile(g)
      PROVE  config' = config /\ work' = work
  BY <1>4 DEF reconcile
<1>5. ASSUME NEW j \in Jobs, NEW o \in DOMAIN remote[j], settle(j, o)
      PROVE  config' = config /\ work' = work
  BY <1>5 DEF settle, processVars
<1>6. CASE UNCHANGED vars
  BY <1>6 DEF vars
<1>7. QED
  BY <1>1, <1>2, <1>3, <1>4, <1>5, <1>6 DEF Next

\* A process reads its configuration when it starts, and its worker moves by a tick.
LEMMA ConfigMoves ==
    ASSUME [Next]_vars
    PROVE  config' = config \/ \E g \in Gateways, files \in Files : restart(g, files)
<1>1. ASSUME NEW g \in Gateways, tick(g) PROVE config' = config
  <2>1. CASE \E j \in Jobs : claim(g, j)
    BY <2>1 DEF claim
  <2>2. CASE refuse(g) \/ send(g) \/ intend(g)
    BY <2>2 DEF refuse, send, intend
  <2>3. CASE submit(g) \/ poll(g) \/ save(g)
    BY <2>3 DEF submit, poll, save
  <2>4. CASE fault(g) \/ finish(g) \/ abandon(g)
    BY <2>4 DEF fault, finish, abandon
  <2>5. QED
    BY <1>1, <2>1, <2>2, <2>3, <2>4 DEF tick
<1>2. QED
  BY <1>1, OthersRest


LEMMA WorkMoves ==
    ASSUME [Next]_vars
    PROVE  \/ work' = work
           \/ \E g \in Gateways : tick(g)
           \/ \E g \in Gateways, files \in Files : restart(g, files)
BY OthersRest

\* A process that starts reads what the others have read of a Defender connector.
LEMMA StepAgrees ==
    ASSUME DefenderStands, IInv, Standing, [Next]_vars, NEW j \in Jobs, RowMoves(j)
    PROVE  Agreed(j)'
<1> SUFFICES ASSUME IsDefender(j)'
             PROVE  /\ \A h \in Gateways : Unchanged(h, j)'
                    /\ ops'[j] # None => ops'[j].config = jobs'[j].config
  BY DEF Agreed
<1> DEFINE name == jobs'[j].connector
           c    == jobs'[j].config
<1>1. jobs'[j] # None /\ Kind[c] = "defender"
  BY DEF IsDefender
<1>2. ASSUME NEW h \in Gateways, config'[<<h, name>>] = c PROVE Unchanged(h, j)'
  BY <1>2 DEF Unchanged, Current
<1>3. CASE jobs[j] = None
  <2>1. PICK g \in Gateways : config[<<g, name>>] = c
    BY <1>1, <1>3 DEF RowMoves
  <2>2. ops'[j] = None /\ name \in Connectors /\ config' = config
    BY <1>1, <1>3 DEF RowMoves
  <2> HIDE DEF name, c
  <2>3. PICK f \in Files : \A n \in Connectors : config[<<g, n>>] = f[n]
    BY DEF Standing, Loaded
  <2>4. CASE c # None
    <3>1. IsVendor(f[name])
      BY <1>1, <2>1, <2>2, <2>3, <2>4 DEF IsVendor
    <3>2. ASSUME NEW h \in Gateways PROVE config'[<<h, name>>] = c
      <4>1. PICK x \in Files : \A n \in Connectors : config[<<h, n>>] = x[n]
        BY DEF Standing, Loaded
      <4>2. x[name] = f[name]
        BY <2>2, <3>1 DEF DefenderStands
      <4>3. QED
        BY <2>1, <2>2, <2>3, <4>1, <4>2
    <3>3. QED
      BY <1>2, <2>2, <3>2
  <2>5. CASE c = None
    <3>1. jobs'[j] \in Job
      BY <1>1, StepInv DEF IInv, TypeOK
    <3>2. QED
      BY <2>5, <3>1, ExternalResponseAssumption DEF Job, c
  <2>6. QED
    BY <2>4, <2>5
<1>4. CASE jobs[j] # None
  <2>1. name = jobs[j].connector /\ c = jobs[j].config /\ jobs[j] \in Job
    BY <1>4 DEF RowMoves, IInv, TypeOK
  <2>2. c # None /\ name \in Connectors
    BY <2>1, ExternalResponseAssumption DEF Job
  <2>3. IsDefender(j)
    BY <1>1, <1>4, <2>1 DEF IsDefender
  <2>4. \A h \in Gateways : config[<<h, name>>] = c
    BY <2>1, <2>3 DEF Standing, Agreed, Unchanged, Current
  <2>5. ops'[j] # None => ops'[j].config = c
    BY <2>1, <2>3 DEF RowMoves
  <2>10. Kind[c] = "defender"
    BY <1>1
  <2> HIDE DEF name, c
  <2>6. CASE config' = config
    BY <1>2, <2>4, <2>5, <2>6 DEF c
  <2>7. ASSUME NEW g \in Gateways, NEW files \in Files, restart(g, files)
        PROVE  \A h \in Gateways : config'[<<h, name>>] = c
    <3>1. PICK f \in Files : \A n \in Connectors : config[<<g, n>>] = f[n]
      BY DEF Standing, Loaded
    <3>2. files[name] = c
      <4>1. f[name] = c
        BY <2>2, <2>4, <3>1
      <4>2. IsVendor(f[name])
        BY <2>2, <2>10, <4>1 DEF IsVendor
      <4>3. QED
        BY <2>2, <4>1, <4>2 DEF DefenderStands
    <3>3. ASSUME NEW h \in Gateways PROVE config'[<<h, name>>] = c
      <4>1. <<h, name>> \in Gateways \X Connectors /\ <<h, name>>[1] = h /\ <<h, name>>[2] = name
        BY <2>2
      <4>2. config'[<<h, name>>] = IF h = g THEN files[name] ELSE config[<<h, name>>]
        BY <2>7, <4>1 DEF restart
      <4>3. QED
        BY <2>4, <3>2, <4>2
    <3>4. QED
      BY <3>3
  <2>8. config' = config \/ \E g \in Gateways, files \in Files : restart(g, files)
    BY ConfigMoves
  <2>9. QED
    BY <1>2, <2>5, <2>6, <2>7, <2>8 DEF c
<1>5. QED
  BY <1>3, <1>4

LEMMA StepStands ==
    ASSUME DefenderStands, IInv, Truthful, Standing, [Next]_vars
    PROVE  Standing' /\ FailsAsConfirmed
<1>1. IInv'
  BY StepInv
<1>2. \A k \in Jobs : RowMoves(k)
  BY RowsMove
<1>3. \A j \in Jobs : Agreed(j)'
  BY <1>2, StepAgrees
<1>4. ASSUME NEW h \in Gateways PROVE Loaded(h)'
  <2>1. PICK f \in Files : \A n \in Connectors : config[<<h, n>>] = f[n]
    BY DEF Standing, Loaded
  <2>2. CASE config' = config
    BY <2>1, <2>2 DEF Loaded
  <2>3. ASSUME NEW g \in Gateways, NEW files \in Files, restart(g, files) PROVE Loaded(h)'
    <3>1. ASSUME NEW n \in Connectors
          PROVE  config'[<<h, n>>] = IF h = g THEN files[n] ELSE config[<<h, n>>]
      <4>1. <<h, n>> \in Gateways \X Connectors /\ <<h, n>>[1] = h /\ <<h, n>>[2] = n
        OBVIOUS
      <4>2. QED
        BY <2>3, <4>1 DEF restart
    <3>2. CASE h = g
      BY <3>1, <3>2 DEF Loaded
    <3>3. CASE h # g
      BY <2>1, <3>1, <3>3 DEF Loaded
    <3>4. QED
      BY <3>2, <3>3
  <2>4. QED
    BY <2>2, <2>3, ConfigMoves
<1>5. ASSUME NEW h \in Gateways, NEW j \in Jobs, work'[h].pc = "finish", work'[h].job = j
      PROVE  Reason(h, j)'
  <2>1. ASSUME NEW g \in Gateways, tick(g) PROVE Reason(h, j)'
    BY <1>1, <1>2, <1>5, <2>1, TickReasoned
  <2>2. CASE work'[h] = work[h]
    BY <1>1, <1>2, <1>5, <2>2, ReasonKept
  <2>3. ASSUME NEW g \in Gateways, NEW files \in Files, restart(g, files) PROVE Reason(h, j)'
    <3>1. work'[h] = IF h = g THEN Idle ELSE work[h]
      BY <2>3 DEF restart, IInv, TypeOK
    <3>2. QED
      BY <1>5, <2>2, <3>1 DEF Idle
  <2>4. work' = work => work'[h] = work[h]
    OBVIOUS
  <2>5. QED
    BY <2>1, <2>2, <2>3, <2>4, WorkMoves
<1>6. FailsAsConfirmed
  BY <1>2 DEF FailsAsConfirmed, RowMoves, HasFailed
<1>7. QED
  BY <1>3, <1>4, <1>5, <1>6 DEF Standing

LEMMA InitStanding == Init => Standing
<1> SUFFICES ASSUME Init PROVE Standing
  OBVIOUS
<1>1. PICK read \in [Gateways -> Files] : config = [x \in Gateways \X Connectors |-> read[x[1]][x[2]]]
  BY DEF Init
<1>2. ASSUME NEW g \in Gateways PROVE Loaded(g)
  <2>1. ASSUME NEW n \in Connectors PROVE config[<<g, n>>] = read[g][n]
    <3>1. <<g, n>> \in Gateways \X Connectors /\ <<g, n>>[1] = g /\ <<g, n>>[2] = n
      OBVIOUS
    <3>2. QED
      BY <1>1, <3>1
  <2>2. QED
    BY <2>1 DEF Loaded
<1>3. QED
  BY <1>2 DEF Init, Standing, Agreed, IsDefender, Idle

\* While the files agree about Defender connectors, a Defender job fails only when its
\* action did or its worker's own transaction failed from the retry limit on: no lost
\* answer, ended lease, late worker or exhausted polling makes it fail.
THEOREM FailureHolds ==
    ASSUME DefenderStands
    PROVE  Spec => FailureIsConfirmed
<1>1. Init => IInv /\ Truthful /\ Standing
  BY InitInv, InitTrue, InitStanding
<1>2. IInv /\ Truthful /\ Standing /\ [Next]_vars => (IInv /\ Truthful /\ Standing)' /\ FailsAsConfirmed
  BY StepInv, StepTrue, StepStands
<1>3. QED
  BY <1>1, <1>2, PTL DEF Spec, FailureIsConfirmed

-----------------------------------------------------------------------------
(* The promise about approved actions *)

\* Who decided stands in the row once it is decided, and the provider has actions
\* of a job only after requests that reached it.
Traced ==
    \A j \in Jobs :
        /\ jobs[j] # None /\ jobs[j].state = "awaiting_approval" => jobs[j].approver = None
        /\ remote[j] # <<>> => posts[j] > 0

AskInv == IInv /\ Authorized /\ Truthful /\ Budget /\ Traced

\* The request that a row of a job stands for.
RowAsks(j, row) ==
    [requester |-> row.requester,
     approver  |-> IF row.state = "cancelled" THEN None ELSE row.approver,
     state     |-> Stage(row.state), acts |-> posts[j],
     budget    |-> IF Kind[row.config] = "defender" THEN Once ELSE Retried]

\* The request of a job that is there.
LEMMA RequestIs ==
    ASSUME NEW j \in Jobs, jobs[j] # None
    PROVE  Requests[j] = RowAsks(j, jobs[j])
BY DEF Requests, RequestOf, RowAsks, IsDefender

\* An update of a job's row changes its request and no other.
LEMMA UpdateAsks ==
    ASSUME IInv, NEW j \in Jobs, jobs[j] # None, NEW row \in Job, Updated(j, row), posts' = posts
    PROVE  /\ jobs'[j] # None /\ jobs'[j].state = row.state /\ jobs'[j].approver = row.approver
           /\ \A i \in Jobs : i # j => jobs'[i] = jobs[i]
           /\ Requests' = [Requests EXCEPT ![j] = RowAsks(j, row)]
<1> DEFINE new == [row EXCEPT !.revision = @ + 1]
<1>1. /\ new \in Job /\ new.requester = row.requester /\ new.approver = row.approver
      /\ new.state = row.state /\ new.config = row.config
  BY DEF Job
<1> HIDE DEF new
<1>2. \A k \in Jobs : jobs'[k] = IF k = j THEN new ELSE jobs[k]
  BY DEF Updated, new, IInv, TypeOK
<1>3. new # None
  BY <1>1, ExternalResponseAssumption
<1>4. RequestOf(j)' = RowAsks(j, row)
  BY <1>1, <1>2, <1>3 DEF RequestOf, RowAsks, IsDefender
<1>5. \A i \in Jobs : i # j => RequestOf(i)' = RequestOf(i)
  BY <1>2 DEF RequestOf, IsDefender
<1>6. /\ Requests' = [i \in Jobs |-> RequestOf(i)']
      /\ Requests = [i \in Jobs |-> RequestOf(i)]
  BY DEF Requests
<1>7. Requests' = [Requests EXCEPT ![j] = RowAsks(j, row)]
  BY <1>4, <1>5, <1>6
<1>8. QED
  BY <1>1, <1>2, <1>3, <1>7

\* A new row is asked for, as a request nobody has approved.
LEMMA CreateProposes ==
    ASSUME AskInv, NEW g \in Gateways, NEW j \in Jobs, NEW actor \in Operators,
           NEW name \in Connectors, create(g, j, actor, name)
    PROVE  Traced' /\ Promise!Next
<1> DEFINE row == [state |-> "awaiting_approval", requester |-> actor, approver |-> None,
                   connector |-> name, config |-> config[<<g, name>>],
                   attempts |-> 0, revision |-> 0, lease |-> None]
           budget == IF Kind[row.config] = "defender" THEN Once ELSE Retried
           new == [requester |-> actor, approver |-> None, state |-> "proposed", acts |-> 0,
                   budget |-> budget]
<1>1. IInv /\ TypeOK /\ Known /\ Traced
  BY DEF AskInv, IInv
<1>2. /\ jobs[j] = None /\ jobs' = [jobs EXCEPT ![j] = row] /\ UNCHANGED <<remote, posts>>
      /\ config[<<g, name>>] # None
  BY DEF create, providerVars
<1>3. row \in Job
  BY <1>1, <1>2, ExternalResponseAssumption DEF TypeOK, Job, JobStates
<1>4. /\ row.requester = actor /\ row.approver = None /\ row.state = "awaiting_approval"
      /\ row # None
  BY <1>3, ExternalResponseAssumption
<1> HIDE DEF row
<1>5. \A k \in Jobs : jobs'[k] = IF k = j THEN row ELSE jobs[k]
  BY <1>1, <1>2 DEF TypeOK
<1>6. posts[j] = 0
  BY <1>1, <1>2 DEF Known
<1>7. RequestOf(j)' = new
  BY <1>2, <1>4, <1>5, <1>6 DEF RequestOf, Stage, IsDefender
<1>8. \A i \in Jobs : i # j => RequestOf(i)' = RequestOf(i)
  BY <1>2, <1>5 DEF RequestOf, IsDefender
<1>9. /\ Requests' = [i \in Jobs |-> RequestOf(i)']
      /\ Requests = [i \in Jobs |-> RequestOf(i)]
  BY DEF Requests
<1>10. budget \in {Once, Retried}
  OBVIOUS
<1> HIDE DEF budget
<1>11. Requests' = [Requests EXCEPT ![j] = new]
  BY <1>7, <1>8, <1>9
<1>12. Requests[j].state = "absent"
  BY <1>2 DEF Requests, RequestOf
<1>13. Promise!Propose(j, actor, budget)
  BY <1>11, <1>12 DEF Promise!Propose, Promise!Becomes
<1>14. Promise!Next
  BY <1>10, <1>13 DEF Promise!Next
<1>15. Traced'
  BY <1>1, <1>2, <1>4, <1>5 DEF Traced
<1>16. QED
  BY <1>14, <1>15

\* A decision is an approval by another operator, or an end.
LEMMA DecisionPromised ==
    ASSUME AskInv, NEW j \in Jobs, NEW actor \in Operators,
           (\E g \in Gateways : approve(g, j, actor)) \/ cancel(j, actor)
    PROVE  Traced' /\ Promise!Next
<1> DEFINE job == jobs[j]
           ask == Requests[j]
<1>1. /\ IInv /\ TypeOK /\ Traced /\ job \in Job /\ job # None
      /\ job.state = "awaiting_approval" /\ UNCHANGED <<remote, posts>>
  BY DEF AskInv, IInv, TypeOK, approve, cancel, providerVars
<1>2. PICK state \in {"ready", "cancelled"} :
           /\ Updated(j, [jobs[j] EXCEPT !.state = state, !.approver = actor])
           /\ state = "ready" => actor # job.requester
  BY DEF approve, cancel, MayApprove
<1> DEFINE row == [jobs[j] EXCEPT !.state = state, !.approver = actor]
<1>3. /\ row \in Job /\ row.config = job.config /\ row.requester = job.requester
      /\ row.state = state /\ row.approver = actor
  BY <1>1 DEF Job, JobStates
<1>4. Updated(j, row)
  BY <1>2
<1> HIDE DEF row
<1>5. /\ jobs'[j] # None /\ jobs'[j].state = state
      /\ \A i \in Jobs : i # j => jobs'[i] = jobs[i]
      /\ Requests' = [Requests EXCEPT ![j] = RowAsks(j, row)]
  BY <1>1, <1>3, <1>4, UpdateAsks
<1>6. job.approver = None /\ ask = RowAsks(j, job)
  BY <1>1, RequestIs DEF Traced
<1>7. Traced'
  BY <1>1, <1>5 DEF Traced
<1>8. ask.state = "proposed" /\ ask.requester = job.requester
  BY <1>1, <1>6 DEF RowAsks, Stage
<1>9. CASE state = "ready"
  <2> DEFINE mid == [ask EXCEPT !.state = "approved"]
             budget == IF Kind[job.config] = "defender" THEN Once ELSE Retried
  <2>1. mid = [requester |-> job.requester, approver |-> job.approver, state |-> "approved",
               acts |-> posts[j], budget |-> budget]
    <3> HIDE DEF ask, job, budget
    <3>1. ask = [requester |-> job.requester,
                 approver |-> IF job.state = "cancelled" THEN None ELSE job.approver,
                 state |-> Stage(job.state), acts |-> posts[j], budget |-> budget]
      BY <1>6 DEF RowAsks, budget
    <3>2. QED
      BY <1>1, <3>1
  <2>2. RowAsks(j, row) = [requester |-> job.requester, approver |-> actor,
                           state |-> "approved", acts |-> posts[j], budget |-> budget]
    BY <1>3, <1>9 DEF RowAsks, Stage
  <2> HIDE DEF mid, ask, job, budget
  <2>3. RowAsks(j, row) = [mid EXCEPT !.approver = actor]
    BY <2>1, <2>2
  <2>4. actor # ask.requester
    BY <1>2, <1>8, <1>9
  <2>5. Promise!Approve(j, actor)
    BY <1>5, <1>8, <2>3, <2>4 DEF Promise!Approve, Promise!Becomes, mid, ask
  <2>6. QED
    BY <1>7, <2>5 DEF Promise!Next
<1>10. CASE state = "cancelled"
  <2>1. RowAsks(j, row) = [ask EXCEPT !.state = "ended"]
    <3>1. Stage(row.state) = "ended"
      BY <1>3, <1>10 DEF Stage
    <3> HIDE DEF ask, job
    <3>2. QED
      BY <1>1, <1>3, <1>6, <1>10, <3>1 DEF RowAsks
  <2>2. Promise!End(j)
    BY <1>5, <1>8, <2>1 DEF Promise!End, Promise!Moves, Promise!Becomes
  <2>3. QED
    BY <1>7, <2>2 DEF Promise!Next
<1>11. QED
  BY <1>9, <1>10

\* What a worker or a reconciliation makes of an approved job: it goes on, stops, goes
\* on again, is done if the provider has done it, or ends.
LEMMA RowPromised ==
    ASSUME AskInv, Truthful', NEW j \in Jobs, jobs[j] # None, NEW row \in Job, Updated(j, row),
           row.requester = jobs[j].requester, row.approver = jobs[j].approver,
           row.config = jobs[j].config,
           jobs[j].state \in {"ready", "running", "uncertain"},
           row.state \in {"ready", "running", "uncertain", "completed", "failed"},
           UNCHANGED <<remote, posts>>
    PROVE  Traced' /\ (Promise!Next \/ UNCHANGED Requests)
<1> DEFINE job == jobs[j]
           ask == Requests[j]
           budget == IF Kind[job.config] = "defender" THEN Once ELSE Retried
<1>1. IInv /\ TypeOK /\ Traced /\ posts[j] \in Nat /\ Truthful'
  BY DEF AskInv, IInv, TypeOK
<1>2. /\ jobs'[j] # None /\ jobs'[j].state = row.state
      /\ \A i \in Jobs : i # j => jobs'[i] = jobs[i]
      /\ Requests' = [Requests EXCEPT ![j] = RowAsks(j, row)]
  BY <1>1, UpdateAsks
<1>3. Traced'
  BY <1>1, <1>2 DEF Traced
<1>4. ask = [requester |-> job.requester, approver |-> job.approver,
             state |-> Stage(job.state), acts |-> posts[j], budget |-> budget]
  BY RequestIs DEF RowAsks
<1>5. RowAsks(j, row) = [requester |-> job.requester, approver |-> job.approver,
                         state |-> Stage(row.state), acts |-> posts[j], budget |-> budget]
  BY DEF RowAsks
<1>6. budget.least = 1
  BY DEF Once, Retried
<1> HIDE DEF budget
<1>7. /\ Stage(job.state) = IF job.state = "uncertain" THEN "stopped" ELSE "approved"
      /\ Stage(row.state) = CASE row.state = "completed" -> "done"
                              [] row.state = "failed" -> "ended"
                              [] row.state = "uncertain" -> "stopped"
                              [] OTHER -> "approved"
  BY DEF Stage
<1> HIDE DEF ask, job
<1>8. RowAsks(j, row) = [ask EXCEPT !.state = Stage(row.state)]
  BY <1>4, <1>5
<1>9. ask.state = Stage(job.state) /\ ask.acts = posts[j] /\ ask.budget.least = 1
  BY <1>4, <1>6
<1>10. CASE Stage(row.state) = Stage(job.state)
  <2>1. RowAsks(j, row) = ask
    BY <1>4, <1>5, <1>10
  <2>2. QED
    BY <1>2, <1>3, <2>1 DEF Requests, ask
<1>11. CASE row.state = "completed"
  <2>1. Done(j)'
    BY <1>1, <1>2, <1>11 DEF Truthful, JobReal
  <2>2. PICK o \in DOMAIN remote[j] : TRUE
    BY <2>1 DEF Done
  <2>3. posts[j] > 0
    BY <1>1, <2>2 DEF Traced
  <2>4. ask.acts >= ask.budget.least
    BY <1>1, <1>9, <2>3
  <2>5. ask.state \in {"approved", "stopped"} /\ Stage(row.state) = "done"
    BY <1>7, <1>9, <1>11
  <2>6. Promise!Complete(j)
    BY <1>2, <1>8, <2>4, <2>5 DEF Promise!Complete, Promise!Moves, Promise!Becomes, ask
  <2>7. QED
    BY <1>3, <2>6 DEF Promise!Next
<1>12. CASE row.state = "failed"
  <2>1. ask.state \in {"approved", "stopped"} /\ Stage(row.state) = "ended"
    BY <1>7, <1>9, <1>12
  <2>2. Promise!End(j)
    BY <1>2, <1>8, <2>1 DEF Promise!End, Promise!Moves, Promise!Becomes, ask
  <2>3. QED
    BY <1>3, <2>2 DEF Promise!Next
<1>13. CASE row.state = "uncertain" /\ Stage(job.state) = "approved"
  <2>1. Stage(row.state) = "stopped"
    BY <1>7, <1>13
  <2>2. Promise!Stop(j)
    BY <1>2, <1>8, <1>9, <1>13, <2>1 DEF Promise!Stop, Promise!Moves, Promise!Becomes, ask
  <2>3. QED
    BY <1>3, <2>2 DEF Promise!Next
<1>14. CASE row.state \in {"ready", "running"} /\ Stage(job.state) = "stopped"
  <2>1. Stage(row.state) = "approved"
    BY <1>7, <1>14
  <2>2. Promise!Resume(j)
    BY <1>2, <1>8, <1>9, <1>14, <2>1 DEF Promise!Resume, Promise!Moves, Promise!Becomes, ask
  <2>3. QED
    BY <1>3, <2>2 DEF Promise!Next
<1>15. QED
  BY <1>7, <1>10, <1>11, <1>12, <1>13, <1>14

\* A claim leaves the request with its worker, or gives it up.
LEMMA ClaimPromised ==
    ASSUME AskInv, Truthful', NEW g \in Gateways, NEW j \in Jobs, claim(g, j)
    PROVE  Traced' /\ (Promise!Next \/ UNCHANGED Requests)
<1> DEFINE job == jobs[j]
<1>1. /\ job \in Job /\ job # None /\ job.state \in {"ready", "running"}
      /\ UNCHANGED <<remote, posts>>
  BY DEF AskInv, IInv, TypeOK, claim, Claimable, providerVars
<1>2. CASE GiveUp(g, j)
  <2> DEFINE row == [jobs[j] EXCEPT !.state = GivenUp(g, j)]
  <2>1. GivenUp(g, j) \in {"uncertain", "failed"}
    BY DEF GivenUp
  <2>2. /\ row \in Job /\ row.requester = job.requester /\ row.approver = job.approver
        /\ row.config = job.config /\ row.state = GivenUp(g, j)
    BY <1>1, <2>1 DEF Job, JobStates
  <2>3. Updated(j, row)
    BY <1>2 DEF GiveUp
  <2> HIDE DEF row
  <2>4. QED
    BY <1>1, <2>1, <2>2, <2>3, RowPromised
<1>3. CASE Take(g, j)
  <2> DEFINE lease == jobs[j].revision + 1
             next  == jobs[j].attempts + 1
             row   == [jobs[j] EXCEPT !.state = "running", !.lease = lease, !.attempts = next]
  <2>1. lease \in Nat /\ next \in Nat
    BY <1>1 DEF Job
  <2>2. Updated(j, row)
    BY <1>3 DEF Take
  <2> HIDE DEF lease, next
  <2>3. /\ row \in Job /\ row.requester = job.requester /\ row.approver = job.approver
        /\ row.config = job.config /\ row.state = "running"
    BY <1>1, <2>1 DEF Job, JobStates
  <2> HIDE DEF row
  <2>4. QED
    BY <1>1, <2>2, <2>3, RowPromised
<1>4. QED
  BY <1>2, <1>3 DEF claim

\* A result is recorded for a request that was being worked on.
LEMMA FinishPromised ==
    ASSUME AskInv, Truthful', NEW g \in Gateways, finish(g)
    PROVE  Traced' /\ (Promise!Next \/ UNCHANGED Requests)
<1> DEFINE j   == work[g].job
           row == [jobs[j] EXCEPT !.state = work[g].result, !.lease = None]
<1>1. /\ j \in Jobs /\ jobs[j] \in Job /\ jobs[j] # None /\ work[g].pc = "finish"
      /\ work[g].result \in JobStates /\ UNCHANGED <<remote, posts>>
  BY DEF AskInv, IInv, TypeOK, Known, finish, providerVars
<1>2. CASE HoldsLease(g)
  <2>1. work[g].result \notin Undecided /\ work[g].result # "running"
    BY <1>1 DEF AskInv, Authorized, Truthful, WorkReal
  <2>2. work[g].result \in {"ready", "uncertain", "completed", "failed"}
    BY <1>1, <2>1 DEF JobStates, Undecided
  <2>3. /\ row \in Job /\ row.requester = jobs[j].requester
        /\ row.approver = jobs[j].approver /\ row.config = jobs[j].config
        /\ row.state = work[g].result
    BY <1>1 DEF Job
  <2>4. Updated(j, row) /\ jobs[j].state = "running"
    BY <1>2 DEF finish, HoldsLease
  <2> HIDE DEF row, j
  <2>5. QED
    BY <1>1, <2>2, <2>3, <2>4, RowPromised
<1>3. CASE ~ HoldsLease(g)
  <2>1. UNCHANGED jobs
    BY <1>3 DEF finish
  <2>2. QED
    BY <1>1, <2>1 DEF AskInv, Traced, Requests, RequestOf, IsDefender
<1>4. QED
  BY <1>2, <1>3

\* A reconciliation that is current decides a request that had stopped.
LEMMA ReconcilePromised ==
    ASSUME AskInv, Truthful', NEW g \in Gateways, reconcile(g)
    PROVE  Traced' /\ (Promise!Next \/ UNCHANGED Requests)
<1> DEFINE j     == review[g].job
           state == JobState(VendorState(review[g].status))
           row   == [jobs[j] EXCEPT !.state = state, !.attempts = 0, !.lease = None]
<1>1. /\ j \in Jobs /\ review[g].status \in Statuses /\ UNCHANGED <<remote, posts>>
      /\ jobs[j] \in Job /\ jobs[j] # None
  BY DEF AskInv, IInv, TypeOK, Known, Answer, reconcile, providerVars
<1>2. CASE CurrentRow(g) /\ ops[j] # None /\ ops[j].config = jobs[j].config
  <2>1. state \in {"ready", "completed", "failed"}
    BY <1>1, VendorStateType DEF JobState
  <2>2. Updated(j, row) /\ jobs[j].state = "uncertain"
    BY <1>2 DEF reconcile, CurrentRow
  <2> HIDE DEF state
  <2>3. /\ row \in Job /\ row.requester = jobs[j].requester
        /\ row.approver = jobs[j].approver /\ row.config = jobs[j].config
        /\ row.state = state
    BY <1>1, <2>1 DEF Job, JobStates
  <2> HIDE DEF row, j
  <2>4. QED
    BY <1>1, <2>1, <2>2, <2>3, RowPromised
<1>3. CASE ~ (CurrentRow(g) /\ ops[j] # None /\ ops[j].config = jobs[j].config)
  <2>1. UNCHANGED jobs
    BY <1>3 DEF reconcile, databaseVars
  <2>2. QED
    BY <1>1, <2>1 DEF AskInv, Traced, Requests, RequestOf, IsDefender
<1>4. QED
  BY <1>2, <1>3

\* A request that reaches the provider is an act, within the budget of its job.
LEMMA DeliverActs ==
    ASSUME AskInv, (IInv /\ Authorized /\ Budget)', NEW j \in Jobs, jobs[j] # None, NEW actions,
           Deliver(j, actions), UNCHANGED jobs
    PROVE  Traced' /\ Promise!Next
<1> DEFINE ask == Requests[j]
           next == posts[j] + 1
<1>1. IInv /\ TypeOK /\ Traced /\ posts[j] \in Nat /\ posts \in [Jobs -> Nat]
  BY DEF AskInv, IInv, TypeOK
<1>2. /\ posts' = [posts EXCEPT ![j] = next] /\ remote' = [remote EXCEPT ![j] = actions]
      /\ next \in Nat /\ next > 0 /\ next = posts[j] + 1
  BY <1>1 DEF Deliver
<1> HIDE DEF next
<1>3. /\ posts'[j] = next /\ \A i \in Jobs : i # j => posts'[i] = posts[i]
      /\ \A i \in Jobs : i # j => remote'[i] = remote[i]
  BY <1>1, <1>2 DEF TypeOK
<1>4. Traced'
  BY <1>1, <1>2, <1>3 DEF Traced
<1>5. Approved(j)
  BY <1>2, <1>3 DEF Authorized, Approved
<1>6. /\ ask = [requester |-> jobs[j].requester, approver |-> jobs[j].approver,
                state |-> Stage(jobs[j].state), acts |-> posts[j],
                budget |-> IF IsDefender(j) THEN Once ELSE Retried]
      /\ ask.approver # None
  BY <1>5 DEF Requests, RequestOf, Approved, Undecided
<1>7. posts[j] < IF IsDefender(j) THEN 1 ELSE RetryLimit
  <2>1. CASE IsDefender(j)
    <3>1. next <= 1
      BY <1>3, <2>1 DEF IInv, Exclusive, IsDefender
    <3>2. QED
      BY <1>1, <1>2, <2>1, <3>1
  <2>2. CASE ~ IsDefender(j)
    <3>1. IsWebhook(j)'
      BY <2>2 DEF IsWebhook, IsDefender
    <3>2. next + Cardinality(Open(j)') <= RetryLimit
      BY <1>3, <3>1 DEF Budget, WithinLimit
    <3>3. Open(j)' \in SUBSET (1 .. RetryLimit)
      BY DEF Open
    <3>4. Cardinality(Open(j)') \in Nat
      BY <3>3, AttemptsFinite
    <3>5. QED
      BY <1>1, <1>2, <2>2, <3>2, <3>4, ExternalResponseAssumption
  <2>3. QED
    BY <2>1, <2>2
<1>8. ask.acts < ask.budget.most
  BY <1>6, <1>7 DEF Once, Retried
<1>9. Promise!MayAct(ask)
  BY <1>6, <1>8 DEF Promise!MayAct
<1>10. RequestOf(j)' = [ask EXCEPT !.acts = next]
  <2>1. RequestOf(j)' = [requester |-> jobs[j].requester, approver |-> jobs[j].approver,
                         state |-> Stage(jobs[j].state), acts |-> next,
                         budget |-> IF IsDefender(j) THEN Once ELSE Retried]
    BY <1>3, <1>5 DEF RequestOf, IsDefender, Approved, Undecided
  <2> HIDE DEF ask
  <2>2. QED
    BY <1>6, <2>1
<1>11. \A i \in Jobs : i # j => RequestOf(i)' = RequestOf(i)
  BY <1>3 DEF RequestOf, IsDefender
<1>12. /\ Requests' = [i \in Jobs |-> RequestOf(i)']
       /\ Requests = [i \in Jobs |-> RequestOf(i)]
  BY DEF Requests
<1>13. next = ask.acts + 1
  BY <1>2, <1>6
<1> HIDE DEF ask
<1>14. Requests' = [Requests EXCEPT ![j] = [ask EXCEPT !.acts = next]]
  BY <1>10, <1>11, <1>12
<1>15. Promise!Act(j)
  BY <1>9, <1>13, <1>14 DEF Promise!Act, Promise!Becomes, ask
<1>16. QED
  BY <1>4, <1>15 DEF Promise!Next

\* Every step keeps the invariant, and is a step of the requests or none.
LEMMA StepPromised ==
    ASSUME AskInv, [Next]_vars
    PROVE  AskInv' /\ (Promise!Next \/ UNCHANGED Requests)
<1>1. IInv' /\ Authorized' /\ Truthful' /\ Budget'
  BY StepInv, StepAuthorizes, StepTrue, StepBudget DEF AskInv
<1> SUFFICES Traced' /\ (Promise!Next \/ UNCHANGED Requests)
  BY <1>1 DEF AskInv
<1>2. CASE UNCHANGED <<jobs, remote, posts>>
  BY <1>2 DEF AskInv, Traced, Requests, RequestOf, IsDefender
<1>3. ASSUME NEW g \in Gateways, send(g) \/ submit(g)
      PROVE  Traced' /\ (Promise!Next \/ UNCHANGED Requests)
  <2>1. work[g].job \in Jobs /\ jobs[work[g].job] # None /\ UNCHANGED jobs
    BY <1>3 DEF AskInv, IInv, TypeOK, Known, send, submit, databaseVars
  <2>2. UNCHANGED <<remote, posts>> \/ \E actions : Deliver(work[g].job, actions)
    BY <1>3 DEF send, submit, providerVars
  <2>3. QED
    BY <1>1, <1>2, <2>1, <2>2, DeliverActs
<1>4. ASSUME NEW g \in Gateways, tick(g)
      PROVE  Traced' /\ (Promise!Next \/ UNCHANGED Requests)
  <2>1. \/ UNCHANGED <<jobs, remote, posts>> \/ send(g) \/ submit(g) \/ finish(g)
        \/ \E j \in Jobs : claim(g, j)
    BY <1>4 DEF tick, refuse, intend, poll, save, fault, abandon, databaseVars, providerVars
  <2>2. QED
    BY <1>1, <1>2, <1>3, <2>1, ClaimPromised, FinishPromised
<1>5. ASSUME NEW j \in Jobs, NEW o \in DOMAIN remote[j], settle(j, o)
      PROVE  Traced' /\ (Promise!Next \/ UNCHANGED Requests)
  <2>1. UNCHANGED <<jobs, posts>> /\ \A i \in Jobs : i # j => remote'[i] = remote[i]
    BY <1>5 DEF AskInv, IInv, TypeOK, settle, databaseVars
  <2>2. remote[j] # <<>>
    OBVIOUS
  <2>3. Traced'
    BY <2>1, <2>2 DEF AskInv, Traced
  <2>4. QED
    BY <2>1, <2>3 DEF Requests, RequestOf, IsDefender
<1>6. ASSUME NEW g \in Gateways, NEW j \in Jobs, NEW actor \in Operators, verify(g, j, actor)
      PROVE  Traced' /\ (Promise!Next \/ UNCHANGED Requests)
  BY <1>2, <1>6 DEF verify, databaseVars, providerVars
<1>7. ASSUME NEW g \in Gateways, NEW files \in Files, restart(g, files)
      PROVE  Traced' /\ (Promise!Next \/ UNCHANGED Requests)
  BY <1>2, <1>7 DEF restart, databaseVars, providerVars
<1>8. CASE UNCHANGED vars
  BY <1>2, <1>8 DEF vars
<1>9. QED
  BY <1>1, <1>4, <1>5, <1>6, <1>7, <1>8, CreateProposes, DecisionPromised, ReconcilePromised
     DEF Next

\* External responses keep the promise about approved actions, for any number of jobs
\* and gateways and any files: whatever crashes, loses its lease, is answered late or
\* reconciled, each step is a step of the abstract requests or none.
THEOREM ApprovalImplemented == Spec => ImplementsApproval
<1>1. Init => AskInv
  <2>1. Init => Traced
    BY DEF Init, Traced
  <2>2. QED
    BY <2>1, InitInv, InitAuthorized, InitTrue, InitBudget DEF AskInv
<1>2. Init => Promise!Init
  <2> SUFFICES ASSUME Init PROVE Requests = [j \in Jobs |-> Promise!Absent]
    BY DEF Promise!Init
  <2>1. QED
    BY DEF Init, Promise!Absent, Requests, RequestOf
<1>3. AskInv /\ [Next]_vars => AskInv' /\ [Promise!Next]_Requests
  BY StepPromised
<1>4. QED
  BY <1>1, <1>2, <1>3, PTL DEF Spec, ImplementsApproval, Promise!Spec
=============================================================================
