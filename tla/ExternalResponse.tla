--------------------------- MODULE ExternalResponse ---------------------------
(***************************************************************************)
(* External response actions: nova/soar.py (jobs, approval, leases,        *)
(* retries, reconciliation) with the Defender adapter of nova/vendors.py.  *)
(*                                                                         *)
(* Several gateways share one metadata database.  Each runs one response   *)
(* worker, whose tick leaves the database between a claim and its result,  *)
(* and serves operators.  A transaction is one action.  Leases and backoff *)
(* end by time alone, so a running job may be claimed again at any moment  *)
(* and a ready one whenever a worker is free.                              *)
(***************************************************************************)
EXTENDS Naturals, Sequences

CONSTANTS
    None,
    Jobs,           \* tenant and request key
    Operators,
    Gateways,       \* processes: one response worker and one reconciler each
    Connectors,
    Configs,        \* connector configurations that grant the tenant, by digest
    Kind,           \* [Configs -> {"webhook", "defender"}]
    Files,          \* connector files a process may read: [Connectors -> Configs or None]
    RetryLimit,     \* claims of a webhook job, attempts before a fault fails (5)
    VendorBudget,   \* claims of a Defender job (960)
    MaxRevision,    \* bound: no reconciliation of a job beyond this revision
    MetadataFaults  \* whether a worker's database transaction may fail

JobStates    == {"awaiting_approval", "cancelled", "ready", "running",
                 "completed", "failed", "uncertain"}
VendorStates == {"submitting", "pending", "completed", "failed", "uncertain"}

\* InProgress counts as Pending; TimeOut and Cancelled count as Failed.
Statuses == {"Pending", "Succeeded", "Failed"}

Job == [state : JobStates, requester : Operators, approver : Operators \cup {None},
        connector : Connectors, config : Configs,
        attempts : Nat, revision : Nat, lease : Nat \cup {None}]

Operation == [state : VendorStates, operation : Nat \cup {None}, config : Configs]

\* A worker's memory: the claim it holds, the provider operation it polls (None
\* for a submission), and the vendor state to save or the job state to record.
Claimed == [pc : {"idle", "claimed", "exchange", "save", "finish"},
            job : Jobs \cup {None}, lease : Nat \cup {None}, attempt : Nat,
            operation : Nat \cup {None}, result : JobStates \cup VendorStates \cup {None}]

Idle == [pc |-> "idle", job |-> None, lease |-> None, attempt |-> 0,
         operation |-> None, result |-> None]

\* A provider answer an administrator's request carries back to the database.
Answer == [job : Jobs, revision : Nat, operation : Nat, status : Statuses]

ASSUME ExternalResponseAssumption ==
    /\ RetryLimit \in Nat \ {0} /\ VendorBudget \in Nat \ {0} /\ MaxRevision \in Nat
    /\ None \notin Operators \cup Configs \cup Jobs \cup Nat
    /\ None \notin Job \cup Operation \cup Answer
    /\ Kind \in [Configs -> {"webhook", "defender"}]
    /\ Files \subseteq [Connectors -> Configs \cup {None}]
    /\ MetadataFaults \in BOOLEAN

VARIABLES
    config,   \* gateway, connector -> the configuration its process read or None
    jobs,     \* nova_external_jobs
    ops,      \* nova_vendor_operations
    work,     \* gateway -> what its worker holds
    review,   \* gateway -> the answer its reconciler holds or None
    remote,   \* the provider's actions for a job, an operation id is an index
    posts     \* action requests of a job that reached the provider

processVars  == <<config, work, review>>
databaseVars == <<jobs, ops>>
providerVars == <<remote, posts>>
vars == <<config, jobs, ops, work, review, remote, posts>>

TypeOK ==
    /\ config \in [Gateways \X Connectors -> Configs \cup {None}]
    /\ jobs \in [Jobs -> Job \cup {None}]
    /\ ops \in [Jobs -> Operation \cup {None}]
    /\ work \in [Gateways -> Claimed]
    /\ \A g \in Gateways : work[g].pc # "idle" => work[g].job \in Jobs
    /\ review \in [Gateways -> Answer \cup {None}]
    /\ remote \in [Jobs -> Seq(Statuses)]
    /\ posts \in [Jobs -> Nat]

Init ==
    /\ \E read \in [Gateways -> Files] :
          config = [x \in Gateways \X Connectors |-> read[x[1]][x[2]]]
    /\ jobs = [j \in Jobs |-> None]
    /\ ops = [j \in Jobs |-> None]
    /\ work = [g \in Gateways |-> Idle]
    /\ review = [g \in Gateways |-> None]
    /\ remote = [j \in Jobs |-> <<>>]
    /\ posts = [j \in Jobs |-> 0]

\* The gateway's configuration of the job's connector.
Current(g, j) == config[<<g, jobs[j].connector>>]

\* ... is the one the request was made under.
Unchanged(g, j) == Current(g, j) = jobs[j].config

IsVendor(c) == c # None /\ Kind[c] = "defender"

\* The job's row after an update, which always advances its revision.
Updated(j, row) == jobs' = [jobs EXCEPT ![j] = [row EXCEPT !.revision = @ + 1]]

-----------------------------------------------------------------------------
(* Operators *)

\* A repeated request with the same body returns the row that is there, one
\* with another body is refused: neither is a step.
create(g, j, actor, name) ==
    /\ jobs[j] = None
    /\ config[<<g, name>>] # None
    /\ jobs' = [jobs EXCEPT ![j] =
          [state |-> "awaiting_approval", requester |-> actor, approver |-> None,
           connector |-> name, config |-> config[<<g, name>>],
           attempts |-> 0, revision |-> 0, lease |-> None]]
    /\ UNCHANGED <<ops, processVars, providerVars>>

\* Mutant: the approver may be the requester.
MayApproveSelf(g, j, actor) == Unchanged(g, j)

MayApprove(g, j, actor) == actor # jobs[j].requester /\ Unchanged(g, j)

approve(g, j, actor) ==
    /\ jobs[j] # None /\ jobs[j].state = "awaiting_approval"
    /\ MayApprove(g, j, actor)
    /\ Updated(j, [jobs[j] EXCEPT !.state = "ready", !.approver = actor])
    /\ UNCHANGED <<ops, processVars, providerVars>>

cancel(j, actor) ==
    /\ jobs[j] # None /\ jobs[j].state = "awaiting_approval"
    /\ Updated(j, [jobs[j] EXCEPT !.state = "cancelled", !.approver = actor])
    /\ UNCHANGED <<ops, processVars, providerVars>>

-----------------------------------------------------------------------------
(* tick: claim *)

\* Mutant: one claim more than the budget.
ExhaustedLate(g, j) ==
    jobs[j].attempts > IF IsVendor(Current(g, j)) THEN VendorBudget ELSE RetryLimit

Exhausted(g, j) ==
    jobs[j].attempts >= IF IsVendor(Current(g, j)) THEN VendorBudget ELSE RetryLimit

\* Mutant: an exhausted job has failed, whatever its provider does.
GivenUpFailed(g, j) == "failed"

GivenUp(g, j) == IF IsVendor(Current(g, j)) THEN "uncertain" ELSE "failed"

\* The lease stays in the row.
GiveUp(g, j) ==
    /\ Exhausted(g, j)
    /\ Updated(j, [jobs[j] EXCEPT !.state = GivenUp(g, j)])
    /\ UNCHANGED work

Take(g, j) ==
    LET lease == jobs[j].revision + 1   \* a token never used before for the job
    IN  /\ ~ Exhausted(g, j)
        /\ Updated(j, [jobs[j] EXCEPT !.state = "running", !.lease = lease,
                                      !.attempts = @ + 1])
        /\ work' = [work EXCEPT ![g] =
              [pc |-> "claimed", job |-> j, lease |-> lease,
               attempt |-> jobs[j].attempts + 1, operation |-> None, result |-> None]]

\* Mutant: a running job whose lease ended is not claimed again.
ClaimableReady(j) == jobs[j] # None /\ jobs[j].state = "ready"

\* Ready and due, or running under a lease that ended.
Claimable(j) == jobs[j] # None /\ jobs[j].state \in {"ready", "running"}

claim(g, j) ==
    /\ work[g].pc = "idle"
    /\ Claimable(j)
    /\ GiveUp(g, j) \/ Take(g, j)
    /\ UNCHANGED <<config, ops, review, providerVars>>

\* The job state after an exception the adapter does not name.
AfterFault(g) == IF work[g].attempt >= RetryLimit THEN "failed" ELSE "ready"

Outcome(g, state) ==
    work' = [work EXCEPT ![g].pc = "finish", ![g].operation = None, ![g].result = state]

Exchange(g, operation) ==
    work' = [work EXCEPT ![g].pc = "exchange", ![g].operation = operation]

\* An action request reaches the provider, which may act on it or not.
Deliver(j, actions) ==
    /\ posts' = [posts EXCEPT ![j] = @ + 1]
    /\ remote' = [remote EXCEPT ![j] = actions]

-----------------------------------------------------------------------------
(* tick: the adapters *)

\* Mutant: the worker does not compare the configuration with the request's.
MaySendAnyway(g, j) == Current(g, j) # None

MaySend(g, j) == Unchanged(g, j)

refuse(g) ==
    /\ work[g].pc = "claimed" /\ ~ MaySend(g, work[g].job)
    /\ Outcome(g, "failed")
    /\ UNCHANGED <<config, review, databaseVars, providerVars>>

\* The endpoint performs a request key once and confirms it when asked again.
Performed(j) == IF remote[j] = <<>> THEN <<"Succeeded">> ELSE remote[j]

\* What the worker makes of an exchange in which the action was not performed:
\* a retry, or a refusal when the credential or the endpoint's answer says so.
Unperformed(g) == {AfterFault(g), "failed"}

send(g) ==
    LET j == work[g].job IN
    /\ work[g].pc = "claimed" /\ MaySend(g, j) /\ ~ IsVendor(Current(g, j))
    /\ \/ /\ UNCHANGED providerVars
          /\ \E state \in Unperformed(g) : Outcome(g, state)
       \/ /\ Deliver(j, remote[j])
          /\ \E state \in Unperformed(g) : Outcome(g, state)
       \/ /\ Deliver(j, Performed(j))
          /\ \E state \in {"completed"} \cup Unperformed(g) : Outcome(g, state)
    /\ UNCHANGED <<config, review, databaseVars>>

\* Mutant: an intent whose submission is unsettled is submitted again.
FirstIntentAgain(j) == ops[j] # None => ops[j].state \in {"submitting", "uncertain"}

\* The insert takes effect: no intent of this job was ever committed.
FirstIntent(j) == ops[j] = None

intend(g) ==
    LET j == work[g].job IN
    /\ work[g].pc = "claimed" /\ MaySend(g, j) /\ IsVendor(Current(g, j))
    /\ \/ /\ FirstIntent(j)
          /\ ops' = [ops EXCEPT ![j] = [state |-> "submitting", operation |-> None,
                                        config |-> Current(g, j)]]
          /\ Exchange(g, None)
       \/ /\ ~ FirstIntent(j)
          /\ UNCHANGED ops
          /\ CASE ops[j].config # Current(g, j) -> Outcome(g, "failed")
               [] ops[j].state = "pending" -> Exchange(g, ops[j].operation)
               [] ops[j].state \in {"submitting", "uncertain"} -> Outcome(g, "uncertain")
               [] OTHER -> Outcome(g, ops[j].state)
    /\ UNCHANGED <<config, jobs, review, providerVars>>

\* Mutant: an action that ended is taken for one that succeeded.
VendorStateAnyEnd(status) == IF status = "Pending" THEN "pending" ELSE "completed"

VendorState(status) ==
    CASE status = "Succeeded" -> "completed"
      [] status = "Pending"   -> "pending"
      [] status = "Failed"    -> "failed"

Record(g, operation, state) ==
    work' = [work EXCEPT ![g].pc = "save", ![g].operation = operation, ![g].result = state]

\* A submission that did not arrive, was rejected, or whose answer was lost is
\* equally uncertain.
submit(g) ==
    LET j == work[g].job IN
    /\ work[g].pc = "exchange" /\ work[g].operation = None
    /\ \/ UNCHANGED providerVars /\ Record(g, None, "uncertain")
       \/ Deliver(j, remote[j]) /\ Record(g, None, "uncertain")
       \/ \E s \in Statuses :
             /\ Deliver(j, Append(remote[j], s))
             /\ \/ Record(g, Len(remote[j]) + 1, VendorState(s))
                \/ Record(g, None, "uncertain")
    /\ UNCHANGED <<config, review, databaseVars>>

poll(g) ==
    LET j == work[g].job
        o == work[g].operation
    IN  /\ work[g].pc = "exchange" /\ o # None
        /\ Record(g, o, VendorState(remote[j][o])) \/ Outcome(g, "ready")
        /\ UNCHANGED <<config, review, databaseVars, providerVars>>

\* Mutant: a late result replaces any vendor state.
UnsettledAlways(j) == ops[j] # None

Unsettled(j) == ops[j] # None /\ ops[j].state \notin {"completed", "failed"}

\* Mutant: the vendor state is recorded as the state of the job.
JobStateKept(vendor) == vendor

JobState(vendor) == IF vendor = "pending" THEN "ready" ELSE vendor

save(g) ==
    LET j == work[g].job IN
    /\ work[g].pc = "save"
    /\ ops' = IF Unsettled(j)
              THEN [ops EXCEPT ![j].state = work[g].result,
                               ![j].operation = work[g].operation]
              ELSE ops
    /\ Outcome(g, JobState(work[g].result))
    /\ UNCHANGED <<config, jobs, review, providerVars>>

\* A transaction of the adapter fails and is rolled back.
fault(g) ==
    /\ MetadataFaults
    /\ \/ work[g].pc = "save"
       \/ /\ work[g].pc = "claimed"
          /\ MaySend(g, work[g].job) /\ IsVendor(Current(g, work[g].job))
    /\ Outcome(g, AfterFault(g))
    /\ UNCHANGED <<config, review, databaseVars, providerVars>>

-----------------------------------------------------------------------------
(* tick: result *)

\* Mutant: the state of the job is not compared, and giving up keeps the lease.
HoldsLeaseOnly(g) == jobs[work[g].job].lease = work[g].lease

HoldsLease(g) ==
    /\ jobs[work[g].job].state = "running"
    /\ jobs[work[g].job].lease = work[g].lease

finish(g) ==
    LET j == work[g].job IN
    /\ work[g].pc = "finish"
    /\ IF HoldsLease(g)
       THEN Updated(j, [jobs[j] EXCEPT !.state = work[g].result, !.lease = None])
       ELSE UNCHANGED jobs
    /\ work' = [work EXCEPT ![g] = Idle]
    /\ UNCHANGED <<config, ops, review, providerVars>>

\* The final transaction fails: the loop goes on, the lease has to expire.
abandon(g) ==
    /\ MetadataFaults
    /\ work[g].pc = "finish"
    /\ work' = [work EXCEPT ![g] = Idle]
    /\ UNCHANGED <<config, review, databaseVars, providerVars>>

-----------------------------------------------------------------------------
(* reconcile: a read, a GET to the provider, a compare-and-swap *)

\* The row is read and the action asked for at one moment: the swap checks that
\* the row was not changed since, and the action may be asked for at any moment
\* between.  The action carries the job's identity, so only actions of the job
\* pass the comparison.
verify(g, j, actor) ==
    /\ review[g] = None
    /\ jobs[j] # None /\ jobs[j].state = "uncertain"
    /\ jobs[j].revision <= MaxRevision
    /\ actor # jobs[j].requester /\ jobs[j].approver # None
    /\ IsVendor(Current(g, j)) /\ Unchanged(g, j)
    /\ \E o \in DOMAIN remote[j] :
          review' = [review EXCEPT ![g] =
             [job |-> j, revision |-> jobs[j].revision, operation |-> o,
              status |-> remote[j][o]]]
    /\ UNCHANGED <<config, work, databaseVars, providerVars>>

\* Mutant: the row is updated whatever became of it.
CurrentRowTaken(g) == jobs[review[g].job] # None

CurrentRow(g) ==
    /\ jobs[review[g].job].state = "uncertain"
    /\ jobs[review[g].job].revision = review[g].revision

reconcile(g) ==
    LET j     == review[g].job
        state == VendorState(review[g].status)
    IN  /\ review[g] # None
        /\ IF CurrentRow(g) /\ ops[j] # None /\ ops[j].config = jobs[j].config
           THEN /\ Updated(j, [jobs[j] EXCEPT !.state = JobState(state), !.attempts = 0,
                                              !.lease = None])
                /\ ops' = [ops EXCEPT ![j].state = state,
                                      ![j].operation = review[g].operation]
           ELSE UNCHANGED databaseVars
        /\ review' = [review EXCEPT ![g] = None]
        /\ UNCHANGED <<config, work, providerVars>>

-----------------------------------------------------------------------------
\* The process dies and comes back with the configuration file of that moment.
restart(g, files) ==
    /\ config' = [x \in Gateways \X Connectors |-> IF x[1] = g THEN files[x[2]] ELSE config[x]]
    /\ work' = [work EXCEPT ![g] = Idle]
    /\ review' = [review EXCEPT ![g] = None]
    /\ UNCHANGED <<databaseVars, providerVars>>

\* The provider settles an action it took on.
settle(j, o) ==
    /\ remote[j][o] = "Pending"
    /\ \E s \in {"Succeeded", "Failed"} : remote' = [remote EXCEPT ![j][o] = s]
    /\ UNCHANGED <<databaseVars, processVars, posts>>

tick(g) ==
    \/ \E j \in Jobs : claim(g, j)
    \/ refuse(g) \/ send(g) \/ intend(g) \/ submit(g) \/ poll(g) \/ save(g)
    \/ fault(g) \/ finish(g) \/ abandon(g)

Next ==
    \/ \E g \in Gateways, j \in Jobs, actor \in Operators :
          \/ \E name \in Connectors : create(g, j, actor, name)
          \/ approve(g, j, actor)
          \/ verify(g, j, actor)
    \/ \E j \in Jobs, actor \in Operators : cancel(j, actor)
    \/ \E g \in Gateways : tick(g) \/ reconcile(g)
    \/ \E g \in Gateways, files \in Files : restart(g, files)
    \/ \E j \in Jobs : \E o \in DOMAIN remote[j] : settle(j, o)

Spec == Init /\ [][Next]_vars

\* Each process keeps running external_worker, which calls tick forever and
\* survives its exceptions; a lease or a backoff ends after bounded time.
FairSpec == Spec /\ \A g \in Gateways : WF_vars(tick(g))

-----------------------------------------------------------------------------
(* Properties *)

IsDefender(j) == jobs[j] # None /\ Kind[jobs[j].config] = "defender"

\* No machine is isolated twice for one request: whatever crashes, expired
\* leases, overlapping workers and reconciliations happen, one POST at most
\* reaches Defender for a job.
AtMostOneSubmission == \A j \in Jobs : IsDefender(j) => posts[j] <= 1

\* An endpoint sees a webhook job at most RetryLimit times, claims abandoned by
\* crashes included, although every gateway has a configuration of its own.
BoundedDeliveries ==
    \A j \in Jobs : jobs[j] # None /\ ~ IsDefender(j) => posts[j] <= RetryLimit

\* Each delivery is made by a worker of the job whose process has the very
\* configuration the request was approved under, and what has been sent was
\* approved by another operator than the requester and is not cancelled, before or
\* afterwards.
SendsAsApproved ==
    \A j \in Jobs :
        /\ posts'[j] # posts[j] => \E g \in Gateways : work[g].job = j /\ Unchanged(g, j)
        /\ posts'[j] > 0 =>
              /\ jobs'[j] # None /\ jobs'[j].state \notin {"awaiting_approval", "cancelled"}
              /\ jobs'[j].approver \notin {None, jobs'[j].requester}

SentAsApproved == [][SendsAsApproved]_vars

\* Outcomes are what the provider did. A completed job has an action that succeeded,
\* and for Defender a receipt that says so; a receipt names an action the provider
\* has, in the outcome the provider gave it; and neither is ever lost again.
OutcomesAreReal ==
    \A j \in Jobs :
        /\ jobs[j] # None /\ jobs[j].state = "completed" =>
              /\ \E o \in DOMAIN remote[j] : remote[j][o] = "Succeeded"
              /\ IsDefender(j) => ops[j] # None /\ ops[j].state = "completed"
        /\ ops[j] # None =>
              /\ ops[j].state \in {"pending", "completed", "failed"} =>
                    ops[j].operation \in DOMAIN remote[j]
              /\ ops[j].state = "completed" => remote[j][ops[j].operation] = "Succeeded"
              /\ ops[j].state = "failed" => remote[j][ops[j].operation] = "Failed"

\* While the configuration stands, a Defender job turns failed only when the
\* provider's action has, or when the worker's own transaction failed in a claim
\* from the retry limit on: lost answers, ended leases and exhausted polling make
\* it uncertain.
FailsAsConfirmed ==
    \A j \in Jobs :
        IsDefender(j) /\ jobs[j].state # "failed" /\ jobs'[j].state = "failed" =>
            \/ ops'[j] # None /\ ops'[j].state = "failed"
            \/ \E g \in Gateways : work[g].job = j /\ work[g].result = "failed"
                                  /\ work[g].attempt >= RetryLimit

FailureIsConfirmed == [][FailsAsConfirmed]_vars

\* A Defender job has failed only when the provider performed none of it: a job
\* whose operation is pending or succeeded is polled or uncertain, never failed.
NoFabricatedFailure ==
    \A j \in Jobs : IsDefender(j) /\ jobs[j].state = "failed" =>
        \A o \in DOMAIN remote[j] : remote[j][o] = "Failed"

\* A completed, failed or cancelled job is never touched again, neither by a
\* worker that comes late nor by a reconciliation.
KeepsOutcomes ==
    \A j \in Jobs : jobs[j] # None /\ jobs[j].state \in {"completed", "failed", "cancelled"} =>
        jobs'[j] = jobs[j]

OutcomesStand == [][KeepsOutcomes]_vars

\* An operation id that was saved, by a worker or by a reconciliation, is the
\* one that goes on being polled.
KeepsOperations ==
    \A j \in Jobs : ops[j] # None /\ ops[j].operation # None =>
        ops'[j].operation = ops[j].operation

OperationsStand == [][KeepsOperations]_vars

\* A job as the request for an action: a request that reaches the provider acts.
\* Defender is asked once, an endpoint may be asked again, and a worker whose lease
\* ended may ask when the job already stands still.  Who cancels a job approves nothing.
Stage(state) ==
    CASE state = "awaiting_approval"     -> "proposed"
      [] state \in {"ready", "running"}  -> "approved"
      [] state = "uncertain"             -> "stopped"
      [] state = "completed"             -> "done"
      [] state \in {"failed", "cancelled"} -> "ended"

Once    == [least |-> 1, most |-> 1]
Retried == [least |-> 1, most |-> RetryLimit]

RequestOf(j) ==
    IF jobs[j] = None
    THEN [requester |-> None, approver |-> None, state |-> "absent", acts |-> 0,
          budget |-> None]
    ELSE [requester |-> jobs[j].requester,
          approver  |-> IF jobs[j].state = "cancelled" THEN None ELSE jobs[j].approver,
          state     |-> Stage(jobs[j].state), acts |-> posts[j],
          budget    |-> IF IsDefender(j) THEN Once ELSE Retried]

Requests == [j \in Jobs |-> RequestOf(j)]

Promise == INSTANCE Approval WITH
    requests <- Requests, Budgets <- {Once, Retried}, LateActs <- TRUE

\* External responses keep the promise about approved actions: an endpoint sees a job at
\* most RetryLimit times and Defender once, claims abandoned by crashes included, although
\* every gateway has a configuration of its own; never before another operator than the
\* requester approved; and a job is done only when it was asked for.
ImplementsApproval == Promise!Spec

\* An approved job is eventually decided, through any number of crashes.
EventuallyDecided ==
    \A j \in Jobs :
        (jobs[j] # None /\ jobs[j].state \in {"ready", "running"}) ~>
            (jobs[j] # None /\ jobs[j].state \in {"completed", "failed", "uncertain"})
=============================================================================
