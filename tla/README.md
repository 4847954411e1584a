# TLA+ models of Nova

This directory holds a TLA+ development for Nova (`nova/`, with `rules/`,
`integrations/` and `deploy/`): specifications of its stateful parts, TLC
configurations that model-check them on small instances, and proofs checked by
TLAPS that hold for every instance.  `PROJECT.json` lists the components, runs,
mutants, hazards, findings and theorems, and for every definition the lines of
source it stands for.

    tlc -workers 2 -config MCLocalJournal.cfg MCLocalJournal.tla     # a run
    tlapm LocalJournal_proofs.tla                                    # the proofs

## 1. Inventory

Nova accepts security events from collectors, normalizes them with installed
integration packages, evaluates detection rules, opens cases on alerts, runs
approved workflows and asks external systems for approved response actions.
There are two engines with one HTTP API: a local one on SQLite and a distributed
one on PostgreSQL, Kafka and ClickHouse.

| Component | State | Operations | Interacts with |
|---|---|---|---|
| **Local journal** `core.py` | raw, normalized, quarantine, processed, activations (SQLite) | ingest, normalize_batch, detect_batch, replay, activate, deactivate, health | rules inside the detector's transaction; audit chain inside every transaction; driven by the worker thread of `server.py` |
| **Rules and settings** `rules.py`, `enterprise.py` | rule files of the process, reviewed settings, rule hits, alerts | evaluate, set_rule, load at start | called by both engines' detectors |
| **Correlation** `correlation.py` | sequence and sliding-window points, alerts | evaluate_set | called by rules.py for sliding and sequence rules |
| **External response** `soar.py`, `vendors.py` | jobs, vendor operations, connector files of each process | create, approve, cancel, tick, reconcile | the gateways' response workers; webhook endpoints and Microsoft Defender |
| **Workflows and cases** `enterprise.py`, `cases.py` | workflow jobs, cases, notes | create, transition, tick, update_case | worker threads; alerts; audit chain |
| **Audit history** `enterprise.py`, `audit_checkpoint.py` | audit rows, linked chain, checkpoints kept elsewhere | append, verify, checkpoint | every transaction appends |
| **Distributed pipeline** `distributed/` | receipts, outbox, topics with offsets, quarantine, seen ledger, ClickHouse rows | gateway ingest and replay, relay, normalizer, indexer, detector, quarantine, archive workers | Kafka topics between processes; PostgreSQL transactions |
| **Collector spool** `collector.py`, `native.py` | spool rows, file and page cursors | import_file, commit_page, send, retry, run | HTTP to the gateway, which deduplicates; the writer of the source file |
| **Retention** `retention.py`, `distributed/archive.py` | object versions under lock, receipts | put, verify, archive_local | the journal or the raw topic; an object store |
| **Backup and restore** `operations.py` | snapshots with a manifest | backup, restore | the whole local database |
| **HTTP server** `server.py` | request slots, token buckets, loaded credentials, worker health | process_request, authenticate, dispatch, worker loops | everything above |
| **Sigma compiler** `sigma.py` | the matcher's place while it reads a value | selection, condition, validate_node, evaluate, wildcard | writes the predicates of `rules.py` and evaluates them on each event |
| **Parsers, packages, identity, evidence, readiness** | none or files | pure translation and cryptography | inputs of the parts above |

### What is hard, and what correctness means

*Local journal.*  SQLite's `BEGIN IMMEDIATE` makes every operation atomic, so the
difficulty is in sequences: identities that come again, replays that fail or
succeed after a package upgrade, restarts with other files, batches that settle
part of a backlog.  The five tables have to agree about every event in every
order; an accepted event must not be lost, be counted twice, be normalized under
a package its tenant did not activate, or get unlimited replays; every accepted
event has to be settled in the end.

*Rules.*  Detection is incremental and looks only at the groups a batch touched,
but what it computes must not depend on batching or on arrival order: alerts have
to be exactly what the recorded hits demand, evidence included.  Reviewed
settings bind to a revision; nothing may be counted retroactively or across
tenants.

*External response.*  The one component whose effects cannot be rolled back, and
the one that leaves its transaction: claim, exchange with the provider and result
are three steps, leases end by time, several gateways run workers with files of
their own, and an administrator may reconcile an uncertain job while a late
worker is still about to write.  No machine may be isolated twice for one
request; nothing may be sent that was not approved by a second person; no
outcome may be recorded that the provider did not give; an approved job must
come to a decision.

*Workflows.*  One transaction per step with a savepoint; operators change or
cancel the job and the case between the steps.  A step takes effect once, only
after approval, and never after cancellation.  The local worker drains the journal
in the same pass and stops after five passes in a row that fail.

*Audit.*  Appended in the transaction of what it records; verified against a
checkpoint kept elsewhere.  A chain that was damaged, or restored and grown
another way, behind a checkpoint must not verify.

*Distributed pipeline.*  At-least-once everywhere: the relay and the consumers
publish before they commit, so records repeat; normalization, its marker, the
quarantine and a replay with another package run in different processes.  The
same promises as the local journal are made by different means.

*Collectors.*  Row and cursor must move together while the file is written,
rotated or emptied; a request may be lost, answered too late, or arrive after it
was given up.  No line the cursor passed may be lost, and no row may be deleted
that the gateway does not have.

*Retention.*  The object and its receipt are in two systems, archivers overlap and
stop in between, settings change.  A receipt has to name an object that is locked
as long as was asked for.

*HTTP server.*  Threads share slots and buckets, clients fall silent, threads fail
to start.  Slots must not leak, a credential must not get more than its rate, and
a write must be answered with success exactly if it happened.

*Sigma.*  Pure, but what it gets wrong nobody sees: the rule detects something else.
The matcher keeps one place to go back to and has to answer as if it kept them all, in
time bounded by text times pattern whatever an event repeats.

## 2. Modules

| Module | Lines | What it is |
|---|---|---|
| `EventLedger` | abstract | what an engine promises about one event: absent, queued, quarantined, normalized, detected, with bounded replays |
| `Approval` | abstract | what Nova promises about an action an operator asks for: proposed, approved by another, done within its budget, stopped, gone on with, done or ended for good |
| `FixedRules` | `rules.py`, settings of `enterprise.py` | rule effectiveness, grouping, hits, alerts; a layer that other modules compose |
| `LocalJournal` | `core.py` | the local engine, composed with `FixedRules`; implements `EventLedger` |
| `ExternalResponse` | `soar.py`, `vendors.py` | jobs, leases, retries, both adapters, reconciliation, providers; implements `Approval` |
| `Pipeline` | `distributed/` | the distributed engine: gateway, relay and consumer groups over PostgreSQL, Kafka, ClickHouse and the archive; implements `EventLedger` |
| `Workflow` | `enterprise.py`, case functions of `core.py`, worker of `server.py` | workflow jobs, their approval and steps, cases, the audit rows about jobs, workers that give up; implements `Approval` |
| `Correlation` | `correlation.py` | sliding and sequence rules: points, anchors, alerts, in a detector of one tenant |
| `Collector` | `collector.py`, `native.py`, `ingest` of `core.py` | spool, cursors, source file, deliveries and the gateway's deduplication |
| `Evidence` | `enterprise.py`, `audit_checkpoint.py`, `retention.py`, `operations.py` | audit chain and checkpoints, Object Lock archive, snapshots |
| `Gateway` | `server.py` | slots, request threads, credentials, token buckets, replies |
| `Patterns` | `sigma.py` | tokens of a pattern, what a round of the matcher does, and what a match and a pattern mean |
| `Sigma` | `sigma.py` | the compiler and the matcher as operators, and what they should say |
| `LocalJournal_proofs`, `ExternalResponse_proofs`, `Pipeline_proofs`, `Workflow_proofs`, `Correlation_proofs`, `Collector_proofs`, `Evidence_proofs`, `Gateway_proofs` | | theorems and proofs, a module for each component; those about `Patterns` are in `LocalJournal_proofs` |
| `MCLocalJournal` (with `Sigma`), `MCExternalResponse`, `MCPipeline`, `MCWorkflow`, `MCCorrelation`, `MCCollector`, `MCEvidence`, `MCGateway` | | instances for TLC |

Both engines implement the same `EventLedger`.  They differ in one step, the
constant `LateSuccess`: in the distributed engine a normalized record can arrive
after the error of another attempt was quarantined; the local journal settles an
attempt in one transaction.

The two parts that act for operators, `Workflow` and `ExternalResponse`, implement the
same `Approval`, by different means: one transaction for each step, or leases,
intents and providers that cannot be rolled back.  They differ in the budget, which is
all steps of the playbook, or one request to Defender, or up to `RetryLimit` requests to
an endpoint of which one may be enough; and in `LateActs`: a step is never taken for a
workflow that stopped or ended, while a worker that lost its lease may still reach the
provider after its job was given up, within the same budget.

### LocalJournal and FixedRules

A key is a tenant and an event id; ids are numbers because their order breaks
ties and chooses evidence.  `raw`, `normalized`, `quarantine`, `activations` are
functions whose value `None` is a missing row, `processed` is the table of that
name, `lastSeq` the AUTOINCREMENT counter.  The packages (`installed`) and the
rules (`rules`) are read once per process and change only in `Restart`.  Payloads
are model values and `Parse` says what each version of a package makes of one:
an event, or `None` for a `Problem`.  An event is a time and its string fields.

Every transaction is one action with the name of its function: `ingest` with the
conflicts, capacity and insertion order of a request; `normalize_batch` and
`detect_batch` with any limit up to `MaxLimit` (the callers' limits differ and a
drained queue is shorter) and their `ORDER BY`; `replay`, `activate`,
`deactivate_integration`, `set_rule`.  A refused request rolls back and is no
step.  `Evaluate` of `FixedRules` is the part of `detect_batch` that runs in
`Rules.evaluate`: insert hits, then look at each touched group, then upsert
alerts with the first `EvidenceLimit` references.

A rule's match lists and Sigma predicate are one set of events.  The group of an
event is its time bucket and its grouping values; the distinct value of a rule
without `distinct` is the event's identity.  Alert identifiers are hashes of
tenant, revision and group and are modelled by that triple.

### ExternalResponse

A gateway is a process: `config` is the connector file it read, `work` the memory
of its response worker between transactions, `review` that of an administrator's
reconciliation.  `jobs` and `ops` are `nova_external_jobs` and
`nova_vendor_operations`.  `remote` is what the provider did (an operation id is
an index), `posts` counts action requests that reached it.

`tick` is split where the code leaves the database: `claim` (with giving up),
then for a webhook `send`; for Defender `intend` (the intent transaction), `submit`
or `poll` (the exchange), `save`; then `finish`, fenced by the lease.  `refuse`
is the configuration check of the adapter, `fault` and `abandon` are a failing
transaction inside the adapter and the final one.  `restart` kills a process
between any two of these.  An exchange may not arrive, arrive and be refused, or
arrive and lose its answer.

*Time.*  Leases (60 seconds), backoff and poll delays are not clocks here: a running
job may be claimed again at any moment and a ready one at once.  That includes
every schedule a clock would allow, so the safety results hold for all timings.

*Database faults* are transactions that fail and are rolled back.  A commit whose
acknowledgement is lost is not modelled.  A tenant whose grant is withdrawn
behaves as a connector that is missing: `Current` is then different from the
configuration of the request.  The webhook endpoint performs a request key once,
as `docs/EXTERNAL_RESPONSE.md` requires of it; only `OutcomesAreReal` uses this.

*The promise.*  A request of `Approval` is the row, with `posts` as its acts: ready
and running are approved, uncertain is stopped, failed and cancelled are ended.  The
row of a cancelled job names who cancelled it, which is nobody's approval.

### Pipeline

The PostgreSQL tables have their names without prefix: `activations`, `receipts`,
`outbox`, `quarantined`, `seen` (detection's ledger).  `log` and `committed` are
the topics and the offsets of the consumer groups, `owner` the assignment of a
group, `store` the ClickHouse rows and archive objects.  `relay` and `work` are
memory: the rows a relay holds locked and those the broker confirmed; the batch a
worker is busy with, its progress in `pc` and `sent`.  `installed` is the package
directory each process read at start.

A transaction is one action (`ingest`, `replay`, `activate`, `take`, `confirm`,
`mark`, `detect`, `quarantine`), and so is the delivery of each single message
(`deliver`, `publish`) and of each stored row (`keep`), because a process may die
with a part of its batch delivered.  `Processor.step` is `read`, the sink's
actions, `commit`.  A restart forgets `work`; the group's committed offset brings
the batch again.  `rebalance` gives a group to another worker while the first may
still be busy: its sink goes on, its commit is refused.

Records are keyed by tenant and event (`clients.py` line 20), so every key has one
partition, and the model gives each key its own.  Two keys of one partition are
read and committed in an order the model does not force; it allows more.  An
envelope is the package version of its snapshot and the replay generation; the
event time stands for the whole normalized content.  Integration and payload are
those of the receipt, to which the digest ties every envelope.

`LedgerStatus` reads the status of an event from the tables and topics: detection
counts as soon as `seen` has it, normalization as soon as a normalized record is
published, and a quarantine row counts for the attempt whose error was committed
(`ErrorOfThisAttempt`), because `replay` leaves the row open.

### Workflow

`jobs` is `nova_workflows`, `cases` the case table keyed by alert (its unique
key) with the number of notes each workflow left, `audit` the audit rows about
each job, `view` what an operator saw last of the listing: the revision he sends
is that of the row he looked at, however old.  `create`, `transition`,
`create_case`, `update_case` are one transaction each, and `tick` is one step of
one job: `Succeed` or `Fail`, because anything on the way through a step may raise
and the savepoint takes back the case, the row and the audit entry.  A transaction
that fails altogether leaves nothing of the job and is `pass_fails`: it counts
towards the worker's end, as does a failing drain of the journal before it, and
any pass that gets through (`tick`, `pass`) starts the count again.  `restart` is
the operator's.  The playbook is the built-in one; what each of its steps does to
a case is `Effect`.

The job's `result` holds the identity of the case it opened, here `case`.  The
queue's order and waiting times are left open: any queued job may be executed
next.  Both engines run this code; tenants are separate in every query and the
module is about one.  As a request of `Approval` a job acts by its steps, and a
failed one, which may be retried, has stopped.  Notes of operators and audit rows about cases are left out,
for nothing reads them; links and digests of the history are in `Evidence`.

### Correlation

`points` is `nova_correlation_events`; an alert is named by its rule revision and
anchor.  `detect` is the detector's transaction for any batch of the events that
were not detected before: the local engine takes them by event time and the
consumers of the distributed one by topic order, and either meets late events.
`evaluate` inserts the points (`Inserted`), fails altogether when a touched group
is too large (`Fits`), looks at the anchors that are new or were reached by a new
predecessor (`Affected`) and writes their alerts.  The two `bisect` searches over
the sorted times are the interval in `Preceding`, the evidence list is a set,
since its order is that of the events.  `configure` is a review or a restart: what
`Rules.effective` returns differs from one transaction to the next.  The number of
events in a PostgreSQL alert is left out.

`FixedRules` and `Correlation` write different alerts in one transaction.
`LocalJournal` and `Pipeline` compose the first only, which assumes that no
correlation group is full; a full group fails each batch that touches it, for the
other rules and tenants as well (`docs/CORRELATION.md` says so).

### Collector

A spool belongs to one adapter, so the initial states choose a native source or
`None` for a file.  The spool's lock admits one process: `process` is its memory
and everything in it is lost by `Stop`.  A transaction is an action: `ImportLine`
(row and cursor), `CommitPage` (rows and cursor), `Acknowledge` (the deletion),
`Unconfirmed` (the attempts), `retry`.  `OpenFile` compares inode, length and
fingerprint with the cursor (`Continues`); afterwards the file stays open and the
writer may go on, empty it or move it away.  `WriteLine`, `Rotate` and `Truncate`
are the writer's.  Only complete lines are in `content`, because an incomplete one
is not read.

`Select` posts a batch; the gateway takes it as a whole (`GatewayTakes`), unless an
identity comes with another payload; the answer arrives (`Acknowledge`) or not.
`Pick` takes entries out of a list and keeps their order: the rows that stay after
`DELETE`, the records of a page that are new.  What was given up before it arrived
may still arrive (`late`).  Waits between
attempts are no clock: a row that was tried may be due in any later send.
`Kind` says what `adapt` makes of a line.  Sizes are counted in rows, and a line
over 64 KiB is a kind of its own.

Seen while modelling, and not contradicted by a text of the repository: errors of
`import_file` are not caught by `run`, so a rotated file, a long line or a full
spool end the process before it sends; quarantined rows never leave the spool and
count against its capacity; a native record that comes again with another payload
after its delivery makes the gateway refuse every batch it is in.  They appear as
`Blocked` in `EventuallySettled` or as rows that end up `failed`.

### Evidence

`db` is the value of the local database as far as history and archive need it, so
that a snapshot is a copy of it.  A digest is the term `<<seq, previous, payload>>`:
equal digests have equal inputs, which is what SHA-256 is used for.  `Audited` is
`append_audit` with the row it links, and is part of every transaction that audits:
`audit` stands for the operations of other components, `Record` is the archiver's.
`Verified` is `verify_audit`.  `Edit` is damage: a record lost or changed, links at
the end of the chain lost.

An archiver selects the oldest events without receipt, then for each `Lock` (put,
or a look at the object that is there, and verification) and `Record` (receipt and
audit row).  `versions` are locked and stay; `current` is what a key shows, which
a deletion can hide.  `Reconfigure` is a new interval at the next start, `Day` the
clock.

Seen while modelling: an object locked before the interval was raised fails its
verification each time, and as the oldest event without a receipt it keeps those
behind it from the archive; so does an event that is past its retention.  Both
are `Stuck` in `EventuallyArchived`.  A checkpoint tells that links at the end are
gone; without one they only show as `unlinked_records`.

### Gateway

A connection is idle, or has a slot and a thread: `reading` the head, `checking`
the credential, reading the `body`, `operating`, `replying`, `closing`.  A client
without a slot gets 503 and changes nothing, so it is no step.  `process_request`
takes the slot and starts the thread or gives the slot back.  `stall` is the socket
timeout of ten seconds or a client that left.  `authenticate` is one action for
the check and the bucket, which is read and written under `rate_lock`; a refusal
leaves the bucket alone.  `operate` is the transaction of the engine, all or
nothing, and answers.  `admitted` counts what the property needs: the requests of
a credential this process admitted before each time, so that the requests of any
stretch of time are a difference (`Counted`).  `loaded` is what a process read at start from
`file`, in which an operator revokes credentials; a restart loads it and fills the
buckets.

### Sigma and Patterns

`Patterns` has the two loops of `wildcard` round by round.  A place is `i`, `j`, `star`
and `restart` (from 1, with 0 for no star); `Round` is what a round does to it
(`Advance`, `Opened`, `Retry`, or the step of the second loop), `Returns` says that no
round follows, `Matched` what is returned, `IsRun` that a list of places is what a call
goes through.  `Fits` says what a match is without any loop: there is a way to cut the
text so that each token stands for its part.  `Greedy` of `Sigma` takes rounds until
`Returns`, for the predicates of rules.

A text is a sequence of characters, a condition a sequence of words, an expression
the record the compiler writes, `Rejected` the exception.  `Tokens` are the escapes; `term`, `conjunction` and `expr` the
recursive descent with its depth; `Height` and `Nodes` the budget of
`validate_node`.  `Folded` is `lower()` on the letters of the instance.
`Means` and `MeansIn` (of `Patterns`), `Says` and `Written` are the references: a pattern
read character by character as a language, and in its mode, a selection read by its modifiers, and the text of an expression with the
parentheses it needs.

## 3. What the runs check

Every run named "passes" is exhaustive for its instance.

| Run | Instance | Shows |
|---|---|---|
| `local_journal` | one tenant, 2 identities, 1 package in 2 versions, a payload that version 1 refuses, events on both sides of a window edge, two revisions of a rule (failures per address; distinct outcomes), 2 replays, requests and batches of up to 2, evidence limit 1, restarts and reviews | the tables agree (`Settlement`), rows are immutable, alerts are a function of the hits whatever the batching and order, nothing counts retroactively and reviewed rules only in the reviewed revision, **the journal implements `EventLedger`**, its bounded replays included, every accepted event is settled; Sigma texts are compiled to what they say (`CompilesExactly`) |
| `external_response` | one job; 2 gateways whose files have a Defender and a webhook connector, the webhook in two configurations; 3 claims for Defender and 2 for the webhook; crashes, lost answers, failing transactions, reconciliations | one POST per Defender job; only what a second operator approved is sent, in the approved configuration; outcomes and receipts are the provider's, failures too but for failing transactions; outcomes stand; **external responses implement `Approval`**, with its bound on webhook requests; approved jobs are decided |
| `fabricated_failure` | one gateway, one failing transaction | violation, see findings |
| `lost_operation` | two gateways, no faults | violation, see findings |
| `pipeline_upgrades` | one event, a replay, two normalizers and a gateway with two package versions, batches of 2 records, one crash or move of the group | nothing accepted is lost, a marked event was normalized and is not in quarantine (`MarkersAreHonest`), detection counts once, **the pipeline implements `EventLedger`** |
| `pipeline_storage` | all five groups, one crash | a committed record was published, stored, evaluated or quarantined before (`CommittedIsDone`); every event is settled, stored and marked |
| `correlation` | a sliding rule and a sequence rule with distinct values; 4 events at 3 times in every order of arrival, in batches of up to 2, rules switched on and off; groups of at most 3, evidence of at most 2 | alerts and evidence are what one look at all counted events gives, late predecessors, equal times and window edges included; no group exceeds its limit |
| `workflow` | 1 job, 2 operators, 1 alert, a worker that stops after 2 failing passes and may be restarted, every step failing at will, cancellations, retries, the case opened and changed by hand at any time | the effects are those of the steps the row counts, once, after approval by a second operator; the history explains the row (`AuditExplains`); a decision meets the row that was looked at; **workflows implement `Approval`**; an approved job ends unless every worker has stopped |
| `late_error` | one event, two package versions, one crash | violation, see findings |
| `collector` | a file of up to 2 lines, good, malformed or too long, emptied or rotated once; or 3 native sources with malformed records, repeated identities and changed payloads; a spool of 2 rows, requests of 2, 2 attempts, a late request, a stop or an operator's retry | what a cursor passed is in the spool or at the gateway, quarantined lines never get there (`NothingSkipped`); what is in the file is delivered, quarantined or parked unless the loop is blocked |
| `evidence` | 2 archivers, 2 events, 2 intervals, an operation, a day, one checkpoint, one snapshot, and one of: damage, restore, crash, hidden key, new settings | a checkpoint that verifies vouches for each of its records, and verifies as long as nobody touched the database (`HistoryIsAnchored`); receipts name a version locked as long as asked and are audited once; events are archived unless something is `Stuck` |
| `gateway` | 2 connections and 2 slots, 2 credentials of two tenants and roles, 9 requests, buckets of 3 with refill 2 and cost 2, 3 times, a restart | slots are free or held; no stretch of time has more requests of a credential than bucket and refill allow; effects are the credential's and answers true to them (`AdmissionIsExact`); each slot comes back |

### Bounds

* `RetryLimit` 2 for 5 and `VendorBudget` 3 for 960: what matters is that the
  budget of a vendor is larger, that a fault can fall before, at and after the
  retry limit, and that the budget can be exhausted by crashes alone.
* `MaxRevision` 4 lets a job be reconciled while its row is at revision 4 or
  less: after a submission, its loss and an uncertain end there is room for a
  reconciliation and a further poll.  Without this bound
  each reconciliation would start the budget again and revisions would grow.
* One job: the two tables are keyed by job and no step reads another job's row.
  The proofs cover any number.
* Two gateways: the protocol's races are between two processes with one job (a
  late worker against a new one, or against a reconciler).
* `MaxEvents`, `MaxReplays`, `MaxBatch`, `MaxLimit`, `EvidenceLimit` are the
  code's own limits made small.  No state constraint is used anywhere.  With
  events of two kinds and two rule revisions the journal's run has as many
  identities as fit; that a request over the capacity leaves nothing is the
  all-or-nothing guard of `ingest`.
* Pipeline: `MaxFaults` 1 counts crashes of busy processes and moves of a group.
  Every duplicate, lost mark and stale worker starts with one; a second one only
  adds another copy of a record the topic already carries twice.  `MaxReplays` is
  1 where replays matter and 0 where the question is another.  `MaxRead` 2 with
  `MaxBatch` 2 is the smallest batch of which a part can be done.

* Correlation: a window of 2 over three times puts events inside, on the excluded
  end and outside of it; the sequence's window holds all three times.  Both
  thresholds are 2 and can be reached by any late event; a group of 3 is exceeded
  by the fourth.  Two rules of different modes are enough because a rule reads its
  own points only.
* Collector: one replaced file and one late request are enough to have a cursor
  point into a file that is gone and a batch arrive after its rows were parked.
  `Prefix` 1 of 2 lines leaves a part of the file out of the fingerprint.  Spool,
  batch and attempts are the code's limits at 2, and all are reached.
* Evidence: one incident, because each of them is a way of its own to disagree;
  both archivers may hold the same two events.  One day with intervals of one and
  two days has events that expire and objects that are locked too short.
* Gateway: a bucket of 3 with cost 2 and refill 2 keeps a remainder, so that
  bucket and refill do not fit by accident; two connections race for one bucket.
* Sigma: all texts of up to two characters over letters of both cases and the
  three special ones, and longer ones of which a star must take several characters
  before the rest fits; expressions of two nested operators.
* Workflow: `MaxFailures` 2 for 5 has the same three cases, none, some and all.
  `MaxAttempts` is the code's 3.  `MaxRevision` 7 allows a retry of a job
  whose row is at revision 6 or less: each of the three steps can fail in all its
  attempts, be retried and run to the end.  One job is
  enough: jobs share only a case, and what another job does to it, opening it or
  setting a status, operators do in the run as well.

### Fairness

`LocalJournal!Fairness`: the worker thread of `server.py` drains both queues
until they are empty and starts over, so each queue's transaction is weakly fair.
This assumes transactions that succeed: after five failures in a row the thread
ends (`server.py` lines 91-93) and nothing is promised any more.  `Workflow` has
that end as an action.

`ExternalResponse!FairSpec`: `external_worker` calls `tick` forever and survives
its exceptions, so the tick of each gateway is weakly fair.  That includes that a
process that died comes back and that a lease or a backoff ends.  No fairness is
assumed for operators, providers or reconciliations.  Repeated crashes and
faults cannot keep a job alive forever because each claim uses up budget.

`Pipeline!Fairness`: relays and workers loop until they are stopped, so the steps
of each are weakly fair.  `deploy/compose.lab.yaml` starts a failed worker again
five times (`restart: on-failure:5`), so liveness is promised for a bounded
number of crashes, which is what `MaxFaults` says; restarts themselves need no
fairness, since `restart` puts the process back to work in the same step.
`Workflow!Fairness`: `workflow_worker` (and `worker` of the local engine, after a
drain that succeeds) calls `tick` forever; the oldest job that is due goes first
and a failed step waits at most 300 seconds, so a queued job has its turn as long
as a worker is left.  Fairness is asked of the step for each job, whichever worker
takes it; a pass may fail any number of times, and then `Stopped` is the other end
the property allows.  A step itself may fail each time: the job is failed after
three.

`Collector!Fairness`: `run` loops over import and send, and a supervisor starts it
again; a native source is collected and sent by a timer.  The gateway is not fair
(it may refuse for ever: rows are then parked), nor is the writer.  Sending is
strongly fair, since a row that waits is due again and again.
`Evidence!Fairness`: archivers are started again by their timer; nothing is asked
of the store's users, the clock or the operator.
`Gateway!Fairness`: threads are scheduled and a silent client runs into the socket
timeout; no client has to send anything.  A client that sends a byte every few
seconds holds its slot as long as the finite head and body last.

Operators are not fair: nothing is said about when a replay is asked for.

## 4. What is proved

With TLAPS, for every value of the constants that meets the stated assumptions
(finite id and payload sets, positive limits, well-formed rules; `None` outside
of the sets it is added to):

| Theorem | Says |
|---|---|
| `EvaluateKeepsAlerts` | one evaluation of any batch keeps the alert table equal to what the hits demand |
| `TypeCorrect`, `SettlementHolds` | the journal's tables are well formed and agree about every event |
| `AlertsAreExact` | alerts are exactly what the hits demand, for any rule catalogue, batching and order |
| `EvidenceHolds`, `NothingIsRetroactive` | evidence names detected events of the alert's own tenant; nothing counts after detection has passed it, nor in a revision that was not reviewed |
| `HistoryHolds`, `AttemptsHold` | accepted and normalized rows never change; attempts are not given back |
| `LedgerImplemented` | `LocalJournal!Spec` implements `EventLedger!Spec` under the mapping `LedgerStatus`, `LedgerReplays` |
| `ResponseTypeCorrect` | the response tables and worker memories are well formed |
| `SubmittedOnce` | at most one POST per Defender job, for any number of gateways, jobs, crashes and reconciliations |
| `EndedJobsStand` | a job that ended is never touched again |
| `ApprovedOnly` | what is sent was approved by somebody else, under the configuration the sender has |
| `OutcomesHold` | completed jobs and receipts name what the provider did |
| `DeliveriesBounded` | at most `RetryLimit` requests per webhook job |
| `ApprovalImplemented` (of `ExternalResponse_proofs`) | `ExternalResponse!Spec` implements `Approval!Spec` under the mapping `Requests` |
| `FailureHolds` | while the connector files agree about Defender, a Defender job fails only when its action did, or by the worker's own failing transaction |
| `WorkflowTypeCorrect`, `EffectsHold` | a job's row and the case agree about what was done, and nothing is done before somebody else approved |
| `ApprovalImplemented` (of `Workflow_proofs`) | `Workflow!Spec` implements `Approval!Spec` under its mapping `Requests` |
| `DecisionsAreInformed` | an operator's decision finds the job as that operator saw it |
| `PipelineTypeCorrect`, `PromisesKept` | a committed offset is a promise kept, for every consumer group |
| `MarkersHold`, `DetectsOnce` | markers follow the facts; detection keeps to the record it took |
| `NothingIsLost` | an acknowledged event waits in the outbox or a topic, or was normalized or quarantined |
| `LedgerImplemented` (of `Pipeline_proofs`) | `Pipeline!Spec` implements `EventLedger!Spec` |
| `HistoryExplains` | the audit trail of a workflow job, read from its start, leads to the row the job has |
| `AlertsExact` | sliding and sequence alerts are those of the suspicious anchors, one each, with the first of their supports as evidence |
| `NothingLost` | what a collector's cursor has passed is in the spool or at the gateway; what was quarantined never gets there |
| `HistoryHolds` (of `Evidence_proofs`) | a checkpoint that verifies vouches for all its records, and an untouched database verifies |
| `ReceiptsHold` | a receipt names a version locked long enough, and was audited once while nobody touched the database |
| `MatcherExact`, `MatcherBounded`, `MatcherReturns` | every call of the Sigma matcher returns, with a match exactly when there is one, after at most (text + 1) x (tokens + 1) places (the comment of `sigma.py:53`) |
| `TokensMean`, `ModesMean` | the tokens and stars of `pattern_tokens` match a value exactly when the pattern, read character by character, means it in its mode |
| `WildcardExact`, `WildcardBounded` | `wildcard` answers whether the pattern means the value in its mode, after at most (value + 1) x (pattern + 3) places |
| `AdmissionHolds` | slots, rate, effects and answers are exact |
| `TypeCorrect` (of `Correlation_proofs`, `Collector_proofs`, `Evidence_proofs`) | the variables of these components are well formed |

*Journal.*  `TypeOK /\ Settlement` is inductive: that a normalized key is always
processed and never quarantined is what makes a late success clear the quarantine
and a replay touch only unresolved events.  History, attempts and the refinement
use this invariant for each step.  `AlertsReflectHits` is inductive next to
`RulesTypeOK`: a group that reached its threshold before a batch and was not
touched keeps its hits; a touched one is recomputed from all its hits.  That
evidence exists follows from both and from hits being inserted by the transaction
that marks their events as detected.  One tenant is checked by the runs; the
proofs cover several tenants in one transaction.

*Response.*  `AtMostOneSubmission` is not inductive.  `IInv` adds `Known` (a
worker's job exists, a Defender exchange works on an intent row of its job) and
`Exclusive`: the worker with a submission before it is the only one of its job
and the request was not sent yet; after the request there is an intent row and no
such worker.  The intent row is never deleted, and the insert that creates it is
the only way to such a worker.  `IInv` was checked with TLC on a Defender
instance before it was proved.

`ApprovedOnly` rests on `Authorized`: whoever works on a job, and whatever was
sent for it, belongs to an approved job, and an exchange runs under the
configuration of the request.  `OutcomesHold` rests on `Truthful`, which carries
an answer from the provider to the row: a worker about to save or to finish has
seen the action it reports.  What makes it inductive is that a lease is a revision
of its row and never exceeds it, so that an old worker cannot regain one; that a
receipt which says completed gives way only to a reconciliation, for which the
job is uncertain, when no lease counts; and that a Defender job has one action
since it has one POST (`SubmittedOnce`).  `DeliveriesBounded` counts: the attempts
of a webhook job that may still send, those to come and those a worker has begun,
are finitely many, each request uses up one that no two workers share, and only
Defender jobs are given attempts back.

`ApprovalImplemented` puts these results together: each step changes the row of one
job, or sends one request for it, or neither is seen in `Requests`.  A request that is
sent is an act the abstract job has left, by `Authorized` after the step (approved) and
by `Exclusive` and the counted attempts (within its budget); a job turns done only after
an act, because `Truthful` has an action at the provider for it and actions come by
requests (`Traced`).

`FailureHolds` assumes `DefenderStands`: a connector that is Defender in one of the
files is the same in all of them.  Without it the property is false and ought to be: a
process that lost or changed the connector refuses the job, or gives it up as a webhook.
`Standing` carries it to the processes: each has a configuration file, the
configuration of a Defender job is the one of every process and of its receipt, and a
worker about to record a failure under a lease that counts has a reason.  A reason is
kept because a row that is running after a step either was not touched or has a new
lease (`RowMoves`); that a saved failure is the receipt's, and not that of an action the
receipt does not name, is `Truthful` with the one action of `SubmittedOnce`.

*Workflow.*  A revision names one condition of a row (`Seen`): whoever looked at
the revision the row has, looked at this row.  Queued and failed rows have steps
left and were approved (`Ordered`), and a note is there exactly when the row counts
all its steps, also for jobs nobody has asked for yet (`Effects`).  Each transaction is
a step of `Approval` or none (`ApprovalImplemented`): that the next step is the one
missing, and approved, is `Ordered`.

*Pipeline.*  What a consumer owes for a record (`Done`) is never undone, since topics,
stores and markers only grow.  A worker owes nothing for what lies before its batch,
because it starts where its group has committed; what it has sent is done, and it
reaches `written` only when its whole batch is (`Works`).  So a commit never promises
more than is there, whether or not the group has moved in between, and
`CommittedIsDone` follows.  `NothingLost` needs one fact more, `Traced`: an accepted
event waits in the outbox or went to the raw topic, and a relay deletes only rows it
has delivered.  The refinement adds that a record belongs to no later attempt than its
quarantine row counts, so that a replay leaves no committed error of the attempt it
begins; that what detection has seen was normalized; and that the worker which may
commit began where its group stands, so that offsets never go back.

`HistoryExplains` follows the audit trail by induction on its length: `Story` is a
recursive function, and that it has a value for each length, and the same one for
the part two histories have in common, is proved first (`StoryExists`, `StoryUnique`).
Each operation then appends what it does to the row (`StoryGoesOn`).

*Correlation.*  The alerts are a function of the points: `alerts = Due(points)`.  A
batch keeps it so, because it evaluates every anchor whose first stage it touches
(`Affected`); the other anchors have the predecessors they had.  The invariant does
not mention batches, times or order, so that neither does `AlertsExact`.  That the
evidence is the first predecessors, and as many as fit, is the order of points of a
finite set (`EarliestAre`): the rank of a point is injective, and therefore onto.

*Collector.*  `NothingSkipped` says that what was passed was handed on; its invariant
needs the converse too: only lines behind the cursor are in the spool, at the gateway
or on their way (`Reading`).  So the row an import writes is of an identity nobody has
sent yet, which is what keeps quarantined identities away from the gateway (`Apart`).
`Acknowledge` may delete its rows because a batch that was taken is in the journal
(`Sending`).  `Pick` keeps what it selects (`Picked`: the ranks of places are a
bijection); that a page's new records cover all its identities goes by the first
record of each.

*Evidence.*  The chain is a series of digests from `Zero`.  A checkpoint's root is the
last digest of such a series (`Rooted`); equal digests are equal terms, so a database
that verifies has the checkpoint's records, from the last one back to the first
(`SameRecords`).  The database and the snapshot are kept apart in the invariant: the
receipts of both are vouched for by locked versions, which nobody can delete
(`Vouched`), what an archiver carries was locked before it is recorded (`Fine`), and
receipts and their audit rows correspond one to one until the database is touched
(`Entered`).

*Gateway.*  `AdmissionIsExact` bounds every stretch of time.  What makes it inductive is
the bucket: the tokens it was left with, together with what was admitted since any earlier
time, are no more than a full bucket and the refill from then on (`Metered`); tokens are never
negative, so that every stretch of time is bounded (`Bounded`).  Slots and threads are counted by `Slotted`;
`Honest` says for each state of a connection what it knows and has done.

*Matcher.*  These theorems are about `Patterns`, not about a specification: for any text
and tokens, a run of places is followed from `Start`.  `Keeps` says what one remembered
place is worth.  The whole fits if the rest
does, or if it does after the last star took more (`Going`).  Since that star every token
took one character, so that wherever these tokens begin later they end as much later
(`Tracked`): a star that comes next may then take what the last one would have taken,
and at the end of the text there is no later.  The two facts about cuts it needs are that
a star takes any text and another token one character (`StarFits`, `CharFits`).  The rounds are
paid for by `restart`, which never goes back, times the pattern, and by `j` (`Paid`); a run
that does not return goes on, so that the longest one returns.  What pattern and mode say is
put before it: from where the tokens read at a place match, the value may go on for the pattern
from that place (`MatchesGoOn`), and these positions are the only ones that obey the equations of
`Means` (`MeaningIsUnique`, from the last place back; that `Tokens` has a value at all,
`ReadExists`, goes the same way).  The stars of a mode then leave the tokens a part of the value,
which is the match of that part as a value of its own (`LastStar`, `PartFits`).  Values and
patterns are any sequences of characters, so these theorems hold after `lower()` too.

*Only model-checked.*  Liveness (`EventuallySettled`, `EventuallyDecided`,
`EventuallyEnds`, `EventuallyArchived`, `EventuallyAnswered`) needs fairness and
ENABLED.  `CompilesExactly` is about `Sigma`, whose recursive operators the provers
cannot unfold.  Its part about patterns is proved of `Patterns` (`TokensMean`, `WildcardExact`);
what selections, conditions and `evaluate` make of them is checked on texts and patterns of two
characters and more.  Induction over numbers and lengths,
where it is needed, goes by the least counterexample (`Successors`, `HasLeast`).

## 5. Findings

1. **A failed database transaction is recorded as a failed action.**  `soar.py`
   line 169 turns any exception of an adapter into `failed` once five claims were
   made, for Defender jobs too, although line 152 allows these 960 claims and
   `docs/DEFENDER_RESPONSE.md` line 19 says that exhausted polling is uncertain
   and "not a fabricated failure of the remote action".  A metadata transaction
   that fails during a later poll ends the job as `failed` while the machine is
   being isolated, and a failed job cannot be reconciled.  Run
   `fabricated_failure` shows the shortest such behaviour.  `FailureIsConfirmed`
   says that this is the only way.
2. **A late submission writes over a reconciled operation.**  `vendors.py` line 52
   does not compare the lease.  A worker whose submission outlived its lease and
   lost its answer writes `uncertain` without operation id; if an administrator
   has verified the operation in the meantime and it is pending, polling does not
   resume: the job turns uncertain again.  `docs/EXTERNAL_RESPONSE.md` line 31
   says that lease tokens fence stale database completion; they fence the job's
   row and not the operation's.  No outcome is wrong (`OutcomesAreReal` holds), the
   verification is lost.  Run `lost_operation`.

3. **An error can arrive after the event was detected.**  A normalizer publishes
   before it marks (`distributed/main.py` lines 38 and 39).  If it dies in
   between and starts again with another version of the package, the envelope it
   reads again no longer matches its snapshot and becomes an error; the quarantine
   only looks at the marker, which was never written, so an event that is already
   detected and indexed is listed as quarantined and may be replayed.
   `docs/DISTRIBUTED_LAB.md` line 58 says the quarantine checks receipts "to avoid
   resurrecting an error after successful normalization".  Run `late_error`.
   `DetectedOnce` still holds: the event is not counted twice, and a replay that
   is normalized and marked resolves the row.

Noted without a run: `docs/TYPED_EVENTS.md` line 53 says that package defaults apply
while an override is stale.  The code (`rules.py` line 84), its test
(`test_changed_package_disables_override`) and `docs/ENTERPRISE_CONTROLS.md` line 5
say that the rule is disabled until it is reviewed; `FixedRules!Effective` is the
code's.

## 6. Plan

What a next step would be, in this order.

1. Composition of `Correlation` with the journals' detector and the worker that
   stops on a batch that always fails.
2. Larger sets of event identities for `LocalJournal`, once its symmetric part is
   split from the rules.

## 7. Not modelled

Parsers and schema validation, package signatures, OIDC tokens and sealed evidence
are stateless translation or cryptography.  Of the Sigma compiler: YAML, CIDR
modifiers and the packaging of the compiled rule.  Of the native collectors: the
translation of records and the token checks of the CloudTrail pages.  Of the
archive: legal hold.  Of backup and restore: damaged snapshot files and `doctor`.
Of the pipeline: records that every attempt to decode refuses (the worker stops
on them), records that expire from a topic after seven days, commits whose
acknowledgement is lost, and deadlocks PostgreSQL breaks between two marking
transactions.  The web console and `tools/` are clients; deployment readiness is
a list of checks; search, listings and health only read.  Each is in
`PROJECT.json` with its reason.
