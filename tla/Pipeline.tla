------------------------------- MODULE Pipeline -------------------------------
(***************************************************************************)
(* The distributed engine: nova/distributed.  A gateway accepts events     *)
(* into PostgreSQL, relays move the outbox to the raw topic, and consumer  *)
(* groups normalize, detect, quarantine, index and archive.  Every worker  *)
(* runs Processor.step: read a batch, finish every output, commit the      *)
(* offsets; it may die between any two of its exchanges and start again    *)
(* with other package files, and a group may move to another worker while  *)
(* the first one is still busy.                                            *)
(*                                                                         *)
(* A PostgreSQL transaction and the delivery of a message are one action   *)
(* each.  Records are keyed by event, so a key always has the same         *)
(* partition; each key is a partition of its own here.  What detection     *)
(* makes of an event is FixedRules; here it takes the event.  Parse says   *)
(* which event time a version of a package reads from a payload.           *)
(***************************************************************************)
EXTENDS Integers, Sequences, FiniteSets

CONSTANTS
    None,
    Tenants, Ids, Packages, Versions, Payloads,
    Parse,        \* [Packages \X Versions \X Payloads -> Times \cup {None}]
    Times,
    Files,        \* package directories: a set of [Packages -> Versions \cup {None}]
    Relays,
    Workers,      \* consumer processes
    Role,         \* [Workers -> Groups]
    Stages,       \* the storing groups that run: a subset of {"indexer", "archive"}
    MaxEvents,    \* receipts of one tenant (100000)
    MaxReplays,   \* replays of one quarantined event (3)
    MaxBatch,     \* events in one request (500)
    MaxRead,      \* records one poll returns (200)
    MaxFaults     \* bound: crashes of busy processes and moves of a group

Keys        == Tenants \X Ids
Groups      == {"normalizer", "detector", "quarantine"} \cup Stages
Normalizers == {w \in Workers : Role[w] = "normalizer"}
Topics      == {"raw", "normal", "error"}

\* A message: the raw envelope with its package snapshot, and the event time
\* once it is normalized.  Integration and payload are those of the receipt.
Record == [version : Versions \cup {None}, generation : 0..MaxReplays,
           time : Times \cup {None}]

Row     == [key : Keys, version : Versions \cup {None}, generation : 0..MaxReplays]
Receipt == [integration : Packages, payload : Payloads, normalized : BOOLEAN,
            detected : BOOLEAN, stored : SUBSET Stages]

ASSUME PipelineAssumption ==
    /\ Stages \subseteq {"indexer", "archive"}
    /\ Role \in [Workers -> Groups]
    /\ "gateway" \notin Workers
    /\ IsFiniteSet(Tenants) /\ IsFiniteSet(Ids) /\ IsFiniteSet(Payloads)
    /\ MaxEvents \in Nat /\ MaxReplays \in Nat /\ MaxFaults \in Nat
    /\ MaxBatch \in Nat \ {0} /\ MaxRead \in Nat \ {0}
    /\ Files \subseteq [Packages -> Versions \cup {None}]
    /\ Parse \in [Packages \X Versions \X Payloads -> Times \cup {None}]
    /\ None \notin Versions \cup Times \cup Record \cup Receipt
    /\ None \notin [attempts : 0..MaxReplays, resolved : BOOLEAN]

VARIABLES
    installed,   \* package files a process read: gateway and normalizers
    activations, \* nova_activations: active version (its digest) or None
    receipts,    \* nova_receipts
    outbox,      \* nova_outbox
    quarantined, \* nova_quarantine
    seen,        \* nova_detection_seen: the record detection took, or None
    log,         \* topic, key -> records
    committed,   \* group, key -> offset
    owner,       \* group -> the worker its partitions are assigned to
    relay,       \* relay -> rows it holds locked and those the broker confirmed
    work,        \* worker -> batch it is processing
    store,       \* ClickHouse rows and archive objects: stage, key -> records
    faults

packageVars == <<installed, activations>>
tables      == <<activations, receipts, outbox, quarantined, seen>>
kafka       == <<log, committed, owner>>
vars == <<installed, activations, receipts, outbox, quarantined, seen, log,
          committed, owner, relay, work, store, faults>>

\* A batch is the offsets after "from" up to "upto" of each key; "sent" are the
\* positions whose output is confirmed.
Offsets == [Keys -> Nat]
Batch   == [pc : {"idle", "busy", "written"}, from : Offsets, upto : Offsets,
            sent : SUBSET (Keys \X Nat)]
NoOffsets == [k \in Keys |-> 0]
Idle      == [pc |-> "idle", from |-> NoOffsets, upto |-> NoOffsets, sent |-> {}]

TypeOK ==
    /\ installed \in [Normalizers \cup {"gateway"} -> Files]
    /\ activations \in [Tenants \X Packages -> Versions \cup {None}]
    /\ receipts \in [Keys -> Receipt \cup {None}]
    /\ outbox \in SUBSET Row
    /\ quarantined \in
          [Keys -> [attempts : 0..MaxReplays, resolved : BOOLEAN] \cup {None}]
    /\ seen \in [Keys -> Record \cup {None}]
    /\ log \in [Topics -> [Keys -> Seq(Record)]]
    /\ committed \in [Groups -> Offsets]
    /\ owner \in [Groups -> Workers]
    /\ relay \in [Relays -> [rows : SUBSET Row, sent : SUBSET Row]]
    /\ work \in [Workers -> Batch]
    /\ store \in [Stages -> [Keys -> SUBSET Record]]
    /\ faults \in 0..MaxFaults

Init ==
    /\ installed \in [Normalizers \cup {"gateway"} -> Files]
    /\ activations = [a \in Tenants \X Packages |-> None]
    /\ receipts = [k \in Keys |-> None]
    /\ outbox = {}
    /\ quarantined = [k \in Keys |-> None]
    /\ seen = [k \in Keys |-> None]
    /\ log = [topic \in Topics |-> [k \in Keys |-> <<>>]]
    /\ committed = [g \in Groups |-> NoOffsets]
    /\ owner \in [Groups -> Workers]
    /\ \A g \in Groups : Role[owner[g]] = g
    /\ relay = [r \in Relays |-> [rows |-> {}, sent |-> {}]]
    /\ work = [w \in Workers |-> Idle]
    /\ store = [s \in Stages |-> [k \in Keys |-> {}]]
    /\ faults = 0

-----------------------------------------------------------------------------
(* The gateway: one PostgreSQL transaction per request *)

activate(t, p) ==
    /\ installed["gateway"][p] # None
    /\ activations' = [activations EXCEPT ![<<t, p>>] = installed["gateway"][p]]
    /\ UNCHANGED <<installed, receipts, outbox, quarantined, seen, kafka, relay, work,
                   store, faults>>

deactivate_integration(t, p) ==
    /\ activations' = [activations EXCEPT ![<<t, p>>] = None]
    /\ UNCHANGED <<installed, receipts, outbox, quarantined, seen, kafka, relay, work,
                   store, faults>>

\* An identity may come again only with the integration and payload it had.
Conflict(t, p, batch) ==
    \/ \E e, f \in batch : e.id = f.id /\ e # f
    \/ \E e \in batch :
          /\ receipts[<<t, e.id>>] # None
          /\ \/ receipts[<<t, e.id>>].integration # p
             \/ receipts[<<t, e.id>>].payload # e.payload

Fresh(t, batch) == {e \in batch : receipts[<<t, e.id>>] = None}

Room(t, fresh) ==
    Cardinality({i \in Ids : receipts[<<t, i>>] # None}) + Cardinality(fresh) <= MaxEvents

\* The receipt and the outbox row are written together; the envelope carries
\* the package version active at this moment.
ingest(t, p, batch) ==
    LET fresh == Fresh(t, batch)
    IN  /\ ~ Conflict(t, p, batch)
        /\ Room(t, fresh)
        /\ receipts' = [k \in Keys |->
              IF \E e \in fresh : k = <<t, e.id>>
              THEN [integration |-> p,
                    payload |-> (CHOOSE e \in fresh : k = <<t, e.id>>).payload,
                    normalized |-> FALSE, detected |-> FALSE, stored |-> {}]
              ELSE receipts[k]]
        /\ outbox' = outbox \cup
              {[key |-> <<t, e.id>>, version |-> activations[<<t, p>>], generation |-> 0] :
                  e \in fresh}
        /\ UNCHANGED <<packageVars, quarantined, seen, kafka, relay, work, store, faults>>

Open(k) == quarantined[k] # None /\ ~ quarantined[k].resolved

\* Mutant: the attempt limit is not read.
ReplayableForever(k) == Open(k)

Replayable(k) == Open(k) /\ quarantined[k].attempts < MaxReplays

replay(k) ==
    /\ Replayable(k)
    /\ LET version    == activations[<<k[1], receipts[k].integration>>]
           generation == quarantined[k].attempts + 1
       IN  /\ version # None
           /\ quarantined' = [quarantined EXCEPT ![k].attempts = @ + 1]
           /\ outbox' = outbox \cup
                 {[key |-> k, version |-> version, generation |-> generation]}
    /\ UNCHANGED <<packageVars, receipts, seen, kafka, relay, work, store, faults>>

-----------------------------------------------------------------------------
(* relay: rows are locked, delivered one by one, and deleted once confirmed *)

Locked == UNION {relay[r].rows : r \in Relays}

\* FOR UPDATE SKIP LOCKED in the order of insertion: rows of one event are
\* taken oldest first.
InOrder(rows, among) ==
    \A row \in rows, other \in among :
        other.key = row.key /\ other.generation < row.generation => other \in rows

take(r) ==
    /\ relay[r].rows = {}
    /\ \E rows \in SUBSET (outbox \ Locked) \ {{}} :
          /\ InOrder(rows, outbox \ Locked)
          /\ relay' = [relay EXCEPT ![r].rows = rows]
    /\ UNCHANGED <<installed, tables, kafka, work, store, faults>>

deliver(r) ==
    /\ \E row \in relay[r].rows \ relay[r].sent :
          /\ InOrder(relay[r].sent \cup {row}, relay[r].rows)
          /\ log' = [log EXCEPT !["raw"][row.key] =
                Append(@, [version |-> row.version, generation |-> row.generation,
                           time |-> None])]
          /\ relay' = [relay EXCEPT ![r].sent = @ \cup {row}]
    /\ UNCHANGED <<installed, tables, committed, owner, work, store, faults>>

\* Mutant: the rows are deleted before the broker has confirmed them.
ConfirmedEarly(r) == relay[r].rows # {}

Confirmed(r) == relay[r].rows # {} /\ relay[r].sent = relay[r].rows

confirm(r) ==
    /\ Confirmed(r)
    /\ outbox' = outbox \ relay[r].rows
    /\ relay' = [relay EXCEPT ![r] = [rows |-> {}, sent |-> {}]]
    /\ UNCHANGED <<installed, activations, receipts, quarantined, seen, kafka, work,
                   store, faults>>

-----------------------------------------------------------------------------
(* Processor.step: read, write, commit *)

TopicOf(g) == CASE g \in {"normalizer", "archive"} -> "raw"
                [] g \in {"detector", "indexer"}   -> "normal"
                [] g = "quarantine"                -> "error"

Records(w) == log[TopicOf(Role[w])]

Positions(w) == UNION {{k} \X (work[w].from[k] + 1 .. work[w].upto[k]) : k \in Keys}

Touched(w) == {k \in Keys : work[w].from[k] < work[w].upto[k]}

\* A poll returns up to n records of each of some partitions.
Upto(w, keys, n) ==
    [k \in Keys |->
        LET first == committed[Role[w]][k]
            last  == Len(Records(w)[k])
        IN  IF k \notin keys THEN first ELSE IF first + n < last THEN first + n ELSE last]

read(w) ==
    LET from == committed[Role[w]] IN
    /\ work[w].pc = "idle" /\ owner[Role[w]] = w
    /\ \E keys \in SUBSET Keys, n \in 1..MaxRead :
          /\ Upto(w, keys, n) # from
          /\ work' = [work EXCEPT ![w] = [pc |-> "busy", from |-> from,
                                          upto |-> Upto(w, keys, n), sent |-> {}]]
    /\ UNCHANGED <<installed, tables, kafka, relay, store, faults>>

Written(w) == work' = [work EXCEPT ![w].pc = "written"]

Owns(w) == owner[Role[w]] = w

\* A worker whose group has moved on is refused, and starts again.
commit(w) ==
    /\ work[w].pc = "written"
    /\ committed' = IF Owns(w) THEN [committed EXCEPT ![Role[w]] = work[w].upto]
                    ELSE committed
    /\ work' = [work EXCEPT ![w] = Idle]
    /\ UNCHANGED <<installed, tables, log, owner, relay, store, faults>>

-----------------------------------------------------------------------------
(* The sinks *)

\* The installed package must be the one of the envelope's snapshot and accept
\* the payload; otherwise the result has no event time.
Transform(w, k, record) ==
    LET receipt == receipts[k]
        version == installed[w][receipt.integration]
    IN  [record EXCEPT !.time =
            IF version # None /\ version = record.version
            THEN Parse[<<receipt.integration, version, receipt.payload>>]
            ELSE None]

OutTopic(record) == IF record.time = None THEN "error" ELSE "normal"

Output(w, k, i) == Transform(w, k, log["raw"][k][i])

Sent(w, k, i) == work' = [work EXCEPT ![w].sent = @ \cup {<<k, i>>}]

\* The producer delivers one output; those of one partition in their order.
publish(w, k, i) ==
    LET out == Output(w, k, i) IN
    /\ \A j \in work[w].from[k] + 1 .. i - 1 :
          OutTopic(Output(w, k, j)) = OutTopic(out) => <<k, j>> \in work[w].sent
    /\ log' = [log EXCEPT ![OutTopic(out)][k] = Append(@, out)]
    /\ Sent(w, k, i)
    /\ UNCHANGED <<installed, tables, committed, owner, relay, store, faults>>

\* ClickHouse and the archive keep a set: writing a record again changes nothing.
keep(w, k, i) ==
    /\ store' = [store EXCEPT ![Role[w]][k] = @ \cup {Records(w)[k][i]}]
    /\ Sent(w, k, i)
    /\ UNCHANGED <<installed, tables, kafka, relay, faults>>

send(w) ==
    /\ work[w].pc = "busy"
    /\ \E p \in Positions(w) \ work[w].sent :
          \/ Role[w] = "normalizer" /\ publish(w, p[1], p[2])
          \/ Role[w] \in Stages /\ keep(w, p[1], p[2])

\* Mutant: the stage is marked while outputs are still on their way.
FinishedEarly(w) == TRUE

Finished(w) == work[w].sent = Positions(w)

\* Mutant: every event of the batch is marked, those with errors included.
NormalizedBatch(w) == Touched(w)

\* The events of the batch with a normalized output.
Normalized(w) ==
    {k \in Keys : \E i \in work[w].from[k] + 1 .. work[w].upto[k] :
        Output(w, k, i).time # None}

Resolved(keys) ==
    [k \in Keys |-> IF k \in keys /\ quarantined[k] # None
                    THEN [quarantined[k] EXCEPT !.resolved = TRUE] ELSE quarantined[k]]

mark(w) ==
    /\ work[w].pc = "busy" /\ Finished(w)
    /\ \/ /\ Role[w] = "normalizer"
          /\ receipts' = [k \in Keys |->
                IF k \in Normalized(w) THEN [receipts[k] EXCEPT !.normalized = TRUE]
                ELSE receipts[k]]
          /\ quarantined' = Resolved(Normalized(w))
       \/ /\ Role[w] \in Stages
          /\ receipts' = [k \in Keys |->
                IF k \in Touched(w) THEN [receipts[k] EXCEPT !.stored = @ \cup {Role[w]}]
                ELSE receipts[k]]
          /\ UNCHANGED quarantined
    /\ Written(w)
    /\ UNCHANGED <<packageVars, outbox, seen, kafka, relay, store, faults>>

\* Mutant: redelivered events are evaluated again.
UnseenAlways(w) == Touched(w)

Unseen(w) == {k \in Touched(w) : seen[k] = None}

\* The first record of an event that detection never saw is evaluated.
detect(w) ==
    LET fresh == Unseen(w) IN
    /\ work[w].pc = "busy" /\ Role[w] = "detector"
    /\ seen' = [k \in Keys |-> IF k \in fresh THEN Records(w)[k][work[w].from[k] + 1]
                               ELSE seen[k]]
    /\ receipts' = [k \in Keys |-> IF k \in fresh
                                   THEN [receipts[k] EXCEPT !.detected = TRUE]
                                   ELSE receipts[k]]
    /\ Written(w)
    /\ UNCHANGED <<packageVars, outbox, quarantined, kafka, relay, store, faults>>

\* Mutant: the receipt is not read.
UnresolvedAlways(k) == TRUE

\* The receipt has no normalization marker.
Unresolved(k) == ~ receipts[k].normalized

NewRow == [attempts |-> 0, resolved |-> FALSE]

\* Mutant: the row that is there is replaced.
RowReplaced(k) == NewRow

\* A row is inserted, or the reason of the row that is there replaced.
RowAfter(k) == IF quarantined[k] = None THEN NewRow ELSE quarantined[k]

quarantine(w) ==
    /\ work[w].pc = "busy" /\ Role[w] = "quarantine"
    /\ quarantined' = [k \in Keys |->
          IF k \in Touched(w) /\ Unresolved(k) THEN RowAfter(k) ELSE quarantined[k]]
    /\ Written(w)
    /\ UNCHANGED <<packageVars, receipts, outbox, seen, kafka, relay, store, faults>>

-----------------------------------------------------------------------------
(* Processes and groups *)

Fault == faults < MaxFaults /\ faults' = faults + 1

\* A relay dies and its locks end.
relay_restart(r) ==
    /\ relay[r].rows # {} /\ Fault
    /\ relay' = [relay EXCEPT ![r] = [rows |-> {}, sent |-> {}]]
    /\ UNCHANGED <<installed, tables, kafka, work, store>>

\* A worker dies and starts again with the package files of that moment.
restart(w, files) ==
    /\ IF work[w].pc = "idle" THEN UNCHANGED faults ELSE Fault
    /\ work' = [work EXCEPT ![w] = Idle]
    /\ installed' = IF w \in Normalizers THEN [installed EXCEPT ![w] = files] ELSE installed
    /\ UNCHANGED <<tables, kafka, relay, store>>

gateway_restart(files) ==
    /\ installed' = [installed EXCEPT !["gateway"] = files]
    /\ UNCHANGED <<tables, kafka, relay, work, store, faults>>

\* The group's partitions are assigned to another worker; the one that had them
\* may still be busy.
rebalance(w) ==
    /\ owner[Role[w]] # w /\ work[w].pc = "idle" /\ Fault
    /\ owner' = [owner EXCEPT ![Role[w]] = w]
    /\ UNCHANGED <<installed, tables, log, committed, relay, work, store>>

Requests == [id : Ids, payload : Payloads]

relay_step(r)  == take(r) \/ deliver(r) \/ confirm(r)
worker_step(w) == read(w) \/ send(w) \/ mark(w) \/ detect(w) \/ quarantine(w) \/ commit(w)

Next ==
    \/ \E t \in Tenants, p \in Packages :
          \/ activate(t, p)
          \/ deactivate_integration(t, p)
          \/ \E batch \in SUBSET Requests :
                Cardinality(batch) \in 1..MaxBatch /\ ingest(t, p, batch)
    \/ \E k \in Keys : replay(k)
    \/ \E r \in Relays : relay_step(r) \/ relay_restart(r)
    \/ \E w \in Workers : worker_step(w) \/ rebalance(w) \/ \E files \in Files : restart(w, files)
    \/ \E files \in Files : gateway_restart(files)

Spec == Init /\ [][Next]_vars

\* Each relay and each worker loops; compose starts a worker that died again.
Fairness ==
    /\ \A r \in Relays : WF_vars(relay_step(r))
    /\ \A w \in Workers : WF_vars(worker_step(w))

FairSpec == Spec /\ Fairness

-----------------------------------------------------------------------------
(* Properties *)

Accepted(k) == receipts[k] # None

\* No acknowledged event is ever lost between two stores: it waits in the
\* outbox, as a record some consumer has not committed, or it has reached the
\* normalized topic or the quarantine.
NothingLost ==
    \A k \in Keys : Accepted(k) =>
        \/ \E row \in outbox : row.key = k
        \/ committed["normalizer"][k] < Len(log["raw"][k])
        \/ log["normal"][k] # <<>>
        \/ committed["quarantine"][k] < Len(log["error"][k])
        \/ quarantined[k] # None

\* A committed offset is a promise: whatever a group has committed was published
\* with its generation, evaluated, quarantined or resolved, or stored; and a store's
\* marker, which health and search rely on, is set after the fact.
CommittedIsDone ==
    \A k \in Keys :
        /\ \A i \in 1..committed["normalizer"][k] :
              \E topic \in {"normal", "error"} : \E j \in DOMAIN log[topic][k] :
                 log[topic][k][j].generation = log["raw"][k][i].generation
        /\ committed["detector"][k] > 0 => seen[k] # None
        /\ committed["quarantine"][k] > 0 => receipts[k].normalized \/ quarantined[k] # None
        /\ \A s \in Stages : \A i \in 1..committed[s][k] :
              log[TopicOf(s)][k][i] \in store[s][k]
        /\ Accepted(k) => \A s \in receipts[k].stored : store[s][k] # {}

\* The markers of normalization and detection are set after the fact, and an event
\* with the first has no open quarantine row, whichever of the two transactions came
\* first.
MarkersAreHonest ==
    \A k \in Keys : Accepted(k) =>
        /\ receipts[k].normalized => log["normal"][k] # <<>> /\ ~ Open(k)
        /\ receipts[k].detected <=> seen[k] # None

\* Detection evaluates an event once and keeps to the record it took.
DetectedOnce ==
    [][\A k \in Keys : seen[k] # None => seen'[k] = seen[k]]_vars

\* An event that was normalized and detected does not turn up in quarantine.
NoLateError ==
    [][\A k \in Keys : seen[k] # None /\ ~ Open(k) => ~ Open(k)']_vars

\* The state of the stores and topics as the ledger every engine promises.
\* While an attempt is under way, the row of the attempt before is still open.
ErrorOfThisAttempt(k) ==
    \/ quarantined[k].attempts = 0
    \/ \E i \in 1..committed["quarantine"][k] :
          log["error"][k][i].generation = quarantined[k].attempts

LedgerStatus ==
    [k \in Keys |->
        IF ~ Accepted(k) THEN "absent"
        ELSE IF seen[k] # None THEN "detected"
        ELSE IF log["normal"][k] # <<>> THEN "normalized"
        ELSE IF quarantined[k] # None /\ ErrorOfThisAttempt(k) THEN "quarantined"
        ELSE "queued"]

LedgerReplays ==
    [k \in Keys |-> IF log["normal"][k] # <<>> \/ quarantined[k] = None THEN 0
                    ELSE quarantined[k].attempts]

Ledger == INSTANCE EventLedger WITH
    status <- LedgerStatus, replays <- LedgerReplays, LateSuccess <- TRUE

\* The distributed engine implements the event ledger.
ImplementsLedger == Ledger!Spec

\* Every accepted event is eventually detected or in quarantine, and every
\* normalized event is eventually in every store that runs, and marked.
EventuallySettled ==
    \A k \in Keys :
        /\ Accepted(k) ~> seen[k] # None \/ quarantined[k] # None
        /\ \A s \in Stages :
              log[TopicOf(s)][k] # <<>> ~>
                 store[s][k] # {} /\ Accepted(k) /\ s \in receipts[k].stored
=============================================================================
