----------------------------- MODULE LocalJournal -----------------------------
(***************************************************************************)
(* The local engine of nova/core.py: one SQLite journal, every write in a  *)
(* BEGIN IMMEDIATE transaction, so every operation is one action.  A       *)
(* refused operation rolls back and is not a step.                         *)
(*                                                                         *)
(* The integration packages and the rules are files read when the process  *)
(* starts: "installed" and "rules" change only with Restart.  What a       *)
(* package makes of a payload is the constant Parse.                       *)
(***************************************************************************)
EXTENDS FixedRules, Functions, FiniteSetsExt

CONSTANTS
    Packages, Versions, Payloads,
    Parse,        \* [Packages \X Versions \X Payloads -> Events \cup {None}]
    MaxEvents,    \* journal capacity of one tenant
    MaxReplays,   \* operator replays of one quarantined event (3)
    MaxBatch,     \* events in one request (500)
    MaxLimit      \* rows one worker transaction takes (200)

Keys == Tenants \X Ids

RawRow    == [seq : Nat, integration : Packages, payload : Payloads]
NormalRow == [event : Events, parser : Packages, version : Versions]

ASSUME LocalJournalAssumption ==
    /\ IsFiniteSet(Tenants) /\ IsFiniteSet(Ids) /\ IsFiniteSet(Payloads)
    /\ MaxEvents \in Nat /\ MaxReplays \in Nat
    /\ MaxBatch \in Nat \ {0} /\ MaxLimit \in Nat \ {0}
    /\ None \notin Nat /\ None \notin Versions
    /\ None \notin RawRow /\ None \notin NormalRow /\ None \notin Events
    /\ DOMAIN Parse = Packages \X Versions \X Payloads
    /\ \A x \in DOMAIN Parse : Parse[x] \in Events \cup {None}

VARIABLES
    installed,    \* package files: installed version of each package or None
    activations,  \* tenant, package -> active version or None
    raw,          \* raw_events: the accepted row of a key or None
    lastSeq,      \* AUTOINCREMENT counter of raw_events
    normalized,   \* the normalized row of a key or None
    quarantine,   \* attempts column of the key's quarantine row, None without
    processed     \* consumer ledger: the keys each worker is done with

journalVars == <<installed, activations, raw, lastSeq, normalized, quarantine, processed>>
vars == <<journalVars, ruleVars>>

Workers == {"normalizer", "detector"}

TypeOK ==
    /\ RulesTypeOK
    /\ installed \in [Packages -> Versions \cup {None}]
    /\ activations \in [Tenants \X Packages -> Versions \cup {None}]
    /\ raw \in [Keys -> RawRow \cup {None}]
    /\ lastSeq \in Nat
    /\ normalized \in [Keys -> NormalRow \cup {None}]
    /\ quarantine \in [Keys -> 0..MaxReplays \cup {None}]
    /\ processed \in [Workers -> SUBSET Keys]

Accepted    == {k \in Keys : raw[k] # None}

\* Mutant: a cursor over the sequence numbers instead of the ledger.
UnprocessedAfterCursor ==
    {k \in Accepted : \A j \in processed["normalizer"] \cap Accepted :
                         raw[j].seq < raw[k].seq}

Unprocessed == Accepted \ processed["normalizer"]
Undetected  == {k \in Keys : normalized[k] # None} \ processed["detector"]

-----------------------------------------------------------------------------
Init ==
    /\ RulesInit
    /\ installed \in [Packages -> Versions \cup {None}]
    /\ \E p \in Packages : installed[p] # None
    /\ activations = [a \in Tenants \X Packages |-> None]
    /\ raw = [k \in Keys |-> None]
    /\ lastSeq = 0
    /\ normalized = [k \in Keys |-> None]
    /\ quarantine = [k \in Keys |-> None]
    /\ processed = [w \in Workers |-> {}]

\* A new process reads the package and the rule directories.
Restart(files, R) ==
    /\ \E p \in Packages : files[p] # None
    /\ installed' = files
    /\ InstallRules(R)
    /\ UNCHANGED <<activations, raw, lastSeq, normalized, quarantine, processed>>

activate(t, p) ==
    /\ installed[p] # None
    /\ activations' = [activations EXCEPT ![<<t, p>>] = installed[p]]
    /\ UNCHANGED <<installed, raw, lastSeq, normalized, quarantine, processed, ruleVars>>

deactivate_integration(t, p) ==
    /\ activations' = [activations EXCEPT ![<<t, p>>] = None]
    /\ UNCHANGED <<installed, raw, lastSeq, normalized, quarantine, processed, ruleVars>>

set_rule(t, v, enabled) ==
    /\ SetRule(t, v, enabled)
    /\ UNCHANGED journalVars

-----------------------------------------------------------------------------
(* ingest: all the events of a request are recorded, or none *)

\* An identity may come again only with the integration and payload it had,
\* in the journal as well as within the request.
Conflict(t, p, batch) ==
    \/ \E e, f \in batch : e.id = f.id /\ e # f
    \/ \E e \in batch :
          /\ raw[<<t, e.id>>] # None
          /\ \/ raw[<<t, e.id>>].integration # p
             \/ raw[<<t, e.id>>].payload # e.payload

\* Mutant: INSERT OR REPLACE, a repeated event takes a new row.
FreshReplacing(t, batch) == batch

Fresh(t, batch) == {e \in batch : raw[<<t, e.id>>] = None}

Stored(t) == Cardinality({i \in Ids : raw[<<t, i>>] # None})

Room(t, fresh) == Stored(t) + Cardinality(fresh) <= MaxEvents

CounterAfter(fresh) == lastSeq + Cardinality(fresh)

ingest(t, p, batch) ==
    LET fresh == Fresh(t, batch)
    IN  /\ ~ Conflict(t, p, batch)
        /\ Room(t, fresh)
        /\ \E order \in Bijection({e.id : e \in fresh}, 1..Cardinality(fresh)) :
              raw' = [k \in Keys |->
                        IF \E e \in fresh : k = <<t, e.id>>
                        THEN LET e == CHOOSE f \in fresh : k = <<t, f.id>>
                             IN  [seq |-> lastSeq + order[e.id],
                                  integration |-> p, payload |-> e.payload]
                        ELSE raw[k]]
        /\ lastSeq' = CounterAfter(fresh)
        /\ UNCHANGED <<installed, activations, normalized, quarantine, processed, ruleVars>>

-----------------------------------------------------------------------------
(* the normalizer's transaction *)

\* The ways to take n elements of S, or all when there are fewer, that come
\* first in the order Before: ORDER BY ... LIMIT n, where ties are arbitrary.
FirstOf(S, n, Before(_, _)) ==
    {B \in kSubset(IF Cardinality(S) < n THEN Cardinality(S) ELSE n, S) :
        \A k \in B, j \in S \ B : ~ Before(j, k)}

BySeq(j, k) == raw[j].seq < raw[k].seq

\* The tenant has activated the installed version of the event's integration.
Active(k) ==
    LET v == installed[raw[k].integration]
    IN  v # None /\ activations[<<k[1], raw[k].integration>>] = v

\* What the package makes of the event, None when it is not active or refuses
\* the payload.
Normalize(k) ==
    LET p == raw[k].integration
        e == Parse[<<p, installed[p], raw[k].payload>>]
    IN  IF ~ Active(k) \/ e = None THEN None
        ELSE [event |-> e, parser |-> p, version |-> installed[p]]

\* Mutant: a late success leaves the quarantine row in place.
QuarantineKept(B, good) ==
    [k \in Keys |-> IF k \in B \ good /\ quarantine[k] = None THEN 0 ELSE quarantine[k]]

\* Mutant: the quarantine row is replaced, attempts included.
QuarantineReset(B, good) ==
    [k \in Keys |-> IF k \in good THEN None ELSE IF k \in B THEN 0 ELSE quarantine[k]]

\* Success deletes the quarantine row, failure inserts one or keeps its attempts.
QuarantineAfter(B, good) ==
    [k \in Keys |-> IF k \in good THEN None
                    ELSE IF k \in B /\ quarantine[k] = None THEN 0
                    ELSE quarantine[k]]

NormalizeRows(B) ==
    LET good == {k \in B : Normalize(k) # None}
    IN  /\ normalized' = [k \in Keys |->
              IF k \in good /\ normalized[k] = None THEN Normalize(k)
              ELSE normalized[k]]
        /\ quarantine' = QuarantineAfter(B, good)
        /\ processed' = [processed EXCEPT !["normalizer"] = @ \cup B]

normalize_batch(limit) ==
    /\ Unprocessed # {}
    /\ \E B \in FirstOf(Unprocessed, limit, BySeq) : NormalizeRows(B)
    /\ UNCHANGED <<installed, activations, raw, lastSeq, ruleVars>>

-----------------------------------------------------------------------------
(* the detector's transaction *)

ByEventTime(j, k) ==
    LET a == normalized[j].event.time
        b == normalized[k].event.time
    IN  \/ a < b
        \/ a = b /\ j[2] < k[2]

Rows(B) == {[tenant |-> k[1], id |-> k[2], event |-> normalized[k].event] : k \in B}

DetectRows(B) ==
    /\ Evaluate(Rows(B))
    /\ processed' = [processed EXCEPT !["detector"] = @ \cup B]

detect_batch(limit) ==
    /\ Undetected # {}
    /\ \E B \in FirstOf(Undetected, limit, ByEventTime) : DetectRows(B)
    /\ UNCHANGED <<installed, activations, raw, lastSeq, normalized, quarantine>>

-----------------------------------------------------------------------------
\* Mutant: the attempt limit is not read.
ReplayableForever(k) == quarantine[k] # None

Replayable(k) == quarantine[k] # None /\ quarantine[k] < MaxReplays

\* An operator queues a quarantined event again.  The quarantine row stays and
\* carries the attempts.
replay(k) ==
    /\ Replayable(k)
    /\ quarantine' = [quarantine EXCEPT ![k] = @ + 1]
    /\ processed' = [processed EXCEPT !["normalizer"] = @ \ {k}]
    /\ UNCHANGED <<installed, activations, raw, lastSeq, normalized, ruleVars>>

-----------------------------------------------------------------------------
Requests == [id : Ids, payload : Payloads]
Batches  == UNION {kSubset(n, Requests) : n \in 1..MaxBatch}

Next ==
    \/ \E files \in [Packages -> Versions \cup {None}], R \in SUBSET Revisions :
          Restart(files, R)
    \/ \E t \in Tenants, p \in Packages :
          \/ activate(t, p)
          \/ deactivate_integration(t, p)
          \/ \E batch \in Batches : ingest(t, p, batch)
    \/ \E t \in Tenants, v \in Revisions, enabled \in BOOLEAN : set_rule(t, v, enabled)
    \/ \E limit \in 1..MaxLimit : normalize_batch(limit) \/ detect_batch(limit)
    \/ \E k \in Keys : replay(k)

Spec == Init /\ [][Next]_vars

\* The worker thread of nova/server.py drains both queues until they are empty.
Fairness ==
    /\ WF_vars(\E limit \in 1..MaxLimit : normalize_batch(limit))
    /\ WF_vars(\E limit \in 1..MaxLimit : detect_batch(limit))

FairSpec == Spec /\ Fairness

-----------------------------------------------------------------------------
(* Properties *)

\* The five tables agree about every event: the normalizer is done with it
\* exactly when it is normalized or waits in quarantine, never both; a
\* normalized event has no quarantine row; detection only follows
\* normalization; a queued event with a quarantine row was replayed.
Settlement ==
    \A k \in Keys :
        /\ (normalized[k] # None \/ quarantine[k] # None \/ k \in processed["normalizer"])
              => raw[k] # None
        /\ normalized[k] # None => k \in processed["normalizer"] /\ quarantine[k] = None
        /\ k \in processed["normalizer"] => (normalized[k] # None \/ quarantine[k] # None)
        /\ k \in processed["detector"] => normalized[k] # None
        /\ (k \notin processed["normalizer"] /\ quarantine[k] # None) => quarantine[k] > 0

\* An accepted row and a normalized row never change: a reused identity, a
\* replay or an upgrade of a package rewrites nothing.
KeepsHistory ==
    \A k \in Keys :
        /\ raw[k] # None => raw'[k] = raw[k]
        /\ normalized[k] # None => normalized'[k] = normalized[k]

HistoryIsImmutable == [][KeepsHistory]_vars

\* While an event is unresolved its replay attempts are never given back: a
\* failed replay that is quarantined again keeps its count.
KeepsAttempts ==
    \A k \in Keys : quarantine[k] # None =>
        \/ normalized'[k] # None
        \/ quarantine'[k] # None /\ quarantine'[k] >= quarantine[k]

AttemptsAccumulate == [][KeepsAttempts]_vars

\* An alert refers only to events of its own tenant that are normalized and
\* were taken by detection, although one transaction detects several tenants.
EvidenceExists ==
    \A al \in alerts : \A i \in al.evidence :
        /\ normalized[<<al.tenant, i>>] # None
        /\ <<al.tenant, i>> \in processed["detector"]

\* Detection looks at an event once, under the settings of that moment: neither
\* enabling a rule, nor reviewing a new revision, nor a restart makes an event
\* that was already taken count later, and a rule its tenant has reviewed counts
\* only while it is enabled and in the very revision that was reviewed.
CountsInTime ==
    \A h \in hits' \ hits :
        /\ <<h.tenant, h.id>> \in processed'["detector"] \ processed["detector"]
        /\ h.revision \in rules
        /\ LET s == settings[<<h.tenant, Definition[h.revision].id>>]
           IN  s # None => s.enabled /\ s.revision = h.revision

NoRetroactiveHits == [][CountsInTime]_vars

\* The tables as the ledger every engine promises.
LedgerStatus ==
    [k \in Keys |->
        IF raw[k] = None THEN "absent"
        ELSE IF k \in processed["detector"] THEN "detected"
        ELSE IF normalized[k] # None THEN "normalized"
        ELSE IF k \in processed["normalizer"] THEN "quarantined"
        ELSE "queued"]

LedgerReplays == [k \in Keys |-> IF quarantine[k] = None THEN 0 ELSE quarantine[k]]

Ledger == INSTANCE EventLedger WITH
    status <- LedgerStatus, replays <- LedgerReplays, LateSuccess <- FALSE

\* The journal implements the event ledger.
ImplementsLedger == Ledger!Spec

\* Every accepted event is eventually settled: detected, or in quarantine and
\* out of the normalizer's queue.
EventuallySettled ==
    \A k \in Keys : k \in Accepted ~>
        \/ k \in processed["detector"]
        \/ quarantine[k] # None /\ k \in processed["normalizer"]
=============================================================================
