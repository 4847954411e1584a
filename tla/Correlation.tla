----------------------------- MODULE Correlation -----------------------------
(***************************************************************************)
(* Sliding and sequence rules: nova/correlation.py, as the detectors of    *)
(* both engines call it for the events of one tenant, inside the           *)
(* transaction that marks these events as detected.                        *)
(*                                                                         *)
(* What a rule reads of an event besides its time is an attribute.  The    *)
(* match lists are sets of attributes, and the group and the distinct      *)
(* value are functions of the attribute.                                   *)
(***************************************************************************)
EXTENDS Integers, FiniteSets

CONSTANTS
    Ids,             \* event identities; their order breaks ties in time
    Attributes, Groups, Values,
    Revisions,
    Definition,      \* content of each revision
    Streams,         \* the normalized events of a run, [Ids -> Event]
    EvidenceLimit,   \* event references in an alert (100)
    MaxGroup,        \* points of a group (10,000)
    MaxBatch,        \* events in one detector transaction
    None

Event == [time : Nat, attr : Attributes]

Rule == [mode : {"sliding", "sequence"}, window : Nat \ {0}, threshold : Nat \ {0},
         match : SUBSET Attributes, after : SUBSET Attributes,
         group : [Attributes -> Groups],
         distinct : [Attributes -> Values] \cup {None}]

Point == [revision : Revisions, id : Ids, group : Groups, time : Nat,
          first : BOOLEAN, last : BOOLEAN, value : Values \cup Ids]

Alert == [revision : Revisions, group : Groups, anchor : Ids, evidence : SUBSET Ids]

ASSUME CorrelationAssumption ==
    /\ Ids \subseteq Nat /\ IsFiniteSet(Ids) /\ IsFiniteSet(Revisions)
    /\ None \notin [Attributes -> Values]
    /\ Definition \in [Revisions -> Rule]
    /\ Streams \subseteq [Ids -> Event]
    /\ EvidenceLimit \in Nat \ {0} /\ MaxGroup \in Nat \ {0} /\ MaxBatch \in Nat \ {0}

VARIABLES
    normalized,   \* the events
    processed,    \* events the detector is done with
    effective,    \* revisions that are enabled for the tenant
    points,       \* nova_correlation_events
    alerts

vars == <<normalized, processed, effective, points, alerts>>

-----------------------------------------------------------------------------
InGroup(P, p) == {q \in P : q.revision = p.revision /\ q.group = p.group}

TypeOK ==
    /\ normalized \in [Ids -> Event]
    /\ processed \subseteq Ids
    /\ effective \subseteq Revisions
    /\ points \subseteq Point
    /\ alerts \subseteq Alert
    /\ \A p \in points : Cardinality(InGroup(points, p)) <= MaxGroup

Init ==
    /\ normalized \in Streams
    /\ processed = {}
    /\ effective \in SUBSET Revisions
    /\ points = {}
    /\ alerts = {}

\* Reviews by the tenant's administrator and restarts with other rule files.
configure(R) ==
    /\ effective' = R
    /\ UNCHANGED <<normalized, processed, points, alerts>>

IsFirst(v, e) == e.attr \in Definition[v].match

\* In a sliding rule every match is an anchor.
IsLast(v, e) ==
    e.attr \in (IF Definition[v].mode = "sequence" THEN Definition[v].after
                ELSE Definition[v].match)

PointOf(v, i) ==
    LET e == normalized[i] IN
    [revision |-> v, id |-> i, group |-> Definition[v].group[e.attr], time |-> e.time,
     first |-> IsFirst(v, e), last |-> IsLast(v, e),
     value |-> IF Definition[v].distinct = None THEN i ELSE Definition[v].distinct[e.attr]]

\* INSERT ... ON CONFLICT DO NOTHING on (tenant, revision, event).
Inserted(batch) ==
    {p \in {PointOf(v, i) : v \in effective, i \in batch} :
        /\ p.first \/ p.last
        /\ ~ \E q \in points : q.revision = p.revision /\ q.id = p.id}

\* Mutant: the group is counted before the events of the batch are inserted.
FitsBefore(new) == \A p \in new : Cardinality(InGroup(points, p)) <= MaxGroup

\* A group that is full fails the whole transaction.
Fits(new) == \A p \in new : Cardinality(InGroup(points \cup new, p)) <= MaxGroup

\* First-stage matches in the window of an anchor, its lower end excluded; in a
\* sequence equal times are no order.
Preceding(P, anchor) ==
    {p \in InGroup(P, anchor) :
        /\ p.first
        /\ anchor.time - Definition[anchor.revision].window < p.time
        /\ IF Definition[anchor.revision].mode = "sequence" THEN p.time < anchor.time
           ELSE p.time <= anchor.time}

\* Mutant: events that come after an anchor are not looked at.
AffectedNew(new, anchor) == anchor \in new

\* A stored anchor is evaluated again only for a predecessor that arrives late.
Affected(new, anchor) == anchor \in new \/ Preceding(new, anchor) # {}

Reached(P, anchor) ==
    Cardinality({p.value : p \in Preceding(P, anchor)})
        >= Definition[anchor.revision].threshold

Before(p, q) == p.time < q.time \/ (p.time = q.time /\ p.id < q.id)

Earliest(P, n) == {p \in P : Cardinality({q \in P : Before(q, p)}) < n}

\* The first predecessors, and the anchor in any case.
AlertOf(P, anchor) ==
    [revision |-> anchor.revision, group |-> anchor.group, anchor |-> anchor.id,
     evidence |-> {p.id : p \in Earliest(Preceding(P, anchor), EvidenceLimit - 1)}
                     \cup {anchor.id}]

\* One alert per anchor, inserted once; later its evidence is replaced.
Upsert(new) ==
    {a \in alerts : ~ \E b \in new : b.revision = a.revision /\ b.anchor = a.anchor} \cup new

evaluate(batch) ==
    LET new == Inserted(batch)
        P   == points \cup new
    IN  /\ Fits(new)
        /\ points' = P
        /\ alerts' = Upsert({AlertOf(P, a) :
              a \in {p \in P : p.last /\ Affected(new, p) /\ Reached(P, p)}})

detect(batch) ==
    /\ evaluate(batch)
    /\ processed' = processed \cup batch
    /\ UNCHANGED <<normalized, effective>>

Next ==
    \/ \E R \in SUBSET Revisions : configure(R)
    \/ \E batch \in SUBSET (Ids \ processed) \ {{}} :
          Cardinality(batch) <= MaxBatch /\ detect(batch)

Spec == Init /\ [][Next]_vars

-----------------------------------------------------------------------------
(* Properties *)

\* What a reader of all the counted events would report: an event "anchor" of a
\* rule with at least "threshold" different values among the first-stage events
\* of its group less than a window back, strictly earlier in a sequence.
Distance(p, anchor) == anchor.time - p.time

Supports(anchor) ==
    LET rule == Definition[anchor.revision] IN
    {p \in points : /\ p.revision = anchor.revision /\ p.group = anchor.group /\ p.first
                    /\ Distance(p, anchor) \in
                          (IF rule.mode = "sequence" THEN 1 ELSE 0) .. rule.window - 1}

Suspicious(anchor) ==
    /\ anchor.last
    /\ Cardinality({p.value : p \in Supports(anchor)})
          >= Definition[anchor.revision].threshold

\* The alerts are those of the suspicious anchors and no other, whatever the order
\* and the batches in which events arrived: predecessors after their anchor, anchors
\* of the past, and rules that were off for a while included.
OneAlertPerAnchor ==
    /\ \A p \in points : Suspicious(p) <=>
          \E a \in alerts : a.revision = p.revision /\ a.anchor = p.id
    /\ \A a, b \in alerts : a.revision = b.revision /\ a.anchor = b.anchor => a = b
    /\ \A a \in alerts : \E p \in points : p.revision = a.revision /\ p.id = a.anchor

\* The evidence of an alert is up to date: it is the anchor and its supports, or the
\* anchor and the earliest of these when they are too many.
EvidenceIsCurrent ==
    \A a \in alerts : \A p \in points :
        p.revision = a.revision /\ p.id = a.anchor =>
            LET all  == {q.id : q \in Supports(p)}
                kept == a.evidence \ {a.anchor}
            IN  /\ a.anchor \in a.evidence
                /\ kept \subseteq all
                /\ Cardinality(a.evidence) <= EvidenceLimit
                /\ \A q, r \in Supports(p) :
                      q.id \in kept /\ r.id \notin a.evidence => Before(q, r)
                /\ all \subseteq a.evidence \/ Cardinality(a.evidence) >= EvidenceLimit - 1

WindowAlertsExact == OneAlertPerAnchor /\ EvidenceIsCurrent
==============================================================================
