------------------------- MODULE LocalJournal_proofs -------------------------
(***************************************************************************)
(* Theorems about the local journal for any number of tenants, events,     *)
(* packages, rules and limits.  The inductive invariant joins the types    *)
(* with Settlement: the normalizer can only be shown to insert rows and to *)
(* resolve quarantine consistently because an unprocessed event is not     *)
(* normalized yet.  The last sections are about the Sigma predicates that  *)
(* rules are compiled to: the matcher, and what it makes of a pattern.     *)
(***************************************************************************)
EXTENDS LocalJournal, Patterns, FiniteSetTheorems, WellFoundedInduction, TLAPS

-----------------------------------------------------------------------------
(* What one detector transaction does to the tables of fixed rules *)

\* The rows the detector hands to Evaluate.
IsBatch(rows) ==
    /\ IsFiniteSet(rows)
    /\ rows \subseteq [tenant : Tenants, id : Ids, event : Events]

-----------------------------------------------------------------------------
\* A set that a function on a finite set covers is finite.
LEMMA FiniteImage ==
    ASSUME NEW S, IsFiniteSet(S), NEW T, NEW f \in [S -> T],
           \A t \in T : \E x \in S : f[x] = t
    PROVE  IsFiniteSet(T)
<1>1. f \in Surjection(S, T)
  BY DEF Surjection
<1>2. QED
  BY <1>1, FS_Surjection

\* A row that matches a revision makes a well-formed hit.
LEMMA HitType ==
    ASSUME NEW v \in Revisions, NEW row \in [tenant : Tenants, id : Ids, event : Events]
    PROVE  HitOf(v, row) \in Hit
<1>1. /\ Definition[v].window \in Nat \ {0}
      /\ Definition[v].group_by \subseteq Fields
      /\ Definition[v].distinct \in Fields \cup {None}
  BY FixedRulesAssumption
<1>2. row.event.time \in Nat /\ row.event.fields \in [Fields -> Values]
  BY DEF Events
<1>3. row.event.time \div Definition[v].window \in Int
  BY <1>1, <1>2
<1>4. [f \in Definition[v].group_by |-> row.event.fields[f]]
          \in UNION {[G -> Values] : G \in SUBSET Fields}
  BY <1>1, <1>2
<1>5. GroupOf(v, row.event) \in Group
  BY <1>3, <1>4 DEF GroupOf, Group
<1>6. (IF Definition[v].distinct = None THEN row.id
       ELSE row.event.fields[Definition[v].distinct]) \in Values \cup Ids
  BY <1>1, <1>2
<1>7. QED
  BY <1>5, <1>6 DEF HitOf, Hit

\* The hits of a finite batch are finitely many well-formed hits.
LEMMA HitsOfType ==
    ASSUME RulesTypeOK, NEW rows, IsBatch(rows)
    PROVE  HitsOf(rows) \subseteq Hit /\ IsFiniteSet(HitsOf(rows))
<1> DEFINE pairs == {q \in rows \X rules : Matches(q[1].tenant, q[2], q[1].event)}
           make  == [p \in pairs |-> HitOf(p[2], p[1])]
<1>1. rules \subseteq Revisions /\ IsFiniteSet(rules)
  BY FixedRulesAssumption, FS_Subset DEF RulesTypeOK
<1>2. IsFiniteSet(rows \X rules)
  BY <1>1, FS_Product DEF IsBatch
<1>3. IsFiniteSet(pairs)
  BY <1>2, FS_Subset
<1>4. /\ make \in [pairs -> HitsOf(rows)]
      /\ \A h \in HitsOf(rows) : \E p \in pairs : make[p] = h
  BY DEF HitsOf
<1>5. IsFiniteSet(HitsOf(rows))
  <2> HIDE DEF pairs, make
  <2> QED BY <1>3, <1>4, FiniteImage
<1>6. \A p \in pairs : HitOf(p[2], p[1]) \in Hit
  BY <1>1, HitType DEF IsBatch
<1>7. QED
  BY <1>5, <1>6 DEF HitsOf

\* The detector's transaction leaves the tables of the rules well formed.
LEMMA EvaluateType ==
    ASSUME RulesTypeOK, NEW rows, IsBatch(rows), Evaluate(rows)
    PROVE  RulesTypeOK'
<1>1. HitsOf(rows) \subseteq Hit /\ IsFiniteSet(HitsOf(rows))
  BY HitsOfType
<1>2. hits' \in SUBSET Hit /\ IsFiniteSet(hits')
  <2>1. {h \in HitsOf(rows) : ~ \E g \in hits : SameHit(h, g)} \subseteq HitsOf(rows)
    OBVIOUS
  <2>2. IsFiniteSet({h \in HitsOf(rows) : ~ \E g \in hits : SameHit(h, g)})
    BY <1>1, <2>1, FS_Subset
  <2>3. QED
    BY <1>1, <2>1, <2>2, FS_Union DEF Evaluate, HitsAfter, RulesTypeOK
<1>3. ASSUME NEW h \in HitsOf(rows)
      PROVE  AlertOf(hits', h) \in Alert
  <2>1. h \in Hit
    BY <1>1
  <2>2. {g.id : g \in InGroup(hits', h.tenant, h.revision, h.group)} \subseteq Ids
    BY <1>2 DEF InGroup, Hit
  <2>3. Smallest({g.id : g \in InGroup(hits', h.tenant, h.revision, h.group)}, EvidenceLimit)
           \subseteq Ids
    BY <2>2 DEF Smallest
  <2>4. QED
    BY <2>1, <2>3 DEF AlertOf, Alert, Hit
<1>4. alerts' \in SUBSET Alert
  BY <1>3 DEF Evaluate, Upsert, Crossed, RulesTypeOK
<1>5. QED
  BY <1>2, <1>4 DEF Evaluate, RulesTypeOK

-----------------------------------------------------------------------------
(* The alert table stays a function of the hits. *)

SameGroup(h, g) ==
    h.tenant = g.tenant /\ h.revision = g.revision /\ h.group = g.group

\* Hits of one group have the same alert and reach the threshold together.
LEMMA GroupDecides ==
    ASSUME NEW H, NEW h, NEW g, SameGroup(h, g)
    PROVE  /\ AlertOf(H, h) = AlertOf(H, g)
           /\ Reached(H, h) <=> Reached(H, g)
BY DEF SameGroup, AlertOf, Reached

\* The alert of a hit carries the hit's group.
LEMMA AlertNamesGroup ==
    ASSUME NEW H, NEW G, NEW h, NEW g
    PROVE  SameAlert(AlertOf(H, h), AlertOf(G, g)) <=> SameGroup(h, g)
BY DEF SameAlert, AlertOf, SameGroup

\* A group that has reached its threshold is not empty.
LEMMA ReachedHasHit ==
    ASSUME NEW H, NEW h, h.revision \in Revisions, Reached(H, h)
    PROVE  \E g \in H : SameGroup(h, g)
<1>1. SUFFICES ASSUME \A g \in H : ~ SameGroup(h, g) PROVE FALSE
  OBVIOUS
<1>2. InGroup(H, h.tenant, h.revision, h.group) = {}
  BY <1>1 DEF InGroup, SameGroup
<1>3. Cardinality({g.value : g \in InGroup(H, h.tenant, h.revision, h.group)}) = 0
  <2>1. \A G : G = {} => {g.value : g \in G} = {}
    OBVIOUS
  <2>2. {g.value : g \in InGroup(H, h.tenant, h.revision, h.group)} = {}
    BY <1>2, <2>1
  <2>3. QED
    BY <2>2, FS_EmptySet
<1>5. Definition[h.revision].threshold \in Nat \ {0}
  BY FixedRulesAssumption
<1>6. QED
  BY <1>3, <1>5 DEF Reached

\* More hits never take a group below its threshold.
LEMMA ReachedGrows ==
    ASSUME NEW H, NEW G, H \subseteq G, IsFiniteSet(G),
           NEW h, h.revision \in Revisions, Reached(H, h)
    PROVE  Reached(G, h)
<1> DEFINE small == {g.value : g \in InGroup(H, h.tenant, h.revision, h.group)}
           group == InGroup(G, h.tenant, h.revision, h.group)
           large == {g.value : g \in group}
           value == [g \in group |-> g.value]
<1>1. IsFiniteSet(group)
  BY FS_Subset DEF InGroup
<1>2. value \in [group -> large] /\ \A t \in large : \E g \in group : value[g] = t
  OBVIOUS
<1>3. IsFiniteSet(large)
  <2> HIDE DEF group, large, value
  <2> QED BY <1>1, <1>2, FiniteImage
<1>4. small \subseteq large
  BY DEF InGroup
<1>5. /\ Cardinality(small) <= Cardinality(large)
      /\ Cardinality(small) \in Nat
      /\ Cardinality(large) \in Nat
  BY <1>3, <1>4, FS_Subset, FS_CardinalityType
<1>6. Definition[h.revision].threshold \in Nat
  BY FixedRulesAssumption
<1>7. QED
  BY <1>5, <1>6 DEF Reached

\* The detector's transaction keeps the alert table equal to what the hits say:
\* groups the batch touched are recomputed, the others keep hits and alert.
LEMMA EvaluateKeepsAlerts ==
    ASSUME RulesTypeOK, AlertsReflectHits, NEW rows, IsBatch(rows), Evaluate(rows)
    PROVE  AlertsReflectHits'
<1> DEFINE H   == hits
           G   == HitsAfter(rows)
           new == {AlertOf(G, h) : h \in Crossed(G, rows)}
<1>1. /\ hits' = G
      /\ alerts' = Upsert(alerts, new)
  BY DEF Evaluate
<1>2. /\ H \subseteq Hit /\ G \subseteq Hit /\ HitsOf(rows) \subseteq Hit
      /\ IsFiniteSet(G)
      /\ H \subseteq G /\ G \subseteq H \cup HitsOf(rows)
  BY <1>1, EvaluateType, HitsOfType DEF RulesTypeOK, HitsAfter
<1>3. \A h \in Hit : h.revision \in Revisions
  BY DEF Hit
<1>4. ASSUME NEW h \in Hit, \A g \in HitsOf(rows) : ~ SameGroup(h, g)
      PROVE  AlertOf(G, h) = AlertOf(H, h) /\ (Reached(G, h) <=> Reached(H, h))
  <2>1. InGroup(G, h.tenant, h.revision, h.group) = InGroup(H, h.tenant, h.revision, h.group)
    BY <1>2, <1>4 DEF InGroup, SameGroup
  <2>2. QED
    BY <2>1 DEF AlertOf, Reached
<1> HIDE DEF H, G, new
<1>5. ASSUME NEW a \in alerts'
      PROVE  \E h \in G : Reached(G, h) /\ a = AlertOf(G, h)
  <2>1. CASE a \in new
    <3>1. PICK h \in HitsOf(rows) : Reached(G, h) /\ a = AlertOf(G, h)
      BY <2>1 DEF new, Crossed
    <3>2. PICK g \in G : SameGroup(h, g)
      BY <1>2, <1>3, <3>1, ReachedHasHit
    <3>3. QED
      BY <3>1, <3>2, GroupDecides
  <2>2. CASE a \notin new
    <3>1. a \in alerts /\ \A b \in new : ~ SameAlert(a, b)
      BY <1>1, <2>2 DEF Upsert
    <3>2. PICK h \in H : Reached(H, h) /\ a = AlertOf(H, h)
      BY <3>1 DEF AlertsReflectHits, H
    <3>3. \A g \in HitsOf(rows) : ~ SameGroup(h, g)
      <4>1. SUFFICES ASSUME NEW g \in HitsOf(rows), SameGroup(h, g) PROVE FALSE
        OBVIOUS
      <4>2. Reached(G, h)
        BY <1>2, <1>3, <3>2, ReachedGrows
      <4>3. AlertOf(G, g) \in new
        BY <4>1, <4>2, GroupDecides DEF new, Crossed
      <4>4. SameAlert(a, AlertOf(G, g))
        BY <3>2, <4>1, AlertNamesGroup
      <4>5. QED
        BY <3>1, <4>3, <4>4
    <3>4. QED
      BY <1>2, <1>4, <3>2, <3>3
  <2>3. QED
    BY <2>1, <2>2
<1>6. ASSUME NEW h \in G, Reached(G, h)
      PROVE  AlertOf(G, h) \in alerts'
  <2>1. CASE \E g \in HitsOf(rows) : SameGroup(h, g)
    <3>1. PICK g \in HitsOf(rows) : SameGroup(h, g)
      BY <2>1
    <3>2. AlertOf(G, h) = AlertOf(G, g) /\ Reached(G, g)
      BY <1>6, <3>1, GroupDecides
    <3>3. QED
      BY <1>1, <3>2 DEF new, Crossed, Upsert
  <2>2. CASE \A g \in HitsOf(rows) : ~ SameGroup(h, g)
    <3>1. h \in H
      <4>1. SameGroup(h, h)
        BY DEF SameGroup
      <4>2. QED
        BY <1>2, <2>2, <4>1
    <3>2. AlertOf(G, h) = AlertOf(H, h) /\ Reached(H, h)
      BY <1>2, <1>4, <1>6, <2>2
    <3>3. AlertOf(H, h) \in alerts
      BY <3>1, <3>2 DEF AlertsReflectHits, H
    <3>4. \A b \in new : ~ SameAlert(AlertOf(H, h), b)
      BY <2>2, AlertNamesGroup DEF new, Crossed
    <3>5. QED
      BY <1>1, <3>2, <3>3, <3>4 DEF Upsert
  <2>3. QED
    BY <2>1, <2>2
<1>7. alerts' = {AlertOf(G, h) : h \in {g \in G : Reached(G, g)}}
  BY <1>5, <1>6
<1>8. QED
  BY <1>1, <1>7 DEF AlertsReflectHits

-----------------------------------------------------------------------------
(* What the steps of the workers take *)

\* A normalizer transaction takes unprocessed events only.
LEMMA NormalizerTakes ==
    ASSUME NEW limit, normalize_batch(limit)
    PROVE  \E B \in SUBSET Unprocessed : NormalizeRows(B)
BY DEF normalize_batch, FirstOf, kSubset

\* A detector transaction takes undetected normalized events only.
LEMMA DetectorTakes ==
    ASSUME NEW limit, detect_batch(limit)
    PROVE  \E B \in SUBSET Undetected : DetectRows(B)
BY DEF detect_batch, FirstOf, kSubset

\* There are finitely many identities.
LEMMA FiniteKeys == IsFiniteSet(Keys)
BY LocalJournalAssumption, FS_Product DEF Keys

\* The rows handed to the rules are a batch of well-formed rows.
LEMMA RowsAreBatch ==
    ASSUME TypeOK, NEW B \in SUBSET Undetected
    PROVE  IsBatch(Rows(B))
<1> DEFINE row == [k \in B |-> [tenant |-> k[1], id |-> k[2], event |-> normalized[k].event]]
<1>1. B \subseteq Keys /\ IsFiniteSet(B)
  BY FiniteKeys, FS_Subset DEF Undetected
<1>2. /\ row \in [B -> Rows(B)]
      /\ \A r \in Rows(B) : \E k \in B : row[k] = r
  BY DEF Rows
<1>3. IsFiniteSet(Rows(B))
  <2> HIDE DEF row
  <2> QED BY <1>1, <1>2, FiniteImage
<1>4. ASSUME NEW k \in B
      PROVE  /\ k[1] \in Tenants /\ k[2] \in Ids
             /\ normalized[k].event \in Events
  <2>1. normalized[k] \in NormalRow
    BY <1>1 DEF Undetected, TypeOK
  <2>2. QED
    BY <1>1, <2>1 DEF Keys, NormalRow
<1>5. QED
  BY <1>3, <1>4 DEF IsBatch, Rows

-----------------------------------------------------------------------------
(* Type correctness *)

LEMMA InitTypeOK == Init => TypeOK
<1> SUFFICES ASSUME Init PROVE TypeOK
  OBVIOUS
<1>1. RulesTypeOK
  BY FS_EmptySet DEF Init, RulesInit, RulesTypeOK
<1>2. quarantine \in [Keys -> 0..MaxReplays \cup {None}]
  BY DEF Init
<1>3. QED
  BY <1>1, <1>2 DEF Init, TypeOK, Workers

\* A normalizer transaction keeps the tables well formed.
LEMMA NormalizeType ==
    ASSUME TypeOK, NEW B \in SUBSET Unprocessed, NormalizeRows(B)
    PROVE  /\ normalized' \in [Keys -> NormalRow \cup {None}]
           /\ quarantine' \in [Keys -> 0..MaxReplays \cup {None}]
           /\ processed' \in [Workers -> SUBSET Keys]
<1>1. B \subseteq Keys
  BY DEF Unprocessed, Accepted
<1>2. ASSUME NEW k \in B, Normalize(k) # None
      PROVE  Normalize(k) \in NormalRow
  <2>1. raw[k] \in RawRow
    BY <1>1 DEF Unprocessed, Accepted, TypeOK
  <2>2. /\ raw[k].integration \in Packages /\ raw[k].payload \in Payloads
        /\ installed[raw[k].integration] \in Versions
    BY <1>2, <2>1 DEF RawRow, TypeOK, Normalize, Active
  <2>3. Parse[<<raw[k].integration, installed[raw[k].integration], raw[k].payload>>]
            \in Events \cup {None}
    BY <2>2, LocalJournalAssumption
  <2>4. QED
    BY <1>2, <2>2, <2>3 DEF Normalize, NormalRow
<1>3. normalized' \in [Keys -> NormalRow \cup {None}]
  BY <1>2 DEF NormalizeRows, TypeOK
<1>4. quarantine' \in [Keys -> 0..MaxReplays \cup {None}]
  BY LocalJournalAssumption DEF NormalizeRows, QuarantineAfter, TypeOK
<1>5. processed' \in [Workers -> SUBSET Keys]
  BY <1>1 DEF NormalizeRows, TypeOK, Workers
<1>6. QED
  BY <1>3, <1>4, <1>5

\* Bounded payloads make finitely many requests.
LEMMA BatchesAreFinite ==
    ASSUME NEW batch \in Batches
    PROVE  batch \subseteq Requests /\ IsFiniteSet(batch)
<1> DEFINE request == [x \in Ids \X Payloads |-> [id |-> x[1], payload |-> x[2]]]
<1>1. IsFiniteSet(Ids \X Payloads)
  BY LocalJournalAssumption, FS_Product
<1>2. /\ request \in [Ids \X Payloads -> Requests]
      /\ \A r \in Requests : \E x \in Ids \X Payloads : request[x] = r
  <2>1. \A r \in Requests : <<r.id, r.payload>> \in Ids \X Payloads
                             /\ request[<<r.id, r.payload>>] = r
    BY DEF Requests
  <2>2. QED
    BY <2>1 DEF Requests
<1>3. IsFiniteSet(Requests)
  <2> HIDE DEF request
  <2> QED BY <1>1, <1>2, FiniteImage
<1>4. batch \subseteq Requests
  BY DEF Batches, kSubset
<1>5. QED
  BY <1>3, <1>4, FS_Subset

\* An accepted request adds well-formed rows.
LEMMA IngestType ==
    ASSUME TypeOK, NEW t \in Tenants, NEW p \in Packages, NEW batch \in Batches,
           ingest(t, p, batch)
    PROVE  /\ raw' \in [Keys -> RawRow \cup {None}]
           /\ lastSeq' \in Nat
           /\ \A k \in Keys :
                 IF \E e \in Fresh(t, batch) : k = <<t, e.id>>
                 THEN raw'[k] \in RawRow
                 ELSE raw'[k] = raw[k]
<1> DEFINE fresh == Fresh(t, batch)
           n     == Cardinality(fresh)
<1>1. fresh \subseteq Requests /\ IsFiniteSet(fresh)
  BY BatchesAreFinite, FS_Subset DEF Fresh
<1>2. n \in Nat
  BY <1>1, FS_CardinalityType
<1>3. lastSeq' \in Nat
  BY <1>2 DEF ingest, CounterAfter, TypeOK
<1>4. PICK order \in Bijection({e.id : e \in fresh}, 1..n) :
           raw' = [k \in Keys |->
                     IF \E e \in fresh : k = <<t, e.id>>
                     THEN LET e == CHOOSE f \in fresh : k = <<t, f.id>>
                          IN  [seq |-> lastSeq + order[e.id],
                               integration |-> p, payload |-> e.payload]
                     ELSE raw[k]]
  BY DEF ingest
<1>5. ASSUME NEW k \in Keys, NEW e \in fresh
      PROVE  [seq |-> lastSeq + order[e.id], integration |-> p, payload |-> e.payload] \in RawRow
  <2>1. order[e.id] \in 1..n
    BY <1>4, <1>5 DEF Bijection, Injection
  <2>2. e.payload \in Payloads
    BY <1>1, <1>5 DEF Requests
  <2>3. QED
    BY <1>2, <2>1, <2>2 DEF RawRow, TypeOK
<1> HIDE DEF fresh, n
<1>6. ASSUME NEW k \in Keys
      PROVE  IF \E e \in fresh : k = <<t, e.id>> THEN raw'[k] \in RawRow ELSE raw'[k] = raw[k]
  <2>1. CASE \E e \in fresh : k = <<t, e.id>>
    <3> DEFINE e == CHOOSE f \in fresh : k = <<t, f.id>>
    <3>1. e \in fresh
      BY <2>1
    <3>2. raw'[k] = [seq |-> lastSeq + order[e.id], integration |-> p, payload |-> e.payload]
      BY <1>4, <2>1
    <3> HIDE DEF e
    <3>3. QED
      BY <1>5, <2>1, <3>1, <3>2
  <2>2. CASE ~ \E e \in fresh : k = <<t, e.id>>
    BY <1>4, <2>2
  <2>3. QED
    BY <2>1, <2>2
<1>7. raw' \in [Keys -> RawRow \cup {None}]
  BY <1>4, <1>6 DEF TypeOK
<1>8. QED
  BY <1>3, <1>6, <1>7 DEF fresh

LEMMA StepTypeOK == TypeOK /\ [Next]_vars => TypeOK'
<1> SUFFICES ASSUME TypeOK, [Next]_vars PROVE TypeOK'
  OBVIOUS
<1>1. ASSUME NEW files \in [Packages -> Versions \cup {None}], NEW R \in SUBSET Revisions,
             Restart(files, R)
      PROVE  TypeOK'
  BY <1>1 DEF Restart, InstallRules, TypeOK, RulesTypeOK
<1>2. ASSUME NEW t \in Tenants, NEW p \in Packages, activate(t, p)
      PROVE  TypeOK'
  BY <1>2 DEF activate, TypeOK, RulesTypeOK, ruleVars
<1>3. ASSUME NEW t \in Tenants, NEW p \in Packages, deactivate_integration(t, p)
      PROVE  TypeOK'
  BY <1>3 DEF deactivate_integration, TypeOK, RulesTypeOK, ruleVars
<1>4. ASSUME NEW t \in Tenants, NEW p \in Packages, NEW batch \in Batches, ingest(t, p, batch)
      PROVE  TypeOK'
  BY <1>4, IngestType DEF ingest, TypeOK, RulesTypeOK, ruleVars
<1>5. ASSUME NEW t \in Tenants, NEW v \in Revisions, NEW enabled \in BOOLEAN,
             set_rule(t, v, enabled)
      PROVE  TypeOK'
  <2>1. Definition[v].id \in RuleIds
    BY FixedRulesAssumption
  <2>2. QED
    BY <1>5, <2>1 DEF set_rule, SetRule, Setting, TypeOK, RulesTypeOK, journalVars
<1>6. ASSUME NEW limit \in 1..MaxLimit, normalize_batch(limit)
      PROVE  TypeOK'
  <2>1. PICK B \in SUBSET Unprocessed : NormalizeRows(B)
    BY <1>6, NormalizerTakes
  <2>2. QED
    BY <1>6, <2>1, NormalizeType DEF normalize_batch, TypeOK, RulesTypeOK, ruleVars
<1>7. ASSUME NEW limit \in 1..MaxLimit, detect_batch(limit)
      PROVE  TypeOK'
  <2>1. PICK B \in SUBSET Undetected : DetectRows(B)
    BY <1>7, DetectorTakes
  <2>2. RulesTypeOK'
    BY <2>1, RowsAreBatch, EvaluateType DEF DetectRows, TypeOK
  <2>3. processed' \in [Workers -> SUBSET Keys]
    BY <2>1 DEF DetectRows, Undetected, TypeOK, Workers
  <2>4. QED
    BY <1>7, <2>2, <2>3 DEF detect_batch, TypeOK
<1>8. ASSUME NEW k \in Keys, replay(k)
      PROVE  TypeOK'
  <2>1. quarantine[k] + 1 \in 0..MaxReplays
    BY <1>8, LocalJournalAssumption DEF replay, Replayable, TypeOK
  <2>2. QED
    BY <1>8, <2>1 DEF replay, TypeOK, RulesTypeOK, ruleVars, Workers
<1>9. CASE UNCHANGED vars
  BY <1>9 DEF vars, journalVars, ruleVars, TypeOK, RulesTypeOK
<1>10. QED
  BY <1>1, <1>2, <1>3, <1>4, <1>5, <1>6, <1>7, <1>8, <1>9 DEF Next

\* The tables are well formed in every reachable state.
THEOREM TypeCorrect == Spec => []TypeOK
BY InitTypeOK, StepTypeOK, PTL DEF Spec

-----------------------------------------------------------------------------
(* Settlement *)

IInv == TypeOK /\ Settlement

\* What Settlement says of one event, to state a step's effect event by event.
Settled(k) ==
    /\ (normalized[k] # None \/ quarantine[k] # None \/ k \in processed["normalizer"])
          => raw[k] # None
    /\ normalized[k] # None => k \in processed["normalizer"] /\ quarantine[k] = None
    /\ k \in processed["normalizer"] => (normalized[k] # None \/ quarantine[k] # None)
    /\ k \in processed["detector"] => normalized[k] # None
    /\ (k \notin processed["normalizer"] /\ quarantine[k] # None) => quarantine[k] > 0

LEMMA SettlementByKey == Settlement <=> \A k \in Keys : Settled(k)
BY DEF Settlement, Settled

\* An accepted request changes no row that was there, and the fresh rows exist.
LEMMA IngestEffect ==
    ASSUME TypeOK, NEW t \in Tenants, NEW p \in Packages, NEW batch \in Batches,
           ingest(t, p, batch), NEW k \in Keys
    PROVE  /\ raw[k] # None => raw'[k] = raw[k]
           /\ raw'[k] # None <=> (raw[k] # None \/ \E e \in Fresh(t, batch) : k = <<t, e.id>>)
<1>1. IF \E e \in Fresh(t, batch) : k = <<t, e.id>> THEN raw'[k] \in RawRow ELSE raw'[k] = raw[k]
  BY IngestType
<1>2. (\E e \in Fresh(t, batch) : k = <<t, e.id>>) => raw[k] = None
  BY DEF Fresh
<1>3. None \notin RawRow
  BY LocalJournalAssumption
<1>4. QED
  BY <1>1, <1>2, <1>3

LEMMA InitSettlement == Init => Settlement
BY DEF Init, Settlement, Workers

LEMMA StepSettlement == IInv /\ [Next]_vars => Settlement'
<1> SUFFICES ASSUME IInv, [Next]_vars, NEW k \in Keys PROVE Settled(k)'
  BY DEF Settlement, Settled
<1>0. Settled(k) /\ TypeOK
  BY DEF IInv, Settlement, Settled
<1>1. ASSUME NEW files \in [Packages -> Versions \cup {None}], NEW R \in SUBSET Revisions,
             Restart(files, R)
      PROVE  Settled(k)'
  BY <1>0, <1>1 DEF Restart, Settled
<1>2. ASSUME NEW t \in Tenants, NEW p \in Packages,
             activate(t, p) \/ deactivate_integration(t, p)
      PROVE  Settled(k)'
  BY <1>0, <1>2 DEF activate, deactivate_integration, Settled
<1>3. ASSUME NEW t \in Tenants, NEW p \in Packages, NEW batch \in Batches, ingest(t, p, batch)
      PROVE  Settled(k)'
  <2>1. raw[k] # None => raw'[k] # None
    BY <1>0, <1>3, IngestEffect
  <2>2. UNCHANGED <<normalized, quarantine, processed>>
    BY <1>3 DEF ingest
  <2>3. QED
    BY <1>0, <2>1, <2>2 DEF Settled
<1>4. ASSUME NEW t \in Tenants, NEW v \in Revisions, NEW enabled \in BOOLEAN,
             set_rule(t, v, enabled)
      PROVE  Settled(k)'
  BY <1>0, <1>4 DEF set_rule, journalVars, Settled
<1>5. ASSUME NEW limit \in 1..MaxLimit, normalize_batch(limit)
      PROVE  Settled(k)'
  <2>1. PICK B \in SUBSET Unprocessed : NormalizeRows(B)
    BY <1>5, NormalizerTakes
  <2>2. raw' = raw
    BY <1>5 DEF normalize_batch
  <2>3. /\ processed'["normalizer"] = processed["normalizer"] \cup B
        /\ processed'["detector"] = processed["detector"]
    BY <1>0, <2>1 DEF NormalizeRows, TypeOK, Workers
  <2>4. CASE k \in B /\ Normalize(k) # None
    <3>1. raw[k] # None /\ normalized[k] = None
      BY <1>0, <2>4 DEF Unprocessed, Accepted, Settled
    <3>2. normalized'[k] = Normalize(k) /\ quarantine'[k] = None
      BY <2>1, <2>4, <3>1 DEF NormalizeRows, QuarantineAfter
    <3>3. QED
      BY <1>0, <2>2, <2>3, <2>4, <3>1, <3>2 DEF Settled
  <2>5. CASE k \in B /\ Normalize(k) = None
    <3>1. raw[k] # None /\ normalized[k] = None
      BY <1>0, <2>5 DEF Unprocessed, Accepted, Settled
    <3>2. normalized'[k] = None /\ quarantine'[k] # None
      BY <2>1, <2>5, <3>1, LocalJournalAssumption DEF NormalizeRows, QuarantineAfter
    <3>3. QED
      BY <1>0, <2>2, <2>3, <2>5, <3>1, <3>2 DEF Settled
  <2>6. CASE k \notin B
    <3>1. normalized'[k] = normalized[k] /\ quarantine'[k] = quarantine[k]
      BY <2>1, <2>6 DEF NormalizeRows, QuarantineAfter
    <3>2. QED
      BY <1>0, <2>2, <2>3, <2>6, <3>1 DEF Settled
  <2>7. QED
    BY <2>4, <2>5, <2>6
<1>6. ASSUME NEW limit \in 1..MaxLimit, detect_batch(limit)
      PROVE  Settled(k)'
  <2>1. PICK B \in SUBSET Undetected : DetectRows(B)
    BY <1>6, DetectorTakes
  <2>2. UNCHANGED <<raw, normalized, quarantine>>
    BY <1>6 DEF detect_batch
  <2>3. /\ processed'["detector"] = processed["detector"] \cup B
        /\ processed'["normalizer"] = processed["normalizer"]
    BY <1>0, <2>1 DEF DetectRows, TypeOK, Workers
  <2>4. QED
    BY <1>0, <2>1, <2>2, <2>3 DEF Settled, Undetected
<1>7. ASSUME NEW j \in Keys, replay(j)
      PROVE  Settled(k)'
  <2>1. UNCHANGED <<raw, normalized>>
    BY <1>7 DEF replay
  <2>2. /\ processed'["normalizer"] = processed["normalizer"] \ {j}
        /\ processed'["detector"] = processed["detector"]
    BY <1>0, <1>7 DEF replay, TypeOK, Workers
  <2>3. /\ quarantine[j] \in Nat
        /\ quarantine'[k] = IF k = j THEN quarantine[k] + 1 ELSE quarantine[k]
    BY <1>0, <1>7, LocalJournalAssumption DEF replay, Replayable, TypeOK
  <2>4. QED
    BY <1>0, <1>7, <2>1, <2>2, <2>3, LocalJournalAssumption DEF Settled, replay, Replayable
<1>8. CASE UNCHANGED vars
  BY <1>0, <1>8 DEF vars, journalVars, Settled
<1>9. QED
  BY <1>1, <1>2, <1>3, <1>4, <1>5, <1>6, <1>7, <1>8 DEF Next

LEMMA Inductive == Spec => []IInv
<1>1. Init => IInv
  BY InitTypeOK, InitSettlement DEF IInv
<1>2. IInv /\ [Next]_vars => IInv'
  BY StepTypeOK, StepSettlement DEF IInv
<1>3. QED
  BY <1>1, <1>2, PTL DEF Spec

\* The tables agree about every event in every reachable state.
THEOREM SettlementHolds == Spec => []Settlement
<1>1. IInv => Settlement
  BY DEF IInv
<1>2. QED
  BY <1>1, Inductive, PTL

-----------------------------------------------------------------------------
(* Detection *)

\* In every reachable state the alert table is exactly what the recorded hits
\* demand, for every catalogue of rules, order of arrival and batch size.
THEOREM AlertsAreExact == Spec => []AlertsReflectHits
<1>1. Init => AlertsReflectHits
  BY DEF Init, RulesInit, AlertsReflectHits
<1>2. ASSUME IInv, AlertsReflectHits, [Next]_vars
      PROVE  AlertsReflectHits'
  <2>1. CASE UNCHANGED <<hits, alerts>>
    BY <1>2, <2>1 DEF AlertsReflectHits, AlertOf, Reached, InGroup
  <2>2. ASSUME NEW limit \in 1..MaxLimit, detect_batch(limit)
        PROVE  AlertsReflectHits'
    <3>1. PICK B \in SUBSET Undetected : DetectRows(B)
      BY <2>2, DetectorTakes
    <3>2. IsBatch(Rows(B)) /\ Evaluate(Rows(B))
      BY <1>2, <3>1, RowsAreBatch DEF DetectRows, IInv
    <3>3. QED
      BY <1>2, <3>2, EvaluateKeepsAlerts DEF IInv, TypeOK
  <2>3. \/ UNCHANGED <<hits, alerts>>
        \/ \E limit \in 1..MaxLimit : detect_batch(limit)
    BY <1>2 DEF Next, vars, journalVars, ruleVars, Restart, InstallRules, activate,
               deactivate_integration, ingest, set_rule, SetRule, normalize_batch, replay
  <2>4. QED
    BY <2>1, <2>2, <2>3
<1>3. QED
  BY <1>1, <1>2, Inductive, PTL DEF Spec

-----------------------------------------------------------------------------
(* Where hits and evidence come from *)

\* A new hit is of an event the transaction took, under a rule that is installed
\* and effective for the event's tenant.
LEMMA NewHits ==
    ASSUME IInv, NEW B \in SUBSET Undetected, DetectRows(B), NEW h \in hits' \ hits
    PROVE  /\ <<h.tenant, h.id>> \in B
           /\ h.revision \in rules
           /\ Effective(h.tenant, h.revision)
<1>1. h \in HitsOf(Rows(B))
  BY DEF DetectRows, Evaluate, HitsAfter
<1>2. PICK p \in Rows(B) \X rules :
           Matches(p[1].tenant, p[2], p[1].event) /\ h = HitOf(p[2], p[1])
  BY <1>1 DEF HitsOf
<1>3. PICK k \in B : p[1] = [tenant |-> k[1], id |-> k[2], event |-> normalized[k].event]
  BY <1>2 DEF Rows
<1>4. k = <<k[1], k[2]>>
  BY <1>3 DEF Undetected, Keys
<1>5. h.tenant = k[1] /\ h.id = k[2] /\ h.revision = p[2]
  BY <1>2, <1>3 DEF HitOf
<1>6. QED
  BY <1>2, <1>3, <1>4, <1>5 DEF Matches

\* Every recorded hit is of an event that was normalized and detected.
HitsAreDetected ==
    \A h \in hits : /\ normalized[<<h.tenant, h.id>>] # None
                    /\ <<h.tenant, h.id>> \in processed["detector"]

LEMMA HitsStayDetected == Spec => []HitsAreDetected
<1>1. Init => HitsAreDetected
  BY DEF Init, RulesInit, HitsAreDetected
<1>2. ASSUME IInv, HitsAreDetected, [Next]_vars, NEW h \in hits'
      PROVE  /\ normalized'[<<h.tenant, h.id>>] # None
             /\ <<h.tenant, h.id>> \in processed'["detector"]
  <2> DEFINE k == <<h.tenant, h.id>>
  <2>0. TypeOK /\ Settlement
    BY <1>2 DEF IInv
  <2>1. CASE UNCHANGED <<hits, normalized>> /\ processed["detector"] \subseteq processed'["detector"]
    BY <1>2, <2>1 DEF HitsAreDetected
  <2>2. ASSUME NEW limit \in 1..MaxLimit, normalize_batch(limit)
        PROVE  normalized'[k] # None /\ k \in processed'["detector"]
    <3>1. PICK B \in SUBSET Unprocessed : NormalizeRows(B)
      BY <2>2, NormalizerTakes
    <3>2. UNCHANGED hits /\ processed'["detector"] = processed["detector"]
      BY <2>0, <2>2, <3>1 DEF normalize_batch, NormalizeRows, ruleVars, TypeOK, Workers
    <3>3. normalized[k] # None /\ k \in processed["detector"] /\ k \in Keys
      BY <1>2, <2>0, <3>2 DEF HitsAreDetected, TypeOK, Workers
    <3>4. k \notin B
      BY <2>0, <3>1, <3>3 DEF Unprocessed, Settlement
    <3>5. QED
      BY <3>1, <3>2, <3>3, <3>4 DEF NormalizeRows
  <2>3. ASSUME NEW limit \in 1..MaxLimit, detect_batch(limit)
        PROVE  normalized'[k] # None /\ k \in processed'["detector"]
    <3>1. PICK B \in SUBSET Undetected : DetectRows(B)
      BY <2>3, DetectorTakes
    <3>2. normalized' = normalized /\ processed'["detector"] = processed["detector"] \cup B
      BY <2>0, <2>3, <3>1 DEF detect_batch, DetectRows, TypeOK, Workers
    <3>3. CASE h \in hits
      BY <1>2, <3>2, <3>3 DEF HitsAreDetected
    <3>4. CASE h \notin hits
      BY <1>2, <3>1, <3>2, <3>4, NewHits DEF Undetected
    <3>5. QED
      BY <3>3, <3>4
  <2>4. \/ UNCHANGED <<hits, normalized>> /\ processed["detector"] \subseteq processed'["detector"]
        \/ \E limit \in 1..MaxLimit : normalize_batch(limit) \/ detect_batch(limit)
    BY <1>2, <2>0 DEF Next, vars, journalVars, ruleVars, Restart, InstallRules, activate,
               deactivate_integration, ingest, set_rule, SetRule, replay, TypeOK, Workers
  <2>5. QED
    BY <2>1, <2>2, <2>3, <2>4
<1>3. IInv /\ HitsAreDetected /\ [Next]_vars => HitsAreDetected'
  BY <1>2 DEF HitsAreDetected
<1>4. QED
  BY <1>1, <1>3, Inductive, PTL DEF Spec

\* The evidence of an alert names events of the alert's own tenant that were
\* normalized and detected, whatever tenants share a transaction.
THEOREM EvidenceHolds == Spec => []EvidenceExists
<1>1. ASSUME AlertsReflectHits, HitsAreDetected, NEW al \in alerts, NEW i \in al.evidence
      PROVE  /\ normalized[<<al.tenant, i>>] # None
             /\ <<al.tenant, i>> \in processed["detector"]
  <2>1. PICK h \in hits : al = AlertOf(hits, h)
    BY <1>1 DEF AlertsReflectHits
  <2>2. PICK g \in InGroup(hits, h.tenant, h.revision, h.group) : i = g.id
    BY <1>1, <2>1 DEF AlertOf, Smallest
  <2>3. g \in hits /\ g.tenant = al.tenant
    BY <2>1, <2>2 DEF InGroup, AlertOf
  <2>4. QED
    BY <1>1, <2>2, <2>3 DEF HitsAreDetected
<1>2. AlertsReflectHits /\ HitsAreDetected => EvidenceExists
  BY <1>1 DEF EvidenceExists
<1>3. QED
  BY <1>2, AlertsAreExact, HitsStayDetected, PTL

\* No event that detection has passed is counted later, and a reviewed rule
\* counts only in the revision its tenant has reviewed and enabled.
THEOREM NothingIsRetroactive == Spec => NoRetroactiveHits
<1>1. ASSUME IInv, [Next]_vars, NEW h \in hits' \ hits
      PROVE  /\ <<h.tenant, h.id>> \in processed'["detector"] \ processed["detector"]
             /\ h.revision \in rules
             /\ LET s == settings[<<h.tenant, Definition[h.revision].id>>]
                IN  s # None => s.enabled /\ s.revision = h.revision
  <2>1. PICK limit \in 1..MaxLimit : detect_batch(limit)
    BY <1>1 DEF Next, vars, journalVars, ruleVars, Restart, InstallRules, activate,
               deactivate_integration, ingest, set_rule, SetRule, normalize_batch, replay
  <2>2. PICK B \in SUBSET Undetected : DetectRows(B)
    BY <2>1, DetectorTakes
  <2>3. processed'["detector"] = processed["detector"] \cup B
    BY <1>1, <2>2 DEF DetectRows, IInv, TypeOK, Workers
  <2>4. QED
    BY <1>1, <2>2, <2>3, NewHits DEF Undetected, Effective
<1>2. IInv /\ [Next]_vars => [CountsInTime]_vars
  BY <1>1 DEF CountsInTime
<1>3. QED
  BY <1>2, Inductive, PTL DEF Spec, NoRetroactiveHits

-----------------------------------------------------------------------------
(* What a step may never do *)

\* Accepted and normalized rows are never rewritten.
THEOREM HistoryHolds == Spec => HistoryIsImmutable
<1>1. ASSUME IInv, [Next]_vars, NEW k \in Keys
      PROVE  /\ raw[k] # None => raw'[k] = raw[k]
             /\ normalized[k] # None => normalized'[k] = normalized[k]
  <2>0. TypeOK
    BY <1>1 DEF IInv
  <2>1. ASSUME NEW t \in Tenants, NEW p \in Packages, NEW batch \in Batches, ingest(t, p, batch)
        PROVE  raw[k] # None => raw'[k] = raw[k]
    BY <2>0, <2>1, IngestEffect
  <2>2. ASSUME NEW limit \in 1..MaxLimit, normalize_batch(limit)
        PROVE  normalized[k] # None => normalized'[k] = normalized[k]
    BY <2>2 DEF normalize_batch, NormalizeRows
  <2>3. \/ UNCHANGED <<raw, normalized>>
        \/ /\ normalized' = normalized
           /\ \E t \in Tenants, p \in Packages, batch \in Batches : ingest(t, p, batch)
        \/ raw' = raw /\ \E limit \in 1..MaxLimit : normalize_batch(limit)
    BY <1>1 DEF Next, vars, journalVars, Restart, activate, deactivate_integration, ingest,
               set_rule, normalize_batch, detect_batch, replay
  <2>4. QED
    BY <2>1, <2>2, <2>3
<1>2. IInv /\ [Next]_vars => [KeepsHistory]_vars
  BY <1>1 DEF KeepsHistory
<1>3. QED
  BY <1>2, Inductive, PTL DEF Spec, HistoryIsImmutable

\* Replay attempts of an unresolved event are never given back.
THEOREM AttemptsHold == Spec => AttemptsAccumulate
<1>1. ASSUME IInv, [Next]_vars, NEW k \in Keys, quarantine[k] # None
      PROVE  \/ normalized'[k] # None
             \/ quarantine'[k] # None /\ quarantine'[k] >= quarantine[k]
  <2>0. TypeOK /\ quarantine[k] \in Nat
    BY <1>1, LocalJournalAssumption DEF IInv, TypeOK
  <2>1. ASSUME NEW limit \in 1..MaxLimit, normalize_batch(limit)
        PROVE  \/ normalized'[k] # None
               \/ quarantine'[k] = quarantine[k]
    BY <1>1, <2>1 DEF normalize_batch, NormalizeRows, QuarantineAfter
  <2>2. ASSUME NEW j \in Keys, replay(j)
        PROVE  quarantine'[k] # None /\ quarantine'[k] >= quarantine[k]
    <3>1. quarantine'[k] = IF k = j THEN quarantine[k] + 1 ELSE quarantine[k]
      BY <2>0, <2>2 DEF replay, TypeOK
    <3>2. QED
      BY <2>0, <3>1, LocalJournalAssumption
  <2>3. \/ UNCHANGED quarantine
        \/ \E limit \in 1..MaxLimit : normalize_batch(limit)
        \/ \E j \in Keys : replay(j)
    BY <1>1 DEF Next, vars, journalVars, Restart, activate, deactivate_integration, ingest,
               set_rule, detect_batch
  <2>4. quarantine'[k] = quarantine[k] => quarantine'[k] # None /\ quarantine'[k] >= quarantine[k]
    BY <1>1, <2>0
  <2>5. QED
    BY <2>1, <2>2, <2>3, <2>4
<1>2. IInv /\ [Next]_vars => [KeepsAttempts]_vars
  BY <1>1 DEF KeepsAttempts
<1>3. QED
  BY <1>2, Inductive, PTL DEF Spec, AttemptsAccumulate

-----------------------------------------------------------------------------
(* The journal implements the ledger *)

\* A request accepts its fresh events in the ledger.
LEMMA IngestAccepts ==
    ASSUME IInv, NEW t \in Tenants, NEW p \in Packages, NEW batch \in Batches,
           ingest(t, p, batch)
    PROVE  Ledger!Next
<1> DEFINE S == {k \in Keys : \E e \in Fresh(t, batch) : k = <<t, e.id>>}
<1>0. TypeOK /\ Settlement
  BY DEF IInv
<1>1. \A k \in Keys : raw'[k] # None <=> (raw[k] # None \/ k \in S)
  BY <1>0, IngestEffect
<1>2. \A k \in S : raw[k] = None
  BY DEF Fresh
<1>3. UNCHANGED <<normalized, quarantine, processed>>
  BY DEF ingest
<1>4. S \in SUBSET Keys
  OBVIOUS
<1> HIDE DEF S
<1>5. \A k \in S : LedgerStatus[k] = "absent"
  BY <1>2, <1>4 DEF LedgerStatus
<1>6. LedgerStatus' = [k \in Keys |-> IF k \in S THEN "queued" ELSE LedgerStatus[k]]
  BY <1>0, <1>1, <1>2, <1>3, <1>4 DEF LedgerStatus, Settlement
<1>7. UNCHANGED LedgerReplays
  BY <1>3 DEF LedgerReplays
<1>8. QED
  BY <1>4, <1>5, <1>6, <1>7 DEF Ledger!Next, Ledger!Accept, Ledger!Move

\* A normalizer transaction settles the rows it took.
LEMMA NormalizeSettles ==
    ASSUME IInv, NEW limit, normalize_batch(limit)
    PROVE  Ledger!Next
<1>0. TypeOK /\ Settlement
  BY DEF IInv
<1>1. PICK B \in SUBSET Unprocessed : NormalizeRows(B)
  BY NormalizerTakes
<1> DEFINE N == {k \in B : Normalize(k) # None}
           Q == B \ N
<1>2. B \subseteq Keys /\ \A k \in B : k \notin processed["normalizer"] /\ raw[k] # None
  BY <1>1 DEF Unprocessed, Accepted
<1>3. \A k \in B : normalized[k] = None /\ k \notin processed["detector"]
  BY <1>0, <1>2 DEF Settlement
<1>4. /\ N \in SUBSET Keys /\ Q \in SUBSET Keys /\ N \cap Q = {} /\ N \cup Q = B
  BY <1>2
<1>5. raw' = raw
  BY DEF normalize_batch
<1>6. /\ processed'["normalizer"] = processed["normalizer"] \cup B
      /\ processed'["detector"] = processed["detector"]
  BY <1>0, <1>1 DEF NormalizeRows, TypeOK, Workers
<1>7. /\ \A k \in N : normalized'[k] # None /\ quarantine'[k] = None
      /\ \A k \in Q : /\ normalized'[k] = None
                       /\ quarantine'[k] = IF quarantine[k] = None THEN 0 ELSE quarantine[k]
      /\ \A k \in Keys \ B : normalized'[k] = normalized[k] /\ quarantine'[k] = quarantine[k]
  BY <1>1, <1>2, <1>3 DEF NormalizeRows, QuarantineAfter
<1> HIDE DEF N, Q
<1>8. \A k \in N \cup Q : LedgerStatus[k] = "queued"
  BY <1>2, <1>3, <1>4 DEF LedgerStatus
<1>9. LedgerStatus' = [k \in Keys |-> IF k \in N THEN "normalized"
                                     ELSE IF k \in Q THEN "quarantined"
                                     ELSE LedgerStatus[k]]
  <2>1. ASSUME NEW k \in Keys
        PROVE  LedgerStatus'[k] = IF k \in N THEN "normalized"
                                  ELSE IF k \in Q THEN "quarantined"
                                  ELSE LedgerStatus[k]
    BY <1>2, <1>3, <1>4, <1>5, <1>6, <1>7 DEF LedgerStatus
  <2>2. QED
    BY <2>1 DEF LedgerStatus
<1>10. LedgerReplays' = [k \in Keys |-> IF k \in N THEN 0 ELSE LedgerReplays[k]]
  <2>1. ASSUME NEW k \in Keys
        PROVE  LedgerReplays'[k] = IF k \in N THEN 0 ELSE LedgerReplays[k]
    BY <1>4, <1>7, LocalJournalAssumption DEF LedgerReplays
  <2>2. QED
    BY <2>1 DEF LedgerReplays
<1>11. QED
  BY <1>4, <1>8, <1>9, <1>10 DEF Ledger!Next, Ledger!Settle

\* A detector transaction takes normalized events.
LEMMA DetectDetects ==
    ASSUME IInv, NEW limit, detect_batch(limit)
    PROVE  Ledger!Next
<1>0. TypeOK /\ Settlement
  BY DEF IInv
<1>1. PICK B \in SUBSET Undetected : DetectRows(B)
  BY DetectorTakes
<1>2. UNCHANGED <<raw, normalized, quarantine>>
  BY DEF detect_batch
<1>3. /\ processed'["detector"] = processed["detector"] \cup B
      /\ processed'["normalizer"] = processed["normalizer"]
  BY <1>0, <1>1 DEF DetectRows, TypeOK, Workers
<1>4. B \in SUBSET Keys /\ \A k \in B : normalized[k] # None /\ k \notin processed["detector"]
  BY DEF Undetected
<1>5. \A k \in B : raw[k] # None
  BY <1>0, <1>4 DEF Settlement
<1>6. \A k \in B : LedgerStatus[k] = "normalized"
  BY <1>4, <1>5 DEF LedgerStatus
<1>7. LedgerStatus' = [k \in Keys |-> IF k \in B THEN "detected" ELSE LedgerStatus[k]]
  BY <1>2, <1>3, <1>5 DEF LedgerStatus
<1>8. UNCHANGED LedgerReplays
  BY <1>2 DEF LedgerReplays
<1>9. QED
  BY <1>4, <1>6, <1>7, <1>8 DEF Ledger!Next, Ledger!Detect, Ledger!Move

\* A replay queues the event again and uses up an attempt.
LEMMA ReplayReplays ==
    ASSUME IInv, NEW k \in Keys, replay(k)
    PROVE  Ledger!Next
<1>0. TypeOK /\ Settlement
  BY DEF IInv
<1>1. quarantine[k] # None /\ quarantine[k] \in Nat /\ quarantine[k] < MaxReplays
  BY <1>0, LocalJournalAssumption DEF replay, Replayable, TypeOK
<1>2. raw[k] # None /\ normalized[k] = None /\ k \notin processed["detector"]
  BY <1>0, <1>1 DEF Settlement
<1>3. k \notin processed["normalizer"] => quarantine[k] > 0
  BY <1>0, <1>1 DEF Settlement
<1>4. UNCHANGED <<raw, normalized>>
  BY DEF replay
<1>5. /\ processed'["normalizer"] = processed["normalizer"] \ {k}
      /\ processed'["detector"] = processed["detector"]
  BY <1>0 DEF replay, TypeOK, Workers
<1>6. quarantine' = [quarantine EXCEPT ![k] = quarantine[k] + 1] /\ quarantine \in [Keys -> 0..MaxReplays \cup {None}]
  BY <1>0 DEF replay, TypeOK
<1>7. LedgerReplays[k] = quarantine[k] /\ LedgerReplays \in [Keys -> Nat]
  BY <1>1, <1>6 DEF LedgerReplays
<1>8. \/ LedgerStatus[k] = "quarantined"
      \/ LedgerStatus[k] = "queued" /\ LedgerReplays[k] > 0
  BY <1>2, <1>3, <1>7 DEF LedgerStatus
<1>9. LedgerStatus' = [j \in Keys |-> IF j \in {k} THEN "queued" ELSE LedgerStatus[j]]
  BY <1>2, <1>4, <1>5 DEF LedgerStatus
<1>10. LedgerReplays' = [LedgerReplays EXCEPT ![k] = LedgerReplays[k] + 1]
  <2>1. quarantine[k] + 1 # None
    BY <1>1, LocalJournalAssumption
  <2>2. ASSUME NEW j \in Keys
        PROVE  LedgerReplays'[j] = IF j = k THEN quarantine[k] + 1 ELSE LedgerReplays[j]
    BY <1>6, <2>1 DEF LedgerReplays
  <2>3. LedgerReplays' = [j \in Keys |-> LedgerReplays'[j]]
    BY DEF LedgerReplays
  <2>4. QED
    BY <1>7, <2>2, <2>3
<1>11. QED
  BY <1>1, <1>7, <1>8, <1>9, <1>10 DEF Ledger!Next, Ledger!Replay, Ledger!Move

\* The journal implements the event ledger: the tables start as an empty ledger
\* and every transaction is a step of the ledger or leaves it alone.
THEOREM LedgerImplemented == Spec => ImplementsLedger
<1>1. Init => Ledger!Init
  BY DEF Init, Ledger!Init, LedgerStatus, LedgerReplays
<1>2. IInv /\ [Next]_vars => [Ledger!Next]_(Ledger!vars)
  <2> SUFFICES ASSUME IInv, [Next]_vars
               PROVE  Ledger!Next \/ UNCHANGED <<LedgerStatus, LedgerReplays>>
    BY DEF Ledger!vars
  <2>1. CASE UNCHANGED <<raw, normalized, quarantine, processed>>
    BY <2>1 DEF LedgerStatus, LedgerReplays
  <2>2. \/ UNCHANGED <<raw, normalized, quarantine, processed>>
        \/ \E t \in Tenants, p \in Packages, batch \in Batches : ingest(t, p, batch)
        \/ \E limit \in 1..MaxLimit : normalize_batch(limit) \/ detect_batch(limit)
        \/ \E k \in Keys : replay(k)
    BY DEF Next, vars, journalVars, Restart, activate, deactivate_integration, set_rule
  <2>3. QED
    BY <2>1, <2>2, IngestAccepts, NormalizeSettles, DetectDetects, ReplayReplays
<1>3. QED
  BY <1>1, <1>2, Inductive, PTL DEF Spec, ImplementsLedger, Ledger!Spec

-----------------------------------------------------------------------------
(* The matcher of Sigma values *)

\* The end of the text, as a position.
End(text)    == Len(text) + 1
Last(tokens) == Len(tokens) + 1

\* Token j takes one character, the one at i.
TakesOne(text, tokens, i, j) == i < End(text) /\ (tokens[j].is = "?" \/ tokens[j].char = text[i])

\* The text and the tokens of a call.
Call(text, tokens) ==
    /\ Len(text) \in Nat /\ Len(tokens) \in Nat
    /\ \A k \in 1..Len(tokens) : tokens[k].is \in {"*", "?", "literal"}

\* After the last token nothing may be left.
LEMMA FitsEnd ==
    ASSUME NEW text, NEW tokens, Call(text, tokens), NEW i \in 1..End(text)
    PROVE  Fits(text, tokens, i, Last(tokens)) <=> i = End(text)
<1>1. End(text) \in Nat /\ Last(tokens) \in Nat
  BY DEF Call, End, Last
<1>2. ASSUME Fits(text, tokens, i, Last(tokens)) PROVE i = End(text)
  BY <1>2 DEF Fits, End, Last
<1>3. ASSUME i = End(text) PROVE Fits(text, tokens, i, Last(tokens))
  <2> DEFINE cut == [k \in Last(tokens)..Last(tokens) |-> End(text)]
  <2>1. cut \in [Last(tokens)..Last(tokens) -> 1..End(text)] /\ cut[Last(tokens)] = End(text)
    BY <1>1, <1>3
  <2>2. Last(tokens)..(Len(tokens)) = {}
    BY DEF Call, Last
  <2> HIDE DEF cut
  <2>3. QED
    BY <1>3, <2>1, <2>2 DEF Fits, End, Last
<1>4. QED
  BY <1>2, <1>3

\* A cut is the span of its first token and a cut of the rest.
LEMMA FitsStep ==
    ASSUME NEW text, NEW tokens, Call(text, tokens),
           NEW j \in 1..Len(tokens), NEW i \in 1..End(text)
    PROVE  Fits(text, tokens, i, j) <=>
               \E r \in 1..End(text) : Spans(text, tokens, j, i, r) /\ Fits(text, tokens, r, j + 1)
<1>1. /\ End(text) \in Nat /\ Last(tokens) \in Nat
      /\ j \in Nat /\ j < Last(tokens) /\ j + 1 \in 1..Last(tokens)
  BY DEF Call, End, Last
<1>2. ASSUME Fits(text, tokens, i, j)
      PROVE  \E r \in 1..End(text) : Spans(text, tokens, j, i, r) /\ Fits(text, tokens, r, j + 1)
  <2>1. PICK cut \in [j..Last(tokens) -> 1..End(text)] :
           /\ cut[j] = i /\ cut[Last(tokens)] = End(text)
           /\ \A k \in j..Len(tokens) : Spans(text, tokens, k, cut[k], cut[k + 1])
    BY <1>2 DEF Fits, End, Last
  <2> DEFINE rest == [k \in (j + 1)..Last(tokens) |-> cut[k]]
  <2>2. rest \in [(j + 1)..Last(tokens) -> 1..End(text)]
    BY <1>1, <2>1
  <2>3. \A k \in (j + 1)..Last(tokens) : rest[k] = cut[k]
    OBVIOUS
  <2> HIDE DEF rest
  <2>4. cut[j + 1] \in 1..End(text) /\ Spans(text, tokens, j, i, cut[j + 1])
    BY <1>1, <2>1
  <2>5. rest[j + 1] = cut[j + 1] /\ rest[Last(tokens)] = End(text)
    BY <1>1, <2>1, <2>3
  <2>6. ASSUME NEW k \in (j + 1)..Len(tokens) PROVE Spans(text, tokens, k, rest[k], rest[k + 1])
    <3>1. k \in (j + 1)..Last(tokens) /\ k + 1 \in (j + 1)..Last(tokens) /\ k \in j..Len(tokens)
      BY <1>1 DEF Call, Last
    <3>2. QED
      BY <2>1, <2>3, <3>1
  <2>7. Fits(text, tokens, cut[j + 1], j + 1)
    BY <2>2, <2>5, <2>6 DEF Fits, End, Last
  <2>8. QED
    BY <2>4, <2>7
<1>3. ASSUME NEW r \in 1..End(text), Spans(text, tokens, j, i, r), Fits(text, tokens, r, j + 1)
      PROVE  Fits(text, tokens, i, j)
  <2>1. PICK cut \in [(j + 1)..Last(tokens) -> 1..End(text)] :
           /\ cut[j + 1] = r /\ cut[Last(tokens)] = End(text)
           /\ \A k \in (j + 1)..Len(tokens) : Spans(text, tokens, k, cut[k], cut[k + 1])
    BY <1>3 DEF Fits, End, Last
  <2> DEFINE whole == [k \in j..Last(tokens) |-> IF k = j THEN i ELSE cut[k]]
  <2>2. whole \in [j..Last(tokens) -> 1..End(text)]
    BY <1>1, <2>1
  <2>3. whole[j] = i /\ \A k \in (j + 1)..Last(tokens) : whole[k] = cut[k]
    BY <1>1
  <2> HIDE DEF whole
  <2>4. whole[Last(tokens)] = End(text)
    BY <1>1, <2>1, <2>3
  <2>5. ASSUME NEW k \in j..Len(tokens) PROVE Spans(text, tokens, k, whole[k], whole[k + 1])
    <3>1. k + 1 \in (j + 1)..Last(tokens)
      BY <1>1 DEF Call, Last
    <3>2. CASE k = j
      BY <1>3, <2>1, <2>3, <3>1, <3>2
    <3>3. CASE k # j
      <4>1. k \in (j + 1)..Len(tokens) /\ k \in (j + 1)..Last(tokens)
        BY <1>1, <3>3 DEF Call, Last
      <4>2. QED
        BY <2>1, <2>3, <3>1, <4>1
    <3>4. QED
      BY <3>2, <3>3
  <2>6. QED
    BY <2>2, <2>3, <2>4, <2>5 DEF Fits, End, Last
<1>4. QED
  BY <1>2, <1>3

\* A star takes any text.
LEMMA StarFits ==
    ASSUME NEW text, NEW tokens, Call(text, tokens),
           NEW j \in 1..Len(tokens), NEW i \in 1..End(text), tokens[j].is = "*"
    PROVE  Fits(text, tokens, i, j) <=> \E r \in i..End(text) : Fits(text, tokens, r, j + 1)
<1>1. End(text) \in Nat
  BY DEF Call, End
<1>2. \A r \in 1..End(text) : Spans(text, tokens, j, i, r) <=> r \in i..End(text)
  BY <1>1 DEF Spans
<1>3. i..End(text) \subseteq 1..End(text)
  BY <1>1
<1>4. QED
  BY <1>2, <1>3, FitsStep

\* Any other token takes one character.
LEMMA CharFits ==
    ASSUME NEW text, NEW tokens, Call(text, tokens),
           NEW j \in 1..Len(tokens), NEW i \in 1..End(text), tokens[j].is # "*"
    PROVE  Fits(text, tokens, i, j) <=>
               TakesOne(text, tokens, i, j) /\ Fits(text, tokens, i + 1, j + 1)
<1>1. End(text) \in Nat
  BY DEF Call, End
<1>2. \A r \in 1..End(text) :
          Spans(text, tokens, j, i, r) <=> r = i + 1 /\ TakesOne(text, tokens, i, j)
  BY <1>1 DEF Spans, TakesOne
<1>3. TakesOne(text, tokens, i, j) => i + 1 \in 1..End(text)
  BY <1>1 DEF TakesOne
<1>4. QED
  BY <1>2, <1>3, FitsStep

-----------------------------------------------------------------------------
\* How far the place is from where the last star's tokens began, and where these tokens
\* end if they begin at r.
Behind(r, j, star) == r + (j - star - 1)

\* Since the last star every token took one character; and where the star takes more,
\* these tokens would end later in the text.
Tracked(text, tokens, i, j, star, restart) ==
    star > 0 =>
        /\ star < j /\ i = Behind(restart, j, star)
        /\ \A r \in (restart + 1)..End(text) :
              Fits(text, tokens, r, star + 1) =>
                  Behind(r, j, star) <= End(text) /\ Fits(text, tokens, Behind(r, j, star), j)

\* The whole fits if the rest does, or if it does after the last star took more.
Going(text, tokens, i, j, star, restart) ==
    Fits(text, tokens, 1, 1) <=>
        \/ Fits(text, tokens, i, j)
        \/ star > 0 /\ \E r \in (restart + 1)..End(text) : Fits(text, tokens, r, star + 1)

\* A place the first loop is at.
InLoop(text, tokens, i, j, star, restart) ==
    /\ i \in 1..End(text) /\ j \in 1..Last(tokens) /\ star \in 0..Len(tokens) /\ restart \in 1..i
    /\ Tracked(text, tokens, i, j, star, restart)
    /\ Going(text, tokens, i, j, star, restart)

\* A token takes the character before it.
LEMMA AdvanceLoops ==
    ASSUME NEW text, NEW tokens, Call(text, tokens), NEW i, NEW j, NEW star, NEW restart,
           InLoop(text, tokens, i, j, star, restart),
           j <= Len(tokens), tokens[j].is # "*", TakesOne(text, tokens, i, j)
    PROVE  InLoop(text, tokens, i + 1, j + 1, star, restart)
<1>1. /\ i \in 1..End(text) /\ j \in 1..Len(tokens) /\ star \in Nat /\ restart \in Nat
      /\ restart >= 1 /\ End(text) \in Nat /\ i + 1 \in 1..End(text) /\ j + 1 \in 1..Last(tokens)
  BY DEF Call, End, Last, InLoop, TakesOne
<1>2. Fits(text, tokens, i, j) <=> Fits(text, tokens, i + 1, j + 1)
  BY <1>1, CharFits
<1>3. Going(text, tokens, i + 1, j + 1, star, restart)
  BY <1>2 DEF InLoop, Going
<1>4. Tracked(text, tokens, i + 1, j + 1, star, restart)
  <2>1. star > 0 => star < j /\ i = Behind(restart, j, star)
    BY DEF InLoop, Tracked
  <2>2. ASSUME star > 0, NEW r \in (restart + 1)..End(text), Fits(text, tokens, r, star + 1)
        PROVE  /\ Behind(r, j + 1, star) <= End(text)
               /\ Fits(text, tokens, Behind(r, j + 1, star), j + 1)
    <3> DEFINE at == Behind(r, j, star)
    <3>1. at <= End(text) /\ Fits(text, tokens, at, j)
      BY <2>2 DEF InLoop, Tracked
    <3>2. at \in 1..End(text) /\ at + 1 = Behind(r, j + 1, star)
      <4>1. r \in Nat /\ j \in Nat /\ r >= 1 /\ star < j
        BY <1>1, <2>1, <2>2
      <4>2. at \in Nat /\ at >= 1 /\ at + 1 = Behind(r, j + 1, star)
        BY <1>1, <4>1 DEF Behind
      <4> HIDE DEF at
      <4>3. QED
        BY <1>1, <3>1, <4>2
    <3> HIDE DEF at
    <3>3. TakesOne(text, tokens, at, j) /\ Fits(text, tokens, at + 1, j + 1)
      BY <1>1, <3>1, <3>2, CharFits
    <3>4. at + 1 <= End(text)
      BY <1>1, <3>2, <3>3 DEF TakesOne
    <3>5. QED
      BY <3>2, <3>3, <3>4
  <2>3. star > 0 => star < j + 1 /\ i + 1 = Behind(restart, j + 1, star)
    <3>1. j \in Int /\ star \in Int /\ restart \in Int /\ i \in Int
      BY <1>1
    <3>2. Behind(restart, j + 1, star) = Behind(restart, j, star) + 1
      BY <3>1 DEF Behind
    <3>3. star < j => star < j + 1
      BY <3>1
    <3>4. QED
      BY <2>1, <3>2, <3>3
  <2>4. QED
    BY <2>2, <2>3 DEF Tracked
<1>5. QED
  BY <1>1, <1>3, <1>4 DEF InLoop

\* A star is passed: what the last one might have taken, this one takes.
LEMMA OpenLoops ==
    ASSUME NEW text, NEW tokens, Call(text, tokens), NEW i, NEW j, NEW star, NEW restart,
           InLoop(text, tokens, i, j, star, restart),
           j <= Len(tokens), tokens[j].is = "*"
    PROVE  InLoop(text, tokens, i, j + 1, j, i)
<1>1. /\ i \in 1..End(text) /\ j \in 1..Len(tokens) /\ star \in Nat /\ restart \in Nat
      /\ restart >= 1 /\ End(text) \in Nat /\ j + 1 \in 1..Last(tokens)
  BY DEF Call, End, Last, InLoop
<1>2. Fits(text, tokens, i, j) <=>
          Fits(text, tokens, i, j + 1) \/ \E r \in (i + 1)..End(text) : Fits(text, tokens, r, j + 1)
  <2>1. Fits(text, tokens, i, j) <=> \E r \in i..End(text) : Fits(text, tokens, r, j + 1)
    BY <1>1, StarFits
  <2>2. \A r \in i..End(text) : r = i \/ r \in (i + 1)..End(text)
    BY <1>1
  <2>3. i \in i..End(text) /\ (i + 1)..End(text) \subseteq i..End(text)
    BY <1>1
  <2>4. QED
    BY <2>1, <2>2, <2>3
<1>3. ASSUME star > 0, NEW r \in (restart + 1)..End(text), Fits(text, tokens, r, star + 1)
      PROVE  Fits(text, tokens, i, j)
  <2> DEFINE at == Behind(r, j, star)
  <2>1. at <= End(text) /\ Fits(text, tokens, at, j) /\ i = Behind(restart, j, star) /\ star < j
    BY <1>3 DEF InLoop, Tracked
  <2>2. at \in 1..End(text) /\ i < at
    <3>1. r \in Nat /\ j \in Nat /\ r > restart
      BY <1>1, <1>3
    <3>2. at \in Nat /\ at >= 1 /\ i < at
      BY <1>1, <2>1, <3>1 DEF Behind
    <3> HIDE DEF at
    <3>3. QED
      BY <1>1, <2>1, <3>2
  <2> HIDE DEF at
  <2>3. PICK q \in at..End(text) : Fits(text, tokens, q, j + 1)
    BY <1>1, <2>1, <2>2, StarFits
  <2>4. q \in i..End(text)
    BY <1>1, <2>2
  <2>5. QED
    BY <1>1, <2>3, <2>4, StarFits
<1>4. Fits(text, tokens, 1, 1) <=> Fits(text, tokens, i, j)
  BY <1>3 DEF InLoop, Going
<1>5. Going(text, tokens, i, j + 1, j, i)
  <2>1. j > 0
    BY <1>1
  <2>2. QED
    BY <1>2, <1>4, <2>1 DEF Going
<1>6. Tracked(text, tokens, i, j + 1, j, i)
  <2>1. /\ j < j + 1 /\ Behind(i, j + 1, j) = i
        /\ \A r \in (i + 1)..End(text) : Behind(r, j + 1, j) = r /\ r <= End(text)
    BY <1>1 DEF Behind
  <2>2. QED
    BY <2>1 DEF Tracked
<1>7. QED
  BY <1>1, <1>5, <1>6 DEF InLoop

\* Nothing takes the character: the rest does not fit.
LEMMA Mismatched ==
    ASSUME NEW text, NEW tokens, Call(text, tokens),
           NEW i \in 1..End(text), NEW j \in 1..Last(tokens), i < End(text),
           j <= Len(tokens) => tokens[j].is # "*" /\ ~ TakesOne(text, tokens, i, j)
    PROVE  ~ Fits(text, tokens, i, j)
<1>1. CASE j <= Len(tokens)
  <2>1. j \in 1..Len(tokens)
    BY <1>1 DEF Call
  <2>2. QED
    BY <1>1, <2>1, CharFits
<1>2. CASE j > Len(tokens)
  <2>1. j = Last(tokens) /\ i # End(text)
    BY <1>2 DEF Call, Last, End
  <2>2. QED
    BY <2>1, FitsEnd
<1>3. QED
  BY <1>1, <1>2 DEF Call, Last

\* The last star takes one character more.
LEMMA RetryLoops ==
    ASSUME NEW text, NEW tokens, Call(text, tokens), NEW i, NEW j, NEW star, NEW restart,
           InLoop(text, tokens, i, j, star, restart),
           i < End(text), star > 0, ~ Fits(text, tokens, i, j)
    PROVE  InLoop(text, tokens, restart + 1, star + 1, star, restart + 1)
<1>1. /\ i \in Nat /\ j \in Nat /\ star \in 1..Len(tokens) /\ restart \in Nat /\ restart >= 1
      /\ End(text) \in Nat /\ star < j /\ i = restart + (j - star - 1)
      /\ star + 1 \in 1..Last(tokens)
  BY DEF Call, End, Last, InLoop, Tracked, Behind
<1>2. restart + 1 \in 1..End(text) /\ restart + 1 <= End(text)
  BY <1>1
<1>3. Fits(text, tokens, 1, 1) <=> \E r \in (restart + 1)..End(text) : Fits(text, tokens, r, star + 1)
  BY DEF InLoop, Going
<1>4. Going(text, tokens, restart + 1, star + 1, star, restart + 1)
  <2>1. \A r \in (restart + 1)..End(text) : r = restart + 1 \/ r \in (restart + 1 + 1)..End(text)
    BY <1>1
  <2>2. /\ restart + 1 \in (restart + 1)..End(text)
        /\ (restart + 1 + 1)..End(text) \subseteq (restart + 1)..End(text)
    BY <1>1, <1>2
  <2>3. QED
    BY <1>3, <2>1, <2>2 DEF Going
<1>5. Tracked(text, tokens, restart + 1, star + 1, star, restart + 1)
  <2>1. /\ star < star + 1 /\ Behind(restart + 1, star + 1, star) = restart + 1
        /\ \A r \in (restart + 1 + 1)..End(text) : Behind(r, star + 1, star) = r /\ r <= End(text)
    BY <1>1 DEF Behind
  <2>2. QED
    BY <2>1 DEF Tracked
<1>6. QED
  BY <1>1, <1>2, <1>4, <1>5 DEF InLoop

\* At the end of the text no star takes more.
LEMMA EndLoops ==
    ASSUME NEW text, NEW tokens, Call(text, tokens), NEW j, NEW star, NEW restart,
           InLoop(text, tokens, End(text), j, star, restart)
    PROVE  Fits(text, tokens, 1, 1) <=> Fits(text, tokens, End(text), j)
<1>1. ASSUME star > 0, NEW r \in (restart + 1)..End(text), Fits(text, tokens, r, star + 1)
      PROVE  FALSE
  <2>1. r + (j - star - 1) <= End(text) /\ End(text) = restart + (j - star - 1)
    BY <1>1 DEF InLoop, Tracked, Behind
  <2>2. j \in Nat /\ star \in Nat /\ restart \in Nat /\ End(text) \in Nat
    BY DEF Call, End, Last, InLoop
  <2>3. QED
    BY <2>1, <2>2
<1>2. QED
  BY <1>1 DEF InLoop, Going

-----------------------------------------------------------------------------
\* What a call remembers of text and tokens.
Place(text, tokens) ==
    [i : 1..End(text), j : 1..Last(tokens),
     star : 0..Len(tokens), restart : 1..End(text)]

\* What every round keeps: the first loop keeps to InLoop; in the second the answer is that
\* of the tokens left.
Keeps(text, tokens, s) ==
    /\ s \in Place(text, tokens)
    /\ s.i < End(text) => InLoop(text, tokens, s.i, s.j, s.star, s.restart)
    /\ s.i = End(text) => (Fits(text, tokens, 1, 1) <=> Fits(text, tokens, End(text), s.j))

\* What pays for the rounds: restart never goes back, and j does only where restart goes on.
Paid(tokens, s) == (s.restart - 1) * Last(tokens) + s.j

LEMMA StartKeeps ==
    ASSUME NEW text, NEW tokens, Call(text, tokens)
    PROVE  Keeps(text, tokens, Start) /\ Paid(tokens, Start) = 1
<1>1. /\ End(text) \in Nat /\ End(text) >= 1 /\ Last(tokens) \in Nat /\ Last(tokens) >= 1
      /\ Len(tokens) \in Nat
  BY DEF Call, End, Last
<1>2. Start.i = 1 /\ Start.j = 1 /\ Start.star = 0 /\ Start.restart = 1
  BY DEF Start
<1>3. InLoop(text, tokens, 1, 1, 0, 1)
  BY <1>1 DEF InLoop, Tracked, Going
<1>4. Start \in Place(text, tokens)
  BY <1>1 DEF Start, Place
<1>5. Paid(tokens, Start) = 1
  BY <1>1, <1>2 DEF Paid
<1>6. QED
  BY <1>1, <1>2, <1>3, <1>4, <1>5 DEF Keeps

\* A place of the first loop, or the end with its answer.
LEMMA LoopKeeps ==
    ASSUME NEW text, NEW tokens, Call(text, tokens),
           NEW s \in Place(text, tokens),
           InLoop(text, tokens, s.i, s.j, s.star, s.restart)
    PROVE  Keeps(text, tokens, s)
<1>1. s.i = End(text) => (Fits(text, tokens, 1, 1) <=> Fits(text, tokens, End(text), s.j))
  BY EndLoops
<1>2. QED
  BY <1>1 DEF Keeps

\* A round keeps what the loops go by, and is paid for.
LEMMA RoundKeeps ==
    ASSUME NEW text, NEW tokens, Call(text, tokens), NEW s, Keeps(text, tokens, s),
           ~ Returns(text, tokens, s)
    PROVE  /\ Keeps(text, tokens, Round(text, tokens, s))
           /\ Paid(tokens, Round(text, tokens, s)) >= Paid(tokens, s) + 1
<1> DEFINE i == s.i
           j == s.j
           star == s.star
           restart == s.restart
           end == End(text)
           last == Last(tokens)
           Places == Place(text, tokens)
<1>1. /\ end = Len(text) + 1 /\ last = Len(tokens) + 1 /\ Len(text) \in Nat /\ Len(tokens) \in Nat
      /\ end \in Nat /\ last \in Nat /\ s \in Places
      /\ i \in 1..end /\ j \in 1..last /\ star \in 0..Len(tokens) /\ restart \in 1..end
  BY DEF Keeps, Place, Call, End, Last
<1>2. i < end => InLoop(text, tokens, i, j, star, restart)
  BY DEF Keeps
<1>3. IsStar(tokens, j) => j \in 1..Len(tokens) /\ tokens[j].is = "*"
  BY <1>1 DEF IsStar
<1>4. j <= Len(tokens) => tokens[j].is \in {"*", "?", "literal"} /\ j \in 1..Len(tokens)
  BY <1>1 DEF Call
<1>5. i < end => (Accepts(text, tokens, s) <=>
                  j <= Len(tokens) /\ tokens[j].is # "*" /\ TakesOne(text, tokens, i, j))
  BY <1>4 DEF Accepts, TakesOne
<1>6. i <= Len(text) <=> i < end
  BY <1>1
<1>7. Paid(tokens, s) = (restart - 1) * last + j /\ (restart - 1) * last \in Int
  BY <1>1 DEF Paid
<1>8. CASE i < end /\ Accepts(text, tokens, s)
  <2>1. Round(text, tokens, s) = Advance(s)
    BY <1>1, <1>6, <1>8 DEF Round
  <2>2. InLoop(text, tokens, i + 1, j + 1, star, restart)
    BY <1>2, <1>5, <1>8, AdvanceLoops
  <2>3. i + 1 \in 1..end /\ j + 1 \in 1..last
    BY <2>2 DEF InLoop
  <2> DEFINE next == Advance(s)
  <2>4. /\ next \in Places /\ next.i = i + 1 /\ next.j = j + 1 /\ next.star = star
        /\ next.restart = restart
    BY <1>1, <2>3 DEF Advance, Place, End, Last
  <2> HIDE DEF next
  <2>5. Keeps(text, tokens, next)
    BY <2>2, <2>4, LoopKeeps
  <2>6. Paid(tokens, next) >= Paid(tokens, s) + 1
    BY <1>1, <1>7, <2>4 DEF Paid
  <2>7. QED
    BY <2>1, <2>5, <2>6 DEF next
<1>9. CASE i < end /\ ~ Accepts(text, tokens, s) /\ IsStar(tokens, j)
  <2>1. Round(text, tokens, s) = Opened(s)
    BY <1>1, <1>6, <1>9 DEF Round
  <2>2. InLoop(text, tokens, i, j + 1, j, i) /\ restart <= i
    BY <1>2, <1>3, <1>9, OpenLoops DEF InLoop
  <2>3. j + 1 \in 1..last /\ j \in 0..Len(tokens)
    BY <2>2 DEF InLoop
  <2> DEFINE next == Opened(s)
  <2>4. next \in Places /\ next.i = i /\ next.j = j + 1 /\ next.star = j /\ next.restart = i
    BY <1>1, <2>3 DEF Opened, Place, End, Last
  <2> HIDE DEF next
  <2>5. Keeps(text, tokens, next)
    BY <2>2, <2>4, LoopKeeps
  <2>6. Paid(tokens, next) >= Paid(tokens, s) + 1
    <3>1. (restart - 1) * last <= (i - 1) * last
      BY <1>1, <2>2
    <3>2. Paid(tokens, next) = (i - 1) * last + (j + 1) /\ (i - 1) * last \in Int
      BY <1>1, <2>4 DEF Paid
    <3> DEFINE spent == (restart - 1) * last
               due   == (i - 1) * last
    <3>3. spent <= due /\ Paid(tokens, next) = due + (j + 1) /\ due \in Int
          /\ Paid(tokens, s) = spent + j /\ spent \in Int
      BY <1>7, <3>1, <3>2
    <3> HIDE DEF spent, due
    <3>4. QED
      BY <1>1, <3>3
  <2>7. QED
    BY <2>1, <2>5, <2>6 DEF next
<1>10. CASE i < end /\ ~ Accepts(text, tokens, s) /\ ~ IsStar(tokens, j)
  <2>1. Round(text, tokens, s) = Retry(s)
    BY <1>1, <1>6, <1>10 DEF Round
  <2>2. star > 0
    BY <1>1, <1>6, <1>10 DEF Returns
  <2>3. ~ Fits(text, tokens, i, j)
    BY <1>1, <1>4, <1>5, <1>10, Mismatched DEF IsStar
  <2>4. InLoop(text, tokens, restart + 1, star + 1, star, restart + 1)
    BY <1>2, <1>10, <2>2, <2>3, RetryLoops
  <2>5. restart + 1 \in 1..end /\ star + 1 \in 1..last
    BY <2>4 DEF InLoop
  <2> DEFINE next == Retry(s)
  <2>6. /\ next \in Places /\ next.i = restart + 1 /\ next.j = star + 1 /\ next.star = star
        /\ next.restart = restart + 1
    BY <1>1, <2>5 DEF Retry, Place, End, Last
  <2> HIDE DEF next
  <2>7. Keeps(text, tokens, next)
    BY <2>4, <2>6, LoopKeeps
  <2>8. Paid(tokens, next) >= Paid(tokens, s) + 1
    <3> DEFINE spent == (restart - 1) * last
    <3>1. restart * last = spent + last /\ spent \in Int
      BY <1>1
    <3>2. next.restart - 1 = restart
      BY <1>1, <2>6
    <3>3. Paid(tokens, next) = restart * last + (star + 1)
      BY <2>6, <3>2 DEF Paid
    <3>4. Paid(tokens, s) = spent + j
      BY <1>7
    <3> HIDE DEF spent
    <3>5. QED
      BY <1>1, <3>1, <3>3, <3>4
  <2>9. QED
    BY <2>1, <2>7, <2>8 DEF next
<1>11. CASE i = end
  <2>1. ~ (i <= Len(text)) /\ IsStar(tokens, j)
    BY <1>1, <1>11 DEF Returns
  <2>2. Round(text, tokens, s) = [s EXCEPT !.j = @ + 1]
    BY <1>1, <2>1 DEF Round
  <2>3. j + 1 \in 1..last
    BY <1>1, <1>3, <2>1
  <2> DEFINE next == [s EXCEPT !.j = @ + 1]
  <2>4. next \in Places /\ next.i = i /\ next.j = j + 1 /\ next.restart = restart
    BY <1>1, <2>3 DEF Place, End, Last
  <2> HIDE DEF next
  <2>5. Fits(text, tokens, end, j) <=> Fits(text, tokens, end, j + 1)
    <3>1. Fits(text, tokens, end, j) <=> \E r \in end..end : Fits(text, tokens, r, j + 1)
      BY <1>1, <1>3, <2>1, StarFits
    <3>2. end..end = {end}
      BY <1>1
    <3>3. QED
      BY <3>1, <3>2
  <2>6. Fits(text, tokens, 1, 1) <=> Fits(text, tokens, end, j + 1)
    BY <1>11, <2>5 DEF Keeps
  <2>7. Keeps(text, tokens, next)
    BY <1>1, <1>11, <2>4, <2>6 DEF Keeps
  <2>8. Paid(tokens, next) >= Paid(tokens, s) + 1
    BY <1>1, <1>7, <2>4 DEF Paid
  <2>9. QED
    BY <2>2, <2>7, <2>8 DEF next
<1>12. QED
  BY <1>1, <1>8, <1>9, <1>10, <1>11

\* Where a call returns, what it returns is whether the tokens fit.
LEMMA ReturnsExact ==
    ASSUME NEW text, NEW tokens, Call(text, tokens), NEW s, Keeps(text, tokens, s),
           Returns(text, tokens, s)
    PROVE  Matched(text, tokens, s) <=> Fits(text, tokens, 1, 1)
<1>1. /\ End(text) = Len(text) + 1 /\ Last(tokens) = Len(tokens) + 1
      /\ Len(text) \in Nat /\ Len(tokens) \in Nat
      /\ s.i \in 1..End(text) /\ s.j \in 1..Last(tokens) /\ s.star \in 0..Len(tokens)
  BY DEF Keeps, Place, Call, End, Last
<1>2. s.j <= Len(tokens) => s.j \in 1..Len(tokens) /\ tokens[s.j].is \in {"?", "literal"}
  BY <1>1 DEF Returns, IsStar, Call
<1>3. CASE s.i < End(text)
  <2>1. s.i <= Len(text) /\ ~ Accepts(text, tokens, s) /\ s.star = 0
    BY <1>1, <1>3 DEF Returns
  <2>2. s.j <= Len(tokens) => tokens[s.j].is # "*" /\ ~ TakesOne(text, tokens, s.i, s.j)
    BY <1>2, <2>1 DEF Accepts, TakesOne
  <2>3. ~ Fits(text, tokens, s.i, s.j)
    BY <1>1, <1>3, <2>2, Mismatched
  <2>4. ~ Fits(text, tokens, 1, 1)
    BY <1>3, <2>1, <2>3 DEF Keeps, InLoop, Going
  <2>5. QED
    BY <2>1, <1>1, <2>4 DEF Matched
<1>4. CASE s.i = End(text)
  <2>1. Fits(text, tokens, 1, 1) <=> Fits(text, tokens, End(text), s.j)
    BY <1>4 DEF Keeps
  <2>2. Matched(text, tokens, s) <=> s.j > Len(tokens)
    BY <1>1, <1>4 DEF Matched
  <2>3. CASE s.j > Len(tokens)
    <3>1. s.j = Last(tokens) /\ End(text) \in 1..End(text)
      BY <1>1, <2>3
    <3>2. QED
      BY <2>1, <2>2, <2>3, <3>1, FitsEnd
  <2>4. CASE s.j <= Len(tokens)
    <3>1. ~ TakesOne(text, tokens, End(text), s.j) /\ End(text) \in 1..End(text)
      BY <1>1, <1>4 DEF TakesOne
    <3>2. ~ Fits(text, tokens, End(text), s.j)
      BY <1>2, <2>4, <3>1, CharFits
    <3>3. QED
      BY <1>1, <2>1, <2>2, <2>4, <3>2
  <2>5. QED
    BY <1>1, <2>3, <2>4
<1>5. QED
  BY <1>1, <1>3, <1>4

\* The rounds are counted in whole numbers, up to the product of the places.
LEMMA PaidBounds ==
    ASSUME NEW text, NEW tokens, Call(text, tokens), NEW s, Keeps(text, tokens, s)
    PROVE  Paid(tokens, s) \in Int /\ Paid(tokens, s) <= End(text) * Last(tokens)
<1>1. /\ End(text) \in Nat /\ Last(tokens) \in Nat
      /\ s.restart \in 1..End(text) /\ s.j \in 1..Last(tokens)
  BY DEF Keeps, Place, Call, End, Last
<1> DEFINE spent == (s.restart - 1) * Last(tokens)
           most  == (End(text) - 1) * Last(tokens)
<1>2. spent \in Int /\ most \in Int /\ Paid(tokens, s) = spent + s.j
  BY <1>1 DEF Paid
<1>3. spent <= most
  BY <1>1
<1>4. End(text) * Last(tokens) = most + Last(tokens)
  BY <1>1
<1> HIDE DEF spent, most
<1>5. QED
  BY <1>1, <1>2, <1>3, <1>4

\* A set of numbers that is not empty has a least one.
LEMMA HasLeast ==
    ASSUME NEW S \in SUBSET Nat, S # {}
    PROVE  \E least \in S : \A n \in S : least <= n
<1>1. PICK least \in S : \A n \in S : ~ (<<n, least>> \in OpToRel(<, Nat))
  BY NatLessThanWellFounded, WFMin
<1>2. \A n \in S : ~ (n < least)
  BY <1>1 DEF OpToRel
<1>3. QED
  BY <1>2

\* Every place of a run keeps to it, and the rounds before it are paid for: there is no
\* first place that does not.
LEMMA RunKeeps ==
    ASSUME NEW text, NEW tokens, Call(text, tokens), NEW n \in Nat \ {0},
           NEW run, IsRun(text, tokens, run, n)
    PROVE  \A k \in 1..n : Keeps(text, tokens, run[k]) /\ Paid(tokens, run[k]) >= k
<1> DEFINE Good(k) == Keeps(text, tokens, run[k]) /\ Paid(tokens, run[k]) >= k
           Bad == {k \in 1..n : ~ Good(k)}
<1>1. ASSUME Bad # {} PROVE FALSE
  <2>1. Bad \in SUBSET Nat
    OBVIOUS
  <2>2. PICK k \in Bad : \A m \in Bad : k <= m
    <3> HIDE DEF Bad
    <3>1. QED
      BY <1>1, <2>1, HasLeast
  <2>3. Good(1)
    <3>1. run[1] = Start
      BY DEF IsRun
    <3>2. QED
      BY <3>1, StartKeeps
  <2>4. k \in 1..n /\ k # 1 /\ ~ Good(k)
    <3> HIDE DEF Good
    <3>1. QED
      BY <2>2, <2>3
  <2> DEFINE m == k - 1
  <2>5. m \in 1..(n - 1) /\ m + 1 = k /\ m \in 1..n /\ ~ (k <= m)
    BY <2>4
  <2>6. Good(m)
    <3> HIDE DEF Good, m
    <3>1. QED
      BY <2>2, <2>5
  <2> HIDE DEF m
  <2>7. ~ Returns(text, tokens, run[m]) /\ run[m + 1] = Round(text, tokens, run[m])
    BY <2>5 DEF IsRun
  <2>8. Keeps(text, tokens, run[k]) /\ Paid(tokens, run[k]) >= Paid(tokens, run[m]) + 1
    BY <2>5, <2>6, <2>7, RoundKeeps
  <2>9. Paid(tokens, run[m]) \in Int /\ Paid(tokens, run[k]) \in Int
    BY <2>6, <2>8, PaidBounds
  <2>10. Good(k)
    BY <2>5, <2>6, <2>8, <2>9
  <2> HIDE DEF Good
  <2>11. QED
    BY <2>4, <2>10
<1>2. QED
  BY <1>1

\* A text and tokens make a call.
LEMMA IsCall ==
    ASSUME NEW Chars, NEW text \in Seq(Chars), NEW tokens \in Seq(Token(Chars))
    PROVE  Call(text, tokens)
<1>1. \A t \in Token(Chars) : t.is \in {"*", "?", "literal"}
  BY DEF Token
<1>2. \A k \in 1..Len(tokens) : tokens[k] \in Token(Chars)
  OBVIOUS
<1>3. QED
  BY <1>1, <1>2 DEF Call

-----------------------------------------------------------------------------
\* For every text and every list of tokens, where the loops of wildcard return they answer as
\* the search over every cut of the text does, although they go back to the last star only.
THEOREM MatcherExact ==
    ASSUME NEW Chars, NEW text \in Seq(Chars), NEW tokens \in Seq(Token(Chars)),
           NEW n \in Nat \ {0}, NEW run, IsRun(text, tokens, run, n),
           Returns(text, tokens, run[n])
    PROVE  Matched(text, tokens, run[n]) <=> Fits(text, tokens, 1, 1)
<1>1. Call(text, tokens)
  BY IsCall
<1>2. Keeps(text, tokens, run[n])
  <2>1. n \in 1..n
    OBVIOUS
  <2>2. QED
    BY <1>1, <2>1, RunKeeps
<1>3. QED
  BY <1>1, <1>2, ReturnsExact

\* For every text and every list of tokens, wildcard goes through at most the places of the
\* text times those of the tokens, whatever the text repeats.
THEOREM MatcherBounded ==
    ASSUME NEW Chars, NEW text \in Seq(Chars), NEW tokens \in Seq(Token(Chars)),
           NEW n \in Nat \ {0}, NEW run, IsRun(text, tokens, run, n)
    PROVE  n <= (Len(text) + 1) * (Len(tokens) + 1)
<1>1. Call(text, tokens)
  BY IsCall
<1>2. Keeps(text, tokens, run[n]) /\ Paid(tokens, run[n]) >= n
  <2>1. n \in 1..n
    OBVIOUS
  <2>2. QED
    BY <1>1, <2>1, RunKeeps
<1> DEFINE paid == Paid(tokens, run[n])
           most == (Len(text) + 1) * (Len(tokens) + 1)
<1>3. paid \in Int /\ paid <= most /\ paid >= n
  BY <1>1, <1>2, PaidBounds DEF End, Last
<1>4. most \in Int
  BY <1>1 DEF Call
<1> HIDE DEF paid, most
<1>5. n <= most
  BY <1>3, <1>4
<1>6. QED
  BY <1>5 DEF most

\* Every call returns: a run that does not goes on, and no run is longer than the bound.
THEOREM MatcherReturns ==
    ASSUME NEW Chars, NEW text \in Seq(Chars), NEW tokens \in Seq(Token(Chars))
    PROVE  \E n \in Nat \ {0} : \E run :
              IsRun(text, tokens, run, n) /\ Returns(text, tokens, run[n])
<1> DEFINE most == (Len(text) + 1) * (Len(tokens) + 1)
           Goes(n) == \E run : IsRun(text, tokens, run, n)
<1>1. most \in Nat
  OBVIOUS
<1>2. \A n \in Nat \ {0} : Goes(n) => n <= most
  <2> SUFFICES ASSUME NEW n \in Nat \ {0}, NEW run, IsRun(text, tokens, run, n)
               PROVE  n <= most
    OBVIOUS
  <2>1. QED
    BY MatcherBounded
<1>3. Goes(1)
  <2> DEFINE first == [k \in {1} |-> Start]
  <2>1. first[1] = Start
    OBVIOUS
  <2> HIDE DEF first
  <2>2. IsRun(text, tokens, first, 1)
    BY <2>1 DEF IsRun
  <2>3. QED
    BY <2>2
<1>4. ASSUME NEW n \in Nat \ {0}, NEW run, IsRun(text, tokens, run, n),
             ~ Returns(text, tokens, run[n])
      PROVE  Goes(n + 1)
  <2> DEFINE after == Round(text, tokens, run[n])
             on == [k \in 1..(n + 1) |-> IF k <= n THEN run[k] ELSE after]
  <2>1. (\A k \in 1..n : on[k] = run[k]) /\ on[n + 1] = after
    OBVIOUS
  <2> HIDE DEF on
  <2>2. on[1] = Start
    BY <1>4, <2>1 DEF IsRun
  <2>3. ASSUME NEW k \in 1..(n + 1 - 1)
        PROVE  ~ Returns(text, tokens, on[k]) /\ on[k + 1] = Round(text, tokens, on[k])
    <3>1. k \in 1..n /\ on[k] = run[k]
      BY <2>1
    <3>2. CASE k = n
      BY <1>4, <2>1, <3>1, <3>2
    <3>3. CASE k # n
      <4>1. k \in 1..(n - 1) /\ k + 1 \in 1..n
        BY <3>1, <3>3
      <4>2. QED
        BY <1>4, <2>1, <3>1, <4>1 DEF IsRun
    <3>4. QED
      BY <3>2, <3>3
  <2>4. IsRun(text, tokens, on, n + 1)
    BY <2>2, <2>3 DEF IsRun
  <2>5. QED
    BY <2>4
<1> DEFINE Beyond == {n \in Nat \ {0} : ~ Goes(n)}
<1>5. most + 1 \in Beyond
  <2> HIDE DEF Goes, most
  <2>1. QED
    BY <1>1, <1>2
<1>6. PICK least \in Beyond : \A n \in Beyond : least <= n
  <2>1. Beyond \in SUBSET Nat
    OBVIOUS
  <2> HIDE DEF Beyond
  <2>2. QED
    BY <1>5, <2>1, HasLeast
<1> DEFINE n == least - 1
<1>7. n \in Nat \ {0} /\ n + 1 = least /\ Goes(n) /\ ~ Goes(n + 1)
  <2> HIDE DEF Goes
  <2>1. least \in Nat \ {0} /\ least # 1 /\ ~ Goes(least)
    BY <1>3, <1>6
  <2>2. n \in Nat \ {0} /\ n + 1 = least /\ ~ (least <= n)
    BY <2>1
  <2>3. n \notin Beyond
    BY <1>6, <2>2
  <2>4. QED
    BY <2>1, <2>2, <2>3
<1> HIDE DEF n
<1>8. PICK run : IsRun(text, tokens, run, n)
  BY <1>7
<1>9. Returns(text, tokens, run[n])
  BY <1>4, <1>7, <1>8
<1>10. QED
  BY <1>7, <1>8, <1>9

-----------------------------------------------------------------------------
(* How a pattern is cut into tokens *)

\* What is read from each place of a pattern on.
Reads(pattern, from) ==
    from = [i \in 1..(Len(pattern) + 1) |->
              IF i > Len(pattern) THEN <<>>
              ELSE <<TokenAt(pattern, i)>> \o from[i + Width(pattern, i)]]

\* A token ends in the pattern.
LEMMA WidthStays ==
    ASSUME NEW pattern, Len(pattern) \in Nat, NEW i \in 1..Len(pattern)
    PROVE  Width(pattern, i) \in {1, 2} /\ i + Width(pattern, i) \in (i + 1)..(Len(pattern) + 1)
<1>1. CASE Escapes(pattern, i)
  <2>1. i < Len(pattern)
    BY <1>1, Zenon DEF Escapes
  <2>2. Width(pattern, i) = 2
    BY <1>1 DEF Width
  <2>3. QED
    BY <2>1, <2>2
<1>2. CASE ~ Escapes(pattern, i)
  <2>1. Width(pattern, i) = 1
    BY <1>2 DEF Width
  <2>2. QED
    BY <2>1
<1>3. QED
  BY <1>1, <1>2

\* Read from the place at "begin" on: the part of the reading that needs no earlier place.
ReadsFrom(pattern, begin, from) ==
    from = [i \in begin..(Len(pattern) + 1) |->
              IF i > Len(pattern) THEN <<>>
              ELSE <<TokenAt(pattern, i)>> \o from[i + Width(pattern, i)]]

\* What is read from a place on can be read from the place before it on.
LEMMA ReadOneMore ==
    ASSUME NEW pattern, Len(pattern) \in Nat, NEW begin \in 1..Len(pattern),
           NEW old, ReadsFrom(pattern, begin + 1, old)
    PROVE  \E from : ReadsFrom(pattern, begin, from)
<1> DEFINE end   == Len(pattern) + 1
           Entry(i, f) == IF i > Len(pattern) THEN <<>>
                          ELSE <<TokenAt(pattern, i)>> \o f[i + Width(pattern, i)]
           first == Entry(begin, old)
           new   == [i \in begin..end |-> IF i = begin THEN first ELSE old[i]]
<1>1. \A i \in (begin + 1)..end : old[i] = Entry(i, old)
  BY DEF ReadsFrom
<1>2. \A i \in (begin + 1)..end : new[i] = old[i]
  OBVIOUS
<1>3. new[begin] = first
  OBVIOUS
<1> HIDE DEF new
<1>4. ASSUME NEW i \in begin..end
      PROVE  Entry(i, new) = Entry(i, old)
  <2>1. CASE i > Len(pattern)
    BY <2>1
  <2>2. CASE i \in 1..Len(pattern)
    <3>1. i + Width(pattern, i) \in (begin + 1)..end
      BY <2>2, WidthStays
    <3>2. new[i + Width(pattern, i)] = old[i + Width(pattern, i)]
      BY <1>2, <3>1
    <3>3. QED
      BY <3>2
  <2>3. QED
    BY <2>1, <2>2
<1>5. ASSUME NEW i \in begin..end PROVE new[i] = Entry(i, new)
  <2>1. CASE i = begin
    BY <1>3, <1>4, <2>1
  <2>2. CASE i # begin
    <3>1. i \in (begin + 1)..end
      BY <2>2
    <3> HIDE DEF Entry
    <3>2. QED
      BY <1>1, <1>2, <1>4, <3>1
  <2>3. QED
    BY <2>1, <2>2
<1>6. new = [i \in begin..end |-> Entry(i, new)]
  <2>1. new = [i \in begin..end |-> new[i]]
    BY DEF new
  <2> HIDE DEF Entry
  <2>2. QED
    BY <1>5, <2>1
<1>7. ReadsFrom(pattern, begin, new)
  BY <1>6 DEF ReadsFrom
<1>8. QED
  BY <1>7

\* Every pattern can be read: no last place from which it cannot.
LEMMA ReadExists ==
    ASSUME NEW pattern, Len(pattern) \in Nat
    PROVE  \E from : Reads(pattern, from)
<1> DEFINE end == Len(pattern) + 1
           Read(i) == \E from : ReadsFrom(pattern, i, from)
           Left == {n \in Nat : n < end /\ ~ Read(end - n)}
<1>1. Read(end)
  <2> DEFINE none == [i \in end..end |-> <<>>]
  <2>1. none = [i \in end..end |->
                  IF i > Len(pattern) THEN <<>>
                  ELSE <<TokenAt(pattern, i)>> \o none[i + Width(pattern, i)]]
    OBVIOUS
  <2> HIDE DEF none
  <2>2. ReadsFrom(pattern, end, none)
    BY <2>1 DEF ReadsFrom
  <2>3. QED
    BY <2>2
<1>2. ASSUME Left # {} PROVE FALSE
  <2>1. Left \in SUBSET Nat
    OBVIOUS
  <2>2. PICK n \in Left : \A m \in Left : n <= m
    <3> HIDE DEF Left
    <3>1. QED
      BY <1>2, <2>1, HasLeast
  <2>3. n \in Nat /\ n < end /\ ~ Read(end - n)
    BY <2>2
  <2>4. n # 0
    <3> HIDE DEF Read
    <3>1. QED
      BY <1>1, <2>3
  <2>5. n - 1 \in Nat /\ n - 1 < end /\ ~ (n <= n - 1)
    BY <2>3, <2>4
  <2>6. Read(end - (n - 1))
    <3> HIDE DEF Read
    <3>1. QED
      BY <2>2, <2>5
  <2>7. end - (n - 1) = (end - n) + 1 /\ end - n \in 1..Len(pattern)
    BY <2>3, <2>4
  <2>8. Read((end - n) + 1)
    <3> HIDE DEF Read
    <3>1. QED
      BY <2>6, <2>7
  <2>9. Read(end - n)
    BY <2>7, <2>8, ReadOneMore
  <2>10. QED
    BY <2>3, <2>9
<1>3. Read(1)
  <2>1. Len(pattern) \in Nat /\ Len(pattern) < end /\ end - Len(pattern) = 1
    OBVIOUS
  <2> HIDE DEF Read
  <2>2. QED
    BY <1>2, <2>1
<1>4. QED
  BY <1>3 DEF ReadsFrom, Reads

\* From every place on a token is read and then what is read after it.
TokenByToken(pattern, from) ==
    /\ from[Len(pattern) + 1] = <<>>
    /\ \A i \in 1..Len(pattern) :
          from[i] = <<TokenAt(pattern, i)>> \o from[i + Width(pattern, i)]

\* Tokens is what is read from the first place on.
LEMMA TokensAreRead ==
    ASSUME NEW pattern, Len(pattern) \in Nat
    PROVE  \E from : Tokens(pattern) = from[1] /\ TokenByToken(pattern, from)
<1> DEFINE from == CHOOSE f : Reads(pattern, f)
<1>1. Reads(pattern, from)
  BY ReadExists
<1>2. Tokens(pattern) = from[1]
  BY DEF Tokens, Reads
<1> HIDE DEF from
<1>3. \A i \in 1..(Len(pattern) + 1) :
         from[i] = IF i > Len(pattern) THEN <<>>
                   ELSE <<TokenAt(pattern, i)>> \o from[i + Width(pattern, i)]
  BY <1>1 DEF Reads
<1>4. from[Len(pattern) + 1] = <<>>
  <2>1. Len(pattern) + 1 \in 1..(Len(pattern) + 1) /\ Len(pattern) + 1 > Len(pattern)
    OBVIOUS
  <2>2. QED
    BY <1>3, <2>1, Zenon
<1>5. ASSUME NEW i \in 1..Len(pattern)
      PROVE  from[i] = <<TokenAt(pattern, i)>> \o from[i + Width(pattern, i)]
  <2>1. i \in 1..(Len(pattern) + 1) /\ ~ (i > Len(pattern))
    OBVIOUS
  <2>2. QED
    BY <1>3, <2>1, Zenon
<1>6. TokenByToken(pattern, from)
  BY <1>4, <1>5 DEF TokenByToken
<1>7. QED
  BY <1>2, <1>6

\* What is read at a place of a pattern is a token.
LEMMA TokenIsRead ==
    ASSUME NEW Chars, NEW pattern \in Seq(Chars), NEW i \in 1..Len(pattern)
    PROVE  TokenAt(pattern, i) \in Token(Chars)
<1>1. \A c \in Chars : Literal(c) \in Token(Chars)
  BY DEF Literal, Token
<1>2. AnyText \in Token(Chars) /\ AnyChar \in Token(Chars)
  BY DEF AnyText, AnyChar, Token
<1>3. pattern[i] \in Chars
  OBVIOUS
<1>4. Escapes(pattern, i) => pattern[i + 1] \in Chars
  <2>1. Escapes(pattern, i) => i < Len(pattern)
    BY Zenon DEF Escapes
  <2>2. QED
    BY <2>1
<1>5. QED
  BY <1>1, <1>2, <1>3, <1>4 DEF TokenAt

\* What is read from a place on are tokens, and not more than characters are left.
LEMMA ReadType ==
    ASSUME NEW Chars, NEW pattern \in Seq(Chars), NEW from, TokenByToken(pattern, from)
    PROVE  \A i \in 1..(Len(pattern) + 1) :
              from[i] \in Seq(Token(Chars)) /\ Len(from[i]) <= Len(pattern) + 1 - i
<1> DEFINE end == Len(pattern) + 1
           Good(i) == from[i] \in Seq(Token(Chars)) /\ Len(from[i]) <= end - i
           Bad == {n \in Nat : n < end /\ ~ Good(end - n)}
<1>1. ASSUME Bad # {} PROVE FALSE
  <2>1. Bad \in SUBSET Nat
    OBVIOUS
  <2>2. PICK n \in Bad : \A m \in Bad : n <= m
    <3> HIDE DEF Bad
    <3>1. QED
      BY <1>1, <2>1, HasLeast
  <2> DEFINE i == end - n
  <2>3. n \in Nat /\ n < end /\ ~ Good(i) /\ i \in 1..end
    <3> HIDE DEF Good
    <3>1. QED
      BY <2>2
  <2>4. Good(end)
    BY DEF Good, TokenByToken
  <2>5. i \in 1..Len(pattern)
    <3>1. i # end
      <4> HIDE DEF Good, i
      <4>1. QED
        BY <2>3, <2>4
    <3>2. QED
      BY <2>3, <3>1
  <2> DEFINE j == i + Width(pattern, i)
  <2>6. j \in (i + 1)..end
    BY <2>5, WidthStays
  <2>7. Good(j)
    <3> DEFINE m == end - j
    <3>1. m \in Nat /\ m < end /\ ~ (n <= m) /\ end - m = j
      <4> HIDE DEF j
      <4>1. QED
        BY <2>3, <2>5, <2>6
    <3> HIDE DEF Good, m
    <3>2. QED
      BY <2>2, <3>1
  <2>8. from[i] = <<TokenAt(pattern, i)>> \o from[j]
    BY <2>5 DEF TokenByToken
  <2>9. TokenAt(pattern, i) \in Token(Chars)
    BY <2>5, TokenIsRead
  <2> HIDE DEF i, j
  <2>10. from[i] \in Seq(Token(Chars)) /\ Len(from[i]) = Len(from[j]) + 1
    BY <2>7, <2>8, <2>9
  <2>11. Good(i)
    BY <2>5, <2>6, <2>7, <2>10
  <2>12. QED
    BY <2>3, <2>11
<1>2. ASSUME NEW i \in 1..end PROVE Good(i)
  <2> DEFINE n == end - i
  <2>1. n \in Nat /\ n < end /\ end - n = i
    OBVIOUS
  <2> HIDE DEF Good, n
  <2>2. QED
    BY <1>1, <2>1
<1>3. QED
  BY <1>2

\* What pattern_tokens makes of a pattern without a mode.
LEMMA TokensType ==
    ASSUME NEW Chars, NEW pattern \in Seq(Chars)
    PROVE  Tokens(pattern) \in Seq(Token(Chars)) /\ Len(Tokens(pattern)) <= Len(pattern)
<1>1. Len(pattern) \in Nat /\ 1 \in 1..(Len(pattern) + 1)
  OBVIOUS
<1>2. PICK from : Tokens(pattern) = from[1] /\ TokenByToken(pattern, from)
  BY <1>1, TokensAreRead
<1>3. from[1] \in Seq(Token(Chars)) /\ Len(from[1]) <= Len(pattern) + 1 - 1
  BY <1>1, <1>2, ReadType
<1>4. QED
  BY <1>1, <1>2, <1>3

-----------------------------------------------------------------------------
(* What a match of tokens says of the pattern they were read from *)

\* A cut of what comes after the first token.
LEMMA RestFits ==
    ASSUME NEW text, NEW tokens, NEW rest, Call(text, rest), Len(tokens) = Len(rest) + 1,
           \A k \in 1..Len(rest) : tokens[k + 1] = rest[k], NEW i \in 1..End(text)
    PROVE  Fits(text, tokens, i, 2) <=> Fits(text, rest, i, 1)
<1>1. Len(rest) \in Nat /\ End(text) \in Nat
  BY DEF Call, End
<1>2. \A k \in 1..Len(rest) : \A a, b :
         Spans(text, tokens, k + 1, a, b) <=> Spans(text, rest, k, a, b)
  BY DEF Spans
<1>3. ASSUME Fits(text, tokens, i, 2) PROVE Fits(text, rest, i, 1)
  <2>1. PICK cut \in [2..(Len(tokens) + 1) -> 1..End(text)] :
           /\ cut[2] = i /\ cut[Len(tokens) + 1] = End(text)
           /\ \A k \in 2..Len(tokens) : Spans(text, tokens, k, cut[k], cut[k + 1])
    BY <1>3 DEF Fits, End
  <2> DEFINE shifted == [k \in 1..(Len(rest) + 1) |-> cut[k + 1]]
  <2>2. /\ shifted \in [1..(Len(rest) + 1) -> 1..End(text)]
        /\ \A k \in 1..(Len(rest) + 1) : shifted[k] = cut[k + 1]
    BY <1>1, <2>1
  <2> HIDE DEF shifted
  <2>3. shifted[1] = i /\ shifted[Len(rest) + 1] = End(text)
    BY <1>1, <2>1, <2>2
  <2>4. ASSUME NEW k \in 1..Len(rest) PROVE Spans(text, rest, k, shifted[k], shifted[k + 1])
    <3>1. k + 1 \in 2..Len(tokens) /\ k \in 1..(Len(rest) + 1) /\ k + 1 \in 1..(Len(rest) + 1)
      BY <1>1
    <3>2. Spans(text, tokens, k + 1, shifted[k], shifted[k + 1])
      BY <2>1, <2>2, <3>1
    <3>3. QED
      BY <1>2, <3>2
  <2>5. QED
    BY <2>2, <2>3, <2>4 DEF Fits, End
<1>4. ASSUME Fits(text, rest, i, 1) PROVE Fits(text, tokens, i, 2)
  <2>1. PICK cut \in [1..(Len(rest) + 1) -> 1..End(text)] :
           /\ cut[1] = i /\ cut[Len(rest) + 1] = End(text)
           /\ \A k \in 1..Len(rest) : Spans(text, rest, k, cut[k], cut[k + 1])
    BY <1>4 DEF Fits, End
  <2> DEFINE shifted == [k \in 2..(Len(tokens) + 1) |-> cut[k - 1]]
  <2>2. /\ shifted \in [2..(Len(tokens) + 1) -> 1..End(text)]
        /\ \A k \in 2..(Len(tokens) + 1) : shifted[k] = cut[k - 1]
    BY <1>1, <2>1
  <2> HIDE DEF shifted
  <2>3. shifted[2] = i /\ shifted[Len(tokens) + 1] = End(text)
    BY <1>1, <2>1, <2>2
  <2>4. ASSUME NEW k \in 2..Len(tokens) PROVE Spans(text, tokens, k, shifted[k], shifted[k + 1])
    <3> DEFINE m == k - 1
    <3>1. /\ m \in 1..Len(rest) /\ m + 1 = k
          /\ k \in 2..(Len(tokens) + 1) /\ k + 1 \in 2..(Len(tokens) + 1) /\ (k + 1) - 1 = k
      BY <1>1
    <3>2. shifted[k] = cut[m] /\ shifted[k + 1] = cut[m + 1]
      BY <2>2, <3>1
    <3> HIDE DEF m
    <3>3. Spans(text, tokens, m + 1, cut[m], cut[m + 1])
      BY <1>2, <2>1, <3>1
    <3>4. QED
      BY <3>1, <3>2, <3>3
  <2>5. QED
    BY <2>2, <2>3, <2>4 DEF Fits, End
<1>5. QED
  BY <1>3, <1>4

\* A match of a star and more, and a match of another token and more.
LEMMA FirstFits ==
    ASSUME NEW Chars, NEW text \in Seq(Chars), NEW first \in Token(Chars),
           NEW rest \in Seq(Token(Chars)), NEW i \in 1..End(text)
    PROVE  /\ first.is = "*" =>
                 (Fits(text, <<first>> \o rest, i, 1) <=> \E n \in i..End(text) : Fits(text, rest, n, 1))
           /\ first.is # "*" =>
                 (Fits(text, <<first>> \o rest, i, 1) <=>
                     /\ i < End(text) /\ (first.is = "?" \/ first.char = text[i])
                     /\ Fits(text, rest, i + 1, 1))
<1> DEFINE tokens == <<first>> \o rest
<1>1. /\ tokens \in Seq(Token(Chars)) /\ Len(tokens) = Len(rest) + 1
      /\ tokens[1] = first /\ \A k \in 1..Len(rest) : tokens[k + 1] = rest[k]
  OBVIOUS
<1>2. 1 \in 1..Len(tokens) /\ Len(rest) \in Nat /\ End(text) \in Nat
  BY <1>1 DEF End
<1> HIDE DEF tokens
<1>3. Call(text, tokens) /\ Call(text, rest)
  BY <1>1, IsCall
<1>4. \A n \in 1..End(text) : Fits(text, tokens, n, 2) <=> Fits(text, rest, n, 1)
  BY <1>1, <1>3, RestFits
<1>5. CASE first.is = "*"
  <2>1. Fits(text, tokens, i, 1) <=> \E n \in i..End(text) : Fits(text, tokens, n, 1 + 1)
    BY <1>1, <1>2, <1>3, <1>5, StarFits
  <2>2. i..End(text) \subseteq 1..End(text) /\ 1 + 1 = 2
    BY <1>2
  <2>3. Fits(text, tokens, i, 1) <=> \E n \in i..End(text) : Fits(text, rest, n, 1)
    BY <1>4, <2>1, <2>2
  <2>4. QED
    BY <1>5, <2>3 DEF tokens
<1>6. CASE first.is # "*"
  <2>1. Fits(text, tokens, i, 1) <=>
            TakesOne(text, tokens, i, 1) /\ Fits(text, tokens, i + 1, 1 + 1)
    BY <1>1, <1>2, <1>3, <1>6, CharFits
  <2>2. TakesOne(text, tokens, i, 1) <=> i < End(text) /\ (first.is = "?" \/ first.char = text[i])
    BY <1>1 DEF TakesOne
  <2>3. (i < End(text) => i + 1 \in 1..End(text)) /\ 1 + 1 = 2
    BY <1>2
  <2>4. Fits(text, tokens, i, 1) <=>
            /\ i < End(text) /\ (first.is = "?" \/ first.char = text[i])
            /\ Fits(text, rest, i + 1, 1)
    BY <1>4, <2>1, <2>2, <2>3
  <2>5. QED
    BY <1>6, <2>4 DEF tokens
<1>7. QED
  BY <1>5, <1>6

\* A backslash is no wildcard.
LEMMA Backslashes == Backslash # "*" /\ Backslash # "?"
BY Zenon DEF Backslash

\* The kinds of tokens that are read at a place.
LEMMA ReadKinds ==
    ASSUME NEW pattern, NEW i
    PROVE  /\ Escapes(pattern, i) =>
                 TokenAt(pattern, i) = Literal(pattern[i + 1]) /\ Width(pattern, i) = 2
           /\ pattern[i] = "*" => TokenAt(pattern, i) = AnyText /\ Width(pattern, i) = 1
           /\ pattern[i] = "?" => TokenAt(pattern, i) = AnyChar /\ Width(pattern, i) = 1
           /\ (pattern[i] # "*" /\ pattern[i] # "?" /\ ~ Escapes(pattern, i)) =>
                 TokenAt(pattern, i) = Literal(pattern[i]) /\ Width(pattern, i) = 1
<1>1. Escapes(pattern, i) => pattern[i] # "*" /\ pattern[i] # "?"
  BY Backslashes, Zenon DEF Escapes
<1>2. Escapes(pattern, i) => Width(pattern, i) = 2
  BY DEF Width
<1>3. ~ Escapes(pattern, i) => Width(pattern, i) = 1
  BY DEF Width
<1>4. Escapes(pattern, i) => TokenAt(pattern, i) = Literal(pattern[i + 1])
  BY <1>1 DEF TokenAt
<1>5. pattern[i] = "*" => TokenAt(pattern, i) = AnyText
  BY <1>1 DEF TokenAt
<1>6. pattern[i] = "?" => TokenAt(pattern, i) = AnyChar
  BY <1>1 DEF TokenAt
<1>7. (pattern[i] # "*" /\ pattern[i] # "?" /\ ~ Escapes(pattern, i)) =>
          TokenAt(pattern, i) = Literal(pattern[i])
  BY DEF TokenAt
<1>8. QED
  BY <1>1, <1>2, <1>3, <1>4, <1>5, <1>6, <1>7, Zenon

\* Where a value may go on for the pattern from i on to end with it, given where it may for
\* the pattern from later places on: what Means says at i.
GoesOn(pattern, value, i, from) ==
    CASE i > Len(pattern) -> {Len(value) + 1}
      [] i < Len(pattern) /\ pattern[i] = Backslash /\ pattern[i + 1] \in Special ->
            {k \in 1..Len(value) : value[k] = pattern[i + 1] /\ k + 1 \in from[i + 2]}
      [] i <= Len(pattern) /\ pattern[i] = "*" ->
            {k \in 1..(Len(value) + 1) : \E n \in from[i + 1] : k <= n}
      [] OTHER ->
            {k \in 1..Len(value) : pattern[i] \in {"?", value[k]} /\ k + 1 \in from[i + 1]}

IsMeaning(pattern, value, from) ==
    from = [i \in 1..(Len(pattern) + 1) |-> GoesOn(pattern, value, i, from)]

\* Before an escaped character, a value may go on with it.
LEMMA EscapeGoesOn ==
    ASSUME NEW pattern, NEW value, NEW from, Len(pattern) \in Nat, NEW i \in 1..Len(pattern),
           Escapes(pattern, i)
    PROVE  \A k : k \in GoesOn(pattern, value, i, from) <=>
              k \in 1..Len(value) /\ value[k] = pattern[i + 1] /\ k + 1 \in from[i + 2]
<1>1. i < Len(pattern) /\ pattern[i] = Backslash /\ pattern[i + 1] \in Special
  BY Zenon DEF Escapes
<1>2. ~ (i > Len(pattern)) /\ pattern[i] # "*"
  BY <1>1, Backslashes
<1>3. GoesOn(pattern, value, i, from) =
          {k \in 1..Len(value) : value[k] = pattern[i + 1] /\ k + 1 \in from[i + 2]}
  BY <1>1, <1>2 DEF GoesOn
<1>4. QED
  BY <1>3

\* Before a star, a value may go on with any text.
LEMMA StarGoesOn ==
    ASSUME NEW pattern, NEW value, NEW from, Len(pattern) \in Nat, NEW i \in 1..Len(pattern),
           pattern[i] = "*"
    PROVE  \A k : k \in GoesOn(pattern, value, i, from) <=>
              k \in 1..(Len(value) + 1) /\ \E n \in from[i + 1] : k <= n
<1>1. pattern[i] # Backslash
  BY Backslashes
<1>2. ~ (i > Len(pattern)) /\ i <= Len(pattern)
  OBVIOUS
<1>3. QED
  BY <1>1, <1>2 DEF GoesOn

\* Before any other character, a value may go on with one that it stands for.
LEMMA CharGoesOn ==
    ASSUME NEW pattern, NEW value, NEW from, Len(pattern) \in Nat, NEW i \in 1..Len(pattern),
           pattern[i] # "*", ~ Escapes(pattern, i)
    PROVE  \A k : k \in GoesOn(pattern, value, i, from) <=>
              /\ k \in 1..Len(value) /\ pattern[i] \in {"?", value[k]}
              /\ k + 1 \in from[i + 1]
<1>1. ~ (i < Len(pattern) /\ pattern[i] = Backslash /\ pattern[i + 1] \in Special)
  BY Zenon DEF Escapes
<1>2. ~ (i > Len(pattern))
  OBVIOUS
<1>3. QED
  BY <1>1, <1>2 DEF GoesOn

\* Sets are given by their members.
LEMMA SameMembers ==
    ASSUME NEW S, NEW T, \A x : x \in S <=> x \in T
    PROVE  S = T
OBVIOUS

\* Positions at an escaped character that go on with it are the ones Means says.
LEMMA EscapeAgrees ==
    ASSUME NEW pattern, NEW value, NEW from, Len(pattern) \in Nat, NEW i \in 1..Len(pattern),
           Escapes(pattern, i),
           \A k : k \in from[i] <=> /\ k \in 1..Len(value) /\ value[k] = pattern[i + 1]
                                  /\ k + 1 \in from[i + 2]
    PROVE  from[i] = GoesOn(pattern, value, i, from)
BY EscapeGoesOn, SameMembers

\* After the pattern the value must end.
LEMMA GoesOnEnds ==
    ASSUME NEW pattern, NEW value, NEW from, Len(pattern) \in Nat
    PROVE  GoesOn(pattern, value, Len(pattern) + 1, from) = {Len(value) + 1}
<1>1. Len(pattern) + 1 > Len(pattern) /\ ~ (Len(pattern) + 1 < Len(pattern))
      /\ ~ (Len(pattern) + 1 <= Len(pattern))
  OBVIOUS
<1>2. QED
  BY <1>1 DEF GoesOn

\* From where the tokens that are read at each place on match.
Matching(pattern, value, read) ==
    [i \in 1..(Len(pattern) + 1) |-> {k \in 1..End(value) : Fits(value, read[i], k, 1)}]

\* From where the tokens that are read at i on match, the value may go on for the pattern.
LEMMA MatchesGoOn ==
    ASSUME NEW Chars, NEW value \in Seq(Chars), NEW pattern \in Seq(Chars), NEW read,
           TokenByToken(pattern, read), NEW from, from = Matching(pattern, value, read)
    PROVE  IsMeaning(pattern, value, from)
<1>1. Len(pattern) \in Nat /\ Len(value) \in Nat /\ End(value) \in Nat
  BY DEF End
<1>2. \A i \in 1..(Len(pattern) + 1) : read[i] \in Seq(Token(Chars))
  BY ReadType
<1>3. \A i \in 1..(Len(pattern) + 1) : \A k :
         k \in from[i] <=> k \in 1..End(value) /\ Fits(value, read[i], k, 1)
  BY DEF Matching
<1>4. from[Len(pattern) + 1] = GoesOn(pattern, value, Len(pattern) + 1, from)
  <2> DEFINE none == <<>>
  <2>1. none \in Seq(Token(Chars)) /\ Len(none) = 0
    OBVIOUS
  <2>2. read[Len(pattern) + 1] = none
    BY DEF TokenByToken
  <2> HIDE DEF none
  <2>3. Call(value, none) /\ Last(none) = 1
    <3>1. Call(value, none)
      BY <2>1, IsCall
    <3>2. QED
      BY <2>1, <3>1 DEF Last
  <2>4. \A k \in 1..End(value) : Fits(value, none, k, 1) <=> k = End(value)
    BY <2>3, FitsEnd
  <2>5. from[Len(pattern) + 1] = {Len(value) + 1}
    <3>1. Len(pattern) + 1 \in 1..(Len(pattern) + 1)
      BY <1>1
    <3>2. \A k : k \in from[Len(pattern) + 1] <=> k = Len(value) + 1
      BY <1>1, <1>3, <2>2, <2>4, <3>1 DEF End
    <3>3. QED
      BY <3>2
  <2>6. QED
    BY <1>1, <2>5, GoesOnEnds
<1>5. ASSUME NEW i \in 1..Len(pattern) PROVE from[i] = GoesOn(pattern, value, i, from)
  <2> DEFINE j     == i + Width(pattern, i)
             token == TokenAt(pattern, i)
             rest  == read[j]
  <2>1. j \in 1..(Len(pattern) + 1) /\ i \in 1..(Len(pattern) + 1)
    BY <1>1, WidthStays
  <2>2. read[i] = <<token>> \o rest /\ rest \in Seq(Token(Chars)) /\ token \in Token(Chars)
    BY <1>2, <2>1, TokenIsRead DEF TokenByToken
  <2> HIDE DEF j, rest
  <2>3. ASSUME token.is = "*"
        PROVE  \A k : k \in from[i] <=> k \in 1..(Len(value) + 1) /\ \E n \in from[j] : k <= n
    <3>1. ASSUME NEW k \in 1..End(value)
          PROVE  Fits(value, read[i], k, 1) <=> \E n \in k..End(value) : Fits(value, rest, n, 1)
      <4> HIDE DEF token
      <4>1. QED
        BY <2>2, <2>3, FirstFits
    <3>2. ASSUME NEW k \in 1..End(value)
          PROVE  (\E n \in k..End(value) : Fits(value, rest, n, 1)) <=> \E n \in from[j] : k <= n
      BY <1>1, <1>3, <2>1 DEF rest
    <3>3. QED
      BY <1>3, <2>1, <3>1, <3>2 DEF End
  <2>4. ASSUME token.is # "*"
        PROVE  \A k : k \in from[i] <=> /\ k \in 1..Len(value)
                                        /\ token.is = "?" \/ token.char = value[k]
                                        /\ k + 1 \in from[j]
    <3>1. ASSUME NEW k \in 1..End(value)
          PROVE  Fits(value, read[i], k, 1) <=>
                     /\ k < End(value) /\ (token.is = "?" \/ token.char = value[k])
                     /\ Fits(value, rest, k + 1, 1)
      <4> HIDE DEF token
      <4>1. QED
        BY <2>2, <2>4, FirstFits
    <3>2. \A k \in 1..Len(value) : k + 1 \in from[j] <=> Fits(value, rest, k + 1, 1)
      BY <1>1, <1>3, <2>1 DEF rest, End
    <3>3. \A k : k \in 1..Len(value) <=> k \in 1..End(value) /\ k < End(value)
      BY <1>1 DEF End
    <3>4. QED
      BY <1>3, <2>1, <3>1, <3>2, <3>3
  <2>5. CASE Escapes(pattern, i)
    <3>1. token = Literal(pattern[i + 1]) /\ j = i + 2
      BY <2>5, ReadKinds DEF j
    <3>2. token.is # "*" /\ token.is # "?" /\ token.char = pattern[i + 1]
      BY <3>1 DEF Literal
    <3> HIDE DEF token
    <3>3. \A k : k \in from[i] <=> /\ k \in 1..Len(value) /\ value[k] = pattern[i + 1]
                                   /\ k + 1 \in from[i + 2]
      BY <2>4, <3>1, <3>2
    <3>4. QED
      BY <1>1, <2>5, <3>3, EscapeAgrees, SMTT(20)
  <2>6. CASE pattern[i] = "*"
    <3>1. token = AnyText /\ j = i + 1
      BY <2>6, ReadKinds DEF j
    <3>2. token.is = "*"
      BY <3>1 DEF AnyText
    <3> HIDE DEF token
    <3>3. \A k : k \in from[i] <=> k \in 1..(Len(value) + 1) /\ \E n \in from[i + 1] : k <= n
      BY <2>3, <3>1, <3>2
    <3>4. \A k : k \in GoesOn(pattern, value, i, from) <=>
                     k \in 1..(Len(value) + 1) /\ \E n \in from[i + 1] : k <= n
      BY <1>1, <2>6, StarGoesOn, Zenon
    <3>5. QED
      BY <3>3, <3>4, SameMembers
  <2>7. CASE pattern[i] # "*" /\ ~ Escapes(pattern, i)
    <3>1. j = i + 1 /\ token = IF pattern[i] = "?" THEN AnyChar ELSE Literal(pattern[i])
      <4>1. Width(pattern, i) = 1
        BY <2>7, ReadKinds, Zenon
      <4>2. pattern[i] = "?" => token = AnyChar
        BY ReadKinds, Zenon
      <4>3. pattern[i] # "?" => token = Literal(pattern[i])
        BY <2>7, ReadKinds, Zenon
      <4>4. QED
        BY <4>1, <4>2, <4>3 DEF j
    <3>2. /\ token.is # "*"
          /\ \A c : (token.is = "?" \/ token.char = c) <=> pattern[i] \in {"?", c}
      BY <3>1 DEF AnyChar, Literal
    <3> HIDE DEF token
    <3>3. \A k : k \in from[i] <=> /\ k \in 1..Len(value) /\ pattern[i] \in {"?", value[k]}
                                   /\ k + 1 \in from[i + 1]
      BY <2>4, <3>1, <3>2
    <3>4. \A k : k \in GoesOn(pattern, value, i, from) <=>
                     /\ k \in 1..Len(value) /\ pattern[i] \in {"?", value[k]}
                     /\ k + 1 \in from[i + 1]
      BY <1>1, <2>7, CharGoesOn, Zenon
    <3>5. QED
      BY <3>3, <3>4, SameMembers
  <2>8. QED
    BY <2>5, <2>6, <2>7
<1>6. \A i \in 1..(Len(pattern) + 1) : from[i] = GoesOn(pattern, value, i, from)
  <2>1. SUFFICES ASSUME NEW i \in 1..(Len(pattern) + 1)
                 PROVE  from[i] = GoesOn(pattern, value, i, from)
    OBVIOUS
  <2>2. i \in 1..Len(pattern) \/ i = Len(pattern) + 1
    BY <1>1
  <2>3. QED
    BY <1>4, <1>5, <2>2, Zenon
<1>7. from = [i \in 1..(Len(pattern) + 1) |-> from[i]]
  BY DEF Matching
<1>8. QED
  BY <1>6, <1>7 DEF IsMeaning

\* A pattern has one meaning: there is no last place at which two of them differ.
LEMMA MeaningIsUnique ==
    ASSUME NEW pattern, NEW value, Len(pattern) \in Nat,
           NEW one, IsMeaning(pattern, value, one), NEW other, IsMeaning(pattern, value, other)
    PROVE  one = other
<1> DEFINE end == Len(pattern) + 1
           Bad == {n \in Nat : n < end /\ one[end - n] # other[end - n]}
<1>1. \A i \in 1..end : one[i] = GoesOn(pattern, value, i, one)
  BY DEF IsMeaning
<1>2. \A i \in 1..end : other[i] = GoesOn(pattern, value, i, other)
  BY DEF IsMeaning
<1>3. ASSUME Bad # {} PROVE FALSE
  <2>1. Bad \in SUBSET Nat
    OBVIOUS
  <2>2. PICK n \in Bad : \A m \in Bad : n <= m
    <3> HIDE DEF Bad
    <3>1. QED
      BY <1>3, <2>1, HasLeast
  <2> DEFINE i == end - n
  <2>3. n \in Nat /\ n < end /\ i \in 1..end /\ one[i] # other[i]
    BY <2>2
  <2>4. \A k \in (i + 1)..end : one[k] = other[k]
    <3> SUFFICES ASSUME NEW k \in (i + 1)..end PROVE one[k] = other[k]
      OBVIOUS
    <3> DEFINE m == end - k
    <3>1. m \in Nat /\ m < end /\ ~ (n <= m) /\ end - m = k
      BY <2>3
    <3>2. m \notin Bad
      BY <2>2, <3>1
    <3> HIDE DEF m
    <3>3. QED
      BY <3>1, <3>2
  <2> HIDE DEF i
  <2>5. CASE i = end
    <3>1. GoesOn(pattern, value, i, one) = {Len(value) + 1}
      BY <2>5, GoesOnEnds
    <3>2. GoesOn(pattern, value, i, other) = {Len(value) + 1}
      BY <2>5, GoesOnEnds
    <3>3. QED
      BY <1>1, <1>2, <2>3, <3>1, <3>2
  <2>6. CASE i \in 1..Len(pattern)
    <3>1. one[i + 1] = other[i + 1]
      <4>1. i + 1 \in (i + 1)..end
        BY <2>6
      <4>2. QED
        BY <2>4, <4>1
    <3>2. Escapes(pattern, i) => one[i + 2] = other[i + 2]
      <4>1. Escapes(pattern, i) => i < Len(pattern)
        BY Zenon DEF Escapes
      <4>2. Escapes(pattern, i) => i + 2 \in (i + 1)..end
        BY <2>6, <4>1
      <4>3. QED
        BY <2>4, <4>2
    <3>3. GoesOn(pattern, value, i, one) = GoesOn(pattern, value, i, other)
      <4>1. CASE Escapes(pattern, i)
        <5>1. \A k : k \in GoesOn(pattern, value, i, one) <=>
                     k \in 1..Len(value) /\ value[k] = pattern[i + 1] /\ k + 1 \in one[i + 2]
          BY <2>6, <4>1, EscapeGoesOn
        <5>2. \A k : k \in GoesOn(pattern, value, i, other) <=>
                     k \in 1..Len(value) /\ value[k] = pattern[i + 1] /\ k + 1 \in other[i + 2]
          BY <2>6, <4>1, EscapeGoesOn
        <5>3. QED
          BY <3>2, <4>1, <5>1, <5>2, SameMembers
      <4>2. CASE pattern[i] = "*"
        <5>1. \A k : k \in GoesOn(pattern, value, i, one)
                        <=> k \in GoesOn(pattern, value, i, other)
          BY <2>6, <3>1, <4>2, StarGoesOn
        <5>2. QED
          BY <5>1, SameMembers
      <4>3. CASE pattern[i] # "*" /\ ~ Escapes(pattern, i)
        <5>1. \A k : k \in GoesOn(pattern, value, i, one) <=>
                     /\ k \in 1..Len(value) /\ pattern[i] \in {"?", value[k]}
                     /\ k + 1 \in one[i + 1]
          BY <2>6, <4>3, CharGoesOn
        <5>2. \A k : k \in GoesOn(pattern, value, i, other) <=>
                     /\ k \in 1..Len(value) /\ pattern[i] \in {"?", value[k]}
                     /\ k + 1 \in other[i + 1]
          BY <2>6, <4>3, CharGoesOn
        <5>3. QED
          BY <3>1, <5>1, <5>2, SameMembers
      <4>4. QED
        BY <4>1, <4>2, <4>3
    <3>4. QED
      BY <1>1, <1>2, <2>3, <3>3
  <2>7. QED
    BY <2>3, <2>5, <2>6
<1>4. ASSUME NEW k \in 1..end PROVE one[k] = other[k]
  <2> DEFINE n == end - k
  <2>1. n \in Nat /\ n < end /\ end - n = k
    OBVIOUS
  <2>2. n \notin Bad
    BY <1>3
  <2> HIDE DEF n
  <2>3. QED
    BY <2>1, <2>2
<1>5. one = [i \in 1..end |-> one[i]] /\ other = [i \in 1..end |-> other[i]]
  BY DEF IsMeaning
<1>6. QED
  BY <1>4, <1>5

\* For every pattern and every value, there is a way to cut the value into what the tokens of
\* the pattern stand for exactly when the pattern, read character by character, means the
\* value: pattern_tokens reads escapes, wildcards and literals as they are meant.
THEOREM TokensMean ==
    ASSUME NEW Chars, NEW value \in Seq(Chars), NEW pattern \in Seq(Chars)
    PROVE  Fits(value, Tokens(pattern), 1, 1) <=> Means(pattern, value)
<1> DEFINE chosen == CHOOSE f : IsMeaning(pattern, value, f)
<1>1. Means(pattern, value) <=> 1 \in chosen[1]
  BY DEF Means, IsMeaning, GoesOn
<1>2. /\ Len(pattern) \in Nat /\ 1 \in 1..(Len(pattern) + 1)
      /\ Len(value) \in Nat /\ 1 \in 1..End(value)
  BY DEF End
<1>3. PICK read : Tokens(pattern) = read[1] /\ TokenByToken(pattern, read)
  BY <1>2, TokensAreRead
<1> DEFINE from == Matching(pattern, value, read)
<1>4. IsMeaning(pattern, value, from)
  BY <1>3, MatchesGoOn
<1>5. 1 \in from[1] <=> Fits(value, Tokens(pattern), 1, 1)
  BY <1>2, <1>3 DEF Matching
<1> HIDE DEF from
<1>6. IsMeaning(pattern, value, chosen)
  BY <1>4
<1> HIDE DEF chosen
<1>7. from = chosen
  BY <1>2, <1>4, <1>6, MeaningIsUnique
<1>8. QED
  BY <1>1, <1>5, <1>7

-----------------------------------------------------------------------------
(* What the modes add to a pattern *)

\* The tokens stand for the part of the text from a up to b.
Stands(text, tokens, a, b) ==
    \E cut \in [1..(Len(tokens) + 1) -> 1..End(text)] :
        /\ cut[1] = a /\ cut[Len(tokens) + 1] = b
        /\ \A k \in 1..Len(tokens) : Spans(text, tokens, k, cut[k], cut[k + 1])

\* A cut goes on through the text: no first place goes back.
LEMMA CutsGoOn ==
    ASSUME NEW n \in Nat \ {0}, NEW cut \in [1..n -> Nat],
           \A k \in 1..(n - 1) : cut[k] <= cut[k + 1], NEW m \in 1..n
    PROVE  \A k \in m..n : cut[m] <= cut[k]
<1> DEFINE Bad == {k \in m..n : ~ (cut[m] <= cut[k])}
<1>1. SUFFICES ASSUME Bad # {} PROVE FALSE
  OBVIOUS
<1>2. Bad \in SUBSET Nat
  OBVIOUS
<1>3. PICK k \in Bad : \A l \in Bad : k <= l
  <2> HIDE DEF Bad
  <2>1. QED
    BY <1>1, <1>2, HasLeast
<1>4. k \in m..n /\ ~ (cut[m] <= cut[k])
  BY <1>3
<1>5. k # m
  BY <1>4
<1> DEFINE l == k - 1
<1>6. l \in m..n /\ l \in 1..(n - 1) /\ l + 1 = k /\ ~ (k <= l) /\ k \in 1..n /\ l \in 1..n
  BY <1>4, <1>5
<1>7. l \notin Bad
  BY <1>3, <1>6
<1>8. cut[m] <= cut[l]
  <2> HIDE DEF l
  <2>1. QED
    BY <1>6, <1>7
<1> HIDE DEF l
<1>9. cut[l] <= cut[k]
  BY <1>6
<1>10. QED
  BY <1>4, <1>6, <1>8, <1>9

\* What the tokens stand for is the text of its own that they match.
LEMMA PartFits ==
    ASSUME NEW Chars, NEW text \in Seq(Chars), NEW tokens \in Seq(Token(Chars)),
           NEW a \in 1..End(text), NEW b \in 1..End(text)
    PROVE  Stands(text, tokens, a, b) <=> a <= b /\ Fits(SubSeq(text, a, b - 1), tokens, 1, 1)
<1> DEFINE part == SubSeq(text, a, b - 1)
           size == Len(tokens)
<1>1. /\ size \in Nat /\ End(text) \in Nat /\ Len(text) \in Nat /\ End(text) = Len(text) + 1
      /\ 1 \in 1..(size + 1) /\ size + 1 \in 1..(size + 1)
      /\ \A k \in 1..size : k \in 1..(size + 1) /\ k + 1 \in 1..(size + 1)
  BY DEF End
<1>2. ASSUME a <= b
      PROVE  /\ Len(part) = b - a /\ Len(part) \in Nat /\ End(part) = b - a + 1
             /\ \A i \in 1..(b - a) : part[i] = text[i + a - 1]
  BY <1>1, <1>2 DEF End
<1> HIDE DEF part
<1>3. ASSUME a <= b, NEW k \in 1..size, NEW p \in 1..End(part), NEW q \in 1..End(part)
      PROVE  Spans(part, tokens, k, p, q) <=> Spans(text, tokens, k, p + a - 1, q + a - 1)
  <2>1. p \in Nat /\ q \in Nat /\ a \in Nat /\ b \in Nat
    BY <1>2, <1>3
  <2>2. (p <= q <=> p + a - 1 <= q + a - 1) /\ (q = p + 1 <=> q + a - 1 = (p + a - 1) + 1)
    BY <2>1
  <2>3. q = p + 1 => part[p] = text[p + a - 1]
    BY <1>2, <1>3, <2>1
  <2>4. QED
    BY <2>2, <2>3 DEF Spans
<1>4. ASSUME Stands(text, tokens, a, b) PROVE a <= b /\ Fits(part, tokens, 1, 1)
  <2>1. PICK cut \in [1..(size + 1) -> 1..End(text)] :
           /\ cut[1] = a /\ cut[size + 1] = b
           /\ \A k \in 1..size : Spans(text, tokens, k, cut[k], cut[k + 1])
    BY <1>4 DEF Stands
  <2> HIDE DEF size
  <2>2. \A k \in 1..size : cut[k] <= cut[k + 1]
    <3> SUFFICES ASSUME NEW k \in 1..size PROVE cut[k] <= cut[k + 1]
      OBVIOUS
    <3>1. cut[k] \in Nat /\ cut[k + 1] \in Nat /\ Spans(text, tokens, k, cut[k], cut[k + 1])
      BY <1>1, <2>1
    <3>2. QED
      BY <3>1 DEF Spans
  <2>3. ASSUME NEW k \in 1..(size + 1) PROVE a <= cut[k] /\ cut[k] <= b
    <3>1. /\ cut \in [1..(size + 1) -> Nat] /\ size + 1 \in Nat \ {0}
          /\ (size + 1) - 1 = size /\ k \in 1..(size + 1) /\ size + 1 \in k..(size + 1)
      BY <1>1, <2>1
    <3>2. cut[1] <= cut[k]
      BY <1>1, <2>2, <3>1, CutsGoOn
    <3>3. cut[k] <= cut[size + 1]
      BY <2>2, <3>1, CutsGoOn
    <3>4. QED
      BY <2>1, <3>2, <3>3
  <2>4. a <= b
    BY <1>1, <2>1, <2>3
  <2> DEFINE own == [k \in 1..(size + 1) |-> cut[k] - a + 1]
  <2>5. \A k \in 1..(size + 1) : own[k] \in 1..End(part) /\ own[k] + a - 1 = cut[k]
    <3> SUFFICES ASSUME NEW k \in 1..(size + 1)
                 PROVE  own[k] \in 1..End(part) /\ own[k] + a - 1 = cut[k]
      OBVIOUS
    <3>1. own[k] = cut[k] - a + 1 /\ cut[k] \in Nat /\ a \in Nat /\ b \in Nat
      BY <1>1, <2>1
    <3>2. a <= cut[k] /\ cut[k] <= b
      BY <2>3
    <3>3. End(part) = b - a + 1
      BY <1>2, <2>4
    <3> HIDE DEF own
    <3>4. QED
      BY <3>1, <3>2, <3>3
  <2>6. own \in [1..(size + 1) -> 1..End(part)]
    BY <2>5
  <2>7. own[1] = 1 /\ own[size + 1] = End(part)
    <3>1. own[1] = a - a + 1 /\ own[size + 1] = b - a + 1
      BY <1>1, <2>1
    <3> HIDE DEF own
    <3>2. QED
      BY <1>2, <2>4, <3>1
  <2> HIDE DEF own
  <2>8. ASSUME NEW k \in 1..size PROVE Spans(part, tokens, k, own[k], own[k + 1])
    <3>1. /\ own[k] \in 1..End(part) /\ own[k + 1] \in 1..End(part)
          /\ own[k] + a - 1 = cut[k] /\ own[k + 1] + a - 1 = cut[k + 1]
      BY <1>1, <2>5
    <3>2. Spans(text, tokens, k, own[k] + a - 1, own[k + 1] + a - 1)
      BY <2>1, <3>1
    <3>3. QED
      BY <1>3, <2>4, <3>1, <3>2
  <2>9. QED
    BY <2>4, <2>6, <2>7, <2>8 DEF Fits, End, size
<1>5. ASSUME a <= b, Fits(part, tokens, 1, 1) PROVE Stands(text, tokens, a, b)
  <2>1. PICK own \in [1..(size + 1) -> 1..End(part)] :
           /\ own[1] = 1 /\ own[size + 1] = End(part)
           /\ \A k \in 1..size : Spans(part, tokens, k, own[k], own[k + 1])
    BY <1>5 DEF Fits, End
  <2> HIDE DEF size
  <2> DEFINE cut == [k \in 1..(size + 1) |-> own[k] + a - 1]
  <2>2. \A k \in 1..(size + 1) : cut[k] = own[k] + a - 1
    OBVIOUS
  <2>3. cut \in [1..(size + 1) -> 1..End(text)]
    <3> SUFFICES ASSUME NEW k \in 1..(size + 1) PROVE own[k] + a - 1 \in 1..End(text)
      OBVIOUS
    <3>1. own[k] \in 1..End(part)
      BY <2>1
    <3>2. QED
      BY <1>1, <1>2, <1>5, <3>1
  <2> HIDE DEF cut
  <2>4. cut[1] = a /\ cut[size + 1] = b
    BY <1>1, <1>2, <1>5, <2>1, <2>2
  <2>5. ASSUME NEW k \in 1..size PROVE Spans(text, tokens, k, cut[k], cut[k + 1])
    <3>1. own[k] \in 1..End(part) /\ own[k + 1] \in 1..End(part)
      BY <1>1, <2>1
    <3>2. Spans(text, tokens, k, own[k] + a - 1, own[k + 1] + a - 1)
      BY <1>3, <1>5, <2>1, <3>1
    <3>3. QED
      BY <1>1, <2>2, <3>2
  <2>6. QED
    BY <2>3, <2>4, <2>5 DEF Stands, size
<1>6. QED
  BY <1>4, <1>5 DEF part

\* A star at the end stands for what is left after the tokens before it.
LEMMA LastStar ==
    ASSUME NEW Chars, NEW text \in Seq(Chars), NEW tokens \in Seq(Token(Chars)),
           NEW star \in Token(Chars), star.is = "*", NEW a \in 1..End(text)
    PROVE  Fits(text, Append(tokens, star), a, 1) <=> \E b \in 1..End(text) : Stands(text, tokens, a, b)
<1> DEFINE all  == Append(tokens, star)
           size == Len(tokens)
<1>1. /\ Len(all) = size + 1 /\ all[size + 1] = star
      /\ \A k \in 1..size : all[k] = tokens[k]
  OBVIOUS
<1>2. /\ size \in Nat /\ End(text) \in Nat /\ size + 1 \in 1..(size + 1)
      /\ \A k \in 1..size : k \in 1..(size + 1) /\ k + 1 \in 1..(size + 1)
      /\ \A k \in 1..(size + 1) : k \in 1..(size + 2) /\ k + 1 \in 1..(size + 2)
      /\ size + 2 = (size + 1) + 1 /\ 1 \in 1..(size + 1) /\ End(text) \in 1..End(text)
  BY DEF End
<1> HIDE DEF all, size
<1>3. \A k \in 1..size : \A p, q : Spans(text, all, k, p, q) <=> Spans(text, tokens, k, p, q)
  BY <1>1 DEF Spans
<1>4. \A p, q : Spans(text, all, size + 1, p, q) <=> p <= q
  BY <1>1 DEF Spans
<1>5. ASSUME Fits(text, all, a, 1) PROVE \E b \in 1..End(text) : Stands(text, tokens, a, b)
  <2>1. PICK cut \in [1..(size + 2) -> 1..End(text)] :
           cut[1] = a /\ \A k \in 1..(size + 1) : Spans(text, all, k, cut[k], cut[k + 1])
    BY <1>1, <1>2, <1>5 DEF Fits, End
  <2> DEFINE front == [k \in 1..(size + 1) |-> cut[k]]
  <2>2. \A k \in 1..(size + 1) : front[k] = cut[k]
    OBVIOUS
  <2>3. front \in [1..(size + 1) -> 1..End(text)]
    BY <1>2, <2>1
  <2> HIDE DEF front
  <2>4. front[1] = a /\ front[size + 1] \in 1..End(text)
    BY <1>2, <2>1, <2>2, <2>3
  <2>5. ASSUME NEW k \in 1..size PROVE Spans(text, tokens, k, front[k], front[k + 1])
    <3>1. Spans(text, all, k, front[k], front[k + 1])
      BY <1>2, <2>1, <2>2
    <3>2. QED
      BY <1>3, <3>1
  <2>6. Stands(text, tokens, a, front[size + 1])
    BY <2>3, <2>4, <2>5 DEF Stands, size
  <2>7. QED
    BY <2>4, <2>6
<1>6. ASSUME NEW b \in 1..End(text), Stands(text, tokens, a, b) PROVE Fits(text, all, a, 1)
  <2>1. PICK cut \in [1..(size + 1) -> 1..End(text)] :
           /\ cut[1] = a /\ cut[size + 1] = b
           /\ \A k \in 1..size : Spans(text, tokens, k, cut[k], cut[k + 1])
    BY <1>6 DEF Stands, size
  <2> DEFINE whole == [k \in 1..(size + 2) |-> IF k = size + 2 THEN End(text) ELSE cut[k]]
  <2>2. whole[size + 2] = End(text) /\ \A k \in 1..(size + 1) : whole[k] = cut[k]
    BY <1>2
  <2>3. whole \in [1..(size + 2) -> 1..End(text)]
    <3> SUFFICES ASSUME NEW k \in 1..(size + 2), k # size + 2 PROVE cut[k] \in 1..End(text)
      BY <1>2
    <3>1. k \in 1..(size + 1)
      BY <1>2
    <3>2. QED
      BY <2>1, <3>1
  <2> HIDE DEF whole
  <2>4. ASSUME NEW k \in 1..(size + 1) PROVE Spans(text, all, k, whole[k], whole[k + 1])
    <3>1. CASE k \in 1..size
      <4>1. Spans(text, tokens, k, whole[k], whole[k + 1])
        BY <1>2, <2>1, <2>2, <3>1
      <4>2. QED
        BY <1>3, <3>1, <4>1
    <3>2. CASE k = size + 1
      <4>1. whole[k] = b /\ whole[k + 1] = End(text) /\ b <= End(text)
        BY <1>2, <2>1, <2>2, <3>2
      <4>2. QED
        BY <1>4, <3>2, <4>1
    <3>3. QED
      BY <1>2, <3>1, <3>2
  <2>5. whole[1] = a
    BY <1>2, <2>1, <2>2
  <2>6. Len(all) = size + 1 /\ Len(all) + 1 = size + 2
    BY <1>1, <1>2
  <2>7. QED
    BY <2>2, <2>3, <2>4, <2>5, <2>6 DEF Fits, End
<1>7. QED
  BY <1>5, <1>6 DEF all

\* A match from a on without a star at the end stands for the rest of the text.
LEMMA WholeStands ==
    ASSUME NEW text, NEW tokens, NEW a
    PROVE  Fits(text, tokens, a, 1) <=> Stands(text, tokens, a, End(text))
BY DEF Fits, Stands, End

\* The modes of a text pattern.
Modes == {"exact", "contains", "startswith", "endswith"}

\* The tokens of a pattern with a mode are those of the pattern between the mode's stars.
LEMMA ModeTokens ==
    ASSUME NEW Chars, NEW pattern \in Seq(Chars), NEW mode \in Modes
    PROVE  /\ AnyText \in Token(Chars) /\ AnyText.is = "*"
           /\ mode = "exact" => pattern_tokens(pattern, mode) = Tokens(pattern)
           /\ mode = "endswith" => pattern_tokens(pattern, mode) = <<AnyText>> \o Tokens(pattern)
           /\ mode = "startswith" =>
                 pattern_tokens(pattern, mode) = Append(Tokens(pattern), AnyText)
           /\ mode = "contains" =>
                 pattern_tokens(pattern, mode) = <<AnyText>> \o Append(Tokens(pattern), AnyText)
<1> DEFINE star   == AnyText
           tokens == Tokens(pattern)
<1>1. star \in Token(Chars) /\ star.is = "*"
  BY DEF AnyText, Token
<1>2. tokens \in Seq(Token(Chars))
  BY TokensType
<1>3. /\ mode = "exact" => pattern_tokens(pattern, mode) = (<<>> \o tokens) \o <<>>
      /\ mode = "endswith" => pattern_tokens(pattern, mode) = (<<star>> \o tokens) \o <<>>
      /\ mode = "startswith" => pattern_tokens(pattern, mode) = (<<>> \o tokens) \o <<star>>
      /\ mode = "contains" => pattern_tokens(pattern, mode) = (<<star>> \o tokens) \o <<star>>
  BY DEF pattern_tokens
<1> HIDE DEF star, tokens
<1>4. (<<>> \o tokens) \o <<>> = tokens
  BY <1>2
<1>5. (<<star>> \o tokens) \o <<>> = <<star>> \o tokens
  BY <1>1, <1>2
<1>6. (<<>> \o tokens) \o <<star>> = Append(tokens, star)
  BY <1>1, <1>2
<1>7. (<<star>> \o tokens) \o <<star>> = <<star>> \o Append(tokens, star)
  BY <1>1, <1>2
<1>8. QED
  BY <1>1, <1>3, <1>4, <1>5, <1>6, <1>7 DEF star, tokens

\* What a mode asks, in terms of the parts of the value that the tokens stand for.
LEMMA MeansStands ==
    ASSUME NEW Chars, NEW value \in Seq(Chars), NEW pattern \in Seq(Chars), NEW mode
    PROVE  MeansIn(value, pattern, mode) <=>
               \E a, b \in 1..End(value) :
                  /\ mode \in {"exact", "startswith"} => a = 1
                  /\ mode \in {"exact", "endswith"} => b = End(value)
                  /\ Stands(value, Tokens(pattern), a, b)
<1> DEFINE tokens == Tokens(pattern)
           Part(a, b) == SubSeq(value, a, b - 1)
<1>1. tokens \in Seq(Token(Chars))
  BY TokensType
<1>2. Len(value) \in Nat /\ End(value) = Len(value) + 1
  BY DEF End
<1>3. ASSUME NEW a \in 1..End(value), NEW b \in 1..End(value)
      PROVE  Stands(value, tokens, a, b) <=> a <= b /\ Means(pattern, Part(a, b))
  <2>1. Stands(value, tokens, a, b) <=> a <= b /\ Fits(Part(a, b), tokens, 1, 1)
    <3> HIDE DEF tokens
    <3>1. QED
      BY <1>1, PartFits
  <2>2. a <= b => Part(a, b) \in Seq(Chars)
    BY <1>2
  <2> HIDE DEF Part
  <2>3. a <= b => (Fits(Part(a, b), tokens, 1, 1) <=> Means(pattern, Part(a, b)))
    BY <2>2, TokensMean
  <2>4. QED
    BY <2>1, <2>3
<1>4. ASSUME MeansIn(value, pattern, mode)
      PROVE  \E a, b \in 1..End(value) :
                /\ mode \in {"exact", "startswith"} => a = 1
                /\ mode \in {"exact", "endswith"} => b = End(value)
                /\ Stands(value, tokens, a, b)
  <2>1. PICK i \in 1..(Len(value) + 1), k \in 0..Len(value) :
           /\ mode \in {"exact", "startswith"} => i = 1
           /\ mode \in {"exact", "endswith"} => k = Len(value)
           /\ i <= k + 1 /\ Means(pattern, SubSeq(value, i, k))
    BY <1>4 DEF MeansIn
  <2> DEFINE b == k + 1
  <2>2. i \in 1..End(value) /\ b \in 1..End(value) /\ b - 1 = k
    BY <1>2
  <2>3. Means(pattern, Part(i, b)) /\ i <= b
    BY <2>1, <2>2
  <2>4. mode \in {"exact", "endswith"} => b = End(value)
    BY <1>2, <2>1
  <2> HIDE DEF b, Part, tokens
  <2>5. Stands(value, tokens, i, b)
    BY <1>3, <2>2, <2>3
  <2>6. QED
    BY <2>1, <2>2, <2>4, <2>5
<1>5. ASSUME NEW a \in 1..End(value), NEW b \in 1..End(value),
             mode \in {"exact", "startswith"} => a = 1,
             mode \in {"exact", "endswith"} => b = End(value),
             Stands(value, tokens, a, b)
      PROVE  MeansIn(value, pattern, mode)
  <2> DEFINE k == b - 1
  <2>1. /\ a \in 1..(Len(value) + 1) /\ k \in 0..Len(value) /\ k + 1 = b
        /\ mode \in {"exact", "endswith"} => k = Len(value)
    BY <1>2, <1>5
  <2>2. a <= b /\ Means(pattern, SubSeq(value, a, k))
    BY <1>3, <1>5
  <2> HIDE DEF k
  <2>3. QED
    BY <1>5, <2>1, <2>2 DEF MeansIn
<1>6. QED
  BY <1>4, <1>5

\* For every pattern, value and mode, the tokens of pattern_tokens match the value exactly when
\* the pattern means all of it, its beginning, its end or a part of it, as the mode asks.
THEOREM ModesMean ==
    ASSUME NEW Chars, NEW value \in Seq(Chars), NEW pattern \in Seq(Chars), NEW mode \in Modes
    PROVE  Fits(value, pattern_tokens(pattern, mode), 1, 1) <=> MeansIn(value, pattern, mode)
<1> DEFINE star   == AnyText
           tokens == Tokens(pattern)
           all    == pattern_tokens(pattern, mode)
           more   == Append(tokens, star)
           end    == End(value)
<1>1. tokens \in Seq(Token(Chars)) /\ star \in Token(Chars) /\ star.is = "*"
  BY TokensType, ModeTokens
<1>2. /\ mode = "exact" => all = tokens
      /\ mode = "endswith" => all = <<star>> \o tokens
      /\ mode = "startswith" => all = more
      /\ mode = "contains" => all = <<star>> \o more
  BY ModeTokens
<1>3. more \in Seq(Token(Chars))
  BY <1>1
<1>4. MeansIn(value, pattern, mode) <=>
          \E a, b \in 1..end :
             /\ mode \in {"exact", "startswith"} => a = 1
             /\ mode \in {"exact", "endswith"} => b = end
             /\ Stands(value, tokens, a, b)
  BY MeansStands
<1>5. 1 \in 1..end /\ end \in 1..end
  BY DEF End
<1> HIDE DEF star, tokens, all, more, end
<1>6. \A a : Fits(value, tokens, a, 1) <=> Stands(value, tokens, a, end)
  BY WholeStands DEF end
<1>7. \A a \in 1..end : Fits(value, more, a, 1) <=> \E b \in 1..end : Stands(value, tokens, a, b)
  BY <1>1, LastStar DEF end, more
<1>8. \A rest \in Seq(Token(Chars)) :
          Fits(value, <<star>> \o rest, 1, 1) <=> \E a \in 1..end : Fits(value, rest, a, 1)
  <2> SUFFICES ASSUME NEW rest \in Seq(Token(Chars))
               PROVE  Fits(value, <<star>> \o rest, 1, 1)
                         <=> \E a \in 1..end : Fits(value, rest, a, 1)
    OBVIOUS
  <2>1. 1 \in 1..End(value)
    BY <1>5 DEF end
  <2>2. QED
    BY <1>1, <2>1, FirstFits DEF end
<1>9. CASE mode = "exact"
  <2>1. MeansIn(value, pattern, mode) <=> Stands(value, tokens, 1, end)
    BY <1>4, <1>5, <1>9
  <2>2. QED
    BY <1>2, <1>6, <1>9, <2>1 DEF all
<1>10. CASE mode = "endswith"
  <2>1. MeansIn(value, pattern, mode) <=> \E a \in 1..end : Stands(value, tokens, a, end)
    BY <1>4, <1>5, <1>10
  <2>2. QED
    BY <1>1, <1>2, <1>6, <1>8, <1>10, <2>1 DEF all
<1>11. CASE mode = "startswith"
  <2>1. MeansIn(value, pattern, mode) <=> \E b \in 1..end : Stands(value, tokens, 1, b)
    BY <1>4, <1>5, <1>11
  <2>2. QED
    BY <1>2, <1>5, <1>7, <1>11, <2>1 DEF all
<1>12. CASE mode = "contains"
  <2>1. MeansIn(value, pattern, mode) <=> \E a \in 1..end : \E b \in 1..end : Stands(value, tokens, a, b)
    BY <1>4, <1>12
  <2>2. QED
    BY <1>2, <1>3, <1>7, <1>8, <1>12, <2>1 DEF all
<1>13. QED
  BY <1>9, <1>10, <1>11, <1>12 DEF Modes, all

\* The tokens of a pattern with a mode: at most two more than the pattern has characters.
LEMMA ModeTokensType ==
    ASSUME NEW Chars, NEW pattern \in Seq(Chars), NEW mode \in Modes
    PROVE  /\ pattern_tokens(pattern, mode) \in Seq(Token(Chars))
           /\ Len(pattern_tokens(pattern, mode)) <= Len(pattern) + 2
<1> DEFINE star   == AnyText
           tokens == Tokens(pattern)
           all    == pattern_tokens(pattern, mode)
<1>1. /\ tokens \in Seq(Token(Chars)) /\ star \in Token(Chars)
      /\ Len(tokens) <= Len(pattern) /\ Len(pattern) \in Nat
  BY TokensType, ModeTokens
<1>2. all \in {tokens, <<star>> \o tokens, Append(tokens, star), <<star>> \o Append(tokens, star)}
  BY ModeTokens DEF Modes
<1> HIDE DEF star, tokens
<1> DEFINE Good(s) == s \in Seq(Token(Chars)) /\ Len(s) <= Len(pattern) + 2
<1>3. Good(tokens) /\ Good(<<star>> \o tokens)
  BY <1>1
<1>4. Good(Append(tokens, star))
  BY <1>1
<1>5. Good(<<star>> \o Append(tokens, star))
  <2> DEFINE more == Append(tokens, star)
  <2>1. more \in Seq(Token(Chars)) /\ Len(more) = Len(tokens) + 1
    BY <1>1
  <2> HIDE DEF more
  <2>2. Good(<<star>> \o more)
    BY <1>1, <2>1
  <2>3. QED
    BY <2>2 DEF more
<1>6. Good(all)
  <2> HIDE DEF Good, all
  <2>1. QED
    BY <1>2, <1>3, <1>4, <1>5
<1>7. QED
  BY <1>6

\* For every value, pattern and mode, where the loops of wildcard return they answer whether the
\* pattern, read character by character, means the value as the mode asks: no escape, wildcard
\* or mode is lost between the rule's text and the answer.
THEOREM WildcardExact ==
    ASSUME NEW Chars, NEW value \in Seq(Chars), NEW pattern \in Seq(Chars), NEW mode \in Modes,
           NEW n \in Nat \ {0}, NEW run,
           IsRun(value, pattern_tokens(pattern, mode), run, n),
           Returns(value, pattern_tokens(pattern, mode), run[n])
    PROVE  Matched(value, pattern_tokens(pattern, mode), run[n]) <=> MeansIn(value, pattern, mode)
<1>1. pattern_tokens(pattern, mode) \in Seq(Token(Chars))
  BY ModeTokensType
<1>2. Matched(value, pattern_tokens(pattern, mode), run[n])
          <=> Fits(value, pattern_tokens(pattern, mode), 1, 1)
  BY <1>1, MatcherExact
<1>3. QED
  BY <1>2, ModesMean

\* For every value, pattern and mode, wildcard goes through at most (text + 1) x (pattern + 3)
\* places: it is bounded by text times pattern, as its comment says.
THEOREM WildcardBounded ==
    ASSUME NEW Chars, NEW value \in Seq(Chars), NEW pattern \in Seq(Chars), NEW mode \in Modes,
           NEW n \in Nat \ {0}, NEW run, IsRun(value, pattern_tokens(pattern, mode), run, n)
    PROVE  n <= (Len(value) + 1) * (Len(pattern) + 3)
<1> DEFINE tokens == pattern_tokens(pattern, mode)
           height == Len(value) + 1
           width  == Len(tokens) + 1
           most   == Len(pattern) + 3
<1>1. tokens \in Seq(Token(Chars)) /\ Len(tokens) <= Len(pattern) + 2
  BY ModeTokensType
<1>2. n <= height * width
  BY <1>1, MatcherBounded
<1>3. height \in Nat /\ width \in Nat /\ most \in Nat /\ width <= most
  BY <1>1
<1> HIDE DEF height, width, most
<1>4. height * width <= height * most /\ height * width \in Nat /\ height * most \in Nat
  BY <1>3
<1> DEFINE low  == height * width
           high == height * most
<1>5. n <= low /\ low <= high /\ low \in Nat /\ high \in Nat
  BY <1>2, <1>4
<1> HIDE DEF low, high
<1>6. n <= high
  BY <1>5
<1>7. QED
  BY <1>6 DEF high, height, most
=============================================================================
