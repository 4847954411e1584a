--------------------------- MODULE Correlation_proofs ---------------------------
(***************************************************************************)
(* Theorems about sliding and sequence rules for any events, rules, groups *)
(* and limits.  The alerts are a function of the points: those of all the  *)
(* anchors that reached their threshold.  A batch keeps it so, because it  *)
(* evaluates every anchor whose first stage it touches, and the others     *)
(* have the points they had.                                               *)
(***************************************************************************)
EXTENDS Correlation, TLAPS, FiniteSetTheorems

\* A point is what its revision makes of a processed event.
Derived ==
    \A p \in points :
        /\ p.revision \in Revisions /\ p.id \in processed
        /\ p = PointOf(p.revision, p.id) /\ (p.first \/ p.last)

\* The alerts that points call for.
Due(P) == {AlertOf(P, a) : a \in {p \in P : p.last /\ Reached(P, p)}}

IInv == TypeOK /\ IsFiniteSet(points) /\ Derived /\ alerts = Due(points)

-----------------------------------------------------------------------------
(* Sets *)

\* The image of a finite set is finite and no larger.
LEMMA Image ==
    ASSUME NEW S, IsFiniteSet(S), NEW f, DOMAIN f = S, f = [x \in S |-> f[x]]
    PROVE  /\ IsFiniteSet({f[x] : x \in S}) /\ Cardinality({f[x] : x \in S}) <= Cardinality(S)
           /\ (\A x, y \in S : f[x] = f[y] => x = y) => Cardinality({f[x] : x \in S}) = Cardinality(S)
<1> DEFINE T == {f[x] : x \in S}
<1>1. f \in Surjection(S, T)
  BY DEF Surjection
<1>2. (\A x, y \in S : f[x] = f[y] => x = y) => f \in Injection(S, T)
  BY DEF Injection, IsInjective
<1> HIDE DEF T
<1>3. IsFiniteSet(T) /\ Cardinality(T) <= Cardinality(S)
  BY <1>1, FS_Surjection
<1>4. Cardinality(T) = Cardinality(S) <=> f \in Injection(S, T)
  BY <1>1, FS_Surjection
<1>5. QED
  BY <1>2, <1>3, <1>4 DEF T

\* What several points count, and how many.
LEMMA ValuesGrow ==
    ASSUME NEW S, NEW T, IsFiniteSet(T), S \subseteq T
    PROVE  /\ Cardinality({p.value : p \in S}) \in Nat /\ Cardinality({p.value : p \in T}) \in Nat
           /\ Cardinality({p.value : p \in S}) <= Cardinality({p.value : p \in T})
<1> DEFINE f == [p \in T |-> p.value]
           V == {f[p] : p \in T}
           W == {p.value : p \in S}
<1>1. V = {p.value : p \in T} /\ W \in SUBSET V
  OBVIOUS
<1>2. IsFiniteSet(V)
  <2>1. DOMAIN f = T /\ f = [p \in T |-> f[p]]
    OBVIOUS
  <2> HIDE DEF f
  <2>2. QED
    BY <2>1, Image
<1> HIDE DEF V, W
<1>3. IsFiniteSet(W) /\ Cardinality(W) <= Cardinality(V)
  BY <1>1, <1>2, FS_Subset
<1>4. Cardinality(W) \in Nat /\ Cardinality(V) \in Nat
  BY <1>2, <1>3, FS_CardinalityType
<1>5. QED
  BY <1>1, <1>3, <1>4 DEF W

-----------------------------------------------------------------------------
(* Points *)

\* The definition of a revision.
LEMMA RuleHas ==
    ASSUME NEW v \in Revisions
    PROVE  /\ Definition[v] \in Rule /\ Definition[v].mode \in {"sliding", "sequence"}
           /\ Definition[v].window \in Nat \ {0} /\ Definition[v].threshold \in Nat \ {0}
           /\ Definition[v].group \in [Attributes -> Groups]
           /\ Definition[v].distinct # None => Definition[v].distinct \in [Attributes -> Values]
BY CorrelationAssumption DEF Rule

LEMMA PointIs ==
    ASSUME normalized \in [Ids -> Event], NEW v \in Revisions, NEW i \in Ids
    PROVE  PointOf(v, i) \in Point /\ PointOf(v, i).revision = v /\ PointOf(v, i).id = i
<1> DEFINE e == normalized[i]
<1>1. e \in Event /\ e.attr \in Attributes /\ e.time \in Nat
  BY DEF Event
<1> HIDE DEF e
<1>2. Definition[v].group[e.attr] \in Groups
  BY <1>1, RuleHas
<1>3. IsFirst(v, e) \in BOOLEAN /\ IsLast(v, e) \in BOOLEAN
  BY DEF IsFirst, IsLast
<1> DEFINE value == IF Definition[v].distinct = None THEN i ELSE Definition[v].distinct[e.attr]
<1>4. value \in Values \cup Ids
  BY <1>1, RuleHas
<1> HIDE DEF value
<1>5. PointOf(v, i) = [revision |-> v, id |-> i, group |-> Definition[v].group[e.attr], time |-> e.time,
                       first |-> IsFirst(v, e), last |-> IsLast(v, e), value |-> value]
  BY DEF PointOf, e, value
<1>6. QED
  BY <1>1, <1>2, <1>3, <1>4, <1>5 DEF Point

\* A revision has one point of an event.
LEMMA PointOnce ==
    ASSUME NEW P, \A p \in P : p = PointOf(p.revision, p.id),
           NEW p \in P, NEW q \in P, p.revision = q.revision, p.id = q.id
    PROVE  p = q
OBVIOUS

\* Points of the batch.
LEMMA InsertedHas ==
    ASSUME IInv, NEW batch \in SUBSET Ids, IsFiniteSet(batch)
    PROVE  LET new == Inserted(batch)
           IN  /\ new \subseteq Point /\ IsFiniteSet(new)
               /\ \A p \in new : /\ p.revision \in Revisions /\ p.id \in batch
                                 /\ p = PointOf(p.revision, p.id) /\ (p.first \/ p.last)
<1> DEFINE new == Inserted(batch)
           pairs == effective \X batch
           point == [x \in pairs |-> PointOf(x[1], x[2])]
           all == {point[x] : x \in pairs}
<1>1. effective \subseteq Revisions /\ normalized \in [Ids -> Event] /\ IsFiniteSet(effective)
  BY CorrelationAssumption, FS_Subset DEF IInv, TypeOK
<1>2. \A p \in new : /\ \E v \in effective, i \in batch : p = PointOf(v, i)
                     /\ p.first \/ p.last
  BY DEF Inserted
<1>3. IsFiniteSet(pairs)
  BY <1>1, FS_Product
<1>4. IsFiniteSet(all)
  <2>1. DOMAIN point = pairs /\ point = [x \in pairs |-> point[x]]
    OBVIOUS
  <2> HIDE DEF point, pairs
  <2>2. QED
    BY <1>3, <2>1, Image
<1>5. new \in SUBSET all
  <2>1. ASSUME NEW v \in effective, NEW i \in batch PROVE PointOf(v, i) \in all
    <3>1. <<v, i>> \in pairs /\ point[<<v, i>>] = PointOf(v, i)
      OBVIOUS
    <3> HIDE DEF point, pairs
    <3>2. QED
      BY <3>1
  <2> HIDE DEF all
  <2>2. QED
    BY <1>2, <2>1
<1>6. IsFiniteSet(new)
  <2> HIDE DEF new, all
  <2> QED BY <1>4, <1>5, FS_Subset
<1> HIDE DEF new
<1>7. ASSUME NEW p \in new
      PROVE  /\ p \in Point /\ p.revision \in Revisions /\ p.id \in batch
             /\ p = PointOf(p.revision, p.id) /\ (p.first \/ p.last)
  <2>1. PICK v \in effective, i \in batch : p = PointOf(v, i)
    BY <1>2
  <2>2. p \in Point /\ p.revision = v /\ p.id = i
    BY <1>1, <2>1, PointIs
  <2>3. QED
    BY <1>1, <1>2, <2>1, <2>2
<1>8. QED
  BY <1>6, <1>7 DEF new

-----------------------------------------------------------------------------
(* Alerts *)

\* What precedes an anchor in a larger set, and its threshold.
LEMMA ReachedStays ==
    ASSUME NEW P, NEW new, IsFiniteSet(P \cup new), NEW a, a.revision \in Revisions
    PROVE  /\ Preceding(P \cup new, a) = Preceding(P, a) \cup Preceding(new, a)
           /\ Reached(P, a) => Reached(P \cup new, a)
<1>1. /\ Preceding(P \cup new, a) = Preceding(P, a) \cup Preceding(new, a)
      /\ Preceding(P \cup new, a) \in SUBSET (P \cup new)
  BY DEF Preceding, InGroup
<1>2. IsFiniteSet(Preceding(P \cup new, a)) /\ Preceding(P, a) \subseteq Preceding(P \cup new, a)
  BY <1>1, FS_Subset
<1>3. Definition[a.revision].threshold \in Nat
  BY RuleHas
<1> DEFINE few  == Cardinality({p.value : p \in Preceding(P, a)})
           many == Cardinality({p.value : p \in Preceding(P \cup new, a)})
<1>4. few \in Nat /\ many \in Nat /\ few <= many
  BY <1>2, ValuesGrow
<1>5. /\ Reached(P, a) <=> few >= Definition[a.revision].threshold
      /\ Reached(P \cup new, a) <=> many >= Definition[a.revision].threshold
  BY DEF Reached
<1> HIDE DEF few, many
<1>6. QED
  BY <1>1, <1>3, <1>4, <1>5

\* An alert names its anchor.
LEMMA AlertNames ==
    ASSUME NEW P, NEW a
    PROVE  AlertOf(P, a).revision = a.revision /\ AlertOf(P, a).anchor = a.id
BY DEF AlertOf

\* The alerts of the anchors that a batch touches replace theirs, and then all
\* alerts are those that the points call for.
LEMMA DueKept ==
    ASSUME NEW P, NEW new, IsFiniteSet(P \cup new), alerts = Due(P),
           \A p \in P \cup new : p.revision \in Revisions /\ p = PointOf(p.revision, p.id)
    PROVE  Upsert({AlertOf(P \cup new, a) :
               a \in {p \in P \cup new : p.last /\ Affected(new, p) /\ Reached(P \cup new, p)}})
               = Due(P \cup new)
<1> DEFINE Q    == P \cup new
           some == {p \in Q : p.last /\ Affected(new, p) /\ Reached(Q, p)}
           put  == {AlertOf(Q, a) : a \in some}
           all  == {p \in Q : p.last /\ Reached(Q, p)}
<1>1. ASSUME NEW a \in Q, ~ Affected(new, a)
      PROVE  /\ a \in P /\ AlertOf(Q, a) = AlertOf(P, a)
             /\ Reached(Q, a) <=> Reached(P, a)
  <2>1. a \in P /\ Preceding(new, a) = {}
    BY <1>1 DEF Affected
  <2>2. Preceding(Q, a) = Preceding(P, a)
    BY <2>1 DEF Preceding, InGroup
  <2> HIDE DEF Q
  <2>3. QED
    BY <2>1, <2>2 DEF AlertOf, Reached
<1>2. ASSUME NEW x \in alerts
      PROVE  \E a \in P : a \in all /\ x = AlertOf(P, a)
  <2>1. PICK a \in P : a.last /\ Reached(P, a) /\ x = AlertOf(P, a)
    BY DEF Due
  <2>2. Reached(Q, a)
    BY <2>1, ReachedStays
  <2>3. QED
    BY <2>1, <2>2
<1>3. ASSUME NEW x \in Upsert(put) PROVE x \in Due(Q)
  <2>1. CASE x \in put
    BY <2>1 DEF Due
  <2>2. CASE x \in alerts /\ ~ \E b \in put : b.revision = x.revision /\ b.anchor = x.anchor
    <3>1. PICK a \in P : a \in all /\ x = AlertOf(P, a)
      BY <1>2, <2>2
    <3>2. AlertOf(Q, a).revision = x.revision /\ AlertOf(Q, a).anchor = x.anchor
      BY <3>1, AlertNames
    <3>3. AlertOf(Q, a) \notin put
      BY <2>2, <3>2
    <3>4. ~ Affected(new, a)
      BY <3>1, <3>3
    <3>5. x = AlertOf(Q, a)
      BY <1>1, <3>1, <3>4
    <3>6. QED
      BY <3>1, <3>5 DEF Due
  <2>3. QED
    BY <2>1, <2>2 DEF Upsert
<1>4. ASSUME NEW a \in all PROVE AlertOf(Q, a) \in Upsert(put)
  <2>1. CASE Affected(new, a)
    BY <1>4, <2>1 DEF Upsert
  <2>2. CASE ~ Affected(new, a)
    <3>1. a \in P /\ AlertOf(Q, a) = AlertOf(P, a) /\ Reached(P, a) /\ a.last
      BY <1>1, <1>4, <2>2
    <3>2. AlertOf(Q, a) \in alerts
      BY <3>1 DEF Due
    <3>3. ASSUME NEW b \in put, b.revision = AlertOf(Q, a).revision, b.anchor = AlertOf(Q, a).anchor
          PROVE  FALSE
      <4>1. PICK c \in some : b = AlertOf(Q, c)
        OBVIOUS
      <4>2. c \in Q /\ a \in Q /\ c.revision = a.revision /\ c.id = a.id /\ Affected(new, c)
        BY <3>3, <4>1, AlertNames
      <4>3. c = a
        BY <4>2, PointOnce
      <4>4. QED
        BY <2>2, <4>2, <4>3
    <3>4. QED
      BY <3>2, <3>3 DEF Upsert
  <2>3. QED
    BY <2>1, <2>2
<1>5. Upsert(put) = Due(Q)
  <2>1. \A x \in Due(Q) : \E a \in all : x = AlertOf(Q, a)
    BY DEF Due
  <2> HIDE DEF Q, put, all
  <2>2. QED
    BY <1>3, <1>4, <2>1
<1>6. QED
  BY <1>5

\* An alert of a point is an alert.
LEMMA AlertIs ==
    ASSUME NEW P, P \subseteq Point, NEW a \in P
    PROVE  AlertOf(P, a) \in Alert
<1> DEFINE evidence == {p.id : p \in Earliest(Preceding(P, a), EvidenceLimit - 1)} \cup {a.id}
<1>1. Earliest(Preceding(P, a), EvidenceLimit - 1) \subseteq P
  BY DEF Earliest, Preceding, InGroup
<1>2. \A p \in P : p.id \in Ids /\ p.revision \in Revisions /\ p.group \in Groups
  BY DEF Point
<1>3. evidence \in SUBSET Ids
  BY <1>1, <1>2
<1>4. AlertOf(P, a) = [revision |-> a.revision, group |-> a.group, anchor |-> a.id, evidence |-> evidence]
  BY DEF AlertOf
<1> HIDE DEF evidence
<1>5. QED
  BY <1>2, <1>3, <1>4 DEF Alert

-----------------------------------------------------------------------------
(* The invariant *)

LEMMA InitInv == Init => IInv
<1> SUFFICES ASSUME Init PROVE IInv
  OBVIOUS
<1>1. IsFiniteSet(points) /\ Due(points) = {}
  BY FS_EmptySet DEF Init, Due
<1>2. QED
  BY <1>1, CorrelationAssumption DEF Init, IInv, TypeOK, Derived

LEMMA DetectKeeps ==
    ASSUME IInv, NEW batch \in SUBSET (Ids \ processed), detect(batch)
    PROVE  IInv'
<1> DEFINE new == Inserted(batch)
           Q   == points \cup new
<1>1. /\ Fits(new) /\ points' = Q
      /\ alerts' = Upsert({AlertOf(Q, a) : a \in {p \in Q : p.last /\ Affected(new, p) /\ Reached(Q, p)}})
      /\ processed' = processed \cup batch /\ normalized' = normalized /\ effective' = effective
  BY DEF detect, evaluate
<1>2. batch \in SUBSET Ids /\ IsFiniteSet(batch)
  BY CorrelationAssumption, FS_Subset
<1>3. /\ new \subseteq Point /\ IsFiniteSet(new)
      /\ \A p \in new : /\ p.revision \in Revisions /\ p.id \in batch
                        /\ p = PointOf(p.revision, p.id) /\ (p.first \/ p.last)
  BY <1>2, InsertedHas
<1> HIDE DEF new
<1>4. IsFiniteSet(Q)
  BY <1>3, FS_Union DEF IInv
<1>5. \A p \in Q : /\ p.revision \in Revisions /\ p.id \in processed'
                   /\ p = PointOf(p.revision, p.id) /\ (p.first \/ p.last)
  BY <1>1, <1>3 DEF IInv, Derived
<1>6. alerts' = Due(Q)
  BY <1>1, <1>4, <1>5, DueKept DEF IInv
<1>7. Derived'
  <2>1. \A v, i : PointOf(v, i)' = PointOf(v, i)
    BY <1>1 DEF PointOf, IsFirst, IsLast
  <2>2. QED
    BY <1>1, <1>5, <2>1 DEF Derived
<1>8. Due(points)' = Due(Q)
  BY <1>1 DEF Due, Reached, AlertOf, Preceding, InGroup
<1>9. TypeOK'
  <2>1. Q \subseteq Point
    BY <1>3 DEF IInv, TypeOK
  <2>2. alerts' \subseteq Alert
    <3>1. \A a \in Q : AlertOf(Q, a) \in Alert
      BY <2>1, AlertIs
    <3>2. QED
      BY <1>6, <3>1 DEF Due
  <2>3. ASSUME NEW p \in Q PROVE Cardinality(InGroup(Q, p)) <= MaxGroup
    <3>1. CASE \E q \in new : q.revision = p.revision /\ q.group = p.group
      <4>1. PICK q \in new : q.revision = p.revision /\ q.group = p.group
        BY <3>1
      <4>2. InGroup(Q, q) = InGroup(Q, p)
        BY <4>1 DEF InGroup
      <4>3. Cardinality(InGroup(Q, q)) <= MaxGroup
        BY <1>1 DEF Fits
      <4>4. QED
        BY <4>2, <4>3
    <3>2. CASE ~ \E q \in new : q.revision = p.revision /\ q.group = p.group
      <4>1. p \in points
        BY <2>3, <3>2
      <4>2. InGroup(Q, p) = InGroup(points, p)
        BY <3>2 DEF InGroup
      <4>3. QED
        BY <4>1, <4>2 DEF IInv, TypeOK
    <3>3. QED
      BY <3>1, <3>2
  <2>4. \A P, p : InGroup(P, p)' = InGroup(P, p)
    BY DEF InGroup
  <2>5. \A p \in points' : Cardinality(InGroup(points, p)') <= MaxGroup
    BY <1>1, <2>3 DEF InGroup
  <2>6. QED
    BY <1>1, <1>2, <2>1, <2>2, <2>5 DEF IInv, TypeOK
<1>10. QED
  BY <1>1, <1>4, <1>6, <1>7, <1>8, <1>9 DEF IInv

\* Every step keeps the invariant.
LEMMA StepInv == IInv /\ [Next]_vars => IInv'
<1> SUFFICES ASSUME IInv, [Next]_vars PROVE IInv'
  OBVIOUS
<1>1. ASSUME NEW R \in SUBSET Revisions, configure(R) PROVE IInv'
  <2>1. /\ effective' = R /\ normalized' = normalized /\ processed' = processed
        /\ points' = points /\ alerts' = alerts
    BY <1>1 DEF configure
  <2>2. QED
    BY <2>1 DEF IInv, TypeOK, Derived, Due, PointOf, IsFirst, IsLast, Reached, AlertOf, Preceding, InGroup
<1>2. ASSUME NEW batch \in SUBSET (Ids \ processed) \ {{}}, detect(batch) PROVE IInv'
  BY <1>2, DetectKeeps
<1>3. CASE UNCHANGED vars
  BY <1>3 DEF vars, IInv, TypeOK, Derived, Due, PointOf, IsFirst, IsLast, Reached, AlertOf, Preceding, InGroup
<1>4. QED
  BY <1>1, <1>2, <1>3 DEF Next

LEMMA Inductive == Spec => []IInv
<1>1. Init => IInv
  BY InitInv
<1>2. IInv /\ [Next]_vars => IInv'
  BY StepInv
<1>3. QED
  BY <1>1, <1>2, PTL DEF Spec

-----------------------------------------------------------------------------
\* Every variable keeps its type, no group holds more points than it may, and
\* alerts name revisions, groups and events that exist.
THEOREM TypeCorrect == Spec => []TypeOK
<1>1. IInv => TypeOK
  BY DEF IInv
<1>2. QED
  BY <1>1, Inductive, PTL

-----------------------------------------------------------------------------
(* Alerts and the events that support them *)

\* An anchor is supported by what precedes it.
LEMMA SupportsPrecede ==
    ASSUME IInv, NEW a \in points
    PROVE  Supports(a) = Preceding(points, a) /\ (Suspicious(a) <=> a.last /\ Reached(points, a))
<1>1. a \in Point /\ a.revision \in Revisions /\ a.time \in Int
  BY DEF IInv, TypeOK, Point
<1> DEFINE rule == Definition[a.revision]
<1>2. rule.window \in Int /\ rule.threshold \in Nat
  BY <1>1, RuleHas
<1>3. ASSUME NEW p \in points
      PROVE  Distance(p, a) \in (IF rule.mode = "sequence" THEN 1 ELSE 0) .. rule.window - 1
                <=> /\ a.time - rule.window < p.time
                    /\ IF rule.mode = "sequence" THEN p.time < a.time ELSE p.time <= a.time
  <2>1. p.time \in Int
    BY DEF IInv, TypeOK, Point
  <2> HIDE DEF rule
  <2>2. CASE rule.mode = "sequence"
    BY <1>1, <1>2, <2>1, <2>2 DEF Distance
  <2>3. CASE rule.mode # "sequence"
    BY <1>1, <1>2, <2>1, <2>3 DEF Distance
  <2>4. QED
    BY <2>2, <2>3
<1>4. Supports(a) = Preceding(points, a)
  BY <1>3 DEF Supports, Preceding, InGroup
<1>5. QED
  BY <1>4 DEF Suspicious, Reached

\* The suspicious points have an alert each, and no alert has another anchor.
LEMMA OneAlert == IInv => OneAlertPerAnchor
<1> SUFFICES ASSUME IInv PROVE OneAlertPerAnchor
  OBVIOUS
<1>1. \A p, q \in points : p.revision = q.revision /\ p.id = q.id => p = q
  BY PointOnce DEF IInv, Derived
<1>2. \A p \in points : Suspicious(p) <=> p.last /\ Reached(points, p)
  BY SupportsPrecede
<1>3. \A a \in alerts : \E p \in points :
          p.last /\ Reached(points, p) /\ a = AlertOf(points, p)
  BY DEF IInv, Due
<1>4. \A p \in points : p.last /\ Reached(points, p) => AlertOf(points, p) \in alerts
  BY DEF IInv, Due
<1>5. \A p \in points : AlertOf(points, p).revision = p.revision /\ AlertOf(points, p).anchor = p.id
  BY AlertNames
<1>6. ASSUME NEW p \in points
      PROVE  Suspicious(p) <=> \E a \in alerts : a.revision = p.revision /\ a.anchor = p.id
  BY <1>1, <1>2, <1>3, <1>4, <1>5
<1>7. \A a, b \in alerts : a.revision = b.revision /\ a.anchor = b.anchor => a = b
  BY <1>1, <1>3, <1>5
<1>8. \A a \in alerts : \E p \in points : p.revision = a.revision /\ p.id = a.anchor
  BY <1>3, <1>5
<1>9. QED
  BY <1>6, <1>7, <1>8 DEF OneAlertPerAnchor

-----------------------------------------------------------------------------
(* The earliest points *)

\* Points of a finite set come in an order without gaps: the first n are n of them,
\* or all, and the others come after them.
LEMMA EarliestAre ==
    ASSUME NEW S, IsFiniteSet(S), \A p \in S : p.time \in Int /\ p.id \in Int,
           \A p, q \in S : p.id = q.id => p = q, NEW n \in Nat
    PROVE  /\ Earliest(S, n) \subseteq S /\ IsFiniteSet(Earliest(S, n))
           /\ Cardinality(Earliest(S, n)) <= n
           /\ Earliest(S, n) = S \/ Cardinality(Earliest(S, n)) = n
           /\ \A q \in Earliest(S, n), r \in S \ Earliest(S, n) : Before(q, r)
<1> DEFINE earlier(p) == {q \in S : Before(q, p)}
           rank == [p \in S |-> Cardinality(earlier(p))]
           E    == Earliest(S, n)
           size == Cardinality(S)
<1>1. \A p \in S : ~ Before(p, p)
  BY DEF Before
<1>2. \A p, q, r \in S : Before(p, q) /\ Before(q, r) => Before(p, r)
  BY DEF Before
<1>3. \A p, q \in S : Before(p, q) \/ Before(q, p) \/ p = q
  BY DEF Before
<1>4. size \in Nat
  BY FS_CardinalityType
<1>5. \A p \in S : IsFiniteSet(earlier(p)) /\ rank[p] \in 0 .. size - 1 /\ rank[p] = Cardinality(earlier(p))
  <2> SUFFICES ASSUME NEW p \in S
               PROVE  IsFiniteSet(earlier(p)) /\ rank[p] \in 0 .. size - 1 /\ rank[p] = Cardinality(earlier(p))
    OBVIOUS
  <2>1. earlier(p) \in SUBSET S /\ earlier(p) # S /\ rank[p] = Cardinality(earlier(p))
    BY <1>1
  <2> HIDE DEF earlier, rank
  <2>2. /\ IsFiniteSet(earlier(p)) /\ Cardinality(earlier(p)) <= size
        /\ Cardinality(earlier(p)) # size
    BY <2>1, FS_Subset
  <2>3. Cardinality(earlier(p)) \in Nat
    BY <2>2, FS_CardinalityType
  <2> HIDE DEF size
  <2>4. QED
    BY <1>4, <2>1, <2>2, <2>3
<1>6. \A p, q \in S : Before(p, q) => rank[p] < rank[q]
  <2> SUFFICES ASSUME NEW p \in S, NEW q \in S, Before(p, q) PROVE rank[p] < rank[q]
    OBVIOUS
  <2>1. earlier(p) \in SUBSET earlier(q) /\ earlier(p) # earlier(q)
    BY <1>1, <1>2
  <2> HIDE DEF earlier, rank
  <2>2. /\ Cardinality(earlier(p)) <= Cardinality(earlier(q))
        /\ Cardinality(earlier(p)) # Cardinality(earlier(q))
    BY <1>5, <2>1, FS_Subset
  <2>3. rank[p] \in Int /\ rank[q] \in Int /\ rank[p] = Cardinality(earlier(p)) /\ rank[q] = Cardinality(earlier(q))
    BY <1>4, <1>5
  <2>4. QED
    BY <2>2, <2>3
<1> HIDE DEF rank, earlier, size
<1>7. \A p \in S : rank[p] \in Int
  BY <1>4, <1>5
<1>8. \A p, q \in S : rank[p] = rank[q] => p = q
  BY <1>3, <1>6, <1>7
<1>9. E = {p \in S : rank[p] < n}
  BY DEF Earliest, rank, earlier
<1>10. DOMAIN rank = S /\ rank = [p \in S |-> rank[p]]
  BY DEF rank
<1> HIDE DEF E
<1>11. {rank[p] : p \in S} = 0 .. size - 1
  <2> DEFINE R == {rank[p] : p \in S}
  <2>1. Cardinality(R) = size
    BY <1>8, <1>10, Image DEF size
  <2>2. R \in SUBSET (0 .. size - 1)
    BY <1>5
  <2>3. IsFiniteSet(0 .. size - 1) /\ Cardinality(0 .. size - 1) = size
    BY <1>4, FS_Interval
  <2> HIDE DEF R
  <2>4. R = 0 .. size - 1
    BY <2>1, <2>2, <2>3, FS_Subset
  <2>5. QED
    BY <2>4 DEF R
<1>12. E \in SUBSET S
  BY <1>9
<1>13. IsFiniteSet(E)
  BY <1>12, FS_Subset
<1> DEFINE some == [p \in E |-> rank[p]]
           low  == {some[p] : p \in E}
<1>14. Cardinality(low) = Cardinality(E) /\ IsFiniteSet(low)
  <2>1. DOMAIN some = E /\ some = [p \in E |-> some[p]]
    OBVIOUS
  <2>2. \A p, q \in E : some[p] = some[q] => p = q
    BY <1>8, <1>12
  <2> HIDE DEF some
  <2>3. QED
    BY <1>13, <2>1, <2>2, Image
<1>15. low \in SUBSET (0 .. n - 1)
  <2>1. ASSUME NEW p \in E PROVE some[p] \in 0 .. n - 1
    <3>1. p \in S /\ some[p] = rank[p] /\ rank[p] < n /\ rank[p] \in 0 .. size - 1
      BY <1>5, <1>9
    <3>2. QED
      BY <1>4, <3>1
  <2> HIDE DEF some
  <2>2. QED
    BY <2>1
<1>16. IsFiniteSet(0 .. n - 1) /\ Cardinality(0 .. n - 1) = n
  BY FS_Interval
<1>17. Cardinality(E) <= n
  <2> HIDE DEF low
  <2>1. Cardinality(low) <= Cardinality(0 .. n - 1)
    BY <1>15, <1>16, FS_Subset
  <2>2. QED
    BY <1>14, <1>16, <2>1
<1>18. ASSUME E # S PROVE Cardinality(E) = n
  <2>1. PICK p \in S : p \notin E
    BY <1>12, <1>18
  <2>2. n <= rank[p] /\ rank[p] <= size - 1
    BY <1>4, <1>5, <1>7, <1>9, <2>1
  <2>3. ASSUME NEW k \in 0 .. n - 1 PROVE k \in low
    <3>1. k \in 0 .. size - 1
      BY <1>4, <1>7, <2>2
    <3>2. PICK q \in S : rank[q] = k
      BY <1>11, <3>1
    <3>3. q \in E
      BY <1>9, <3>2
    <3>4. QED
      BY <3>2, <3>3
  <2> HIDE DEF low
  <2>4. low = 0 .. n - 1
    BY <1>15, <2>3
  <2>5. QED
    BY <1>14, <1>16, <2>4
<1>19. ASSUME NEW q \in E, NEW r \in S \ E PROVE Before(q, r)
  <2>1. rank[q] < n /\ ~ (rank[r] < n) /\ q \in S /\ r \in S
    BY <1>9
  <2>2. ~ (rank[r] < rank[q]) /\ q # r
    BY <1>7, <2>1
  <2>3. QED
    BY <1>3, <1>6, <2>1, <2>2
<1>20. QED
  BY <1>12, <1>13, <1>17, <1>18, <1>19 DEF E

\* The evidence of an alert is that of its anchor, and one reference each.
LEMMA EvidenceCurrent == IInv => EvidenceIsCurrent
<1> SUFFICES ASSUME IInv, NEW a \in alerts, NEW p \in points, p.revision = a.revision, p.id = a.anchor
             PROVE  LET all  == {q.id : q \in Supports(p)}
                        kept == a.evidence \ {a.anchor}
                    IN  /\ a.anchor \in a.evidence
                        /\ kept \subseteq all
                        /\ Cardinality(a.evidence) <= EvidenceLimit
                        /\ \A q, r \in Supports(p) :
                              q.id \in kept /\ r.id \notin a.evidence => Before(q, r)
                        /\ all \subseteq a.evidence \/ Cardinality(a.evidence) >= EvidenceLimit - 1
  BY DEF EvidenceIsCurrent
<1> DEFINE S == Preceding(points, p)
           n == EvidenceLimit - 1
           E == Earliest(S, n)
           ids == {q.id : q \in E}
<1>1. \A q, r \in points : q.revision = r.revision /\ q.id = r.id => q = r
  BY PointOnce DEF IInv, Derived
<1>2. a = AlertOf(points, p)
  <2>1. PICK q \in points : a = AlertOf(points, q)
    BY DEF IInv, Due
  <2>2. QED
    BY <1>1, <2>1, AlertNames
<1>3. Supports(p) = S
  BY SupportsPrecede
<1>4. S \in SUBSET points /\ \A q \in S : q.revision = p.revision
  BY DEF Preceding, InGroup
<1>5. IsFiniteSet(S)
  BY <1>4, FS_Subset DEF IInv
<1>6. \A q \in S : q.time \in Int /\ q.id \in Int
  <2>1. \A q \in Point : q.time \in Nat /\ q.id \in Ids
    BY DEF Point
  <2>2. points \subseteq Point /\ Ids \subseteq Nat
    BY CorrelationAssumption DEF IInv, TypeOK
  <2> HIDE DEF S
  <2>3. ASSUME NEW q \in S PROVE q.time \in Int /\ q.id \in Int
    <3>1. q \in Point
      BY <1>4, <2>2
    <3>2. q.time \in Nat /\ q.id \in Nat
      BY <2>1, <2>2, <3>1
    <3>3. QED
      BY <3>2
  <2>4. QED
    BY <2>3
<1>7. \A q, r \in S : q.id = r.id => q = r
  BY <1>1, <1>4
<1>8. n \in Nat
  BY CorrelationAssumption
<1>9. a.evidence = ids \cup {a.anchor}
  BY <1>2, AlertNames DEF AlertOf
<1> HIDE DEF n, S
<1>10. /\ E \in SUBSET S /\ IsFiniteSet(E) /\ Cardinality(E) <= n
       /\ E = S \/ Cardinality(E) = n
       /\ \A q \in E, r \in S \ E : Before(q, r)
  BY <1>5, <1>6, <1>7, <1>8, EarliestAre
<1> HIDE DEF E
<1>11. IsFiniteSet(ids) /\ Cardinality(ids) = Cardinality(E)
  <2> DEFINE f == [q \in E |-> q.id]
  <2>1. DOMAIN f = E /\ f = [q \in E |-> f[q]] /\ ids = {f[q] : q \in E}
    OBVIOUS
  <2>2. \A q, r \in E : f[q] = f[r] => q = r
    BY <1>7, <1>10
  <2> HIDE DEF f, ids
  <2>3. QED
    BY <1>10, <2>1, <2>2, Image
<1>12. \A q \in S : q.id \in ids <=> q \in E
  BY <1>7, <1>10
<1>13. ids \subseteq {q.id : q \in S}
  BY <1>10
<1>14. E = S => ids = {q.id : q \in S}
  OBVIOUS
<1> HIDE DEF ids
<1>15. IsFiniteSet(a.evidence) /\ Cardinality(a.evidence) <= Cardinality(ids) + 1
  <2>1. a.evidence = IF a.anchor \in ids THEN ids ELSE ids \cup {a.anchor}
    BY <1>9
  <2>2. IsFiniteSet(ids \cup {a.anchor}) /\ Cardinality(ids) \in Nat
        /\ Cardinality(ids \cup {a.anchor}) =
               IF a.anchor \in ids THEN Cardinality(ids) ELSE Cardinality(ids) + 1
    BY <1>11, FS_AddElement, FS_CardinalityType
  <2>3. QED
    BY <1>9, <2>2
<1>16. Cardinality(ids) <= Cardinality(a.evidence) /\ Cardinality(ids) \in Nat /\ Cardinality(a.evidence) \in Nat
  BY <1>9, <1>11, <1>15, FS_Subset, FS_CardinalityType
<1>17. Cardinality(a.evidence) <= EvidenceLimit
  BY <1>10, <1>11, <1>15, <1>16, CorrelationAssumption DEF n
<1>18. {q.id : q \in S} \subseteq a.evidence \/ Cardinality(a.evidence) >= EvidenceLimit - 1
  <2>1. CASE E = S
    BY <1>9, <1>14, <2>1
  <2>2. CASE Cardinality(E) = n
    BY <1>11, <1>16, <2>2, CorrelationAssumption DEF n
  <2>3. QED
    BY <1>10, <2>1, <2>2
<1>19. \A q, r \in S : q.id \in a.evidence \ {a.anchor} /\ r.id \notin a.evidence => Before(q, r)
  BY <1>9, <1>10, <1>12
<1>20. QED
  BY <1>3, <1>9, <1>13, <1>17, <1>18, <1>19

\* Alerts are those of the suspicious anchors, one each, and show the first of the
\* events that support them: in whatever order and batches these arrived.
THEOREM AlertsExact == Spec => []WindowAlertsExact
<1>1. IInv => WindowAlertsExact
  BY OneAlert, EvidenceCurrent DEF WindowAlertsExact
<1>2. QED
  BY <1>1, Inductive, PTL
===============================================================================
