------------------------------ MODULE FixedRules ------------------------------
(***************************************************************************)
(* The fixed event-time bucket rules of nova/rules.py with the per-tenant  *)
(* settings of nova/enterprise.py.  The module holds the tables            *)
(* nova_rule_settings, rule_hits and alerts and the steps other modules    *)
(* compose: Evaluate runs inside the detector's transaction.               *)
(*                                                                         *)
(* A revision is the hash of a rule's content; here it is a model value    *)
(* and Definition gives the content.  The exact-match lists and the Sigma  *)
(* predicate of a rule are one set of events, "match".  Sliding and        *)
(* sequence rules keep their own tables and are not in this module.        *)
(***************************************************************************)
EXTENDS Integers, FiniteSets

CONSTANTS
    Tenants, Ids,
    Fields, Values,      \* normalized string fields and their values
    RuleIds, Revisions,
    Definition,          \* content of each revision
    EvidenceLimit,       \* event references kept in an alert (100)
    None

Events == [time : Nat, fields : [Fields -> Values]]

Rule == [id : RuleIds, enabled : BOOLEAN, match : SUBSET Events,
         window : Nat \ {0}, group_by : SUBSET Fields,
         distinct : Fields \cup {None}, threshold : Nat \ {0}]

ASSUME FixedRulesAssumption ==
    /\ Ids \subseteq Nat
    /\ IsFiniteSet(Revisions)
    /\ None \notin Fields
    /\ None \notin [enabled : BOOLEAN, revision : Revisions]
    /\ DOMAIN Definition = Revisions
    /\ \A v \in Revisions :
          /\ Definition[v].id \in RuleIds
          /\ Definition[v].enabled \in BOOLEAN
          /\ Definition[v].window \in Nat \ {0}
          /\ Definition[v].threshold \in Nat \ {0}
          /\ Definition[v].group_by \subseteq Fields
          /\ Definition[v].distinct \in Fields \cup {None}
    /\ EvidenceLimit \in Nat \ {0}

VARIABLES
    rules,      \* revisions installed in the rule directory, one per rule id
    settings,   \* tenant, rule id -> reviewed setting or None
    hits,       \* rule_hits
    alerts

ruleVars == <<rules, settings, hits, alerts>>

-----------------------------------------------------------------------------
Setting == [enabled : BOOLEAN, revision : Revisions]
Group   == Int \X UNION {[G -> Values] : G \in SUBSET Fields}
Hit     == [tenant : Tenants, revision : Revisions, id : Ids,
            group : Group, value : Values \cup Ids]
Alert   == [tenant : Tenants, revision : Revisions, group : Group,
            evidence : SUBSET Ids]

RulesTypeOK ==
    /\ IsFiniteSet(hits)
    /\ rules \in SUBSET Revisions
    /\ settings \in [Tenants \X RuleIds -> Setting \cup {None}]
    /\ hits \in SUBSET Hit
    /\ alerts \in SUBSET Alert

\* A rule directory holds at most one file per rule id, and at least one rule.
Installable(R) ==
    /\ R # {}
    /\ \A v, w \in R : Definition[v].id = Definition[w].id => v = w

-----------------------------------------------------------------------------
\* Mutant: the reviewed revision is not compared with the installed one.
EffectiveUnreviewed(t, v) ==
    LET s == settings[<<t, Definition[v].id>>]
    IN  IF s = None THEN Definition[v].enabled ELSE s.enabled

\* A tenant's setting replaces the package default, and only for the revision
\* that was reviewed: a stale setting leaves the rule disabled.
Effective(t, v) ==
    LET s == settings[<<t, Definition[v].id>>]
    IN  IF s = None THEN Definition[v].enabled
        ELSE s.enabled /\ s.revision = v

Matches(t, v, event) == Effective(t, v) /\ event \in Definition[v].match

\* The event-time bucket and the values of the grouping fields.
GroupOf(v, event) ==
    <<event.time \div Definition[v].window,
      [f \in Definition[v].group_by |-> event.fields[f]]>>

HitOf(v, row) ==
    [tenant |-> row.tenant, revision |-> v, id |-> row.id,
     group |-> GroupOf(v, row.event),
     value |-> IF Definition[v].distinct = None THEN row.id
               ELSE row.event.fields[Definition[v].distinct]]

SameHit(h, g) == h.tenant = g.tenant /\ h.revision = g.revision /\ h.id = g.id

InGroup(H, t, v, g) == {h \in H : h.tenant = t /\ h.revision = v /\ h.group = g}

Smallest(S, n) == {i \in S : Cardinality({j \in S : j < i}) < n}

\* The hits a set of rows produces under the rules effective for their tenants.
HitsOf(rows) ==
    {HitOf(p[2], p[1]) :
        p \in {q \in rows \X rules : Matches(q[1].tenant, q[2], q[1].event)}}

\* INSERT ... ON CONFLICT DO NOTHING on (tenant, revision, event).
HitsAfter(rows) ==
    hits \cup {h \in HitsOf(rows) : ~ \E g \in hits : SameHit(h, g)}

\* The distinct values of a group in H reach the threshold of its rule.
Reached(H, h) ==
    Cardinality({g.value : g \in InGroup(H, h.tenant, h.revision, h.group)})
        >= Definition[h.revision].threshold

\* Only the groups a batch touched are looked at again.
Crossed(H, rows) == {h \in HitsOf(rows) : Reached(H, h)}

AlertOf(H, h) ==
    [tenant |-> h.tenant, revision |-> h.revision, group |-> h.group,
     evidence |-> Smallest({g.id : g \in InGroup(H, h.tenant, h.revision, h.group)},
                           EvidenceLimit)]

SameAlert(a, b) ==
    a.tenant = b.tenant /\ a.revision = b.revision /\ a.group = b.group

\* The alert row of a group is inserted once and its evidence replaced later.
Upsert(A, new) == {a \in A : ~ \E b \in new : SameAlert(a, b)} \cup new

\* Mutant: the thresholds are read before the hits of this batch are inserted.
EvaluateBeforeInsert(rows) ==
    /\ hits' = HitsAfter(rows)
    /\ alerts' = Upsert(alerts, {AlertOf(hits, h) : h \in Crossed(hits, rows)})
    /\ UNCHANGED <<rules, settings>>

Evaluate(rows) ==
    /\ hits' = HitsAfter(rows)
    /\ alerts' = Upsert(alerts, {AlertOf(hits', h) : h \in Crossed(hits', rows)})
    /\ UNCHANGED <<rules, settings>>

-----------------------------------------------------------------------------
RulesInit ==
    /\ rules \in SUBSET Revisions
    /\ Installable(rules)
    /\ settings = [s \in Tenants \X RuleIds |-> None]
    /\ hits = {}
    /\ alerts = {}

\* An administrator reviews an installed rule; another revision is refused.
SetRule(t, v, enabled) ==
    /\ v \in rules
    /\ settings' = [settings EXCEPT ![<<t, Definition[v].id>>] =
                        [enabled |-> enabled, revision |-> v]]
    /\ UNCHANGED <<rules, hits, alerts>>

\* The process starts again with another rule directory.
InstallRules(R) ==
    /\ Installable(R)
    /\ rules' = R
    /\ UNCHANGED <<settings, hits, alerts>>

-----------------------------------------------------------------------------
(* Properties *)

\* The alert table is a function of the hits: an alert stands for every group
\* that reached its threshold, with the group's present evidence, and for no
\* other.  No batch size, order of arrival, restart or change of settings loses
\* an alert, leaves one stale or raises one early.
AlertsReflectHits ==
    alerts = {AlertOf(hits, h) : h \in {g \in hits : Reached(hits, g)}}
=============================================================================
