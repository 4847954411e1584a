-------------------------------- MODULE Sigma --------------------------------
(***************************************************************************)
(* The Sigma subset of nova/sigma.py: selections, conditions, the check of *)
(* a compiled expression, and what the expression says of an event.  A     *)
(* text is a sequence of characters, a condition a sequence of words, and  *)
(* an expression is a record as the compiler writes it.  Rejected stands   *)
(* for the exception Problem.  CIDR networks are not modelled.             *)
(***************************************************************************)
EXTENDS Patterns, FiniteSets
LOCAL INSTANCE SequencesExt

CONSTANTS
    SigmaTexts,    \* values and patterns to compare the matcher on
    SigmaFields,   \* normalized fields, also the names of their selections
    SigmaWords     \* texts that events and selections hold

Rejected == [op |-> "rejected"]

-----------------------------------------------------------------------------
(* The matcher *)

\* Its loops, from a place of the value on.
RECURSIVE Greedy(_, _, _)
Greedy(value, tokens, s) ==
    IF Returns(value, tokens, s) THEN Matched(value, tokens, s)
    ELSE Greedy(value, tokens, Round(value, tokens, s))

wildcard(value, pattern, mode, cased) ==
    Greedy(Folded(value, cased), pattern_tokens(Folded(pattern, cased), mode), Start)

-----------------------------------------------------------------------------
(* Expressions.  An event gives a field a text or Null, or lacks it. *)

Null == <<"null">>

TextModes == {"exact", "contains", "startswith", "endswith", "fieldref"}

\* One field of an expression. fieldref compares with other fields, which must be text.
FieldHolds(n, event) ==
    LET has   == n.field \in DOMAIN event
        value == IF has THEN event[n.field] ELSE Null
        holds(x) == IF n.mode = "fieldref"
                    THEN /\ x \in DOMAIN event /\ event[x] # Null
                         /\ Folded(value, n.cased) = Folded(event[x], n.cased)
                    ELSE wildcard(value, x, n.mode, n.cased)
    IN  CASE n.mode = "exists"  -> (has /\ value # Null) = n.expected
          [] n.mode = "present" -> has = n.expected
          [] n.mode = "null"    -> value = Null
          [] OTHER -> value # Null /\ IF n.all THEN \A x \in n.values : holds(x)
                                      ELSE \E x \in n.values : holds(x)

RECURSIVE evaluate(_, _)
evaluate(n, event) ==
    CASE n.op = "and"   -> \A i \in DOMAIN n.args : evaluate(n.args[i], event)
      [] n.op = "or"    -> \E i \in DOMAIN n.args : evaluate(n.args[i], event)
      [] n.op = "not"   -> ~ evaluate(n.arg, event)
      [] n.op = "field" -> FieldHolds(n, event)

Children(n) ==
    CASE n.op \in {"and", "or"} -> n.args
      [] n.op = "not"   -> <<n.arg>>
      [] n.op = "field" -> <<>>

RECURSIVE Height(_), Nodes(_)
Height(n) ==
    LET above[i \in 0..Len(Children(n))] ==
            IF i = 0 THEN 0
            ELSE LET h == 1 + Height(Children(n)[i]) IN IF h > above[i - 1] THEN h ELSE above[i - 1]
    IN  above[Len(Children(n))]
Nodes(n) ==
    LET upTo[i \in 0..Len(Children(n))] ==
            IF i = 0 THEN 1 ELSE upTo[i - 1] + Nodes(Children(n)[i])
    IN  upTo[Len(Children(n))]

\* What validate_node asks of a field; values of the other modes are bounded texts.
FieldIsValid(n) ==
    /\ n.cased => n.mode \in TextModes
    /\ n.mode \in {"exists", "present", "null"} => ~ n.all
    /\ n.mode = "fieldref" => n.values \subseteq SigmaFields

RECURSIVE FieldsAreValid(_)
FieldsAreValid(n) ==
    IF n.op = "field" THEN FieldIsValid(n)
    ELSE \A i \in DOMAIN Children(n) : FieldsAreValid(Children(n)[i])

validate_node(n) ==
    IF Height(n) <= 16 /\ Nodes(n) <= 256 /\ FieldsAreValid(n) THEN n ELSE Rejected

-----------------------------------------------------------------------------
(* Selections: a map from keys, a field name with modifiers, to values *)

\* One key of the map. A value list cannot hold null.
Compiled(item, fieldmap) ==
    LET modes == (item.mods \ {"all", "cased"}) \cup (IF item.null THEN {"null"} ELSE {})
        mode  == IF modes = {} THEN "exact" ELSE CHOOSE x \in modes : TRUE
    IN  IF \/ item.name \notin DOMAIN fieldmap
           \/ "all" \in item.mods /\ (~ item.list \/ Cardinality(item.values) < 2)
           \/ Cardinality(modes) > 1
           \/ item.null /\ item.mods # {}
           \/ mode = "fieldref" /\ ~ item.values \subseteq DOMAIN fieldmap
        THEN Rejected
        ELSE [op       |-> "field",
              field    |-> fieldmap[item.name],
              mode     |-> IF mode = "exists" THEN "present" ELSE mode,
              values   |-> IF mode = "fieldref" THEN {fieldmap[x] : x \in item.values}
                           ELSE item.values,
              expected |-> item.expected,
              all      |-> "all" \in item.mods,
              cased    |-> "cased" \in item.mods]

\* The keys of one map, all of which must hold.
SelectionMap(items, fieldmap) ==
    LET nodes == [i \in DOMAIN items |-> Compiled(items[i], fieldmap)]
    IN  IF items = <<>> \/ \E i \in DOMAIN nodes : nodes[i] = Rejected THEN Rejected
        ELSE [op |-> "and", args |-> nodes]

\* A list of maps, one of which must hold. A list of one is the map in it: an "or" of
\* one operand says the same.
selection(maps, fieldmap) ==
    LET nodes == [i \in DOMAIN maps |-> SelectionMap(maps[i], fieldmap)]
    IN  IF maps = <<>> \/ \E i \in DOMAIN nodes : nodes[i] = Rejected THEN Rejected
        ELSE IF Len(nodes) = 1 THEN nodes[1] ELSE [op |-> "or", args |-> nodes]

-----------------------------------------------------------------------------
(* Conditions: recursive descent; a result is a node and the words left *)

Result(node, rest) == [node |-> node, rest |-> rest]
Failed == Result(Rejected, <<>>)

Joined(op, nodes) == IF Len(nodes) = 1 THEN nodes[1] ELSE [op |-> op, args |-> nodes]

Follows(rest, word) == rest # <<>> /\ Head(rest) = word

\* The selections of a quantifier: all that are not private, or a family of names.
Quantified(pattern, selections, names) ==
    DOMAIN selections \cap (IF pattern = "them" THEN names.public ELSE names.family[pattern])

quantifier(words, selections, names) ==
    IF Len(words) < 3 \/ words[2] # "of" THEN Failed
    ELSE LET named == Quantified(words[3], selections, names)
         IN  IF named = {} THEN Failed
             ELSE Result([op   |-> IF words[1] = "1" THEN "or" ELSE "and",
                          args |-> SetToSeq({selections[name] : name \in named})],
                         SubSeq(words, 4, Len(words)))

RECURSIVE term(_, _, _, _), conjunction(_, _, _, _, _), expr(_, _, _, _, _)

term(words, selections, names, depth) ==
    IF depth > 16 \/ words = <<>> THEN Failed
    ELSE IF Head(words) \in {"1", "all"} THEN quantifier(words, selections, names)
    ELSE IF Head(words) = "not"
    THEN LET t == term(Tail(words), selections, names, depth + 1)
         IN  IF t = Failed THEN Failed ELSE Result([op |-> "not", arg |-> t.node], t.rest)
    ELSE IF Head(words) = "("
    THEN LET e == expr(Tail(words), selections, names, depth + 1, <<>>)
         IN  IF Follows(e.rest, ")") THEN Result(e.node, Tail(e.rest)) ELSE Failed
    ELSE IF Head(words) \in DOMAIN selections THEN Result(selections[Head(words)], Tail(words))
    ELSE Failed

\* Terms joined by "and", after those that were read before.
conjunction(words, selections, names, depth, before) ==
    LET t == term(words, selections, names, depth)
        nodes == Append(before, t.node)
    IN  IF t = Failed THEN Failed
        ELSE IF Follows(t.rest, "and")
        THEN conjunction(Tail(t.rest), selections, names, depth, nodes)
        ELSE Result(Joined("and", nodes), t.rest)

\* Mutant: "and" and "or" are read from left to right.
expr_flat(words, selections, names, depth, before) ==
    LET t == term(words, selections, names, depth)
        node == IF before = <<>> THEN t.node ELSE [op |-> before[2], args |-> <<before[1], t.node>>]
    IN  IF t = Failed THEN Failed
        ELSE IF Follows(t.rest, "and") \/ Follows(t.rest, "or")
        THEN expr(Tail(t.rest), selections, names, depth, <<node, Head(t.rest)>>)
        ELSE Result(node, t.rest)

expr(words, selections, names, depth, before) ==
    LET c == conjunction(words, selections, names, depth, <<>>)
        nodes == Append(before, c.node)
    IN  IF c = Failed THEN Failed
        ELSE IF Follows(c.rest, "or") THEN expr(Tail(c.rest), selections, names, depth, nodes)
        ELSE Result(Joined("or", nodes), c.rest)

condition(words, selections, names) ==
    LET e == expr(words, selections, names, 0, <<>>)
    IN  IF e = Failed \/ e.rest # <<>> THEN Rejected ELSE validate_node(e.node)

-----------------------------------------------------------------------------
(* Reference definitions over bounded inputs *)

\* The items a selection can be written with, and what a reader takes them to say.
Item(name, mods, values) ==
    [name |-> name, mods |-> mods, values |-> values, list |-> TRUE, null |-> FALSE,
     expected |-> TRUE]

Items ==
    {Item(f, mods, values) : f \in SigmaFields,
        mods \in SUBSET {"contains", "all", "cased"}, values \in SUBSET SigmaWords \ {{}}}
    \cup {Item(f, mods, {g}) : f \in SigmaFields, g \in SigmaFields,
            mods \in {{"fieldref"}, {"fieldref", "cased"}}}
    \cup {[Item(f, {"exists"}, {}) EXCEPT !.expected = b, !.list = FALSE] :
            f \in SigmaFields, b \in BOOLEAN}
    \cup {[Item(f, {}, {}) EXCEPT !.null = TRUE, !.list = FALSE] : f \in SigmaFields}

Says(item, event) ==
    LET texts == {event[g] : g \in {item.name} \cap DOMAIN event} \ {Null}
        like(text, x) ==
            IF "fieldref" \in item.mods
            THEN \E g \in {x} \cap DOMAIN event : /\ event[g] # Null
                    /\ Folded(text, "cased" \in item.mods) = Folded(event[g], "cased" \in item.mods)
            ELSE MeansIn(Folded(text, "cased" \in item.mods), Folded(x, "cased" \in item.mods),
                         IF "contains" \in item.mods THEN "contains" ELSE "exact")
    IN  CASE item.null -> texts = {}
          [] "exists" \in item.mods -> item.expected = (item.name \in DOMAIN event)
          [] "all" \in item.mods -> \E text \in texts : \A x \in item.values : like(text, x)
          [] OTHER -> \E text \in texts, x \in item.values : like(text, x)

Direct == [f \in SigmaFields |-> f]

EventsOver(texts) == UNION {[present -> texts] : present \in SUBSET SigmaFields}

\* Expressions of two operators, and a way to write each: parentheses only where
\* "not" before "and" before "or" asks for them.
Presence(f) == Compiled([Item(f, {"exists"}, {}) EXCEPT !.list = FALSE], Direct)

Over(S) == S \cup {[op |-> "not", arg |-> n] : n \in S}
             \cup {[op |-> op, args |-> <<m, n>>] : op \in {"and", "or"}, m \in S, n \in S}

RECURSIVE Written(_, _)
Written(n, level) ==
    LET needs == IF n.op = "or" THEN 0 ELSE IF n.op = "and" THEN 1 ELSE 2
    IN  IF needs < level THEN <<"(">> \o Written(n, 0) \o <<")">>
        ELSE CASE n.op = "field" -> <<n.field>>
               [] n.op = "not" -> <<"not">> \o Written(n.arg, 2)
               [] OTHER -> Written(n.args[1], needs) \o <<n.op>> \o Written(n.args[2], needs)

Present == [f \in SigmaFields |-> Presence(f)]
Names == [public |-> SigmaFields, family |-> [f \in SigmaFields |-> {f}]]

\* A way to cut a value is what a pattern read character by character means (Tokens). The
\* matcher, which goes back only to its last star, finds what a search over every
\* split of the value finds (wildcard); a selection that compiles says what its
\* modifiers say (selection); a condition groups "not" before "and" before "or" and a
\* quantifier ranges over the selections it names (condition).
SigmaIsExact ==
    /\ \A value \in SigmaTexts, pattern \in SigmaTexts :
          Fits(value, Tokens(pattern), 1, 1) <=> Means(pattern, value)
    /\ \A value \in SigmaTexts, pattern \in SigmaTexts, cased \in BOOLEAN,
          mode \in {"exact", "contains", "startswith", "endswith"} :
          wildcard(value, pattern, mode, cased)
              <=> MeansIn(Folded(value, cased), Folded(pattern, cased), mode)
    /\ \A item \in Items : LET n == selection(<<<<item>>>>, Direct) IN
          n # Rejected => /\ validate_node(n) = n
                          /\ \A event \in EventsOver(SigmaWords \cup {Null}) :
                                evaluate(n, event) <=> Says(item, event)
    /\ \A n \in Over(Over({Presence(f) : f \in SigmaFields})), event \in EventsOver({Null}) :
          evaluate(condition(Written(n, 0), Present, Names), event) <=> evaluate(n, event)
    /\ \A event \in EventsOver({Null}) :
          /\ evaluate(condition(<<"not", "1", "of", "them">>, Present, Names), event)
                <=> DOMAIN event = {}
          /\ evaluate(condition(<<"all", "of", "them">>, Present, Names), event)
                <=> DOMAIN event = SigmaFields
==============================================================================
