---------------------------- MODULE MCLocalJournal ----------------------------
(* An instance of LocalJournal and of Sigma for TLC. *)
EXTENDS LocalJournal, Sigma, TLC

CONSTANTS plain, late, bad, v1, v2, ip, outcome, ip1, ip2, fail, pass

Event(t, from, result) == [time |-> t, fields |-> (ip :> from @@ outcome :> result)]

\* One package in two versions: version 1 refuses "bad" and version 2 takes it.
MCParse ==
    [x \in Packages \X Versions \X Payloads |->
        CASE x[3] = plain -> Event(2, ip1, fail)
          [] x[3] = late -> Event(1, ip1, fail)
          [] x[3] = bad  -> IF x[2] = 1 THEN None ELSE Event(2, ip2, pass)]

\* Two failures from one address within a window of two time units.
Failures ==
    [id |-> "failures", enabled |-> TRUE,
     match |-> {Event(t, x, fail) : t \in 1..4, x \in {ip1, ip2}},
     window |-> 4, group_by |-> {ip}, distinct |-> None, threshold |-> 2]

\* Its next revision counts distinct outcomes of an address in short windows.
Outcomes ==
    [Failures EXCEPT !.window = 2, !.distinct = outcome, !.threshold = 1,
                     !.match = {Event(t, x, r) : t \in 1..4, x \in {ip1, ip2}, r \in {fail, pass}}]

MCDefinition == [v \in Revisions |-> IF v = v1 THEN Failures ELSE Outcomes]

\* Every text of two characters, and longer ones in which a star has to go back.
MCTexts ==
    UNION {[1..n -> {"a", "A", "b", "*", "?", "\\"}] : n \in 0..2}
        \cup [1..3 -> {"a", "b", "*"}] \cup [1..4 -> {"a", "*"}]

MCWords == {<<"a">>, <<"A">>, <<"a", "b">>, <<"b", "*">>}

\* The predicates that installed rules are compiled to say what their text says. This
\* is a fact about sigma.py and constant; the antecedent only has TLC evaluate it on
\* the initial states instead of on every state.
CompilesExactly == Init => SigmaIsExact
==============================================================================
