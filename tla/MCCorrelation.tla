---------------------------- MODULE MCCorrelation ----------------------------
(* An instance of Correlation for TLC: failed and successful logins. *)
EXTENDS Correlation

CONSTANTS alice, bob

At(times, attributes) == [time : times, attr : attributes]

\* Three failures, two of them by one actor, and one more event of any kind,
\* which may belong to another group.
MCStreams ==
    {s \in [Ids -> At(1..3, Attributes)] :
        s[1].attr = "fail_a" /\ s[2].attr = "fail_a" /\ s[3].attr = "fail_b"}

Actor == [x \in Attributes |-> IF x = "fail_a" THEN alice ELSE bob]

Source == [x \in Attributes |-> IF x = "other" THEN "far" ELSE "near"]

Repeated ==
    [mode |-> "sliding", window |-> 2, threshold |-> 2,
     match |-> {"fail_a", "fail_b", "other"}, after |-> {},
     group |-> Source, distinct |-> None]

\* Failures of two actors before a success, or before another failure of bob.
Guessed ==
    [Repeated EXCEPT !.mode = "sequence", !.window = 3, !.after = {"success", "fail_b"},
                     !.distinct = Actor]

MCDefinition == [v \in Revisions |-> IF v = "repeated" THEN Repeated ELSE Guessed]
==============================================================================
