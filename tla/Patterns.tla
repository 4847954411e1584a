------------------------------- MODULE Patterns -------------------------------
(***************************************************************************)
(* Sigma patterns of nova/sigma.py: how a pattern is cut into tokens, what *)
(* one round of the loops of wildcard does, what a match is, and what a    *)
(* pattern means.  A text is a sequence of characters; positions count     *)
(* from 1.                                                                 *)
(***************************************************************************)
EXTENDS Integers, Sequences

Backslash == "\\"
Special   == {"*", "?", Backslash}

Folded(text, cased) ==
    IF cased THEN text ELSE [i \in DOMAIN text |-> IF text[i] = "A" THEN "a" ELSE text[i]]

NoChar     == ""
AnyText    == [is |-> "*", char |-> NoChar]
AnyChar    == [is |-> "?", char |-> NoChar]
Literal(c) == [is |-> "literal", char |-> c]

\* What pattern_tokens makes of patterns over some characters.
Token(chars) == [is : {"*", "?", "literal"}, char : chars \cup {NoChar}]

\* A backslash escapes a special character and is a literal before any other.
Escapes(pattern, i) ==
    pattern[i] = Backslash /\ i < Len(pattern) /\ pattern[i + 1] \in Special

\* The token that is read at i, and the characters it is written with.
TokenAt(pattern, i) ==
    CASE Escapes(pattern, i) -> Literal(pattern[i + 1])
      [] pattern[i] = "*"    -> AnyText
      [] pattern[i] = "?"    -> AnyChar
      [] OTHER               -> Literal(pattern[i])

Width(pattern, i) == IF Escapes(pattern, i) THEN 2 ELSE 1

Tokens(pattern) ==
    LET from[i \in 1..(Len(pattern) + 1)] ==
            IF i > Len(pattern) THEN <<>>
            ELSE <<TokenAt(pattern, i)>> \o from[i + Width(pattern, i)]
    IN  from[1]

pattern_tokens(pattern, mode) ==
    LET open == <<AnyText>>
    IN  (IF mode \in {"contains", "endswith"} THEN open ELSE <<>>) \o Tokens(pattern)
            \o (IF mode \in {"contains", "startswith"} THEN open ELSE <<>>)

-----------------------------------------------------------------------------
(* The loop of wildcard: at position i of the text and token j, the last    *)
(* star it passed (0 for none) and where the text after that star began.    *)

Start == [i |-> 1, j |-> 1, star |-> 0, restart |-> 1]

IsStar(tokens, j) == j <= Len(tokens) /\ tokens[j].is = "*"

\* Token j takes the character at i.
Accepts(text, tokens, s) ==
    /\ s.j <= Len(tokens)
    /\ \/ tokens[s.j].is = "?"
       \/ tokens[s.j].is = "literal" /\ tokens[s.j].char = text[s.i]

Advance(s) == [s EXCEPT !.i = @ + 1, !.j = @ + 1]

\* The star takes no text yet.
Opened(s) == [s EXCEPT !.star = s.j, !.restart = s.i, !.j = @ + 1]

\* Mutant: the star takes two characters more.
RetryFurther(s) == [s EXCEPT !.restart = @ + 2, !.i = s.restart + 2, !.j = s.star + 1]

\* The last star takes one character more.
Retry(s) == [s EXCEPT !.restart = @ + 1, !.i = s.restart + 1, !.j = s.star + 1]

\* A round of the first loop, or of the second: stars that are left take nothing.
Round(text, tokens, s) ==
    IF s.i > Len(text) THEN [s EXCEPT !.j = @ + 1]
    ELSE IF Accepts(text, tokens, s) THEN Advance(s)
    ELSE IF IsStar(tokens, s.j) THEN Opened(s)
    ELSE Retry(s)

\* No round follows: the second loop has ended, or no star can take more.
Returns(text, tokens, s) ==
    /\ ~ IsStar(tokens, s.j)
    /\ s.i <= Len(text) => ~ Accepts(text, tokens, s) /\ s.star = 0

\* What is returned.
Matched(text, tokens, s) == s.i > Len(text) /\ s.j > Len(tokens)

\* The first n places of a call: each but the first is the round after the one before.
IsRun(text, tokens, run, n) ==
    /\ run[1] = Start
    /\ \A k \in 1..(n - 1) :
          ~ Returns(text, tokens, run[k]) /\ run[k + 1] = Round(text, tokens, run[k])

-----------------------------------------------------------------------------
(* What a match is, and what a pattern means *)

\* Token k stands for the text from a up to b.
Spans(text, tokens, k, a, b) ==
    IF tokens[k].is = "*" THEN a <= b
    ELSE b = a + 1 /\ (tokens[k].is = "?" \/ tokens[k].char = text[a])

\* The tokens from j on stand for the text from i on: there is a way to cut it.
Fits(text, tokens, i, j) ==
    \E cut \in [j..(Len(tokens) + 1) -> 1..(Len(text) + 1)] :
        /\ cut[j] = i /\ cut[Len(tokens) + 1] = Len(text) + 1
        /\ \A k \in j..Len(tokens) : Spans(text, tokens, k, cut[k], cut[k + 1])

\* A pattern read character by character, without tokens: where a value may go on for
\* the pattern from i on to end with it. A star is any text.
Means(pattern, value) ==
    LET end == Len(value) + 1
        from[i \in 1..(Len(pattern) + 1)] ==
            CASE i > Len(pattern) -> {end}
              [] i < Len(pattern) /\ pattern[i] = Backslash /\ pattern[i + 1] \in Special ->
                    {k \in 1..Len(value) : value[k] = pattern[i + 1] /\ k + 1 \in from[i + 2]}
              [] i <= Len(pattern) /\ pattern[i] = "*" ->
                    {k \in 1..end : \E n \in from[i + 1] : k <= n}
              [] OTHER ->
                    {k \in 1..Len(value) : pattern[i] \in {"?", value[k]} /\ k + 1 \in from[i + 1]}
    IN  1 \in from[1]

\* What the modes ask: the pattern is the whole value, or begins or ends it, or is in it.
MeansIn(value, pattern, mode) ==
    \E i \in 1..(Len(value) + 1), k \in 0..Len(value) :
        /\ mode \in {"exact", "startswith"} => i = 1
        /\ mode \in {"exact", "endswith"} => k = Len(value)
        /\ i <= k + 1 /\ Means(pattern, SubSeq(value, i, k))
==============================================================================
