----------------------------- MODULE MCCollector -----------------------------
(* An instance of Collector for TLC: a file of three lines at most, a journal   *)
(* with a malformed entry, and pages that name a record twice.                  *)
EXTENDS Collector, TLC

CONSTANTS good, bad, huge, a, b, x, y

MCKind == good :> "good" @@ bad :> "bad" @@ huge :> "huge"

Record(id, payload) == [id |-> <<id>>, payload |-> payload]

MCSources ==
    { <<<<Record(a, x)>>, None, <<Record(b, x)>>>>,
      <<<<Record(a, x), Record(b, x)>>, <<Record(a, x)>>>>,
      <<<<Record(a, x)>>, <<Record(a, y), Record(b, x)>>>> }
==============================================================================
