------------------------------ MODULE MCPipeline ------------------------------
(* Instances of Pipeline for TLC: one package in two versions. *)
EXTENDS Pipeline, TLC

CONSTANTS n1, n2

\* Worker names say what the workers do.
MCRole == [w \in Workers |->
    CASE w \in {n1, n2} -> "normalizer"
      [] w = "d1" -> "detector"
      [] w = "q1" -> "quarantine"
      [] w = "i1" -> "indexer"
      [] w = "a1" -> "archive"]

\* Version 2 reads a later event time; version 1 refuses the payload "odd".
MCParse == [x \in Packages \X Versions \X Payloads |->
    IF x[3] = "odd" /\ x[2] = 1 THEN None ELSE x[2]]
\* Directories of a process: the package in some version, or missing.
Versioned(v) == [p \in Packages |-> v]
OneVersion   == {Versioned(2)}
Upgrades     == {Versioned(1), Versioned(2)}

\* Normalizers differ only in the packages they start with.
Interchangeable == Permutations({n1, n2})
===============================================================================
