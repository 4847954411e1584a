------------------------------ MODULE MCEvidence ------------------------------
(* An instance of Evidence for TLC: two archivers may take the same events.     *)
EXTENDS Evidence

CONSTANTS p1, p2, login
===============================================================================
