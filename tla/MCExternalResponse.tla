-------------------------- MODULE MCExternalResponse --------------------------
(* Instances of ExternalResponse for TLC: a Defender and a webhook connector.   *)
EXTENDS ExternalResponse, TLC

CONSTANTS d1, h1, h2

MCKind == [c \in Configs |-> IF c = d1 THEN "defender" ELSE "webhook"]

\* A file that never changes, and files in which the webhook has two versions.
DefenderFile == {"edr" :> d1}
TwoFiles     == {"edr" :> d1 @@ "hook" :> h1, "edr" :> d1 @@ "hook" :> h2}
=============================================================================
