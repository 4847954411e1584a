----------------------------- MODULE EventLedger -----------------------------
(***************************************************************************)
(* What Nova promises about one accepted event, whichever engine runs: it  *)
(* is never forgotten, it is settled as normalized or quarantined, a       *)
(* quarantined event may be queued again at most MaxReplays times, a       *)
(* normalized event stays normalized, and detection takes it once.  The    *)
(* local journal (LocalJournal) implements this ledger by the state of its *)
(* tables, the distributed engine (Pipeline) by its stores and topics.     *)
(* Settlement is per set of events because the engines settle a batch in   *)
(* one transaction.                                                        *)
(***************************************************************************)
EXTENDS Naturals

CONSTANTS
    Keys,        \* identities of events: a tenant and an event id
    MaxReplays,  \* operator replays one quarantined event may get
    LateSuccess  \* whether an event in quarantine may still be normalized when
                 \* an older attempt of it is processed again

VARIABLES
    status,      \* where each event stands
    replays      \* replays consumed since the event was last unresolved

vars == <<status, replays>>

Status == {"absent", "queued", "quarantined", "normalized", "detected"}

TypeOK ==
    /\ status \in [Keys -> Status]
    /\ replays \in [Keys -> 0..MaxReplays]

Init ==
    /\ status = [k \in Keys |-> "absent"]
    /\ replays = [k \in Keys |-> 0]

-----------------------------------------------------------------------------
Move(S, to) == status' = [k \in Keys |-> IF k \in S THEN to ELSE status[k]]

\* A batch of new events is accepted as a whole.
Accept(S) ==
    /\ \A k \in S : status[k] = "absent"
    /\ Move(S, "queued")
    /\ UNCHANGED replays

\* Queued events are settled: those in N normalized, those in Q quarantined.
\* A normalized event has no replay history left.
Settle(N, Q) ==
    /\ N \cap Q = {}
    /\ \A k \in N \cup Q :
          \/ status[k] = "queued"
          \/ LateSuccess /\ k \in N /\ status[k] = "quarantined"
    /\ status' = [k \in Keys |-> IF k \in N THEN "normalized"
                                 ELSE IF k \in Q THEN "quarantined"
                                 ELSE status[k]]
    /\ replays' = [k \in Keys |-> IF k \in N THEN 0 ELSE replays[k]]

\* An operator replays a quarantined event.  One that was replayed and still
\* waits may be replayed again; that uses up another attempt.
Replay(k) ==
    /\ \/ status[k] = "quarantined"
       \/ status[k] = "queued" /\ replays[k] > 0
    /\ replays[k] < MaxReplays
    /\ Move({k}, "queued")
    /\ replays' = [replays EXCEPT ![k] = @ + 1]

\* Detection takes normalized events once.
Detect(S) ==
    /\ \A k \in S : status[k] = "normalized"
    /\ Move(S, "detected")
    /\ UNCHANGED replays

Next ==
    \/ \E S \in SUBSET Keys : Accept(S) \/ Detect(S)
    \/ \E N, Q \in SUBSET Keys : Settle(N, Q)
    \/ \E k \in Keys : Replay(k)

Spec == Init /\ [][Next]_vars
=============================================================================
