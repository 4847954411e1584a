---------------------------- MODULE Pipeline_proofs ----------------------------
(***************************************************************************)
(* Theorems about the distributed pipeline for any number of tenants,      *)
(* events, workers, relays and package versions, any batching and any      *)
(* number of crashes.  What a consumer owes for a record (Done) is never   *)
(* undone.  A worker that begins a batch begins where its group has        *)
(* committed, writes before it commits, and so never commits a debt; that  *)
(* no event is lost follows from that.                                     *)
(*                                                                         *)
(* The distributed engine implements the event ledger.  Beyond these       *)
(* promises the refinement needs three facts: a record belongs to no later *)
(* attempt than the quarantine row counts, what detection has seen was     *)
(* normalized, and the worker that may commit began its batch where its    *)
(* group stands, so that committed offsets never go back.                  *)
(***************************************************************************)
EXTENDS Pipeline, TLAPS

\* What group g owes for record i of an event.
Done(g, k, i) ==
    /\ g = "normalizer" =>
          \E topic \in {"normal", "error"} : \E j \in DOMAIN log[topic][k] :
             log[topic][k][j].generation = log["raw"][k][i].generation
    /\ g = "detector" => seen[k] # None
    /\ g = "quarantine" => Accepted(k) /\ (receipts[k].normalized \/ quarantined[k] # None)
    /\ g \in Stages => log[TopicOf(g)][k][i] \in store[g][k]

\* An event that is not accepted has left no trace; one that is waits in the outbox
\* or went to the raw topic.
Traced ==
    \A k \in Keys :
        /\ ~ Accepted(k) => /\ quarantined[k] = None /\ seen[k] = None
                            /\ \A topic \in Topics : log[topic][k] = <<>>
                            /\ \A row \in outbox : row.key # k
        /\ Accepted(k) => log["raw"][k] # <<>> \/ \E row \in outbox : row.key = k

\* Relays hold different rows of the outbox, and delivered what they say.
Relayed ==
    \A r \in Relays :
        /\ relay[r].rows \subseteq outbox /\ relay[r].sent \subseteq relay[r].rows
        /\ \A row \in relay[r].sent : log["raw"][row.key] # <<>>
        /\ \A q \in Relays : q # r => relay[q].rows \cap relay[r].rows = {}

Fulfilled(g, k) ==
    /\ committed[g][k] <= Len(log[TopicOf(g)][k])
    /\ \A i \in 1..committed[g][k] : Done(g, k, i)

Committed == \A g \in Groups, k \in Keys : Fulfilled(g, k)

\* A worker owes nothing for what is before its batch, nor for the positions it has
\* sent, nor once it is through.
Works(w, k) ==
    /\ work[w].from[k] <= work[w].upto[k] /\ work[w].upto[k] <= Len(Records(w)[k])
    /\ \A i \in 1..work[w].from[k] : Done(Role[w], k, i)
    /\ \A i \in Nat : <<k, i>> \in work[w].sent =>
          /\ i \in work[w].from[k] + 1 .. work[w].upto[k]
          /\ Done(Role[w], k, i)
          /\ Role[w] = "normalizer" /\ Output(w, k, i).time # None => log["normal"][k] # <<>>
    /\ work[w].pc = "written" => \A i \in 1..work[w].upto[k] : Done(Role[w], k, i)

Working == \A w \in Workers, k \in Keys : Works(w, k)

\* Markers are set after the fact.
Marked(k) ==
    Accepted(k) =>
        /\ receipts[k].normalized => log["normal"][k] # <<>> /\ ~ Open(k)
        /\ receipts[k].detected <=> seen[k] # None
        /\ \A s \in receipts[k].stored : store[s][k] # {}

Marks == \A k \in Keys : Marked(k)

IInv == TypeOK /\ Traced /\ Relayed /\ Committed /\ Working /\ Marks

-----------------------------------------------------------------------------
(* What every step keeps *)

LogGrows ==
    \A topic \in Topics, k \in Keys :
        /\ Len(log[topic][k]) <= Len(log'[topic][k])
        /\ \A i \in 1..Len(log[topic][k]) : log'[topic][k][i] = log[topic][k][i]

ReceiptsGrow ==
    \A k \in Keys : Accepted(k) =>
        /\ Accepted(k)'
        /\ receipts'[k].integration = receipts[k].integration
        /\ receipts'[k].payload = receipts[k].payload
        /\ receipts[k].normalized => receipts'[k].normalized

StoresGrow ==
    \A k \in Keys :
        /\ seen[k] # None => seen'[k] # None
        /\ quarantined[k] # None => quarantined'[k] # None
        /\ \A s \in Stages : store[s][k] \subseteq store'[s][k]

Grows == LogGrows /\ ReceiptsGrow /\ StoresGrow

\* Groups, their topics and the stages among them.
LEMMA Roles ==
    /\ \A g \in Groups : TopicOf(g) \in Topics
    /\ \A w \in Workers : Role[w] \in Groups
    /\ \A s \in Stages : s \in Groups /\ s \notin {"normalizer", "detector", "quarantine"}
BY PipelineAssumption DEF Groups, TopicOf, Topics

\* A topic's partition is a sequence.
LEMMA Partition ==
    ASSUME TypeOK, NEW topic \in Topics, NEW k \in Keys
    PROVE  /\ log[topic][k] \in Seq(Record) /\ Len(log[topic][k]) \in Nat
           /\ DOMAIN log[topic][k] = 1..Len(log[topic][k])
           /\ \A i \in 1..Len(log[topic][k]) : log[topic][k][i] \in Record
           /\ log[topic][k] = <<>> <=> Len(log[topic][k]) = 0
BY DEF TypeOK

\* What is done stays done.
LEMMA DoneStays ==
    ASSUME TypeOK, TypeOK', Grows, NEW g \in Groups, NEW k \in Keys,
           NEW i \in 1..Len(log[TopicOf(g)][k]), Done(g, k, i)
    PROVE  Done(g, k, i)'
<1> DEFINE topic == TopicOf(g)
<1>1. topic \in Topics /\ log'[topic][k][i] = log[topic][k][i]
  BY Roles DEF Grows, LogGrows
<1>2. CASE g = "normalizer"
  <2>1. topic = "raw" /\ g \notin Stages
    BY <1>2, Roles DEF TopicOf
  <2>2. PICK t \in {"normal", "error"} : \E j \in DOMAIN log[t][k] :
                log[t][k][j].generation = log["raw"][k][i].generation
    BY <1>2 DEF Done
  <2> PICK j \in DOMAIN log[t][k] : log[t][k][j].generation = log["raw"][k][i].generation
    BY <2>2
  <2>3. t \in Topics
    BY <2>2 DEF Topics
  <2>4. j \in 1..Len(log[t][k]) /\ j \in DOMAIN log'[t][k] /\ log'[t][k][j] = log[t][k][j]
    <3>1. DOMAIN log[t][k] = 1..Len(log[t][k]) /\ DOMAIN log'[t][k] = 1..Len(log'[t][k])
          /\ Len(log[t][k]) \in Nat /\ Len(log'[t][k]) \in Nat
      BY <2>3 DEF TypeOK
    <3>2. QED
      BY <2>2, <2>3, <3>1 DEF Grows, LogGrows
  <2>5. QED
    BY <1>1, <1>2, <2>1, <2>2, <2>4 DEF Done
<1>3. CASE g = "detector" \/ g = "quarantine"
  BY <1>3, Roles DEF Done, Grows, ReceiptsGrow, StoresGrow
<1>4. CASE g \in Stages
  BY <1>1, <1>4, Roles DEF Done, Grows, StoresGrow
<1>5. QED
  BY <1>2, <1>3, <1>4 DEF Groups

\* A group that commits nothing keeps its promise.
LEMMA CommittedStays ==
    ASSUME TypeOK, TypeOK', Grows, NEW g \in Groups, NEW k \in Keys, Fulfilled(g, k),
           committed'[g][k] = committed[g][k]
    PROVE  Fulfilled(g, k)'
<1>1. TopicOf(g) \in Topics
  BY Roles
<1>2. /\ Len(log[TopicOf(g)][k]) \in Nat /\ Len(log'[TopicOf(g)][k]) \in Nat
      /\ Len(log[TopicOf(g)][k]) <= Len(log'[TopicOf(g)][k])
      /\ committed[g][k] \in Nat
  BY <1>1 DEF TypeOK, Offsets, Grows, LogGrows
<1>3. \A i \in 1..committed[g][k] : i \in 1..Len(log[TopicOf(g)][k]) /\ Done(g, k, i)
  BY <1>2 DEF Fulfilled
<1>4. \A i \in 1..committed[g][k] : Done(g, k, i)'
  BY <1>3, DoneStays
<1>5. QED
  BY <1>2, <1>4 DEF Fulfilled

\* Events whose record is anywhere have a receipt.
LEMMA RecordsAccepted ==
    ASSUME TypeOK, Traced, NEW topic \in Topics, NEW k \in Keys, Len(log[topic][k]) # 0
    PROVE  Accepted(k) /\ receipts[k] \in Receipt
BY Partition DEF Traced, TypeOK, Accepted

\* The normalizer's output for a position of its batch.
LEMMA OutputStays ==
    ASSUME TypeOK, TypeOK', Traced, Grows, NEW w \in Workers, installed'[w] = installed[w],
           NEW k \in Keys, NEW i \in 1..Len(log["raw"][k])
    PROVE  Output(w, k, i)' = Output(w, k, i)
<1>1. "raw" \in Topics
  BY DEF Topics
<1>2. Len(log["raw"][k]) # 0
  BY <1>1, Partition
<1>3. Accepted(k)
  BY <1>1, <1>2, RecordsAccepted
<1>4. /\ log'["raw"][k][i] = log["raw"][k][i]
      /\ receipts'[k].integration = receipts[k].integration
      /\ receipts'[k].payload = receipts[k].payload
  BY <1>1, <1>3 DEF Grows, LogGrows, ReceiptsGrow
<1>5. QED
  BY <1>4 DEF Output, Transform

\* A worker that goes on with its batch keeps its promise.
LEMMA WorkGoesOn ==
    ASSUME TypeOK, TypeOK', Traced, Grows, NEW w \in Workers, NEW k \in Keys, Works(w, k),
           Role[w] = "normalizer" => installed'[w] = installed[w],
           work'[w].from[k] = work[w].from[k], work'[w].upto[k] = work[w].upto[k],
           \A i \in Nat : <<k, i>> \in work'[w].sent =>
              \/ <<k, i>> \in work[w].sent
              \/ /\ i \in work[w].from[k] + 1 .. work[w].upto[k]
                 /\ Done(Role[w], k, i)'
                 /\ Role[w] = "normalizer" /\ Output(w, k, i)'.time # None =>
                       log'["normal"][k] # <<>>,
           work'[w].pc = "written" => \/ work[w].pc = "written"
                                     \/ \A i \in 1..work[w].upto[k] : Done(Role[w], k, i)'
    PROVE  Works(w, k)'
<1> DEFINE g == Role[w]
           topic == TopicOf(g)
<1>1. g \in Groups /\ topic \in Topics
  BY Roles
<1>2. /\ Len(log[topic][k]) \in Nat /\ Len(log'[topic][k]) \in Nat
      /\ Len(log[topic][k]) <= Len(log'[topic][k])
      /\ work[w].from[k] \in Nat /\ work[w].upto[k] \in Nat
  BY <1>1 DEF TypeOK, Batch, Offsets, Grows, LogGrows
<1>3. /\ work[w].from[k] <= work[w].upto[k] /\ work[w].upto[k] <= Len(log[topic][k])
      /\ \A i \in 1..work[w].from[k] : Done(g, k, i)
      /\ \A i \in Nat : <<k, i>> \in work[w].sent =>
            /\ i \in work[w].from[k] + 1 .. work[w].upto[k]
            /\ Done(g, k, i)
            /\ g = "normalizer" /\ Output(w, k, i).time # None => log["normal"][k] # <<>>
      /\ work[w].pc = "written" => \A i \in 1..work[w].upto[k] : Done(g, k, i)
  BY DEF Works, Records
<1>4. \A i \in 1..work[w].upto[k] : i \in 1..Len(log[topic][k])
  BY <1>2, <1>3
<1>5. \A i \in 1..work[w].upto[k] : Done(g, k, i) => Done(g, k, i)'
  BY <1>1, <1>4, DoneStays
<1>6. \A i \in 1..work[w].from[k] : i \in 1..work[w].upto[k]
  BY <1>2, <1>3
<1>7. \A i \in work[w].from[k] + 1 .. work[w].upto[k] : i \in 1..work[w].upto[k]
  BY <1>2
<1>8. ASSUME g = "normalizer", NEW i \in 1..work[w].upto[k]
      PROVE  Output(w, k, i)' = Output(w, k, i)
  <2>1. topic = "raw"
    BY <1>8 DEF TopicOf
  <2>2. QED
    BY <1>4, <1>8, <2>1, OutputStays
<1>9. log["normal"][k] # <<>> => log'["normal"][k] # <<>>
  <2>1. "normal" \in Topics
    BY DEF Topics
  <2>2. Len(log["normal"][k]) <= Len(log'["normal"][k])
    BY <2>1 DEF Grows, LogGrows
  <2>3. /\ Len(log["normal"][k]) \in Nat /\ (log["normal"][k] = <<>> <=> Len(log["normal"][k]) = 0)
        /\ Len(log'["normal"][k]) \in Nat /\ (log'["normal"][k] = <<>> <=> Len(log'["normal"][k]) = 0)
    BY <2>1 DEF TypeOK
  <2>4. QED
    BY <2>2, <2>3
<1> HIDE DEF g, topic
<1>10. /\ work[w].upto[k] <= Len(log'[topic][k])
       /\ \A i \in 1..work[w].from[k] : Done(g, k, i)'
       /\ \A i \in Nat : <<k, i>> \in work'[w].sent =>
            /\ i \in work[w].from[k] + 1 .. work[w].upto[k]
            /\ Done(g, k, i)'
            /\ g = "normalizer" /\ Output(w, k, i)'.time # None => log'["normal"][k] # <<>>
       /\ work'[w].pc = "written" => \A i \in 1..work[w].upto[k] : Done(g, k, i)'
  <2>1. work[w].upto[k] <= Len(log'[topic][k])
    BY <1>2, <1>3
  <2>2. \A i \in 1..work[w].from[k] : Done(g, k, i)'
    BY <1>3, <1>5, <1>6
  <2>3. ASSUME NEW i \in Nat, <<k, i>> \in work'[w].sent
        PROVE  /\ i \in work[w].from[k] + 1 .. work[w].upto[k]
               /\ Done(g, k, i)'
               /\ g = "normalizer" /\ Output(w, k, i)'.time # None => log'["normal"][k] # <<>>
    <3>1. CASE <<k, i>> \in work[w].sent
      BY <1>3, <1>5, <1>7, <1>8, <1>9, <3>1
    <3>2. CASE <<k, i>> \notin work[w].sent
      BY <2>3, <3>2 DEF g
    <3>3. QED
      BY <3>1, <3>2
  <2>4. work'[w].pc = "written" => \A i \in 1..work[w].upto[k] : Done(g, k, i)'
    BY <1>3, <1>5 DEF g
  <2>5. QED
    BY <2>1, <2>2, <2>3, <2>4
<1>11. QED
  BY <1>3, <1>10 DEF Works, Records, g, topic

\* ... and so does one that does nothing.
LEMMA WorkStays ==
    ASSUME TypeOK, TypeOK', Traced, Grows, NEW w \in Workers, NEW k \in Keys, Works(w, k),
           work'[w] = work[w], Role[w] = "normalizer" => installed'[w] = installed[w]
    PROVE  Works(w, k)'
BY WorkGoesOn

\* A worker with no batch owes nothing.
LEMMA IdleWorks ==
    ASSUME TypeOK', NEW w \in Workers, NEW k \in Keys, work'[w] = Idle
    PROVE  Works(w, k)'
<1>1. TopicOf(Role[w]) \in Topics
  BY Roles
<1>2. Len(log'[TopicOf(Role[w])][k]) \in Nat
  BY <1>1 DEF TypeOK
<1>3. work'[w].from[k] = 0 /\ work'[w].upto[k] = 0 /\ work'[w].sent = {} /\ work'[w].pc = "idle"
  BY DEF Idle, NoOffsets
<1>4. QED
  BY <1>2, <1>3 DEF Works, Records

\* A step that undoes nothing keeps the promises of those who take no part in it.
LEMMA Keeps ==
    ASSUME IInv, TypeOK', Grows, Traced', Relayed', Marks',
           \A g \in Groups, k \in Keys : \/ committed'[g][k] = committed[g][k]
                                         \/ Fulfilled(g, k)',
           \A w \in Workers : \/ /\ work'[w] = work[w]
                                 /\ Role[w] = "normalizer" => installed'[w] = installed[w]
                              \/ work'[w] = Idle
                              \/ \A k \in Keys : Works(w, k)'
    PROVE  IInv'
<1>1. Committed'
  BY CommittedStays DEF IInv, Committed
<1>2. Working'
  BY WorkStays, IdleWorks DEF IInv, Working
<1>3. QED
  BY <1>1, <1>2 DEF IInv

\* A step that changes no table, topic or store keeps what they say.
LEMMA SameTables ==
    ASSUME IInv, UNCHANGED <<receipts, outbox, quarantined, seen, log, store>>
    PROVE  Grows /\ Traced' /\ Marks'
<1>1. \A topic \in Topics, k \in Keys : Len(log[topic][k]) \in Nat
  BY Partition DEF IInv
<1>2. Grows
  BY <1>1 DEF Grows, LogGrows, ReceiptsGrow, StoresGrow, Accepted
<1>3. Traced'
  BY DEF IInv, Traced, Accepted
<1>4. Marks'
  BY DEF IInv, Marks, Marked, Accepted, Open
<1>5. QED
  BY <1>2, <1>3, <1>4

\* Packages, processes and groups: no table, no topic and no store changes.
LEMMA QuietKeeps ==
    ASSUME IInv, TypeOK', UNCHANGED <<receipts, outbox, quarantined, seen, log, store, committed>>,
           Relayed',
           \A w \in Workers : \/ /\ work'[w] = work[w]
                                 /\ Role[w] = "normalizer" => installed'[w] = installed[w]
                              \/ work'[w] = Idle
                              \/ \A k \in Keys : Works(w, k)'
    PROVE  IInv'
BY SameTables, Keeps

\* ... nor what the relays hold.
LEMMA SameRelays ==
    ASSUME IInv, UNCHANGED <<outbox, log, relay>>
    PROVE  Relayed'
BY DEF IInv, Relayed

\* Activations and a gateway that starts again.
LEMMA PackagesKeep ==
    ASSUME IInv, \/ \E t \in Tenants, p \in Packages : activate(t, p) \/ deactivate_integration(t, p)
                 \/ \E files \in Files : gateway_restart(files)
    PROVE  IInv'
<1>1. TypeOK /\ Relayed'
  BY SameRelays DEF IInv, activate, deactivate_integration, gateway_restart, tables, kafka
<1>2. UNCHANGED <<receipts, outbox, quarantined, seen, log, store, committed, owner, relay, work, faults>>
  BY DEF activate, deactivate_integration, gateway_restart, tables, kafka
<1>3. /\ installed' \in [Normalizers \cup {"gateway"} -> Files]
      /\ activations' \in [Tenants \X Packages -> Versions \cup {None}]
      /\ \A w \in Workers : installed'[w] = installed[w]
  <2>1. /\ installed \in [Normalizers \cup {"gateway"} -> Files]
        /\ activations \in [Tenants \X Packages -> Versions \cup {None}]
        /\ \A w \in Workers : w # "gateway"
    BY <1>1, PipelineAssumption DEF TypeOK
  <2>2. installed["gateway"] \in [Packages -> Versions \cup {None}]
    BY <2>1, PipelineAssumption
  <2>3. CASE \E t \in Tenants, p \in Packages : activate(t, p) \/ deactivate_integration(t, p)
    BY <2>1, <2>2, <2>3 DEF activate, deactivate_integration
  <2>4. CASE \E files \in Files : gateway_restart(files)
    BY <2>1, <2>4 DEF gateway_restart, tables
  <2>5. QED
    BY <2>3, <2>4
<1>4. TypeOK'
  BY <1>1, <1>2, <1>3 DEF TypeOK
<1>5. QED
  BY <1>1, <1>2, <1>3, <1>4, QuietKeeps

\* A group moves to another worker, or a worker dies and starts again.
LEMMA ProcessKeeps ==
    ASSUME IInv, NEW w \in Workers, rebalance(w) \/ \E files \in Files : restart(w, files)
    PROVE  IInv'
<1>1. TypeOK
  BY DEF IInv
<1>2. UNCHANGED <<receipts, outbox, quarantined, seen, activations, log, store, committed, relay>>
  BY DEF rebalance, restart, tables, kafka
<1>3. /\ installed' \in [Normalizers \cup {"gateway"} -> Files] /\ work' \in [Workers -> Batch]
      /\ owner' \in [Groups -> Workers] /\ faults' \in 0..MaxFaults
      /\ \A v \in Workers : \/ /\ work'[v] = work[v]
                               /\ Role[v] = "normalizer" => installed'[v] = installed[v]
                            \/ work'[v] = Idle
  <2>1. /\ installed \in [Normalizers \cup {"gateway"} -> Files] /\ work \in [Workers -> Batch]
        /\ owner \in [Groups -> Workers] /\ faults \in 0..MaxFaults /\ MaxFaults \in Nat
    BY <1>1, PipelineAssumption DEF TypeOK
  <2>2. Idle \in Batch
    BY DEF Idle, Batch, NoOffsets, Offsets
  <2>3. ASSUME Fault PROVE faults' \in 0..MaxFaults
    BY <2>1, <2>3 DEF Fault
  <2>4. CASE rebalance(w)
    BY <2>1, <2>3, <2>4 DEF rebalance
  <2>5. ASSUME NEW files \in Files, restart(w, files)
        PROVE  /\ installed' \in [Normalizers \cup {"gateway"} -> Files] /\ work' \in [Workers -> Batch]
               /\ owner' \in [Groups -> Workers] /\ faults' \in 0..MaxFaults
               /\ \A v \in Workers : \/ /\ work'[v] = work[v]
                                        /\ Role[v] = "normalizer" => installed'[v] = installed[v]
                                     \/ work'[v] = Idle
    <3>1. work' \in [Workers -> Batch] /\ work'[w] = Idle /\ \A v \in Workers : v # w => work'[v] = work[v]
      BY <2>1, <2>2, <2>5 DEF restart
    <3>2. /\ installed' \in [Normalizers \cup {"gateway"} -> Files]
          /\ \A v \in Workers : v # w => installed'[v] = installed[v]
      BY <2>1, <2>5 DEF restart
    <3>3. owner' \in [Groups -> Workers] /\ faults' \in 0..MaxFaults
      BY <2>1, <2>3, <2>5 DEF restart, kafka
    <3>4. QED
      BY <3>1, <3>2, <3>3
  <2>6. QED
    BY <2>4, <2>5
<1>4. TypeOK'
  BY <1>1, <1>2, <1>3 DEF TypeOK
<1>5. QED
  BY <1>2, <1>3, <1>4, SameRelays, QuietKeeps

-----------------------------------------------------------------------------
(* Relays *)

\* A sequence with one element more.
LEMMA Longer ==
    ASSUME NEW S, NEW s \in Seq(S), NEW e \in S
    PROVE  /\ Append(s, e) \in Seq(S) /\ Len(Append(s, e)) = Len(s) + 1 /\ Len(s) \in Nat
           /\ Append(s, e) # <<>> /\ Append(s, e)[Len(s) + 1] = e
           /\ \A i \in 1..Len(s) : Append(s, e)[i] = s[i]
<1>1. Append(s, e) \in Seq(S) /\ Len(Append(s, e)) = Len(s) + 1 /\ Len(s) \in Nat
  OBVIOUS
<1>2. Append(s, e)[Len(s) + 1] = e /\ \A i \in 1..Len(s) : Append(s, e)[i] = s[i]
  OBVIOUS
<1>3. Append(s, e) # <<>>
  BY <1>1
<1>4. QED
  BY <1>1, <1>2, <1>3

Appends(topic, k, record) == log' = [log EXCEPT ![topic][k] = Append(@, record)]

\* A topic with one record more.
LEMMA Appended ==
    ASSUME TypeOK, NEW topic \in Topics, NEW k \in Keys, NEW record \in Record,
           Appends(topic, k, record)
    PROVE  /\ log' \in [Topics -> [Keys -> Seq(Record)]] /\ LogGrows
           /\ \A t \in Topics, q \in Keys : t # topic \/ q # k => log'[t][q] = log[t][q]
           /\ log'[topic][k] = Append(log[topic][k], record)
           /\ Len(log'[topic][k]) = Len(log[topic][k]) + 1 /\ log'[topic][k] # <<>>
           /\ log'[topic][k][Len(log[topic][k]) + 1] = record
<1> DEFINE old == log[topic][k]
           new == Append(old, record)
<1>1. /\ log \in [Topics -> [Keys -> Seq(Record)]] /\ log[topic] \in [Keys -> Seq(Record)]
      /\ old \in Seq(Record)
  BY DEF TypeOK
<1>2. /\ new \in Seq(Record) /\ Len(new) = Len(old) + 1 /\ Len(old) \in Nat /\ new # <<>>
      /\ new[Len(old) + 1] = record /\ \A i \in 1..Len(old) : new[i] = old[i]
  BY <1>1, Longer
<1>3. log' = [log EXCEPT ![topic] = [log[topic] EXCEPT ![k] = new]]
  BY DEF Appends
<1> HIDE DEF old, new
<1>4. /\ log' \in [Topics -> [Keys -> Seq(Record)]] /\ log'[topic][k] = new
      /\ \A t \in Topics, q \in Keys : t # topic \/ q # k => log'[t][q] = log[t][q]
  BY <1>1, <1>3, <1>2
<1>5. LogGrows
  <2>1. \A t \in Topics, q \in Keys : Len(log[t][q]) \in Nat
    BY <1>1
  <2>2. ASSUME NEW t \in Topics, NEW q \in Keys
        PROVE  /\ Len(log[t][q]) <= Len(log'[t][q])
               /\ \A i \in 1..Len(log[t][q]) : log'[t][q][i] = log[t][q][i]
    <3>1. CASE t = topic /\ q = k
      BY <1>2, <1>4, <3>1 DEF old
    <3>2. CASE t # topic \/ q # k
      BY <1>4, <2>1, <3>2
    <3>3. QED
      BY <3>1, <3>2
  <2>3. QED
    BY <2>2 DEF LogGrows
<1>6. QED
  BY <1>2, <1>4, <1>5 DEF old, new

\* Rows of the outbox belong to accepted events.
LEMMA RowsAccepted ==
    ASSUME IInv, NEW row \in outbox
    PROVE  row \in Row /\ row.key \in Keys /\ Accepted(row.key)
<1>1. row \in Row /\ row.key \in Keys
  BY DEF IInv, TypeOK, Row
<1>2. QED
  BY <1>1 DEF IInv, Traced

\* A relay locks rows, or dies and lets go of them.
LEMMA LockKeeps ==
    ASSUME IInv, NEW r \in Relays, take(r) \/ relay_restart(r)
    PROVE  IInv'
<1>1. TypeOK /\ Relayed /\ outbox \subseteq Row
  BY DEF IInv, TypeOK
<1>2. UNCHANGED <<installed, activations, receipts, outbox, quarantined, seen, log, committed, owner, work, store>>
  BY DEF take, relay_restart, tables, kafka
<1>3. PICK rows \in SUBSET outbox :
          /\ relay' = [relay EXCEPT ![r] = [rows |-> rows, sent |-> {}]]
          /\ \A q \in Relays : q # r => relay[q].rows \cap rows = {}
  <2>1. CASE take(r)
    <3>1. PICK rows \in SUBSET (outbox \ Locked) : relay' = [relay EXCEPT ![r].rows = rows]
      BY <2>1 DEF take
    <3>2. relay[r] \in [rows : SUBSET Row, sent : SUBSET Row] /\ relay[r].rows = {} /\ relay[r].sent = {}
      BY <1>1, <2>1 DEF take, Relayed, TypeOK
    <3>3. [relay[r] EXCEPT !.rows = rows] = [rows |-> rows, sent |-> {}]
      BY <3>2
    <3>4. \A q \in Relays : relay[q].rows \subseteq Locked
      BY DEF Locked
    <3>5. relay' = [relay EXCEPT ![r] = [rows |-> rows, sent |-> {}]]
      BY <3>1, <3>3
    <3>6. QED
      BY <3>4, <3>5
  <2>2. CASE relay_restart(r)
    <3>1. relay' = [relay EXCEPT ![r] = [rows |-> {}, sent |-> {}]]
      BY <2>2 DEF relay_restart
    <3>2. {} \in SUBSET outbox /\ \A q \in Relays : relay[q].rows \cap {} = {}
      OBVIOUS
    <3>3. QED
      BY <3>1, <3>2
  <2>3. QED
    BY <2>1, <2>2
<1>4. /\ relay' \in [Relays -> [rows : SUBSET Row, sent : SUBSET Row]]
      /\ relay'[r].rows = rows /\ relay'[r].sent = {}
      /\ \A q \in Relays : q # r => relay'[q] = relay[q]
  BY <1>1, <1>3 DEF TypeOK
<1>5. faults' \in 0..MaxFaults
  BY <1>1, PipelineAssumption DEF TypeOK, take, relay_restart, Fault
<1>6. TypeOK'
  BY <1>1, <1>2, <1>4, <1>5 DEF TypeOK
<1>7. Relayed'
  BY <1>1, <1>2, <1>3, <1>4 DEF Relayed
<1>8. QED
  BY <1>2, <1>6, <1>7, QuietKeeps

\* A relay delivers one of its rows.
LEMMA DeliverKeeps ==
    ASSUME IInv, NEW r \in Relays, deliver(r)
    PROVE  IInv'
<1>1. TypeOK /\ Relayed /\ Traced /\ Marks /\ outbox \subseteq Row
  BY DEF IInv, TypeOK
<1>2. UNCHANGED <<installed, activations, receipts, outbox, quarantined, seen, committed, owner, work, store, faults>>
  BY DEF deliver, tables
<1>3. PICK row \in relay[r].rows \ relay[r].sent :
          /\ log' = [log EXCEPT !["raw"][row.key] =
                Append(@, [version |-> row.version, generation |-> row.generation, time |-> None])]
          /\ relay' = [relay EXCEPT ![r].sent = @ \cup {row}]
  BY DEF deliver
<1>4. row \in outbox /\ row \in Row /\ row.key \in Keys /\ Accepted(row.key)
  BY <1>1, <1>3, RowsAccepted DEF Relayed
<1>5. PICK k \in Keys : k = row.key
  BY <1>4
<1> DEFINE record == [version |-> row.version, generation |-> row.generation, time |-> None]
<1>6. record \in Record
  BY <1>4 DEF Row, Record
<1> HIDE DEF record
<1>7. /\ log' \in [Topics -> [Keys -> Seq(Record)]] /\ LogGrows
      /\ \A t \in Topics, q \in Keys : t # "raw" \/ q # k => log'[t][q] = log[t][q]
      /\ log'["raw"][k] # <<>> /\ "raw" \in Topics
  <2>1. "raw" \in Topics
    BY DEF Topics
  <2>2. Appends("raw", k, record)
    BY <1>3, <1>5 DEF record, Appends
  <2>3. QED
    BY <1>1, <1>6, <2>1, <2>2, Appended
<1>8. /\ relay' \in [Relays -> [rows : SUBSET Row, sent : SUBSET Row]]
      /\ relay'[r].rows = relay[r].rows /\ relay'[r].sent = relay[r].sent \cup {row}
      /\ \A q \in Relays : q # r => relay'[q] = relay[q]
  BY <1>1, <1>3, <1>4 DEF TypeOK
<1>9. TypeOK'
  BY <1>1, <1>2, <1>7, <1>8 DEF TypeOK
<1>10. \A t \in Topics, q \in Keys : log[t][q] # <<>> => log'[t][q] # <<>>
  BY <1>7
<1>11. Relayed'
  <2>1. \A q \in Relays : \A other \in relay[q].sent : other.key \in Keys
    BY <1>1 DEF Relayed, Row
  <2>2. QED
    BY <1>1, <1>2, <1>3, <1>7, <1>8, <1>10, <1>5, <2>1 DEF Relayed
<1>12. Traced'
  <2>1. ASSUME NEW q \in Keys, ~ Accepted(q)
        PROVE  \A topic \in Topics : log'[topic][q] = <<>>
    <3>1. q # k
      BY <1>4, <1>5, <2>1
    <3>2. \A topic \in Topics : log'[topic][q] = log[topic][q]
      BY <1>7, <3>1
    <3>3. QED
      BY <1>1, <2>1, <3>2 DEF Traced
  <2>2. \A q \in Keys : log["raw"][q] # <<>> => log'["raw"][q] # <<>>
    BY <1>7, <1>10
  <2>3. QED
    BY <1>1, <1>2, <2>1, <2>2 DEF Traced, Accepted
<1>13. Marks'
  <2>1. \A q \in Keys : log'["normal"][q] = log["normal"][q]
    BY <1>7 DEF Topics
  <2>2. QED
    BY <1>1, <1>2, <2>1 DEF Marks, Marked, Accepted, Open
<1>14. Grows
  BY <1>2, <1>7 DEF Grows, ReceiptsGrow, StoresGrow, Accepted
<1>15. QED
  BY <1>2, <1>9, <1>11, <1>12, <1>13, <1>14, Keeps

\* A relay deletes rows: each went to the raw topic.
LEMMA ConfirmKeeps ==
    ASSUME IInv, NEW r \in Relays, confirm(r)
    PROVE  IInv'
<1>1. TypeOK /\ Relayed /\ Traced /\ outbox \subseteq Row
  BY DEF IInv, TypeOK
<1>2. UNCHANGED <<installed, activations, receipts, quarantined, seen, log, committed, owner, work, store, faults>>
  BY DEF confirm, kafka
<1>3. /\ relay[r].sent = relay[r].rows /\ outbox' = outbox \ relay[r].rows
      /\ relay' = [relay EXCEPT ![r] = [rows |-> {}, sent |-> {}]]
  BY DEF confirm, Confirmed
<1>4. /\ relay' \in [Relays -> [rows : SUBSET Row, sent : SUBSET Row]]
      /\ relay'[r].rows = {} /\ relay'[r].sent = {}
      /\ \A q \in Relays : q # r => relay'[q] = relay[q]
  BY <1>1, <1>3 DEF TypeOK
<1>5. TypeOK'
  BY <1>1, <1>2, <1>3, <1>4 DEF TypeOK
<1>6. Relayed'
  BY <1>1, <1>2, <1>3, <1>4 DEF Relayed
<1>7. Traced'
  BY <1>1, <1>2, <1>3 DEF Traced, Relayed, Accepted
<1>8. Marks' /\ Grows
  <2>1. \A topic \in Topics, k \in Keys : Len(log[topic][k]) \in Nat
    BY <1>1, Partition
  <2>2. Grows
    BY <1>2, <2>1 DEF Grows, LogGrows, ReceiptsGrow, StoresGrow, Accepted
  <2>3. QED
    BY <1>2, <2>2 DEF IInv, Marks, Marked, Accepted, Open
<1>9. QED
  BY <1>2, <1>5, <1>6, <1>7, <1>8, Keeps

-----------------------------------------------------------------------------
(* The gateway *)

\* New receipts come with their outbox rows.
LEMMA IngestKeeps ==
    ASSUME IInv, NEW t \in Tenants, NEW p \in Packages, NEW batch \in SUBSET Requests,
           ingest(t, p, batch)
    PROVE  IInv'
<1> DEFINE fresh  == Fresh(t, batch)
           new(k) == \E e \in fresh : k = <<t, e.id>>
           row(e) == [key |-> <<t, e.id>>, version |-> activations[<<t, p>>], generation |-> 0]
           receipt(k) == [integration |-> p,
                          payload |-> (CHOOSE e \in fresh : k = <<t, e.id>>).payload,
                          normalized |-> FALSE, detected |-> FALSE, stored |-> {}]
<1>1. TypeOK /\ Traced /\ Relayed /\ Marks
  BY DEF IInv
<1>2. UNCHANGED <<installed, activations, quarantined, seen, log, committed, owner, relay, work, store, faults>>
  BY DEF ingest, packageVars, kafka
<1>3. /\ receipts' = [k \in Keys |-> IF new(k) THEN receipt(k) ELSE receipts[k]]
      /\ outbox' = outbox \cup {row(e) : e \in fresh}
  BY DEF ingest
<1>4. \A e \in fresh : e \in Requests /\ e.id \in Ids /\ <<t, e.id>> \in Keys /\ receipts[<<t, e.id>>] = None
  BY DEF Fresh, Requests, Keys
<1>5. ASSUME NEW k \in Keys, new(k)
      PROVE  receipt(k) \in Receipt
  <2>1. (CHOOSE e \in fresh : k = <<t, e.id>>) \in Requests
    BY <1>4, <1>5
  <2>2. (CHOOSE e \in fresh : k = <<t, e.id>>).payload \in Payloads
    BY <2>1 DEF Requests
  <2>3. QED
    BY <2>2 DEF Receipt
<1>6. \A e \in fresh : row(e) \in Row /\ row(e).key = <<t, e.id>>
  <2>1. activations[<<t, p>>] \in Versions \cup {None} /\ 0 \in 0..MaxReplays
    BY <1>1, PipelineAssumption DEF TypeOK
  <2>2. QED
    BY <1>4, <2>1 DEF Row
<1>7. \A k \in Keys : new(k) => /\ receipt(k).normalized = FALSE /\ receipt(k).detected = FALSE
                                /\ receipt(k).stored = {}
  OBVIOUS
<1>8. \A k \in Keys : new(k) <=> \E e \in fresh : row(e).key = k
  BY <1>6
<1>9. \A k \in Keys : new(k) => receipts[k] = None
  BY <1>4
<1> HIDE DEF fresh, new, row, receipt
<1>10. /\ receipts' \in [Keys -> Receipt \cup {None}]
       /\ \A k \in Keys : receipts'[k] = IF new(k) THEN receipt(k) ELSE receipts[k]
       /\ \A k \in Keys : new(k) => receipt(k) # None
  BY <1>1, <1>3, <1>5, PipelineAssumption DEF TypeOK
<1>11. TypeOK'
  BY <1>1, <1>2, <1>3, <1>6, <1>10 DEF TypeOK
<1>12. Relayed'
  BY <1>1, <1>2, <1>3 DEF Relayed
<1>13. Traced'
  <2>1. ASSUME NEW k \in Keys, receipts'[k] = None
        PROVE  /\ quarantined[k] = None /\ seen[k] = None /\ \A topic \in Topics : log[topic][k] = <<>>
               /\ \A r \in outbox' : r.key # k
    <3>1. ~ new(k) /\ receipts[k] = None
      BY <1>10, <2>1
    <3>2. QED
      BY <1>1, <1>3, <1>8, <3>1 DEF Traced, Accepted
  <2>2. ASSUME NEW k \in Keys, receipts'[k] # None
        PROVE  log["raw"][k] # <<>> \/ \E r \in outbox' : r.key = k
    BY <1>1, <1>3, <1>8, <1>10, <2>2 DEF Traced, Accepted
  <2>3. QED
    BY <1>2, <2>1, <2>2 DEF Traced, Accepted
<1>14. Marks'
  <2>1. ASSUME NEW k \in Keys
        PROVE  Marked(k)'
    <3>1. CASE new(k)
      <4>1. seen[k] = None
        BY <1>1, <1>9, <3>1 DEF Traced, Accepted
      <4>2. QED
        BY <1>2, <1>7, <1>10, <3>1, <4>1 DEF Marked
    <3>2. CASE ~ new(k)
      BY <1>1, <1>2, <1>10, <3>2 DEF Marks, Marked, Accepted, Open
    <3>3. QED
      BY <3>1, <3>2
  <2>2. QED
    BY <2>1 DEF Marks
<1>15. Grows
  <2>1. \A topic \in Topics, k \in Keys : Len(log[topic][k]) \in Nat
    BY <1>1, Partition
  <2>2. LogGrows /\ StoresGrow
    BY <1>2, <2>1 DEF LogGrows, StoresGrow
  <2>3. ReceiptsGrow
    BY <1>9, <1>10 DEF ReceiptsGrow, Accepted
  <2>4. QED
    BY <2>2, <2>3 DEF Grows
<1>16. QED
  BY <1>2, <1>11, <1>12, <1>13, <1>14, <1>15, Keeps

\* A replay adds a row for an event that has one receipt already.
LEMMA ReplayKeeps ==
    ASSUME IInv, NEW k \in Keys, replay(k)
    PROVE  IInv'
<1> DEFINE version == activations[<<k[1], receipts[k].integration>>]
           row == [key |-> k, version |-> version, generation |-> quarantined[k].attempts + 1]
           new == [quarantined[k] EXCEPT !.attempts = @ + 1]
<1>1. TypeOK /\ Traced /\ Relayed /\ Marks
  BY DEF IInv
<1>2. UNCHANGED <<installed, activations, receipts, seen, log, committed, owner, relay, work, store, faults>>
  BY DEF replay, packageVars, kafka
<1>3. /\ Open(k) /\ quarantined[k].attempts < MaxReplays
      /\ quarantined' = [quarantined EXCEPT ![k] = new] /\ outbox' = outbox \cup {row}
  BY DEF replay, Replayable
<1>4. /\ quarantined \in [Keys -> [attempts : 0..MaxReplays, resolved : BOOLEAN] \cup {None}]
      /\ quarantined[k] \in [attempts : 0..MaxReplays, resolved : BOOLEAN]
  BY <1>1, <1>3 DEF TypeOK, Open
<1>5. Accepted(k) /\ receipts[k] \in Receipt
  BY <1>1, <1>3 DEF Traced, Open, Accepted, TypeOK
<1>6. quarantined[k].attempts + 1 \in 0..MaxReplays
  BY <1>3, <1>4, PipelineAssumption
<1>7. new \in [attempts : 0..MaxReplays, resolved : BOOLEAN] /\ new.resolved = quarantined[k].resolved
  BY <1>4, <1>6
<1>8. row \in Row /\ row.key = k
  <2>1. <<k[1], receipts[k].integration>> \in Tenants \X Packages
    BY <1>5 DEF Keys, Receipt
  <2>2. version \in Versions \cup {None}
    BY <1>1, <2>1 DEF TypeOK
  <2>3. QED
    BY <1>6, <2>2 DEF Row
<1> HIDE DEF row, new, version
<1>9. /\ quarantined' \in [Keys -> [attempts : 0..MaxReplays, resolved : BOOLEAN] \cup {None}]
      /\ quarantined'[k] # None /\ \A q \in Keys : q # k => quarantined'[q] = quarantined[q]
  BY <1>3, <1>4, <1>7, PipelineAssumption
<1>10. TypeOK'
  BY <1>1, <1>2, <1>3, <1>8, <1>9 DEF TypeOK
<1>11. Relayed'
  BY <1>1, <1>2, <1>3 DEF Relayed
<1>12. Traced'
  BY <1>1, <1>2, <1>3, <1>5, <1>8, <1>9 DEF Traced, Accepted
<1>13. Marks'
  <2>1. ~ receipts[k].normalized
    BY <1>1, <1>3, <1>5 DEF Marks, Marked
  <2>2. ASSUME NEW q \in Keys
        PROVE  Marked(q)'
    BY <1>1, <1>2, <1>9, <2>1 DEF Marks, Marked, Accepted, Open
  <2>3. QED
    BY <2>2 DEF Marks
<1>14. Grows
  <2>1. \A topic \in Topics, q \in Keys : Len(log[topic][q]) \in Nat
    BY <1>1, Partition
  <2>2. QED
    BY <1>2, <1>9, <2>1 DEF Grows, LogGrows, ReceiptsGrow, StoresGrow, Accepted
<1>15. QED
  BY <1>2, <1>10, <1>11, <1>12, <1>13, <1>14, Keeps

-----------------------------------------------------------------------------
(* Workers *)

\* A batch starts where its group has committed.
LEMMA ReadKeeps ==
    ASSUME IInv, NEW w \in Workers, read(w)
    PROVE  IInv'
<1> DEFINE g == Role[w]
           from == committed[g]
           topic == TopicOf(g)
<1>1. TypeOK /\ Committed /\ Traced /\ g \in Groups /\ topic \in Topics
  BY Roles DEF IInv
<1>2. UNCHANGED <<installed, activations, receipts, outbox, quarantined, seen, log, committed, owner,
                  relay, store, faults>>
  BY DEF read, tables, kafka
<1>3. PICK keys \in SUBSET Keys, n \in 1..MaxRead :
          work' = [work EXCEPT ![w] = [pc |-> "busy", from |-> from, upto |-> Upto(w, keys, n),
                                       sent |-> {}]]
  BY DEF read
<1> DEFINE upto == Upto(w, keys, n)
           batch == [pc |-> "busy", from |-> from, upto |-> upto, sent |-> {}]
<1>4. /\ from \in Offsets /\ upto \in Offsets
      /\ \A k \in Keys : from[k] <= upto[k] /\ upto[k] <= Len(log[topic][k])
  <2>1. from \in Offsets /\ n \in Nat /\ \A k \in Keys : from[k] \in Nat
    BY <1>1, PipelineAssumption DEF TypeOK, Offsets
  <2>2. \A k \in Keys : Len(log[topic][k]) \in Nat /\ from[k] <= Len(log[topic][k])
    BY <1>1, Partition DEF Committed, Fulfilled
  <2>3. \A k \in Keys : /\ upto[k] \in Nat /\ from[k] <= upto[k]
                         /\ upto[k] <= Len(log[topic][k])
    BY <2>1, <2>2 DEF Upto, Records
  <2>4. upto = [k \in Keys |-> upto[k]]
    BY DEF Upto
  <2> HIDE DEF upto, from
  <2>5. upto \in Offsets
    BY <2>3, <2>4 DEF Offsets
  <2>6. QED
    BY <2>1, <2>3, <2>5
<1>5. batch \in Batch
  BY <1>4 DEF Batch
<1>6. batch.pc = "busy" /\ batch.from = from /\ batch.upto = upto /\ batch.sent = {}
  OBVIOUS
<1>7. work' = [work EXCEPT ![w] = batch]
  BY <1>3
<1> HIDE DEF batch, upto, from, g, topic
<1>8. /\ work' \in [Workers -> Batch] /\ work'[w] = batch
      /\ \A v \in Workers : v # w => work'[v] = work[v]
  BY <1>1, <1>5, <1>7 DEF TypeOK
<1>9. TypeOK'
  BY <1>1, <1>2, <1>8 DEF TypeOK
<1>10. ASSUME NEW k \in Keys
       PROVE  Works(w, k)'
  <2>1. Grows
    BY <1>2, SameTables
  <2>2. \A i \in 1..from[k] : i \in 1..Len(log[topic][k]) /\ Done(g, k, i)
    <3>1. \A i \in 1..from[k] : Done(g, k, i)
      BY <1>1 DEF Committed, Fulfilled, from
    <3>2. from[k] \in Nat /\ upto[k] \in Nat /\ Len(log[topic][k]) \in Nat
      BY <1>1, <1>4, Partition DEF Offsets
    <3>3. QED
      BY <1>4, <3>1, <3>2
  <2>3. \A i \in 1..from[k] : Done(g, k, i)'
    BY <1>1, <1>9, <2>1, <2>2, DoneStays DEF topic
  <2>4. QED
    BY <1>2, <1>4, <1>6, <1>8, <2>3 DEF Works, Records, g, topic
<1>11. QED
  BY <1>2, <1>8, <1>9, <1>10, SameRelays, QuietKeeps

\* A group commits what one of its workers has written.
LEMMA CommitKeeps ==
    ASSUME IInv, NEW w \in Workers, commit(w)
    PROVE  IInv'
<1> DEFINE g == Role[w]
<1>1. TypeOK /\ Working /\ g \in Groups
  BY Roles DEF IInv
<1>2. /\ UNCHANGED <<installed, activations, receipts, outbox, quarantined, seen, log, owner,
                     relay, store, faults>>
      /\ work[w].pc = "written" /\ work' = [work EXCEPT ![w] = Idle]
      /\ committed' = committed \/ committed' = [committed EXCEPT ![g] = work[w].upto]
  BY DEF commit, tables
<1>3. Idle \in Batch
  BY DEF Idle, Batch, NoOffsets, Offsets
<1>4. work[w].upto \in Offsets
  BY <1>1 DEF TypeOK, Batch
<1> HIDE DEF g
<1>5. /\ work' \in [Workers -> Batch] /\ work'[w] = Idle
      /\ \A v \in Workers : v # w => work'[v] = work[v]
  BY <1>1, <1>2, <1>3 DEF TypeOK
<1>6. /\ committed' \in [Groups -> Offsets]
      /\ \A h \in Groups : committed'[h] = committed[h] \/ (h = g /\ committed'[h] = work[w].upto)
  <2>1. committed \in [Groups -> Offsets]
    BY <1>1 DEF TypeOK
  <2>2. CASE committed' = committed
    BY <2>1, <2>2
  <2>3. CASE committed' = [committed EXCEPT ![g] = work[w].upto]
    BY <1>1, <1>4, <2>1, <2>3
  <2>4. QED
    BY <1>2, <2>2, <2>3
<1>7. TypeOK'
  BY <1>1, <1>2, <1>5, <1>6 DEF TypeOK
<1>8. Grows /\ Traced' /\ Marks'
  BY <1>2, SameTables
<1>9. ASSUME NEW k \in Keys, committed'[g] = work[w].upto
      PROVE  Fulfilled(g, k)'
  <2> DEFINE topic == TopicOf(g)
  <2>1. /\ work[w].upto[k] <= Len(log[topic][k])
        /\ \A i \in 1..work[w].upto[k] : Done(g, k, i)
    BY <1>1, <1>2 DEF Working, Works, Records, g
  <2>2. work[w].upto[k] \in Nat /\ Len(log[topic][k]) \in Nat /\ topic \in Topics
    BY <1>1, <1>4, Roles, Partition DEF Offsets
  <2>3. \A i \in 1..work[w].upto[k] : i \in 1..Len(log[topic][k]) /\ Done(g, k, i)
    BY <2>1, <2>2
  <2>4. \A i \in 1..work[w].upto[k] : Done(g, k, i)'
    BY <1>1, <1>7, <1>8, <2>3, DoneStays
  <2>5. QED
    BY <1>2, <1>9, <2>1, <2>4 DEF Fulfilled
<1>10. QED
  BY <1>2, <1>5, <1>6, <1>7, <1>8, <1>9, SameRelays, Keeps

\* A position belongs to one event of the batch.
LEMMA PositionOf ==
    ASSUME TypeOK, NEW w \in Workers, NEW p \in Positions(w)
    PROVE  /\ p[1] \in Keys /\ p[2] \in Nat /\ p = <<p[1], p[2]>>
           /\ p[2] \in work[w].from[p[1]] + 1 .. work[w].upto[p[1]]
<1>1. PICK k \in Keys : p \in {k} \X (work[w].from[k] + 1 .. work[w].upto[k])
  BY DEF Positions
<1>2. work[w].from[k] \in Nat /\ work[w].upto[k] \in Nat
  BY DEF TypeOK, Batch, Offsets
<1>3. p[1] = k /\ p[2] \in work[w].from[k] + 1 .. work[w].upto[k] /\ p = <<p[1], p[2]>>
  BY <1>1
<1>4. QED
  BY <1>2, <1>3

\* The position after those the batch begins with, and the ones that follow.
LEMMA PositionIn ==
    ASSUME NEW w \in Workers, NEW k \in Keys, NEW i \in work[w].from[k] + 1 .. work[w].upto[k]
    PROVE  <<k, i>> \in Positions(w)
BY DEF Positions

\* A position that was sent.
LEMMA SentType ==
    ASSUME TypeOK, NEW w \in Workers, NEW k \in Keys, NEW i \in Nat, Sent(w, k, i)
    PROVE  /\ work' \in [Workers -> Batch] /\ work'[w].pc = work[w].pc
           /\ work'[w].from = work[w].from /\ work'[w].upto = work[w].upto
           /\ work'[w].sent = work[w].sent \cup {<<k, i>>}
           /\ \A v \in Workers : v # w => work'[v] = work[v]
<1> DEFINE sent == work[w].sent \cup {<<k, i>>}
           new  == [work[w] EXCEPT !.sent = sent]
<1>1. work \in [Workers -> Batch] /\ work' = [work EXCEPT ![w] = new]
  BY DEF TypeOK, Sent
<1>2. sent \in SUBSET (Keys \X Nat)
  BY <1>1 DEF Batch
<1> HIDE DEF sent
<1>3. /\ new \in Batch /\ new.pc = work[w].pc /\ new.from = work[w].from /\ new.upto = work[w].upto
      /\ new.sent = sent
  BY <1>1, <1>2 DEF Batch
<1> HIDE DEF new
<1>4. QED
  BY <1>1, <1>3 DEF sent

\* A batch that was written.
LEMMA WrittenType ==
    ASSUME TypeOK, NEW w \in Workers, Written(w)
    PROVE  /\ work' \in [Workers -> Batch] /\ work'[w].pc = "written"
           /\ work'[w].from = work[w].from /\ work'[w].upto = work[w].upto
           /\ work'[w].sent = work[w].sent
           /\ \A v \in Workers : v # w => work'[v] = work[v]
BY DEF TypeOK, Batch, Written

\* A record of the batch.
LEMMA RecordOf ==
    ASSUME IInv, NEW w \in Workers, NEW k \in Keys, NEW i \in work[w].from[k] + 1 .. work[w].upto[k]
    PROVE  /\ i \in 1..Len(Records(w)[k]) /\ i \in 1..work[w].upto[k] /\ Records(w)[k][i] \in Record
           /\ Accepted(k) /\ receipts[k] \in Receipt
<1> DEFINE topic == TopicOf(Role[w])
<1>1. TypeOK /\ Traced /\ topic \in Topics /\ Records(w) = log[topic]
  BY Roles DEF IInv, Records
<1>2. /\ work[w].from[k] \in Nat /\ work[w].upto[k] \in Nat /\ Len(log[topic][k]) \in Nat
      /\ work[w].upto[k] <= Len(log[topic][k])
  BY <1>1, Partition DEF IInv, Working, Works, TypeOK, Batch, Offsets
<1>3. i \in 1..Len(log[topic][k]) /\ i \in 1..work[w].upto[k] /\ Len(log[topic][k]) # 0
  BY <1>2
<1> HIDE DEF topic
<1>4. QED
  BY <1>1, <1>3, Partition, RecordsAccepted

\* Normalizing a record keeps its generation.
LEMMA TransformType ==
    ASSUME TypeOK, NEW w \in Normalizers, NEW k \in Keys, receipts[k] \in Receipt, NEW record \in Record
    PROVE  /\ Transform(w, k, record) \in Record
           /\ Transform(w, k, record).generation = record.generation
<1> DEFINE receipt == receipts[k]
           version == installed[w][receipt.integration]
           time == IF version # None /\ version = record.version
                   THEN Parse[<<receipt.integration, version, receipt.payload>>] ELSE None
<1>1. receipt.integration \in Packages /\ receipt.payload \in Payloads
  BY DEF Receipt
<1>2. installed[w] \in [Packages -> Versions \cup {None}]
  BY PipelineAssumption DEF TypeOK
<1>3. version \in Versions \cup {None}
  BY <1>1, <1>2
<1>4. time \in Times \cup {None}
  <2>1. CASE version # None /\ version = record.version
    <3>1. <<receipt.integration, version, receipt.payload>> \in Packages \X Versions \X Payloads
      BY <1>1, <1>3, <2>1
    <3>2. QED
      BY <2>1, <3>1, PipelineAssumption
  <2>2. QED
    BY <2>1
<1>5. Transform(w, k, record) = [record EXCEPT !.time = time]
  BY DEF Transform
<1> HIDE DEF time
<1>6. QED
  BY <1>4, <1>5 DEF Record

\* The normalizer sends one output.
LEMMA PublishKeeps ==
    ASSUME IInv, NEW w \in Workers, Role[w] = "normalizer", work[w].pc = "busy",
           NEW k \in Keys, NEW i \in work[w].from[k] + 1 .. work[w].upto[k], publish(w, k, i)
    PROVE  IInv'
<1> DEFINE out == Output(w, k, i)
           topic == OutTopic(out)
<1>1. TypeOK /\ Traced /\ Relayed /\ Marks /\ Working /\ w \in Normalizers
  BY DEF IInv, Normalizers
<1>2. /\ UNCHANGED <<installed, activations, receipts, outbox, quarantined, seen, committed, owner,
                     relay, store, faults>>
      /\ Appends(topic, k, out) /\ Sent(w, k, i)
  BY DEF publish, tables, Appends
<1>3. /\ Records(w) = log["raw"] /\ i \in 1..Len(log["raw"][k]) /\ log["raw"][k][i] \in Record
      /\ Accepted(k) /\ receipts[k] \in Receipt /\ i \in Nat
  <2>1. Records(w) = log["raw"]
    BY DEF Records, TopicOf
  <2>2. QED
    BY <2>1, RecordOf
<1>4. out \in Record /\ out.generation = log["raw"][k][i].generation
  BY <1>1, <1>3, TransformType DEF Output
<1>5. topic \in {"normal", "error"} /\ topic \in Topics /\ (out.time # None => topic = "normal")
  BY DEF OutTopic, Topics
<1> HIDE DEF out, topic
<1>6. /\ log' \in [Topics -> [Keys -> Seq(Record)]] /\ LogGrows
      /\ \A t \in Topics, q \in Keys : t # topic \/ q # k => log'[t][q] = log[t][q]
      /\ Len(log'[topic][k]) = Len(log[topic][k]) + 1 /\ log'[topic][k] # <<>>
      /\ log'[topic][k][Len(log[topic][k]) + 1] = out
  BY <1>1, <1>2, <1>4, <1>5, Appended
<1>7. /\ work' \in [Workers -> Batch] /\ work'[w].pc = "busy"
      /\ work'[w].from = work[w].from /\ work'[w].upto = work[w].upto
      /\ work'[w].sent = work[w].sent \cup {<<k, i>>}
      /\ \A v \in Workers : v # w => work'[v] = work[v]
  BY <1>1, <1>2, <1>3, SentType
<1>8. TypeOK'
  BY <1>1, <1>2, <1>6, <1>7 DEF TypeOK
<1>9. Grows
  BY <1>2, <1>6 DEF Grows, ReceiptsGrow, StoresGrow, Accepted
<1>10. \A t \in Topics, q \in Keys : log[t][q] # <<>> => log'[t][q] # <<>>
  BY <1>6
<1>11. "raw" \in Topics /\ "normal" \in Topics
  BY DEF Topics
<1>12. Relayed'
  <2>1. \A r \in Relays : \A row \in relay[r].sent : row.key \in Keys
    BY <1>1 DEF Relayed, TypeOK, Row
  <2>2. QED
    BY <1>1, <1>2, <1>10, <1>11, <2>1 DEF Relayed
<1>13. Traced'
  <2>1. ASSUME NEW q \in Keys, ~ Accepted(q)
        PROVE  \A t \in Topics : log'[t][q] = <<>>
    <3>1. q # k
      BY <1>3, <2>1
    <3>2. \A t \in Topics : log'[t][q] = log[t][q]
      BY <1>6, <3>1
    <3>3. QED
      BY <1>1, <2>1, <3>2 DEF Traced
  <2>2. QED
    BY <1>1, <1>2, <1>10, <1>11, <2>1 DEF Traced, Accepted
<1>14. Marks'
  BY <1>1, <1>2, <1>10, <1>11 DEF Marks, Marked, Accepted, Open
<1>15. Done("normalizer", k, i)'
  <2>1. log'["raw"][k][i] = log["raw"][k][i]
    BY <1>3, <1>6, <1>11 DEF LogGrows
  <2>2. Len(log[topic][k]) + 1 \in DOMAIN log'[topic][k]
    <3>1. Len(log[topic][k]) \in Nat /\ log'[topic][k] \in Seq(Record)
      BY <1>1, <1>5, <1>6, Partition
    <3>2. QED
      BY <1>6, <3>1
  <2>3. QED
    BY <1>4, <1>5, <1>6, <2>1, <2>2, Roles DEF Done
<1>16. Output(w, k, i)' = out
  BY <1>1, <1>2, <1>3, <1>8, <1>9, OutputStays DEF out
<1>17. ASSUME NEW q \in Keys
       PROVE  Works(w, q)'
  <2>1. ASSUME NEW j \in Nat, <<q, j>> \in work'[w].sent, <<q, j>> \notin work[w].sent
        PROVE  q = k /\ j = i
    <3>1. <<q, j>> = <<k, i>>
      BY <1>7, <2>1
    <3>2. QED
      BY <3>1
  <2>2. Output(w, k, i)'.time # None => log'["normal"][k] # <<>>
    BY <1>5, <1>6, <1>16
  <2>3. Works(w, q)
    BY <1>1 DEF Working
  <2>4. QED
    BY <1>1, <1>2, <1>7, <1>8, <1>9, <1>15, <2>1, <2>2, <2>3, WorkGoesOn
<1>18. QED
  BY <1>2, <1>7, <1>8, <1>9, <1>12, <1>13, <1>14, <1>17, Keeps

\* A store takes one record.
LEMMA StoreKeeps ==
    ASSUME IInv, NEW w \in Workers, Role[w] \in Stages, work[w].pc = "busy",
           NEW k \in Keys, NEW i \in work[w].from[k] + 1 .. work[w].upto[k], keep(w, k, i)
    PROVE  IInv'
<1> DEFINE g == Role[w]
           record == Records(w)[k][i]
<1>1. TypeOK /\ Traced /\ Marks /\ Working /\ g \in Stages /\ g \in Groups /\ g \notin {"normalizer", "detector", "quarantine"}
  BY Roles DEF IInv
<1>2. /\ UNCHANGED <<installed, activations, receipts, outbox, quarantined, seen, log, committed, owner,
                     relay, faults>>
      /\ store' = [store EXCEPT ![g][k] = @ \cup {record}] /\ Sent(w, k, i)
  BY DEF keep, tables, kafka
<1>3. record \in Record /\ i \in Nat
  BY <1>1, RecordOf DEF TypeOK, Batch, Offsets
<1>4. /\ store' \in [Stages -> [Keys -> SUBSET Record]] /\ record \in store'[g][k]
      /\ \A s \in Stages, q \in Keys : store[s][q] \subseteq store'[s][q]
  <2> DEFINE new == [store[g] EXCEPT ![k] = store[g][k] \cup {record}]
  <2>1. /\ store \in [Stages -> [Keys -> SUBSET Record]] /\ store[g] \in [Keys -> SUBSET Record]
        /\ store' = [store EXCEPT ![g] = new]
    BY <1>1, <1>2 DEF TypeOK
  <2> HIDE DEF record
  <2>2. /\ new \in [Keys -> SUBSET Record] /\ record \in new[k]
        /\ \A q \in Keys : store[g][q] \subseteq new[q]
    BY <1>3, <2>1
  <2> HIDE DEF new, g
  <2>3. QED
    BY <1>1, <2>1, <2>2
<1>5. /\ work' \in [Workers -> Batch] /\ work'[w].pc = "busy"
      /\ work'[w].from = work[w].from /\ work'[w].upto = work[w].upto
      /\ work'[w].sent = work[w].sent \cup {<<k, i>>}
      /\ \A v \in Workers : v # w => work'[v] = work[v]
  BY <1>1, <1>2, <1>3, SentType
<1>6. TypeOK'
  BY <1>1, <1>2, <1>4, <1>5 DEF TypeOK
<1>7. Grows
  <2>1. \A topic \in Topics, q \in Keys : Len(log[topic][q]) \in Nat
    BY <1>1, Partition
  <2>2. QED
    BY <1>2, <1>4, <2>1 DEF Grows, LogGrows, ReceiptsGrow, StoresGrow, Accepted
<1>8. Traced' /\ Relayed'
  BY <1>1, <1>2, SameRelays DEF Traced, Accepted
<1>9. Marks'
  <2>1. ASSUME NEW q \in Keys, Accepted(q)
        PROVE  receipts[q].stored \subseteq Stages
    BY <1>1, <2>1 DEF TypeOK, Accepted, Receipt
  <2>2. QED
    BY <1>1, <1>2, <1>4, <2>1 DEF Marks, Marked, Accepted, Open
<1>10. Done(g, k, i)'
  BY <1>1, <1>2, <1>4 DEF Done, Records
<1>11. ASSUME NEW q \in Keys
       PROVE  Works(w, q)'
  <2>1. ASSUME NEW j \in Nat, <<q, j>> \in work'[w].sent, <<q, j>> \notin work[w].sent
        PROVE  q = k /\ j = i
    <3>1. <<q, j>> = <<k, i>>
      BY <1>5, <2>1
    <3>2. QED
      BY <3>1
  <2>2. Works(w, q)
    BY <1>1 DEF Working
  <2>3. QED
    BY <1>1, <1>2, <1>5, <1>6, <1>7, <1>10, <2>1, <2>2, WorkGoesOn
<1>12. QED
  BY <1>2, <1>5, <1>6, <1>7, <1>8, <1>9, <1>11, Keeps

\* A worker that has written all that its batch asks for.
LEMMA WriteWorks ==
    ASSUME IInv, TypeOK', Grows, NEW w \in Workers, Written(w), UNCHANGED installed,
           \A k \in Keys : \A i \in work[w].from[k] + 1 .. work[w].upto[k] : Done(Role[w], k, i)'
    PROVE  /\ \A k \in Keys : Works(w, k)'
           /\ \A v \in Workers : v # w => work'[v] = work[v]
<1>1. TypeOK /\ Traced /\ Working
  BY DEF IInv
<1>2. /\ work'[w].from = work[w].from /\ work'[w].upto = work[w].upto
      /\ work'[w].sent = work[w].sent /\ \A v \in Workers : v # w => work'[v] = work[v]
  BY <1>1, WrittenType
<1>3. ASSUME NEW k \in Keys
      PROVE  Works(w, k)'
  <2> DEFINE g == Role[w]
             topic == TopicOf(g)
  <2>1. work[w].from[k] \in Nat /\ work[w].upto[k] \in Nat
    BY <1>1 DEF TypeOK, Batch, Offsets
  <2>2. g \in Groups /\ topic \in Topics
    BY Roles
  <2>3. Len(log[topic][k]) \in Nat
    BY <1>1, <2>2, Partition
  <2>4. /\ work[w].from[k] \in Nat /\ work[w].upto[k] \in Nat /\ g \in Groups /\ topic \in Topics
        /\ Len(log[topic][k]) \in Nat
    BY <2>1, <2>2, <2>3
  <2>5. Works(w, k) /\ work[w].from[k] <= work[w].upto[k] /\ work[w].upto[k] <= Len(log[topic][k])
        /\ \A i \in 1..work[w].from[k] : Done(g, k, i)
    BY <1>1 DEF Working, Works, Records
  <2> HIDE DEF g, topic
  <2>6. \A i \in 1..work[w].from[k] : i \in 1..Len(log[topic][k])
    BY <2>4, <2>5
  <2>7. \A i \in 1..work[w].from[k] : Done(g, k, i)'
    BY <1>1, <2>4, <2>5, <2>6, DoneStays DEF topic
  <2>8. \A i \in 1..work[w].upto[k] : i \in 1..work[w].from[k] \/ i \in work[w].from[k] + 1 .. work[w].upto[k]
    BY <2>4
  <2>9. \A i \in 1..work[w].upto[k] : Done(g, k, i)'
    BY <2>7, <2>8 DEF g
  <2>10. QED
    BY <1>1, <1>2, <2>5, <2>9, WorkGoesOn DEF g
<1>4. QED
  BY <1>2, <1>3

\* Rows and receipts that change when a batch is written.
LEMMA WriteKeeps ==
    ASSUME IInv, NEW w \in Workers, Written(w),
           UNCHANGED <<installed, activations, outbox, log, committed, owner, relay, store, faults>>,
           receipts' \in [Keys -> Receipt \cup {None}], ReceiptsGrow, StoresGrow,
           \A k \in Keys : Accepted(k)' => Accepted(k),
           \A k \in Keys : ~ Accepted(k) => quarantined'[k] = None /\ seen'[k] = None,
           quarantined' \in [Keys -> [attempts : 0..MaxReplays, resolved : BOOLEAN] \cup {None}],
           seen' \in [Keys -> Record \cup {None}],
           \A k \in Keys : \A i \in work[w].from[k] + 1 .. work[w].upto[k] : Done(Role[w], k, i)',
           Marks'
    PROVE  IInv'
<1>1. TypeOK /\ Traced
  BY DEF IInv
<1>2. TypeOK'
  BY <1>1, WrittenType DEF TypeOK
<1>3. Grows
  <2>1. \A topic \in Topics, q \in Keys : Len(log[topic][q]) \in Nat
    BY <1>1, Partition
  <2>2. QED
    BY <2>1 DEF Grows, LogGrows
<1>4. Traced'
  BY <1>1 DEF Traced, ReceiptsGrow
<1>5. QED
  BY <1>2, <1>3, <1>4, WriteWorks, SameRelays, Keeps

\* An event of the batch has a record there.
LEMMA TouchedIn ==
    ASSUME IInv, NEW w \in Workers, NEW k \in Keys
    PROVE  /\ k \in Touched(w) <=> work[w].from[k] + 1 \in work[w].from[k] + 1 .. work[w].upto[k]
           /\ \A i \in work[w].from[k] + 1 .. work[w].upto[k] : k \in Touched(w) /\ i \in Nat
           /\ k \in Touched(w) => Accepted(k) /\ receipts[k] \in Receipt
<1>1. work[w].from[k] \in Nat /\ work[w].upto[k] \in Nat
  BY DEF IInv, TypeOK, Batch, Offsets
<1>2. k \in Touched(w) <=> work[w].from[k] + 1 \in work[w].from[k] + 1 .. work[w].upto[k]
  BY <1>1 DEF Touched
<1>3. \A i \in work[w].from[k] + 1 .. work[w].upto[k] : k \in Touched(w) /\ i \in Nat
  BY <1>1 DEF Touched
<1>4. k \in Touched(w) => Accepted(k) /\ receipts[k] \in Receipt
  BY <1>2, RecordOf
<1>5. QED
  BY <1>2, <1>3, <1>4

\* What a worker has sent is done.
LEMMA SentDone ==
    ASSUME IInv, NEW w \in Workers, Finished(w), NEW k \in Keys,
           NEW i \in work[w].from[k] + 1 .. work[w].upto[k]
    PROVE  /\ Done(Role[w], k, i)
           /\ Role[w] = "normalizer" /\ Output(w, k, i).time # None => log["normal"][k] # <<>>
<1>1. <<k, i>> \in work[w].sent
  BY PositionIn DEF Finished
<1>2. i \in Nat
  BY TouchedIn
<1>3. QED
  BY <1>1, <1>2 DEF IInv, Working, Works

\* Detection writes its batch.
LEMMA DetectKeeps ==
    ASSUME IInv, NEW w \in Workers, detect(w)
    PROVE  IInv'
<1> DEFINE fresh == Unseen(w)
<1>1. TypeOK /\ Traced /\ Marks
  BY DEF IInv
<1>2. /\ Role[w] = "detector" /\ Written(w)
      /\ UNCHANGED <<installed, activations, outbox, quarantined, log, committed, owner, relay, store, faults>>
      /\ \A k \in Keys : seen'[k] = IF k \in fresh THEN Records(w)[k][work[w].from[k] + 1] ELSE seen[k]
      /\ \A k \in Keys : receipts'[k] = IF k \in fresh THEN [receipts[k] EXCEPT !.detected = TRUE]
                                        ELSE receipts[k]
  BY DEF detect, packageVars, kafka
<1>3. ASSUME NEW k \in Keys, k \in fresh
      PROVE  /\ Accepted(k) /\ receipts[k] \in Receipt /\ k \in Touched(w)
             /\ Records(w)[k][work[w].from[k] + 1] \in Record
  <2>1. k \in Touched(w)
    BY <1>3 DEF Unseen
  <2>2. QED
    BY <2>1, TouchedIn, RecordOf
<1>4. ASSUME NEW k \in Keys, k \in Touched(w)
      PROVE  seen[k] # None \/ k \in fresh
  BY <1>4 DEF Unseen
<1>5. \A k \in Keys : k \in fresh => seen[k] = None
  BY DEF Unseen
<1>6. None \notin Record /\ None \notin Receipt
  BY PipelineAssumption
<1>7. /\ receipts' = [k \in Keys |-> receipts'[k]] /\ seen' = [k \in Keys |-> seen'[k]]
  BY DEF detect
<1> HIDE DEF fresh
<1>8. ASSUME NEW k \in Keys
      PROVE  /\ receipts'[k] \in Receipt \cup {None} /\ seen'[k] \in Record \cup {None}
             /\ receipts'[k] = None <=> receipts[k] = None
             /\ receipts'[k] = receipts[k] \/ k \in fresh
             /\ k \in fresh => receipts'[k] \in Receipt /\ receipts'[k].detected
                               /\ receipts'[k].integration = receipts[k].integration
                               /\ receipts'[k].payload = receipts[k].payload
                               /\ receipts'[k].normalized = receipts[k].normalized
                               /\ receipts'[k].stored = receipts[k].stored
  <2>1. CASE k \notin fresh
    BY <1>1, <1>2, <2>1 DEF TypeOK
  <2>2. CASE k \in fresh
    <3>1. receipts[k] \in Receipt /\ receipts'[k] = [receipts[k] EXCEPT !.detected = TRUE]
      BY <1>2, <1>3, <2>2
    <3>2. receipts'[k] \in Receipt /\ receipts'[k].detected
                               /\ receipts'[k].integration = receipts[k].integration
                               /\ receipts'[k].payload = receipts[k].payload
                               /\ receipts'[k].normalized = receipts[k].normalized
                               /\ receipts'[k].stored = receipts[k].stored
      BY <3>1 DEF Receipt
    <3>3. seen'[k] \in Record
      BY <1>2, <1>3, <2>2
    <3>4. QED
      BY <1>6, <2>2, <3>1, <3>2, <3>3
  <2>3. QED
    BY <2>1, <2>2
<1>9. /\ receipts' \in [Keys -> Receipt \cup {None}] /\ seen' \in [Keys -> Record \cup {None}]
  BY <1>7, <1>8
<1>10. ReceiptsGrow
  BY <1>8 DEF ReceiptsGrow, Accepted
<1>11. \A k \in Keys : IF k \in fresh THEN seen'[k] # None ELSE seen'[k] = seen[k]
  BY <1>2, <1>3, <1>6
<1>12. StoresGrow
  BY <1>2, <1>11 DEF StoresGrow
<1>13. \A k \in Keys : (Accepted(k)' <=> Accepted(k)) /\ (~ Accepted(k) => quarantined'[k] = None /\ seen'[k] = None)
  BY <1>1, <1>2, <1>3, <1>8, <1>11 DEF Traced, Accepted
<1>14. \A k \in Keys : \A i \in work[w].from[k] + 1 .. work[w].upto[k] : Done(Role[w], k, i)'
  <2>1. ASSUME NEW k \in Keys, NEW i \in work[w].from[k] + 1 .. work[w].upto[k]
        PROVE  seen'[k] # None
    <3>1. k \in Touched(w)
      BY TouchedIn
    <3>2. QED
      BY <1>4, <1>11, <3>1
  <2>2. QED
    BY <1>2, <2>1, Roles DEF Done
<1>15. Marks'
  <2>1. ASSUME NEW k \in Keys, Accepted(k)
        PROVE  Marked(k)'
    <3>1. Marked(k) /\ Accepted(k)
      BY <1>1, <2>1 DEF Marks
    <3>2. CASE k \notin fresh
      BY <1>2, <1>8, <1>11, <3>1, <3>2 DEF Marked, Open
    <3>3. CASE k \in fresh
      BY <1>2, <1>8, <1>11, <3>1, <3>3 DEF Marked, Open
    <3>4. QED
      BY <3>2, <3>3
  <2>2. QED
    BY <1>13, <2>1 DEF Marks, Marked
<1>16. quarantined' \in [Keys -> [attempts : 0..MaxReplays, resolved : BOOLEAN] \cup {None}]
  BY <1>1, <1>2 DEF TypeOK
<1>17. QED
  BY <1>2, <1>9, <1>10, <1>12, <1>13, <1>14, <1>15, <1>16, WriteKeeps

\* Quarantine writes its batch.
LEMMA QuarantineKeeps ==
    ASSUME IInv, NEW w \in Workers, quarantine(w)
    PROVE  IInv'
<1> DEFINE hit(k) == k \in Touched(w) /\ Unresolved(k)
           Row0   == [attempts : 0..MaxReplays, resolved : BOOLEAN]
<1>1. TypeOK /\ Traced /\ Marks
  BY DEF IInv
<1>2. /\ Role[w] = "quarantine" /\ Written(w)
      /\ UNCHANGED <<installed, activations, receipts, outbox, seen, log, committed, owner, relay, store, faults>>
      /\ quarantined' = [k \in Keys |-> IF hit(k) THEN RowAfter(k) ELSE quarantined[k]]
  BY DEF quarantine, packageVars, kafka
<1>3. \A k \in Keys : RowAfter(k) \in Row0 /\ (quarantined[k] # None => RowAfter(k) = quarantined[k])
  <2>1. NewRow \in Row0
    BY PipelineAssumption DEF NewRow
  <2>2. QED
    BY <1>1, <2>1 DEF TypeOK, RowAfter
<1>4. None \notin Row0
  BY PipelineAssumption
<1> HIDE DEF hit
<1>5. /\ quarantined' \in [Keys -> Row0 \cup {None}]
      /\ \A k \in Keys : quarantined'[k] = quarantined[k] \/ (hit(k) /\ quarantined[k] = None)
      /\ \A k \in Keys : hit(k) => quarantined'[k] # None
      /\ \A k \in Keys : quarantined[k] # None => quarantined'[k] # None
  BY <1>1, <1>2, <1>3, <1>4 DEF TypeOK
<1>6. \A k \in Keys : hit(k) => Accepted(k) /\ ~ receipts[k].normalized
  BY TouchedIn DEF hit, Unresolved
<1>7. ReceiptsGrow /\ StoresGrow
  BY <1>2, <1>5 DEF ReceiptsGrow, StoresGrow, Accepted
<1>8. \A k \in Keys : ~ Accepted(k) => quarantined'[k] = None /\ seen'[k] = None
  BY <1>1, <1>2, <1>5, <1>6 DEF Traced
<1>9. \A k \in Keys : \A i \in work[w].from[k] + 1 .. work[w].upto[k] : Done(Role[w], k, i)'
  <2>1. ASSUME NEW k \in Keys, NEW i \in work[w].from[k] + 1 .. work[w].upto[k]
        PROVE  Accepted(k)' /\ (receipts'[k].normalized \/ quarantined'[k] # None)
    <3>1. k \in Touched(w) /\ Accepted(k)
      BY TouchedIn
    <3>2. QED
      BY <1>2, <1>5, <3>1 DEF hit, Unresolved, Accepted
  <2>2. QED
    BY <1>2, <2>1, Roles DEF Done
<1>10. Marks'
  <2>1. ASSUME NEW k \in Keys, Accepted(k)
        PROVE  Marked(k)'
    <3>1. Marked(k)
      BY <1>1 DEF Marks
    <3>2. receipts[k].normalized => quarantined'[k] = quarantined[k]
      BY <1>5, <1>6
    <3>3. QED
      BY <1>2, <2>1, <3>1, <3>2 DEF Marked, Open
  <2>2. QED
    BY <1>2, <2>1 DEF Marks, Marked, Accepted
<1>11. receipts' \in [Keys -> Receipt \cup {None}] /\ seen' \in [Keys -> Record \cup {None}]
  BY <1>1, <1>2 DEF TypeOK
<1>12. \A k \in Keys : Accepted(k)' => Accepted(k)
  BY <1>2 DEF Accepted
<1>13. QED
  BY <1>2, <1>5, <1>7, <1>8, <1>9, <1>10, <1>11, <1>12, WriteKeeps

\* The normalizer marks and resolves what it has sent.
LEMMA MarkNormalizedKeeps ==
    ASSUME IInv, NEW w \in Workers, Role[w] = "normalizer", mark(w)
    PROVE  IInv'
<1> DEFINE hit  == Normalized(w)
           Row0 == [attempts : 0..MaxReplays, resolved : BOOLEAN]
<1>1. TypeOK /\ Traced /\ Marks /\ Role[w] \notin Stages
  BY Roles DEF IInv
<1>2. /\ Finished(w) /\ Written(w)
      /\ UNCHANGED <<installed, activations, outbox, seen, log, committed, owner, relay, store, faults>>
      /\ quarantined' = Resolved(hit)
      /\ receipts' = [k \in Keys |-> IF k \in hit THEN [receipts[k] EXCEPT !.normalized = TRUE]
                                     ELSE receipts[k]]
  BY <1>1 DEF mark, packageVars, kafka
<1>3. ASSUME NEW k \in Keys, k \in hit
      PROVE  receipts[k] \in Receipt /\ Accepted(k) /\ log["normal"][k] # <<>>
  <2>1. PICK i \in work[w].from[k] + 1 .. work[w].upto[k] : Output(w, k, i).time # None
    BY <1>3 DEF Normalized
  <2>2. log["normal"][k] # <<>>
    BY <1>2, <2>1, SentDone
  <2>3. QED
    BY <2>1, <2>2, RecordOf
<1>4. None \notin Receipt /\ None \notin Row0
  BY PipelineAssumption
<1> HIDE DEF hit
<1>5. ASSUME NEW k \in Keys
      PROVE  /\ receipts'[k] \in Receipt \cup {None}
             /\ receipts'[k] = receipts[k] \/ k \in hit
             /\ k \in hit => receipts'[k] \in Receipt
                             /\ receipts'[k].integration = receipts[k].integration
                             /\ receipts'[k].payload = receipts[k].payload
                             /\ receipts'[k].normalized
                             /\ receipts'[k].detected = receipts[k].detected
                             /\ receipts'[k].stored = receipts[k].stored
  <2>1. CASE k \notin hit
    BY <1>1, <1>2, <2>1 DEF TypeOK
  <2>2. CASE k \in hit
    <3>1. receipts[k] \in Receipt /\ receipts'[k] = [receipts[k] EXCEPT !.normalized = TRUE]
      BY <1>2, <1>3, <2>2
    <3>2. /\ receipts'[k] \in Receipt
          /\ receipts'[k].integration = receipts[k].integration
          /\ receipts'[k].payload = receipts[k].payload
          /\ receipts'[k].normalized
          /\ receipts'[k].detected = receipts[k].detected
          /\ receipts'[k].stored = receipts[k].stored
      BY <3>1 DEF Receipt
    <3>3. QED
      BY <2>2, <3>2
  <2>3. QED
    BY <2>1, <2>2
<1>6. receipts' \in [Keys -> Receipt \cup {None}]
  BY <1>2, <1>5
<1>7. ASSUME NEW k \in Keys
      PROVE  /\ quarantined'[k] \in Row0 \cup {None}
             /\ quarantined'[k] = None <=> quarantined[k] = None
             /\ k \notin hit => quarantined'[k] = quarantined[k]
             /\ k \in hit /\ quarantined'[k] # None => quarantined'[k].resolved
  <2>1. quarantined[k] \in Row0 \cup {None}
    BY <1>1 DEF TypeOK
  <2>2. quarantined'[k] = IF k \in hit /\ quarantined[k] # None
                          THEN [quarantined[k] EXCEPT !.resolved = TRUE] ELSE quarantined[k]
    BY <1>2 DEF Resolved
  <2>3. CASE k \in hit /\ quarantined[k] # None
    <3>1. quarantined'[k] \in Row0 /\ quarantined'[k].resolved
      BY <2>1, <2>2, <2>3
    <3>2. QED
      BY <1>4, <2>3, <3>1
  <2>4. CASE ~ (k \in hit /\ quarantined[k] # None)
    BY <2>1, <2>2, <2>4
  <2>5. QED
    BY <2>3, <2>4
<1>8. quarantined' \in [Keys -> Row0 \cup {None}]
  <2>1. quarantined' = [k \in Keys |-> quarantined'[k]]
    BY <1>2 DEF Resolved
  <2>2. QED
    BY <1>7, <2>1
<1>9. \A k \in Keys : Accepted(k)' <=> Accepted(k)
  BY <1>3, <1>4, <1>5 DEF Accepted
<1>10. ReceiptsGrow /\ StoresGrow
  BY <1>2, <1>5, <1>7, <1>9 DEF ReceiptsGrow, StoresGrow
<1>11. \A k \in Keys : ~ Accepted(k) => quarantined'[k] = None /\ seen'[k] = None
  BY <1>1, <1>2, <1>7 DEF Traced
<1>12. \A k \in Keys : \A i \in work[w].from[k] + 1 .. work[w].upto[k] : Done(Role[w], k, i)'
  <2>1. ASSUME NEW k \in Keys, NEW i \in work[w].from[k] + 1 .. work[w].upto[k]
        PROVE  Done("normalizer", k, i)'
    <3>1. Done("normalizer", k, i)
      BY <1>2, SentDone
    <3>2. QED
      BY <1>1, <1>2, <3>1, Roles DEF Done
  <2>2. QED
    BY <2>1
<1>13. Marks'
  <2>1. ASSUME NEW k \in Keys, Accepted(k)
        PROVE  Marked(k)'
    <3>1. Marked(k) /\ Accepted(k)
      BY <1>1, <2>1 DEF Marks
    <3>2. CASE k \notin hit
      BY <1>2, <1>5, <1>7, <3>1, <3>2 DEF Marked, Open
    <3>3. CASE k \in hit
      BY <1>2, <1>3, <1>5, <1>7, <3>1, <3>3 DEF Marked, Open
    <3>4. QED
      BY <3>2, <3>3
  <2>2. QED
    BY <1>9, <2>1 DEF Marks, Marked
<1>14. seen' \in [Keys -> Record \cup {None}]
  BY <1>1, <1>2 DEF TypeOK
<1>15. QED
  BY <1>2, <1>6, <1>8, <1>9, <1>10, <1>11, <1>12, <1>13, <1>14, WriteKeeps

\* A store marks what it has taken.
LEMMA MarkStoredKeeps ==
    ASSUME IInv, NEW w \in Workers, Role[w] \in Stages, mark(w)
    PROVE  IInv'
<1> DEFINE hit == Touched(w)
           g   == Role[w]
<1>1. TypeOK /\ Traced /\ Marks /\ g \in Stages /\ g # "normalizer" /\ TopicOf(g) \in Topics
  BY Roles DEF IInv
<1>2. /\ Finished(w) /\ Written(w)
      /\ UNCHANGED <<installed, activations, outbox, quarantined, seen, log, committed, owner, relay, store, faults>>
      /\ receipts' = [k \in Keys |-> IF k \in hit THEN [receipts[k] EXCEPT !.stored = @ \cup {g}]
                                     ELSE receipts[k]]
  BY <1>1 DEF mark, packageVars, kafka
<1>3. ASSUME NEW k \in Keys, k \in hit
      PROVE  receipts[k] \in Receipt /\ Accepted(k) /\ store[g][k] # {}
  <2>1. receipts[k] \in Receipt /\ Accepted(k) /\ work[w].from[k] + 1 \in work[w].from[k] + 1 .. work[w].upto[k]
    BY <1>3, TouchedIn
  <2>2. Done(g, k, work[w].from[k] + 1)
    BY <1>2, <2>1, SentDone
  <2>3. QED
    BY <1>1, <2>1, <2>2 DEF Done
<1> HIDE DEF hit
<1>4. ASSUME NEW k \in Keys
      PROVE  /\ receipts'[k] \in Receipt \cup {None}
             /\ receipts'[k] = receipts[k] \/ k \in hit
             /\ k \in hit => receipts'[k] \in Receipt
                             /\ receipts'[k].integration = receipts[k].integration
                             /\ receipts'[k].payload = receipts[k].payload
                             /\ receipts'[k].normalized = receipts[k].normalized
                             /\ receipts'[k].detected = receipts[k].detected
                             /\ receipts'[k].stored = receipts[k].stored \cup {g}
  <2>1. CASE k \notin hit
    BY <1>1, <1>2, <2>1 DEF TypeOK
  <2>2. CASE k \in hit
    <3>1. receipts[k] \in Receipt /\ receipts'[k] = [receipts[k] EXCEPT !.stored = @ \cup {g}]
      BY <1>2, <1>3, <2>2
    <3> HIDE DEF g
    <3>2. /\ receipts'[k] \in Receipt
          /\ receipts'[k].integration = receipts[k].integration
          /\ receipts'[k].payload = receipts[k].payload
          /\ receipts'[k].normalized = receipts[k].normalized
          /\ receipts'[k].detected = receipts[k].detected
          /\ receipts'[k].stored = receipts[k].stored \cup {g}
      BY <1>1, <3>1 DEF Receipt
    <3>3. QED
      BY <2>2, <3>2
  <2>3. QED
    BY <2>1, <2>2
<1>5. receipts' \in [Keys -> Receipt \cup {None}]
  BY <1>2, <1>4
<1>6. None \notin Receipt
  BY PipelineAssumption
<1>7. \A k \in Keys : Accepted(k)' <=> Accepted(k)
  BY <1>3, <1>4, <1>6 DEF Accepted
<1>8. ReceiptsGrow /\ StoresGrow
  BY <1>2, <1>4, <1>7 DEF ReceiptsGrow, StoresGrow
<1>9. \A k \in Keys : ~ Accepted(k) => quarantined'[k] = None /\ seen'[k] = None
  BY <1>1, <1>2 DEF Traced
<1>10. \A k \in Keys : \A i \in work[w].from[k] + 1 .. work[w].upto[k] : Done(g, k, i)'
  <2>1. ASSUME NEW k \in Keys, NEW i \in work[w].from[k] + 1 .. work[w].upto[k]
        PROVE  Done(g, k, i)'
    <3>1. Done(g, k, i)
      BY <1>2, SentDone
    <3>2. g \notin {"normalizer", "detector", "quarantine"}
      BY <1>1, Roles
    <3>3. QED
      BY <1>2, <3>1, <3>2 DEF Done
  <2>2. QED
    BY <2>1
<1>11. Marks'
  <2>1. ASSUME NEW k \in Keys, Accepted(k)
        PROVE  Marked(k)'
    <3>1. Marked(k) /\ Accepted(k)
      BY <1>1, <2>1 DEF Marks
    <3>2. CASE k \notin hit
      BY <1>2, <1>4, <3>1, <3>2 DEF Marked, Open
    <3>3. CASE k \in hit
      <4> HIDE DEF g
      <4>1. /\ receipts'[k].normalized => log["normal"][k] # <<>> /\ ~ Open(k)
            /\ receipts'[k].detected <=> seen[k] # None
        BY <1>4, <3>1, <3>3 DEF Marked
      <4>2. \A s \in receipts'[k].stored : store[s][k] # {}
        BY <1>3, <1>4, <3>1, <3>3 DEF Marked
      <4>3. QED
        BY <1>2, <4>1, <4>2 DEF Marked, Open
    <3>4. QED
      BY <3>2, <3>3
  <2>2. QED
    BY <1>7, <2>1 DEF Marks, Marked
<1>12. /\ seen' \in [Keys -> Record \cup {None}]
       /\ quarantined' \in [Keys -> [attempts : 0..MaxReplays, resolved : BOOLEAN] \cup {None}]
  BY <1>1, <1>2 DEF TypeOK
<1>13. QED
  BY <1>2, <1>5, <1>7, <1>8, <1>9, <1>10, <1>11, <1>12, WriteKeeps

\* A marking worker is one of the two.
LEMMA MarkKeeps ==
    ASSUME IInv, NEW w \in Workers, mark(w)
    PROVE  IInv'
<1>1. Role[w] = "normalizer" \/ Role[w] \in Stages
  BY DEF mark
<1>2. QED
  BY <1>1, MarkNormalizedKeeps, MarkStoredKeeps

\* A sending worker is the normalizer or a store.
LEMMA SendKeeps ==
    ASSUME IInv, NEW w \in Workers, send(w)
    PROVE  IInv'
<1>1. work[w].pc = "busy" /\ TypeOK
  BY DEF send, IInv
<1>2. PICK p \in Positions(w) : \/ (Role[w] = "normalizer" /\ publish(w, p[1], p[2]))
                                \/ (Role[w] \in Stages /\ keep(w, p[1], p[2]))
  BY DEF send
<1>3. p[1] \in Keys /\ p[2] \in work[w].from[p[1]] + 1 .. work[w].upto[p[1]]
  BY <1>1, PositionOf
<1>4. CASE Role[w] = "normalizer" /\ publish(w, p[1], p[2])
  BY <1>1, <1>3, <1>4, PublishKeeps
<1>5. CASE Role[w] \in Stages /\ keep(w, p[1], p[2])
  BY <1>1, <1>3, <1>5, StoreKeeps
<1>6. QED
  BY <1>2, <1>4, <1>5

\* Nothing is promised at first.
LEMMA InitInv ==
    Init => IInv
<1> SUFFICES ASSUME Init
             PROVE  IInv
  OBVIOUS
<1>1. Idle \in Batch /\ NoOffsets \in Offsets
  BY DEF Idle, Batch, NoOffsets, Offsets
<1>2. TypeOK
  <2>1. log \in [Topics -> [Keys -> Seq(Record)]]
    BY DEF Init
  <2>2. committed \in [Groups -> Offsets] /\ work \in [Workers -> Batch]
    BY <1>1 DEF Init
  <2>3. store \in [Stages -> [Keys -> SUBSET Record]]
    BY DEF Init
  <2>4. relay \in [Relays -> [rows : SUBSET Row, sent : SUBSET Row]]
    BY DEF Init
  <2>5. faults \in 0..MaxFaults
    BY PipelineAssumption DEF Init
  <2>6. QED
    BY <2>1, <2>2, <2>3, <2>4, <2>5 DEF Init, TypeOK
<1>3. Traced
  BY DEF Init, Traced, Accepted
<1>4. Relayed
  BY DEF Init, Relayed
<1>5. \A topic \in Topics, k \in Keys : log[topic][k] = <<>>
  BY DEF Init
<1>6. Committed
  <2>1. ASSUME NEW g \in Groups, NEW k \in Keys
        PROVE  Fulfilled(g, k)
    <3>1. committed[g][k] = 0
      BY DEF Init, NoOffsets
    <3>2. Len(log[TopicOf(g)][k]) \in Nat
      BY <1>2, Partition, Roles
    <3>3. QED
      BY <3>1, <3>2 DEF Fulfilled
  <2>2. QED
    BY <2>1 DEF Committed
<1>7. Working
  <2>1. ASSUME NEW w \in Workers, NEW k \in Keys
        PROVE  Works(w, k)
    <3>1. work[w].from[k] = 0 /\ work[w].upto[k] = 0 /\ work[w].sent = {} /\ work[w].pc = "idle"
      BY DEF Init, Idle, NoOffsets
    <3>2. Len(log[TopicOf(Role[w])][k]) \in Nat
      BY <1>2, Partition, Roles
    <3>3. QED
      BY <3>1, <3>2 DEF Works, Records
  <2>2. QED
    BY <2>1 DEF Working
<1>8. Marks
  BY DEF Init, Marks, Marked, Accepted
<1>9. QED
  BY <1>2, <1>3, <1>4, <1>6, <1>7, <1>8 DEF IInv

\* One step per action.
LEMMA StepInv ==
    IInv /\ [Next]_vars => IInv'
<1> SUFFICES ASSUME IInv, [Next]_vars
             PROVE  IInv'
  OBVIOUS
<1>1. CASE UNCHANGED vars
  <2>1. UNCHANGED <<receipts, outbox, quarantined, seen, log, store, committed>>
        /\ TypeOK' /\ Relayed' /\ UNCHANGED <<work, installed>>
    BY <1>1 DEF vars, IInv, TypeOK, Relayed
  <2>2. QED
    BY <2>1, QuietKeeps
<1>2. ASSUME NEW t \in Tenants, NEW p \in Packages, NEW batch \in SUBSET Requests, ingest(t, p, batch)
      PROVE  IInv'
  BY <1>2, IngestKeeps
<1>3. ASSUME NEW t \in Tenants, NEW p \in Packages, activate(t, p) \/ deactivate_integration(t, p)
      PROVE  IInv'
  BY <1>3, PackagesKeep
<1>4. ASSUME NEW k \in Keys, replay(k)
      PROVE  IInv'
  BY <1>4, ReplayKeeps
<1>5. ASSUME NEW r \in Relays, relay_step(r) \/ relay_restart(r)
      PROVE  IInv'
  <2>1. CASE take(r) \/ relay_restart(r)
    BY <2>1, LockKeeps
  <2>2. CASE deliver(r)
    BY <2>2, DeliverKeeps
  <2>3. CASE confirm(r)
    BY <2>3, ConfirmKeeps
  <2>4. QED
    BY <1>5, <2>1, <2>2, <2>3 DEF relay_step
<1>6. ASSUME NEW w \in Workers, worker_step(w)
      PROVE  IInv'
  <2>1. CASE read(w)
    BY <2>1, ReadKeeps
  <2>2. CASE send(w)
    BY <2>2, SendKeeps
  <2>3. CASE mark(w)
    BY <2>3, MarkKeeps
  <2>4. CASE detect(w)
    BY <2>4, DetectKeeps
  <2>5. CASE quarantine(w)
    BY <2>5, QuarantineKeeps
  <2>6. CASE commit(w)
    BY <2>6, CommitKeeps
  <2>7. QED
    BY <1>6, <2>1, <2>2, <2>3, <2>4, <2>5, <2>6 DEF worker_step
<1>7. ASSUME NEW w \in Workers, rebalance(w) \/ \E files \in Files : restart(w, files)
      PROVE  IInv'
  BY <1>7, ProcessKeeps
<1>8. ASSUME NEW files \in Files, gateway_restart(files)
      PROVE  IInv'
  BY <1>8, PackagesKeep
<1>9. QED
  BY <1>1, <1>2, <1>3, <1>4, <1>5, <1>6, <1>7, <1>8 DEF Next

\* The invariant holds in every reachable state.
LEMMA Inductive == Spec => []IInv
BY InitInv, StepInv, PTL DEF Spec

\* Every table, topic, batch and store holds what it is declared to hold.
THEOREM PipelineTypeCorrect == Spec => []TypeOK
<1>1. IInv => TypeOK
  BY DEF IInv
<1>2. QED
  BY <1>1, Inductive, PTL

-----------------------------------------------------------------------------
(* What the promises come to *)

\* Whatever a group has committed was published with its generation, evaluated,
\* quarantined or resolved, or stored; and a store's marker follows the store: no crash
\* or move of a group between the writes and the commit leaves a debt behind.
THEOREM PromisesKept == Spec => []CommittedIsDone
<1>1. ASSUME IInv
      PROVE  CommittedIsDone
  <2>1. TypeOK /\ Committed /\ Marks
    BY <1>1 DEF IInv
  <2>2. /\ \A g \in Groups, k \in Keys : committed[g][k] \in Nat
        /\ {"normalizer", "detector", "quarantine"} \subseteq Groups /\ Stages \subseteq Groups
    BY <2>1 DEF TypeOK, Offsets, Groups
  <2>3. \A g \in Groups, k \in Keys : \A i \in 1..committed[g][k] : Done(g, k, i)
    BY <2>1 DEF Committed, Fulfilled
  <2>4. ASSUME NEW k \in Keys
        PROVE  /\ \A i \in 1..committed["normalizer"][k] :
                     \E topic \in {"normal", "error"} : \E j \in DOMAIN log[topic][k] :
                        log[topic][k][j].generation = log["raw"][k][i].generation
               /\ committed["detector"][k] > 0 => seen[k] # None
               /\ committed["quarantine"][k] > 0 => receipts[k].normalized \/ quarantined[k] # None
               /\ \A s \in Stages : \A i \in 1..committed[s][k] :
                     log[TopicOf(s)][k][i] \in store[s][k]
               /\ Accepted(k) => \A s \in receipts[k].stored : store[s][k] # {}
    <3>1. \A i \in 1..committed["normalizer"][k] :
             \E topic \in {"normal", "error"} : \E j \in DOMAIN log[topic][k] :
                log[topic][k][j].generation = log["raw"][k][i].generation
      <4>1. \A i \in 1..committed["normalizer"][k] : Done("normalizer", k, i)
        BY <2>2, <2>3
      <4>2. QED
        BY <4>1 DEF Done
    <3>2. committed["detector"][k] > 0 => seen[k] # None
      <4>1. committed["detector"][k] > 0 => Done("detector", k, 1)
        BY <2>2, <2>3
      <4>2. QED
        BY <4>1 DEF Done
    <3>3. committed["quarantine"][k] > 0 => receipts[k].normalized \/ quarantined[k] # None
      <4>1. committed["quarantine"][k] > 0 => Done("quarantine", k, 1)
        BY <2>2, <2>3
      <4>2. QED
        BY <4>1 DEF Done
    <3>4. \A s \in Stages : \A i \in 1..committed[s][k] :
             log[TopicOf(s)][k][i] \in store[s][k]
      <4>1. \A s \in Stages : \A i \in 1..committed[s][k] : Done(s, k, i)
        BY <2>2, <2>3
      <4>2. QED
        BY <4>1 DEF Done
    <3>5. Accepted(k) => \A s \in receipts[k].stored : store[s][k] # {}
      BY <2>1 DEF Marks, Marked
    <3>6. QED
      BY <3>1, <3>2, <3>3, <3>4, <3>5
  <2>5. QED
    BY <2>4 DEF CommittedIsDone
<1>2. QED
  BY <1>1, Inductive, PTL

\* The markers of normalization and detection are set after the fact, and a normalized
\* event has no open quarantine row, whichever of the two transactions came first.
THEOREM MarkersHold == Spec => []MarkersAreHonest
<1>1. IInv => MarkersAreHonest
  BY DEF IInv, Marks, Marked, MarkersAreHonest
<1>2. QED
  BY <1>1, Inductive, PTL

\* No acknowledged event is lost between two stores: it waits in the outbox, as a record
\* some consumer has not committed, or it has reached the normalized topic or the quarantine.
THEOREM NothingIsLost == Spec => []NothingLost
<1>1. ASSUME IInv
      PROVE  NothingLost
  <2>1. TypeOK /\ Traced /\ Committed /\ Marks
    BY <1>1 DEF IInv
  <2>2. ASSUME NEW k \in Keys, Accepted(k), ~ \E row \in outbox : row.key = k,
               ~ (committed["normalizer"][k] < Len(log["raw"][k])), log["normal"][k] = <<>>,
               ~ (committed["quarantine"][k] < Len(log["error"][k]))
        PROVE  quarantined[k] # None
    <3>1. /\ "normalizer" \in Groups /\ "quarantine" \in Groups
          /\ "raw" \in Topics /\ "error" \in Topics /\ "normal" \in Topics
      BY DEF Groups, Topics
    <3>2. committed["normalizer"][k] \in Nat /\ committed["quarantine"][k] \in Nat
      BY <2>1, <3>1 DEF TypeOK, Offsets
    <3>3. Len(log["raw"][k]) \in Nat /\ Len(log["raw"][k]) # 0
      BY <2>1, <2>2, <3>1, Partition DEF Traced
    <3>4. 1 \in 1..committed["normalizer"][k]
      BY <2>2, <3>2, <3>3
    <3>5. Done("normalizer", k, 1)
      BY <2>1, <3>1, <3>4 DEF Committed, Fulfilled
    <3>6. PICK topic \in {"normal", "error"} : \E j \in DOMAIN log[topic][k] : TRUE
      BY <3>5 DEF Done
    <3>7. log[topic][k] # <<>>
      BY <3>6
    <3>8. log["error"][k] # <<>>
      BY <2>2, <3>6, <3>7
    <3>9. Len(log["error"][k]) \in Nat /\ Len(log["error"][k]) # 0
      BY <2>1, <3>1, <3>8, Partition
    <3>10. 1 \in 1..committed["quarantine"][k]
      BY <2>2, <3>2, <3>9
    <3>11. Done("quarantine", k, 1)
      BY <2>1, <3>1, <3>10 DEF Committed, Fulfilled
    <3>12. ~ receipts[k].normalized
      BY <2>1, <2>2 DEF Marks, Marked
    <3>13. QED
      BY <3>11, <3>12 DEF Done
  <2>3. QED
    BY <2>2 DEF NothingLost
<1>2. QED
  BY <1>1, Inductive, PTL

\* Detection evaluates an event once and keeps to the record it took, however often its
\* batch is read again.
THEOREM DetectsOnce == Spec => DetectedOnce
<1>1. [Next]_vars => [\A k \in Keys : seen[k] # None => seen'[k] = seen[k]]_vars
  <2> SUFFICES ASSUME [Next]_vars, NEW k \in Keys, seen[k] # None
               PROVE  seen'[k] = seen[k]
    OBVIOUS
  <2>1. CASE seen' = seen
    BY <2>1
  <2>2. CASE \E w \in Workers : detect(w)
    BY <2>2 DEF detect, Unseen
  <2>3. [Next]_vars => seen' = seen \/ \E w \in Workers : detect(w)
    <3>1. UNCHANGED vars => seen' = seen
      BY DEF vars
    <3>2. \A t \in Tenants, p \in Packages :
             activate(t, p) \/ deactivate_integration(t, p) => seen' = seen
      BY DEF activate, deactivate_integration
    <3>3. \A t \in Tenants, p \in Packages : \A batch \in SUBSET Requests :
             ingest(t, p, batch) => seen' = seen
      BY DEF ingest
    <3>4. \A q \in Keys : replay(q) => seen' = seen
      BY DEF replay
    <3>5. \A r \in Relays : relay_step(r) \/ relay_restart(r) => seen' = seen
      BY DEF relay_step, take, deliver, confirm, relay_restart, tables
    <3>6. \A w \in Workers : worker_step(w) => seen' = seen \/ detect(w)
      <4>1. \A w \in Workers : send(w) => seen' = seen
        BY DEF send, publish, keep, tables
      <4>2. QED
        BY <4>1 DEF worker_step, read, mark, quarantine, commit, tables
    <3>7. \A w \in Workers : rebalance(w) \/ (\E files \in Files : restart(w, files)) => seen' = seen
      BY DEF rebalance, restart, tables
    <3>8. \A files \in Files : gateway_restart(files) => seen' = seen
      BY DEF gateway_restart, tables
    <3>9. QED
      BY <3>1, <3>2, <3>3, <3>4, <3>5, <3>6, <3>7, <3>8 DEF Next
  <2>4. QED
    BY <2>1, <2>2, <2>3
<1>2. QED
  BY <1>1, PTL DEF Spec, DetectedOnce

-----------------------------------------------------------------------------
(* The distributed engine implements the event ledger *)

\* The attempts asked for so far.
Top(k) == IF quarantined[k] = None THEN 0 ELSE quarantined[k].attempts

Bounded ==
    \A k \in Keys :
        /\ \A row \in outbox : row.key = k => row.generation <= Top(k)
        /\ \A topic \in Topics : \A i \in 1..Len(log[topic][k]) :
              log[topic][k][i].generation <= Top(k)

Taken == \A k \in Keys : seen[k] # None => log["normal"][k] # <<>>

Current(w) ==
    owner[Role[w]] = w /\ work[w].pc # "idle" => work[w].from = committed[Role[w]]

Currents == \A w \in Workers : Current(w)

\* Where an event stands in the ledger, and what it has spent.
Standing(k) ==
    IF ~ Accepted(k) THEN "absent"
    ELSE IF seen[k] # None THEN "detected"
    ELSE IF log["normal"][k] # <<>> THEN "normalized"
    ELSE IF quarantined[k] # None /\ ErrorOfThisAttempt(k) THEN "quarantined"
    ELSE "queued"

Spent(k) == IF log["normal"][k] # <<>> \/ quarantined[k] = None THEN 0
            ELSE quarantined[k].attempts

Moves == Ledger!Next \/ UNCHANGED <<LedgerStatus, LedgerReplays>>

\* The mapping, event by event.
LEMMA Mapping ==
    /\ LedgerStatus = [k \in Keys |-> Standing(k)] /\ LedgerReplays = [k \in Keys |-> Spent(k)]
    /\ LedgerStatus' = [k \in Keys |-> Standing(k)'] /\ LedgerReplays' = [k \in Keys |-> Spent(k)']
BY DEF LedgerStatus, LedgerReplays, Standing, Spent

\* A quarantine row and the attempts it counts.
LEMMA TopType ==
    ASSUME TypeOK, NEW k \in Keys
    PROVE  /\ Top(k) \in 0..MaxReplays /\ Top(k) \in Nat
           /\ quarantined[k] # None => Top(k) = quarantined[k].attempts
           /\ quarantined[k] = None => Top(k) = 0
           /\ Spent(k) = IF log["normal"][k] # <<>> THEN 0 ELSE Top(k)
<1>1. quarantined[k] \in [attempts : 0..MaxReplays, resolved : BOOLEAN] \cup {None}
  BY DEF TypeOK
<1>2. 0 \in 0..MaxReplays
  BY PipelineAssumption
<1>3. QED
  BY <1>1, <1>2, PipelineAssumption DEF Top, Spent

\* The error records the quarantine has committed stay what they are.
LEMMA ErrorStays ==
    ASSUME IInv, LogGrows, NEW k \in Keys,
           committed'["quarantine"][k] = committed["quarantine"][k],
           quarantined'[k].attempts = quarantined[k].attempts
    PROVE  ErrorOfThisAttempt(k)' <=> ErrorOfThisAttempt(k)
<1>1. "quarantine" \in Groups /\ "error" \in Topics /\ TopicOf("quarantine") = "error"
  BY DEF Groups, Topics, TopicOf
<1>2. /\ committed["quarantine"][k] \in Nat /\ Len(log["error"][k]) \in Nat
      /\ committed["quarantine"][k] <= Len(log["error"][k])
  BY <1>1, Partition DEF IInv, TypeOK, Offsets, Committed, Fulfilled
<1>3. \A i \in 1..committed["quarantine"][k] : log'["error"][k][i] = log["error"][k][i]
  BY <1>1, <1>2 DEF LogGrows
<1>4. QED
  BY <1>3 DEF ErrorOfThisAttempt

\* A step that leaves an event where it is in the ledger.
LEMMA StandsStill ==
    ASSUME IInv, LogGrows, NEW k \in Keys,
           Accepted(k)' <=> Accepted(k), seen'[k] = None <=> seen[k] = None,
           log'["normal"][k] = <<>> <=> log["normal"][k] = <<>>,
           quarantined'[k] = None <=> quarantined[k] = None,
           quarantined[k] # None => quarantined'[k].attempts = quarantined[k].attempts,
           committed'["quarantine"][k] = committed["quarantine"][k]
    PROVE  Standing(k)' = Standing(k) /\ Spent(k)' = Spent(k)
<1>1. CASE quarantined[k] = None
  BY <1>1 DEF Standing, Spent
<1>2. CASE quarantined[k] # None
  <2>1. ErrorOfThisAttempt(k)' <=> ErrorOfThisAttempt(k)
    BY <1>2, ErrorStays
  <2>2. QED
    BY <1>2, <2>1 DEF Standing, Spent
<1>3. QED
  BY <1>1, <1>2

\* Topics that do not change grow by nothing.
LEMMA SameLog == ASSUME IInv, log' = log PROVE LogGrows
<1>1. \A topic \in Topics, k \in Keys : Len(log[topic][k]) \in Nat
  BY Partition DEF IInv
<1>2. QED
  BY <1>1 DEF LogGrows

-----------------------------------------------------------------------------
(* Steps the ledger does not see *)

Calm ==
    /\ UNCHANGED <<log, seen>> /\ outbox' \subseteq outbox
    /\ \A k \in Keys :
          /\ Accepted(k)' <=> Accepted(k)
          /\ quarantined'[k] = None <=> quarantined[k] = None
          /\ quarantined[k] # None => quarantined'[k].attempts = quarantined[k].attempts
          /\ committed'["quarantine"][k] = committed["quarantine"][k]

LEMMA CalmStutters ==
    ASSUME IInv, Bounded, Taken, Calm
    PROVE  Bounded' /\ Taken' /\ Moves
<1>1. LogGrows
  BY SameLog DEF Calm
<1>2. \A k \in Keys : Standing(k)' = Standing(k) /\ Spent(k)' = Spent(k)
  BY <1>1, StandsStill DEF Calm
<1>3. Moves
  BY <1>2, Mapping DEF Moves
<1>4. \A k \in Keys : Top(k)' = Top(k)
  BY DEF Calm, Top
<1>5. Bounded'
  BY <1>4 DEF Calm, Bounded
<1>6. Taken'
  BY DEF Calm, Taken
<1>7. QED
  BY <1>3, <1>5, <1>6

\* Packages, processes, groups, relays that lock or delete rows, batches that are read,
\* and records a store takes.
LEMMA CalmSteps ==
    ASSUME IInv,
           \/ UNCHANGED vars
           \/ \E t \in Tenants, p \in Packages : activate(t, p) \/ deactivate_integration(t, p)
           \/ \E files \in Files : gateway_restart(files)
           \/ \E r \in Relays : take(r) \/ confirm(r) \/ relay_restart(r)
           \/ \E w \in Workers : read(w) \/ rebalance(w)
           \/ \E w \in Workers, files \in Files : restart(w, files)
           \/ \E w \in Workers, k \in Keys, i \in Nat : keep(w, k, i)
    PROVE  Calm
<1>1. UNCHANGED <<log, seen, receipts, quarantined, committed>> /\ outbox' \subseteq outbox
  BY DEF vars, activate, deactivate_integration, gateway_restart, take, confirm, relay_restart,
         read, rebalance, restart, keep, tables, kafka
<1>2. QED
  BY <1>1 DEF Calm, Accepted

\* Marks change neither which events are accepted nor what attempts are counted.
LEMMA MarkIsCalm ==
    ASSUME IInv, NEW w \in Workers, mark(w)
    PROVE  Calm
<1>1. UNCHANGED <<log, seen, outbox, committed>>
  BY DEF mark, kafka
<1>2. None \notin Receipt /\ None \notin [attempts : 0..MaxReplays, resolved : BOOLEAN]
  BY PipelineAssumption
<1>3. ASSUME NEW k \in Keys
      PROVE  Accepted(k)' <=> Accepted(k)
  <2>1. k \in Normalized(w) \/ k \in Touched(w) => receipts[k] \in Receipt
    BY TouchedIn, RecordOf DEF Normalized
  <2>2. receipts[k] \in Receipt =>
           /\ [receipts[k] EXCEPT !.normalized = TRUE] \in Receipt
           /\ Role[w] \in Stages => [receipts[k] EXCEPT !.stored = @ \cup {Role[w]}] \in Receipt
    BY DEF Receipt
  <2>3. \/ receipts'[k] = receipts[k]
        \/ receipts[k] \in Receipt /\ receipts'[k] \in Receipt
    BY <2>1, <2>2 DEF mark
  <2>4. QED
    BY <1>2, <2>3 DEF Accepted
<1>4. ASSUME NEW k \in Keys
      PROVE  /\ quarantined'[k] = None <=> quarantined[k] = None
             /\ quarantined[k] # None => quarantined'[k].attempts = quarantined[k].attempts
  <2>1. quarantined[k] # None => quarantined[k] \in [attempts : 0..MaxReplays, resolved : BOOLEAN]
    BY DEF IInv, TypeOK
  <2>2. \/ quarantined'[k] = quarantined[k]
        \/ quarantined[k] # None /\ quarantined'[k] = [quarantined[k] EXCEPT !.resolved = TRUE]
    BY DEF mark, Resolved
  <2>3. QED
    BY <1>2, <2>1, <2>2
<1>5. QED
  BY <1>1, <1>3, <1>4 DEF Calm

-----------------------------------------------------------------------------
(* Requests and deliveries *)

\* A request accepts its fresh events.
LEMMA IngestAccepts ==
    ASSUME IInv, Bounded, Taken, NEW t \in Tenants, NEW p \in Packages,
           NEW batch \in SUBSET Requests, ingest(t, p, batch)
    PROVE  Bounded' /\ Taken' /\ Moves
<1> DEFINE S == {k \in Keys : \E e \in Fresh(t, batch) : k = <<t, e.id>>}
           rows == {[key |-> <<t, e.id>>, version |-> activations[<<t, p>>], generation |-> 0] :
                       e \in Fresh(t, batch)}
<1>1. TypeOK /\ Traced /\ LogGrows
  BY SameLog DEF IInv, ingest, kafka
<1>2. /\ UNCHANGED <<quarantined, seen, log, committed>>
      /\ outbox' = outbox \cup rows
  BY DEF ingest, packageVars, kafka
<1>3. ASSUME NEW k \in S
      PROVE  receipts[k] = None /\ receipts'[k] # None
  <2> DEFINE e == CHOOSE e \in Fresh(t, batch) : k = <<t, e.id>>
             receipt == [integration |-> p, payload |-> e.payload,
                         normalized |-> FALSE, detected |-> FALSE, stored |-> {}]
  <2>1. e \in Fresh(t, batch) /\ k = <<t, e.id>> /\ k \in Keys
    OBVIOUS
  <2>2. receipts[k] = None /\ e.payload \in Payloads
    BY <2>1 DEF Fresh, Requests
  <2>3. receipts'[k] = receipt
    BY <2>1 DEF ingest
  <2> HIDE DEF e
  <2>4. receipt \in Receipt
    BY <2>2 DEF Receipt
  <2>5. QED
    BY <2>2, <2>3, <2>4, PipelineAssumption
<1>4. \A k \in Keys \ S : receipts'[k] = receipts[k]
  BY DEF ingest
<1>5. \A row \in rows : row.generation = 0
  OBVIOUS
<1> HIDE DEF S, rows
<1>6. \A k \in Keys : Top(k)' = Top(k) /\ Top(k) \in Nat
  BY <1>1, <1>2, TopType DEF Top
<1>7. Bounded' /\ Taken'
  BY <1>2, <1>5, <1>6 DEF Bounded, Taken
<1>8. S \in SUBSET Keys
  BY DEF S
<1>9. ASSUME NEW k \in S
      PROVE  Standing(k) = "absent" /\ Standing(k)' = "queued" /\ Spent(k)' = Spent(k)
  <2>1. k \in Keys /\ seen[k] = None /\ log["normal"][k] = <<>> /\ quarantined[k] = None
    BY <1>1, <1>3, <1>8 DEF Traced, Accepted, Topics
  <2>2. QED
    BY <1>2, <1>3, <2>1 DEF Standing, Spent, Accepted
<1>10. ASSUME NEW k \in Keys \ S
       PROVE  Standing(k)' = Standing(k) /\ Spent(k)' = Spent(k)
  BY <1>1, <1>2, <1>4, StandsStill DEF Accepted
<1>11. \A k \in S : LedgerStatus[k] = "absent"
  BY <1>8, <1>9, Mapping
<1>12. LedgerStatus' = [k \in Keys |-> IF k \in S THEN "queued" ELSE LedgerStatus[k]]
  BY <1>8, <1>9, <1>10, Mapping
<1>13. UNCHANGED LedgerReplays
  BY <1>8, <1>9, <1>10, Mapping
<1>14. Ledger!Accept(S)
  BY <1>11, <1>12, <1>13 DEF Ledger!Accept, Ledger!Move
<1>15. QED
  BY <1>7, <1>8, <1>14 DEF Moves, Ledger!Next

\* A replay queues the event again, unless it was normalized in the meantime.
LEMMA ReplayReplays ==
    ASSUME IInv, Bounded, Taken, NEW k \in Keys, replay(k)
    PROVE  Bounded' /\ Taken' /\ Moves
<1> DEFINE Rows == [attempts : 0..MaxReplays, resolved : BOOLEAN]
           row  == [key |-> k, version |-> activations[<<k[1], receipts[k].integration>>],
                    generation |-> quarantined[k].attempts + 1]
<1>1. TypeOK /\ Traced /\ LogGrows /\ Committed
  BY SameLog DEF IInv, replay, kafka
<1>2. /\ UNCHANGED <<receipts, seen, log, committed>> /\ outbox' = outbox \cup {row}
      /\ quarantined[k] # None /\ quarantined[k].attempts < MaxReplays
      /\ quarantined' = [quarantined EXCEPT ![k] = [quarantined[k] EXCEPT !.attempts = @ + 1]]
  BY DEF replay, kafka, Replayable, Open
<1>3. quarantined \in [Keys -> Rows \cup {None}] /\ quarantined[k] \in Rows
  BY <1>1, <1>2 DEF TypeOK
<1>4. /\ [quarantined[k] EXCEPT !.attempts = @ + 1] \in Rows
      /\ [quarantined[k] EXCEPT !.attempts = @ + 1].attempts = quarantined[k].attempts + 1
      /\ quarantined[k].attempts \in Nat
  BY <1>2, <1>3, PipelineAssumption
<1>5. row.key = k /\ row.generation = quarantined[k].attempts + 1
  OBVIOUS
<1> HIDE DEF row
<1>6. /\ quarantined'[k] # None /\ quarantined'[k].attempts = quarantined[k].attempts + 1
      /\ \A q \in Keys : q # k => quarantined'[q] = quarantined[q]
  BY <1>2, <1>3, <1>4, PipelineAssumption
<1>7. /\ Top(k) = quarantined[k].attempts /\ Top(k)' = Top(k) + 1 /\ Top(k) \in Nat
      /\ \A q \in Keys : q # k => Top(q)' = Top(q)
  BY <1>2, <1>4, <1>6 DEF Top
<1>8. Bounded'
  <2>1. ASSUME NEW q \in Keys, NEW r \in outbox', r.key = q
        PROVE  r.generation <= Top(q)'
    <3>1. CASE r = row
      BY <1>5, <1>7, <2>1, <3>1
    <3>2. CASE r # row
      <4>1. r \in outbox /\ r.generation <= Top(q) /\ r.generation \in Nat /\ Top(q) \in Nat
        BY <1>1, <1>2, <2>1, <3>2, TopType DEF Bounded, TypeOK, Row
      <4>2. QED
        BY <1>7, <4>1
    <3>3. QED
      BY <3>1, <3>2
  <2>2. ASSUME NEW q \in Keys, NEW topic \in Topics, NEW i \in 1..Len(log[topic][q])
        PROVE  log[topic][q][i].generation <= Top(q)'
    <3>1. log[topic][q][i].generation <= Top(q) /\ log[topic][q][i].generation \in Nat
      BY <1>1, Partition DEF Bounded, Record
    <3>2. Top(q) \in Nat
      BY <1>1, TopType
    <3>3. QED
      BY <1>7, <3>1, <3>2
  <2>3. QED
    BY <1>2, <2>1, <2>2 DEF Bounded
<1>9. Taken'
  BY <1>2 DEF Taken
<1>10. \A q \in Keys : q # k => Standing(q)' = Standing(q) /\ Spent(q)' = Spent(q)
  BY <1>1, <1>2, <1>6, StandsStill DEF Accepted
<1>11. Accepted(k)
  BY <1>1, <1>2 DEF Traced
<1>12. CASE log["normal"][k] # <<>>
  <2>1. Standing(k)' = Standing(k) /\ Spent(k)' = Spent(k)
    BY <1>2, <1>11, <1>12 DEF Standing, Spent, Accepted
  <2>2. Moves
    BY <1>10, <2>1, Mapping DEF Moves
  <2>3. QED
    BY <1>8, <1>9, <2>2
<1>13. CASE log["normal"][k] = <<>>
  <2>1. seen[k] = None
    BY <1>13 DEF Taken
  <2>2. Spent(k) = Top(k) /\ Spent(k)' = Top(k) + 1
    BY <1>2, <1>6, <1>7, <1>13 DEF Spent, Top
  <2>3. Standing(k) = "quarantined" \/ (Standing(k) = "queued" /\ Spent(k) > 0)
    BY <1>2, <1>7, <1>11, <1>13, <2>1, <2>2 DEF Standing, ErrorOfThisAttempt
  <2>4. ~ ErrorOfThisAttempt(k)'
    <3>1. "quarantine" \in Groups /\ "error" \in Topics /\ TopicOf("quarantine") = "error"
      BY DEF Groups, Topics, TopicOf
    <3>2. /\ committed["quarantine"][k] \in Nat /\ Len(log["error"][k]) \in Nat
          /\ committed["quarantine"][k] <= Len(log["error"][k])
      BY <1>1, <3>1, Partition DEF TypeOK, Offsets, Committed, Fulfilled
    <3>3. ASSUME NEW i \in 1..committed["quarantine"][k]
          PROVE  log["error"][k][i].generation # Top(k) + 1
      <4>1. i \in 1..Len(log["error"][k])
        BY <3>2
      <4>2. log["error"][k][i] \in Record /\ log["error"][k][i].generation <= Top(k)
        BY <1>1, <3>1, <4>1, Partition DEF Bounded
      <4>3. log["error"][k][i].generation \in Nat
        BY <4>2 DEF Record
      <4>4. QED
        BY <1>7, <4>2, <4>3
    <3>4. QED
      BY <1>2, <1>6, <1>7, <3>3 DEF ErrorOfThisAttempt
  <2>5. Standing(k)' = "queued"
    BY <1>2, <1>11, <1>13, <2>1, <2>4 DEF Standing, Accepted
  <2>6. LedgerStatus' = [q \in Keys |-> IF q \in {k} THEN "queued" ELSE LedgerStatus[q]]
    BY <1>10, <2>5, Mapping
  <2>7. LedgerReplays' = [LedgerReplays EXCEPT ![k] = LedgerReplays[k] + 1]
    BY <1>10, <2>2, Mapping
  <2>8. LedgerStatus[k] = Standing(k) /\ LedgerReplays[k] = Spent(k)
    BY Mapping
  <2>9. LedgerReplays[k] < MaxReplays
    BY <1>2, <1>7, <2>2, <2>8
  <2>10. Ledger!Replay(k)
    BY <2>3, <2>6, <2>7, <2>8, <2>9 DEF Ledger!Replay, Ledger!Move
  <2>11. QED
    BY <1>8, <1>9, <2>10 DEF Moves, Ledger!Next
<1>14. QED
  BY <1>12, <1>13

\* A record appended to a topic belongs to no later attempt than the row counts.
LEMMA AppendBounded ==
    ASSUME IInv, Bounded, NEW topic \in Topics, NEW k \in Keys, NEW record \in Record,
           record.generation <= Top(k), Appends(topic, k, record), outbox' = outbox,
           \A q \in Keys : Top(q)' = Top(q)
    PROVE  Bounded'
<1>1. /\ \A t \in Topics, q \in Keys : t # topic \/ q # k => log'[t][q] = log[t][q]
      /\ Len(log'[topic][k]) = Len(log[topic][k]) + 1 /\ LogGrows
      /\ log'[topic][k][Len(log[topic][k]) + 1] = record
  BY Appended DEF IInv
<1>2. Len(log[topic][k]) \in Nat
  BY Partition DEF IInv
<1>3. \A i \in 1..Len(log'[topic][k]) : log'[topic][k][i].generation <= Top(k)
  <2>1. \A i \in 1..Len(log'[topic][k]) : i \in 1..Len(log[topic][k]) \/ i = Len(log[topic][k]) + 1
    BY <1>1, <1>2
  <2>2. \A i \in 1..Len(log[topic][k]) : log'[topic][k][i] = log[topic][k][i]
    BY <1>1 DEF LogGrows
  <2>3. QED
    BY <1>1, <2>1, <2>2 DEF Bounded
<1>4. QED
  BY <1>1, <1>3 DEF Bounded

\* A relay delivers: the raw topic is not what the ledger looks at.
LEMMA DeliverStutters ==
    ASSUME IInv, Bounded, Taken, NEW r \in Relays, deliver(r)
    PROVE  Bounded' /\ Taken' /\ Moves
<1>1. TypeOK /\ Relayed
  BY DEF IInv
<1>2. UNCHANGED <<receipts, outbox, quarantined, seen, committed>>
  BY DEF deliver, tables
<1>3. PICK row \in relay[r].rows \ relay[r].sent :
          log' = [log EXCEPT !["raw"][row.key] =
             Append(@, [version |-> row.version, generation |-> row.generation, time |-> None])]
  BY DEF deliver
<1>4. row \in outbox /\ row \in Row /\ row.key \in Keys
  BY <1>1, <1>3, RowsAccepted DEF Relayed
<1>5. PICK k \in Keys : k = row.key
  BY <1>4
<1> DEFINE record == [version |-> row.version, generation |-> row.generation, time |-> None]
<1>6. record \in Record /\ record.generation = row.generation
  BY <1>4 DEF Row, Record
<1> HIDE DEF record
<1>7. Appends("raw", k, record) /\ "raw" \in Topics /\ "normal" \in Topics
  BY <1>3, <1>5 DEF record, Appends, Topics
<1>8. record.generation <= Top(k)
  BY <1>4, <1>5, <1>6 DEF Bounded
<1>9. \A q \in Keys : Top(q)' = Top(q)
  BY <1>2 DEF Top
<1>10. Bounded'
  BY <1>2, <1>6, <1>7, <1>8, <1>9, AppendBounded
<1>11. LogGrows /\ \A q \in Keys : log'["normal"][q] = log["normal"][q]
  BY <1>1, <1>6, <1>7, Appended
<1>12. Taken'
  BY <1>2, <1>11 DEF Taken
<1>13. \A q \in Keys : Standing(q)' = Standing(q) /\ Spent(q)' = Spent(q)
  BY <1>2, <1>11, StandsStill DEF Accepted
<1>14. QED
  BY <1>10, <1>12, <1>13, Mapping DEF Moves

-----------------------------------------------------------------------------
(* Consumers *)

\* The first normalized record settles an event, late or not; an error record
\* settles nothing before the quarantine has committed it.
LEMMA PublishSettles ==
    ASSUME IInv, Bounded, Taken, NEW w \in Workers, Role[w] = "normalizer",
           NEW k \in Keys, NEW i \in work[w].from[k] + 1 .. work[w].upto[k], publish(w, k, i)
    PROVE  Bounded' /\ Taken' /\ Moves
<1> DEFINE out == Output(w, k, i)
           topic == OutTopic(out)
<1>1. TypeOK /\ w \in Normalizers /\ Records(w) = log["raw"]
  BY DEF IInv, Normalizers, Records, TopicOf
<1>2. UNCHANGED <<receipts, outbox, quarantined, seen, committed>> /\ Appends(topic, k, out)
  BY DEF publish, tables, Appends
<1>3. /\ i \in 1..Len(log["raw"][k]) /\ log["raw"][k][i] \in Record
      /\ Accepted(k) /\ receipts[k] \in Receipt
  BY <1>1, RecordOf
<1>4. out \in Record /\ out.generation = log["raw"][k][i].generation
  BY <1>1, <1>3, TransformType DEF Output
<1>5. topic \in {"normal", "error"} /\ topic \in Topics /\ "normal" \in Topics /\ "raw" \in Topics
  BY DEF OutTopic, Topics
<1> HIDE DEF out, topic
<1>6. \A q \in Keys : Top(q)' = Top(q)
  BY <1>2 DEF Top
<1>7. Bounded'
  <2>1. out.generation <= Top(k)
    BY <1>3, <1>4, <1>5 DEF Bounded
  <2>2. QED
    BY <1>2, <1>4, <1>5, <1>6, <2>1, AppendBounded
<1>8. /\ LogGrows /\ log'[topic][k] # <<>>
      /\ \A t \in Topics, q \in Keys : t # topic \/ q # k => log'[t][q] = log[t][q]
  BY <1>1, <1>2, <1>4, <1>5, Appended
<1>9. \A q \in Keys : log["normal"][q] # <<>> => log'["normal"][q] # <<>>
  BY <1>5, <1>8
<1>10. Taken'
  BY <1>2, <1>9 DEF Taken
<1>11. \A q \in Keys : q # k => Standing(q)' = Standing(q) /\ Spent(q)' = Spent(q)
  BY <1>2, <1>5, <1>8, StandsStill DEF Accepted
<1>12. CASE topic = "error" \/ log["normal"][k] # <<>>
  <2>1. log'["normal"][k] = <<>> <=> log["normal"][k] = <<>>
    BY <1>5, <1>8, <1>9, <1>12
  <2>2. Standing(k)' = Standing(k) /\ Spent(k)' = Spent(k)
    BY <1>2, <1>8, <2>1, StandsStill DEF Accepted
  <2>3. QED
    BY <1>7, <1>10, <1>11, <2>2, Mapping DEF Moves
<1>13. CASE topic = "normal" /\ log["normal"][k] = <<>>
  <2>1. seen[k] = None
    BY <1>13 DEF Taken
  <2>2. Standing(k) = "queued" \/ Standing(k) = "quarantined"
    BY <1>3, <1>13, <2>1 DEF Standing
  <2>3. Standing(k)' = "normalized" /\ Spent(k)' = 0
    BY <1>2, <1>3, <1>8, <1>13, <2>1 DEF Standing, Spent, Accepted
  <2>4. LedgerStatus' = [q \in Keys |-> IF q \in {k} THEN "normalized"
                                       ELSE IF q \in {} THEN "quarantined" ELSE LedgerStatus[q]]
    BY <1>11, <2>3, Mapping
  <2>5. LedgerReplays' = [q \in Keys |-> IF q \in {k} THEN 0 ELSE LedgerReplays[q]]
    BY <1>11, <2>3, Mapping
  <2>6. LedgerStatus[k] = "queued" \/ LedgerStatus[k] = "quarantined"
    BY <2>2, Mapping
  <2>7. Ledger!Settle({k}, {})
    BY <2>4, <2>5, <2>6 DEF Ledger!Settle
  <2>8. {k} \in SUBSET Keys /\ {} \in SUBSET Keys
    OBVIOUS
  <2>9. QED
    BY <1>7, <1>10, <2>7, <2>8 DEF Moves, Ledger!Next
<1>14. QED
  BY <1>5, <1>12, <1>13

\* Detection takes events it has not seen.
LEMMA DetectDetects ==
    ASSUME IInv, Bounded, Taken, NEW w \in Workers, detect(w)
    PROVE  Bounded' /\ Taken' /\ Moves
<1> DEFINE S == Unseen(w)
<1>1. TypeOK /\ Traced /\ Records(w) = log["normal"] /\ LogGrows
  BY SameLog DEF IInv, detect, Records, TopicOf, kafka
<1>2. UNCHANGED <<outbox, quarantined, log, committed>>
  BY DEF detect, kafka
<1>3. ASSUME NEW k \in S
      PROVE  /\ k \in Keys /\ seen[k] = None /\ seen'[k] # None /\ Accepted(k) /\ Accepted(k)'
             /\ log["normal"][k] # <<>>
  <2>1. k \in Touched(w) /\ k \in Keys /\ seen[k] = None
    BY DEF Unseen, Touched
  <2>2. /\ work[w].from[k] + 1 \in work[w].from[k] + 1 .. work[w].upto[k]
        /\ Accepted(k) /\ receipts[k] \in Receipt
    BY <2>1, TouchedIn
  <2>3. /\ work[w].from[k] + 1 \in 1..Len(log["normal"][k])
        /\ log["normal"][k][work[w].from[k] + 1] \in Record
    BY <1>1, <2>1, <2>2, RecordOf
  <2>4. log["normal"][k] # <<>>
    BY <2>3
  <2>5. seen'[k] = log["normal"][k][work[w].from[k] + 1]
    BY <1>1, <2>1 DEF detect
  <2>6. receipts'[k] = [receipts[k] EXCEPT !.detected = TRUE] /\ receipts'[k] \in Receipt
    BY <2>1, <2>2 DEF detect, Receipt
  <2>7. QED
    BY <2>1, <2>2, <2>3, <2>4, <2>5, <2>6, PipelineAssumption DEF Accepted
<1>4. \A k \in Keys \ S : seen'[k] = seen[k] /\ (Accepted(k)' <=> Accepted(k))
  BY DEF detect, Accepted
<1> HIDE DEF S
<1>5. Taken'
  BY <1>2, <1>3, <1>4 DEF Taken
<1>6. Bounded'
  BY <1>2 DEF Bounded, Top
<1>7. ASSUME NEW k \in S
      PROVE  Standing(k) = "normalized" /\ Standing(k)' = "detected" /\ Spent(k)' = Spent(k)
  BY <1>2, <1>3 DEF Standing, Spent
<1>8. \A k \in Keys \ S : Standing(k)' = Standing(k) /\ Spent(k)' = Spent(k)
  BY <1>1, <1>2, <1>4, StandsStill
<1>9. S \in SUBSET Keys
  BY <1>3
<1>10. /\ \A k \in S : LedgerStatus[k] = "normalized"
       /\ LedgerStatus' = [k \in Keys |-> IF k \in S THEN "detected" ELSE LedgerStatus[k]]
       /\ UNCHANGED LedgerReplays
  BY <1>7, <1>8, <1>9, Mapping
<1>11. Ledger!Detect(S)
  BY <1>10 DEF Ledger!Detect, Ledger!Move
<1>12. QED
  BY <1>5, <1>6, <1>9, <1>11 DEF Moves, Ledger!Next

\* A step that settles queued events as errors, those in Q.
LEMMA SettlesErrors ==
    ASSUME NEW Q \in SUBSET Keys,
           \A k \in Q : Standing(k) = "queued" /\ Standing(k)' = "quarantined",
           \A k \in Keys \ Q : Standing(k)' = Standing(k),
           \A k \in Keys : Spent(k)' = Spent(k)
    PROVE  Moves
<1>1. LedgerStatus' = [k \in Keys |-> IF k \in {} THEN "normalized"
                                     ELSE IF k \in Q THEN "quarantined" ELSE LedgerStatus[k]]
  BY Mapping
<1>2. LedgerReplays' = [k \in Keys |-> IF k \in {} THEN 0 ELSE LedgerReplays[k]]
  BY Mapping
<1>3. \A k \in {} \cup Q : LedgerStatus[k] = "queued"
  BY Mapping
<1>4. Ledger!Settle({}, Q)
  BY <1>1, <1>2, <1>3 DEF Ledger!Settle
<1>5. QED
  BY <1>4 DEF Moves, Ledger!Next

\* The quarantine inserts rows: the events that were still on their way are settled.
LEMMA QuarantineSettles ==
    ASSUME IInv, Bounded, Taken, NEW w \in Workers, quarantine(w)
    PROVE  Bounded' /\ Taken' /\ Moves
<1> DEFINE New == {k \in Keys : quarantined[k] = None /\ quarantined'[k] # None}
           Q   == {k \in New : log["normal"][k] = <<>>}
<1>1. TypeOK /\ Traced /\ LogGrows
  BY SameLog DEF IInv, quarantine, kafka
<1>2. UNCHANGED <<receipts, outbox, seen, log, committed>>
  BY DEF quarantine, kafka
<1>3. \A k \in Keys : \/ quarantined'[k] = quarantined[k]
                      \/ k \in Touched(w) /\ quarantined[k] = None /\ quarantined'[k] = NewRow
  BY DEF quarantine, RowAfter
<1>4. NewRow.attempts = 0
  BY DEF NewRow
<1>5. \A k \in New : Accepted(k) /\ quarantined'[k].attempts = 0
  BY <1>3, <1>4, TouchedIn
<1>6. \A k \in Keys : k \notin New => quarantined'[k] = quarantined[k]
  BY <1>3
<1>7. \A k \in Keys : Top(k)' = Top(k)
  BY <1>5, <1>6 DEF Top
<1>8. Bounded' /\ Taken'
  BY <1>2, <1>7 DEF Bounded, Taken
<1>9. ASSUME NEW k \in Q
      PROVE  Standing(k) = "queued" /\ Standing(k)' = "quarantined"
  <2>1. seen[k] = None
    BY DEF Taken
  <2>2. QED
    BY <1>2, <1>5, <2>1 DEF Standing, ErrorOfThisAttempt, Accepted
<1>10. ASSUME NEW k \in Keys \ Q
       PROVE  Standing(k)' = Standing(k)
  <2>1. CASE k \in New
    BY <1>2, <2>1 DEF Standing, Accepted
  <2>2. CASE k \notin New
    BY <1>1, <1>2, <1>6, <2>2, StandsStill DEF Accepted
  <2>3. QED
    BY <2>1, <2>2
<1>11. \A k \in Keys : Spent(k)' = Spent(k)
  BY <1>2, <1>5, <1>6 DEF Spent
<1>12. Q \in SUBSET Keys
  OBVIOUS
<1> HIDE DEF Q
<1>13. QED
  BY <1>8, <1>9, <1>10, <1>11, <1>12, SettlesErrors

\* Offsets never go back: a worker that may commit began where its group stands.
LEMMA CommitAdvances ==
    ASSUME IInv, NEW w \in Workers, Current(w), commit(w), NEW k \in Keys
    PROVE  /\ committed["quarantine"][k] \in Nat /\ committed'["quarantine"][k] \in Nat
           /\ committed["quarantine"][k] <= committed'["quarantine"][k]
<1>1. /\ "quarantine" \in Groups /\ Role[w] \in Groups /\ committed \in [Groups -> Offsets]
      /\ work[w].from \in Offsets /\ work[w].upto \in Offsets /\ work[w].pc = "written"
      /\ work[w].from[k] <= work[w].upto[k]
  BY Roles DEF IInv, TypeOK, Batch, Groups, Working, Works, commit
<1>2. CASE committed' = committed
  BY <1>1, <1>2 DEF Offsets
<1>3. CASE Owns(w) /\ committed' = [committed EXCEPT ![Role[w]] = work[w].upto]
  <2>1. work[w].from = committed[Role[w]]
    BY <1>1, <1>3 DEF Current, Owns
  <2>2. CASE Role[w] = "quarantine"
    BY <1>1, <1>3, <2>1, <2>2 DEF Offsets
  <2>3. CASE Role[w] # "quarantine"
    BY <1>1, <1>3, <2>3 DEF Offsets
  <2>4. QED
    BY <2>2, <2>3
<1>4. QED
  BY <1>2, <1>3 DEF commit

\* A commit of the quarantine settles the attempts whose errors it covers.
LEMMA CommitSettles ==
    ASSUME IInv, Bounded, Taken, NEW w \in Workers, Current(w), commit(w)
    PROVE  Bounded' /\ Taken' /\ Moves
<1> DEFINE Q == {k \in Keys : Standing(k)' # Standing(k)}
<1>1. UNCHANGED <<receipts, outbox, quarantined, seen, log>>
  BY DEF commit, tables
<1>2. Bounded' /\ Taken'
  BY <1>1 DEF Bounded, Taken, Top
<1>3. ASSUME NEW k \in Keys
      PROVE  ErrorOfThisAttempt(k) => ErrorOfThisAttempt(k)'
  <2>1. \A i \in 1..committed["quarantine"][k] : i \in 1..committed'["quarantine"][k]
    BY CommitAdvances
  <2>2. QED
    BY <1>1, <2>1 DEF ErrorOfThisAttempt
<1>4. ASSUME NEW k \in Q
      PROVE  Standing(k) = "queued" /\ Standing(k)' = "quarantined"
  BY <1>1, <1>3 DEF Standing, Accepted
<1>5. \A k \in Keys : Spent(k)' = Spent(k)
  BY <1>1 DEF Spent
<1>6. Q \in SUBSET Keys /\ \A k \in Keys \ Q : Standing(k)' = Standing(k)
  OBVIOUS
<1> HIDE DEF Q
<1>7. QED
  BY <1>2, <1>4, <1>5, <1>6, SettlesErrors

-----------------------------------------------------------------------------
(* Who may commit *)

\* Steps of other processes, and of this one within its batch.
LEMMA CurrentStays ==
    ASSUME NEW w \in Workers, Current(w), UNCHANGED <<committed, owner>>,
           work'[w].from = work[w].from, work'[w].pc = "idle" <=> work[w].pc = "idle"
    PROVE  Current(w)'
BY DEF Current

\* A worker's own steps.
LEMMA WorkerCurrent ==
    ASSUME IInv, Currents, NEW w \in Workers, worker_step(w)
    PROVE  Currents'
<1>1. TypeOK
  BY DEF IInv
<1>2. Current(w) /\ \A v \in Workers : Current(v)
  BY DEF Currents
<1>3. CASE read(w)
  <2>1. /\ UNCHANGED <<committed, owner>> /\ work'[w].from = committed[Role[w]]
        /\ \A v \in Workers : v # w => work'[v] = work[v]
    BY <1>1, <1>3 DEF read, kafka, TypeOK
  <2>2. QED
    BY <1>2, <2>1 DEF Currents, Current
<1>4. CASE send(w)
  <2>1. PICK p \in Positions(w) : Sent(w, p[1], p[2]) /\ UNCHANGED <<committed, owner>>
    BY <1>4 DEF send, publish, keep, kafka
  <2>2. /\ work'[w].pc = work[w].pc /\ work'[w].from = work[w].from
        /\ \A v \in Workers : v # w => work'[v] = work[v]
    BY <1>1, <2>1, PositionOf, SentType
  <2>3. QED
    BY <1>2, <2>1, <2>2 DEF Currents, Current
<1>5. CASE mark(w) \/ detect(w) \/ quarantine(w)
  <2>1. Written(w) /\ UNCHANGED <<committed, owner>> /\ work[w].pc = "busy"
    BY <1>5 DEF mark, detect, quarantine, kafka
  <2>2. /\ work'[w].from = work[w].from /\ \A v \in Workers : v # w => work'[v] = work[v]
    BY <1>1, <2>1, WrittenType
  <2>3. QED
    BY <1>2, <2>1, <2>2 DEF Currents, Current
<1>6. CASE commit(w)
  <2>1. /\ owner' = owner /\ work'[w].pc = "idle"
        /\ \A v \in Workers : v # w => work'[v] = work[v]
    BY <1>1, <1>6 DEF commit, TypeOK, Idle
  <2>2. ASSUME NEW v \in Workers, v # w, owner[Role[v]] = v
        PROVE  committed'[Role[v]] = committed[Role[v]]
    <3>1. Role[v] \in Groups /\ committed \in [Groups -> Offsets]
      BY <1>1, Roles DEF TypeOK
    <3>2. CASE committed' = committed
      BY <3>2
    <3>3. CASE Owns(w) /\ committed' = [committed EXCEPT ![Role[w]] = work[w].upto]
      BY <2>2, <3>1, <3>3 DEF Owns
    <3>4. QED
      BY <1>6, <3>2, <3>3 DEF commit
  <2>3. QED
    BY <1>2, <2>1, <2>2 DEF Currents, Current
<1>7. QED
  BY <1>3, <1>4, <1>5, <1>6 DEF worker_step

\* A group moves only to a worker that is idle.
LEMMA ProcessCurrent ==
    ASSUME IInv, Currents, NEW w \in Workers, rebalance(w) \/ \E files \in Files : restart(w, files)
    PROVE  Currents'
<1>1. TypeOK /\ Role[w] \in Groups /\ \A v \in Workers : Current(v)
  BY Roles DEF IInv, Currents
<1>2. CASE rebalance(w)
  <2>1. /\ UNCHANGED <<committed, work>> /\ work[w].pc = "idle"
        /\ owner' = [owner EXCEPT ![Role[w]] = w] /\ owner \in [Groups -> Workers]
    BY <1>1, <1>2 DEF rebalance, TypeOK
  <2>2. ASSUME NEW v \in Workers, v # w, owner'[Role[v]] = v
        PROVE  owner[Role[v]] = v
    BY <1>1, <2>1, <2>2, Roles
  <2>3. QED
    BY <1>1, <2>1, <2>2 DEF Currents, Current
<1>3. CASE \E files \in Files : restart(w, files)
  <2>1. /\ UNCHANGED <<committed, owner>> /\ work'[w].pc = "idle"
        /\ \A v \in Workers : v # w => work'[v] = work[v]
    BY <1>1, <1>3 DEF restart, kafka, TypeOK, Idle
  <2>2. QED
    BY <1>1, <2>1 DEF Currents, Current
<1>4. QED
  BY <1>2, <1>3

\* Steps that touch no batch.
LEMMA OthersCurrent ==
    ASSUME Currents, UNCHANGED <<committed, owner, work>>
    PROVE  Currents'
BY DEF Currents, Current

-----------------------------------------------------------------------------
(* The refinement *)

LInv == IInv /\ Bounded /\ Taken /\ Currents

\* All tables start empty.
LEMMA InitLedger ==
    Init => LInv /\ Ledger!Init
<1> SUFFICES ASSUME Init
             PROVE  LInv /\ Ledger!Init
  OBVIOUS
<1>1. IInv
  BY InitInv
<1>2. /\ outbox = {} /\ \A topic \in Topics, k \in Keys : log[topic][k] = <<>>
      /\ \A k \in Keys : receipts[k] = None /\ quarantined[k] = None /\ seen[k] = None
      /\ \A w \in Workers : work[w].pc = "idle"
  BY DEF Init, Idle
<1>3. Bounded
  <2>1. \A topic \in Topics, k \in Keys : 1..Len(log[topic][k]) = {}
    BY <1>2
  <2>2. QED
    BY <1>2, <2>1 DEF Bounded
<1>4. Taken /\ Currents
  BY <1>2 DEF Taken, Currents, Current
<1>5. \A k \in Keys : Standing(k) = "absent" /\ Spent(k) = 0
  BY <1>2 DEF Standing, Spent, Accepted
<1>6. Ledger!Init
  BY <1>5, Mapping DEF Ledger!Init
<1>7. QED
  BY <1>1, <1>3, <1>4, <1>6 DEF LInv

\* Every step keeps the facts and moves the ledger or leaves it alone.
LEMMA StepLedger ==
    LInv /\ [Next]_vars => LInv' /\ [Ledger!Next]_(Ledger!vars)
<1> SUFFICES ASSUME LInv, [Next]_vars
             PROVE  LInv' /\ Moves
  BY DEF Moves, Ledger!vars
<1>1. IInv /\ Bounded /\ Taken /\ Currents /\ IInv'
  BY StepInv DEF LInv
<1>2. CASE UNCHANGED vars
  <2>1. Currents'
    BY <1>1, <1>2, OthersCurrent DEF vars
  <2>2. QED
    BY <1>1, <1>2, <2>1, CalmSteps, CalmStutters DEF LInv
<1>3. ASSUME NEW t \in Tenants, NEW p \in Packages, activate(t, p) \/ deactivate_integration(t, p)
      PROVE  LInv' /\ Moves
  <2>1. Currents'
    BY <1>1, <1>3, OthersCurrent DEF activate, deactivate_integration, kafka
  <2>2. QED
    BY <1>1, <1>3, <2>1, CalmSteps, CalmStutters DEF LInv
<1>4. ASSUME NEW t \in Tenants, NEW p \in Packages, NEW batch \in SUBSET Requests, ingest(t, p, batch)
      PROVE  LInv' /\ Moves
  <2>1. Currents'
    BY <1>1, <1>4, OthersCurrent DEF ingest, kafka
  <2>2. QED
    BY <1>1, <1>4, <2>1, IngestAccepts DEF LInv
<1>5. ASSUME NEW k \in Keys, replay(k)
      PROVE  LInv' /\ Moves
  <2>1. Currents'
    BY <1>1, <1>5, OthersCurrent DEF replay, kafka
  <2>2. QED
    BY <1>1, <1>5, <2>1, ReplayReplays DEF LInv
<1>6. ASSUME NEW r \in Relays, relay_step(r) \/ relay_restart(r)
      PROVE  LInv' /\ Moves
  <2>1. Currents'
    BY <1>1, <1>6, OthersCurrent DEF relay_step, take, deliver, confirm, relay_restart, kafka
  <2>2. CASE deliver(r)
    BY <1>1, <2>1, <2>2, DeliverStutters DEF LInv
  <2>3. CASE take(r) \/ confirm(r) \/ relay_restart(r)
    BY <1>1, <2>1, <2>3, CalmSteps, CalmStutters DEF LInv
  <2>4. QED
    BY <1>6, <2>2, <2>3 DEF relay_step
<1>7. ASSUME NEW w \in Workers, worker_step(w)
      PROVE  LInv' /\ Moves
  <2>1. Currents' /\ Current(w)
    BY <1>1, <1>7, WorkerCurrent DEF Currents
  <2>2. CASE read(w)
    BY <1>1, <2>1, <2>2, CalmSteps, CalmStutters DEF LInv
  <2>3. CASE send(w)
    <3>1. PICK p \in Positions(w) : \/ (Role[w] = "normalizer" /\ publish(w, p[1], p[2]))
                                    \/ (Role[w] \in Stages /\ keep(w, p[1], p[2]))
      BY <2>3 DEF send
    <3>2. p[1] \in Keys /\ p[2] \in Nat /\ p[2] \in work[w].from[p[1]] + 1 .. work[w].upto[p[1]]
      BY <1>1, PositionOf DEF IInv
    <3>3. CASE Role[w] = "normalizer" /\ publish(w, p[1], p[2])
      BY <1>1, <2>1, <3>2, <3>3, PublishSettles DEF LInv
    <3>4. CASE keep(w, p[1], p[2])
      BY <1>1, <2>1, <3>2, <3>4, CalmSteps, CalmStutters DEF LInv
    <3>5. QED
      BY <3>1, <3>3, <3>4
  <2>4. CASE mark(w)
    BY <1>1, <2>1, <2>4, MarkIsCalm, CalmStutters DEF LInv
  <2>5. CASE detect(w)
    BY <1>1, <2>1, <2>5, DetectDetects DEF LInv
  <2>6. CASE quarantine(w)
    BY <1>1, <2>1, <2>6, QuarantineSettles DEF LInv
  <2>7. CASE commit(w)
    BY <1>1, <2>1, <2>7, CommitSettles DEF LInv
  <2>8. QED
    BY <1>7, <2>2, <2>3, <2>4, <2>5, <2>6, <2>7 DEF worker_step
<1>8. ASSUME NEW w \in Workers, rebalance(w) \/ \E files \in Files : restart(w, files)
      PROVE  LInv' /\ Moves
  <2>1. Currents'
    BY <1>1, <1>8, ProcessCurrent
  <2>2. QED
    BY <1>1, <1>8, <2>1, CalmSteps, CalmStutters DEF LInv
<1>9. ASSUME NEW files \in Files, gateway_restart(files)
      PROVE  LInv' /\ Moves
  <2>1. Currents'
    BY <1>1, <1>9, OthersCurrent DEF gateway_restart, kafka
  <2>2. QED
    BY <1>1, <1>9, <2>1, CalmSteps, CalmStutters DEF LInv
<1>10. QED
  BY <1>2, <1>3, <1>4, <1>5, <1>6, <1>7, <1>8, <1>9 DEF Next

\* The distributed engine implements the event ledger: whatever is redelivered, moved
\* or restarted, each step of its stores and topics is a step of the ledger or none.
THEOREM LedgerImplemented == Spec => ImplementsLedger
BY InitLedger, StepLedger, PTL DEF Spec, ImplementsLedger, Ledger!Spec
=============================================================================
