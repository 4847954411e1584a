------------------------------- MODULE Evidence -------------------------------
(***************************************************************************)
(* The evidence the local engine keeps: the linked audit history           *)
(* (nova/enterprise.py), its external checkpoints (nova/audit_checkpoint), *)
(* the Object Lock archive (nova/retention.py) and snapshots of the        *)
(* database (nova/operations.py), for one tenant.                          *)
(*                                                                         *)
(* A database is a value: a transaction replaces it, a snapshot copies it. *)
(* A digest is the term it digests, so that equal digests have equal input.*)
(***************************************************************************)
EXTENDS Integers, Sequences, FiniteSets

CONSTANTS
    None,
    Archivers,
    Operations,     \* what audited operations leave in the history
    Days,           \* retention intervals that may be configured
    Limit,          \* rows an archiver takes at once (200)
    MaxEvents,      \* bound: accepted events
    MaxAudits,      \* bound: operations audited by other components
    MaxClock,       \* bound: days that pass
    MaxIncidents    \* bound: crashes, edits, restores, hidden objects, new settings

ASSUME EvidenceAssumption ==
    /\ Days \subseteq Nat \ {0} /\ Limit \in Nat \ {0}
    /\ {MaxEvents, MaxAudits, MaxClock, MaxIncidents} \subseteq Nat

VARIABLES
    db,          \* raw_events, nova_archive_receipts, audit and nova_audit_chain
    archiver,    \* what an archiver is doing
    versions,    \* locked object versions: the event, the number, the retention
    current,     \* the version a key shows, None where there is none
    days,        \* NOVA_RETENTION_DAYS
    snapshot,    \* a snapshot with its manifest
    checkpoint,  \* the checkpoint that is kept outside, with what it stood for
    touched,     \* the database was edited or restored
    clock, incidents

vars == <<db, archiver, versions, current, days, snapshot, checkpoint, touched, clock, incidents>>
storeVars == <<versions, current>>
asideVars == <<days, snapshot, checkpoint>>

Events == 1..MaxEvents
Zero == <<>>
Idle == [pc |-> "idle"]

EmptyDb == [received |-> <<>>, receipts |-> {}, audit |-> {}, ids |-> 0, chain |-> <<>>]

\* Locked versions, receipts, and what an archiver does.
Locked  == [event : Events, number : Nat \ {0}, until : Nat]
Receipt == [event : Events, number : Nat \ {0}, asked : Nat]

Task ==
    {Idle} \cup [pc : {"lock"}, todo : Seq(Events) \ {<<>>}]
        \cup [pc : {"record"}, version : Locked, asked : Nat, todo : Seq(Events)]

ASSUME OperationsAssumption == \A what \in Operations : what \notin Receipt

Entries(s) == {s[i] : i \in DOMAIN s}

\* The keys of the tables are unique, and identities are given in order.
IsDatabase(d) ==
    /\ d = [received |-> d.received, receipts |-> d.receipts, audit |-> d.audit,
            ids |-> d.ids, chain |-> d.chain]
    /\ d.received \in Seq(Nat) /\ Len(d.received) <= MaxEvents
    /\ d.receipts \subseteq Receipt
    /\ \A r, s \in d.receipts : r.event = s.event => r = s
    /\ d.ids \in Nat
    /\ d.audit \subseteq [id : 1..d.ids, what : Operations \cup Receipt]
    /\ \A o, q \in d.audit : o.id = q.id => o = q
    /\ d.chain \in Seq(Entries(d.chain))

TypeOK ==
    /\ IsDatabase(db)
    /\ archiver \in [Archivers -> Task]
    /\ \A p \in Archivers : archiver[p] # Idle =>
          \A n \in DOMAIN archiver[p].todo : archiver[p].todo[n] \in DOMAIN db.received
    /\ versions \subseteq Locked /\ IsFiniteSet(versions)
    /\ current \in [Events -> versions \cup {None}]
    /\ \A e \in Events : current[e] # None => current[e].event = e
    /\ days \in Days
    /\ snapshot # None => snapshot = <<snapshot[1]>> /\ IsDatabase(snapshot[1])
    /\ touched \in BOOLEAN
    /\ clock \in 0..MaxClock /\ incidents \in 0..MaxIncidents

Init ==
    /\ db = EmptyDb
    /\ archiver = [p \in Archivers |-> Idle]
    /\ versions = {} /\ current = [e \in Events |-> None]
    /\ days \in Days
    /\ snapshot = None /\ checkpoint = None
    /\ touched = FALSE
    /\ clock = 0 /\ incidents = 0

Incident == incidents < MaxIncidents /\ incidents' = incidents + 1

-----------------------------------------------------------------------------
(* The history *)

\* Mutant: a digest that does not cover the link before it.
DigestUnlinked(seq, previous, payload) == <<seq, Zero, payload>>

Digest(seq, previous, payload) == <<seq, previous, payload>>

\* The database with one more audited operation, which the chain links.
Audited(d, what) ==
    LET payload  == [id |-> d.ids + 1, what |-> what]
        last     == Len(d.chain)
        seq      == IF last = 0 THEN 1 ELSE d.chain[last].seq + 1
        previous == IF last = 0 THEN Zero ELSE d.chain[last].digest
        link     == [seq |-> seq, payload |-> payload, previous |-> previous,
                     digest |-> Digest(seq, previous, payload)]
    IN  [d EXCEPT !.audit = @ \cup {payload}, !.ids = @ + 1, !.chain = Append(@, link)]

DigestBefore(d, i) == IF i = 1 THEN Zero ELSE d.chain[i - 1].digest

\* verify_audit: each link has its place, continues the one before it and agrees
\* with the record it links; the anchor is the digest at its count.
Verified(d, anchor) ==
    /\ \A i \in DOMAIN d.chain :
          LET r == d.chain[i]
          IN  /\ r.seq = i /\ r.previous = DigestBefore(d, i)
              /\ r.digest = Digest(i, r.previous, r.payload)
              /\ r.payload \in d.audit
    /\ anchor # None =>
          /\ anchor.count <= Len(d.chain)
          /\ anchor.root = DigestBefore(d, anchor.count + 1)

Audits(d) == Cardinality({o \in d.audit : o.what \in Operations})

\* An audited operation of another component.
audit(what) ==
    /\ Audits(db) < MaxAudits
    /\ db' = Audited(db, what)
    /\ UNCHANGED <<archiver, storeVars, asideVars, touched, clock, incidents>>

\* The checkpoint tool verifies first; the file it writes must not exist.
Checkpoint ==
    /\ checkpoint = None /\ db.chain # <<>> /\ Verified(db, None)
    /\ checkpoint' = [count |-> Len(db.chain), root |-> DigestBefore(db, Len(db.chain) + 1),
                      records |-> [i \in DOMAIN db.chain |-> db.chain[i].payload]]
    /\ UNCHANGED <<db, archiver, storeVars, days, snapshot, touched, clock, incidents>>

\* The database is damaged: a record is lost or changed, links at the end are lost.
Edit ==
    /\ Incident
    /\ db' \in {[db EXCEPT !.audit = @ \ {o}] : o \in db.audit}
          \cup {[db EXCEPT !.audit = (@ \ {o[1]}) \cup {[o[1] EXCEPT !.what = o[2]]}] :
                   o \in {r \in db.audit \X Operations : r[1].what # r[2]}}
          \cup {[db EXCEPT !.chain = SubSeq(@, 1, n)] : n \in 0..(Len(db.chain) - 1)}
    /\ touched' = TRUE
    /\ UNCHANGED <<archiver, storeVars, asideVars, clock>>

-----------------------------------------------------------------------------
(* Snapshots *)

\* The copy is consistent; a destination that exists is refused.  The manifest is
\* written last: a backup that stopped before it cannot be restored.
backup ==
    /\ snapshot = None
    /\ snapshot' = <<db>>
    /\ UNCHANGED <<db, archiver, storeVars, days, checkpoint, touched, clock, incidents>>

\* Restored to a new path, and the processes started on it.
restore ==
    /\ Incident
    /\ snapshot # None
    /\ db' = snapshot[1]
    /\ archiver' = [p \in Archivers |-> Idle]
    /\ touched' = TRUE
    /\ UNCHANGED <<storeVars, asideVars, clock>>

-----------------------------------------------------------------------------
(* The archive *)

Accept ==
    /\ Len(db.received) < MaxEvents
    /\ db' = [db EXCEPT !.received = Append(@, clock)]
    /\ UNCHANGED <<archiver, storeVars, asideVars, touched, clock, incidents>>

HasReceipt(d, e) == \E r \in d.receipts : r.event = e

\* The oldest events without a receipt.
Select(p) ==
    LET open == {e \in DOMAIN db.received : ~ HasReceipt(db, e)}
        rows == {e \in open : Cardinality({k \in open : k < e}) < Limit}
    IN  /\ archiver[p] = Idle /\ open # {}
        /\ archiver' = [archiver EXCEPT ![p] = [pc |-> "lock",
               todo |-> [n \in 1..Cardinality(rows) |->
                   CHOOSE e \in rows : Cardinality({k \in rows : k <= e}) = n]]]
        /\ UNCHANGED <<db, storeVars, asideVars, touched, clock, incidents>>

Until(e) == db.received[e] + days

\* Mutants: an object that exists is taken as it is; it must be locked for longer.
AdequateAnyway(version, e) == TRUE
AdequateStrictly(version, e) == version.until > Until(e)

\* verify: what is locked stays as long as the settings ask now.
Adequate(version, e) == version.until >= Until(e)

\* put: only an object that does not exist is written; one that does is verified.
Version(e) ==
    IF current[e] = None
    THEN [event |-> e, number |-> Cardinality({v \in versions : v.event = e}) + 1, until |-> Until(e)]
    ELSE current[e]

Lock(p) ==
    /\ archiver[p].pc = "lock"
    /\ LET e == Head(archiver[p].todo)
           v == Version(e)
       IN  /\ Until(e) > clock
           /\ versions' = versions \cup {v}
           /\ current' = [current EXCEPT ![e] = v]
           /\ archiver' = [archiver EXCEPT ![p] =
                  IF Adequate(v, e) THEN [pc |-> "record", version |-> v, asked |-> Until(e),
                                          todo |-> Tail(archiver[p].todo)]
                  ELSE Idle]
    /\ UNCHANGED <<db, asideVars, touched, clock, incidents>>

\* A record past its retention ends the archiver.
Refuse(p) ==
    /\ archiver[p].pc = "lock" /\ Until(Head(archiver[p].todo)) <= clock
    /\ archiver' = [archiver EXCEPT ![p] = Idle]
    /\ UNCHANGED <<db, storeVars, asideVars, touched, clock, incidents>>

\* Mutants: the receipt is written again, or audited whoever wrote it.
RecordedAgain(d, receipt) == Audited([d EXCEPT !.receipts = @ \cup {receipt}], receipt)
RecordedTwice(d, receipt) ==
    Audited([d EXCEPT !.receipts = IF HasReceipt(d, receipt.event) THEN @ ELSE @ \cup {receipt}],
            receipt)

\* INSERT OR IGNORE; the operation is audited by the one who inserted.
Recorded(d, receipt) ==
    IF HasReceipt(d, receipt.event) THEN d
    ELSE Audited([d EXCEPT !.receipts = @ \cup {receipt}], receipt)

Record(p) ==
    /\ archiver[p].pc = "record"
    /\ LET v == archiver[p].version
       IN  db' = Recorded(db, [event |-> v.event, number |-> v.number, asked |-> archiver[p].asked])
    /\ archiver' = [archiver EXCEPT ![p] =
           IF @.todo = <<>> THEN Idle ELSE [pc |-> "lock", todo |-> @.todo]]
    /\ UNCHANGED <<storeVars, asideVars, touched, clock, incidents>>

Crash(p) ==
    /\ Incident
    /\ archiver[p] # Idle
    /\ archiver' = [archiver EXCEPT ![p] = Idle]
    /\ UNCHANGED <<db, storeVars, asideVars, touched, clock>>

\* Somebody deletes a key: its versions stay, but the key shows none.
Hide(e) ==
    /\ Incident
    /\ current[e] # None
    /\ current' = [current EXCEPT ![e] = None]
    /\ UNCHANGED <<db, archiver, versions, asideVars, touched, clock>>

\* Archivers are started with another interval.
Reconfigure ==
    /\ Incident
    /\ days' \in Days \ {days}
    /\ archiver' = [p \in Archivers |-> Idle]
    /\ UNCHANGED <<db, storeVars, snapshot, checkpoint, touched, clock>>

Day ==
    /\ clock < MaxClock
    /\ clock' = clock + 1
    /\ UNCHANGED <<db, archiver, storeVars, asideVars, touched, incidents>>

Next ==
    \/ \E what \in Operations : audit(what)
    \/ Checkpoint \/ Edit \/ backup \/ restore
    \/ Accept
    \/ \E p \in Archivers : Select(p) \/ Lock(p) \/ Refuse(p) \/ Record(p) \/ Crash(p)
    \/ \E e \in Events : Hide(e)
    \/ Reconfigure \/ Day

Spec == Init /\ [][Next]_vars

\* An archiver is started again by its timer.
Fairness == \A p \in Archivers : WF_vars(Select(p) \/ Lock(p) \/ Refuse(p) \/ Record(p))

FairSpec == Spec /\ Fairness

-----------------------------------------------------------------------------
(* Properties *)

\* A checkpoint that verifies vouches for every record it was made of, although
\* the database was restored and grew another way or was damaged; and it verifies
\* as long as nobody touched the database, whatever archivers and operations append.
HistoryIsAnchored ==
    checkpoint # None =>
        /\ Verified(db, checkpoint) =>
              \A i \in DOMAIN checkpoint.records : checkpoint.records[i] \in db.audit
        /\ ~ touched => Verified(db, checkpoint)

\* A receipt names a version that is locked for as long as was asked when it was
\* verified, and, unless the database was touched, it was audited once: with two
\* archivers, crashes after the put, keys hidden and other settings.
ReceiptsAreHonest ==
    \A r \in db.receipts :
        /\ \E v \in versions : v.event = r.event /\ v.number = r.number /\ v.until >= r.asked
        /\ ~ touched => Cardinality({o \in db.audit : o.what \notin Operations /\ o.what.event = r.event}) = 1

\* What an archiver cannot get past: an event that is too old, and an object
\* locked by a process that stopped before the receipt, for less than is asked now.
Stuck(e) ==
    /\ e \in DOMAIN db.received /\ ~ HasReceipt(db, e)
    /\ \/ Until(e) <= clock
       \/ current[e] # None /\ current[e].until < Until(e)

\* An accepted event gets its receipt unless it is gone with a restore, or it or an
\* event before it cannot be archived.
EventuallyArchived ==
    \A e \in Events :
        (e \in DOMAIN db.received) ~>
            (HasReceipt(db, e) \/ e \notin DOMAIN db.received \/ \E k \in 1..e : Stuck(k))
==============================================================================
