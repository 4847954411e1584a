---------------------------- MODULE Evidence_proofs ----------------------------
(***************************************************************************)
(* Theorems about the evidence of the local engine for any number of       *)
(* archivers, events, operations and incidents.  A root stands for the     *)
(* whole history before it: it is the last of a series of digests, each of *)
(* which covers the one before.  A history that verifies against the root  *)
(* has the same digests, from the last back to the first, and so the same  *)
(* records.                                                                *)
(***************************************************************************)
EXTENDS Evidence, TLAPS, FiniteSetTheorems, SequenceTheorems, WellFoundedInduction

\* The receipts of a database name versions that are locked as asked.
Vouched(d) ==
    \A r \in d.receipts :
        \E v \in versions : v.event = r.event /\ v.number = r.number /\ v.until >= r.asked

\* What an archiver holds is of the database, and is locked before it is recorded.
Fine(t, d, locked) ==
    /\ t \in Task
    /\ t # Idle => \A n \in DOMAIN t.todo : t.todo[n] \in DOMAIN d.received
    /\ t.pc = "record" => t.version \in locked /\ t.version.until >= t.asked

\* The digests up to a root, each covering the one before.
Leads(digests, cp) ==
    /\ digests[0] = Zero /\ cp.root = digests[cp.count]
    /\ \A i \in 1..cp.count : digests[i] = Digest(i, digests[i - 1], cp.records[i])

Rooted(cp) ==
    cp # None => /\ cp.count \in Nat /\ DOMAIN cp.records = 1..cp.count
                 /\ \E digests : Leads(digests, cp)

\* In a database that nobody touched each receipt was audited, once.
Entered(d) ==
    /\ \A o \in d.audit : o.what \in Operations \/ o.what \in d.receipts
    /\ \A r \in d.receipts : \E o \in d.audit : o.what = r
    /\ \A o, q \in d.audit : o.what = q.what /\ o.what \in Receipt => o = q

IInv ==
    /\ TypeOK
    /\ Vouched(db) /\ (snapshot # None => Vouched(snapshot[1]))
    /\ \A p \in Archivers : Fine(archiver[p], db, versions)
    /\ Rooted(checkpoint)
    /\ ~ touched => Verified(db, checkpoint) /\ Entered(db)

-----------------------------------------------------------------------------
(* The chain *)

\* The bounds are numbers.
LEMMA Bounds ==
    /\ Limit \in Nat \ {0} /\ Days \subseteq Nat \ {0}
    /\ MaxEvents \in Nat /\ MaxAudits \in Nat /\ MaxClock \in Nat /\ MaxIncidents \in Nat
BY EvidenceAssumption

\* A chain is numbered from 1 on.
LEMMA ChainHas ==
    ASSUME NEW d, IsDatabase(d)
    PROVE  Len(d.chain) \in Nat /\ DOMAIN d.chain = 1..Len(d.chain)
<1>1. d.chain \in Seq(Entries(d.chain))
  BY DEF IsDatabase
<1>2. QED
  BY <1>1, LenProperties

\* One more link after those there are.
LEMMA Linked ==
    ASSUME NEW d, IsDatabase(d), NEW link
    PROVE  LET chain == Append(d.chain, link)
           IN  /\ chain \in Seq(Entries(chain))
               /\ Len(chain) = Len(d.chain) + 1 /\ DOMAIN chain = 1..(Len(d.chain) + 1)
               /\ \A i \in DOMAIN d.chain : chain[i] = d.chain[i]
               /\ chain[Len(d.chain) + 1] = link
<1> DEFINE chain == Append(d.chain, link)
           S     == Entries(d.chain) \cup {link}
<1>1. d.chain \in Seq(S) /\ link \in S
  <2>1. d.chain \in Seq(Entries(d.chain)) /\ Entries(d.chain) \subseteq S
    BY DEF IsDatabase
  <2> HIDE DEF S
  <2>2. d.chain \in Seq(S)
    BY <2>1, SeqMonotonic
  <2>3. QED
    BY <2>2 DEF S
<1> HIDE DEF S
<1>2. /\ chain \in Seq(S) /\ Len(chain) = Len(d.chain) + 1
      /\ DOMAIN chain = 1..(Len(d.chain) + 1) /\ Len(d.chain) \in Nat
      /\ \A i \in 1..Len(d.chain) : chain[i] = d.chain[i]
      /\ chain[Len(d.chain) + 1] = link
  BY <1>1
<1> HIDE DEF chain
<1>3. Len(d.chain) + 1 \in Nat /\ DOMAIN d.chain = 1..Len(d.chain)
  BY <1>2, ChainHas
<1>4. chain \in [1..(Len(d.chain) + 1) -> Entries(chain)]
  <2>1. chain = [i \in DOMAIN chain |-> chain[i]]
    BY <1>2
  <2>2. \A i \in DOMAIN chain : chain[i] \in Entries(chain)
    BY DEF Entries
  <2>3. QED
    BY <1>2, <2>1, <2>2
<1>5. chain \in Seq(Entries(chain))
  BY <1>3, <1>4
<1>6. QED
  BY <1>2, <1>3, <1>5 DEF chain

\* An audited operation adds a record under a new identity and a link to it.
LEMMA AuditedIs ==
    ASSUME NEW d, IsDatabase(d), NEW what \in Operations \cup Receipt
    PROVE  LET n == Audited(d, what)
           IN  /\ IsDatabase(n) /\ n.received = d.received /\ n.receipts = d.receipts
               /\ \E o : /\ o = [id |-> d.ids + 1, what |-> what] /\ n.audit = d.audit \cup {o}
               /\ \A cp : (cp # None => cp.count \in Nat) /\ Verified(d, cp) => Verified(n, cp)
<1> DEFINE payload  == [id |-> d.ids + 1, what |-> what]
           last     == Len(d.chain)
           seq      == IF last = 0 THEN 1 ELSE d.chain[last].seq + 1
           previous == IF last = 0 THEN Zero ELSE d.chain[last].digest
           link     == [seq |-> seq, payload |-> payload, previous |-> previous,
                        digest |-> Digest(seq, previous, payload)]
           chain    == Append(d.chain, link)
           n        == Audited(d, what)
<1>1. n = [d EXCEPT !.audit = d.audit \cup {payload}, !.ids = d.ids + 1, !.chain = chain]
  BY DEF Audited
<1>2. d = [received |-> d.received, receipts |-> d.receipts, audit |-> d.audit,
           ids |-> d.ids, chain |-> d.chain]
  BY DEF IsDatabase
<1>3. /\ link.seq = seq /\ link.payload = payload /\ link.previous = previous
      /\ link.digest = Digest(seq, previous, payload)
  OBVIOUS
<1>4. /\ chain \in Seq(Entries(chain))
      /\ Len(chain) = last + 1 /\ DOMAIN chain = 1..(last + 1)
      /\ \A i \in DOMAIN d.chain : chain[i] = d.chain[i]
      /\ chain[last + 1] = link
      /\ last \in Nat /\ DOMAIN d.chain = 1..last
  <2> HIDE DEF link, chain
  <2>1. chain = Append(d.chain, link)
    BY DEF chain
  <2>2. last \in Nat /\ DOMAIN d.chain = 1..last
    BY ChainHas
  <2>3. chain \in Seq(Entries(chain))
    BY <2>1, Linked
  <2>4. /\ Len(chain) = last + 1 /\ DOMAIN chain = 1..(last + 1)
        /\ \A i \in DOMAIN d.chain : chain[i] = d.chain[i]
        /\ chain[last + 1] = link
    BY <2>1, Linked
  <2>5. QED
    BY <2>2, <2>3, <2>4
<1> HIDE DEF n, chain, link
<1>5. /\ n = [received |-> n.received, receipts |-> n.receipts, audit |-> n.audit,
              ids |-> n.ids, chain |-> n.chain]
      /\ n.received = d.received /\ n.receipts = d.receipts /\ n.audit = d.audit \cup {payload}
      /\ n.ids = d.ids + 1 /\ n.chain = chain
  <2> HIDE DEF payload
  <2> QED BY <1>1, <1>2
<1>6. IsDatabase(n)
  <2>1. payload \in [id : 1..(d.ids + 1), what : Operations \cup Receipt] /\ payload.id = d.ids + 1
    BY DEF IsDatabase
  <2>2. \A o \in d.audit : o \in [id : 1..(d.ids + 1), what : Operations \cup Receipt] /\ o.id # d.ids + 1
    BY DEF IsDatabase
  <2> HIDE DEF payload
  <2>3. n.audit \subseteq [id : 1..n.ids, what : Operations \cup Receipt] /\ n.ids \in Nat
    BY <1>5, <2>1, <2>2 DEF IsDatabase
  <2>4. \A o, q \in n.audit : o.id = q.id => o = q
    BY <1>5, <2>1, <2>2 DEF IsDatabase
  <2>5. n.chain \in Seq(Entries(n.chain))
    BY <1>4, <1>5
  <2>6. QED
    BY <1>5, <2>3, <2>4, <2>5 DEF IsDatabase
<1>7. ASSUME NEW cp, cp # None => cp.count \in Nat, Verified(d, cp)
      PROVE  Verified(n, cp)
  <2>1. \A i \in DOMAIN d.chain :
            /\ d.chain[i].seq = i /\ d.chain[i].previous = DigestBefore(d, i)
            /\ d.chain[i].digest = Digest(i, d.chain[i].previous, d.chain[i].payload)
            /\ d.chain[i].payload \in d.audit
    BY <1>7 DEF Verified
  <2>2. \A i \in 1..(last + 1) : DigestBefore(n, i) = DigestBefore(d, i)
    <3> SUFFICES ASSUME NEW i \in 1..(last + 1) PROVE DigestBefore(n, i) = DigestBefore(d, i)
      OBVIOUS
    <3>1. i = 1 \/ i - 1 \in DOMAIN d.chain
      BY <1>4
    <3>2. QED
      BY <1>4, <1>5, <3>1 DEF DigestBefore
  <2>3. seq = last + 1 /\ previous = DigestBefore(d, last + 1)
    <3>1. CASE last = 0
      BY <3>1 DEF DigestBefore
    <3>2. CASE last # 0
      <4>1. last \in DOMAIN d.chain /\ last + 1 # 1 /\ (last + 1) - 1 = last
        BY <1>4, <3>2
      <4>2. QED
        BY <2>1, <3>2, <4>1 DEF DigestBefore
    <3>3. QED
      BY <3>1, <3>2
  <2>4. ASSUME NEW i \in DOMAIN n.chain
        PROVE  /\ n.chain[i].seq = i /\ n.chain[i].previous = DigestBefore(n, i)
               /\ n.chain[i].digest = Digest(i, n.chain[i].previous, n.chain[i].payload)
               /\ n.chain[i].payload \in n.audit
    <3>1. CASE i \in DOMAIN d.chain
      <4>1. n.chain[i] = d.chain[i] /\ i \in 1..(last + 1)
        BY <1>4, <1>5, <3>1
      <4>2. QED
        BY <1>5, <2>1, <2>2, <3>1, <4>1
    <3>2. CASE i = last + 1
      <4>1. n.chain[i] = link /\ i \in 1..(last + 1)
        BY <1>4, <1>5, <3>2
      <4> HIDE DEF seq, previous, payload
      <4>2. QED
        BY <1>3, <1>5, <2>2, <2>3, <3>2, <4>1
    <3>3. i \in DOMAIN d.chain \/ i = last + 1
      BY <1>4, <1>5
    <3>4. QED
      BY <3>1, <3>2, <3>3
  <2>5. ASSUME cp # None
        PROVE  cp.count <= Len(n.chain) /\ cp.root = DigestBefore(n, cp.count + 1)
    <3>1. cp.count \in Nat /\ cp.count <= last /\ cp.root = DigestBefore(d, cp.count + 1)
      BY <1>7, <2>5 DEF Verified
    <3>2. cp.count + 1 \in 1..(last + 1) /\ Len(n.chain) = last + 1
      BY <1>4, <1>5, <3>1
    <3>3. QED
      BY <1>4, <2>2, <3>1, <3>2
  <2>6. QED
    BY <2>4, <2>5 DEF Verified
<1>8. \E o : o = [id |-> d.ids + 1, what |-> what] /\ n.audit = d.audit \cup {o}
  BY <1>5
<1>9. QED
  BY <1>5, <1>6, <1>7, <1>8 DEF n

\* What is verified does not depend on what is not in the history.
LEMMA SameHistory ==
    ASSUME NEW d, NEW e, e.chain = d.chain, e.audit = d.audit, NEW cp, Verified(d, cp)
    PROVE  Verified(e, cp)
BY DEF Verified, DigestBefore

-----------------------------------------------------------------------------
(* What stays *)

\* A step of the database and the archivers that keeps the objects and the
\* checkpoint.
LEMMA DatabaseKeeps ==
    ASSUME IInv, UNCHANGED <<versions, current, days, checkpoint, clock>>,
           IsDatabase(db'), \A r \in db'.receipts :
               \E v \in versions : v.event = r.event /\ v.number = r.number /\ v.until >= r.asked,
           archiver' \in [Archivers -> Task], \A p \in Archivers : Fine(archiver'[p], db', versions),
           snapshot' = snapshot \/ (snapshot' = <<db>> /\ db' = db),
           touched' \in BOOLEAN, incidents' \in 0..MaxIncidents,
           ~ touched' => Verified(db', checkpoint) /\ Entered(db')
    PROVE  IInv'
<1>1. versions' = versions /\ current' = current /\ days' = days /\ checkpoint' = checkpoint /\ clock' = clock
  OBVIOUS
<1>2. snapshot' # None => /\ snapshot' = <<snapshot'[1]>> /\ IsDatabase(snapshot'[1])
                         /\ \A r \in snapshot'[1].receipts :
                               \E v \in versions : v.event = r.event /\ v.number = r.number /\ v.until >= r.asked
  <2>1. CASE snapshot' = snapshot
    BY <2>1 DEF IInv, TypeOK, Vouched
  <2>2. CASE snapshot' = <<db>>
    <3>1. snapshot'[1] = db
      BY <2>2
    <3>2. QED
      BY <2>2, <3>1 DEF IInv, TypeOK, Vouched
  <2>3. QED
    BY <2>1, <2>2
<1>3. TypeOK'
  <2>1. \A p \in Archivers : archiver'[p] # Idle =>
            \A n \in DOMAIN archiver'[p].todo : archiver'[p].todo[n] \in DOMAIN db'.received
    BY DEF Fine
  <2>2. QED
    BY <1>1, <1>2, <2>1 DEF IInv, TypeOK
<1>4. Vouched(db)' /\ (snapshot' # None => Vouched(snapshot[1])')
  BY <1>1, <1>2 DEF Vouched
<1>5. \A p \in Archivers : Fine(archiver[p], db, versions)'
  BY <1>1
<1>6. Rooted(checkpoint)' /\ (~ touched' => Verified(db, checkpoint)' /\ Entered(db)')
  BY <1>1 DEF IInv
<1>7. QED
  BY <1>3, <1>4, <1>5, <1>6 DEF IInv

\* A step that keeps the database and what is said of it.
LEMMA AsideKeeps ==
    ASSUME IInv, UNCHANGED <<db, snapshot, touched>>,
           versions \subseteq versions', versions' \subseteq Locked, IsFiniteSet(versions'),
           current' \in [Events -> versions' \cup {None}],
           \A e \in Events : current'[e] # None => current'[e].event = e,
           archiver' \in [Archivers -> Task], \A p \in Archivers : Fine(archiver'[p], db, versions'),
           days' \in Days, clock' \in 0..MaxClock, incidents' \in 0..MaxIncidents,
           Rooted(checkpoint'), ~ touched => Verified(db, checkpoint')
    PROVE  IInv'
<1>1. db' = db /\ snapshot' = snapshot /\ touched' = touched
  OBVIOUS
<1>2. TypeOK'
  <2>1. \A p \in Archivers : archiver'[p] # Idle =>
            \A n \in DOMAIN archiver'[p].todo : archiver'[p].todo[n] \in DOMAIN db.received
    BY DEF Fine
  <2>2. QED
    BY <1>1, <2>1 DEF IInv, TypeOK
<1>3. Vouched(db)' /\ (snapshot' # None => Vouched(snapshot[1])')
  BY <1>1 DEF IInv, Vouched
<1>4. \A p \in Archivers : Fine(archiver[p], db, versions)'
  BY <1>1
<1>5. Rooted(checkpoint)' /\ (~ touched' => Verified(db, checkpoint)' /\ Entered(db)')
  BY <1>1 DEF IInv
<1>6. QED
  BY <1>2, <1>3, <1>4, <1>5 DEF IInv

-----------------------------------------------------------------------------
(* Operations and snapshots *)

\* The fields of a database.
LEMMA Fields ==
    ASSUME NEW d, IsDatabase(d)
    PROVE  d = [received |-> d.received, receipts |-> d.receipts, audit |-> d.audit,
                ids |-> d.ids, chain |-> d.chain]
BY DEF IsDatabase

\* The archivers' work fits a database that received no less.
LEMMA StillFine ==
    ASSUME IInv, DOMAIN db.received \subseteq DOMAIN db'.received
    PROVE  \A p \in Archivers : Fine(archiver[p], db', versions)
BY DEF IInv, Fine

LEMMA AuditKeeps ==
    ASSUME IInv, NEW what \in Operations, audit(what)
    PROVE  IInv'
<1>1. /\ db' = Audited(db, what)
      /\ UNCHANGED <<versions, current, days, checkpoint, clock>>
      /\ archiver' = archiver /\ snapshot' = snapshot /\ touched' = touched /\ incidents' = incidents
  BY DEF audit, storeVars, asideVars
<1>2. /\ IsDatabase(db') /\ db'.received = db.received /\ db'.receipts = db.receipts
      /\ \E o : o = [id |-> db.ids + 1, what |-> what] /\ db'.audit = db.audit \cup {o}
      /\ \A cp : (cp # None => cp.count \in Nat) /\ Verified(db, cp) => Verified(db', cp)
  <2>1. IsDatabase(db) /\ what \in Operations \cup Receipt
    BY DEF IInv, TypeOK
  <2>2. QED
    BY <1>1, <2>1, AuditedIs
<1>3. PICK o : o.what = what /\ db'.audit = db.audit \cup {o}
  BY <1>2
<1>4. \A r \in db'.receipts :
          \E v \in versions : v.event = r.event /\ v.number = r.number /\ v.until >= r.asked
  BY <1>2 DEF IInv, Vouched
<1>5. /\ archiver' \in [Archivers -> Task] /\ touched' \in BOOLEAN /\ incidents' \in 0..MaxIncidents
      /\ \A p \in Archivers : Fine(archiver'[p], db', versions)
  BY <1>1, <1>2, StillFine DEF IInv, TypeOK
<1>6. ~ touched' => Verified(db', checkpoint) /\ Entered(db')
  <2> SUFFICES ASSUME ~ touched PROVE Verified(db', checkpoint) /\ Entered(db')
    BY <1>1
  <2>1. Verified(db', checkpoint)
    BY <1>2 DEF IInv, Rooted
  <2>2. what \notin Receipt
    BY OperationsAssumption
  <2>3. Entered(db')
    BY <1>2, <1>3, <2>2 DEF IInv, Entered
  <2>4. QED
    BY <2>1, <2>3
<1>7. QED
  BY <1>1, <1>2, <1>4, <1>5, <1>6, DatabaseKeeps

LEMMA AcceptKeeps ==
    ASSUME IInv, Accept
    PROVE  IInv'
<1>1. /\ db' = [db EXCEPT !.received = Append(db.received, clock)]
      /\ Len(db.received) < MaxEvents
      /\ UNCHANGED <<versions, current, days, checkpoint, clock>>
      /\ archiver' = archiver /\ snapshot' = snapshot /\ touched' = touched /\ incidents' = incidents
  BY DEF Accept, storeVars, asideVars
<1> DEFINE more == Append(db.received, clock)
<1>2. IsDatabase(db) /\ db.received \in Seq(Nat) /\ clock \in Nat
  BY Bounds DEF IInv, TypeOK, IsDatabase
<1>3. more \in Seq(Nat) /\ Len(more) <= MaxEvents /\ DOMAIN db.received \subseteq DOMAIN more
  BY <1>1, <1>2, Bounds
<1> HIDE DEF more
<1>4. /\ db' = [received |-> db'.received, receipts |-> db'.receipts, audit |-> db'.audit,
                ids |-> db'.ids, chain |-> db'.chain]
      /\ db'.received = more /\ db'.receipts = db.receipts /\ db'.audit = db.audit
      /\ db'.ids = db.ids /\ db'.chain = db.chain
  <2>1. db = [received |-> db.received, receipts |-> db.receipts, audit |-> db.audit,
              ids |-> db.ids, chain |-> db.chain] /\ db' = [db EXCEPT !.received = more]
    BY <1>1, <1>2, Fields DEF more
  <2>2. QED
    BY <2>1
<1>5. IsDatabase(db')
  BY <1>2, <1>3, <1>4 DEF IsDatabase
<1>6. /\ archiver' \in [Archivers -> Task] /\ touched' \in BOOLEAN /\ incidents' \in 0..MaxIncidents
      /\ \A p \in Archivers : Fine(archiver'[p], db', versions)
  BY <1>1, <1>3, <1>4, StillFine DEF IInv, TypeOK
<1>7. /\ ~ touched' => Verified(db', checkpoint) /\ Entered(db')
      /\ \A r \in db'.receipts :
            \E v \in versions : v.event = r.event /\ v.number = r.number /\ v.until >= r.asked
  BY <1>1, <1>4, SameHistory DEF IInv, Entered, Vouched
<1>8. QED
  BY <1>1, <1>5, <1>6, <1>7, DatabaseKeeps

LEMMA EditKeeps ==
    ASSUME IInv, Edit
    PROVE  IInv'
<1>1. /\ UNCHANGED <<versions, current, days, checkpoint, clock>>
      /\ archiver' = archiver /\ snapshot' = snapshot /\ touched' = TRUE
  BY DEF Edit, storeVars, asideVars
<1>2. incidents' \in 0..MaxIncidents
  BY Bounds DEF Edit, Incident, IInv, TypeOK
<1>3. IsDatabase(db)
  BY DEF IInv, TypeOK
<1>4. IsDatabase(db') /\ db'.received = db.received /\ db'.receipts = db.receipts
  <2>1. CASE \E S : /\ db' = [db EXCEPT !.audit = S]
                   /\ S \subseteq [id : 1..db.ids, what : Operations \cup Receipt]
                   /\ \A o, q \in S : o.id = q.id => o = q
    <3>1. PICK S : /\ db' = [db EXCEPT !.audit = S]
                   /\ S \subseteq [id : 1..db.ids, what : Operations \cup Receipt]
                   /\ \A o, q \in S : o.id = q.id => o = q
      BY <2>1
    <3>2. /\ db' = [received |-> db'.received, receipts |-> db'.receipts, audit |-> db'.audit,
                    ids |-> db'.ids, chain |-> db'.chain]
          /\ db'.received = db.received /\ db'.receipts = db.receipts /\ db'.audit = S
          /\ db'.ids = db.ids /\ db'.chain = db.chain
      <4>1. db = [received |-> db.received, receipts |-> db.receipts, audit |-> db.audit,
                  ids |-> db.ids, chain |-> db.chain] /\ db' = [db EXCEPT !.audit = S]
        BY <1>3, <3>1, Fields
      <4>2. QED
        BY <4>1
    <3>3. QED
      BY <1>3, <3>1, <3>2 DEF IsDatabase
  <2>2. ASSUME NEW o \in db.audit, db' = [db EXCEPT !.audit = db.audit \ {o}]
        PROVE  IsDatabase(db') /\ db'.received = db.received /\ db'.receipts = db.receipts
    <3>1. /\ db.audit \ {o} \subseteq [id : 1..db.ids, what : Operations \cup Receipt]
          /\ \A r, q \in db.audit \ {o} : r.id = q.id => r = q
      BY <1>3 DEF IsDatabase
    <3>2. QED
      BY <2>1, <2>2, <3>1
  <2>3. ASSUME NEW o \in db.audit, NEW what \in Operations,
               db' = [db EXCEPT !.audit = (db.audit \ {o}) \cup {[o EXCEPT !.what = what]}]
        PROVE  IsDatabase(db') /\ db'.received = db.received /\ db'.receipts = db.receipts
    <3> DEFINE changed == [o EXCEPT !.what = what]
    <3>1. changed \in [id : 1..db.ids, what : Operations \cup Receipt] /\ changed.id = o.id
      BY <1>3 DEF IsDatabase
    <3> HIDE DEF changed
    <3>2. /\ (db.audit \ {o}) \cup {changed} \subseteq [id : 1..db.ids, what : Operations \cup Receipt]
          /\ \A r, q \in (db.audit \ {o}) \cup {changed} : r.id = q.id => r = q
      BY <1>3, <3>1 DEF IsDatabase
    <3>3. QED
      BY <2>1, <2>3, <3>2 DEF changed
  <2>4. ASSUME NEW n \in 0..(Len(db.chain) - 1), db' = [db EXCEPT !.chain = SubSeq(db.chain, 1, n)]
        PROVE  IsDatabase(db') /\ db'.received = db.received /\ db'.receipts = db.receipts
    <3> DEFINE shorter == SubSeq(db.chain, 1, n)
    <3>1. shorter \in Seq(Entries(db.chain)) /\ DOMAIN shorter = 1..n /\ n \in Nat
      <4>1. Len(db.chain) \in Nat /\ DOMAIN db.chain = 1..Len(db.chain) /\ db.chain \in Seq(Entries(db.chain))
        BY <1>3, ChainHas DEF IsDatabase
      <4>2. n \in Nat /\ n <= Len(db.chain)
        BY <2>4, <4>1
      <4>3. \A i \in 1..n : db.chain[i] \in Entries(db.chain)
        BY <4>1, <4>2 DEF Entries
      <4>4. shorter \in Seq(Entries(db.chain)) /\ Len(shorter) = IF 1 <= n THEN n - 1 + 1 ELSE 0
        BY <4>2, <4>3, SubSeqProperties
      <4> HIDE DEF shorter
      <4>5. Len(shorter) = n
        BY <4>2, <4>4
      <4>6. QED
        BY <4>2, <4>4, <4>5, LenProperties
    <3> HIDE DEF shorter
    <3>2. shorter \in Seq(Entries(shorter))
      <4>1. shorter = [i \in 1..n |-> shorter[i]] /\ \A i \in 1..n : shorter[i] \in Entries(shorter)
        BY <3>1 DEF Entries
      <4>2. shorter \in [1..n -> Entries(shorter)]
        BY <4>1
      <4>3. QED
        BY <3>1, <4>2
    <3>3. /\ db' = [received |-> db'.received, receipts |-> db'.receipts, audit |-> db'.audit,
                    ids |-> db'.ids, chain |-> db'.chain]
          /\ db'.received = db.received /\ db'.receipts = db.receipts /\ db'.audit = db.audit
          /\ db'.ids = db.ids /\ db'.chain = shorter
      <4>1. db = [received |-> db.received, receipts |-> db.receipts, audit |-> db.audit,
                  ids |-> db.ids, chain |-> db.chain] /\ db' = [db EXCEPT !.chain = shorter]
        BY <1>3, <2>4, Fields DEF shorter
      <4>2. QED
        BY <4>1
    <3>4. QED
      BY <1>3, <3>2, <3>3 DEF IsDatabase
  <2>5. \/ \E o \in db.audit : db' = [db EXCEPT !.audit = db.audit \ {o}]
        \/ \E o \in db.audit, what \in Operations :
              db' = [db EXCEPT !.audit = (db.audit \ {o}) \cup {[o EXCEPT !.what = what]}]
        \/ \E n \in 0..(Len(db.chain) - 1) : db' = [db EXCEPT !.chain = SubSeq(db.chain, 1, n)]
    BY DEF Edit
  <2>6. QED
    BY <2>2, <2>3, <2>4, <2>5
<1>5. /\ archiver' \in [Archivers -> Task] /\ touched' \in BOOLEAN
      /\ \A p \in Archivers : Fine(archiver'[p], db', versions)
  BY <1>1, <1>4, StillFine DEF IInv, TypeOK
<1>6. \A r \in db'.receipts :
          \E v \in versions : v.event = r.event /\ v.number = r.number /\ v.until >= r.asked
  BY <1>4 DEF IInv, Vouched
<1>7. QED
  BY <1>1, <1>2, <1>4, <1>5, <1>6, DatabaseKeeps

\* An idle archiver holds nothing.
LEMMA IdleIsFine ==
    ASSUME NEW d, NEW locked
    PROVE  Idle \in Task /\ Fine(Idle, d, locked)
BY DEF Idle, Task, Fine

LEMMA SnapshotKeeps ==
    ASSUME IInv, backup \/ restore
    PROVE  IInv'
<1>1. CASE backup
  <2>1. /\ UNCHANGED <<versions, current, days, checkpoint, clock>>
        /\ db' = db /\ archiver' = archiver /\ touched' = touched /\ incidents' = incidents
        /\ snapshot' = <<db>>
    BY <1>1 DEF backup, storeVars
  <2>2. /\ IsDatabase(db') /\ archiver' \in [Archivers -> Task] /\ touched' \in BOOLEAN
        /\ incidents' \in 0..MaxIncidents
        /\ \A p \in Archivers : Fine(archiver'[p], db', versions)
        /\ \A r \in db'.receipts :
              \E v \in versions : v.event = r.event /\ v.number = r.number /\ v.until >= r.asked
        /\ ~ touched' => Verified(db', checkpoint) /\ Entered(db')
    BY <2>1 DEF IInv, TypeOK, Vouched
  <2>3. QED
    BY <2>1, <2>2, DatabaseKeeps
<1>2. CASE restore
  <2>1. /\ UNCHANGED <<versions, current, days, checkpoint, clock>>
        /\ snapshot # None /\ snapshot' = snapshot /\ db' = snapshot[1] /\ touched' = TRUE
        /\ archiver' = [p \in Archivers |-> Idle]
    BY <1>2 DEF restore, storeVars, asideVars
  <2>2. incidents' \in 0..MaxIncidents
    BY <1>2, Bounds DEF restore, Incident, IInv, TypeOK
  <2>3. archiver' \in [Archivers -> Task] /\ \A p \in Archivers : Fine(archiver'[p], db', versions)
    BY <2>1, IdleIsFine
  <2>4. /\ IsDatabase(db')
        /\ \A r \in db'.receipts :
              \E v \in versions : v.event = r.event /\ v.number = r.number /\ v.until >= r.asked
    BY <2>1 DEF IInv, TypeOK, Vouched
  <2>5. QED
    BY <2>1, <2>2, <2>3, <2>4, DatabaseKeeps
<1>3. QED
  BY <1>1, <1>2

\* A checkpoint is the last of the digests of a history that verified.
LEMMA CheckpointKeeps ==
    ASSUME IInv, Checkpoint
    PROVE  IInv'
<1> DEFINE count   == Len(db.chain)
           records == [i \in DOMAIN db.chain |-> db.chain[i].payload]
           root    == DigestBefore(db, count + 1)
           digests == [i \in 0..count |-> DigestBefore(db, i + 1)]
<1>1. /\ db' = db /\ archiver' = archiver /\ versions' = versions /\ current' = current /\ days' = days
      /\ snapshot' = snapshot /\ touched' = touched /\ clock' = clock /\ incidents' = incidents
      /\ Verified(db, None) /\ checkpoint' = [count |-> count, root |-> root, records |-> records]
  BY DEF Checkpoint, storeVars
<1>2. count \in Nat /\ DOMAIN db.chain = 1..count
  BY ChainHas DEF IInv, TypeOK
<1> HIDE DEF count
<1>3. \A i \in 1..count :
          /\ db.chain[i].previous = DigestBefore(db, i)
          /\ db.chain[i].digest = Digest(i, db.chain[i].previous, db.chain[i].payload)
  BY <1>1, <1>2 DEF Verified
<1>4. checkpoint'.count = count /\ checkpoint'.root = root /\ checkpoint'.records = records
  BY <1>1
<1>5. DOMAIN records = 1..count /\ \A i \in 1..count : records[i] = db.chain[i].payload
  BY <1>2
<1>6. digests[0] = Zero /\ digests[count] = root
  BY <1>2 DEF DigestBefore
<1>7. ASSUME NEW i \in 1..count PROVE digests[i] = Digest(i, digests[i - 1], records[i])
  <2>1. i \in 0..count /\ i - 1 \in 0..count /\ i + 1 # 1 /\ (i + 1) - 1 = i /\ (i - 1) + 1 = i
    BY <1>2
  <2>2. digests[i] = db.chain[i].digest /\ digests[i - 1] = DigestBefore(db, i)
    BY <2>1 DEF DigestBefore
  <2>3. QED
    BY <1>3, <1>5, <2>2
<1> HIDE DEF records, root, digests
<1>8. Leads(digests, checkpoint')
  BY <1>4, <1>6, <1>7 DEF Leads
<1>9. Rooted(checkpoint')
  BY <1>2, <1>4, <1>5, <1>8 DEF Rooted
<1>10. Verified(db, checkpoint')
  <2>1. checkpoint'.count <= Len(db.chain) /\ checkpoint'.root = DigestBefore(db, checkpoint'.count + 1)
    BY <1>2, <1>4 DEF root, count
  <2>2. QED
    BY <1>1, <2>1 DEF Verified
<1>11. /\ versions \subseteq versions' /\ versions' \subseteq Locked /\ IsFiniteSet(versions')
       /\ current' \in [Events -> versions' \cup {None}]
       /\ \A e \in Events : current'[e] # None => current'[e].event = e
       /\ archiver' \in [Archivers -> Task] /\ \A p \in Archivers : Fine(archiver'[p], db, versions')
       /\ days' \in Days /\ clock' \in 0..MaxClock /\ incidents' \in 0..MaxIncidents
  BY <1>1 DEF IInv, TypeOK
<1>12. QED
  BY <1>1, <1>9, <1>10, <1>11, AsideKeeps

-----------------------------------------------------------------------------
(* The archive *)

\* A step that keeps the database, the versions and the checkpoint.
LEMMA WorkKeeps ==
    ASSUME IInv, UNCHANGED <<db, versions, snapshot, checkpoint, touched>>,
           current' \in [Events -> versions \cup {None}],
           \A e \in Events : current'[e] # None => current'[e].event = e,
           DOMAIN archiver' = Archivers, archiver' = [p \in Archivers |-> archiver'[p]],
           \A p \in Archivers : archiver'[p] = archiver[p] \/ Fine(archiver'[p], db, versions),
           days' \in Days, clock' \in 0..MaxClock, incidents' \in 0..MaxIncidents
    PROVE  IInv'
<1>1. \A p \in Archivers : Fine(archiver'[p], db, versions)
  BY DEF IInv
<1>2. \A p \in Archivers : archiver'[p] \in Task
  BY <1>1 DEF Fine
<1>3. archiver' \in [Archivers -> Task]
  BY <1>2
<1>4. /\ db' = db /\ snapshot' = snapshot /\ touched' = touched /\ checkpoint' = checkpoint
      /\ versions' = versions
      /\ versions \subseteq versions' /\ versions' \subseteq Locked /\ IsFiniteSet(versions')
      /\ Rooted(checkpoint') /\ (~ touched => Verified(db, checkpoint'))
  BY DEF IInv, TypeOK
<1>5. QED
  BY <1>1, <1>3, <1>4, AsideKeeps

\* The archivers when one of them goes on to another task.
LEMMA OneGoesOn ==
    ASSUME IInv, NEW p \in Archivers, NEW task, archiver' = [archiver EXCEPT ![p] = task]
    PROVE  /\ DOMAIN archiver' = Archivers /\ archiver' = [q \in Archivers |-> archiver'[q]]
           /\ archiver'[p] = task /\ \A q \in Archivers : q # p => archiver'[q] = archiver[q]
BY DEF IInv, TypeOK

\* What the other parts keep when an archiver moves.
LEMMA RestIsTyped ==
    ASSUME IInv
    PROVE  /\ current \in [Events -> versions \cup {None}]
           /\ \A e \in Events : current[e] # None => current[e].event = e
           /\ days \in Days /\ days \in Nat /\ clock \in 0..MaxClock /\ incidents \in 0..MaxIncidents
           /\ incidents < MaxIncidents => incidents + 1 \in 0..MaxIncidents
           /\ clock < MaxClock => clock + 1 \in 0..MaxClock
           /\ archiver \in [Archivers -> Task]
           /\ DOMAIN archiver = Archivers /\ archiver = [q \in Archivers |-> archiver[q]]
BY Bounds DEF IInv, TypeOK

LEMMA AroundKeeps ==
    ASSUME IInv, \/ Reconfigure \/ Day \/ \E e \in Events : Hide(e)
                 \/ \E p \in Archivers : Refuse(p) \/ Crash(p)
    PROVE  IInv'
<1>1. CASE Reconfigure
  <2>1. /\ archiver' = [p \in Archivers |-> Idle] /\ days' \in Days
        /\ incidents < MaxIncidents /\ incidents' = incidents + 1
        /\ UNCHANGED <<db, versions, snapshot, checkpoint, touched>> /\ current' = current /\ clock' = clock
    BY <1>1 DEF Reconfigure, Incident, storeVars
  <2>2. /\ \A p \in Archivers : Fine(archiver'[p], db, versions)
        /\ DOMAIN archiver' = Archivers /\ archiver' = [p \in Archivers |-> archiver'[p]]
    BY <2>1, IdleIsFine
  <2>3. QED
    BY <2>1, <2>2, RestIsTyped, WorkKeeps
<1>2. CASE Day
  <2>1. /\ archiver' = archiver /\ days' = days /\ incidents' = incidents
        /\ clock < MaxClock /\ clock' = clock + 1
        /\ UNCHANGED <<db, versions, snapshot, checkpoint, touched>> /\ current' = current
    BY <1>2 DEF Day, storeVars, asideVars
  <2>2. QED
    BY <2>1, RestIsTyped, WorkKeeps
<1>3. ASSUME NEW e \in Events, Hide(e) PROVE IInv'
  <2>1. /\ archiver' = archiver /\ days' = days /\ clock' = clock
        /\ incidents < MaxIncidents /\ incidents' = incidents + 1
        /\ UNCHANGED <<db, versions, snapshot, checkpoint, touched>>
        /\ current' = [current EXCEPT ![e] = None]
    BY <1>3 DEF Hide, Incident, asideVars
  <2>2. /\ current' \in [Events -> versions \cup {None}]
        /\ \A k \in Events : current'[k] # None => current'[k].event = k
    BY <2>1, RestIsTyped
  <2>3. QED
    BY <2>1, <2>2, RestIsTyped, WorkKeeps
<1>4. ASSUME NEW p \in Archivers, Refuse(p) \/ Crash(p) PROVE IInv'
  <2>1. /\ archiver' = [archiver EXCEPT ![p] = Idle] /\ days' = days /\ clock' = clock
        /\ UNCHANGED <<db, versions, snapshot, checkpoint, touched>> /\ current' = current
    BY <1>4 DEF Refuse, Crash, Incident, storeVars, asideVars
  <2>2. incidents' = incidents \/ (incidents < MaxIncidents /\ incidents' = incidents + 1)
    BY <1>4 DEF Refuse, Crash, Incident
  <2>3. \A q \in Archivers : archiver'[q] = archiver[q] \/ Fine(archiver'[q], db, versions)
    BY <2>1, OneGoesOn, IdleIsFine
  <2>4. DOMAIN archiver' = Archivers /\ archiver' = [q \in Archivers |-> archiver'[q]]
    BY <2>1, OneGoesOn
  <2>5. QED
    BY <2>1, <2>2, <2>3, <2>4, RestIsTyped, WorkKeeps
<1>5. QED
  BY <1>1, <1>2, <1>3, <1>4

\* The place of an event among those that are taken.
Rank(at, i) == Cardinality({k \in at : k <= i})

\* What is taken is numbered from 1 on, each by one number.
LEMMA Ranks ==
    ASSUME NEW length \in Nat, NEW at \in SUBSET (1..length)
    PROVE  /\ Cardinality(at) \in 0..length
           /\ \A i \in at : Rank(at, i) \in 1..Cardinality(at)
           /\ \A n \in 1..Cardinality(at) : \E i \in at : Rank(at, i) = n
           /\ \A i, j \in at : Rank(at, i) = Rank(at, j) => i = j
<1> DEFINE Below(i) == {k \in at : k <= i}
           number == [i \in at |-> Rank(at, i)]
<1>1. /\ IsFiniteSet(1..length) /\ Cardinality(1..length) = length
  BY FS_Interval
<1>2. IsFiniteSet(at) /\ Cardinality(at) <= length
  BY <1>1, FS_Subset
<1>3. Cardinality(at) \in 0..length
  BY <1>2, FS_CardinalityType
<1>4. \A i \in at : /\ Below(i) \in SUBSET at /\ i \in Below(i) /\ IsFiniteSet(Below(i))
                    /\ Cardinality(Below(i)) <= Cardinality(at)
  BY <1>2, FS_Subset
<1>5. \A i \in at : Rank(at, i) \in 1..Cardinality(at)
  <2> SUFFICES ASSUME NEW i \in at PROVE Cardinality(Below(i)) \in 1..Cardinality(at)
    BY DEF Rank
  <2>1. Cardinality(Below(i)) \in Nat
    BY <1>4, FS_CardinalityType
  <2>2. Cardinality(Below(i)) # 0
    <3> HIDE DEF Below
    <3> QED BY <1>4, FS_EmptySet
  <2>3. QED
    BY <2>1, <2>2, <1>3, <1>4
<1>6. ASSUME NEW i \in at, NEW j \in at, Rank(at, i) = Rank(at, j), i < j
      PROVE  FALSE
  <2>1. Below(i) \in SUBSET Below(j)
    <3>1. ASSUME NEW k \in at, k <= i PROVE k <= j
      <4>1. i \in Int /\ j \in Int /\ k \in Int /\ i < j
        BY <1>6
      <4>2. QED
        BY <3>1, <4>1
    <3>2. QED
      BY <3>1
  <2>2. Cardinality(Below(i)) = Cardinality(Below(j))
    BY <1>6 DEF Rank
  <2>3. Below(i) = Below(j)
    <3> HIDE DEF Below
    <3> QED BY <1>4, <2>1, <2>2, FS_Subset
  <2>4. QED
    BY <1>4, <1>6, <2>3
<1>7. \A i, j \in at : Rank(at, i) = Rank(at, j) => i = j
  BY <1>6
<1>8. number \in Injection(at, 1..Cardinality(at))
  BY <1>5, <1>7 DEF Injection, IsInjective
<1>9. IsFiniteSet(1..Cardinality(at)) /\ Cardinality(1..Cardinality(at)) = Cardinality(at)
  BY <1>3, FS_Interval
<1>10. number \in Surjection(at, 1..Cardinality(at))
  <2> HIDE DEF number
  <2> QED BY <1>8, <1>9, FS_Injection
<1>11. \A n \in 1..Cardinality(at) : \E i \in at : Rank(at, i) = n
  BY <1>10 DEF Surjection
<1>12. QED
  BY <1>3, <1>5, <1>7, <1>11

\* A set of numbers that is not empty has a least one.
LEMMA HasLeast ==
    ASSUME NEW S \in SUBSET Nat, S # {}
    PROVE  \E least \in S : \A n \in S : least <= n
<1>1. PICK least \in S : \A n \in S : ~ (<<n, least>> \in OpToRel(<, Nat))
  BY NatLessThanWellFounded, WFMin
<1>2. \A n \in S : ~ (n < least)
  BY <1>1 DEF OpToRel
<1>3. QED
  BY <1>2

\* What is selected are events without a receipt, at least one.
LEMMA SelectKeeps ==
    ASSUME IInv, NEW p \in Archivers, Select(p)
    PROVE  IInv'
<1> DEFINE open == {e \in DOMAIN db.received : ~ HasReceipt(db, e)}
           rows == {e \in open : Cardinality({k \in open : k < e}) < Limit}
           Place(n) == CHOOSE e \in rows : Cardinality({k \in rows : k <= e}) = n
           todo == [n \in 1..Cardinality(rows) |-> Place(n)]
           task == [pc |-> "lock", todo |-> todo]
<1>1. /\ open # {} /\ archiver' = [archiver EXCEPT ![p] = task]
      /\ UNCHANGED <<db, versions, snapshot, checkpoint, touched>>
      /\ current' = current /\ days' = days /\ clock' = clock /\ incidents' = incidents
  BY DEF Select, storeVars, asideVars
<1>2. /\ Len(db.received) \in Nat /\ DOMAIN db.received = 1..Len(db.received)
      /\ Len(db.received) <= MaxEvents /\ MaxEvents \in Nat
  BY Bounds DEF IInv, TypeOK, IsDatabase
<1>3. open \in SUBSET Nat /\ open \subseteq DOMAIN db.received
  BY <1>2
<1>4. rows \in SUBSET (1..Len(db.received)) /\ rows \subseteq DOMAIN db.received
  BY <1>2
<1>5. rows # {}
  <2>1. PICK least \in open : \A e \in open : least <= e
    <3> HIDE DEF open
    <3> QED BY <1>1, <1>3, HasLeast
  <2>2. {k \in open : k < least} = {}
    <3> HIDE DEF open
    <3>1. \A k \in open : ~ (k < least)
      BY <1>3, <2>1
    <3>2. QED
      BY <3>1
  <2> HIDE DEF open
  <2>3. Cardinality({k \in open : k < least}) = 0 /\ 0 < Limit
    BY <2>2, FS_EmptySet, Bounds
  <2>4. least \in rows
    BY <2>1, <2>3
  <2>5. QED
    BY <2>4
<1> HIDE DEF open, rows
<1>6. /\ Cardinality(rows) \in 0..Len(db.received)
      /\ \A e \in rows : Rank(rows, e) \in 1..Cardinality(rows)
      /\ \A n \in 1..Cardinality(rows) : \E e \in rows : Rank(rows, e) = n
  BY <1>2, <1>4, Ranks
<1>7. \A n \in 1..Cardinality(rows) : Place(n) \in rows
  BY <1>6 DEF Rank
<1>8. Cardinality(rows) \in Nat /\ Cardinality(rows) # 0
  <2>1. PICK e \in rows : TRUE
    BY <1>5
  <2>2. Rank(rows, e) \in 1..Cardinality(rows)
    BY <1>6
  <2>3. QED
    BY <1>6, <2>2
<1>9. rows \subseteq Events
  BY <1>2, <1>4 DEF Events
<1> HIDE DEF Place
<1>10. todo \in [1..Cardinality(rows) -> Events]
  BY <1>7, <1>9
<1>11. todo \in Seq(Events) /\ Len(todo) = Cardinality(rows) /\ DOMAIN todo = 1..Cardinality(rows)
  <2> HIDE DEF todo
  <2> QED BY <1>8, <1>10
<1>12. todo # <<>>
  <2> HIDE DEF todo
  <2> QED BY <1>8, <1>11
<1>13. \A n \in DOMAIN todo : todo[n] \in DOMAIN db.received
  BY <1>4, <1>7
<1> HIDE DEF todo
<1>14. task.pc = "lock" /\ task.todo = todo /\ task \in Task
  BY <1>11, <1>12 DEF Task
<1> HIDE DEF task
<1>15. Fine(task, db, versions)
  BY <1>13, <1>14 DEF Fine
<1>16. \A q \in Archivers : archiver'[q] = archiver[q] \/ Fine(archiver'[q], db, versions)
  BY <1>1, <1>15, OneGoesOn
<1>17. DOMAIN archiver' = Archivers /\ archiver' = [q \in Archivers |-> archiver'[q]]
  BY <1>1, OneGoesOn
<1>18. QED
  BY <1>1, <1>16, <1>17, RestIsTyped, WorkKeeps

\* An object is locked, or is there; it is recorded when it is locked long enough.
LEMMA LockKeeps ==
    ASSUME IInv, NEW p \in Archivers, Lock(p)
    PROVE  IInv'
<1> DEFINE todo == archiver[p].todo
           e    == Head(todo)
           v    == Version(e)
           task == IF Adequate(v, e) THEN [pc |-> "record", version |-> v, asked |-> Until(e),
                                           todo |-> Tail(todo)]
                   ELSE Idle
<1>1. /\ archiver[p].pc = "lock"
      /\ versions' = versions \cup {v} /\ current' = [current EXCEPT ![e] = v]
      /\ archiver' = [archiver EXCEPT ![p] = task]
      /\ UNCHANGED <<db, snapshot, touched>>
      /\ checkpoint' = checkpoint /\ days' = days /\ clock' = clock /\ incidents' = incidents
  BY DEF Lock, asideVars
<1>2. /\ archiver[p] \in Task /\ archiver[p] # Idle
      /\ \A n \in DOMAIN todo : todo[n] \in DOMAIN db.received
  BY <1>1 DEF IInv, TypeOK, Idle
<1>3. todo \in Seq(Events) /\ todo # <<>>
  BY <1>1, <1>2 DEF Task, Idle
<1> HIDE DEF todo
<1>4. e \in Events /\ e \in DOMAIN db.received
  <2>1. e = todo[1] /\ 1 \in DOMAIN todo
    BY <1>3
  <2>2. QED
    BY <1>2, <1>3, <2>1
<1>5. Tail(todo) \in Seq(Events) /\ \A n \in DOMAIN Tail(todo) : Tail(todo)[n] \in DOMAIN db.received
  <2>1. /\ Tail(todo) \in Seq(Events) /\ Len(Tail(todo)) = Len(todo) - 1
        /\ \A n \in 1..Len(Tail(todo)) : Tail(todo)[n] = todo[n + 1]
    BY <1>3, HeadTailProperties
  <2>2. DOMAIN Tail(todo) = 1..Len(Tail(todo)) /\ DOMAIN todo = 1..Len(todo) /\ Len(todo) \in Nat
    BY <1>3, <2>1, LenProperties
  <2>3. \A n \in DOMAIN Tail(todo) : n + 1 \in DOMAIN todo
    BY <2>1, <2>2
  <2>4. QED
    BY <1>2, <2>1, <2>2, <2>3
<1> HIDE DEF e
<1>6. Until(e) \in Nat
  <2>1. db.received[e] \in Nat
    BY <1>4 DEF IInv, TypeOK, IsDatabase
  <2>2. QED
    BY <2>1, RestIsTyped DEF Until
<1>7. v \in Locked /\ v.event = e /\ (current[e] # None => v \in versions)
  <2>1. CASE current[e] = None
    <3> DEFINE same == {w \in versions : w.event = e}
    <3>1. IsFiniteSet(same)
      BY FS_Subset DEF IInv, TypeOK
    <3>2. Cardinality(same) + 1 \in Nat \ {0}
      BY <3>1, FS_CardinalityType
    <3>3. v = [event |-> e, number |-> Cardinality(same) + 1, until |-> Until(e)]
      BY <2>1 DEF Version
    <3> HIDE DEF same, v
    <3>4. QED
      BY <1>4, <1>6, <2>1, <3>2, <3>3 DEF Locked
  <2>2. CASE current[e] # None
    <3>1. v = current[e] /\ current[e] \in versions /\ current[e].event = e /\ versions \subseteq Locked
      BY <1>4, <2>2 DEF Version, IInv, TypeOK
    <3>2. QED
      BY <3>1
  <2>3. QED
    BY <2>1, <2>2
<1> HIDE DEF v
<1>8. versions \subseteq versions' /\ versions' \subseteq Locked /\ IsFiniteSet(versions') /\ v \in versions'
  BY <1>1, <1>7, FS_AddElement DEF IInv, TypeOK
<1>9. /\ current' \in [Events -> versions' \cup {None}]
      /\ \A k \in Events : current'[k] # None => current'[k].event = k
  BY <1>1, <1>4, <1>7, <1>8, RestIsTyped
<1>10. Fine(task, db, versions')
  <2>1. CASE Adequate(v, e)
    <3> DEFINE held == [pc |-> "record", version |-> v, asked |-> Until(e), todo |-> Tail(todo)]
    <3>1. /\ held \in [pc : {"record"}, version : Locked, asked : Nat, todo : Seq(Events)]
          /\ held.pc = "record" /\ held.version = v /\ held.asked = Until(e) /\ held.todo = Tail(todo)
      BY <1>5, <1>6, <1>7
    <3>2. task = held /\ v.until >= Until(e)
      BY <2>1 DEF Adequate
    <3> HIDE DEF held, task
    <3>3. QED
      BY <1>5, <1>8, <3>1, <3>2 DEF Fine, Task
  <2>2. CASE ~ Adequate(v, e)
    BY <2>2, IdleIsFine
  <2>3. QED
    BY <2>1, <2>2
<1> HIDE DEF task
<1>11. \A q \in Archivers : Fine(archiver'[q], db, versions')
  <2>1. \A q \in Archivers : Fine(archiver[q], db, versions')
    BY <1>8 DEF IInv, Fine
  <2>2. QED
    BY <1>1, <1>10, <2>1, OneGoesOn
<1>12. archiver' \in [Archivers -> Task]
  <2>1. \A q \in Archivers : archiver'[q] \in Task
    BY <1>11 DEF Fine
  <2>2. QED
    BY <1>1, <2>1, OneGoesOn
<1>13. Rooted(checkpoint') /\ (~ touched => Verified(db, checkpoint'))
  BY <1>1 DEF IInv
<1>14. QED
  BY <1>1, <1>8, <1>9, <1>11, <1>12, <1>13, RestIsTyped, AsideKeeps

\* A receipt is written with its audit record, once for an event.
LEMMA RecordedIs ==
    ASSUME IInv, NEW receipt \in Receipt,
           \E v \in versions :
               v.event = receipt.event /\ v.number = receipt.number /\ v.until >= receipt.asked
    PROVE  LET n == Recorded(db, receipt)
           IN  /\ IsDatabase(n) /\ n.received = db.received
               /\ \A r \in n.receipts :
                     \E v \in versions : v.event = r.event /\ v.number = r.number /\ v.until >= r.asked
               /\ ~ touched => Verified(n, checkpoint) /\ Entered(n)
<1>1. IsDatabase(db) /\ Vouched(db)
  BY DEF IInv, TypeOK
<1>2. CASE HasReceipt(db, receipt.event)
  BY <1>1, <1>2 DEF Recorded, IInv, Vouched
<1>3. CASE ~ HasReceipt(db, receipt.event)
  <2> DEFINE more == db.receipts \cup {receipt}
             base == [db EXCEPT !.receipts = more]
             n    == Audited(base, receipt)
  <2>1. Recorded(db, receipt) = n
    BY <1>3 DEF Recorded
  <2>2. /\ base = [received |-> base.received, receipts |-> base.receipts, audit |-> base.audit,
                   ids |-> base.ids, chain |-> base.chain]
        /\ base.received = db.received /\ base.receipts = more /\ base.audit = db.audit
        /\ base.ids = db.ids /\ base.chain = db.chain
    <3>1. db = [received |-> db.received, receipts |-> db.receipts, audit |-> db.audit,
                ids |-> db.ids, chain |-> db.chain]
      BY <1>1, Fields
    <3> HIDE DEF more
    <3>2. QED
      BY <3>1
  <2> HIDE DEF base
  <2>3. \A r, s \in more : r.event = s.event => r = s
    BY <1>1, <1>3 DEF IsDatabase, HasReceipt
  <2>4. more \subseteq Receipt
    BY <1>1 DEF IsDatabase
  <2>5. \A r \in more :
            \E v \in versions : v.event = r.event /\ v.number = r.number /\ v.until >= r.asked
    BY <1>1 DEF Vouched
  <2>6. receipt \in more /\ db.receipts \subseteq more /\ \A r \in more : r \in db.receipts \/ r = receipt
    OBVIOUS
  <2> HIDE DEF more
  <2>7. IsDatabase(base)
    BY <1>1, <2>2, <2>3, <2>4 DEF IsDatabase
  <2>8. /\ IsDatabase(n) /\ n.received = base.received /\ n.receipts = base.receipts
        /\ \E o : o = [id |-> base.ids + 1, what |-> receipt] /\ n.audit = base.audit \cup {o}
        /\ \A cp : (cp # None => cp.count \in Nat) /\ Verified(base, cp) => Verified(n, cp)
    <3>1. receipt \in Operations \cup Receipt
      OBVIOUS
    <3>2. QED
      BY <2>7, <3>1, AuditedIs
  <2> HIDE DEF n
  <2>9. ASSUME ~ touched PROVE Verified(n, checkpoint) /\ Entered(n)
    <3>1. Verified(base, checkpoint)
      BY <2>2, <2>9, SameHistory DEF IInv
    <3>2. Verified(n, checkpoint)
      BY <2>8, <3>1 DEF IInv, Rooted
    <3>3. PICK o : o.what = receipt /\ n.audit = db.audit \cup {o}
      BY <2>2, <2>8
    <3>4. receipt \notin Operations
      BY OperationsAssumption
    <3>5. \A q \in db.audit : q.what # receipt
      <4>1. receipt \notin db.receipts
        BY <1>3 DEF HasReceipt
      <4>2. QED
        BY <2>9, <3>4, <4>1 DEF IInv, Entered
    <3>6. \A q \in n.audit : q.what \in Operations \/ q.what \in n.receipts
      BY <2>2, <2>6, <2>8, <2>9, <3>3 DEF IInv, Entered
    <3>7. \A r \in n.receipts : \E q \in n.audit : q.what = r
      BY <2>2, <2>6, <2>8, <2>9, <3>3 DEF IInv, Entered
    <3>8. \A q, s \in n.audit : q.what = s.what /\ q.what \in Receipt => q = s
      BY <2>9, <3>3, <3>5 DEF IInv, Entered
    <3>9. QED
      BY <3>2, <3>6, <3>7, <3>8 DEF Entered
  <2>10. QED
    BY <2>1, <2>2, <2>5, <2>8, <2>9
<1>4. QED
  BY <1>2, <1>3

LEMMA RecordKeeps ==
    ASSUME IInv, NEW p \in Archivers, Record(p)
    PROVE  IInv'
<1> DEFINE t       == archiver[p]
           receipt == [event |-> t.version.event, number |-> t.version.number, asked |-> t.asked]
           task    == IF t.todo = <<>> THEN Idle ELSE [pc |-> "lock", todo |-> t.todo]
<1>1. /\ t.pc = "record" /\ db' = Recorded(db, receipt)
      /\ UNCHANGED <<versions, current, days, checkpoint, clock>>
      /\ snapshot' = snapshot /\ touched' = touched /\ incidents' = incidents
  BY DEF Record, storeVars, asideVars
<1>2. archiver' = [archiver EXCEPT ![p] = task]
  BY DEF Record
<1>3. /\ t \in Task /\ t # Idle /\ t.version \in versions /\ t.version.until >= t.asked
      /\ \A n \in DOMAIN t.todo : t.todo[n] \in DOMAIN db.received
  BY <1>1 DEF IInv, TypeOK, Fine, Idle
<1>4. t.version \in Locked /\ t.asked \in Nat /\ t.todo \in Seq(Events)
  BY <1>1, <1>3 DEF Task, Idle
<1> HIDE DEF t
<1>5. /\ receipt \in Receipt
      /\ receipt.event = t.version.event /\ receipt.number = t.version.number /\ receipt.asked = t.asked
  BY <1>4 DEF Receipt, Locked
<1> HIDE DEF receipt
<1>6. \E v \in versions :
          v.event = receipt.event /\ v.number = receipt.number /\ v.until >= receipt.asked
  BY <1>3, <1>5
<1>7. /\ IsDatabase(db') /\ db'.received = db.received
      /\ \A r \in db'.receipts :
            \E v \in versions : v.event = r.event /\ v.number = r.number /\ v.until >= r.asked
      /\ ~ touched => Verified(db', checkpoint) /\ Entered(db')
  BY <1>1, <1>5, <1>6, RecordedIs
<1>8. Fine(task, db', versions)
  <2>1. CASE t.todo = <<>>
    BY <2>1, IdleIsFine
  <2>2. CASE t.todo # <<>>
    <3>1. task = [pc |-> "lock", todo |-> t.todo]
      BY <2>2
    <3>2. task.pc = "lock" /\ task.todo = t.todo /\ task \in Task
      BY <1>4, <2>2, <3>1 DEF Task
    <3> HIDE DEF task
    <3>3. QED
      BY <1>3, <1>7, <3>2 DEF Fine
  <2>3. QED
    BY <2>1, <2>2
<1> HIDE DEF task
<1>9. \A q \in Archivers : Fine(archiver'[q], db', versions)
  <2>1. \A q \in Archivers : Fine(archiver[q], db', versions)
    BY <1>7, StillFine
  <2>2. QED
    BY <1>2, <1>8, <2>1, OneGoesOn
<1>10. archiver' \in [Archivers -> Task]
  <2>1. \A q \in Archivers : archiver'[q] \in Task
    BY <1>9 DEF Fine
  <2>2. QED
    BY <1>2, <2>1, OneGoesOn
<1>11. touched' \in BOOLEAN /\ incidents' \in 0..MaxIncidents
  BY <1>1 DEF IInv, TypeOK
<1>12. ~ touched' => Verified(db', checkpoint) /\ Entered(db')
  BY <1>1, <1>7
<1>13. QED
  BY <1>1, <1>7, <1>9, <1>10, <1>11, <1>12, DatabaseKeeps

-----------------------------------------------------------------------------
(* The theorems *)

LEMMA InitInv == Init => IInv
<1> SUFFICES ASSUME Init PROVE IInv
  OBVIOUS
<1>1. /\ db = EmptyDb /\ archiver = [p \in Archivers |-> Idle] /\ versions = {}
      /\ current = [e \in Events |-> None] /\ days \in Days
      /\ snapshot = None /\ checkpoint = None /\ touched = FALSE /\ clock = 0 /\ incidents = 0
  BY DEF Init
<1>2. /\ db.received = <<>> /\ db.receipts = {} /\ db.audit = {} /\ db.ids = 0 /\ db.chain = <<>>
      /\ db = [received |-> db.received, receipts |-> db.receipts, audit |-> db.audit,
               ids |-> db.ids, chain |-> db.chain]
  BY <1>1 DEF EmptyDb
<1>3. IsDatabase(db)
  <2>1. db.received \in Seq(Nat) /\ Len(db.received) <= MaxEvents
    BY <1>2, Bounds
  <2>2. db.chain \in Seq(Entries(db.chain))
    BY <1>2
  <2>3. QED
    BY <1>2, <2>1, <2>2 DEF IsDatabase
<1>4. archiver \in [Archivers -> Task] /\ \A p \in Archivers : archiver[p] = Idle
  BY <1>1, IdleIsFine
<1>5. IsFiniteSet(versions) /\ 0 \in 0..MaxClock /\ 0 \in 0..MaxIncidents
  BY <1>1, FS_EmptySet, Bounds
<1>6. TypeOK
  BY <1>1, <1>3, <1>4, <1>5 DEF TypeOK
<1>7. Vouched(db) /\ Rooted(checkpoint) /\ \A p \in Archivers : Fine(archiver[p], db, versions)
  BY <1>1, <1>2, <1>4, IdleIsFine DEF Vouched, Rooted
<1>8. Verified(db, checkpoint) /\ Entered(db)
  BY <1>1, <1>2 DEF Verified, Entered
<1>9. QED
  BY <1>1, <1>6, <1>7, <1>8 DEF IInv

LEMMA StepInv == IInv /\ [Next]_vars => IInv'
<1> SUFFICES ASSUME IInv, [Next]_vars PROVE IInv'
  OBVIOUS
<1>1. CASE UNCHANGED vars
  <2>1. /\ UNCHANGED <<db, versions, snapshot, checkpoint, touched>>
        /\ archiver' = archiver /\ current' = current /\ days' = days /\ clock' = clock
        /\ incidents' = incidents
    BY <1>1 DEF vars
  <2>2. QED
    BY <2>1, RestIsTyped, WorkKeeps
<1>2. CASE \E what \in Operations : audit(what)
  BY <1>2, AuditKeeps
<1>3. CASE \E p \in Archivers : Select(p) \/ Lock(p) \/ Record(p)
  BY <1>3, SelectKeeps, LockKeeps, RecordKeeps
<1>4. CASE Reconfigure \/ Day \/ (\E e \in Events : Hide(e)) \/ \E p \in Archivers : Refuse(p) \/ Crash(p)
  BY <1>4, AroundKeeps
<1>5. QED
  BY <1>1, <1>2, <1>3, <1>4, CheckpointKeeps, EditKeeps, SnapshotKeeps, AcceptKeeps DEF Next

\* The invariant holds in every reachable state.
LEMMA Inductive == Spec => []IInv
BY InitInv, StepInv, PTL DEF Spec

\* Receipts and identities of audit records are unique in the database and in every
\* snapshot, and what archivers hold exists.
THEOREM TypeCorrect == Spec => []TypeOK
<1>1. IInv => TypeOK
  BY DEF IInv
<1>2. QED
  BY <1>1, Inductive, PTL

\* A history that verifies against a root has the digests that lead to it, from the
\* last to the first, and with each digest the record it covers.
LEMMA SameRecords ==
    ASSUME IsDatabase(db), NEW cp, cp # None, cp.count \in Nat, Verified(db, cp),
           NEW digests, Leads(digests, cp)
    PROVE  \A i \in 1..cp.count : cp.records[i] = db.chain[i].payload /\ cp.records[i] \in db.audit
<1> DEFINE c == cp.count
           Other == {i \in 0..c : DigestBefore(db, (c - i) + 1) # digests[c - i]}
<1>1. /\ c <= Len(db.chain) /\ cp.root = DigestBefore(db, c + 1)
      /\ Len(db.chain) \in Nat /\ DOMAIN db.chain = 1..Len(db.chain) /\ c \in Nat
  BY ChainHas DEF Verified
<1>2. /\ digests[0] = Zero /\ cp.root = digests[c]
      /\ \A i \in 1..c : digests[i] = Digest(i, digests[i - 1], cp.records[i])
  BY DEF Leads
<1> HIDE DEF c
<1>3. ASSUME NEW i \in 1..c, DigestBefore(db, i + 1) = digests[i]
      PROVE  /\ DigestBefore(db, i) = digests[i - 1]
             /\ cp.records[i] = db.chain[i].payload /\ cp.records[i] \in db.audit
  <2>1. i \in DOMAIN db.chain /\ i + 1 # 1 /\ (i + 1) - 1 = i
    BY <1>1
  <2>2. db.chain[i].digest = Digest(i, DigestBefore(db, i), db.chain[i].payload) /\ db.chain[i].payload \in db.audit
    BY <2>1 DEF Verified
  <2>3. DigestBefore(db, i + 1) = db.chain[i].digest
    BY <2>1 DEF DigestBefore
  <2>4. Digest(i, DigestBefore(db, i), db.chain[i].payload) = Digest(i, digests[i - 1], cp.records[i])
    BY <1>2, <1>3, <2>2, <2>3
  <2>5. DigestBefore(db, i) = digests[i - 1] /\ db.chain[i].payload = cp.records[i]
    BY <2>4 DEF Digest
  <2>6. QED
    BY <2>2, <2>5
<1>4. Other = {}
  <2> SUFFICES ASSUME Other # {} PROVE FALSE
    OBVIOUS
  <2>1. Other \in SUBSET Nat
    OBVIOUS
  <2>2. PICK least \in Other : \A i \in Other : least <= i
    <3> HIDE DEF Other
    <3> QED BY <2>1, HasLeast
  <2>3. least \in 0..c /\ DigestBefore(db, (c - least) + 1) # digests[c - least]
    OBVIOUS
  <2>4. least # 0
    <3>1. DigestBefore(db, c + 1) = digests[c]
      BY <1>1, <1>2
    <3>2. least = 0 => c - least = c
      BY <1>1
    <3>3. QED
      BY <2>3, <3>1, <3>2
  <2>5. least - 1 \in 0..c /\ least - 1 \notin Other
    <3>1. least \in Nat /\ least - 1 \in 0..c /\ ~ (least <= least - 1)
      BY <1>1, <2>3, <2>4
    <3> HIDE DEF Other
    <3>2. QED
      BY <2>2, <3>1
  <2> DEFINE i == c - (least - 1)
  <2>6. DigestBefore(db, i + 1) = digests[i]
    BY <2>5
  <2>7. i \in 1..c /\ i - 1 = c - least /\ i = (c - least) + 1
    BY <1>1, <2>3, <2>4
  <2> HIDE DEF i
  <2>8. DigestBefore(db, i) = digests[i - 1]
    BY <1>3, <2>6, <2>7
  <2>9. QED
    BY <2>3, <2>7, <2>8
<1>5. ASSUME NEW i \in 1..c PROVE DigestBefore(db, i + 1) = digests[i]
  <2>1. c - i \in 0..c /\ c - (c - i) = i
    BY <1>1
  <2>2. QED
    BY <1>4, <2>1
<1>6. QED
  BY <1>3, <1>5 DEF c

\* A checkpoint that verifies vouches for all its records in every reachable state,
\* and one does verify while nobody touched the database.
THEOREM HistoryHolds == Spec => []HistoryIsAnchored
<1>1. IInv => HistoryIsAnchored
  <2> SUFFICES ASSUME IInv, checkpoint # None PROVE HistoryIsAnchored
    BY DEF HistoryIsAnchored
  <2>1. checkpoint.count \in Nat /\ DOMAIN checkpoint.records = 1..checkpoint.count /\ IsDatabase(db)
    BY DEF IInv, Rooted, TypeOK
  <2>2. PICK digests : Leads(digests, checkpoint)
    BY DEF IInv, Rooted
  <2>3. ASSUME Verified(db, checkpoint)
        PROVE  \A i \in DOMAIN checkpoint.records : checkpoint.records[i] \in db.audit
    BY <2>1, <2>2, <2>3, SameRecords
  <2>4. ~ touched => Verified(db, checkpoint)
    BY DEF IInv
  <2>5. QED
    BY <2>3, <2>4 DEF HistoryIsAnchored
<1>2. QED
  BY <1>1, Inductive, PTL

\* In every reachable state a receipt names a version that is locked as long as was
\* asked, and it was audited exactly once while nobody touched the database.
THEOREM ReceiptsHold == Spec => []ReceiptsAreHonest
<1>1. IInv => ReceiptsAreHonest
  <2> SUFFICES ASSUME IInv, NEW r \in db.receipts
               PROVE  /\ \E v \in versions : v.event = r.event /\ v.number = r.number /\ v.until >= r.asked
                      /\ ~ touched => Cardinality({o \in db.audit :
                              o.what \notin Operations /\ o.what.event = r.event}) = 1
    BY DEF ReceiptsAreHonest
  <2>1. \E v \in versions : v.event = r.event /\ v.number = r.number /\ v.until >= r.asked
    BY DEF IInv, Vouched
  <2>2. ASSUME ~ touched
        PROVE  Cardinality({o \in db.audit : o.what \notin Operations /\ o.what.event = r.event}) = 1
    <3> DEFINE audits == {o \in db.audit : o.what \notin Operations /\ o.what.event = r.event}
    <3>1. /\ r \in Receipt /\ \A s \in db.receipts : s.event = r.event => s = r
          /\ r \notin Operations
      BY OperationsAssumption DEF IInv, TypeOK, IsDatabase
    <3>2. Entered(db)
      BY <2>2 DEF IInv
    <3>3. PICK o \in db.audit : o.what = r
      BY <3>2 DEF Entered
    <3>4. o \in audits
      BY <3>1, <3>3
    <3>5. \A q \in audits : q = o
      BY <3>1, <3>2, <3>3 DEF Entered
    <3>6. audits = {o}
      BY <3>4, <3>5
    <3> HIDE DEF audits
    <3>7. Cardinality(audits) = 1
      BY <3>6, FS_Singleton
    <3>8. QED
      BY <3>7 DEF audits
  <2>3. QED
    BY <2>1, <2>2
<1>2. QED
  BY <1>1, Inductive, PTL
===============================================================================
