--------------------------- MODULE Collector_proofs ---------------------------
(***************************************************************************)
(* Theorems about the spool for any source, any gateway that keeps what it *)
(* took and any capacities.  An identity that was handed on, be it to the  *)
(* spool, the gateway or a request on its way, names a line the cursor has *)
(* passed: the next line is never one of them.  What a sender holds is     *)
(* pending in the spool until it is answered.                              *)
(***************************************************************************)
EXTENDS Collector, TLAPS, FiniteSetTheorems, SequenceTheorems, WellFoundedInduction

\* What was handed on: to the spool, to the gateway, to a request on its way.
Handed == Ids(Rows) \cup {e.id : e \in journal} \cup UNION {Ids(batch) : batch \in late}

\* The identities of lines the cursor has passed.
Passed ==
    IF cursor = None THEN {}
    ELSE {LineId(cursor.inode, n, line) : n \in 1..cursor.offset, line \in Lines}

\* An import reads on from the cursor, and what was handed on is behind it.
Reading ==
    /\ path <= replaced + 1
    /\ process.pc = "import" =>
          /\ IsFile /\ process.inode <= path
          /\ cursor = None => process.offset = 0
          /\ cursor # None => process.inode = cursor.inode /\ process.offset = cursor.offset
    /\ IsFile => Handed \subseteq Passed

\* What is sent is pending until the answer, and what was taken is at the gateway.
Sending ==
    process.pc = "send" => \A r \in process.batch :
        r \in Rows /\ r.state = "pending" /\ (process.taken => Event(r) \in journal)

\* A line in quarantine was sent to nobody.
Apart ==
    \A r \in Rows : r.state = "quarantine" =>
        IsFile /\ ~ Accepted(r.id) /\ \A batch \in late : r.id \notin Ids(batch)

IInv == TypeOK /\ Reading /\ Sending /\ Apart /\ NothingSkipped

-----------------------------------------------------------------------------
(* Pick *)

\* The place of an entry among those that are picked.
Rank(at, i) == Cardinality({k \in at : k <= i})

\* The places that are picked are numbered from 1 on, each by one number.
LEMMA Ranks ==
    ASSUME NEW length \in Nat, NEW at \in SUBSET (1..length)
    PROVE  /\ Cardinality(at) \in 0..length
           /\ \A i \in at : Rank(at, i) \in 1..Cardinality(at)
           /\ \A n \in 1..Cardinality(at) : \E i \in at : Rank(at, i) = n
           /\ \A i, j \in at : Rank(at, i) = Rank(at, j) => i = j
<1> DEFINE Below(i) == {k \in at : k <= i}
           number == [i \in at |-> Rank(at, i)]
<1>1. /\ IsFiniteSet(1..length) /\ Cardinality(1..length) = length
  BY FS_Interval
<1>2. IsFiniteSet(at) /\ Cardinality(at) <= length
  BY <1>1, FS_Subset
<1>3. Cardinality(at) \in 0..length
  BY <1>2, FS_CardinalityType
<1>4. \A i \in at : /\ Below(i) \in SUBSET at /\ i \in Below(i) /\ IsFiniteSet(Below(i))
                    /\ Cardinality(Below(i)) <= Cardinality(at)
  BY <1>2, FS_Subset
<1>5. \A i \in at : Rank(at, i) \in 1..Cardinality(at)
  <2> SUFFICES ASSUME NEW i \in at PROVE Cardinality(Below(i)) \in 1..Cardinality(at)
    BY DEF Rank
  <2>1. Cardinality(Below(i)) \in Nat
    BY <1>4, FS_CardinalityType
  <2>2. Cardinality(Below(i)) # 0
    <3> HIDE DEF Below
    <3> QED BY <1>4, FS_EmptySet
  <2>3. QED
    BY <2>1, <2>2, <1>3, <1>4
<1>6. ASSUME NEW i \in at, NEW j \in at, Rank(at, i) = Rank(at, j), i < j
      PROVE  FALSE
  <2>1. Below(i) \in SUBSET Below(j)
    <3>1. ASSUME NEW k \in at, k <= i PROVE k <= j
      <4>1. i \in Int /\ j \in Int /\ k \in Int /\ i < j
        BY <1>6
      <4>2. QED
        BY <3>1, <4>1
    <3>2. QED
      BY <3>1
  <2>2. Cardinality(Below(i)) = Cardinality(Below(j))
    BY <1>6 DEF Rank
  <2>3. Below(i) = Below(j)
    <3> HIDE DEF Below
    <3> QED BY <1>4, <2>1, <2>2, FS_Subset
  <2>4. QED
    BY <1>4, <1>6, <2>3
<1>7. \A i, j \in at : Rank(at, i) = Rank(at, j) => i = j
  BY <1>6
<1>8. number \in Injection(at, 1..Cardinality(at))
  BY <1>5, <1>7 DEF Injection, IsInjective
<1>9. IsFiniteSet(1..Cardinality(at)) /\ Cardinality(1..Cardinality(at)) = Cardinality(at)
  BY <1>3, FS_Interval
<1>10. number \in Surjection(at, 1..Cardinality(at))
  <2> HIDE DEF number
  <2> QED BY <1>8, <1>9, FS_Injection
<1>11. \A n \in 1..Cardinality(at) : \E i \in at : Rank(at, i) = n
  BY <1>10 DEF Surjection
<1>12. QED
  BY <1>3, <1>5, <1>7, <1>11

\* Pick yields the entries of the places, each once.
LEMMA Picked ==
    ASSUME NEW length \in Nat, NEW at \in SUBSET (1..length), NEW entries
    PROVE  /\ Cardinality(at) \in 0..length
           /\ DOMAIN Pick(entries, at) = 1..Cardinality(at)
           /\ \A n \in DOMAIN Pick(entries, at) :
                 \E i \in at : Rank(at, i) = n /\ Pick(entries, at)[n] = entries[i]
           /\ \A i \in at :
                 /\ Rank(at, i) \in DOMAIN Pick(entries, at)
                 /\ Pick(entries, at)[Rank(at, i)] = entries[i]
<1> DEFINE picked == Pick(entries, at)
           Place(n) == CHOOSE i \in at : Cardinality({k \in at : k <= i}) = n
<1>1. /\ Cardinality(at) \in 0..length
      /\ \A i \in at : Rank(at, i) \in 1..Cardinality(at)
      /\ \A n \in 1..Cardinality(at) : \E i \in at : Rank(at, i) = n
      /\ \A i, j \in at : Rank(at, i) = Rank(at, j) => i = j
  BY Ranks
<1>2. /\ DOMAIN picked = 1..Cardinality(at)
      /\ \A n \in 1..Cardinality(at) : picked[n] = entries[Place(n)]
  BY DEF Pick
<1>3. \A n \in 1..Cardinality(at) : Place(n) \in at /\ Rank(at, Place(n)) = n
  BY <1>1 DEF Rank
<1> HIDE DEF Place
<1>4. \A n \in DOMAIN picked : \E i \in at : Rank(at, i) = n /\ picked[n] = entries[i]
  BY <1>2, <1>3
<1>5. \A i \in at : Rank(at, i) \in DOMAIN picked /\ picked[Rank(at, i)] = entries[i]
  BY <1>1, <1>2, <1>3
<1>6. QED
  BY <1>1, <1>2, <1>4, <1>5

-----------------------------------------------------------------------------
(* What stays *)

\* The bounds are numbers.
LEMMA Bounds ==
    /\ MaxRows \in Nat \ {0} /\ MaxSend \in Nat \ {0} /\ MaxAttempts \in Nat \ {0}
    /\ Prefix \in Nat \ {0}
    /\ MaxLines \in Nat /\ MaxReplaced \in Nat /\ MaxLate \in Nat /\ MaxIncidents \in Nat
BY CollectorAssumption

\* None is no cursor.
LEMMA NoCursor == None \notin Cursor
BY CursorAssumption

\* Rows are what is at the places of the queue.
LEMMA QueueHas ==
    ASSUME TypeOK
    PROVE  /\ Len(queue) \in Nat /\ DOMAIN queue = 1..Len(queue)
           /\ \A i \in DOMAIN queue : queue[i] \in Row /\ queue[i] \in Rows
           /\ \A r \in Rows : r \in Row /\ \E i \in DOMAIN queue : r = queue[i]
           /\ Rows \subseteq Row
BY DEF TypeOK, Rows

\* A queue that is in order.
Ordered(rows) ==
    /\ rows \in Seq(Row) /\ Len(rows) <= MaxRows
    /\ \A i \in DOMAIN rows : rows[i].state = "failed" <=> rows[i].attempts = MaxAttempts
    /\ \A i, j \in DOMAIN rows : rows[i].id = rows[j].id => i = j

LEMMA QueueOrdered ==
    ASSUME TypeOK
    PROVE  Ordered(queue)
BY QueueHas DEF TypeOK, Ordered

\* An identity is in the spool once.
LEMMA IdentityOnce ==
    ASSUME TypeOK, NEW r \in Rows, NEW s \in Rows, r.id = s.id
    PROVE  r = s
BY QueueHas DEF TypeOK

\* A step of the file's writer, or none.
LEMMA AsideKeeps ==
    ASSUME IInv, UNCHANGED <<source, cursor, page, queue, journal, process, late, incidents>>,
           content' \in [Inodes -> Seq(Lines)],
           \A inode \in Inodes : Len(content'[inode]) <= MaxLines,
           path' \in Inodes, path <= path', replaced' \in 0..MaxReplaced, path' <= replaced' + 1
    PROVE  IInv'
<1>1. /\ source' = source /\ cursor' = cursor /\ page' = page /\ queue' = queue
      /\ journal' = journal /\ process' = process /\ late' = late /\ incidents' = incidents
  OBVIOUS
<1>2. Rows' = Rows /\ IsFile' = IsFile /\ Handed' = Handed /\ Passed' = Passed
  BY <1>1 DEF Rows, IsFile, Handed, Passed
<1>3. path \in Nat /\ path' \in Nat
  BY Bounds DEF IInv, TypeOK, Inodes
<1>4. TypeOK'
  <2>1. cursor # None => cursor.inode <= path'
    <3>1. cursor # None => cursor.inode \in Nat /\ cursor.inode <= path
      BY Bounds DEF IInv, TypeOK, Cursor, Inodes
    <3>2. QED
      BY <1>3, <3>1
  <2>2. QED
    BY <1>1, <1>2, <2>1 DEF IInv, TypeOK
<1>5. Reading'
  <2>1. process.pc = "import" => process.inode <= path'
    <3>1. process.pc = "import" => process.inode \in Inodes
      BY DEF IInv, TypeOK, Process, Idle
    <3>2. QED
      BY <1>3, <3>1, Bounds DEF IInv, Reading, Inodes
  <2>2. QED
    BY <1>1, <1>2, <2>1 DEF IInv, Reading
<1>6. Sending' /\ Apart' /\ NothingSkipped'
  BY <1>1, <1>2 DEF IInv, Sending, Apart, NothingSkipped, Accepted
<1>7. QED
  BY <1>4, <1>5, <1>6 DEF IInv

\* A step that changes what the process is doing.
LEMMA ProcessKeeps ==
    ASSUME IInv, UNCHANGED <<source, fileVars, cursor, page, queue, journal, late, incidents>>,
           process' \in Process,
           process'.pc = "import" =>
               /\ IsFile /\ process'.inode <= path
               /\ cursor = None => process'.offset = 0
               /\ cursor # None => process'.inode = cursor.inode /\ process'.offset = cursor.offset,
           process'.pc = "send" => \A r \in process'.batch :
               r \in Rows /\ r.state = "pending" /\ (process'.taken => Event(r) \in journal)
    PROVE  IInv'
<1>1. /\ source' = source /\ cursor' = cursor /\ page' = page /\ queue' = queue
      /\ journal' = journal /\ late' = late /\ incidents' = incidents
      /\ content' = content /\ path' = path /\ replaced' = replaced
  BY DEF fileVars
<1>2. Rows' = Rows /\ IsFile' = IsFile /\ Handed' = Handed /\ Passed' = Passed
  BY <1>1 DEF Rows, IsFile, Handed, Passed
<1>3. TypeOK'
  BY <1>1, <1>2 DEF IInv, TypeOK
<1>4. Reading' /\ Sending'
  BY <1>1, <1>2 DEF IInv, Reading, Sending
<1>5. Apart' /\ NothingSkipped'
  BY <1>1, <1>2 DEF IInv, Apart, NothingSkipped, Accepted
<1>6. QED
  BY <1>3, <1>4, <1>5 DEF IInv

\* Lines are written and files replaced.
LEMMA WriterKeeps ==
    ASSUME IInv, Rotate \/ Truncate \/ \E line \in Lines : WriteLine(line)
    PROVE  IInv'
<1>1. /\ content \in [Inodes -> Seq(Lines)] /\ \A inode \in Inodes : Len(content[inode]) <= MaxLines
      /\ path \in Inodes /\ replaced \in 0..MaxReplaced /\ path <= replaced + 1 /\ path <= path
      /\ path \in Nat
  BY Bounds DEF IInv, TypeOK, Reading, Inodes
<1>2. ASSUME NEW line \in Lines, WriteLine(line) PROVE IInv'
  <2>1. content[path] \in Seq(Lines) /\ Len(content[path]) < MaxLines
    BY <1>1, <1>2 DEF WriteLine
  <2>2. Append(content[path], line) \in Seq(Lines) /\ Len(Append(content[path], line)) <= MaxLines
    BY <2>1, Bounds
  <2> DEFINE longer == Append(content[path], line)
  <2>3. content' = [content EXCEPT ![path] = longer]
    BY <1>2 DEF WriteLine
  <2> HIDE DEF longer
  <2>4. longer \in Seq(Lines) /\ Len(longer) <= MaxLines
    BY <2>2 DEF longer
  <2>5. content' \in [Inodes -> Seq(Lines)] /\ \A inode \in Inodes : Len(content'[inode]) <= MaxLines
    BY <1>1, <2>3, <2>4
  <2>6. QED
    BY <1>1, <1>2, <2>5, AsideKeeps DEF WriteLine, netVars
<1>3. CASE Rotate
  <2>1. path' \in Inodes /\ path <= path' /\ replaced' \in 0..MaxReplaced /\ path' <= replaced' + 1
    BY <1>1, <1>3, Bounds DEF Rotate, Inodes
  <2>2. QED
    BY <1>1, <1>3, <2>1, AsideKeeps DEF Rotate, netVars
<1>4. CASE Truncate
  <2>1. replaced' \in 0..MaxReplaced /\ path <= replaced' + 1
    BY <1>1, <1>4, Bounds DEF Truncate
  <2>2. <<>> \in Seq(Lines) /\ Len(<<>>) <= MaxLines
    BY Bounds
  <2>3. content' \in [Inodes -> Seq(Lines)] /\ \A inode \in Inodes : Len(content'[inode]) <= MaxLines
    BY <1>1, <1>4, <2>2 DEF Truncate
  <2>4. QED
    BY <1>1, <1>4, <2>1, <2>3, AsideKeeps DEF Truncate, netVars
<1>5. QED
  BY <1>2, <1>3, <1>4

\* A file is opened where the cursor is, and left.
LEMMA OpenKeeps ==
    ASSUME IInv, OpenFile
    PROVE  IInv'
<1> DEFINE from == IF cursor = None THEN 0 ELSE cursor.offset
<1>1. path \in Inodes /\ path <= path
  BY Bounds DEF IInv, TypeOK, Inodes
<1>2. from \in 0..MaxLines
  BY Bounds DEF IInv, TypeOK, Cursor
<1>3. /\ IsFile /\ process' = [pc |-> "import", inode |-> path, offset |-> from]
      /\ cursor # None => cursor.inode = path
      /\ UNCHANGED <<source, fileVars, cursor, page, queue, netVars, incidents>>
  BY DEF OpenFile, Continues
<1>4. process' \in Process
  <2> HIDE DEF from
  <2> QED BY <1>1, <1>2, <1>3 DEF Process
<1>5. QED
  BY <1>1, <1>3, <1>4, ProcessKeeps DEF netVars

LEMMA ImportEndKeeps ==
    ASSUME IInv, ImportEnd
    PROVE  IInv'
<1>1. /\ process' = [pc |-> "imported"] \/ process' = Idle
      /\ UNCHANGED <<source, fileVars, cursor, page, queue, netVars, incidents>>
  BY DEF ImportEnd, Idle
<1>2. process' \in Process /\ process'.pc \in {"imported", "idle"}
  BY <1>1 DEF Process, Idle
<1>3. QED
  BY <1>1, <1>2, ProcessKeeps DEF netVars

LEMMA SelectKeeps ==
    ASSUME IInv, Select
    PROVE  IInv'
<1>1. PICK waited \in SUBSET DOMAIN queue :
          LET due   == Due(waited)
              batch == {queue[i] : i \in {j \in due : Cardinality({k \in due : k < j}) < MaxSend}}
          IN  /\ process' = IF due = {} THEN Idle
                            ELSE [pc |-> "send", batch |-> batch, taken |-> FALSE]
              /\ UNCHANGED <<source, fileVars, cursor, page, queue, netVars, incidents>>
  BY DEF Select
<1> DEFINE due   == Due(waited)
           batch == {queue[i] : i \in {j \in due : Cardinality({k \in due : k < j}) < MaxSend}}
<1>2. due \subseteq DOMAIN queue /\ \A i \in due : queue[i].state = "pending"
  BY DEF Due
<1>3. \A r \in batch : \E i \in due : r = queue[i]
  OBVIOUS
<1>4. process' = Idle \/ process' = [pc |-> "send", batch |-> batch, taken |-> FALSE]
  BY <1>1
<1> HIDE DEF due, batch
<1>5. batch \subseteq Row /\ \A r \in batch : r \in Rows /\ r.state = "pending"
  BY <1>2, <1>3, QueueHas DEF IInv
<1>6. process' \in Process
  <2>1. batch \in SUBSET Row /\ FALSE \in BOOLEAN
    BY <1>5
  <2>2. [pc |-> "send", batch |-> batch, taken |-> FALSE]
            \in [pc : {"send"}, batch : SUBSET Row, taken : BOOLEAN]
    BY <2>1
  <2>3. QED
    BY <1>4, <2>2 DEF Process
<1>7. process'.pc # "import"
  BY <1>4 DEF Idle
<1>8. process'.pc = "send" => process'.batch = batch /\ process'.taken = FALSE
  BY <1>4 DEF Idle
<1>9. QED
  BY <1>1, <1>5, <1>6, <1>7, <1>8, ProcessKeeps DEF netVars

-----------------------------------------------------------------------------
(* The gateway and the requests on their way *)

\* What is sent, with its rows.
LEMMA SendHas ==
    ASSUME IInv, process.pc = "send"
    PROVE  /\ process.batch \in SUBSET Row /\ process.taken \in BOOLEAN
           /\ process.batch \subseteq Rows
           /\ \A r \in process.batch : r.state = "pending"
           /\ process.taken => \A r \in process.batch : Event(r) \in journal
BY DEF IInv, TypeOK, Process, Idle, Sending

\* The gateway takes a request whose rows are handed on and not in quarantine.
LEMMA IngestKeeps ==
    ASSUME IInv, NEW batch \in SUBSET Row, Ids(batch) \subseteq Handed,
           \A r \in Rows : r.state = "quarantine" => r.id \notin Ids(batch),
           journal' = Ingested(batch), late' \in SUBSET late,
           UNCHANGED <<source, fileVars, cursor, page, queue, incidents>>,
           process' \in Process, process'.pc = process.pc,
           process.pc = "import" => process' = process,
           process.pc = "send" => /\ process'.batch = process.batch
                                  /\ process'.taken = process.taken \/ process.batch = batch
    PROVE  IInv'
<1>1. /\ source' = source /\ cursor' = cursor /\ page' = page /\ queue' = queue
      /\ incidents' = incidents
      /\ content' = content /\ path' = path /\ replaced' = replaced
  BY DEF fileVars
<1>2. Rows' = Rows /\ IsFile' = IsFile /\ Passed' = Passed
  BY <1>1 DEF Rows, IsFile, Passed
<1>3. /\ journal \subseteq journal' /\ \A r \in batch : Event(r) \in journal'
      /\ \A e \in journal' : e \in journal \/ e.id \in Ids(batch)
      /\ \A e \in journal' : e \in journal \/ e \in [id : Names, payload : Payloads]
  <2>1. /\ journal' = journal \cup {Event(r) : r \in batch}
        /\ \A r \in batch : Event(r).id = r.id
    BY DEF Ingested, Event
  <2>2. \A r \in batch : Event(r) \in [id : Names, payload : Payloads]
    BY DEF Event, Row
  <2>3. QED
    BY <2>1, <2>2 DEF Ids
<1>4. TypeOK'
  <2>1. journal' \subseteq [id : Names, payload : Payloads] /\ late' \in SUBSET SUBSET Row
    BY <1>3 DEF IInv, TypeOK
  <2>2. QED
    BY <1>1, <1>2, <2>1 DEF IInv, TypeOK
<1>5. Handed' \subseteq Handed
  BY <1>2, <1>3 DEF Handed
<1>6. Reading'
  BY <1>1, <1>2, <1>5 DEF IInv, Reading
<1>7. Sending'
  BY <1>2, <1>3 DEF IInv, Sending
<1>8. Apart'
  BY <1>2, <1>3 DEF IInv, Apart, Accepted
<1>9. NothingSkipped'
  <2>1. \A id : Accepted(id) => Accepted(id)'
    BY <1>3 DEF Accepted
  <2>2. \A r \in Rows' : r.state = "quarantine" => ~ Accepted(r.id)'
    BY <1>8 DEF Apart
  <2>3. QED
    BY <1>1, <1>2, <2>1, <2>2 DEF IInv, NothingSkipped
<1>10. QED
  BY <1>4, <1>6, <1>7, <1>8, <1>9 DEF IInv

\* A row that is sent is pending: it is in no row of the quarantine.
LEMMA PendingApart ==
    ASSUME IInv, NEW batch, batch \subseteq Rows, \A r \in batch : r.state = "pending"
    PROVE  /\ Ids(batch) \subseteq Ids(Rows)
           /\ \A r \in Rows : r.state = "quarantine" => r.id \notin Ids(batch)
BY IdentityOnce DEF IInv, Ids

\* A request arrives at once, or late.
LEMMA GatewayTakesKeeps ==
    ASSUME IInv, GatewayTakes
    PROVE  IInv'
<1> DEFINE batch == process.batch
<1>1. /\ process.pc = "send" /\ journal' = Ingested(batch)
      /\ process' = [process EXCEPT !.taken = TRUE]
      /\ UNCHANGED <<source, fileVars, cursor, page, queue, late, incidents>>
  BY DEF GatewayTakes
<1>2. /\ batch \in SUBSET Row /\ batch \subseteq Rows /\ \A r \in batch : r.state = "pending"
  BY <1>1, SendHas
<1>3. Ids(batch) \subseteq Handed /\ \A r \in Rows : r.state = "quarantine" => r.id \notin Ids(batch)
  <2> HIDE DEF batch
  <2> QED BY <1>2, PendingApart DEF Handed
<1>4. process \in [pc : {"send"}, batch : SUBSET Row, taken : BOOLEAN]
  BY <1>1 DEF IInv, TypeOK, Process, Idle
<1>5. /\ process' \in [pc : {"send"}, batch : SUBSET Row, taken : BOOLEAN]
      /\ process'.pc = "send" /\ process'.batch = batch
  BY <1>1, <1>4
<1>6. process' \in Process
  BY <1>5 DEF Process
<1>7. QED
  BY <1>1, <1>2, <1>3, <1>5, <1>6, IngestKeeps

\* The process stops or goes on while the queue keeps its identities, except
\* those the gateway has, and a request that was sent may be on its way.
LEMMA RequeueKeeps ==
    ASSUME IInv, Ordered(queue'), process' = Idle \/ (process' = process /\ queue' = queue),
           UNCHANGED <<source, fileVars, cursor, page, journal>>, incidents' \in 0..MaxIncidents,
           Ids(Rows') \subseteq Ids(Rows),
           \A id \in Ids(Rows) : id \in Ids(Rows') \/ Accepted(id),
           \A r \in Rows' : r.state = "quarantine" => r \in Rows,
           \A batch \in late' :
               \/ batch \in late
               \/ /\ batch \in SUBSET Row /\ batch \subseteq Rows
                  /\ \A r \in batch : r.state = "pending"
    PROVE  IInv'
<1>1. /\ source' = source /\ cursor' = cursor /\ page' = page /\ journal' = journal
      /\ content' = content /\ path' = path /\ replaced' = replaced
  BY DEF fileVars
<1>2. IsFile' = IsFile /\ Passed' = Passed /\ \A id : Accepted(id)' = Accepted(id)
  BY <1>1 DEF IsFile, Passed, Accepted
<1>3. process' \in Process /\ (process'.pc \in {"import", "send"} => process' = process /\ queue' = queue)
  BY DEF IInv, TypeOK, Process, Idle
<1>4. TypeOK'
  <2>1. late' \in SUBSET SUBSET Row
    BY DEF IInv, TypeOK
  <2>2. /\ queue' \in Seq(Row) /\ Len(queue') <= MaxRows
        /\ \A i, j \in DOMAIN queue' : queue'[i].id = queue'[j].id => i = j
    BY DEF Ordered
  <2>3. \A r \in Rows' : r.state = "failed" <=> r.attempts = MaxAttempts
    BY DEF Ordered, Rows
  <2>4. QED
    BY <1>1, <1>2, <1>3, <2>1, <2>2, <2>3 DEF IInv, TypeOK
<1>5. ASSUME NEW batch \in late'
      PROVE  /\ batch \in late \/ Ids(batch) \subseteq Ids(Rows)
             /\ \A r \in Rows : r.state = "quarantine" => r.id \notin Ids(batch)
  BY <1>5, PendingApart DEF IInv, Apart
<1>6. Handed' \subseteq Handed
  BY <1>1, <1>5 DEF Handed
<1>7. Reading'
  BY <1>1, <1>2, <1>3, <1>6 DEF IInv, Reading
<1>8. Sending'
  <2>1. SUFFICES ASSUME process'.pc = "send" PROVE Sending'
    BY DEF Sending
  <2>2. process' = process /\ Rows' = Rows
    BY <1>3, <2>1 DEF Rows
  <2>3. QED
    BY <1>1, <2>2 DEF IInv, Sending
<1>9. Apart'
  BY <1>1, <1>2, <1>5 DEF IInv, Apart
<1>10. NothingSkipped'
  <2>1. \A r \in Rows' : r.state = "quarantine" => ~ Accepted(r.id)'
    BY <1>9 DEF Apart
  <2>2. QED
    BY <1>1, <1>2, <2>1 DEF IInv, NothingSkipped
<1>11. QED
  BY <1>4, <1>7, <1>8, <1>9, <1>10 DEF IInv

LEMMA LateArrivalKeeps ==
    ASSUME IInv, NEW batch \in late, LateArrival(batch)
    PROVE  IInv'
<1>1. /\ late' = late \ {batch} /\ late' \in SUBSET late
      /\ UNCHANGED <<source, fileVars, cursor, page, queue, process, incidents>>
      /\ batch \in SUBSET Row /\ process \in Process /\ incidents \in 0..MaxIncidents
  BY DEF LateArrival, IInv, TypeOK
<1>2. CASE Acceptable(batch)
  <2>1. journal' = Ingested(batch)
    BY <1>2 DEF LateArrival
  <2>2. Ids(batch) \subseteq Handed /\ \A r \in Rows : r.state = "quarantine" => r.id \notin Ids(batch)
    BY DEF Handed, IInv, Apart
  <2>3. QED
    BY <1>1, <2>1, <2>2, IngestKeeps
<1>3. CASE ~ Acceptable(batch)
  <2>1. journal' = journal /\ Rows' = Rows
    BY <1>1, <1>3 DEF LateArrival, Rows
  <2>2. Ordered(queue')
    BY <1>1, QueueOrdered DEF IInv
  <2>3. QED
    BY <1>1, <2>1, <2>2, RequeueKeeps
<1>4. QED
  BY <1>2, <1>3

\* A request that nobody waits for.
LEMMA GivenUp ==
    ASSUME IInv, process.pc = "send", GiveUp
    PROVE  \A batch \in late' :
               \/ batch \in late
               \/ /\ batch \in SUBSET Row /\ batch \subseteq Rows
                  /\ \A r \in batch : r.state = "pending"
<1>1. late' \subseteq late \cup {process.batch}
  BY DEF GiveUp
<1>2. QED
  BY <1>1, SendHas

LEMMA StopKeeps ==
    ASSUME IInv, Stop
    PROVE  IInv'
<1>1. /\ process' = Idle /\ incidents' \in 0..MaxIncidents /\ queue' = queue
      /\ UNCHANGED <<source, fileVars, cursor, page, queue, journal>>
      /\ IF process.pc = "send" THEN GiveUp ELSE UNCHANGED late
  BY Bounds DEF Stop, IInv, TypeOK
<1>2. Ordered(queue') /\ Rows' = Rows
  BY <1>1, QueueOrdered DEF IInv, Rows
<1>3. \A batch \in late' :
          \/ batch \in late
          \/ /\ batch \in SUBSET Row /\ batch \subseteq Rows
             /\ \A r \in batch : r.state = "pending"
  BY <1>1, GivenUp
<1>4. QED
  BY <1>1, <1>2, <1>3, RequeueKeeps

-----------------------------------------------------------------------------
(* The answer *)

\* What maps the numbers from 1 on is a sequence.
LEMMA AsSequence ==
    ASSUME NEW S, NEW n \in Nat, NEW s \in [1..n -> S]
    PROVE  s \in Seq(S) /\ Len(s) = n
OBVIOUS

\* Rows that change keep their identity and stay out of the quarantine.
LEMMA RowsChange ==
    ASSUME IInv, DOMAIN queue' = DOMAIN queue, queue' \in [DOMAIN queue -> Row],
           \A i \in DOMAIN queue :
               /\ queue'[i].id = queue[i].id
               /\ queue'[i].state = "failed" <=> queue'[i].attempts = MaxAttempts
               /\ queue'[i].state = "quarantine" => queue'[i] = queue[i]
    PROVE  /\ Ordered(queue') /\ Ids(Rows') = Ids(Rows)
           /\ \A r \in Rows' : r.state = "quarantine" => r \in Rows
<1>1. /\ Len(queue) \in Nat /\ DOMAIN queue = 1..Len(queue) /\ Len(queue) <= MaxRows
      /\ \A i, j \in DOMAIN queue : queue[i].id = queue[j].id => i = j
  BY QueueHas DEF IInv, TypeOK
<1>2. queue' \in Seq(Row) /\ Len(queue') = Len(queue)
  BY <1>1, AsSequence
<1>3. Ordered(queue')
  BY <1>1, <1>2 DEF Ordered
<1>4. QED
  BY <1>3 DEF Ids, Rows

LEMMA UnconfirmedKeeps ==
    ASSUME IInv, Unconfirmed
    PROVE  IInv'
<1> DEFINE Next1(r) == [r EXCEPT !.attempts = r.attempts + 1, !.state = StateAfter(r.attempts + 1)]
<1>1. /\ process.pc = "send" /\ process' = Idle /\ GiveUp
      /\ queue' = [i \in DOMAIN queue |-> IF queue[i].id \in Ids(process.batch)
                                         THEN Next1(queue[i]) ELSE queue[i]]
      /\ UNCHANGED <<source, fileVars, cursor, page, journal, incidents>>
      /\ incidents' \in 0..MaxIncidents
  BY DEF Unconfirmed, IInv, TypeOK
<1>2. ASSUME NEW i \in DOMAIN queue, queue[i].id \in Ids(process.batch)
      PROVE  queue[i].state = "pending" /\ queue[i].attempts \in 0..MaxAttempts
             /\ queue[i].attempts # MaxAttempts
  <2>1. queue[i] \in Rows /\ queue[i] \in Row
    BY QueueHas DEF IInv
  <2>2. PICK r \in process.batch : r.id = queue[i].id
    BY <1>2 DEF Ids
  <2>3. r \in Rows /\ r.state = "pending"
    BY <1>1, SendHas
  <2>4. r = queue[i]
    BY <2>1, <2>2, <2>3, IdentityOnce DEF IInv
  <2>5. QED
    BY <2>1, <2>3, <2>4 DEF IInv, TypeOK, Row
<1>3. ASSUME NEW i \in DOMAIN queue
      PROVE  /\ queue'[i] \in Row /\ queue'[i].id = queue[i].id
             /\ queue'[i].state = "failed" <=> queue'[i].attempts = MaxAttempts
             /\ queue'[i].state = "quarantine" => queue'[i] = queue[i]
  <2>1. queue[i] \in Rows /\ queue[i] \in Row /\ (queue[i].state = "failed" <=> queue[i].attempts = MaxAttempts)
    BY QueueHas DEF IInv, TypeOK
  <2>2. CASE queue[i].id \in Ids(process.batch)
    <3>1. queue'[i] = Next1(queue[i])
      BY <1>1, <2>2
    <3>2. queue[i].attempts + 1 \in 0..MaxAttempts /\ MaxAttempts \in Nat
      BY <1>2, <2>2, Bounds
    <3>3. /\ StateAfter(queue[i].attempts + 1) \in {"pending", "failed"}
          /\ StateAfter(queue[i].attempts + 1) = "failed" <=> queue[i].attempts + 1 = MaxAttempts
      BY <3>2 DEF StateAfter
    <3>4. QED
      BY <2>1, <3>1, <3>2, <3>3 DEF Row
  <2>3. CASE queue[i].id \notin Ids(process.batch)
    BY <1>1, <2>1, <2>3
  <2>4. QED
    BY <2>2, <2>3
<1>4. DOMAIN queue' = DOMAIN queue /\ queue' \in [DOMAIN queue -> Row]
  <2>1. \A i \in DOMAIN queue : queue'[i] \in Row
    BY <1>3
  <2>2. QED
    BY <1>1, <2>1
<1>5. /\ Ordered(queue') /\ Ids(Rows') = Ids(Rows)
      /\ \A r \in Rows' : r.state = "quarantine" => r \in Rows
  BY <1>3, <1>4, RowsChange
<1>6. QED
  BY <1>1, <1>5, GivenUp, RequeueKeeps

LEMMA RetryKeeps ==
    ASSUME IInv, retry
    PROVE  IInv'
<1>1. /\ process' = Idle /\ incidents' \in 0..MaxIncidents
      /\ queue' = [i \in DOMAIN queue |->
              IF queue[i].state = "failed" THEN [queue[i] EXCEPT !.state = "pending", !.attempts = 0]
              ELSE queue[i]]
      /\ UNCHANGED <<source, fileVars, cursor, page, journal>> /\ late' = late
  <2>1. incidents' \in 0..MaxIncidents
    <3>1. incidents \in 0..MaxIncidents /\ incidents < MaxIncidents /\ incidents' = incidents + 1
      BY DEF retry, IInv, TypeOK
    <3>2. QED
      BY <3>1, Bounds
  <2>2. process' = Idle
    BY DEF retry
  <2>3. QED
    BY <2>1, <2>2 DEF retry, netVars
<1>2. ASSUME NEW i \in DOMAIN queue
      PROVE  /\ queue'[i] \in Row /\ queue'[i].id = queue[i].id
             /\ queue'[i].state = "failed" <=> queue'[i].attempts = MaxAttempts
             /\ queue'[i].state = "quarantine" => queue'[i] = queue[i]
  <2>1. queue[i] \in Rows /\ queue[i] \in Row /\ (queue[i].state = "failed" <=> queue[i].attempts = MaxAttempts)
    BY QueueHas DEF IInv, TypeOK
  <2>2. CASE queue[i].state = "failed"
    <3>1. queue'[i] = [queue[i] EXCEPT !.state = "pending", !.attempts = 0]
      BY <1>1, <2>2
    <3>2. 0 \in 0..MaxAttempts /\ MaxAttempts # 0
      BY Bounds
    <3>3. QED
      BY <2>1, <3>1, <3>2 DEF Row
  <2>3. CASE queue[i].state # "failed"
    BY <1>1, <2>1, <2>3
  <2>4. QED
    BY <2>2, <2>3
<1>3. DOMAIN queue' = DOMAIN queue /\ queue' \in [DOMAIN queue -> Row]
  <2>1. \A i \in DOMAIN queue : queue'[i] \in Row
    BY <1>2
  <2>2. QED
    BY <1>1, <2>1
<1>4. /\ Ordered(queue') /\ Ids(Rows') = Ids(Rows)
      /\ \A r \in Rows' : r.state = "quarantine" => r \in Rows
  BY <1>2, <1>3, RowsChange
<1>5. QED
  BY <1>1, <1>4, RequeueKeeps

\* What is left of a queue is in order.
LEMMA AcknowledgeKeeps ==
    ASSUME IInv, Acknowledge
    PROVE  IInv'
<1> DEFINE at == {i \in DOMAIN queue : queue[i].id \notin Ids(process.batch)}
           left == Pick(queue, at)
<1>1. /\ process.pc = "send" /\ process.taken /\ process' = Idle /\ queue' = left
      /\ UNCHANGED <<source, fileVars, cursor, page, journal>> /\ late' = late
      /\ incidents' \in 0..MaxIncidents
  BY DEF Acknowledge, Confirmed, IInv, TypeOK, netVars
<1>2. /\ Len(queue) \in Nat /\ DOMAIN queue = 1..Len(queue) /\ Len(queue) <= MaxRows
      /\ \A i \in DOMAIN queue : queue[i] \in Row /\ queue[i] \in Rows
      /\ Ordered(queue)
  BY QueueHas, QueueOrdered DEF IInv, TypeOK
<1>3. at \in SUBSET (1..Len(queue))
  BY <1>2
<1>4. /\ Cardinality(at) \in 0..Len(queue) /\ DOMAIN left = 1..Cardinality(at)
      /\ \A n \in DOMAIN left : \E i \in at : Rank(at, i) = n /\ left[n] = queue[i]
      /\ \A i \in at : Rank(at, i) \in DOMAIN left /\ left[Rank(at, i)] = queue[i]
  <2> HIDE DEF at
  <2>1. Cardinality(at) \in 0..Len(queue) /\ DOMAIN left = 1..Cardinality(at)
    BY <1>2, <1>3, Picked
  <2>2. \A n \in DOMAIN left : \E i \in at : Rank(at, i) = n /\ left[n] = queue[i]
    BY <1>2, <1>3, Picked
  <2>3. \A i \in at : Rank(at, i) \in DOMAIN left /\ left[Rank(at, i)] = queue[i]
    <3> SUFFICES ASSUME NEW i \in at
                 PROVE  Rank(at, i) \in DOMAIN left /\ left[Rank(at, i)] = queue[i]
      OBVIOUS
    <3>1. Rank(at, i) \in DOMAIN left
      BY <1>2, <1>3, Picked
    <3>2. left[Rank(at, i)] = queue[i]
      BY <1>2, <1>3, Picked
    <3>3. QED
      BY <3>1, <3>2
  <2>4. QED
    BY <2>1, <2>2, <2>3
<1>5. at \subseteq DOMAIN queue /\ \A i \in DOMAIN queue : i \in at \/ queue[i].id \in Ids(process.batch)
  OBVIOUS
<1>6. left = [n \in DOMAIN left |-> left[n]]
  BY DEF Pick
<1> HIDE DEF left, at
<1>7. left \in [1..Cardinality(at) -> Row]
  BY <1>2, <1>4, <1>5, <1>6
<1>8. left \in Seq(Row) /\ Len(left) = Cardinality(at)
  BY <1>4, <1>7, AsSequence
<1>9. Ordered(left)
  <2>1. ASSUME NEW n \in DOMAIN left, NEW m \in DOMAIN left, left[n].id = left[m].id
        PROVE  n = m
    <3>1. PICK i \in at : Rank(at, i) = n /\ left[n] = queue[i]
      BY <1>4
    <3>2. PICK j \in at : Rank(at, j) = m /\ left[m] = queue[j]
      BY <1>4
    <3>3. i = j
      BY <1>2, <1>5, <2>1, <3>1, <3>2 DEF Ordered
    <3>4. QED
      BY <3>1, <3>2, <3>3
  <2>2. \A n \in DOMAIN left : left[n].state = "failed" <=> left[n].attempts = MaxAttempts
    BY <1>2, <1>4, <1>5 DEF Ordered
  <2>3. Cardinality(at) <= MaxRows
    BY <1>2, <1>4, Bounds
  <2>4. QED
    BY <1>8, <2>1, <2>2, <2>3 DEF Ordered
<1>10. Rows' \subseteq Rows
  BY <1>1, <1>2, <1>4, <1>5 DEF Rows
<1>11. ASSUME NEW id \in Ids(Rows) PROVE id \in Ids(Rows') \/ Accepted(id)
  <2>1. PICK i \in DOMAIN queue : id = queue[i].id
    BY DEF Ids, Rows
  <2>2. CASE i \in at
    <3>1. PICK n \in DOMAIN left : left[n] = queue[i]
      BY <1>4, <2>2
    <3>2. QED
      BY <1>1, <2>1, <3>1 DEF Ids, Rows
  <2>3. CASE queue[i].id \in Ids(process.batch)
    <3>1. PICK r \in process.batch : r.id = id
      BY <2>1, <2>3 DEF Ids
    <3>2. Event(r) \in journal /\ Event(r).id = id
      BY <1>1, <3>1, SendHas DEF Event
    <3>3. QED
      BY <3>2 DEF Accepted
  <2>4. QED
    BY <1>5, <2>2, <2>3
<1>12. Ids(Rows') \subseteq Ids(Rows)
  BY <1>10 DEF Ids
<1>13. QED
  BY <1>1, <1>9, <1>10, <1>11, <1>12, RequeueKeeps

-----------------------------------------------------------------------------
(* New rows *)

\* A new row waits or is in quarantine.
LEMMA NewRowIs ==
    ASSUME NEW id \in Names, NEW payload \in Payloads, NEW state \in {"pending", "quarantine"}
    PROVE  /\ NewRow(id, payload, state) \in Row
           /\ NewRow(id, payload, state).id = id /\ NewRow(id, payload, state).state = state
           /\ NewRow(id, payload, state).attempts = 0 /\ MaxAttempts # 0
<1>1. 0 \in 0..MaxAttempts /\ MaxAttempts # 0
  BY Bounds
<1>2. QED
  BY <1>1 DEF NewRow, Row

\* The line that is read is after the cursor: nobody was handed its identity.
LEMMA ImportLineKeeps ==
    ASSUME IInv, ImportLine
    PROVE  IInv'
<1> DEFINE lines == content[process.inode]
           line  == Head(Unread)
           n     == process.offset + 1
           id    == LineId(process.inode, n, line)
           state == IF Kind[line] = "good" THEN "pending" ELSE "quarantine"
           row   == NewRow(id, line, state)
           print == Fingerprint(lines, n)
<1>1. /\ process.pc = "import" /\ Unread # <<>> /\ Len(queue) < MaxRows
      /\ queue' = Append(queue, row)
      /\ cursor' = [inode |-> process.inode, offset |-> n, prefix |-> print]
      /\ process' = [process EXCEPT !.offset = n]
      /\ UNCHANGED <<source, fileVars, page, netVars, incidents>>
  BY DEF ImportLine, Importable
<1>2. /\ process \in [pc : {"import"}, inode : Inodes, offset : 0..MaxLines]
      /\ process.inode \in Inodes /\ process.inode <= path /\ process.offset \in Nat
      /\ IsFile
      /\ cursor = None => process.offset = 0
      /\ cursor # None => process.inode = cursor.inode /\ process.offset = cursor.offset
  BY <1>1, Bounds DEF IInv, TypeOK, Process, Idle, Reading
<1>3. lines \in Seq(Lines) /\ Len(lines) <= MaxLines /\ Len(lines) \in Nat
  BY <1>2 DEF IInv, TypeOK
<1>4. n \in 1..Len(lines) /\ line = lines[n] /\ line \in Lines
  <2>1. Unread = SubSeq(lines, n, Len(lines))
    BY DEF Unread
  <2>2. n \in Int /\ Len(lines) \in Int
    BY <1>2, <1>3
  <2>3. n <= Len(lines)
    <3> HIDE DEF lines, n
    <3> QED BY <1>1, <2>1, <2>2, SubSeqEmpty
  <2>4. n \in 1..Len(lines) /\ Len(lines) \in n..Len(lines)
    BY <1>2, <1>3, <2>3
  <2>5. Head(SubSeq(lines, n, Len(lines))) = lines[n]
    <3> HIDE DEF lines, n
    <3> QED BY <1>3, <2>4, HeadTailOfSubSeq
  <2>6. QED
    BY <1>3, <2>1, <2>4, <2>5
<1>5. id \in Names /\ line \in Payloads /\ n \in 1..MaxLines
  BY <1>2, <1>3, <1>4, Bounds DEF Names, Payloads
<1>6. state \in {"pending", "quarantine"}
  OBVIOUS
<1>7. row \in Row /\ row.id = id /\ row.state = state /\ row.attempts = 0 /\ MaxAttempts # 0
  <2> HIDE DEF id, line, state
  <2> QED BY <1>5, <1>6, NewRowIs
<1>8. print \in Seq(Lines)
  <2> DEFINE last == IF n < Prefix THEN n ELSE Prefix
  <2>1. last \in Int /\ last <= n
    BY <1>2, Bounds
  <2>2. \A i \in 1..last : lines[i] \in Lines
    BY <1>2, <1>3, <1>4, <2>1
  <2>3. print = SubSeq(lines, 1, last)
    BY DEF Fingerprint
  <2> HIDE DEF last, lines, print
  <2>4. QED
    BY <2>1, <2>2, <2>3, SubSeqProperties
<1>9. cursor' \in Cursor /\ cursor'.inode = process.inode /\ cursor'.offset = n /\ cursor' # None
  <2> HIDE DEF n, print
  <2>1. cursor' \in Cursor /\ cursor'.inode = process.inode /\ cursor'.offset = n
    BY <1>1, <1>2, <1>5, <1>8 DEF Cursor
  <2>2. QED
    BY <2>1, NoCursor
<1>10. /\ process' \in [pc : {"import"}, inode : Inodes, offset : 0..MaxLines]
       /\ process'.pc = "import" /\ process'.inode = process.inode /\ process'.offset = n
  <2>1. n \in 0..MaxLines
    BY <1>5, Bounds
  <2> HIDE DEF n
  <2> QED BY <1>1, <1>2, <2>1
<1>11. /\ source' = source /\ page' = page /\ journal' = journal /\ late' = late
       /\ incidents' = incidents
       /\ content' = content /\ path' = path /\ replaced' = replaced /\ IsFile' = IsFile
       /\ \A i : Accepted(i)' = Accepted(i)
  BY <1>1 DEF fileVars, netVars, IsFile, Accepted
<1>12. Passed' = Passed \cup {LineId(process.inode, n, l) : l \in Lines} /\ id \notin Passed
  <2>1. Passed' = {LineId(process.inode, k, l) : k \in 1..n, l \in Lines}
    <3> HIDE DEF n
    <3> QED BY <1>9 DEF Passed
  <2>2. CASE cursor = None
    <3>1. n = 1
      <4>1. process.offset = 0
        BY <1>2, <2>2
      <4>2. QED
        BY <4>1
    <3>2. 1..n = {1}
      BY <3>1
    <3>3. QED
      BY <2>1, <2>2, <3>1, <3>2 DEF Passed
  <2>3. CASE cursor # None
    <3>1. Passed = {LineId(process.inode, k, l) : k \in 1..process.offset, l \in Lines}
      BY <1>2, <2>3 DEF Passed
    <3>2. 1..n = (1..process.offset) \cup {n} /\ n \notin 1..process.offset
      BY <1>2
    <3> HIDE DEF n, line
    <3>3. QED
      BY <2>1, <3>1, <3>2 DEF LineId
  <2>4. QED
    BY <2>2, <2>3
<1> HIDE DEF n, line, id, row, lines, print, state
<1>13. id \in Passed'
  BY <1>4, <1>12 DEF id
<1>14. id \notin Handed
  BY <1>2, <1>12 DEF IInv, Reading
<1>15. /\ Len(queue) \in Nat /\ DOMAIN queue = 1..Len(queue) /\ queue \in Seq(Row)
       /\ \A i \in DOMAIN queue : queue[i] \in Row /\ queue[i] \in Rows
       /\ Ordered(queue)
  BY QueueHas, QueueOrdered DEF IInv, TypeOK
<1>16. /\ queue' \in Seq(Row) /\ Len(queue') = Len(queue) + 1 /\ DOMAIN queue' = 1..(Len(queue) + 1)
       /\ \A i \in DOMAIN queue : i \in DOMAIN queue' /\ queue'[i] = queue[i]
       /\ queue'[Len(queue) + 1] = row
       /\ \A i \in DOMAIN queue' : i \in DOMAIN queue \/ i = Len(queue) + 1
  BY <1>1, <1>7, <1>15
<1>17. Rows' = Rows \cup {row}
  BY <1>16 DEF Rows
<1>18. Ordered(queue')
  <2>1. \A i \in DOMAIN queue : queue[i].id # id
    BY <1>14, <1>15 DEF Handed, Ids
  <2>2. \A i, j \in DOMAIN queue' : queue'[i].id = queue'[j].id => i = j
    BY <1>7, <1>15, <1>16, <2>1 DEF Ordered
  <2>3. \A i \in DOMAIN queue' : queue'[i].state = "failed" <=> queue'[i].attempts = MaxAttempts
    BY <1>6, <1>7, <1>15, <1>16 DEF Ordered
  <2>4. Len(queue') <= MaxRows
    BY <1>1, <1>15, <1>16, Bounds
  <2>5. QED
    BY <1>16, <2>2, <2>3, <2>4 DEF Ordered
<1>19. TypeOK'
  <2>1. /\ queue' \in Seq(Row) /\ Len(queue') <= MaxRows
        /\ \A i, j \in DOMAIN queue' : queue'[i].id = queue'[j].id => i = j
        /\ \A r \in Rows' : r.state = "failed" <=> r.attempts = MaxAttempts
    BY <1>18 DEF Ordered, Rows
  <2>2. process' \in Process
    BY <1>10 DEF Process
  <2>3. cursor'.inode <= path'
    BY <1>2, <1>9, <1>11
  <2>4. QED
    BY <1>9, <1>11, <2>1, <2>2, <2>3 DEF IInv, TypeOK
<1>20. Reading'
  <2>1. Handed' = Handed \cup {id}
    BY <1>7, <1>11, <1>17 DEF Handed, Ids
  <2>2. Handed' \subseteq Passed'
    BY <1>2, <1>12, <1>13, <2>1 DEF IInv, Reading
  <2>3. QED
    BY <1>2, <1>9, <1>10, <1>11, <2>2 DEF IInv, Reading
<1>21. Sending'
  BY <1>10 DEF Sending
<1>22. Apart'
  <2>1. ~ Accepted(id) /\ \A batch \in late : id \notin Ids(batch)
    BY <1>14 DEF Handed, Accepted
  <2>2. ASSUME NEW r \in Rows', r.state = "quarantine"
        PROVE  IsFile /\ ~ Accepted(r.id) /\ \A batch \in late : r.id \notin Ids(batch)
    <3>1. CASE r = row
      BY <1>2, <1>7, <2>1, <3>1
    <3>2. CASE r \in Rows
      BY <2>2, <3>2 DEF IInv, Apart
    <3>3. QED
      BY <1>17, <3>1, <3>2
  <2>3. \A r \in Rows' : r.state = "quarantine" =>
            IsFile' /\ ~ Accepted(r.id)' /\ \A batch \in late' : r.id \notin Ids(batch)
    BY <1>11, <2>2
  <2>4. QED
    BY <2>3 DEF Apart
<1>23. NothingSkipped'
  <2>1. \A k \in 1..n : \E l \in Lines :
            Accepted(LineId(process.inode, k, l)) \/ LineId(process.inode, k, l) \in Ids(Rows')
    <3>1. ASSUME NEW k \in 1..n PROVE k = n \/ (k \in 1..process.offset /\ cursor # None)
      <4>1. process.offset \in Nat /\ (cursor = None => process.offset = 0) /\ n = process.offset + 1
        BY <1>2 DEF n
      <4>2. QED
        BY <3>1, <4>1
    <3>2. \A i : i \in Ids(Rows) => i \in Ids(Rows')
      BY <1>17 DEF Ids
    <3>3. id \in Ids(Rows')
      BY <1>7, <1>17 DEF Ids
    <3>4. ASSUME NEW k \in 1..n
          PROVE  \E l \in Lines :
                     Accepted(LineId(process.inode, k, l)) \/ LineId(process.inode, k, l) \in Ids(Rows')
      <4>1. CASE k = n
        BY <1>4, <3>3, <4>1 DEF id
      <4>2. CASE k \in 1..process.offset /\ cursor # None
        <5>1. PICK l \in Lines :
                    \/ Accepted(LineId(process.inode, k, l))
                    \/ LineId(process.inode, k, l) \in Ids(Rows)
          BY <1>2, <4>2 DEF IInv, NothingSkipped
        <5>2. QED
          BY <3>2, <5>1
      <4>3. QED
        BY <3>1, <4>1, <4>2
    <3>5. QED
      BY <3>4
  <2>2. \A r \in Rows' : r.state = "quarantine" => ~ Accepted(r.id)'
    BY <1>22 DEF Apart
  <2>3. \A k \in 1..page : \A i \in DOMAIN source[k] :
            Accepted(source[k][i].id) \/ source[k][i].id \in Ids(Rows')
    BY <1>17 DEF IInv, NothingSkipped, Ids
  <2>4. QED
    BY <1>9, <1>11, <2>1, <2>2, <2>3 DEF NothingSkipped
<1>24. QED
  BY <1>19, <1>20, <1>21, <1>22, <1>23 DEF IInv

\* A set of numbers that is not empty has a least one.
LEMMA HasLeast ==
    ASSUME NEW S \in SUBSET Nat, S # {}
    PROVE  \E least \in S : \A n \in S : least <= n
<1>1. PICK least \in S : \A n \in S : ~ (<<n, least>> \in OpToRel(<, Nat))
  BY NatLessThanWellFounded, WFMin
<1>2. \A n \in S : ~ (n < least)
  BY <1>1 DEF OpToRel
<1>3. QED
  BY <1>2

\* The records of a page are sequences of what the gateway knows.
LEMMA PageHas ==
    ASSUME IInv, NextPage
    PROVE  /\ source[page + 1] \in Seq(Records) /\ Len(source[page + 1]) \in Nat
           /\ DOMAIN source[page + 1] = 1..Len(source[page + 1])
           /\ \A i \in DOMAIN source[page + 1] :
                 /\ source[page + 1][i].id \in Names /\ source[page + 1][i].payload \in Payloads
           /\ page \in Nat /\ page + 1 \in 1..Len(source) /\ ~ IsFile
<1>1. source \in Sources /\ ~ IsFile /\ page \in 0..Len(source) /\ page < Len(source)
  BY DEF NextPage, IInv, TypeOK, IsFile
<1>2. source \in Seq(Pages)
  BY <1>1, CollectorAssumption
<1>3. page \in Nat /\ page + 1 \in 1..Len(source)
  BY <1>1, <1>2
<1> DEFINE records == source[page + 1]
<1>4. records \in Pages /\ records # None
  BY <1>2, <1>3 DEF NextPage
<1> HIDE DEF records
<1>5. records \in Seq(Records)
  BY <1>4, CollectorAssumption
<1>6. \A i \in DOMAIN records : records[i] \in Records
  BY <1>4 DEF Records
<1>7. \A i \in DOMAIN records : records[i].id \in Names /\ records[i].payload \in Payloads
  BY <1>6 DEF Names, Payloads
<1>8. Len(records) \in Nat /\ DOMAIN records = 1..Len(records)
  BY <1>5
<1>9. QED
  BY <1>1, <1>3, <1>5, <1>7, <1>8 DEF records

\* Records whose identity is new, each identity once, and none is left out.
LEMMA NewRecordsAre ==
    ASSUME NEW records \in Seq(Records), NEW length \in Nat, length = Len(records)
    PROVE  LET new == NewRecords(records)
           IN  \E count \in Nat :
                /\ DOMAIN new = 1..count /\ new \in Seq(Records) /\ Len(new) = count
                /\ \A n \in DOMAIN new : \E i \in DOMAIN records : new[n] = records[i]
                /\ \A n \in DOMAIN new : new[n].id \notin Ids(Rows)
                /\ \A n, m \in DOMAIN new : new[n].id = new[m].id => n = m
                /\ \A i \in DOMAIN records :
                      records[i].id \in Ids(Rows) \/ \E n \in DOMAIN new : new[n].id = records[i].id
<1> DEFINE at  == {i \in DOMAIN records :
                      records[i].id \notin Ids(Rows) \cup {records[k].id : k \in 1..(i - 1)}}
           new == Pick(records, at)
<1>0. DOMAIN records = 1..length
  OBVIOUS
<1>1. at \in SUBSET (1..length)
  BY <1>0
<1>2. /\ Cardinality(at) \in 0..length /\ DOMAIN new = 1..Cardinality(at)
      /\ \A n \in DOMAIN new : \E i \in at : Rank(at, i) = n /\ new[n] = records[i]
      /\ \A i \in at : Rank(at, i) \in DOMAIN new /\ new[Rank(at, i)] = records[i]
  <2> HIDE DEF at, new
  <2>1. /\ Cardinality(at) \in 0..length
        /\ DOMAIN Pick(records, at) = 1..Cardinality(at)
    BY <1>1, Picked
  <2>2. \A n \in DOMAIN Pick(records, at) :
            \E i \in at : Rank(at, i) = n /\ Pick(records, at)[n] = records[i]
    BY <1>1, Picked
  <2>3. \A i \in at : Rank(at, i) \in DOMAIN Pick(records, at) /\ Pick(records, at)[Rank(at, i)] = records[i]
    <3> SUFFICES ASSUME NEW i \in at
                 PROVE  /\ Rank(at, i) \in DOMAIN Pick(records, at)
                        /\ Pick(records, at)[Rank(at, i)] = records[i]
      OBVIOUS
    <3>1. Rank(at, i) \in DOMAIN Pick(records, at)
      BY <1>1, Picked
    <3>2. Pick(records, at)[Rank(at, i)] = records[i]
      BY <1>1, Picked
    <3>3. QED
      BY <3>1, <3>2
  <2>4. QED
    BY <2>1, <2>2, <2>3 DEF new
<1>3. \A i \in at : i \in 1..length /\ records[i].id \notin Ids(Rows)
                   /\ \A k \in 1..(i - 1) : records[k].id # records[i].id
  BY <1>0
<1>4. new = [n \in DOMAIN new |-> new[n]]
  BY DEF Pick
<1>5. NewRecords(records) = new
  BY DEF NewRecords
<1>6. ASSUME NEW i \in DOMAIN records
      PROVE  records[i].id \in Ids(Rows) \/ \E j \in at : records[j].id = records[i].id
  <2> DEFINE Same == {k \in 1..length : records[k].id = records[i].id}
  <2>1. Same \in SUBSET Nat /\ i \in Same
    BY <1>0
  <2>2. PICK least \in Same : \A k \in Same : least <= k
    <3> HIDE DEF Same
    <3> QED BY <2>1, HasLeast
  <2>3. \A k \in 1..(least - 1) : records[k].id # records[least].id
    BY <2>2
  <2>4. QED
    BY <1>0, <2>2, <2>3
<1> HIDE DEF at, new
<1>7. \A n \in DOMAIN new : new[n].id \notin Ids(Rows) /\ \E i \in DOMAIN records : new[n] = records[i]
  BY <1>0, <1>2, <1>3
<1>8. new \in [1..Cardinality(at) -> Records]
  <2>1. \A i \in DOMAIN records : records[i] \in Records
    OBVIOUS
  <2>2. \A n \in DOMAIN new : new[n] \in Records
    BY <1>7, <2>1
  <2>3. QED
    BY <1>2, <1>4, <2>2
<1>9. new \in Seq(Records) /\ Len(new) = Cardinality(at)
  BY <1>2, <1>8, AsSequence
<1>10. ASSUME NEW n \in DOMAIN new, NEW m \in DOMAIN new, new[n].id = new[m].id
       PROVE  n = m
  <2>1. PICK i \in at : Rank(at, i) = n /\ new[n] = records[i]
    BY <1>2
  <2>2. PICK j \in at : Rank(at, j) = m /\ new[m] = records[j]
    BY <1>2
  <2>3. ~ (i < j) /\ ~ (j < i)
    BY <1>3, <1>10, <2>1, <2>2
  <2>4. i = j
    BY <1>3, <2>3
  <2>5. QED
    BY <2>1, <2>2, <2>4
<1>11. \A i \in DOMAIN records :
          records[i].id \in Ids(Rows) \/ \E n \in DOMAIN new : new[n].id = records[i].id
  BY <1>2, <1>6
<1>12. Cardinality(at) \in Nat
  BY <1>2
<1>13. QED
  BY <1>2, <1>5, <1>7, <1>9, <1>10, <1>11, <1>12

\* A page is put into the spool with the cursor behind it.
LEMMA CommitPageKeeps ==
    ASSUME IInv, CommitPage
    PROVE  IInv'
<1> DEFINE records == source[page + 1]
           new     == NewRecords(records)
           added   == [i \in DOMAIN new |-> NewRow(new[i].id, new[i].payload, "pending")]
<1>1. /\ process.pc = "idle" /\ NextPage
      /\ Len(queue) + Len(new) <= MaxRows
      /\ queue' = queue \o added
      /\ page' = page + 1
      /\ UNCHANGED <<source, fileVars, cursor, process, netVars, incidents>>
  BY DEF CommitPage, Committable, Idle
<1>2. /\ records \in Seq(Records) /\ Len(records) \in Nat /\ DOMAIN records = 1..Len(records)
      /\ \A i \in DOMAIN records : records[i].id \in Names /\ records[i].payload \in Payloads
      /\ page \in Nat /\ page + 1 \in 1..Len(source) /\ ~ IsFile
  BY <1>1, PageHas
<1>3. PICK count \in Nat :
          /\ DOMAIN new = 1..count /\ new \in Seq(Records) /\ Len(new) = count
          /\ \A n \in DOMAIN new : \E i \in DOMAIN records : new[n] = records[i]
          /\ \A n \in DOMAIN new : new[n].id \notin Ids(Rows)
          /\ \A n, m \in DOMAIN new : new[n].id = new[m].id => n = m
          /\ \A i \in DOMAIN records :
                records[i].id \in Ids(Rows) \/ \E n \in DOMAIN new : new[n].id = records[i].id
  <2> HIDE DEF records
  <2> QED BY <1>2, NewRecordsAre
<1> HIDE DEF new
<1>4. \A n \in 1..count : /\ added[n] \in Row /\ added[n].id = new[n].id
                          /\ added[n].state = "pending" /\ added[n].attempts = 0
  <2> SUFFICES ASSUME NEW n \in 1..count
               PROVE  /\ added[n] \in Row /\ added[n].id = new[n].id
                      /\ added[n].state = "pending" /\ added[n].attempts = 0
    OBVIOUS
  <2>1. new[n].id \in Names /\ new[n].payload \in Payloads
    BY <1>2, <1>3
  <2>2. added[n] = NewRow(new[n].id, new[n].payload, "pending")
    BY <1>3
  <2> HIDE DEF added
  <2>3. QED
    BY <2>1, <2>2, NewRowIs
<1>5. added \in Seq(Row) /\ Len(added) = count
  <2>1. added \in [1..count -> Row]
    BY <1>3, <1>4
  <2> HIDE DEF added
  <2>2. QED
    BY <2>1, AsSequence
<1> HIDE DEF added
<1>6. /\ Len(queue) \in Nat /\ DOMAIN queue = 1..Len(queue) /\ queue \in Seq(Row)
      /\ \A i \in DOMAIN queue : queue[i] \in Row /\ queue[i] \in Rows
      /\ Ordered(queue)
  BY QueueHas, QueueOrdered DEF IInv, TypeOK
<1>7. /\ queue' \in Seq(Row) /\ Len(queue') = Len(queue) + count
      /\ DOMAIN queue' = 1..(Len(queue) + count)
      /\ \A i \in DOMAIN queue' : queue'[i] = IF i <= Len(queue) THEN queue[i] ELSE added[i - Len(queue)]
  <2>1. /\ queue \o added \in Seq(Row) /\ Len(queue \o added) = Len(queue) + Len(added)
        /\ \A i \in 1..(Len(queue) + Len(added)) :
              (queue \o added)[i] = IF i <= Len(queue) THEN queue[i] ELSE added[i - Len(queue)]
    BY <1>5, <1>6, ConcatProperties
  <2>2. DOMAIN queue' = 1..Len(queue')
    BY <1>1, <2>1, LenProperties
  <2>3. QED
    BY <1>1, <1>5, <2>1, <2>2
<1>8. \A i \in DOMAIN queue' :
          \/ i \in DOMAIN queue /\ queue'[i] = queue[i]
          \/ i - Len(queue) \in 1..count /\ queue'[i] = added[i - Len(queue)]
  BY <1>6, <1>7
<1>9. \A i \in DOMAIN queue : i \in DOMAIN queue' /\ queue'[i] = queue[i]
  BY <1>6, <1>7
<1>10. ASSUME NEW n \in 1..count
       PROVE  Len(queue) + n \in DOMAIN queue' /\ queue'[Len(queue) + n] = added[n]
  <2>1. Len(queue) + n \in DOMAIN queue' /\ ~ (Len(queue) + n <= Len(queue))
        /\ (Len(queue) + n) - Len(queue) = n
    BY <1>6, <1>7
  <2>2. QED
    BY <1>7, <2>1
<1>11. ASSUME NEW r \in Rows'
       PROVE  r \in Rows \/ \E n \in 1..count : r = added[n]
  BY <1>6, <1>8 DEF Rows
<1>12. \A id : id \in Ids(Rows) => id \in Ids(Rows')
  BY <1>9 DEF Rows, Ids
<1>13. Ordered(queue')
  <2>1. ASSUME NEW i \in DOMAIN queue', NEW j \in DOMAIN queue', queue'[i].id = queue'[j].id
        PROVE  i = j
    <3>1. CASE i \in DOMAIN queue /\ queue'[i] = queue[i] /\ j \in DOMAIN queue /\ queue'[j] = queue[j]
      BY <1>6, <2>1, <3>1 DEF Ordered
    <3>2. ASSUME NEW k \in DOMAIN queue, NEW n \in 1..count, queue[k].id = added[n].id
          PROVE  FALSE
      BY <1>3, <1>4, <1>6, <3>2 DEF Ids
    <3>3. CASE /\ i - Len(queue) \in 1..count /\ queue'[i] = added[i - Len(queue)]
               /\ j - Len(queue) \in 1..count /\ queue'[j] = added[j - Len(queue)]
      <4>1. i - Len(queue) = j - Len(queue)
        BY <1>3, <1>4, <2>1, <3>3
      <4>2. i \in Nat /\ j \in Nat
        BY <1>6, <1>7
      <4>3. QED
        BY <1>6, <4>1, <4>2
    <3>4. QED
      BY <1>8, <2>1, <3>1, <3>2, <3>3
  <2>2. ASSUME NEW i \in DOMAIN queue'
        PROVE  queue'[i].state = "failed" <=> queue'[i].attempts = MaxAttempts
    <3>1. MaxAttempts # 0
      BY Bounds
    <3>2. QED
      BY <1>4, <1>6, <1>8, <3>1 DEF Ordered
  <2>3. Len(queue') <= MaxRows
    BY <1>1, <1>3, <1>7
  <2>4. QED
    BY <1>7, <2>1, <2>2, <2>3 DEF Ordered
<1>14. /\ source' = source /\ cursor' = cursor /\ journal' = journal /\ late' = late
       /\ process' = process /\ incidents' = incidents
       /\ content' = content /\ path' = path /\ replaced' = replaced /\ IsFile' = IsFile
       /\ \A i : Accepted(i)' = Accepted(i)
  BY <1>1 DEF fileVars, netVars, IsFile, Accepted
<1>15. TypeOK'
  <2>1. /\ queue' \in Seq(Row) /\ Len(queue') <= MaxRows
        /\ \A i, j \in DOMAIN queue' : queue'[i].id = queue'[j].id => i = j
        /\ \A r \in Rows' : r.state = "failed" <=> r.attempts = MaxAttempts
    BY <1>13 DEF Ordered, Rows
  <2>2. page' \in 0..Len(source)
    BY <1>1, <1>2
  <2>3. QED
    BY <1>2, <1>14, <2>1, <2>2 DEF IInv, TypeOK
<1>16. Reading' /\ Sending'
  BY <1>1, <1>2, <1>14 DEF IInv, Reading, Sending
<1>17. \A r \in Rows' : r.state # "quarantine"
  BY <1>2, <1>4, <1>11 DEF IInv, Apart
<1>18. NothingSkipped'
  <2>1. ASSUME NEW k \in 1..(page + 1), NEW i \in DOMAIN source[k]
        PROVE  Accepted(source[k][i].id) \/ source[k][i].id \in Ids(Rows')
    <3>1. CASE k \in 1..page
      BY <1>12, <3>1 DEF IInv, NothingSkipped
    <3>2. CASE k = page + 1
      <4>1. CASE records[i].id \in Ids(Rows)
        BY <1>12, <3>2, <4>1
      <4>2. CASE \E n \in DOMAIN new : new[n].id = records[i].id
        <5>1. PICK n \in 1..count : new[n].id = records[i].id
          BY <1>3, <4>2
        <5>2. added[n] \in Rows' /\ added[n].id = records[i].id
          BY <1>4, <1>10, <5>1 DEF Rows
        <5>3. QED
          BY <3>2, <5>2 DEF Ids
      <4>3. QED
        BY <1>3, <3>2, <4>1, <4>2
    <3>3. k \in 1..page \/ k = page + 1
      BY <1>2
    <3>4. QED
      BY <3>1, <3>2, <3>3
  <2>2. cursor # None => \A n \in 1..cursor.offset : \E line \in Lines :
            \/ Accepted(LineId(cursor.inode, n, line))
            \/ LineId(cursor.inode, n, line) \in Ids(Rows')
    BY <1>12 DEF IInv, NothingSkipped
  <2>3. QED
    BY <1>1, <1>14, <1>17, <2>1, <2>2 DEF NothingSkipped
<1>19. Apart'
  BY <1>17 DEF Apart
<1>20. QED
  BY <1>15, <1>16, <1>18, <1>19 DEF IInv

-----------------------------------------------------------------------------
(* The theorems *)

\* At the start nothing was read and nothing sent.
LEMMA InitInv == Init => IInv
<1> SUFFICES ASSUME Init PROVE IInv
  OBVIOUS
<1>1. Rows = {} /\ Handed = {} /\ process.pc = "idle" /\ process = Idle /\ queue = <<>>
  BY DEF Init, Rows, Handed, Ids, Idle
<1>2. TypeOK
  <2>1. content \in [Inodes -> Seq(Lines)] /\ \A inode \in Inodes : Len(content[inode]) <= MaxLines
    BY Bounds DEF Init
  <2>2. path \in Inodes /\ replaced \in 0..MaxReplaced /\ incidents \in 0..MaxIncidents
    BY Bounds DEF Init, Inodes
  <2>3. page \in 0..(IF IsFile THEN 0 ELSE Len(source))
    <3>1. ~ IsFile => source \in Seq(Pages)
      BY CollectorAssumption DEF Init, IsFile
    <3>2. QED
      BY <3>1 DEF Init
  <2>4. queue \in Seq(Row) /\ Len(queue) <= MaxRows /\ DOMAIN queue = {}
    BY <1>1, Bounds
  <2>5. process \in Process
    BY <1>1 DEF Process
  <2>6. QED
    BY <1>1, <2>1, <2>2, <2>3, <2>4, <2>5 DEF Init, TypeOK
<1>3. QED
  BY <1>1, <1>2 DEF Init, IInv, Reading, Sending, Apart, NothingSkipped

LEMMA StepInv == IInv /\ [Next]_vars => IInv'
<1> SUFFICES ASSUME IInv, [Next]_vars PROVE IInv'
  OBVIOUS
<1>1. CASE SendNext \/ SendNow
  BY <1>1, SelectKeeps DEF SendNext, SendNow
<1>2. CASE UNCHANGED vars
  <2>1. process \in Process /\ UNCHANGED fileVars
    BY <1>2 DEF IInv, TypeOK, vars, fileVars
  <2>2. QED
    BY <1>2, <2>1, ProcessKeeps DEF vars, IInv, Reading, Sending
<1>3. CASE \E batch \in late : LateArrival(batch)
  BY <1>3, LateArrivalKeeps
<1>4. QED
  BY <1>1, <1>2, <1>3, WriterKeeps, OpenKeeps, ImportLineKeeps, ImportEndKeeps, CommitPageKeeps,
     GatewayTakesKeeps, AcknowledgeKeeps, UnconfirmedKeeps, RetryKeeps, StopKeeps
     DEF Next

\* The invariant holds in every reachable state.
LEMMA Inductive == Spec => []IInv
BY InitInv, StepInv, PTL DEF Spec

\* The spool stays within its capacity and holds an identity once, a row fails at
\* the last delivery it may have, and a cursor is of the file at the path or older.
THEOREM TypeCorrect == Spec => []TypeOK
<1>1. IInv => TypeOK
  BY DEF IInv
<1>2. QED
  BY <1>1, Inductive, PTL

\* Whatever the cursor of a file or a native source has passed is in the spool or
\* at the gateway, and what is in quarantine is not, for files of any length, pages
\* of any size and any order of answers, late requests and stops.
THEOREM NothingLost == Spec => []NothingSkipped
<1>1. IInv => NothingSkipped
  BY DEF IInv
<1>2. QED
  BY <1>1, Inductive, PTL
===============================================================================
