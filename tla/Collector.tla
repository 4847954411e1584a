------------------------------ MODULE Collector ------------------------------
(***************************************************************************)
(* The spool between a source and the gateway: nova/collector.py, with the *)
(* journald and CloudTrail feeds of nova/native.py.                        *)
(*                                                                         *)
(* A spool belongs to one adapter.  A lock admits one process at a time,   *)
(* which forgets everything when it stops; the queue and the cursor are in *)
(* one SQLite database.  A command that takes one transaction is an action *)
(* that needs the lock to be free.  The gateway is what it keeps: it takes *)
(* a request as a whole or not at all, and knows identities it has seen.   *)
(***************************************************************************)
EXTENDS Integers, Sequences, FiniteSets

CONSTANTS
    None,
    Lines,         \* complete lines of a source file
    Kind,          \* [Lines -> {"good", "bad", "huge"}]: adapted, refused, over 64 KiB
    MaxLines,      \* bound: length of a file
    MaxReplaced,   \* bound: times the file is emptied or gives way to another
    MaxLate,       \* bound: requests on their way
    Prefix,        \* lines that the fingerprint covers (4096 bytes)
    Sources,       \* native sources: sequences of pages, each a sequence of
                   \* records, or None where a record is malformed
    MaxRows,       \* capacity of the spool (256 MiB)
    MaxSend,       \* rows in a request (500)
    MaxAttempts,   \* unconfirmed deliveries that park a row (8)
    MaxIncidents   \* bound: crashes and operator retries

\* What the pages of the native sources hold.
Pages == UNION {{s[k] : k \in DOMAIN s} : s \in Sources}
Records == UNION {{page[i] : i \in DOMAIN page} : page \in Pages \ {None}}

ASSUME CollectorAssumption ==
    /\ Kind \in [Lines -> {"good", "bad", "huge"}]
    /\ Sources \subseteq Seq(Pages) /\ Pages \subseteq Seq(Records) \cup {None}
    /\ None \notin Sources
    /\ {MaxRows, MaxSend, MaxAttempts, Prefix} \subseteq Nat \ {0}
    /\ {MaxLines, MaxReplaced, MaxLate, MaxIncidents} \subseteq Nat

VARIABLES
    source,     \* the pages of a native spool, None for the spool of a file
    content,    \* inode -> the complete lines in it
    path,       \* the inode at the path
    replaced,
    cursor,     \* files: how far which inode was read, and its fingerprint, or None
    page,       \* native_cursor: the pages that were committed
    queue,      \* queue: rows in the order of insertion
    journal,    \* the gateway's: identity and payload of accepted events
    process,    \* what the holder of the lock is doing
    late,       \* requests that were given up and may still arrive
    incidents

vars == <<source, content, path, replaced, cursor, page, queue, journal, process, late, incidents>>
fileVars == <<content, path, replaced>>
netVars  == <<journal, late>>

IsFile == source = None

Inodes == 1..(MaxReplaced + 1)

\* The identity of a line names its place and its content.
LineId(inode, n, line) == <<inode, n, line>>

Names == {LineId(inode, n, line) : inode \in Inodes, n \in 1..MaxLines, line \in Lines}
             \cup {r.id : r \in Records}
Payloads == Lines \cup {r.payload : r \in Records}

Row == [id : Names, payload : Payloads, state : {"pending", "quarantine", "failed"},
        attempts : 0..MaxAttempts]

Cursor == [inode : Inodes, offset : 1..MaxLines, prefix : Seq(Lines)]

ASSUME CursorAssumption == None \notin Cursor

Idle == [pc |-> "idle"]

Process ==
    {Idle} \cup [pc : {"import"}, inode : Inodes, offset : 0..MaxLines] \cup [pc : {"imported"}]
        \cup [pc : {"send"}, batch : SUBSET Row, taken : BOOLEAN]

Ids(rows) == {r.id : r \in rows}
Rows == {queue[i] : i \in DOMAIN queue}

TypeOK ==
    /\ source \in Sources \cup {None}
    /\ path \in Inodes /\ replaced \in 0..MaxReplaced
    /\ content \in [Inodes -> Seq(Lines)] /\ \A inode \in Inodes : Len(content[inode]) <= MaxLines
    /\ cursor \in Cursor \cup {None} /\ (cursor # None => cursor.inode <= path)
    /\ page \in 0..(IF IsFile THEN 0 ELSE Len(source))
    /\ queue \in Seq(Row) /\ Len(queue) <= MaxRows
    /\ \A r \in Rows : r.state = "failed" <=> r.attempts = MaxAttempts
    /\ \A i, j \in DOMAIN queue : queue[i].id = queue[j].id => i = j
    /\ journal \subseteq [id : Names, payload : Payloads]
    /\ process \in Process
    /\ late \in SUBSET SUBSET Row
    /\ incidents \in 0..MaxIncidents

Init ==
    /\ source \in Sources \cup {None}
    /\ content = [i \in Inodes |-> <<>>]
    /\ path = 1 /\ replaced = 0
    /\ cursor = None /\ page = 0 /\ queue = <<>>
    /\ journal = {} /\ late = {}
    /\ process = Idle
    /\ incidents = 0

\* Those of the entries whose places are in "at", in their order.
Pick(entries, at) ==
    [n \in 1..Cardinality(at) |->
        entries[CHOOSE i \in at : Cardinality({k \in at : k <= i}) = n]]

-----------------------------------------------------------------------------
(* The writer of the file *)

WriteLine(line) ==
    /\ IsFile /\ Len(content[path]) < MaxLines
    /\ content' = [content EXCEPT ![path] = Append(@, line)]
    /\ UNCHANGED <<source, path, replaced, cursor, page, queue, process, netVars, incidents>>

Rotate ==
    /\ IsFile /\ replaced < MaxReplaced
    /\ path' = path + 1
    /\ replaced' = replaced + 1
    /\ UNCHANGED <<source, content, cursor, page, queue, process, netVars, incidents>>

Truncate ==
    /\ IsFile /\ content[path] # <<>> /\ replaced < MaxReplaced
    /\ content' = [content EXCEPT ![path] = <<>>]
    /\ replaced' = replaced + 1
    /\ UNCHANGED <<source, path, cursor, page, queue, process, netVars, incidents>>

-----------------------------------------------------------------------------
(* import_file: a transaction for each line, the row and the cursor *)

Fingerprint(lines, n) == SubSeq(lines, 1, IF n < Prefix THEN n ELSE Prefix)

\* The file is the one that was read, as far as it was read.
Continues ==
    cursor # None =>
        /\ cursor.inode = path
        /\ Len(content[path]) >= cursor.offset
        /\ Fingerprint(content[path], cursor.offset) = cursor.prefix

OpenFile ==
    /\ IsFile /\ process = Idle /\ Continues
    /\ process' = [pc |-> "import", inode |-> path,
                   offset |-> IF cursor = None THEN 0 ELSE cursor.offset]
    /\ UNCHANGED <<source, fileVars, cursor, page, queue, netVars, incidents>>

NewRow(id, payload, state) == [id |-> id, payload |-> payload, state |-> state, attempts |-> 0]

\* The lines after the offset, in the file that was opened.
Unread == LET lines == content[process.inode]
          IN  SubSeq(lines, process.offset + 1, Len(lines))

\* A line that is too long and a spool that is full end the import.
Importable == Unread # <<>> /\ Kind[Head(Unread)] # "huge" /\ Len(queue) < MaxRows

ImportLine ==
    /\ process.pc = "import" /\ Importable
    /\ LET line == Head(Unread)
           n    == process.offset + 1
       IN  /\ queue' = Append(queue, NewRow(LineId(process.inode, n, line), line,
                                  IF Kind[line] = "good" THEN "pending" ELSE "quarantine"))
           /\ cursor' = [inode |-> process.inode, offset |-> n,
                         prefix |-> Fingerprint(content[process.inode], n)]
           /\ process' = [process EXCEPT !.offset = n]
    /\ UNCHANGED <<source, fileVars, page, netVars, incidents>>

\* At the end of the file the loop goes on to send; an error ends the process.
ImportEnd ==
    /\ process.pc = "import" /\ ~ Importable
    /\ process' = [pc |-> IF Unread = <<>> THEN "imported" ELSE "idle"]
    /\ UNCHANGED <<source, fileVars, cursor, page, queue, netVars, incidents>>

-----------------------------------------------------------------------------
(* commit_page: the records of a page and the cursor *)

\* Records whose identity is neither in the spool nor earlier in the page.
NewRecords(records) ==
    Pick(records, {i \in DOMAIN records :
                      records[i].id \notin Ids(Rows) \cup {records[k].id : k \in 1..(i - 1)}})

\* There is a page after the cursor. A malformed record ends the acquisition.
NextPage == ~ IsFile /\ page < Len(source) /\ source[page + 1] # None

\* The whole page fits, and no identity in the spool comes with another payload.
Committable ==
    LET records == source[page + 1]
    IN  /\ \A i \in DOMAIN records :
              \A r \in Rows \cup {records[k] : k \in 1..(i - 1)} :
                  r.id = records[i].id => r.payload = records[i].payload
        /\ Len(queue) + Len(NewRecords(records)) <= MaxRows

CommitPage ==
    /\ process = Idle /\ NextPage /\ Committable
    /\ LET new == NewRecords(source[page + 1])
       IN  queue' = queue \o [i \in DOMAIN new |-> NewRow(new[i].id, new[i].payload, "pending")]
    /\ page' = page + 1
    /\ UNCHANGED <<source, fileVars, cursor, process, netVars, incidents>>

-----------------------------------------------------------------------------
(* send *)

\* Mutant: a row that was tried once is not looked at again.
DueNever(waited) == {i \in DOMAIN queue : queue[i].state = "pending" /\ queue[i].attempts = 0}

\* Pending rows; those that were tried before wait for their time.
Due(waited) ==
    {i \in DOMAIN queue : queue[i].state = "pending" /\ (queue[i].attempts = 0 \/ i \in waited)}

Select ==
    \E waited \in SUBSET DOMAIN queue :
        LET due   == Due(waited)
            batch == {queue[i] : i \in {j \in due : Cardinality({k \in due : k < j}) < MaxSend}}
        IN  /\ process' = IF due = {} THEN Idle
                          ELSE [pc |-> "send", batch |-> batch, taken |-> FALSE]
            /\ UNCHANGED <<source, fileVars, cursor, page, queue, netVars, incidents>>

\* In the loop, and as a command of its own.
SendNext == process.pc = "imported" /\ Select
SendNow  == process = Idle /\ Select

Event(r) == [id |-> r.id, payload |-> r.payload]

\* An identity may come again only with the payload it had.
Acceptable(batch) == \A r \in batch, e \in journal : e.id = r.id => e.payload = r.payload

Ingested(batch) == journal \cup {Event(r) : r \in batch}

GatewayTakes ==
    /\ process.pc = "send" /\ ~ process.taken /\ Acceptable(process.batch)
    /\ journal' = Ingested(process.batch)
    /\ process' = [process EXCEPT !.taken = TRUE]
    /\ UNCHANGED <<source, fileVars, cursor, page, queue, late, incidents>>

\* Mutant: any answer is an acknowledgement.
ConfirmedByAnything == TRUE

\* The answer names the identities of the batch and counts them.
Confirmed == process.taken

Acknowledge ==
    /\ process.pc = "send" /\ Confirmed
    /\ queue' = Pick(queue, {i \in DOMAIN queue : queue[i].id \notin Ids(process.batch)})
    /\ process' = Idle
    /\ UNCHANGED <<source, fileVars, cursor, page, netVars, incidents>>

\* Mutant: one delivery more than allowed.
StateAfterLate(attempts) == IF attempts > MaxAttempts THEN "failed" ELSE "pending"

StateAfter(attempts) == IF attempts >= MaxAttempts THEN "failed" ELSE "pending"

\* A request that was not answered may be on its way.
GiveUp ==
    late' \in {late} \cup (IF process.taken \/ Cardinality(late) = MaxLate THEN {}
                           ELSE {late \cup {process.batch}})

\* A refusal, a timeout, an answer that was lost or makes no sense.
Unconfirmed ==
    /\ process.pc = "send"
    /\ queue' = [i \in DOMAIN queue |->
          IF queue[i].id \in Ids(process.batch)
          THEN [queue[i] EXCEPT !.attempts = @ + 1, !.state = StateAfter(queue[i].attempts + 1)]
          ELSE queue[i]]
    /\ process' = Idle
    /\ GiveUp
    /\ UNCHANGED <<source, fileVars, cursor, page, journal, incidents>>

LateArrival(batch) ==
    /\ late' = late \ {batch}
    /\ journal' = IF Acceptable(batch) THEN Ingested(batch) ELSE journal
    /\ UNCHANGED <<source, fileVars, cursor, page, queue, process, incidents>>

retry ==
    /\ process = Idle /\ incidents < MaxIncidents
    /\ \E r \in Rows : r.state = "failed"
    /\ queue' = [i \in DOMAIN queue |->
          IF queue[i].state = "failed" THEN [queue[i] EXCEPT !.state = "pending", !.attempts = 0]
          ELSE queue[i]]
    /\ incidents' = incidents + 1
    /\ UNCHANGED <<source, fileVars, cursor, page, process, netVars>>

Stop ==
    /\ process # Idle /\ incidents < MaxIncidents
    /\ process' = Idle
    /\ incidents' = incidents + 1
    /\ IF process.pc = "send" THEN GiveUp ELSE UNCHANGED late
    /\ UNCHANGED <<source, fileVars, cursor, page, queue, journal>>

Next ==
    \/ \E line \in Lines : WriteLine(line)
    \/ Rotate \/ Truncate
    \/ OpenFile \/ ImportLine \/ ImportEnd \/ CommitPage
    \/ SendNext \/ SendNow \/ GatewayTakes \/ Acknowledge \/ Unconfirmed
    \/ \E batch \in late : LateArrival(batch)
    \/ retry \/ Stop

Spec == Init /\ [][Next]_vars

\* A file is collected by the loop, which a supervisor starts again, a native
\* source by a timer that runs acquisition and delivery in turn.  The wait of a
\* row is at most 301 seconds: a send that finds one due is taken in the end.
Fairness ==
    /\ WF_vars(OpenFile) /\ WF_vars(ImportLine) /\ WF_vars(ImportEnd)
    /\ WF_vars(CommitPage)
    /\ WF_vars(SendNext)
    /\ SF_vars(SendNext /\ process'.pc = "send")
    /\ SF_vars(~ IsFile /\ SendNow /\ process'.pc = "send")
    /\ WF_vars(Acknowledge \/ Unconfirmed)

FairSpec == Spec /\ Fairness

-----------------------------------------------------------------------------
(* Properties *)

Accepted(id) == \E e \in journal : e.id = id
InState(id, states) == \E r \in Rows : r.id = id /\ r.state \in states

\* Whatever the cursor has passed is in the spool or at the gateway, through lost
\* answers, late requests and crashes; what was quarantined never gets there.
NothingSkipped ==
    /\ cursor # None => \A n \in 1..cursor.offset : \E line \in Lines :
          LET id == LineId(cursor.inode, n, line)
          IN  Accepted(id) \/ id \in Ids(Rows)
    /\ \A k \in 1..page : \A i \in DOMAIN source[k] :
          Accepted(source[k][i].id) \/ source[k][i].id \in Ids(Rows)
    /\ \A r \in Rows : r.state = "quarantine" => ~ Accepted(r.id)

\* What stops the loop before it sends: a file that was replaced, a line that
\* cannot be read, a spool that is full.
Blocked(inode) ==
    \/ path # inode \/ ~ Continues \/ Len(queue) = MaxRows
    \/ \E n \in DOMAIN content[inode] : Kind[content[inode][n]] = "huge"

LineSettled(inode, n) ==
    \E line \in Lines :
        LET id == LineId(inode, n, line)
        IN  Accepted(id) \/ InState(id, {"quarantine", "failed"})

\* A line that is in the file is delivered, quarantined or parked unless the loop
\* is blocked, and so is a native record once its page was committed.
EventuallySettled ==
    /\ \A inode \in Inodes, n \in 1..MaxLines :
          (IsFile /\ path = inode /\ Len(content[inode]) >= n) ~>
              (LineSettled(inode, n) \/ Blocked(inode) \/ Len(content[inode]) < n)
    /\ \A r \in Records :
          (~ IsFile /\ InState(r.id, {"pending"})) ~> (Accepted(r.id) \/ InState(r.id, {"failed"}))
==============================================================================
