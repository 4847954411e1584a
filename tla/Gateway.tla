------------------------------- MODULE Gateway -------------------------------
(***************************************************************************)
(* The HTTP server of nova/server.py: connections take one of a fixed      *)
(* number of slots and are served by a thread each, which reads the head,  *)
(* authenticates the credential, takes a token from its bucket, reads the  *)
(* body, runs the operation in the engine and replies.  Credentials are    *)
(* loaded when the process starts; clients may leave or stall at any time. *)
(* Tokens are counted in parts: a request costs Cost of them.              *)
(***************************************************************************)
EXTENDS Integers, FiniteSets

CONSTANTS
    Connections,
    Credentials,
    Grant,         \* [Credentials -> tenant, role, sources and expires_at]
    Requests,      \* what clients send: trusted, route, credential, source, body
    Slots,         \* request threads (32)
    Burst, Rate,   \* size of a bucket (200), refill per unit of time (100 per s)
    Cost,          \* of a request (1)
    MaxTime, MaxRestarts,
    None

VARIABLES
    clock,
    file,       \* credentials.json: the credentials that are not revoked
    loaded,     \* what the process read from it, None while it is down
    restarts,
    slots,      \* the semaphore
    buckets,    \* rate_state: tokens and the time they were counted, or None
    conn,       \* what the server knows of each connection
    admitted    \* credential, time -> requests this process admitted before that time

vars == <<clock, file, loaded, restarts, slots, buckets, conn, admitted>>

Times == 0..MaxTime

\* Where numbers of requests are counted: before each time, and at the end.
Ends == 0..(MaxTime + 1)

ReadRoutes == {"/api/search"}
Permissions ==
    [viewer |-> {"read"}, collector |-> {"ingest"}, admin |-> {"read", "ingest", "case", "manage"}]
Routes == {"/healthz", "/api/search", "/api/events", "/api/cases", "/nowhere"}
PermissionOf(route) ==
    CASE route \in ReadRoutes    -> "read"
      [] route = "/api/events" -> "ingest"
      [] route = "/api/cases"  -> "case"
      [] OTHER -> None

States == {"idle", "reading", "checking", "body", "operating", "replying", "closing"}
Idle == [state |-> "idle", request |-> None, who |-> None, answer |-> None, effect |-> None]
Answers == {200, 400, 401, 403, 404, 429, 500}

Roles == {"viewer", "collector", "admin"}

Bucket == [tokens : 0..Burst, at : Times]

Tenants == {Grant[c].tenant : c \in Credentials}

Connection ==
    [state : States, request : Requests \cup {None}, who : Credentials \cup {None},
     answer : Answers \cup {None}, effect : Tenants \cup {None}]

ASSUME GatewayAssumption ==
    /\ IsFiniteSet(Connections)
    /\ {Slots, Burst, Rate, Cost, MaxTime, MaxRestarts} \subseteq Nat
    /\ \A c \in Credentials : Grant[c].role \in Roles /\ Grant[c].tenant # None
    /\ \A r \in Requests : r.route \in Routes /\ r.credential \in Credentials \cup {None}
    /\ None \notin Bucket /\ None \notin Answers

TypeOK ==
    /\ clock \in Times
    /\ file \subseteq Credentials
    /\ loaded = None \/ loaded \subseteq Credentials
    /\ restarts \in 0..MaxRestarts
    /\ slots \in 0..Slots
    /\ buckets \in [Credentials -> Bucket \cup {None}]
    /\ \A c \in Credentials : buckets[c] # None => buckets[c].at <= clock
    /\ conn \in [Connections -> Connection]
    /\ admitted \in [Credentials -> [Ends -> Nat]]

NoneAdmitted == [c \in Credentials |-> [t \in Ends |-> 0]]
Disconnected == [n \in Connections |-> Idle]

Init ==
    /\ clock = 0
    /\ file = Credentials
    /\ loaded = Credentials
    /\ restarts = 0
    /\ slots = Slots
    /\ buckets = [c \in Credentials |-> None]
    /\ conn = Disconnected
    /\ admitted = NoneAdmitted

Serving(n) == conn[n].state # "idle"

Put(n, r) == conn' = [conn EXCEPT ![n] = r]
Answer(n, status) == Put(n, [conn[n] EXCEPT !.state = "replying", !.answer = status])

-----------------------------------------------------------------------------
(* The accepting thread *)

\* Mutant: a thread that cannot start keeps its slot.
SlotsAfterKept(started) == slots - 1

\* Slots left when a connection has taken one and its thread starts or cannot.
SlotsAfter(started) == IF started THEN slots - 1 ELSE slots

\* Without a free slot the client gets 503 from the accepting thread and nothing else
\* happens; a thread that cannot start closes the connection.
process_request(n) ==
    /\ loaded # None
    /\ ~ Serving(n)
    /\ slots > 0
    /\ \E started \in BOOLEAN :
          /\ slots' = SlotsAfter(started)
          /\ Put(n, IF started THEN [Idle EXCEPT !.state = "reading"] ELSE Idle)
    /\ UNCHANGED <<clock, file, loaded, restarts, buckets, admitted>>

-----------------------------------------------------------------------------
(* The thread of a connection *)

Close(n) == Put(n, [Idle EXCEPT !.state = "closing"])

\* Mutant: the socket has a timeout while the head is read only.
WaitsForHead(n) == conn[n].state = "reading"

WaitsForClient(n) == conn[n].state \in {"reading", "body"}

\* The client is silent for the ten seconds of the socket, or has left.
stall(n) ==
    /\ WaitsForClient(n)
    /\ Close(n)
    /\ UNCHANGED <<clock, file, loaded, restarts, slots, buckets, admitted>>

\* The head has arrived: host and origin, public routes, unknown routes.
dispatch(n, r) ==
    /\ conn[n].state = "reading"
    /\ LET to(state, status) ==
               Put(n, [conn[n] EXCEPT !.request = r, !.state = state, !.answer = status])
       IN  IF ~ r.trusted THEN to("replying", 403)
           ELSE IF r.route = "/healthz" THEN to("replying", 200)
           ELSE IF PermissionOf(r.route) = None THEN to("replying", 404)
           ELSE to("checking", None)
    /\ UNCHANGED <<clock, file, loaded, restarts, slots, buckets, admitted>>

\* Mutant: what a bucket gathers is not bounded by its size.
RefilledForever(c) ==
    IF buckets[c] = None THEN Burst ELSE buckets[c].tokens + (clock - buckets[c].at) * Rate

Refilled(c) ==
    IF buckets[c] = None THEN Burst
    ELSE LET tokens == buckets[c].tokens + (clock - buckets[c].at) * Rate
         IN  IF tokens > Burst THEN Burst ELSE tokens

Current(c) == c \in loaded /\ clock < Grant[c].expires_at

\* One more request of the credential at this time.
Counted(c) ==
    [admitted EXCEPT ![c] = [t \in Ends |-> IF t > clock THEN @[t] + 1 ELSE @[t]]]

\* The credential is judged, and its bucket read and written under the lock. A
\* refusal leaves the bucket as it was.
authenticate(n) ==
    LET r == conn[n].request
        c == r.credential
    IN  /\ conn[n].state = "checking"
        /\ IF c = None \/ ~ Current(c)
           THEN Answer(n, 401) /\ UNCHANGED <<buckets, admitted>>
           ELSE IF PermissionOf(r.route) \notin Permissions[Grant[c].role]
           THEN Answer(n, 403) /\ UNCHANGED <<buckets, admitted>>
           ELSE IF Refilled(c) < Cost
           THEN Answer(n, 429) /\ UNCHANGED <<buckets, admitted>>
           ELSE /\ buckets' = [buckets EXCEPT ![c] = [tokens |-> Refilled(c) - Cost, at |-> clock]]
                /\ admitted' = Counted(c)
                /\ Put(n, [conn[n] EXCEPT !.who = c,
                              !.state = IF r.route \in ReadRoutes THEN "operating" ELSE "body"])
        /\ UNCHANGED <<clock, file, loaded, restarts, slots>>

\* The body has arrived; an event batch may only name a source of the credential.
body(n) ==
    LET r == conn[n].request
    IN  /\ conn[n].state = "body"
        /\ IF ~ r.body THEN Answer(n, 400)
           ELSE IF r.route = "/api/events" /\ r.source \notin Grant[conn[n].who].sources
           THEN Answer(n, 403)
           ELSE Put(n, [conn[n] EXCEPT !.state = "operating"])
        /\ UNCHANGED <<clock, file, loaded, restarts, slots, buckets, admitted>>

\* The engine commits, refuses the request or fails: a transaction, all or nothing.
operate(n) ==
    /\ conn[n].state = "operating"
    /\ \E status \in {200, 400, 500} :
          Put(n, [conn[n] EXCEPT
                    !.state = "replying", !.answer = status,
                    !.effect = IF status = 200 /\ conn[n].request.route \notin ReadRoutes
                               THEN Grant[conn[n].who].tenant ELSE None])
    /\ UNCHANGED <<clock, file, loaded, restarts, slots, buckets, admitted>>

\* Whether or not the reply reaches the client, the connection is closed.
reply(n) ==
    /\ conn[n].state = "replying"
    /\ Close(n)
    /\ UNCHANGED <<clock, file, loaded, restarts, slots, buckets, admitted>>

process_request_thread(n) ==
    /\ conn[n].state = "closing"
    /\ slots' = slots + 1
    /\ Put(n, Idle)
    /\ UNCHANGED <<clock, file, loaded, restarts, buckets, admitted>>

\* What the thread does by itself, and what a client that goes on sending has it do.
Serve(n) == stall(n) \/ authenticate(n) \/ operate(n) \/ reply(n) \/ process_request_thread(n)
Receive(n) == body(n) \/ \E r \in Requests : dispatch(n, r)

-----------------------------------------------------------------------------
(* Clients, operators and the process *)

Revoke(c) ==
    /\ c \in file
    /\ file' = file \ {c}
    /\ UNCHANGED <<clock, loaded, restarts, slots, buckets, conn, admitted>>

\* Threads are daemons: they end with the process, whatever they were doing.
Stop ==
    /\ loaded # None /\ restarts < MaxRestarts
    /\ loaded' = None
    /\ restarts' = restarts + 1
    /\ conn' = Disconnected
    /\ slots' = Slots
    /\ buckets' = [c \in Credentials |-> None]
    /\ admitted' = NoneAdmitted
    /\ UNCHANGED <<clock, file>>

\* A new process has free slots, full buckets and the file as it is now.
Start ==
    /\ loaded = None
    /\ loaded' = file
    /\ UNCHANGED <<clock, file, restarts, slots, buckets, conn, admitted>>

Tick ==
    /\ clock < MaxTime
    /\ clock' = clock + 1
    /\ UNCHANGED <<file, loaded, restarts, slots, buckets, conn, admitted>>

Next ==
    \/ \E n \in Connections :
          process_request(n) \/ Serve(n) \/ Receive(n)
    \/ \E c \in Credentials : Revoke(c)
    \/ Stop \/ Start \/ Tick

Spec == Init /\ [][Next]_vars

\* Each thread is scheduled, and a read or write that gets nowhere ends after ten
\* seconds.  No client has to send anything.
Fairness == \A n \in Connections : WF_vars(Serve(n))

FairSpec == Spec /\ Fairness

-----------------------------------------------------------------------------
(* Properties *)

\* Slots, buckets and answers stay true to what happened, whichever threads overlap,
\* clients leave or threads fail to start: every slot is free or held by a thread; in
\* any stretch of time a credential gets a full bucket of requests and what refills
\* in that time at most; an effect is that of the credential that was admitted, in
\* its tenant and in its role; and a write is answered with 200 exactly when it has
\* had its effect.
AdmissionIsExact ==
    /\ TypeOK
    /\ slots + Cardinality({n \in Connections : Serving(n)}) = Slots
    /\ \A c \in Credentials : \A s \in Times : \A t \in s..MaxTime :
          Cost * (admitted[c][t + 1] - admitted[c][s]) <= Burst + Rate * (t - s)
    /\ \A n \in Connections :
          /\ conn[n].effect # None =>
                /\ conn[n].who = conn[n].request.credential
                /\ conn[n].effect = Grant[conn[n].who].tenant
                /\ PermissionOf(conn[n].request.route) \in Permissions[Grant[conn[n].who].role]
          /\ conn[n].answer # None /\ conn[n].request.route \in {"/api/events", "/api/cases"} =>
                (conn[n].answer = 200 <=> conn[n].effect # None)

\* Every connection that was given a slot ends and gives it back, whatever its client
\* does.
EventuallyAnswered == \A n \in Connections : Serving(n) ~> ~ Serving(n)
==============================================================================
