---------------------------- MODULE Gateway_proofs ----------------------------
(***************************************************************************)
(* Theorems about the HTTP server for any number of connections, slots and *)
(* credentials, any size and rate of the buckets and any requests.  A      *)
(* thread holds its slot from its start until it gives it back.  A bucket  *)
(* stands for the requests that led to it: what it holds and what was      *)
(* taken from it since any moment is no more than a full bucket and what   *)
(* refilled since.                                                         *)
(***************************************************************************)
EXTENDS Gateway, TLAPS, FiniteSetTheorems

Busy == {n \in Connections : Serving(n)}

Slotted == slots + Cardinality(Busy) = Slots

\* The request was judged, and its credential may have what it asks.
Admitted(x) ==
    /\ x.who \in Credentials /\ x.who = x.request.credential
    /\ PermissionOf(x.request.route) \in Permissions[Grant[x.who].role]

\* What is known of a connection at each stage of its way.
Stage(x) ==
    /\ x.state \in {"idle", "reading", "closing"} =>
          x.request = None /\ x.who = None /\ x.answer = None /\ x.effect = None
    /\ x.state \in {"checking", "body", "operating", "replying"} => x.request \in Requests
    /\ x.state = "checking" => x.who = None /\ x.answer = None /\ x.effect = None
    /\ x.state \in {"body", "operating"} => Admitted(x) /\ x.answer = None /\ x.effect = None
    /\ x.state = "replying" =>
          /\ x.effect # None => Admitted(x) /\ x.effect = Grant[x.who].tenant
          /\ x.request.route \in {"/api/events", "/api/cases"} => (x.answer = 200 <=> x.effect # None)

Honest == \A n \in Connections : Stage(conn[n])

\* Requests of a credential from the time "s" until the end.
Since(c, s) == admitted[c][MaxTime + 1] - admitted[c][s]

\* A bucket that was never read stands for no request.  Since a bucket was counted
\* nothing was admitted, and before that not more than it was given.
Metered(c) ==
    IF buckets[c] = None THEN \A t \in Ends : admitted[c][t] = 0
    ELSE /\ \A t \in Ends : t > buckets[c].at => Since(c, t) = 0
         /\ \A s \in Times : s <= buckets[c].at =>
               Cost * Since(c, s) + buckets[c].tokens <= Burst + Rate * (buckets[c].at - s)

\* No stretch of time has more requests than a bucket and its refill allow.
Bounded(c) ==
    \A s, t \in Times : s <= t =>
        Cost * (admitted[c][t + 1] - admitted[c][s]) <= Burst + Rate * (t - s)

Limited == \A c \in Credentials : Metered(c) /\ Bounded(c)

IInv == TypeOK /\ Slotted /\ Honest /\ Limited

-----------------------------------------------------------------------------
(* Numbers *)

\* The bounds are numbers.
LEMMA Bounds ==
    /\ Slots \in Nat /\ Burst \in Nat /\ Rate \in Nat /\ Cost \in Nat
    /\ MaxTime \in Nat /\ MaxRestarts \in Nat
BY GatewayAssumption

\* Multiplication distributes over a sum and respects the order.
LEMMA Distributes ==
    ASSUME NEW r \in Nat, NEW x \in Int, NEW y \in Int
    PROVE  r * (x + y) = r * x + r * y
OBVIOUS

LEMMA Grows ==
    ASSUME NEW r \in Nat, NEW x \in Int, NEW y \in Int, x <= y
    PROVE  r * x <= r * y
<1>1. y - x \in Nat /\ r * (y - x) \in Nat
  OBVIOUS
<1>2. r * x + r * (y - x) = r * (x + (y - x))
  BY <1>1, Distributes
<1>3. x + (y - x) = y /\ r * x \in Int /\ r * y \in Int
  OBVIOUS
<1>4. QED
  BY <1>1, <1>2, <1>3

-----------------------------------------------------------------------------
(* Connections *)

\* The counters that depend on connections only.
LEMMA PutKeeps ==
    ASSUME IInv, NEW n \in Connections, NEW x \in Connection, Put(n, x), Stage(x)
    PROVE  /\ conn' \in [Connections -> Connection] /\ Honest'
           /\ (x.state # "idle" <=> Serving(n)) => Busy' = Busy
           /\ x.state # "idle" => Busy' = Busy \cup {n}
           /\ x.state = "idle" => Busy' = Busy \ {n}
<1>1. conn \in [Connections -> Connection] /\ Honest
  BY DEF IInv, TypeOK
<1>2. /\ conn' \in [Connections -> Connection] /\ conn'[n] = x
      /\ \A k \in Connections : k # n => conn'[k] = conn[k]
  BY <1>1 DEF Put
<1>3. Honest'
  BY <1>1, <1>2 DEF Honest
<1>4. QED
  BY <1>2, <1>3 DEF Busy, Serving

\* A step that moves a connection on, without its slot and its bucket.
LEMMA MoveKeeps ==
    ASSUME IInv, NEW n \in Connections, Serving(n), NEW x \in Connection, Put(n, x), Stage(x),
           x.state # "idle",
           UNCHANGED <<clock, file, loaded, restarts, slots, buckets, admitted>>
    PROVE  IInv'
<1>1. conn' \in [Connections -> Connection] /\ Honest' /\ Busy' = Busy
  BY PutKeeps
<1>2. TypeOK'
  BY <1>1 DEF IInv, TypeOK
<1>3. Slotted'
  BY <1>1 DEF IInv, Slotted
<1>4. Limited'
  BY DEF IInv, Limited, Metered, Bounded, Since
<1>5. QED
  BY <1>1, <1>2, <1>3, <1>4 DEF IInv

\* The threads that run are as many as slots are taken.
LEMMA BusyFinite ==
    ASSUME IInv
    PROVE  IsFiniteSet(Busy) /\ Cardinality(Busy) \in Nat
<1>1. IsFiniteSet(Connections) /\ Busy \in SUBSET Connections
  BY GatewayAssumption DEF Busy
<1>2. IsFiniteSet(Busy)
  BY <1>1, FS_Subset
<1>3. QED
  BY <1>2, FS_CardinalityType

\* A connection takes a slot, or none if its thread does not start.
LEMMA RequestKeeps ==
    ASSUME IInv, NEW n \in Connections, process_request(n)
    PROVE  IInv'
<1> DEFINE x(started) == IF started THEN [Idle EXCEPT !.state = "reading"] ELSE Idle
<1>1. PICK started \in BOOLEAN :
         /\ slots' = SlotsAfter(started) /\ Put(n, x(started))
         /\ ~ Serving(n) /\ slots > 0
         /\ UNCHANGED <<clock, file, loaded, restarts, buckets, admitted>>
  BY DEF process_request
<1> DEFINE y == x(started)
<1>2. /\ y \in Connection /\ y.state = IF started THEN "reading" ELSE "idle"
      /\ y.request = None /\ y.who = None /\ y.answer = None /\ y.effect = None
  BY DEF Connection, Idle, States
<1>3. Put(n, y)
  BY <1>1
<1> HIDE DEF y
<1>4. Stage(y)
  BY <1>2 DEF Stage
<1>5. /\ conn' \in [Connections -> Connection] /\ Honest'
      /\ Busy' = IF started THEN Busy \cup {n} ELSE Busy
      /\ n \notin Busy
  BY <1>1, <1>2, <1>3, <1>4, PutKeeps DEF Busy
<1>6. IsFiniteSet(Busy) /\ Cardinality(Busy) \in Nat /\ slots \in 0..Slots /\ Slots \in Nat
  BY BusyFinite, Bounds DEF IInv, TypeOK
<1>7. Cardinality(Busy') = IF started THEN Cardinality(Busy) + 1 ELSE Cardinality(Busy)
  BY <1>5, <1>6, FS_AddElement
<1>8. slots' = (IF started THEN slots - 1 ELSE slots) /\ slots > 0
  BY <1>1 DEF SlotsAfter
<1>9. Slotted' /\ slots' \in 0..Slots
  BY <1>6, <1>7, <1>8 DEF IInv, Slotted
<1>10. TypeOK'
  BY <1>1, <1>5, <1>9 DEF IInv, TypeOK
<1>11. Limited'
  BY <1>1 DEF IInv, Limited, Metered, Bounded, Since
<1>12. QED
  BY <1>5, <1>9, <1>10, <1>11 DEF IInv

\* A thread that ends gives its slot back.
LEMMA ReleaseKeeps ==
    ASSUME IInv, NEW n \in Connections, process_request_thread(n)
    PROVE  IInv'
<1>1. /\ Serving(n) /\ slots' = slots + 1 /\ Put(n, Idle)
      /\ UNCHANGED <<clock, file, loaded, restarts, buckets, admitted>>
  BY DEF process_request_thread, Serving
<1>2. Idle \in Connection /\ Stage(Idle) /\ Idle.state = "idle"
  BY DEF Connection, Idle, States, Stage
<1>3. /\ conn' \in [Connections -> Connection] /\ Honest'
      /\ Busy' = Busy \ {n} /\ n \in Busy
  BY <1>1, <1>2, PutKeeps DEF Busy
<1>4. IsFiniteSet(Busy) /\ Cardinality(Busy) \in Nat /\ slots \in 0..Slots /\ Slots \in Nat
  BY BusyFinite, Bounds DEF IInv, TypeOK
<1>5. Cardinality(Busy') = Cardinality(Busy) - 1 /\ IsFiniteSet(Busy')
  BY <1>3, <1>4, FS_RemoveElement
<1>6. Cardinality(Busy') \in Nat
  BY <1>5, FS_CardinalityType
<1>7. Slotted' /\ slots' \in 0..Slots
  BY <1>1, <1>4, <1>5, <1>6 DEF IInv, Slotted
<1>8. TypeOK'
  BY <1>1, <1>3, <1>7 DEF IInv, TypeOK
<1>9. Limited'
  BY <1>1 DEF IInv, Limited, Metered, Bounded, Since
<1>10. QED
  BY <1>3, <1>7, <1>8, <1>9 DEF IInv

\* The fields of a connection.
LEMMA ConnectionHas ==
    ASSUME IInv, NEW n \in Connections
    PROVE  /\ conn[n] \in Connection /\ Stage(conn[n])
           /\ conn[n].state \in States /\ conn[n].request \in Requests \cup {None}
           /\ conn[n].who \in Credentials \cup {None} /\ conn[n].answer \in Answers \cup {None}
           /\ conn[n].effect \in Tenants \cup {None}
<1>1. conn[n] \in Connection /\ Stage(conn[n])
  BY DEF IInv, TypeOK, Honest
<1>2. QED
  BY <1>1 DEF Connection

\* The client is gone: the thread closes.
LEMMA CloseKeeps ==
    ASSUME IInv, NEW n \in Connections, Serving(n), Close(n),
           UNCHANGED <<clock, file, loaded, restarts, slots, buckets, admitted>>
    PROVE  IInv'
<1> DEFINE x == [Idle EXCEPT !.state = "closing"]
<1>1. /\ x \in Connection /\ x.state = "closing"
      /\ x.request = None /\ x.who = None /\ x.answer = None /\ x.effect = None
  BY DEF Connection, Idle, States
<1>2. Put(n, x)
  BY DEF Close
<1> HIDE DEF x
<1>3. Stage(x)
  BY <1>1 DEF Stage
<1>4. QED
  BY <1>1, <1>2, <1>3, MoveKeeps

\* What a refusal or an answer makes of a connection without an effect.
LEMMA AnswerKeeps ==
    ASSUME IInv, NEW n \in Connections, conn[n].state \in {"checking", "body"},
           NEW status \in Answers \ {200}, Answer(n, status),
           UNCHANGED <<clock, file, loaded, restarts, slots, buckets, admitted>>
    PROVE  IInv'
<1> DEFINE c == conn[n]
           x == [c EXCEPT !.state = "replying", !.answer = status]
<1>1. /\ c \in Connection /\ Stage(c) /\ c.request \in Requests /\ c.effect = None
      /\ status # 200 /\ status # None
  BY ConnectionHas, GatewayAssumption DEF Stage
<1>2. Put(n, x) /\ Serving(n)
  BY DEF Answer, Serving
<1> HIDE DEF c
<1>3. /\ x \in Connection /\ x.state = "replying" /\ x.request = c.request
      /\ x.answer = status /\ x.effect = None
  BY <1>1 DEF Connection, States
<1> HIDE DEF x
<1>4. Stage(x)
  BY <1>1, <1>3 DEF Stage
<1>5. QED
  BY <1>2, <1>3, <1>4, MoveKeeps

\* The head of a request is judged by its route.
LEMMA DispatchKeeps ==
    ASSUME IInv, NEW n \in Connections, NEW r \in Requests, dispatch(n, r)
    PROVE  IInv'
<1> DEFINE c == conn[n]
           x(state, status) == [c EXCEPT !.request = r, !.state = state, !.answer = status]
           to(state, status) == Put(n, x(state, status))
<1>1. /\ c \in Connection /\ c.state = "reading"
      /\ c.who = None /\ c.answer = None /\ c.effect = None
  BY ConnectionHas DEF dispatch, Stage
<1>2. /\ Serving(n)
      /\ UNCHANGED <<clock, file, loaded, restarts, slots, buckets, admitted>>
      /\ \/ to("replying", 403) \/ to("replying", 404) \/ to("checking", None)
         \/ r.route = "/healthz" /\ to("replying", 200)
  BY <1>1 DEF dispatch, Serving
<1>3. ASSUME NEW state \in States, NEW status \in Answers \cup {None}, to(state, status),
             \/ state = "replying" /\ status # 200
             \/ state = "replying" /\ r.route = "/healthz"
             \/ state = "checking" /\ status = None
      PROVE  IInv'
  <2> DEFINE y == x(state, status)
  <2> HIDE DEF c
  <2>1. /\ y \in Connection /\ y.state = state /\ y.request = r /\ y.answer = status
        /\ y.who = None /\ y.effect = None
    BY <1>1 DEF Connection
  <2>2. Put(n, y)
    BY <1>3
  <2> HIDE DEF y
  <2>3. Stage(y) /\ y.state # "idle"
    BY <1>3, <2>1 DEF Stage
  <2>4. QED
    BY <1>2, <2>1, <2>2, <2>3, MoveKeeps
<1>4. "replying" \in States /\ "checking" \in States /\ {200, 403, 404} \subseteq Answers
  BY DEF States, Answers
<1> HIDE DEF c, x, to
<1>5. QED
  BY <1>2, <1>3, <1>4

\* The body arrives.
LEMMA BodyKeeps ==
    ASSUME IInv, NEW n \in Connections, body(n)
    PROVE  IInv'
<1> DEFINE c == conn[n]
           x == [c EXCEPT !.state = "operating"]
<1>1. /\ c \in Connection /\ Stage(c) /\ c.state = "body"
      /\ UNCHANGED <<clock, file, loaded, restarts, slots, buckets, admitted>>
      /\ Answer(n, 400) \/ Answer(n, 403) \/ Put(n, x)
  BY ConnectionHas DEF body
<1>2. CASE Answer(n, 400) \/ Answer(n, 403)
  BY <1>1, <1>2, AnswerKeeps DEF Answers
<1>3. CASE Put(n, x)
  <2>1. Serving(n)
    BY <1>1 DEF Serving
  <2> HIDE DEF c
  <2>2. /\ x \in Connection /\ x.state = "operating" /\ x.request = c.request
        /\ x.who = c.who /\ x.answer = c.answer /\ x.effect = c.effect
    BY <1>1 DEF Connection, States
  <2> HIDE DEF x
  <2>3. Stage(x)
    BY <1>1, <2>2 DEF Stage, Admitted
  <2>4. QED
    BY <1>1, <1>3, <2>1, <2>2, <2>3, MoveKeeps
<1>4. QED
  BY <1>1, <1>2, <1>3

\* The engine decides.
LEMMA OperateKeeps ==
    ASSUME IInv, NEW n \in Connections, operate(n)
    PROVE  IInv'
<1> DEFINE c == conn[n]
           writes(status) == status = 200 /\ c.request.route \notin ReadRoutes
           tenant == Grant[c.who].tenant
           x(status) == [c EXCEPT !.state = "replying", !.answer = status,
                                  !.effect = IF writes(status) THEN tenant ELSE None]
<1>1. PICK status \in Answers : Put(n, x(status))
  <2>1. \E status \in {200, 400, 500} : Put(n, x(status))
    BY DEF operate
  <2>2. {200, 400, 500} \subseteq Answers
    BY DEF Answers
  <2> HIDE DEF x
  <2>3. QED
    BY <2>1, <2>2
<1>2. /\ c \in Connection /\ Stage(c) /\ c.state = "operating" /\ Serving(n)
      /\ UNCHANGED <<clock, file, loaded, restarts, slots, buckets, admitted>>
  BY ConnectionHas DEF operate, Serving
<1>3. /\ c.request \in Requests /\ Admitted(c) /\ c.who \in Credentials
  BY <1>2 DEF Stage, Admitted
<1>4. tenant # None /\ tenant \in Tenants
  BY <1>3, GatewayAssumption DEF Tenants
<1> DEFINE effect == IF writes(status) THEN tenant ELSE None
           y == [c EXCEPT !.state = "replying", !.answer = status, !.effect = effect]
<1>5. Put(n, y)
  BY <1>1
<1>6. effect \in Tenants \cup {None}
  BY <1>4
<1> HIDE DEF c, tenant, effect
<1>7. /\ y \in Connection /\ y.state = "replying" /\ y.request = c.request /\ y.who = c.who
      /\ y.answer = status /\ y.effect = effect
  BY <1>2, <1>6 DEF Connection, States
<1> HIDE DEF y
<1>8. effect = IF writes(status) THEN tenant ELSE None
  BY DEF effect
<1>9. Admitted(y)
  BY <1>3, <1>7 DEF Admitted
<1>10. y.effect # None => y.effect = Grant[y.who].tenant
  BY <1>7, <1>8 DEF tenant
<1>11. c.request.route \in {"/api/events", "/api/cases"} => (y.answer = 200 <=> y.effect # None)
  BY <1>4, <1>7, <1>8 DEF ReadRoutes
<1>12. Stage(y)
  BY <1>3, <1>7, <1>9, <1>10, <1>11 DEF Stage
<1>13. QED
  BY <1>2, <1>5, <1>7, <1>12, MoveKeeps


-----------------------------------------------------------------------------
(* Buckets *)

\* What a bucket holds now is what it held, and a full bucket or what refilled.
LEMMA RefilledIs ==
    ASSUME IInv, NEW c \in Credentials
    PROVE  /\ Refilled(c) \in 0..Burst
           /\ buckets[c] = None => Refilled(c) = Burst
           /\ buckets[c] # None =>
                 /\ buckets[c].at \in Nat /\ buckets[c].at <= clock /\ buckets[c].tokens \in Nat
                 /\ Refilled(c) <= buckets[c].tokens + Rate * (clock - buckets[c].at)
<1>1. buckets[c] \in Bucket \cup {None} /\ clock \in Nat
  BY Bounds DEF IInv, TypeOK, Times
<1>2. CASE buckets[c] = None
  BY <1>2, Bounds DEF Refilled
<1>3. CASE buckets[c] # None
  <2> DEFINE at == buckets[c].at
             tokens == buckets[c].tokens
             gained == (clock - at) * Rate
  <2>1. at \in Nat /\ tokens \in 0..Burst /\ at <= clock
    BY <1>1, <1>3, Bounds DEF Bucket, IInv, TypeOK, Times
  <2>2. clock - at \in Nat
    BY <1>1, <2>1
  <2>3. gained \in Nat /\ gained = Rate * (clock - at)
    <3> DEFINE passed == clock - at
    <3>1. passed \in Nat /\ Rate \in Nat
      BY <2>2, Bounds
    <3> HIDE DEF passed
    <3>2. passed * Rate \in Nat /\ passed * Rate = Rate * passed
      BY <3>1
    <3>3. QED
      BY <3>2 DEF passed
  <2>4. Refilled(c) = IF tokens + gained > Burst THEN Burst ELSE tokens + gained
    BY <1>3 DEF Refilled
  <2> HIDE DEF gained
  <2>5. QED
    BY <1>3, <2>1, <2>3, <2>4, Bounds
<1>4. QED
  BY <1>2, <1>3

\* What was admitted since any moment and what the bucket holds now: the inequality
\* that a step has to keep.
LEMMA MeteredNow ==
    ASSUME IInv, NEW c \in Credentials
    PROVE  /\ \A t \in Ends : t > clock => Since(c, t) = 0
           /\ \A s \in Times : s <= clock =>
                 Cost * Since(c, s) + Refilled(c) <= Burst + Rate * (clock - s)
<1>1. /\ Metered(c) /\ clock \in Times /\ clock \in Nat /\ MaxTime + 1 \in Ends
      /\ \A t \in Ends : admitted[c][t] \in Nat
      /\ Times \subseteq Ends /\ Times \subseteq Nat
  BY Bounds DEF IInv, TypeOK, Limited, Times, Ends
<1>2. \A t \in Ends : Since(c, t) \in Int
  BY <1>1 DEF Since
<1>3. CASE buckets[c] = None
  <2>1. \A t \in Ends : Since(c, t) = 0
    <3>1. \A t \in Ends : admitted[c][t] = 0
      BY <1>1, <1>3 DEF Metered
    <3>2. admitted[c][MaxTime + 1] = 0
      BY <1>1, <3>1
    <3>3. QED
      BY <3>1, <3>2 DEF Since
  <2>2. Refilled(c) = Burst
    BY <1>3, RefilledIs
  <2>3. ASSUME NEW s \in Times, s <= clock
        PROVE  Cost * Since(c, s) + Refilled(c) <= Burst + Rate * (clock - s)
    <3>1. Since(c, s) = 0 /\ clock - s \in Nat
      BY <1>1, <2>1, <2>3
    <3>2. Cost * 0 = 0 /\ Rate * (clock - s) \in Nat
      BY <3>1, Bounds
    <3>3. QED
      BY <2>2, <3>1, <3>2, Bounds
  <2>4. QED
    BY <2>1, <2>3
<1>4. CASE buckets[c] # None
  <2> DEFINE at == buckets[c].at
             tokens == buckets[c].tokens
  <2>1. /\ at \in Nat /\ at <= clock /\ tokens \in Nat
        /\ Refilled(c) \in 0..Burst /\ Refilled(c) <= tokens + Rate * (clock - at)
    BY <1>4, RefilledIs
  <2>2. /\ \A t \in Ends : t > at => Since(c, t) = 0
        /\ \A s \in Times : s <= at => Cost * Since(c, s) + tokens <= Burst + Rate * (at - s)
    BY <1>1, <1>4 DEF Metered
  <2> HIDE DEF at, tokens
  <2>3. \A t \in Ends : t > clock => Since(c, t) = 0
    BY <1>1, <2>1, <2>2 DEF Ends
  <2>4. ASSUME NEW s \in Times, s <= clock
        PROVE  Cost * Since(c, s) + Refilled(c) <= Burst + Rate * (clock - s)
    <3>1. s \in Nat /\ s \in Ends /\ Cost \in Nat /\ Rate \in Nat /\ Burst \in Nat
      BY <1>1, Bounds
    <3>2. CASE s > at
      <4>1. Since(c, s) = 0 /\ Cost * 0 = 0
        BY <2>2, <3>1, <3>2
      <4>2. clock - s \in Nat /\ Rate * (clock - s) \in Nat
        BY <1>1, <2>4, <3>1
      <4>3. QED
        BY <2>1, <3>1, <4>1, <4>2
    <3>3. CASE s <= at
      <4>1. Cost * Since(c, s) + tokens <= Burst + Rate * (at - s)
        BY <2>2, <3>3
      <4>2. Rate * ((at - s) + (clock - at)) = Rate * (at - s) + Rate * (clock - at)
        BY <1>1, <2>1, <3>1, Distributes
      <4>3. (at - s) + (clock - at) = clock - s
        BY <1>1, <2>1, <3>1
      <4>4. /\ Cost * Since(c, s) \in Int
            /\ Rate * (at - s) \in Int /\ Rate * (clock - at) \in Int /\ Rate * (clock - s) \in Int
        BY <1>1, <1>2, <2>1, <3>1
      <4>5. QED
        BY <2>1, <3>1, <4>1, <4>2, <4>3, <4>4
    <3>4. QED
      BY <1>1, <2>1, <3>1, <3>2, <3>3
  <2>5. QED
    BY <2>3, <2>4
<1>5. QED
  BY <1>3, <1>4


\* A request that is admitted is paid for.
LEMMA AdmitKeeps ==
    ASSUME IInv, NEW n \in Connections, authenticate(n),
           NEW c \in Credentials, c = conn[n].request.credential,
           Cost <= Refilled(c),
           PermissionOf(conn[n].request.route) \in Permissions[Grant[c].role],
           buckets' = [buckets EXCEPT ![c] = [tokens |-> Refilled(c) - Cost, at |-> clock]],
           admitted' = Counted(c),
           NEW state \in {"operating", "body"},
           Put(n, [conn[n] EXCEPT !.who = c, !.state = state])
    PROVE  IInv'
<1> DEFINE new == [tokens |-> Refilled(c) - Cost, at |-> clock]
<1>1. /\ TypeOK /\ clock \in Times /\ clock \in Nat /\ MaxTime + 1 \in Ends
      /\ Times \subseteq Ends /\ Times \subseteq Nat /\ Ends \subseteq Nat
      /\ \A k \in Credentials, t \in Ends : admitted[k][t] \in Nat
      /\ \A t \in Times : t + 1 \in Ends /\ t < MaxTime + 1
  BY Bounds DEF IInv, TypeOK, Times, Ends
<1>2. /\ Refilled(c) \in 0..Burst /\ Refilled(c) \in Nat /\ Cost \in Nat /\ Burst \in Nat /\ Rate \in Nat
      /\ Refilled(c) - Cost \in 0..Burst
  BY RefilledIs, Bounds
<1>3. new \in Bucket /\ new # None
  BY <1>1, <1>2, GatewayAssumption DEF Bucket
<1>4. new.tokens = Refilled(c) - Cost /\ new.at = clock
  OBVIOUS
<1>5. buckets' = [buckets EXCEPT ![c] = new] /\ buckets \in [Credentials -> Bucket \cup {None}]
  BY <1>1 DEF TypeOK
<1> HIDE DEF new
<1>6. /\ buckets' \in [Credentials -> Bucket \cup {None}] /\ buckets'[c] = new
      /\ \A k \in Credentials : k # c => buckets'[k] = buckets[k]
  BY <1>3, <1>5
<1>7. /\ admitted' \in [Credentials -> [Ends -> Nat]]
      /\ \A k \in Credentials : k # c => admitted'[k] = admitted[k]
      /\ \A t \in Ends : admitted'[c][t] = IF t > clock THEN admitted[c][t] + 1 ELSE admitted[c][t]
  <2> DEFINE row == [t \in Ends |-> IF t > clock THEN admitted[c][t] + 1 ELSE admitted[c][t]]
  <2>1. row \in [Ends -> Nat]
    <3>1. \A t \in Ends : admitted[c][t] \in Nat
      BY <1>1
    <3>2. QED
      BY <3>1
  <2>2. admitted' = [admitted EXCEPT ![c] = row]
    BY DEF Counted
  <2>3. \A t \in Ends : row[t] = IF t > clock THEN admitted[c][t] + 1 ELSE admitted[c][t]
    OBVIOUS
  <2>4. admitted \in [Credentials -> [Ends -> Nat]]
    BY <1>1 DEF TypeOK
  <2> HIDE DEF row
  <2>5. QED
    BY <2>1, <2>2, <2>3, <2>4
<1>8. \A t \in Ends : admitted'[c][t] \in Nat
  BY <1>7
<1>9. \A t \in Ends : t <= clock => admitted'[c][t] = admitted[c][t]
  <2> SUFFICES ASSUME NEW t \in Ends, t <= clock PROVE admitted'[c][t] = admitted[c][t]
    OBVIOUS
  <2>1. clock \in Nat /\ t \in Nat
    BY <1>1
  <2>2. ~ (t > clock)
    BY <2>1
  <2>3. admitted'[c][t] = IF t > clock THEN admitted[c][t] + 1 ELSE admitted[c][t]
    BY <1>7
  <2>4. QED
    BY <2>2, <2>3
<1>10. UNCHANGED <<clock, file, loaded, restarts, slots>>
  BY DEF authenticate
<1>11. /\ conn' \in [Connections -> Connection] /\ Honest' /\ Busy' = Busy
  <2> DEFINE old == conn[n]
             x == [old EXCEPT !.who = c, !.state = state]
  <2>1. /\ old \in Connection /\ Stage(old) /\ old.state = "checking" /\ Serving(n)
        /\ c = old.request.credential
        /\ PermissionOf(old.request.route) \in Permissions[Grant[c].role]
    BY ConnectionHas DEF authenticate, Serving
  <2>2. Put(n, x)
    OBVIOUS
  <2> HIDE DEF old
  <2>3. /\ x \in Connection /\ x.state \in {"operating", "body"} /\ x.request = old.request
        /\ x.who = c /\ x.answer = old.answer /\ x.effect = old.effect
    BY <2>1 DEF Connection, States
  <2> HIDE DEF x
  <2>4. Stage(x)
    BY <2>1, <2>3 DEF Stage, Admitted
  <2>5. QED
    BY <2>1, <2>2, <2>3, <2>4, PutKeeps
<1>12. TypeOK'
  BY <1>1, <1>4, <1>6, <1>7, <1>10, <1>11 DEF TypeOK
<1>13. Slotted'
  BY <1>10, <1>11 DEF IInv, Slotted
<1>14. /\ \A t \in Ends : t > clock => Since(c, t)' = 0
       /\ \A s \in Times : s <= clock => Since(c, s)' = Since(c, s) + 1
  <2>1. admitted'[c][MaxTime + 1] = admitted[c][MaxTime + 1] + 1
    BY <1>1, <1>7
  <2>2. ASSUME NEW t \in Ends, t > clock
        PROVE  Since(c, t)' = 0
    <3>1. Since(c, t) = 0
      BY <2>2, MeteredNow
    <3>2. admitted'[c][t] = admitted[c][t] + 1
      BY <1>7, <2>2
    <3>3. QED
      BY <1>1, <2>1, <3>1, <3>2 DEF Since
  <2>3. ASSUME NEW s \in Times, s <= clock
        PROVE  Since(c, s)' = Since(c, s) + 1
    <3>1. admitted'[c][s] = admitted[c][s]
      BY <1>1, <1>9, <2>3
    <3>2. QED
      BY <1>1, <2>1, <3>1 DEF Since
  <2>4. QED
    BY <2>2, <2>3
<1>15. ASSUME NEW s \in Times, s <= clock
       PROVE  Cost * Since(c, s)' + new.tokens <= Burst + Rate * (clock - s)
  <2>1. Cost * Since(c, s) + Refilled(c) <= Burst + Rate * (clock - s)
    BY <1>15, MeteredNow
  <2>2. Since(c, s) \in Int /\ s \in Nat
    BY <1>1 DEF Since
  <2>3. Cost * (Since(c, s) + 1) = Cost * Since(c, s) + Cost
    <3>1. Cost * (Since(c, s) + 1) = Cost * Since(c, s) + Cost * 1
      BY <1>2, <2>2, Distributes
    <3>2. QED
      BY <1>2, <3>1
  <2>4. Cost * Since(c, s) \in Int /\ Rate * (clock - s) \in Int
    BY <1>1, <1>2, <2>2
  <2>5. Cost * Since(c, s)' = Cost * Since(c, s) + Cost
    BY <1>14, <1>15, <2>3
  <2>6. QED
    BY <1>2, <1>4, <2>1, <2>4, <2>5
<1>16. Metered(c)'
  BY <1>3, <1>4, <1>6, <1>14, <1>15, <1>10 DEF Metered
<1>17. Bounded(c)'
  <2> SUFFICES ASSUME NEW s \in Times, NEW t \in Times, s <= t
               PROVE  Cost * (admitted'[c][t + 1] - admitted'[c][s]) <= Burst + Rate * (t - s)
    BY DEF Bounded
  <2>1. /\ s \in Nat /\ t \in Nat /\ s \in Ends /\ t + 1 \in Ends
        /\ admitted[c][t + 1] \in Nat /\ admitted[c][s] \in Nat /\ t - s \in Nat /\ Rate * (t - s) \in Nat
    BY <1>1, <1>2
  <2>2. CASE t < clock
    <3>1. admitted'[c][t + 1] = admitted[c][t + 1] /\ admitted'[c][s] = admitted[c][s]
      <4>1. clock \in Nat /\ t + 1 <= clock /\ s <= clock
        BY <1>1, <2>1, <2>2
      <4>2. QED
        BY <1>9, <2>1, <4>1
    <3>2. Bounded(c)
      BY DEF IInv, Limited
    <3>3. QED
      BY <3>1, <3>2 DEF Bounded
  <2>3. CASE t >= clock /\ s > clock
    <3>1. Since(c, t + 1)' = 0 /\ Since(c, s)' = 0
      BY <1>1, <1>14, <2>1, <2>3
    <3>2. /\ admitted'[c][t + 1] \in Nat /\ admitted'[c][s] \in Nat
          /\ admitted'[c][MaxTime + 1] \in Nat
      BY <1>1, <1>8, <2>1
    <3>3. admitted'[c][t + 1] - admitted'[c][s] = 0
      BY <3>1, <3>2, Bounds DEF Since
    <3>4. QED
      BY <1>2, <2>1, <3>3
  <2>4. CASE t >= clock /\ s <= clock
    <3>1. Since(c, t + 1)' = 0
      BY <1>1, <1>14, <2>1, <2>4
    <3>2. /\ admitted'[c][t + 1] \in Nat /\ admitted'[c][s] \in Nat
          /\ admitted'[c][MaxTime + 1] \in Nat
      BY <1>1, <1>8, <2>1
    <3>3. admitted'[c][t + 1] - admitted'[c][s] = Since(c, s)'
      BY <3>1, <3>2, Bounds DEF Since
    <3>4. Cost * Since(c, s)' + new.tokens <= Burst + Rate * (clock - s)
      BY <1>15, <2>4
    <3>5. Rate * (clock - s) <= Rate * (t - s)
      BY <1>1, <1>2, <2>1, <2>4, Grows
    <3>6. Cost * Since(c, s)' \in Int /\ Rate * (clock - s) \in Int /\ new.tokens \in Nat
      BY <1>1, <1>2, <1>4, <2>1, <3>2, <3>3
    <3>7. Cost * Since(c, s)' <= Burst + Rate * (t - s)
      BY <1>2, <2>1, <3>4, <3>5, <3>6
    <3>8. QED
      BY <3>3, <3>7
  <2>5. QED
    BY <1>1, <2>1, <2>2, <2>3, <2>4
<1>18. ASSUME NEW k \in Credentials, k # c
       PROVE  Metered(k)' /\ Bounded(k)'
  <2>1. buckets'[k] = buckets[k] /\ admitted'[k] = admitted[k]
    BY <1>6, <1>7, <1>18
  <2>2. Metered(k) /\ Bounded(k)
    BY DEF IInv, Limited
  <2>3. QED
    BY <2>1, <2>2 DEF Metered, Bounded, Since
<1>19. Limited'
  BY <1>16, <1>17, <1>18 DEF Limited
<1>20. QED
  BY <1>11, <1>12, <1>13, <1>19 DEF IInv


\* The credential is judged: a refusal costs nothing.
LEMMA AuthenticateKeeps ==
    ASSUME IInv, NEW n \in Connections, authenticate(n)
    PROVE  IInv'
<1> DEFINE r == conn[n].request
           c == r.credential
<1>1. /\ conn[n].state = "checking" /\ r \in Requests
      /\ c \in Credentials \cup {None}
  BY ConnectionHas, GatewayAssumption DEF authenticate, Stage
<1>2. UNCHANGED <<clock, file, loaded, restarts, slots>>
  BY DEF authenticate
<1>3. CASE /\ Answer(n, 401) \/ Answer(n, 403) \/ Answer(n, 429)
           /\ UNCHANGED <<buckets, admitted>>
  <2>1. {401, 403, 429} \subseteq Answers \ {200}
    BY DEF Answers
  <2>2. QED
    BY <1>1, <1>2, <1>3, <2>1, AnswerKeeps
<1>4. CASE ~ (/\ Answer(n, 401) \/ Answer(n, 403) \/ Answer(n, 429)
              /\ UNCHANGED <<buckets, admitted>>)
  <2>1. c # None /\ PermissionOf(r.route) \in Permissions[Grant[c].role] /\ ~ (Refilled(c) < Cost)
    BY <1>4 DEF authenticate
  <2>2. /\ buckets' = [buckets EXCEPT ![c] = [tokens |-> Refilled(c) - Cost, at |-> clock]]
        /\ admitted' = Counted(c)
        /\ Put(n, [conn[n] EXCEPT !.who = c,
                      !.state = IF r.route \in ReadRoutes THEN "operating" ELSE "body"])
    BY <1>4 DEF authenticate
  <2>3. c \in Credentials
    BY <1>1, <2>1
  <2>4. Cost <= Refilled(c)
    BY <2>1, <2>3, RefilledIs, Bounds
  <2>5. PICK state \in {"operating", "body"} : Put(n, [conn[n] EXCEPT !.who = c, !.state = state])
    <3> DEFINE state == IF r.route \in ReadRoutes THEN "operating" ELSE "body"
    <3>1. state \in {"operating", "body"}
      OBVIOUS
    <3>2. Put(n, [conn[n] EXCEPT !.who = c, !.state = state])
      BY <2>2
    <3> HIDE DEF state
    <3>3. QED
      BY <3>1, <3>2
  <2>6. QED
    BY <2>1, <2>2, <2>3, <2>4, <2>5, AdmitKeeps
<1>5. QED
  BY <1>3, <1>4

-----------------------------------------------------------------------------
(* The process *)

\* A process that ends leaves no thread, no bucket and no count.
LEMMA StopKeeps ==
    ASSUME IInv, Stop
    PROVE  IInv'
<1>1. /\ conn' = Disconnected /\ slots' = Slots /\ loaded' = None
      /\ buckets' = [c \in Credentials |-> None] /\ admitted' = NoneAdmitted
      /\ restarts < MaxRestarts /\ restarts' = restarts + 1 /\ UNCHANGED <<clock, file>>
  BY DEF Stop
<1>2. Idle \in Connection /\ Stage(Idle) /\ Idle.state = "idle"
  BY DEF Connection, Idle, States, Stage
<1>3. \A n \in Connections : conn'[n] = Idle
  BY <1>1 DEF Disconnected
<1>4. Honest' /\ conn' \in [Connections -> Connection]
  BY <1>1, <1>2, <1>3 DEF Honest, Disconnected
<1>5. Busy' = {}
  BY <1>2, <1>3 DEF Busy, Serving
<1>6. Slotted' /\ slots' \in 0..Slots
  BY <1>1, <1>5, FS_EmptySet, Bounds DEF Slotted
<1>7. \A c \in Credentials : buckets'[c] = None /\ \A t \in Ends : admitted'[c][t] = 0
  BY <1>1 DEF NoneAdmitted
<1>8. buckets' \in [Credentials -> Bucket \cup {None}] /\ admitted' \in [Credentials -> [Ends -> Nat]]
  BY <1>1 DEF NoneAdmitted
<1>9. TypeOK'
  BY <1>1, <1>4, <1>6, <1>7, <1>8, Bounds DEF IInv, TypeOK
<1>10. Limited'
  <2> SUFFICES ASSUME NEW c \in Credentials PROVE Metered(c)' /\ Bounded(c)'
    BY DEF Limited
  <2>1. Metered(c)'
    BY <1>7 DEF Metered
  <2>2. ASSUME NEW s \in Times, NEW t \in Times, s <= t
        PROVE  Cost * (admitted'[c][t + 1] - admitted'[c][s]) <= Burst + Rate * (t - s)
    <3>1. s \in Ends /\ t + 1 \in Ends /\ t - s \in Nat
      BY <2>2, Bounds DEF Times, Ends
    <3>2. admitted'[c][t + 1] - admitted'[c][s] = 0
      BY <1>7, <3>1
    <3>3. Cost * 0 = 0 /\ Rate * (t - s) \in Nat
      BY <3>1, Bounds
    <3>4. QED
      BY <3>2, <3>3, Bounds
  <2>3. QED
    BY <2>1, <2>2 DEF Bounded
<1>11. QED
  BY <1>4, <1>6, <1>9, <1>10 DEF IInv

\* Revocations, a new process and time change nothing that slots and buckets say.
LEMMA AsideKeeps ==
    ASSUME IInv, UNCHANGED <<slots, buckets, conn, admitted>>,
           clock' \in Times, clock <= clock', file' \subseteq Credentials,
           loaded' = None \/ loaded' \subseteq Credentials, restarts' \in 0..MaxRestarts
    PROVE  IInv'
<1>1. TypeOK'
  <2>1. \A c \in Credentials : buckets[c] # None => buckets[c].at <= clock'
    BY Bounds DEF IInv, TypeOK, Times, Bucket
  <2>2. QED
    BY <2>1 DEF IInv, TypeOK
<1>2. Slotted' /\ Honest' /\ Limited'
  BY DEF IInv, Slotted, Busy, Serving, Honest, Limited, Metered, Bounded, Since
<1>3. QED
  BY <1>1, <1>2 DEF IInv

\* A server that has just started.
LEMMA InitInv == Init => IInv
<1> SUFFICES ASSUME Init PROVE IInv
  OBVIOUS
<1>1. Idle \in Connection /\ Stage(Idle) /\ Idle.state = "idle"
  BY DEF Connection, Idle, States, Stage
<1>2. \A n \in Connections : conn[n] = Idle
  BY DEF Init, Disconnected
<1>3. Honest /\ conn \in [Connections -> Connection]
  BY <1>1, <1>2 DEF Honest, Init, Disconnected
<1>4. Busy = {}
  BY <1>1, <1>2 DEF Busy, Serving
<1>5. Slotted /\ slots \in 0..Slots
  BY <1>4, FS_EmptySet, Bounds DEF Init, Slotted
<1>6. \A c \in Credentials : buckets[c] = None /\ \A t \in Ends : admitted[c][t] = 0
  BY DEF Init, NoneAdmitted
<1>7. buckets \in [Credentials -> Bucket \cup {None}] /\ admitted \in [Credentials -> [Ends -> Nat]]
  BY DEF Init, NoneAdmitted
<1>8. TypeOK
  BY <1>3, <1>5, <1>6, <1>7, Bounds DEF Init, TypeOK, Times
<1>9. Limited
  <2> SUFFICES ASSUME NEW c \in Credentials PROVE Metered(c) /\ Bounded(c)
    BY DEF Limited
  <2>1. Metered(c)
    BY <1>6 DEF Metered
  <2>2. ASSUME NEW s \in Times, NEW t \in Times, s <= t
        PROVE  Cost * (admitted[c][t + 1] - admitted[c][s]) <= Burst + Rate * (t - s)
    <3>1. s \in Ends /\ t + 1 \in Ends /\ t - s \in Nat
      BY <2>2, Bounds DEF Times, Ends
    <3>2. admitted[c][t + 1] - admitted[c][s] = 0
      BY <1>6, <3>1
    <3>3. Cost * 0 = 0 /\ Rate * (t - s) \in Nat
      BY <3>1, Bounds
    <3>4. QED
      BY <3>2, <3>3, Bounds
  <2>3. QED
    BY <2>1, <2>2 DEF Bounded
<1>10. QED
  BY <1>3, <1>5, <1>8, <1>9 DEF IInv

\* One step per action.
LEMMA StepInv == IInv /\ [Next]_vars => IInv'
<1> SUFFICES ASSUME IInv, [Next]_vars PROVE IInv'
  OBVIOUS
<1>1. ASSUME NEW n \in Connections, process_request(n) PROVE IInv'
  BY <1>1, RequestKeeps
<1>2. ASSUME NEW n \in Connections, stall(n) PROVE IInv'
  BY <1>2, CloseKeeps DEF stall, WaitsForClient, Serving
<1>3. ASSUME NEW n \in Connections, NEW r \in Requests, dispatch(n, r) PROVE IInv'
  BY <1>3, DispatchKeeps
<1>4. ASSUME NEW n \in Connections, authenticate(n) PROVE IInv'
  BY <1>4, AuthenticateKeeps
<1>5. ASSUME NEW n \in Connections, body(n) PROVE IInv'
  BY <1>5, BodyKeeps
<1>6. ASSUME NEW n \in Connections, operate(n) PROVE IInv'
  BY <1>6, OperateKeeps
<1>7. ASSUME NEW n \in Connections, reply(n) PROVE IInv'
  BY <1>7, CloseKeeps DEF reply, Serving
<1>8. ASSUME NEW n \in Connections, process_request_thread(n) PROVE IInv'
  BY <1>8, ReleaseKeeps
<1>9. /\ clock \in Times /\ clock \in Nat /\ file \subseteq Credentials /\ restarts \in 0..MaxRestarts
      /\ loaded = None \/ loaded \subseteq Credentials
  BY Bounds DEF IInv, TypeOK, Times
<1>10. ASSUME NEW c \in Credentials, Revoke(c) PROVE IInv'
  BY <1>9, <1>10, AsideKeeps DEF Revoke
<1>11. CASE Stop
  BY <1>11, StopKeeps
<1>12. CASE Start
  BY <1>9, <1>12, AsideKeeps DEF Start
<1>13. CASE Tick
  <2>1. clock' \in Times /\ clock <= clock' /\ UNCHANGED <<file, loaded, restarts, slots, buckets, conn, admitted>>
    BY <1>9, <1>13, Bounds DEF Tick, Times
  <2>2. QED
    BY <1>9, <2>1, AsideKeeps
<1>14. CASE UNCHANGED vars
  BY <1>9, <1>14, AsideKeeps DEF vars
<1>15. QED
  BY <1>1, <1>2, <1>3, <1>4, <1>5, <1>6, <1>7, <1>8, <1>10, <1>11, <1>12, <1>13, <1>14
     DEF Next, Serve, Receive

\* In every reachable state each slot is free or held by one thread, no credential
\* gets more than its bucket in any stretch of time, effects are those of the
\* credential that was admitted, and answers are true to them.
THEOREM AdmissionHolds == Spec => []AdmissionIsExact
<1>1. IInv => AdmissionIsExact
  <2> SUFFICES ASSUME IInv PROVE AdmissionIsExact
    OBVIOUS
  <2>1. slots + Cardinality({n \in Connections : Serving(n)}) = Slots
    BY DEF IInv, Slotted, Busy
  <2>2. ASSUME NEW c \in Credentials, NEW s \in Times, NEW t \in s..MaxTime
        PROVE  Cost * (admitted[c][t + 1] - admitted[c][s]) <= Burst + Rate * (t - s)
    <3>1. t \in Times /\ s <= t
      BY <2>2, Bounds DEF Times
    <3>2. QED
      BY <3>1 DEF IInv, Limited, Bounded
  <2>3. ASSUME NEW n \in Connections
        PROVE  /\ conn[n].effect # None =>
                     /\ conn[n].who = conn[n].request.credential
                     /\ conn[n].effect = Grant[conn[n].who].tenant
                     /\ PermissionOf(conn[n].request.route) \in Permissions[Grant[conn[n].who].role]
               /\ conn[n].answer # None /\ conn[n].request.route \in {"/api/events", "/api/cases"} =>
                     (conn[n].answer = 200 <=> conn[n].effect # None)
    <3>1. Stage(conn[n]) /\ conn[n].state \in States
      BY ConnectionHas
    <3>2. CASE conn[n].state = "replying"
      BY <3>1, <3>2 DEF Stage, Admitted
    <3>3. CASE conn[n].state # "replying"
      BY <3>1, <3>3 DEF Stage, States
    <3>4. QED
      BY <3>2, <3>3
  <2>4. QED
    BY <2>1, <2>2, <2>3 DEF IInv, AdmissionIsExact
<1>2. QED
  BY <1>1, InitInv, StepInv, PTL DEF Spec

===============================================================================
