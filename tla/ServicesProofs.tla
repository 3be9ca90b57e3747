--------------------------- MODULE ServicesProofs ---------------------------
(* Proofs about the services of Services, each of them for any number of    *)
(* actors, requests and messages.  For each there is an inductive invariant *)
(* of its own; that it is one of the whole follows as a step of the whole   *)
(* is a step of one component, and a stutter of the others.                 *)
EXTENDS Services, FiniteSetTheorems, SequenceTheorems, TLAPS

-----------------------------------------------------------------------------
(* A step of the whole is a step of each service or leaves it alone.        *)
LEMMA StepsAreTheirs ==
    ASSUME [Next]_vars
    PROVE  /\ [Note!Next]_(Note!vars) /\ [User!Next]_(User!vars) /\ [Auth!Next]_(Auth!vars)
           /\ [Path!Next]_(Path!vars) /\ [Gen!Next]_(Gen!vars)
<1> USE DEF knobVars, serviceVars, sysVars, shapeVars, ecomVars, schedVars,
            noteVars, userVars, authVars, pathVars, genVars
<1> USE DEF Note!vars, Note!queueVars, Note!workVars, User!vars, User!history, Auth!vars,
            Path!vars, Path!metrics, Path!limiter, Gen!vars, Gen!goroutines, Gen!pace
<1>1. CASE UNCHANGED vars
  BY <1>1 DEF vars
<1>2. CASE SysSteps \/ ShapeSteps \/ EcomSteps \/ SchedSteps
  BY <1>2 DEF SysSteps, ShapeSteps, EcomSteps, SchedSteps
<1>3. CASE NoteSteps
  BY <1>3 DEF NoteSteps
<1>4. CASE UserSteps
  BY <1>4 DEF UserSteps
<1>5. CASE AuthSteps
  BY <1>5 DEF AuthSteps
<1>6. CASE PathSteps
  BY <1>6 DEF PathSteps
<1>7. CASE GenSteps
  BY <1>7 DEF GenSteps
<1> QED
  BY <1>1, <1>2, <1>3, <1>4, <1>5, <1>6, <1>7 DEF Next

-----------------------------------------------------------------------------
(* The traffic generator.                                                   *)
GenInv ==
    /\ traffic \in [total : Nat, successes : Nat, failures : Nat, latencies : Nat]
    /\ reported \in Nat /\ bursts \in Nat
    /\ StatsAddUp

LEMMA GenStart == ASSUME Gen!Init PROVE GenInv
BY DEF Gen!Init, GenInv, StatsAddUp, Gen!StatsAddUp

(* A summary takes every latency there is, and panics only for want of one. *)
LEMMA SummaryKeeps ==
    ASSUME GenInv, process = "up", NEW then \in {"up", "ended"}, Gen!Summarize(then),
           UNCHANGED <<rate, bursts>>
    PROVE  GenInv'
<1> USE DEF GenInv, StatsAddUp, Gen!StatsAddUp
<1>1. /\ reported' = reported + traffic.latencies
      /\ traffic' = [traffic EXCEPT !.latencies = 0]
      /\ process' = IF traffic.total > 0 /\ traffic.latencies = 0 THEN "panicked" ELSE then
  BY DEF Gen!Summarize
<1>2. /\ traffic' \in [total : Nat, successes : Nat, failures : Nat, latencies : Nat]
      /\ traffic'.total = traffic.total /\ traffic'.latencies = 0
      /\ traffic'.successes = traffic.successes /\ traffic'.failures = traffic.failures
  BY <1>1
<1>3. process' = "panicked" => traffic'.total > 0
  BY <1>1, <1>2
<1> QED
  BY <1>1, <1>2, <1>3

LEMMA RecordKeeps ==
    ASSUME GenInv, process = "up", NEW ok \in BOOLEAN, Gen!Record(ok), UNCHANGED <<reported, rate, bursts, process>>
    PROVE  GenInv'
BY DEF GenInv, StatsAddUp, Gen!StatsAddUp, Gen!Record

LEMMA GenKept == ASSUME GenInv, [Gen!Next]_(Gen!vars) PROVE GenInv'
<1>1. CASE UNCHANGED <<traffic, reported, rate, bursts, process>>
  BY <1>1 DEF GenInv, StatsAddUp, Gen!StatsAddUp
<1> SUFFICES ASSUME Gen!Next PROVE GenInv'
  BY <1>1 DEF Gen!vars, Gen!pace
<1> USE DEF Gen!Next, Gen!pace, Gen!goroutines
<1>2. ASSUME NEW s, Gen!Send(s) \/ Gen!Leave(s) PROVE GenInv'
  BY <1>1, <1>2 DEF Gen!Send, Gen!Leave
<1>3. ASSUME NEW s, NEW steps, Gen!Launch(s, steps) PROVE GenInv'
  BY <1>1, <1>3 DEF Gen!Launch
<1>4. ASSUME NEW s, Gen!Fail(s) PROVE GenInv'
  BY <1>4, RecordKeeps DEF Gen!Fail
<1>5. ASSUME NEW s, NEW name, Gen!Succeed(s, name) PROVE GenInv'
  BY <1>5, RecordKeeps DEF Gen!Succeed
<1>6. CASE Gen!PrintSummary
  BY <1>6, SummaryKeeps DEF Gen!PrintSummary
<1>7. CASE Gen!Stop
  BY <1>1, <1>7 DEF Gen!Stop
<1>8. CASE Gen!End
  BY <1>8, SummaryKeeps DEF Gen!End
<1>9. CASE Gen!Burst
  BY <1>9 DEF Gen!Burst, GenInv, StatsAddUp, Gen!StatsAddUp
<1>10. CASE Gen!BurstOver
  BY <1>10 DEF Gen!BurstOver, GenInv, StatsAddUp, Gen!StatsAddUp
<1> QED
  BY <1>2, <1>3, <1>4, <1>5, <1>6, <1>7, <1>8, <1>9, <1>10 DEF Gen!Step

(* Record and summarize share one lock, so that whatever sessions, bursts   *)
(* and summaries interleave, every answer is counted and goes into exactly  *)
(* one summary; and the summary that divides by no latencies is one after   *)
(* a period without an answer.                                              *)
THEOREM StatsAlwaysAddUp == Spec => []StatsAddUp
<1>1. Init => GenInv
  BY GenStart DEF Init
<1>2. GenInv /\ [Next]_vars => GenInv'
  BY StepsAreTheirs, GenKept
<1>3. GenInv => StatsAddUp
  BY DEF GenInv
<1> QED
  BY <1>1, <1>2, <1>3, PTL DEF Spec

-----------------------------------------------------------------------------
(* Adding to one of the two series of a metric.                             *)
LEMMA Bump ==
    ASSUME NEW f \in [BOOLEAN -> Int], NEW b \in BOOLEAN, NEW k \in Int
    PROVE  LET g == [f EXCEPT ![b] = @ + k]
           IN  /\ g \in [BOOLEAN -> Int]
               /\ \A c \in BOOLEAN : g[c] = f[c] + (IF c = b THEN k ELSE 0)
               /\ g[TRUE] + g[FALSE] = f[TRUE] + f[FALSE] + k
<1> DEFINE g == [f EXCEPT ![b] = @ + k]
<1>1. \A S : \A x \in S, h \in [S -> Int] : 
         /\ [h EXCEPT ![x] = @ + k] \in [S -> Int]
         /\ \A c \in S : h[c] \in Int /\ [h EXCEPT ![x] = @ + k][c] = h[c] + (IF c = x THEN k ELSE 0)
  OBVIOUS
<1>2. g \in [BOOLEAN -> Int] /\ \A c \in BOOLEAN : f[c] \in Int /\ g[c] = f[c] + (IF c = b THEN k ELSE 0)
  BY <1>1, Zenon
<1> HIDE DEF g
<1>3. f[TRUE] \in Int /\ f[FALSE] \in Int
  BY Zenon
<1>4. g[TRUE] + g[FALSE] = f[TRUE] + f[FALSE] + k
  <2>1. \A x, y \in Int : x + k + (y + 0) = x + y + k /\ x + 0 + (y + k) = x + y + k
    OBVIOUS
  <2>2. CASE b = TRUE
    <3>1. g[TRUE] = f[TRUE] + k /\ g[FALSE] = f[FALSE] + 0
      BY <1>2, <2>2, Zenon
    <3> QED
      BY <1>3, <2>1, <3>1, Zenon
  <2>3. CASE b = FALSE
    <3>1. g[TRUE] = f[TRUE] + 0 /\ g[FALSE] = f[FALSE] + k
      BY <1>2, <2>3, Zenon
    <3> QED
      BY <1>3, <2>1, <3>1, Zenon
  <2> QED
    BY <2>2, <2>3, Zenon
<1> QED
  BY <1>2, <1>4, Zenon DEF g

(* RequestPath counts with an operator of its own.                          *)
LEMMA OneCardinality == \A S : Path!Cardinality(S) = Cardinality(S)
BY Zenon DEF Path!Cardinality, Cardinality

-----------------------------------------------------------------------------
(* The request path.                                                        *)
InFlight(b) == {r \in Requests : path[r].at # "absent" /\ path[r].chaos = b}

Flights == [at : {"absent", "faults", "mux", "proxy", "answered"},
            route : Path!Routes \cup {""}, chaos : BOOLEAN, status : Nat]

PathTyped ==
    /\ active \in Path!Faults
    /\ path \in [Requests -> Flights]
    /\ gauge \in [BOOLEAN -> Int] /\ counter \in [BOOLEAN -> Int] /\ aborted \in [BOOLEAN -> Int]
    /\ window \in Nat /\ proxied \in Nat /\ former \in Nat /\ arrived \in Nat

(* The limiter lets through what comes until the limit is used up.          *)
Allowed == proxied = (IF window <= Limit THEN window ELSE Limit) /\ former <= Limit

(* What was let through has been counted, and nothing of the control plane  *)
(* is on its way to the proxy.                                              *)
PathInv ==
    /\ PathTyped
    /\ \A b \in BOOLEAN : gauge[b] = Cardinality(InFlight(b)) + aborted[b]
    /\ arrived = gauge[TRUE] + gauge[FALSE] + counter[TRUE] + counter[FALSE]
    /\ \A r \in Requests : path[r].route = "control" => path[r].status = 200 /\ path[r].at # "proxy"
    /\ Allowed

LEMMA PathStart == ASSUME Path!Init PROVE PathInv
<1>1. Path!Absent \in Flights /\ Path!Absent.at = "absent" /\ Path!Absent.route = ""
  BY DEF Path!Absent, Flights
<1>2. path = [r \in Requests |-> Path!Absent] /\ \A r \in Requests : path[r] = Path!Absent
  BY DEF Path!Init
<1>3. /\ gauge = [b \in BOOLEAN |-> 0] /\ counter = [b \in BOOLEAN |-> 0] /\ aborted = [b \in BOOLEAN |-> 0]
      /\ active = "none" /\ window = 0 /\ proxied = 0 /\ former = 0 /\ arrived = 0
  BY DEF Path!Init
<1>4. \A b \in BOOLEAN : gauge[b] = 0 /\ counter[b] = 0 /\ aborted[b] = 0
  BY <1>3, Zenon
<1>5. [b \in BOOLEAN |-> 0] \in [BOOLEAN -> Int]
  OBVIOUS
<1>6. PathTyped
  BY <1>1, <1>2, <1>3, <1>5 DEF PathTyped, Path!Faults
<1>7. \A b \in BOOLEAN : gauge[b] = Cardinality(InFlight(b)) + aborted[b]
  <2> SUFFICES ASSUME NEW b \in BOOLEAN PROVE gauge[b] = Cardinality(InFlight(b)) + aborted[b]
    OBVIOUS
  <2>1. InFlight(b) = {}
    BY <1>1, <1>2 DEF InFlight
  <2>2. Cardinality(InFlight(b)) = 0
    BY <2>1, FS_EmptySet
  <2>3. 0 = 0 + 0
    OBVIOUS
  <2> QED
    BY <1>4, <2>2, <2>3, Zenon
<1>8. arrived = gauge[TRUE] + gauge[FALSE] + counter[TRUE] + counter[FALSE]
  <2>1. 0 = 0 + 0 + 0 + 0
    OBVIOUS
  <2> QED
    BY <1>3, <1>4, <2>1, Zenon
<1>9. \A r \in Requests : path[r].route # "control"
  BY <1>1, <1>2
<1>10. Allowed
  BY <1>3, LimitAssumption DEF Allowed
<1> QED
  BY <1>6, <1>7, <1>8, <1>9, <1>10 DEF PathInv

(* Moving a request on leaves the series it is counted in.                  *)
LEMMA SameFlight ==
    ASSUME PathInv, NEW r \in Requests, path[r].at # "absent", path'[r].at # "absent",
           path'[r].chaos = path[r].chaos, \A s \in Requests \ {r} : path'[s] = path[s]
    PROVE  \A b \in BOOLEAN : InFlight(b)' = InFlight(b)
BY DEF InFlight

(* ... and a request that comes or goes changes that one by one.            *)
LEMMA FlightEnds ==
    ASSUME NEW r \in Requests, path[r].at # "absent", path'[r].at = "absent",
           \A s \in Requests \ {r} : path'[s] = path[s], path[r].chaos \in BOOLEAN
    PROVE  \A b \in BOOLEAN :
              Cardinality(InFlight(b)') = Cardinality(InFlight(b)) - (IF b = path[r].chaos THEN 1 ELSE 0)
              /\ Cardinality(InFlight(b)) \in Nat
<1> TAKE b \in BOOLEAN
<1>1. IsFiniteSet(InFlight(b))
  BY RequestsAssumption, FS_Subset DEF InFlight
<1>2. InFlight(b)' = InFlight(b) \ (IF b = path[r].chaos THEN {r} ELSE {})
  BY DEF InFlight
<1>3. r \in InFlight(b) <=> b = path[r].chaos
  BY DEF InFlight
<1>4. Cardinality(InFlight(b) \ {r}) = IF r \in InFlight(b) THEN Cardinality(InFlight(b)) - 1 ELSE Cardinality(InFlight(b))
  BY <1>1, FS_RemoveElement
<1>5. Cardinality(InFlight(b)) \in Nat
  BY <1>1, FS_CardinalityType
<1> QED
  BY <1>2, <1>3, <1>4, <1>5

LEMMA FlightStarts ==
    ASSUME NEW r \in Requests, path[r].at = "absent", path'[r].at # "absent",
           \A s \in Requests \ {r} : path'[s] = path[s], path'[r].chaos \in BOOLEAN
    PROVE  \A b \in BOOLEAN :
              Cardinality(InFlight(b)') = Cardinality(InFlight(b)) + (IF b = path'[r].chaos THEN 1 ELSE 0)
              /\ Cardinality(InFlight(b)) \in Nat
<1> TAKE b \in BOOLEAN
<1>1. IsFiniteSet(InFlight(b))
  BY RequestsAssumption, FS_Subset DEF InFlight
<1>2. InFlight(b)' = InFlight(b) \cup (IF b = path'[r].chaos THEN {r} ELSE {})
  BY DEF InFlight
<1>3. r \notin InFlight(b)
  BY DEF InFlight
<1>4. Cardinality(InFlight(b) \cup {r}) = Cardinality(InFlight(b)) + 1
  BY <1>1, <1>3, FS_AddElement
<1>5. Cardinality(InFlight(b)) \in Nat
  BY <1>1, FS_CardinalityType
<1> QED
  BY <1>2, <1>4, <1>5

(* What a step does to one request, it does to no other.                    *)
LEMMA OneFlight ==
    ASSUME PathTyped, NEW r \in Requests, NEW q \in Flights, path' = [path EXCEPT ![r] = q]
    PROVE  path' \in [Requests -> Flights] /\ path'[r] = q /\ \A s \in Requests \ {r} : path'[s] = path[s]
BY DEF PathTyped

LEMMA FlightFields ==
    ASSUME NEW q \in Flights
    PROVE  q.at \in {"absent", "faults", "mux", "proxy", "answered"} /\ q.chaos \in BOOLEAN /\ q.status \in Nat
BY DEF Flights

(* A step that moves a request on, and what it stays.                       *)
Moves(r, at, status) == path' = [path EXCEPT ![r] = [path[r] EXCEPT !.at = at, !.status = status]]

(* The two ways the steps write such a move.                                *)
LEMMA MovedAndAnswered ==
    ASSUME NEW r \in Requests, NEW at, NEW status, path \in [Requests -> Flights],
           path' = [path EXCEPT ![r].at = at, ![r].status = status]
    PROVE  Moves(r, at, status)
BY DEF Moves, Flights

LEMMA MovedOnly ==
    ASSUME NEW r \in Requests, NEW at, path \in [Requests -> Flights],
           path' = [path EXCEPT ![r].at = at]
    PROVE  Moves(r, at, path[r].status)
<1> DEFINE q == [path[r] EXCEPT !.at = at]
<1>1. path[r] \in Flights
  OBVIOUS
<1>2. q = [path[r] EXCEPT !.at = at, !.status = path[r].status]
  BY <1>1 DEF Flights
<1>3. path' = [path EXCEPT ![r] = q]
  OBVIOUS
<1> QED
  BY <1>2, <1>3, Zenon DEF Moves

(* A step that only moves a request on.                                     *)
LEMMA MoveKeeps ==
    ASSUME PathInv, NEW r \in Requests, path[r].at # "absent",
           NEW at \in {"faults", "mux", "proxy", "answered"}, NEW status \in Nat,
           Moves(r, at, status),
           path[r].route = "control" => status = 200 /\ at # "proxy",
           UNCHANGED <<active, gauge, counter, arrived, aborted>>,
           window' \in Nat, proxied' \in Nat, former' \in Nat, Allowed'
    PROVE  PathInv'
<1>1. PathTyped
  BY DEF PathInv
<1> DEFINE q == [path[r] EXCEPT !.at = at, !.status = status]
<1>1a. path[r] \in Flights
  BY <1>1 DEF PathTyped
<1>1b. /\ q \in Flights /\ q.at = at /\ q.status = status /\ q.chaos = path[r].chaos
       /\ q.route = path[r].route /\ q.at # "absent"
  BY <1>1a DEF Flights
<1>1c. path' = [path EXCEPT ![r] = q]
  BY DEF Moves
<1> HIDE DEF q
<1>2. path' \in [Requests -> Flights] /\ path'[r] = q /\ \A s \in Requests \ {r} : path'[s] = path[s]
  BY <1>1, <1>1b, <1>1c, OneFlight, Zenon
<1>3. \A b \in BOOLEAN : InFlight(b)' = InFlight(b)
  BY <1>1b, <1>2, SameFlight
<1>4. PathTyped'
  BY <1>1, <1>2 DEF PathTyped
<1>5. \A s \in Requests : path'[s].route = "control" => path'[s].status = 200 /\ path'[s].at # "proxy"
  BY <1>1b, <1>2 DEF PathInv
<1>6. gauge' = gauge /\ aborted' = aborted /\ counter' = counter /\ arrived' = arrived
  OBVIOUS
<1>7. \A b \in BOOLEAN : gauge'[b] = Cardinality(InFlight(b)') + aborted'[b]
  <2> TAKE b \in BOOLEAN
  <2>1. gauge[b] = Cardinality(InFlight(b)) + aborted[b]
    BY Zenon DEF PathInv
  <2>2. InFlight(b)' = InFlight(b)
    BY <1>3, Zenon
  <2> QED
    BY <1>6, <2>1, <2>2, Zenon
<1>8. arrived = gauge[TRUE] + gauge[FALSE] + counter[TRUE] + counter[FALSE]
  BY Zenon DEF PathInv
<1>9. arrived' = gauge'[TRUE] + gauge'[FALSE] + counter'[TRUE] + counter'[FALSE]
  BY <1>6, <1>8, Zenon
<1> QED
  BY <1>4, <1>5, <1>7, <1>9 DEF PathInv

(* Metrics, before and after the call, and a panic of the proxy.            *)
LEMMA ArriveKeeps ==
    ASSUME PathInv, NEW r \in Requests, NEW route \in Path!Routes, Path!Arrive(r, route)
    PROVE  PathInv'
<1> DEFINE series == active # "none"
           q == [at |-> "faults", route |-> route, chaos |-> series, status |-> 200]
<1>0. series \in BOOLEAN
  OBVIOUS
<1>1. /\ path[r].at = "absent" /\ arrived' = arrived + 1
      /\ path' = [path EXCEPT ![r] = q]
      /\ gauge' = [gauge EXCEPT ![series] = @ + 1]
  BY Zenon DEF Path!Arrive
<1>2. UNCHANGED <<active, counter, window, proxied, former, aborted>>
  BY DEF Path!Arrive, Path!limiter
<1> HIDE DEF series
<1>3. q \in Flights /\ q.at = "faults" /\ q.chaos = series /\ q.status = 200
  BY <1>0 DEF Flights
<1> HIDE DEF q
<1>4. path' \in [Requests -> Flights] /\ path'[r] = q /\ \A s \in Requests \ {r} : path'[s] = path[s]
  BY <1>1, <1>3, OneFlight, Zenon DEF PathInv
<1>5. \A b \in BOOLEAN : Cardinality(InFlight(b)') = Cardinality(InFlight(b)) + (IF b = series THEN 1 ELSE 0)
                         /\ Cardinality(InFlight(b)) \in Nat
  <2>1. path'[r].at # "absent" /\ path'[r].chaos = series
    BY <1>3, <1>4
  <2> QED
    BY <1>0, <1>1, <1>4, <2>1, FlightStarts, Zenon
<1>6t. gauge \in [BOOLEAN -> Int]
  BY Zenon DEF PathInv, PathTyped
<1>6. /\ gauge \in [BOOLEAN -> Int] /\ aborted \in [BOOLEAN -> Int] /\ counter \in [BOOLEAN -> Int] /\ arrived \in Nat
      /\ arrived = gauge[TRUE] + gauge[FALSE] + counter[TRUE] + counter[FALSE]
      /\ \A b \in BOOLEAN : gauge[b] = Cardinality(InFlight(b)) + aborted[b]
  BY Zenon DEF PathInv, PathTyped
<1>7. /\ gauge' \in [BOOLEAN -> Int]
      /\ \A b \in BOOLEAN : gauge'[b] = gauge[b] + (IF b = series THEN 1 ELSE 0)
      /\ gauge'[TRUE] + gauge'[FALSE] = gauge[TRUE] + gauge[FALSE] + 1
  <2> DEFINE g == [gauge EXCEPT ![series] = @ + 1]
  <2>1. 1 \in Int
    OBVIOUS
  <2>2. g \in [BOOLEAN -> Int]
    BY <1>0, <1>6t, <2>1, Bump, Zenon
  <2>2a. \A b \in BOOLEAN : g[b] = gauge[b] + (IF b = series THEN 1 ELSE 0)
    BY <1>0, <1>6t, <2>1, Bump, Zenon
  <2>3. g[TRUE] + g[FALSE] = gauge[TRUE] + gauge[FALSE] + 1
    BY <1>0, <1>6t, <2>1, Bump, Zenon
  <2> QED
    BY <1>1, <2>2, <2>2a, <2>3, Zenon
<1>8. \A b \in BOOLEAN : gauge'[b] = Cardinality(InFlight(b)') + aborted'[b]
  <2> TAKE b \in BOOLEAN
  <2> DEFINE n == IF b = series THEN 1 ELSE 0
  <2>1. n \in Int
    OBVIOUS
  <2>2. gauge'[b] = gauge[b] + n /\ Cardinality(InFlight(b)') = Cardinality(InFlight(b)) + n
    BY <1>5, <1>7, Zenon
  <2>3. aborted'[b] = aborted[b] /\ aborted[b] \in Int
    BY <1>2, <1>6
  <2>4. gauge[b] = Cardinality(InFlight(b)) + aborted[b] /\ Cardinality(InFlight(b)) \in Nat
    BY <1>5, <1>6, Zenon
  <2> HIDE DEF n
  <2>5. \A c \in Nat, a, m \in Int : c + a + m = c + m + a
    OBVIOUS
  <2> QED
    BY <2>1, <2>2, <2>3, <2>4, <2>5, Zenon
<1>9. arrived' = gauge'[TRUE] + gauge'[FALSE] + counter'[TRUE] + counter'[FALSE]
  <2> DEFINE g == gauge[TRUE]   g2 == gauge'[TRUE]
             h == gauge[FALSE]  h2 == gauge'[FALSE]
             c == counter[TRUE]
             d == counter[FALSE]
  <2>1. g2 + h2 = g + h + 1 /\ arrived = g + h + c + d /\ arrived' = arrived + 1
    BY <1>1, <1>6, <1>7, Zenon
  <2>2. g \in Int /\ h \in Int /\ c \in Int /\ d \in Int /\ g2 \in Int /\ h2 \in Int
    BY <1>6, <1>7, Zenon
  <2>3. counter' = counter
    BY <1>2
  <2> HIDE DEF g, h, c, d, g2, h2
  <2>4. arrived' = g2 + h2 + c + d
    BY <2>1, <2>2
  <2> QED
    BY <2>3, <2>4, Zenon DEF c, d, g2, h2
<1>10. PathTyped'
  <2>1. /\ path' \in [Requests -> Flights] /\ gauge' \in [BOOLEAN -> Int] /\ arrived' = arrived + 1
    BY <1>1, <1>4, <1>7, Zenon
  <2>2. PathTyped
    BY DEF PathInv
  <2> QED
    BY <1>2, <2>1, <2>2 DEF PathTyped
<1>11. \A s \in Requests : path'[s].route = "control" => path'[s].status = 200 /\ path'[s].at # "proxy"
  BY <1>3, <1>4 DEF PathInv
<1> QED
  BY <1>2, <1>8, <1>9, <1>10, <1>11 DEF PathInv, Allowed

LEMMA AbortKeeps == ASSUME PathInv, NEW r \in Requests, Path!Abort(r) PROVE PathInv'
<1>1. /\ path[r].at = "proxy" /\ path' = [path EXCEPT ![r] = Path!Absent]
      /\ aborted' = [aborted EXCEPT ![path[r].chaos] = @ + 1]
  BY Zenon DEF Path!Abort
<1>2. UNCHANGED <<active, gauge, counter, window, proxied, former, arrived>>
  BY DEF Path!Abort, Path!metrics, Path!limiter
<1>3. path \in [Requests -> Flights] /\ path[r] \in Flights
  BY DEF PathInv, PathTyped
<1>4. Path!Absent \in Flights /\ Path!Absent.at = "absent" /\ Path!Absent.route = ""
  BY DEF Path!Absent, Flights
<1>5. path' \in [Requests -> Flights] /\ path'[r] = Path!Absent /\ \A s \in Requests \ {r} : path'[s] = path[s]
  BY <1>1, <1>4, OneFlight, Zenon DEF PathInv
<1> DEFINE series == path[r].chaos
<1>6. path[r].at # "absent" /\ path'[r].at = "absent" /\ series \in BOOLEAN
  BY <1>1, <1>3, <1>4, <1>5 DEF Flights
<1>7. \A b \in BOOLEAN : Cardinality(InFlight(b)') = Cardinality(InFlight(b)) - (IF b = series THEN 1 ELSE 0)
                         /\ Cardinality(InFlight(b)) \in Nat
  BY <1>5, <1>6, FlightEnds, Zenon
<1> HIDE DEF series
<1>6s. series \in BOOLEAN
  BY <1>6
<1>8g. gauge \in [BOOLEAN -> Int]
  BY Zenon DEF PathInv, PathTyped
<1>8c. counter \in [BOOLEAN -> Int]
  BY Zenon DEF PathInv, PathTyped
<1>8a. aborted \in [BOOLEAN -> Int]
  BY Zenon DEF PathInv, PathTyped
<1>8. /\ gauge \in [BOOLEAN -> Int] /\ aborted \in [BOOLEAN -> Int] /\ counter \in [BOOLEAN -> Int] /\ arrived \in Nat
      /\ arrived = gauge[TRUE] + gauge[FALSE] + counter[TRUE] + counter[FALSE]
      /\ \A b \in BOOLEAN : gauge[b] = Cardinality(InFlight(b)) + aborted[b]
  BY Zenon DEF PathInv, PathTyped
<1>9. \A b \in BOOLEAN : gauge[b] \in Int /\ counter[b] \in Int /\ aborted[b] \in Int
  BY <1>8
<1>10. /\ aborted' \in [BOOLEAN -> Int]
       /\ \A b \in BOOLEAN : aborted'[b] = aborted[b] + (IF b = series THEN 1 ELSE 0)
  <2> DEFINE g == [aborted EXCEPT ![series] = @ + 1]
  <2>1. 1 \in Int
    OBVIOUS
  <2>2. g \in [BOOLEAN -> Int] /\ \A b \in BOOLEAN : g[b] = aborted[b] + (IF b = series THEN 1 ELSE 0)
    BY <1>6s, <1>8a, <2>1, Bump, Zenon
  <2>3. aborted' = g
    BY <1>1, Zenon DEF series
  <2> QED
    BY <2>2, <2>3, Zenon
<1>11. \A b \in BOOLEAN : gauge'[b] = Cardinality(InFlight(b)') + aborted'[b]
  <2> TAKE b \in BOOLEAN
  <2> DEFINE n == IF b = series THEN 1 ELSE 0
  <2>1. n \in Int /\ gauge'[b] = gauge[b]
    BY <1>2
  <2>2. aborted'[b] = aborted[b] + n /\ Cardinality(InFlight(b)') = Cardinality(InFlight(b)) - n
    BY <1>7, <1>10, Zenon
  <2>3. gauge[b] = Cardinality(InFlight(b)) + aborted[b] /\ Cardinality(InFlight(b)) \in Nat /\ aborted[b] \in Int
    BY <1>7, <1>8, <1>9, Zenon
  <2> HIDE DEF n
  <2>4. \A c \in Nat, a, m \in Int : c + a = c - m + (a + m)
    OBVIOUS
  <2> QED
    BY <2>1, <2>2, <2>3, <2>4, Zenon
<1>12. arrived' = gauge'[TRUE] + gauge'[FALSE] + counter'[TRUE] + counter'[FALSE]
  <2>1. arrived' = arrived /\ gauge' = gauge /\ counter' = counter
    BY <1>2
  <2> QED
    BY <1>8, <2>1, Zenon
<1>13. PathTyped'
  BY <1>1, <1>2, <1>5, <1>8, <1>10 DEF PathInv, PathTyped
<1>14. \A s \in Requests : path'[s].route = "control" => path'[s].status = 200 /\ path'[s].at # "proxy"
  <2>1. \A s \in Requests : path[s].route = "control" => path[s].status = 200 /\ path[s].at # "proxy"
    BY DEF PathInv
  <2> SUFFICES ASSUME NEW s \in Requests, path'[s].route = "control"
               PROVE  path'[s].status = 200 /\ path'[s].at # "proxy"
    OBVIOUS
  <2>2. s # r
    BY <1>4, <1>5
  <2> QED
    BY <1>5, <2>1, <2>2
<1>15. Allowed'
  BY <1>2 DEF PathInv, Allowed
<1> QED
  BY <1>11, <1>12, <1>13, <1>14, <1>15 DEF PathInv

LEMMA LeaveKeeps == ASSUME PathInv, NEW r \in Requests, Path!Leave(r) PROVE PathInv'
<1>1. /\ path[r].at = "answered" /\ path' = [path EXCEPT ![r] = Path!Absent]
      /\ gauge' = [gauge EXCEPT ![path[r].chaos] = @ - 1]
      /\ counter' = [counter EXCEPT ![path[r].chaos] = @ + 1]
  BY Zenon DEF Path!Leave, Path!Done
<1>2. UNCHANGED <<active, aborted, window, proxied, former, arrived>>
  BY DEF Path!Leave, Path!Done, Path!limiter
<1>3. path \in [Requests -> Flights] /\ path[r] \in Flights
  BY DEF PathInv, PathTyped
<1>4. Path!Absent \in Flights /\ Path!Absent.at = "absent" /\ Path!Absent.route = ""
  BY DEF Path!Absent, Flights
<1>5. path' \in [Requests -> Flights] /\ path'[r] = Path!Absent /\ \A s \in Requests \ {r} : path'[s] = path[s]
  BY <1>1, <1>4, OneFlight, Zenon DEF PathInv
<1> DEFINE series == path[r].chaos
<1>6. path[r].at # "absent" /\ path'[r].at = "absent" /\ series \in BOOLEAN
  BY <1>1, <1>3, <1>4, <1>5 DEF Flights
<1>7. \A b \in BOOLEAN : Cardinality(InFlight(b)') = Cardinality(InFlight(b)) - (IF b = series THEN 1 ELSE 0)
                         /\ Cardinality(InFlight(b)) \in Nat
  BY <1>5, <1>6, FlightEnds, Zenon
<1> HIDE DEF series
<1>6s. series \in BOOLEAN
  BY <1>6
<1>8g. gauge \in [BOOLEAN -> Int]
  BY Zenon DEF PathInv, PathTyped
<1>8c. counter \in [BOOLEAN -> Int]
  BY Zenon DEF PathInv, PathTyped
<1>8a. aborted \in [BOOLEAN -> Int]
  BY Zenon DEF PathInv, PathTyped
<1>8. /\ gauge \in [BOOLEAN -> Int] /\ aborted \in [BOOLEAN -> Int] /\ counter \in [BOOLEAN -> Int] /\ arrived \in Nat
      /\ arrived = gauge[TRUE] + gauge[FALSE] + counter[TRUE] + counter[FALSE]
      /\ \A b \in BOOLEAN : gauge[b] = Cardinality(InFlight(b)) + aborted[b]
  BY Zenon DEF PathInv, PathTyped
<1>9. \A b \in BOOLEAN : gauge[b] \in Int /\ counter[b] \in Int /\ aborted[b] \in Int
  BY <1>8
<1>10. /\ gauge' \in [BOOLEAN -> Int]
       /\ \A b \in BOOLEAN : gauge'[b] = gauge[b] + (IF b = series THEN -1 ELSE 0)
       /\ gauge'[TRUE] + gauge'[FALSE] = gauge[TRUE] + gauge[FALSE] + -1
  <2> DEFINE g == [gauge EXCEPT ![series] = @ + -1]
  <2>1. -1 \in Int
    OBVIOUS
  <2>2. g \in [BOOLEAN -> Int]
    BY <1>6s, <1>8g, <2>1, Bump, Zenon
  <2>2b. \A b \in BOOLEAN : g[b] = gauge[b] + (IF b = series THEN -1 ELSE 0)
    BY <1>6s, <1>8g, <2>1, Bump, Zenon
  <2>2a. g[TRUE] + g[FALSE] = gauge[TRUE] + gauge[FALSE] + -1
    BY <1>6s, <1>8g, <2>1, Bump, Zenon
  <2>3. \A S : \A f \in [S -> Int], x \in S : [f EXCEPT ![x] = @ - 1] = [f EXCEPT ![x] = @ + -1]
    OBVIOUS
  <2>4. gauge' = [gauge EXCEPT ![series] = @ - 1]
    BY <1>1, Zenon DEF series
  <2>5. g = [gauge EXCEPT ![series] = @ - 1]
    BY <1>6s, <1>8g, <2>3, Zenon
  <2> QED
    BY <2>2, <2>2a, <2>2b, <2>4, <2>5, Zenon
<1>10a. /\ counter' \in [BOOLEAN -> Int]
        /\ counter'[TRUE] + counter'[FALSE] = counter[TRUE] + counter[FALSE] + 1
  <2> DEFINE g == [counter EXCEPT ![series] = @ + 1]
  <2>1. 1 \in Int
    OBVIOUS
  <2>2. g \in [BOOLEAN -> Int] /\ g[TRUE] + g[FALSE] = counter[TRUE] + counter[FALSE] + 1
    BY <1>6s, <1>8c, <2>1, Bump, Zenon
  <2>3. counter' = g
    BY <1>1, Zenon DEF series
  <2> QED
    BY <2>2, <2>3, Zenon
<1>11. \A b \in BOOLEAN : gauge'[b] = Cardinality(InFlight(b)') + aborted'[b]
  <2> TAKE b \in BOOLEAN
  <2>1. aborted'[b] = aborted[b]
    BY <1>2
  <2>2. /\ gauge'[b] = gauge[b] + (IF b = series THEN -1 ELSE 0)
        /\ Cardinality(InFlight(b)') = Cardinality(InFlight(b)) - (IF b = series THEN 1 ELSE 0)
    BY <1>7, <1>10, Zenon
  <2>3. gauge[b] = Cardinality(InFlight(b)) + aborted[b] /\ Cardinality(InFlight(b)) \in Nat /\ aborted[b] \in Int
    BY <1>7, <1>8, <1>9, Zenon
  <2>4. \A c \in Nat, a \in Int : c + a + -1 = c - 1 + a /\ c + a + 0 = c - 0 + a
    OBVIOUS
  <2>5. CASE b = series
    BY <2>1, <2>2, <2>3, <2>4, <2>5, Zenon
  <2>6. CASE b # series
    BY <2>1, <2>2, <2>3, <2>4, <2>6, Zenon
  <2> QED
    BY <2>5, <2>6
<1>12. arrived' = gauge'[TRUE] + gauge'[FALSE] + counter'[TRUE] + counter'[FALSE]
  <2>1. \A b \in BOOLEAN : gauge'[b] \in Int /\ counter'[b] \in Int
    BY <1>10, <1>10a
  <2> DEFINE g == gauge[TRUE]   g2 == gauge'[TRUE]
             h == gauge[FALSE]  h2 == gauge'[FALSE]
             c == counter[TRUE]   c2 == counter'[TRUE]
             d == counter[FALSE]  d2 == counter'[FALSE]
  <2>2. g2 + h2 = g + h + -1 /\ c2 + d2 = c + d + 1 /\ arrived = g + h + c + d
    BY <1>8, <1>10, <1>10a, Zenon
  <2>3. /\ g \in Int /\ h \in Int /\ c \in Int /\ d \in Int
        /\ g2 \in Int /\ h2 \in Int /\ c2 \in Int /\ d2 \in Int
    BY <1>9, <2>1, Zenon
  <2>4. arrived' = arrived
    BY <1>2
  <2> HIDE DEF g, h, c, d, g2, h2, c2, d2
  <2>5. arrived' = g2 + h2 + c2 + d2
    BY <2>2, <2>3, <2>4
  <2> QED
    BY <2>5, Zenon DEF g2, h2, c2, d2
<1>13. PathTyped'
  BY <1>1, <1>2, <1>5, <1>8, <1>10, <1>10a DEF PathInv, PathTyped
<1>14. \A s \in Requests : path'[s].route = "control" => path'[s].status = 200 /\ path'[s].at # "proxy"
  <2>1. \A s \in Requests : path[s].route = "control" => path[s].status = 200 /\ path[s].at # "proxy"
    BY DEF PathInv
  <2> SUFFICES ASSUME NEW s \in Requests, path'[s].route = "control"
               PROVE  path'[s].status = 200 /\ path'[s].at # "proxy"
    OBVIOUS
  <2>2. s # r
    BY <1>4, <1>5
  <2> QED
    BY <1>5, <2>1, <2>2
<1>15. Allowed'
  BY <1>2 DEF PathInv, Allowed
<1> QED
  BY <1>11, <1>12, <1>13, <1>14, <1>15 DEF PathInv

LEMMA PathKept == ASSUME PathInv, [Path!Next]_(Path!vars) PROVE PathInv'
<1>a. window \in Nat /\ proxied \in Nat /\ former \in Nat /\ Allowed
  BY DEF PathInv, PathTyped
<1>b. \A r \in Requests : path \in [Requests -> Flights] /\ path[r] \in Flights /\ path[r].status \in Nat
  <2> SUFFICES ASSUME NEW r \in Requests
               PROVE  path \in [Requests -> Flights] /\ path[r] \in Flights /\ path[r].status \in Nat
    OBVIOUS
  <2>1. path[r] \in Flights
    BY DEF PathInv, PathTyped
  <2> QED
    BY <2>1, FlightFields DEF PathInv, PathTyped
<1>c. \A r \in Requests : path[r].route = "control" => path[r].status = 200 /\ path[r].at # "proxy"
  BY DEF PathInv
<1>1. ASSUME NEW r \in Requests, NEW route \in Path!Routes, Path!Arrive(r, route) PROVE PathInv'
  BY <1>1, ArriveKeeps
<1>2. ASSUME NEW r \in Requests, Path!Fault(r) PROVE PathInv'
  <2>0. path \in [Requests -> Flights] /\ path[r] \in Flights /\ path[r].status \in Nat
    BY <1>b
  <2>1. /\ path[r].at # "absent" /\ (path[r].route = "control" => FALSE)
        /\ path' = [path EXCEPT ![r].at = "answered", ![r].status = 500]
    BY <1>2, <1>c DEF Path!Fault, Path!Answer
  <2>2. UNCHANGED <<active, gauge, counter, arrived, aborted, window, proxied, former>>
    BY <1>2 DEF Path!Fault, Path!metrics, Path!limiter
  <2>3. Moves(r, "answered", 500)
    <3>1. path \in [Requests -> Flights] /\ path' = [path EXCEPT ![r].at = "answered", ![r].status = 500]
      BY <2>0, <2>1
    <3> QED
      BY <3>1, MovedAndAnswered
  <2>4. "answered" \in {"faults", "mux", "proxy", "answered"} /\ 500 \in Nat
    OBVIOUS
  <2> QED
    BY <2>1, <2>2, <2>3, <2>4, <1>a, MoveKeeps DEF Allowed
<1>3. ASSUME NEW r \in Requests, Path!Pass(r) PROVE PathInv'
  <2>0. path \in [Requests -> Flights] /\ path[r] \in Flights /\ path[r].status \in Nat
    BY <1>b
  <2>1. /\ path[r].at # "absent" /\ (path[r].route = "control" => path[r].status = 200)
        /\ path' = [path EXCEPT ![r].at = "mux"]
    BY <1>3, <1>c DEF Path!Pass, Path!Answer
  <2>2. UNCHANGED <<active, gauge, counter, arrived, aborted, window, proxied, former>>
    BY <1>3 DEF Path!Pass, Path!metrics, Path!limiter
  <2>3. Moves(r, "mux", path[r].status)
    <3>1. path' = [path EXCEPT ![r].at = "mux"]
      BY <2>1
    <3> QED
      BY <2>0, <3>1, MovedOnly
  <2>4. "mux" \in {"faults", "mux", "proxy", "answered"} /\ path[r].status \in Nat
    BY <2>0
  <2> QED
    BY <2>1, <2>2, <2>3, <2>4, <1>a, MoveKeeps DEF Allowed
<1>4. ASSUME NEW r \in Requests, Path!Serve(r) PROVE PathInv'
  <2>0. path \in [Requests -> Flights] /\ path[r] \in Flights /\ path[r].status \in Nat
    BY <1>b
  <2>1. /\ path[r].at # "absent" /\ (path[r].route = "control" => TRUE)
        /\ path' = [path EXCEPT ![r].at = "answered", ![r].status = 200]
    BY <1>4, <1>c DEF Path!Serve, Path!Answer
  <2>2. UNCHANGED <<active, gauge, counter, arrived, aborted, window, proxied, former>>
    BY <1>4 DEF Path!Serve, Path!metrics, Path!limiter
  <2>3. Moves(r, "answered", 200)
    <3>1. path \in [Requests -> Flights] /\ path' = [path EXCEPT ![r].at = "answered", ![r].status = 200]
      BY <2>0, <2>1
    <3> QED
      BY <3>1, MovedAndAnswered
  <2>4. "answered" \in {"faults", "mux", "proxy", "answered"} /\ 200 \in Nat
    OBVIOUS
  <2> QED
    BY <2>1, <2>2, <2>3, <2>4, <1>a, MoveKeeps DEF Allowed
<1>5. ASSUME NEW r \in Requests, Path!Admit(r) PROVE PathInv'
  <2>1. /\ path[r].at # "absent" /\ path[r].route # "control" /\ window' = window + 1
        /\ UNCHANGED <<active, gauge, counter, former, arrived, aborted>>
    BY <1>5 DEF Path!Admit, Path!metrics
  <2>2. CASE window' > Limit
    <3>0. path \in [Requests -> Flights] /\ path[r] \in Flights /\ path[r].status \in Nat
      BY <1>b
    <3>1. path' = [path EXCEPT ![r].at = "answered", ![r].status = 429] /\ proxied' = proxied
      BY <1>5, <2>2 DEF Path!Admit, Path!Answer
    <3>2. window' \in Nat /\ proxied' \in Nat /\ former' \in Nat /\ Allowed'
      BY <1>a, <2>1, <2>2, <3>1, LimitAssumption DEF Allowed
    <3>3. Moves(r, "answered", 429)
      BY <3>0, <3>1, MovedAndAnswered
    <3>4. "answered" \in {"faults", "mux", "proxy", "answered"} /\ 429 \in Nat
      OBVIOUS
    <3> QED
      BY <2>1, <3>2, <3>3, <3>4, MoveKeeps
  <2>3. CASE ~(window' > Limit)
    <3>0. path \in [Requests -> Flights] /\ path[r] \in Flights /\ path[r].status \in Nat
      BY <1>b
    <3>1. path' = [path EXCEPT ![r].at = "proxy"] /\ proxied' = proxied + 1
      BY <1>5, <2>3 DEF Path!Admit
    <3>2. window' \in Nat /\ proxied' \in Nat /\ former' \in Nat /\ Allowed'
      BY <1>a, <2>1, <2>3, <3>1, LimitAssumption DEF Allowed
    <3>3. Moves(r, "proxy", path[r].status)
      BY <3>0, <3>1, MovedOnly
    <3>4. "proxy" \in {"faults", "mux", "proxy", "answered"} /\ path[r].status \in Nat
      BY <3>0
    <3> QED
      BY <2>1, <3>2, <3>3, <3>4, MoveKeeps
  <2> QED
    BY <2>2, <2>3
<1>6. ASSUME NEW r \in Requests, NEW status \in {200, 502}, Path!Proxied(r, status) PROVE PathInv'
  <2>0. path \in [Requests -> Flights] /\ path[r] \in Flights /\ path[r].status \in Nat
    BY <1>b
  <2>1. /\ path[r].at # "absent" /\ (path[r].route = "control" => FALSE)
        /\ path' = [path EXCEPT ![r].at = "answered", ![r].status = status]
    BY <1>6, <1>c DEF Path!Proxied, Path!Answer
  <2>2. UNCHANGED <<active, gauge, counter, arrived, aborted, window, proxied, former>>
    BY <1>6 DEF Path!Proxied, Path!metrics, Path!limiter
  <2>3. Moves(r, "answered", status)
    <3>1. path \in [Requests -> Flights] /\ path' = [path EXCEPT ![r].at = "answered", ![r].status = status]
      BY <2>0, <2>1
    <3> QED
      BY <3>1, MovedAndAnswered
  <2>4. "answered" \in {"faults", "mux", "proxy", "answered"} /\ status \in Nat
    OBVIOUS
  <2> QED
    BY <2>1, <2>2, <2>3, <2>4, <1>a, MoveKeeps DEF Allowed
<1>7. ASSUME NEW r \in Requests, Path!Abort(r) PROVE PathInv'
  BY <1>7, AbortKeeps
<1>8. ASSUME NEW r \in Requests, Path!Leave(r) PROVE PathInv'
  BY <1>8, LeaveKeeps
<1>9. ASSUME UNCHANGED <<path, gauge, counter, arrived, aborted>>, active' \in Path!Faults,
             window' \in Nat, proxied' \in Nat, former' \in Nat, Allowed'
      PROVE  PathInv'
  <2>1. path' = path /\ gauge' = gauge /\ counter' = counter /\ arrived' = arrived /\ aborted' = aborted
    BY <1>9
  <2>2. \A b \in BOOLEAN : InFlight(b)' = InFlight(b)
    BY <2>1 DEF InFlight
  <2>3. \A b \in BOOLEAN : gauge'[b] = Cardinality(InFlight(b)') + aborted'[b]
    <3> TAKE b \in BOOLEAN
    <3>1. gauge[b] = Cardinality(InFlight(b)) + aborted[b]
      BY Zenon DEF PathInv
    <3>2. InFlight(b)' = InFlight(b)
      BY <2>2, Zenon
    <3> QED
      BY <2>1, <3>1, <3>2, Zenon
  <2>4. PathTyped'
    <3>1. PathTyped
      BY DEF PathInv
    <3> QED
      BY <1>9, <2>1, <3>1 DEF PathTyped
  <2> QED
    BY <1>9, <2>1, <2>3, <2>4 DEF PathInv
<1>10. CASE Path!ResetWindow
  <2>1. /\ UNCHANGED <<path, gauge, counter, arrived, aborted>> /\ active' = active
        /\ window' = 0 /\ proxied' = 0 /\ former' = proxied
    BY <1>10 DEF Path!ResetWindow, Path!metrics
  <2>2. active' \in Path!Faults /\ 0 \in Nat /\ former' \in Nat /\ Allowed'
    BY <1>a, <2>1, LimitAssumption DEF PathInv, PathTyped, Allowed
  <2> QED
    BY <1>9, <2>1, <2>2
<1>11. CASE Path!FaultsChange \/ UNCHANGED Path!vars
  <2>1. active \in Path!Faults
    BY DEF PathInv, PathTyped
  <2>2. /\ UNCHANGED <<path, gauge, counter, arrived, aborted, window, proxied, former>> /\ active' \in Path!Faults
    BY <1>11, <2>1 DEF Path!FaultsChange, Path!vars, Path!metrics, Path!limiter
  <2> QED
    BY <1>9, <1>a, <2>2 DEF Allowed
<1> QED
  BY <1>1, <1>2, <1>3, <1>4, <1>5, <1>6, <1>7, <1>8, <1>9, <1>10, <1>11 DEF Path!Next

(* Metrics chooses its series before the call and counts after it, which a  *)
(* panic of the proxy skips: however faults come and go meanwhile, each     *)
(* gauge is the requests that arrived under it and the aborted ones, every  *)
(* other request is counted once, the control plane is never struck, and    *)
(* the limiter is a fixed window: the limit between two resets, twice the   *)
(* limit across one.                                                        *)
THEOREM RequestsAlwaysAccounted == Spec => []RequestsAccounted
<1>1. Init => PathInv
  BY PathStart DEF Init
<1>2. PathInv /\ [Next]_vars => PathInv'
  BY StepsAreTheirs, PathKept
<1>3. PathInv => RequestsAccounted
  <2>1. PathInv => \A b \in BOOLEAN : gauge[b] = Cardinality({r \in Requests : path[r].at # "absent" /\ path[r].chaos = b}) + aborted[b]
    BY Zenon DEF PathInv, InFlight
  <2>2. PathInv => former + proxied <= 2 * Limit
    BY LimitAssumption DEF PathInv, PathTyped, Allowed
  <2> QED
    BY <2>1, <2>2, OneCardinality, Zenon DEF PathInv, Allowed, RequestsAccounted, Path!RequestsAccounted
<1> QED
  BY <1>1, <1>2, <1>3, PTL DEF Spec

-----------------------------------------------------------------------------
(* The tokens of the auth service.                                          *)
Places == {"rest", "lookup", "fallback", "answered"}

TokensTyped ==
    /\ login \in [Tokens -> {"none", "cache", "reply", "answered"}]
    /\ owner \in [Tokens -> Usernames \cup {Auth!NoUser}]
    /\ tokens \in [Tokens -> Usernames \cup Strangers \cup {Auth!NoUser}]
    /\ verifier \in [Verifiers -> [at : Places, token : Tokens \cup {Auth!NoToken}, valid : BOOLEAN,
                                   user : Usernames \cup Strangers \cup {Auth!NoUser}]]
    /\ stampeded \subseteq Tokens

(* A token is known to its login alone until that has answered.             *)
Private ==
    \A t \in Tokens : login[t] \in {"cache", "reply"} => \A v \in Verifiers : verifier[v].token # t

Owned == \A t \in Tokens : login[t] # "none" => owner[t] # Auth!NoUser

Kept ==
    \A t \in Tokens : login[t] \in {"reply", "answered"} =>
        tokens[t] = owner[t] \/ (t \in stampeded /\ tokens[t] \in Strangers)

(* A verification that is about to make a user up for a token somebody      *)
(* logged in with was kept from seeing that it is cached.                   *)
Missed ==
    \A v \in Verifiers : verifier[v].at # "rest" =>
        /\ verifier[v].token \in Tokens
        /\ verifier[v].at = "fallback" /\ login[verifier[v].token] = "answered"
              => verifier[v].token \in stampeded

Told ==
    \A v \in Verifiers :
        verifier[v].at = "answered" /\ login[verifier[v].token] = "answered" =>
            \/ verifier[v].valid /\ verifier[v].user = owner[verifier[v].token]
            \/ verifier[v].token \in stampeded

TokenInv == TokensTyped /\ Private /\ Owned /\ Kept /\ Missed /\ Told

-----------------------------------------------------------------------------
LEMMA TokensStart == ASSUME Auth!Init PROVE TokenInv
<1> USE DEF Auth!Init
<1>1. Auth!Resting \in [at : Places, token : Tokens \cup {Auth!NoToken}, valid : BOOLEAN,
                   user : Usernames \cup Strangers \cup {Auth!NoUser}] /\ Auth!Resting.at = "rest"
  BY DEF Auth!Resting, Places
<1>2. TokensTyped
  BY <1>1 DEF TokensTyped
<1> QED
  BY <1>1, <1>2 DEF TokenInv, Private, Owned, Kept, Missed, Told

(* A login's own steps, none of which a verification can see.               *)
LEMMA LoginKeeps ==
    ASSUME TokenInv, NEW t \in Tokens, UNCHANGED <<verifier, stampeded>>,
           \/ Auth!CacheToken(t)
           \/ Auth!AnswerLogin(t)
           \/ \E user \in Usernames : Auth!GenerateToken(t, user)
    PROVE  TokenInv'
<1> USE DEF TokenInv
<1>1. CASE Auth!CacheToken(t)
  <2> USE <1>1 DEF Auth!CacheToken
  <2>1. TokensTyped'
    BY DEF TokensTyped
  <2>2. Private' /\ Owned' /\ Kept'
    BY DEF TokensTyped, Private, Owned, Kept
  <2>3. \A u \in Tokens : login'[u] = "answered" => login[u] = "answered"
    BY DEF TokensTyped
  <2>4. Missed'
    BY <2>3 DEF Missed
  <2>5. Told'
    BY <2>3 DEF Told, Missed
  <2> QED
    BY <2>1, <2>2, <2>4, <2>5
<1>2. CASE Auth!AnswerLogin(t)
  <2> USE <1>2 DEF Auth!AnswerLogin
  <2>1. TokensTyped'
    BY DEF TokensTyped
  <2>2. Private' /\ Owned' /\ Kept'
    BY DEF TokensTyped, Private, Owned, Kept
  <2>3. \A v \in Verifiers : verifier[v].token # t
    BY DEF Private
  <2>4. \A u \in Tokens : u # t => login'[u] = login[u]
    BY DEF TokensTyped
  <2>5. Missed'
    BY <2>3, <2>4 DEF Missed
  <2>6. Told'
    BY <2>3, <2>4 DEF Told, Missed
  <2> QED
    BY <2>1, <2>2, <2>5, <2>6
<1>3. ASSUME NEW user \in Usernames, Auth!GenerateToken(t, user) PROVE TokenInv'
  <2> USE <1>3 DEF Auth!GenerateToken
  <2>1. TokensTyped'
    BY DEF TokensTyped
  <2>2. \A u \in Tokens : u # t => login'[u] = login[u] /\ owner'[u] = owner[u]
    BY DEF TokensTyped
  <2>3. login'[t] = "cache" /\ owner'[t] = user /\ user # Auth!NoUser
    BY TokensAssumption DEF TokensTyped
  <2>4. Private' /\ Owned' /\ Kept'
    BY <2>2, <2>3 DEF Private, Owned, Kept
  <2>5. Missed'
    BY <2>2, <2>3 DEF Missed
  <2>6. Told'
    BY <2>2, <2>3 DEF Told, Missed
  <2> QED
    BY <2>1, <2>4, <2>5, <2>6
<1> QED
  BY <1>1, <1>2, <1>3

(* A verification's steps change no login.                                  *)
LEMMA VerifyKeeps ==
    ASSUME TokenInv, NEW v \in Verifiers, NEW t \in Tokens, Auth!Verify(v, t)
    PROVE  TokenInv'
<1> USE DEF TokenInv, Auth!Verify
<1>1. /\ verifier'[v].at = "lookup" /\ verifier'[v].token = t
      /\ \A w \in Verifiers : w # v => verifier'[w] = verifier[w]
  BY DEF TokensTyped, Auth!Resting
<1>2. TokensTyped'
  BY DEF TokensTyped, Auth!Resting, Places
<1>3. Private' /\ Owned' /\ Kept'
  BY <1>1 DEF Private, Owned, Kept
<1>4. Missed' /\ Told'
  BY <1>1 DEF Missed, Told
<1> QED
  BY <1>2, <1>3, <1>4

LEMMA HitKeeps ==
    ASSUME TokenInv, NEW v \in Verifiers, Auth!Hit(v)
    PROVE  TokenInv'
<1> USE DEF TokenInv
<1> DEFINE t == verifier[v].token
<1>1. /\ verifier[v].at = "lookup" /\ tokens[t] # Auth!NoUser
      /\ verifier' = [verifier EXCEPT ![v].at = "answered", ![v].valid = TRUE, ![v].user = tokens[t]]
      /\ UNCHANGED <<login, owner, tokens, stampeded>>
  BY DEF Auth!Hit, Auth!Answers
<1>2. t \in Tokens
  BY <1>1 DEF Missed
<1>3. /\ verifier'[v] = [verifier[v] EXCEPT !.at = "answered", !.valid = TRUE, !.user = tokens[t]]
      /\ \A w \in Verifiers : w # v => verifier'[w] = verifier[w]
  BY <1>1 DEF TokensTyped
<1>4. /\ verifier'[v].at = "answered" /\ verifier'[v].token = t /\ verifier'[v].valid = TRUE
      /\ verifier'[v].user = tokens[t]
  BY <1>3 DEF TokensTyped
<1>5. TokensTyped'
  <2>1. tokens[t] \in Usernames \cup Strangers \cup {Auth!NoUser}
    BY <1>2 DEF TokensTyped
  <2>2. verifier'[v] \in [at : Places, token : Tokens \cup {Auth!NoToken}, valid : BOOLEAN,
                          user : Usernames \cup Strangers \cup {Auth!NoUser}]
    BY <1>3, <2>1 DEF TokensTyped, Places
  <2>3. verifier' = [w \in Verifiers |-> verifier'[w]]
    BY <1>1 DEF TokensTyped
  <2> QED
    BY <1>1, <1>3, <2>2, <2>3 DEF TokensTyped
<1>6. \A w \in Verifiers : verifier'[w].token = verifier[w].token
  BY <1>3, <1>4
<1>7. Private' /\ Owned' /\ Kept'
  BY <1>1, <1>6 DEF Private, Owned, Kept
<1>8. Missed'
  <2> SUFFICES ASSUME NEW w \in Verifiers, verifier'[w].at # "rest"
               PROVE  /\ verifier'[w].token \in Tokens
                      /\ verifier'[w].at = "fallback" /\ login[verifier'[w].token] = "answered"
                            => verifier'[w].token \in stampeded
    BY <1>1 DEF Missed
  <2>1. CASE w = v
    BY <2>1, <1>2, <1>4
  <2>2. CASE w # v
    BY <2>2, <1>3 DEF Missed
  <2> QED
    BY <2>1, <2>2
<1>9. login[t] = "answered" => tokens[t] = owner[t] \/ t \in stampeded
  BY <1>2 DEF Kept
<1>10. Told'
  <2> SUFFICES ASSUME NEW w \in Verifiers, verifier'[w].at = "answered",
                      login[verifier'[w].token] = "answered"
               PROVE  \/ verifier'[w].valid /\ verifier'[w].user = owner[verifier'[w].token]
                      \/ verifier'[w].token \in stampeded
    BY <1>1 DEF Told
  <2>1. CASE w = v
    BY <2>1, <1>4, <1>9
  <2>2. CASE w # v
    BY <2>2, <1>3 DEF Told
  <2> QED
    BY <2>1, <2>2
<1> QED
  BY <1>5, <1>7, <1>8, <1>10

LEMMA MissKeeps ==
    ASSUME TokenInv, NEW v \in Verifiers, Auth!Miss(v)
    PROVE  TokenInv'
<1> USE DEF TokenInv, Auth!Miss
<1> DEFINE t == verifier[v].token
<1>1. t \in Tokens
  BY DEF Missed
<1>2. /\ verifier'[v].at = "fallback" /\ verifier'[v].token = t
      /\ \A w \in Verifiers : w # v => verifier'[w] = verifier[w]
  BY DEF TokensTyped
<1>3. /\ stampeded \subseteq stampeded' /\ stampeded' \subseteq stampeded \cup {t}
      /\ tokens[t] # Auth!NoUser => t \in stampeded'
  OBVIOUS
<1>4. TokensTyped'
  BY <1>1, <1>3 DEF TokensTyped, Places
<1>5. Private' /\ Owned' /\ Kept'
  BY <1>2, <1>3 DEF Private, Owned, Kept
<1>6. login[t] = "answered" => tokens[t] # Auth!NoUser
  BY <1>1, TokensAssumption DEF Kept, Owned
<1>7. Missed'
  BY <1>1, <1>2, <1>3, <1>6 DEF Missed
<1>8. Told'
  BY <1>2, <1>3 DEF Told
<1> QED
  BY <1>4, <1>5, <1>7, <1>8

LEMMA FallbackKeeps ==
    ASSUME TokenInv, NEW v \in Verifiers, NEW user \in Strangers \cup {Auth!NoUser}, Auth!Fallback(v, user)
    PROVE  TokenInv'
<1> USE DEF TokenInv
<1> DEFINE t == verifier[v].token
<1>1. /\ verifier[v].at = "fallback"
      /\ verifier' = [verifier EXCEPT ![v].at = "answered", ![v].valid = (user # Auth!NoUser), ![v].user = user]
      /\ tokens' = tokens \/ (tokens' = [tokens EXCEPT ![t] = user] /\ user \in Strangers)
      /\ UNCHANGED <<login, owner, stampeded>>
  BY DEF Auth!Fallback, Auth!Answers
<1>2. t \in Tokens /\ (login[t] = "answered" => t \in stampeded) /\ login[t] # "reply"
  BY <1>1 DEF Missed, Private
<1>3. /\ verifier'[v] = [verifier[v] EXCEPT !.at = "answered", !.valid = (user # Auth!NoUser), !.user = user]
      /\ \A w \in Verifiers : w # v => verifier'[w] = verifier[w]
  BY <1>1 DEF TokensTyped
<1>4. verifier'[v].at = "answered" /\ verifier'[v].token = t
  BY <1>3 DEF TokensTyped
<1>5. TokensTyped'
  <2>1. tokens' \in [Tokens -> Usernames \cup Strangers \cup {Auth!NoUser}]
    BY <1>1, <1>2 DEF TokensTyped
  <2>2. (user # Auth!NoUser) \in BOOLEAN
    OBVIOUS
  <2>3. verifier'[v] \in [at : Places, token : Tokens \cup {Auth!NoToken}, valid : BOOLEAN,
                          user : Usernames \cup Strangers \cup {Auth!NoUser}]
    BY <1>3, <2>2 DEF TokensTyped, Places
  <2>4. verifier' = [w \in Verifiers |-> verifier'[w]]
    BY <1>1 DEF TokensTyped
  <2> QED
    BY <1>1, <1>3, <2>1, <2>3, <2>4 DEF TokensTyped
<1>6. /\ \A u \in Tokens : u # t => tokens'[u] = tokens[u]
      /\ tokens'[t] = tokens[t] \/ tokens'[t] \in Strangers
  BY <1>1, <1>2 DEF TokensTyped
<1> HIDE DEF t
<1>7. Private' /\ Owned'
  <2>1. \A w \in Verifiers : verifier'[w].token = verifier[w].token
    BY <1>3, <1>4 DEF t
  <2> QED
    BY <1>1, <2>1 DEF Private, Owned
<1>8. Kept'
  BY <1>1, <1>2, <1>6 DEF Kept
<1>9. Missed'
  <2> SUFFICES ASSUME NEW w \in Verifiers, verifier'[w].at # "rest"
               PROVE  /\ verifier'[w].token \in Tokens
                      /\ verifier'[w].at = "fallback" /\ login[verifier'[w].token] = "answered"
                            => verifier'[w].token \in stampeded
    BY <1>1 DEF Missed
  <2>1. CASE w = v
    BY <2>1, <1>2, <1>4
  <2>2. CASE w # v
    BY <2>2, <1>3 DEF Missed
  <2> QED
    BY <2>1, <2>2
<1>10. Told'
  <2> SUFFICES ASSUME NEW w \in Verifiers, verifier'[w].at = "answered",
                      login[verifier'[w].token] = "answered"
               PROVE  \/ verifier'[w].valid /\ verifier'[w].user = owner[verifier'[w].token]
                      \/ verifier'[w].token \in stampeded
    BY <1>1 DEF Told
  <2>1. CASE w = v
    BY <2>1, <1>2, <1>4
  <2>2. CASE w # v
    BY <2>2, <1>3 DEF Told
  <2> QED
    BY <2>1, <2>2
<1> QED
  BY <1>5, <1>7, <1>8, <1>9, <1>10

LEMMA RestKeeps ==
    ASSUME TokenInv, NEW v \in Verifiers, Auth!Rest(v)
    PROVE  TokenInv'
<1> USE DEF TokenInv, Auth!Rest
<1>1. /\ verifier'[v].at = "rest" /\ verifier'[v].token = Auth!NoToken
      /\ \A w \in Verifiers : w # v => verifier'[w] = verifier[w]
  BY DEF TokensTyped, Auth!Resting
<1>2. TokensTyped'
  BY DEF TokensTyped, Auth!Resting, Places
<1> QED
  BY <1>1, <1>2, TokensAssumption DEF Private, Owned, Kept, Missed, Told

LEMMA TokensKept == ASSUME TokenInv, [Auth!Next]_(Auth!vars) PROVE TokenInv'
<1>1. ASSUME NEW t \in Tokens,
             Auth!CacheToken(t) \/ Auth!AnswerLogin(t) \/ \E user \in Usernames : Auth!GenerateToken(t, user)
      PROVE  TokenInv'
  BY <1>1, LoginKeeps DEF Auth!CacheToken, Auth!AnswerLogin, Auth!GenerateToken
<1>2. CASE UNCHANGED Auth!vars
  BY <1>2 DEF Auth!vars, TokenInv, TokensTyped, Private, Owned, Kept, Missed, Told
<1> QED
  BY <1>1, <1>2, VerifyKeeps, HitKeeps, MissKeeps, FallbackKeeps, RestKeeps DEF Auth!Next

(* handleLogin caches a token before it answers, so only a verification the *)
(* cache failed once can take it from its user, whatever logins and         *)
(* verifications interleave.                                                *)
THEOREM TokensAreKept == Spec => []TokenKeepsUser
<1>1. Init => TokenInv
  BY TokensStart DEF Init
<1>2. TokenInv /\ [Next]_vars => TokenInv'
  BY StepsAreTheirs, TokensKept
<1>3. TokenInv => TokenKeepsUser
  BY DEF TokenInv, Kept, Told, TokenKeepsUser, Auth!TokenKeepsUser
<1> QED
  BY <1>1, <1>2, <1>3, PTL DEF Spec

-----------------------------------------------------------------------------
(* The user store.  A row is a value for each field.                        *)
Row == [Fields -> Values \cup {OldValue}]

Calls == [at : {"idle", "miss", "fill", "read", "merge", "drop"}, id : User!Ids \cup {""},
          user : Row \cup {<<>>}, overtaken : BOOLEAN]

UserTyped ==
    /\ rows \in [DOMAIN rows -> Row] /\ meant \in [DOMAIN rows -> Row]
    /\ cached \in [DOMAIN cached -> Row] /\ DOMAIN cached \subseteq DOMAIN rows
    /\ call \in [Callers -> Calls]

(* A request that has read a row holds what it read until a write.          *)
Holds(q) ==
    q.at \in {"fill", "merge"} =>
        q.id \in DOMAIN rows /\ q.user \in Row /\ (q.overtaken \/ q.user = rows[q.id])

UserInv == UserTyped /\ (\A c \in Callers : Holds(call[c])) /\ User!UsersConsistent

LEMMA UserStart == ASSUME User!Init PROVE UserInv
<1> USE DEF User!Init
<1>1. User!Idle \in Calls /\ User!Idle.at = "idle"
  BY DEF User!Idle, Calls
<1>2. rows = [id \in Seeded |-> [f \in Fields |-> OldValue]] /\ meant = rows
  OBVIOUS
<1>3. [f \in Fields |-> OldValue] \in Row
  BY DEF Row
<1>4. rows \in [DOMAIN rows -> Row] /\ meant \in [DOMAIN rows -> Row]
  BY <1>2, <1>3
<1>5. cached \in [DOMAIN cached -> Row] /\ DOMAIN cached = {}
  OBVIOUS
<1>6. \A c \in Callers : Holds(call[c])
  BY <1>1 DEF Holds
<1> QED
  BY <1>1, <1>2, <1>4, <1>5, <1>6 DEF UserInv, UserTyped, User!UsersConsistent

(* One request moves on, the others stay.                                   *)
LEMMA OneCall ==
    ASSUME UserTyped, NEW c \in Callers, NEW q \in Calls, call' = [call EXCEPT ![c] = q]
    PROVE  call' \in [Callers -> Calls] /\ call'[c] = q /\ \A d \in Callers \ {c} : call'[d] = call[d]
BY DEF UserTyped

LEMMA CallFields ==
    ASSUME NEW c \in Callers, UserTyped
    PROVE  /\ call[c] \in Calls /\ call[c].id \in User!Ids \cup {""} /\ call[c].user \in Row \cup {<<>>}
           /\ call[c].overtaken \in BOOLEAN
BY DEF UserTyped, Calls

(* A request that reads.                                                    *)
LEMMA ReadKeeps ==
    ASSUME UserInv, NEW c \in Callers, NEW q \in Calls, call' = [call EXCEPT ![c] = q],
           call[c].at # "drop", Holds(q), UNCHANGED <<rows, cached, meant, misfit, raced>>
    PROVE  UserInv'
<1>1. UserTyped
  BY DEF UserInv
<1>2. call' \in [Callers -> Calls] /\ call'[c] = q /\ \A d \in Callers \ {c} : call'[d] = call[d]
  BY <1>1, OneCall, Zenon
<1>3. rows' = rows /\ cached' = cached /\ meant' = meant /\ misfit' = misfit /\ raced' = raced
  OBVIOUS
<1>4. UserTyped'
  BY <1>1, <1>2, <1>3 DEF UserTyped
<1>5. \A d \in Callers : Holds(call[d])'
  BY <1>2, <1>3 DEF UserInv, Holds
<1>6. User!UsersConsistent'
  BY <1>2, <1>3 DEF UserInv, User!UsersConsistent
<1> QED
  BY <1>4, <1>5, <1>6 DEF UserInv

LEMMA FillKeeps == ASSUME UserInv, NEW c \in Callers, User!Fill(c) PROVE UserInv'
<1> DEFINE id == call[c].id
<1>1. UserTyped /\ Holds(call[c])
  BY DEF UserInv
<1>2. User!Idle \in Calls /\ User!Idle.at = "idle"
  BY DEF User!Idle, Calls
<1>3. /\ call[c].at = "fill" /\ cached' = User!Put(cached, id, call[c].user)
      /\ misfit' = (IF call[c].overtaken THEN misfit \cup {id} ELSE misfit \ {id})
      /\ call' = [call EXCEPT ![c] = User!Idle] /\ rows' = rows /\ meant' = meant /\ raced' = raced
  BY DEF User!Fill
<1>4. /\ call' \in [Callers -> Calls] /\ call'[c] = User!Idle
      /\ \A d \in Callers \ {c} : call'[d] = call[d]
  BY <1>1, <1>2, <1>3, OneCall, Zenon
<1>5. id \in DOMAIN rows /\ call[c].user \in Row /\ (call[c].overtaken \/ call[c].user = rows[id])
  BY <1>1, <1>3 DEF Holds
<1> HIDE DEF id
<1>6. /\ cached' \in [DOMAIN cached' -> Row] /\ DOMAIN cached' = DOMAIN cached \cup {id}
      /\ cached'[id] = call[c].user /\ \A k \in DOMAIN cached \ {id} : cached'[k] = cached[k]
  <2>1. cached \in [DOMAIN cached -> Row]
    BY <1>1 DEF UserTyped
  <2>2. call[c].user \in Row
    BY <1>5
  <2> QED
    BY <1>3, <2>1, <2>2 DEF User!Put
<1>7. UserTyped'
  BY <1>1, <1>3, <1>4, <1>5, <1>6 DEF UserTyped
<1>8. \A d \in Callers : Holds(call[d])'
  BY <1>2, <1>3, <1>4 DEF UserInv, Holds
<1>9. User!UsersConsistent'
  <2>1. \A k \in DOMAIN cached' : cached'[k] # rows'[k] =>
           k \in misfit' \/ \E d \in Callers : call'[d].at = "drop" /\ call'[d].id = k
    <3> SUFFICES ASSUME NEW k \in DOMAIN cached', cached'[k] # rows[k], k \notin misfit'
                 PROVE  \E d \in Callers : call'[d].at = "drop" /\ call'[d].id = k
      BY <1>3
    <3>1. k # id
      BY <1>3, <1>5, <1>6
    <3>2. k \in DOMAIN cached /\ cached[k] # rows[k] /\ k \notin misfit
      BY <1>3, <1>6, <3>1
    <3>3. PICK d \in Callers : call[d].at = "drop" /\ call[d].id = k
      BY <3>2 DEF UserInv, User!UsersConsistent
    <3>4. d # c
      BY <1>3, <3>3
    <3> QED
      BY <1>4, <3>3, <3>4
  <2> QED
    BY <1>3, <2>1 DEF UserInv, User!UsersConsistent
<1> QED
  BY <1>7, <1>8, <1>9 DEF UserInv

LEMMA DropKeeps == ASSUME UserInv, NEW c \in Callers, User!DropCached(c) PROVE UserInv'
<1> DEFINE id == call[c].id
<1>1. UserTyped
  BY DEF UserInv
<1>2. User!Idle \in Calls /\ User!Idle.at = "idle"
  BY DEF User!Idle, Calls
<1>3. /\ cached' = [k \in DOMAIN cached \ {id} |-> cached[k]] /\ misfit' = misfit \ {id}
      /\ call' = [call EXCEPT ![c] = User!Idle] /\ rows' = rows /\ meant' = meant /\ raced' = raced
  BY DEF User!DropCached
<1>4. /\ call' \in [Callers -> Calls] /\ call'[c] = User!Idle
      /\ \A d \in Callers \ {c} : call'[d] = call[d]
  BY <1>1, <1>2, <1>3, OneCall, Zenon
<1>5. /\ cached' \in [DOMAIN cached' -> Row] /\ DOMAIN cached' = DOMAIN cached \ {id}
      /\ \A k \in DOMAIN cached \ {id} : cached'[k] = cached[k]
  BY <1>1, <1>3 DEF UserTyped
<1>6. UserTyped'
  BY <1>1, <1>3, <1>4, <1>5 DEF UserTyped
<1>7. \A d \in Callers : Holds(call[d])'
  BY <1>2, <1>3, <1>4 DEF UserInv, Holds
<1>8. User!UsersConsistent'
  <2>1. \A k \in DOMAIN cached' : cached'[k] # rows'[k] =>
           k \in misfit' \/ \E d \in Callers : call'[d].at = "drop" /\ call'[d].id = k
    <3> SUFFICES ASSUME NEW k \in DOMAIN cached', cached'[k] # rows[k], k \notin misfit'
                 PROVE  \E d \in Callers : call'[d].at = "drop" /\ call'[d].id = k
      BY <1>3
    <3>1. k # id /\ k \in DOMAIN cached /\ cached[k] # rows[k] /\ k \notin misfit
      BY <1>3, <1>5
    <3>2. PICK d \in Callers : call[d].at = "drop" /\ call[d].id = k
      BY <3>1 DEF UserInv, User!UsersConsistent
    <3>3. d # c
      BY <3>1, <3>2
    <3> QED
      BY <1>4, <3>2, <3>3
  <2> QED
    BY <1>3, <2>1 DEF UserInv, User!UsersConsistent
<1> QED
  BY <1>6, <1>7, <1>8 DEF UserInv

(* A write overtakes the requests that have read the row, and them alone.   *)
LEMMA Overtaken ==
    ASSUME UserTyped, NEW id
    PROVE  /\ User!Overtake(id) \in [Callers -> Calls]
           /\ \A d \in Callers :
                 /\ User!Overtake(id)[d].at = call[d].at /\ User!Overtake(id)[d].id = call[d].id
                 /\ User!Overtake(id)[d].user = call[d].user
                 /\ call[d].overtaken => User!Overtake(id)[d].overtaken
                 /\ call[d].id = id /\ call[d].at \in {"fill", "merge"} => User!Overtake(id)[d].overtaken
<1> SUFFICES ASSUME NEW d \in Callers
    PROVE  /\ User!Overtake(id)[d] \in Calls
           /\ User!Overtake(id)[d].at = call[d].at /\ User!Overtake(id)[d].id = call[d].id
           /\ User!Overtake(id)[d].user = call[d].user
           /\ call[d].overtaken => User!Overtake(id)[d].overtaken
           /\ call[d].id = id /\ call[d].at \in {"fill", "merge"} => User!Overtake(id)[d].overtaken
  BY DEF User!Overtake
<1>1. call[d] \in Calls
  BY CallFields
<1>2. User!Overtake(id)[d] = IF call[d].id = id /\ call[d].at \in {"fill", "merge"}
                             THEN [call[d] EXCEPT !.overtaken = TRUE] ELSE call[d]
  BY DEF User!Overtake
<1>3. CASE call[d].id = id /\ call[d].at \in {"fill", "merge"}
  <2>1. User!Overtake(id)[d] = [call[d] EXCEPT !.overtaken = TRUE]
    BY <1>2, <1>3
  <2> QED
    BY <1>1, <2>1 DEF Calls
<1>4. CASE ~(call[d].id = id /\ call[d].at \in {"fill", "merge"})
  BY <1>1, <1>2, <1>4
<1> QED
  BY <1>3, <1>4

LEMMA CreateKeeps ==
    ASSUME UserInv, NEW c \in Callers, NEW id \in Drawn, NEW user \in User!Users, User!Create(c, id, user)
    PROVE  UserInv'
<1>1. UserTyped
  BY DEF UserInv
<1>2. user \in Row
  BY DEF User!Users, Row
<1>3. /\ rows' = User!Put(rows, id, user) /\ meant' = User!Put(meant, id, user)
      /\ call' = User!Overtake(id) /\ cached' = cached
      /\ misfit' = misfit \cup ({id} \cap DOMAIN cached) /\ raced' = raced \ {id}
  BY DEF User!Create, User!Write
<1>4. /\ rows \in [DOMAIN rows -> Row] /\ meant \in [DOMAIN meant -> Row] /\ DOMAIN meant = DOMAIN rows
  BY <1>1 DEF UserTyped
<1>5. /\ rows' \in [DOMAIN rows' -> Row] /\ DOMAIN rows' = DOMAIN rows \cup {id}
      /\ rows'[id] = user /\ \A k \in DOMAIN rows \ {id} : rows'[k] = rows[k]
  BY <1>2, <1>3, <1>4 DEF User!Put
<1>6. /\ meant' \in [DOMAIN meant' -> Row] /\ DOMAIN meant' = DOMAIN meant \cup {id}
      /\ meant'[id] = user /\ \A k \in DOMAIN meant \ {id} : meant'[k] = meant[k]
  BY <1>2, <1>3, <1>4 DEF User!Put
<1>7. /\ call' \in [Callers -> Calls]
      /\ \A d \in Callers :
            /\ call'[d].at = call[d].at /\ call'[d].id = call[d].id /\ call'[d].user = call[d].user
            /\ call[d].overtaken => call'[d].overtaken
            /\ call[d].id = id /\ call[d].at \in {"fill", "merge"} => call'[d].overtaken
  BY <1>1, <1>3, Overtaken, Zenon
<1>8. UserTyped'
  BY <1>1, <1>3, <1>4, <1>5, <1>6, <1>7 DEF UserTyped
<1>9. \A d \in Callers : Holds(call[d])'
  BY <1>5, <1>7 DEF UserInv, Holds
<1>10. User!UsersConsistent'
  <2>1. \A k \in DOMAIN cached' : cached'[k] # rows'[k] =>
           k \in misfit' \/ \E d \in Callers : call'[d].at = "drop" /\ call'[d].id = k
    <3> SUFFICES ASSUME NEW k \in DOMAIN cached, cached[k] # rows'[k], k \notin misfit'
                 PROVE  \E d \in Callers : call'[d].at = "drop" /\ call'[d].id = k
      BY <1>3
    <3>1. k # id /\ k \notin misfit
      BY <1>3
    <3>2. rows'[k] = rows[k]
      BY <1>1, <1>5, <3>1 DEF UserTyped
    <3>3. PICK d \in Callers : call[d].at = "drop" /\ call[d].id = k
      BY <3>1, <3>2 DEF UserInv, User!UsersConsistent
    <3> QED
      BY <1>7, <3>3
  <2>2. \A k \in DOMAIN rows' : rows'[k] # meant'[k] => k \in raced'
    BY <1>3, <1>4, <1>5, <1>6 DEF UserInv, User!UsersConsistent
  <2> QED
    BY <2>1, <2>2 DEF User!UsersConsistent
<1> QED
  BY <1>8, <1>9, <1>10 DEF UserInv

LEMMA UpdateKeeps ==
    ASSUME UserInv, NEW c \in Callers, NEW body \in User!Bodies, User!Update(c, body)
    PROVE  UserInv'
<1> DEFINE id == call[c].id
           row == User!Merged(call[c].user, body)
           dropping == [User!Idle EXCEPT !.at = "drop", !.id = id]
<1>1. UserTyped /\ call[c].at = "merge"
  BY DEF UserInv, User!Update
<1>2. id \in DOMAIN rows /\ call[c].user \in Row /\ (call[c].overtaken \/ call[c].user = rows[id])
  BY <1>1 DEF UserInv, Holds
<1>3. \A user \in Row : User!Merged(user, body) \in Row
  <2>1. \A f \in DOMAIN body : body[f] \in Values
    BY DEF User!Bodies
  <2> QED
    BY <2>1 DEF Row, User!Merged
<1>3a. row \in Row
  BY <1>2, <1>3
<1>4. /\ rows' = User!Put(rows, id, row) /\ meant' = [meant EXCEPT ![id] = User!Merged(meant[id], body)]
      /\ call' = [User!Overtake(id) EXCEPT ![c] = dropping]
      /\ raced' = (IF call[c].overtaken THEN raced \cup {id} ELSE raced)
      /\ cached' = cached /\ misfit' = misfit
  BY DEF User!Update, User!Write
<1>5. dropping \in Calls /\ dropping.at = "drop" /\ dropping.id = id
  <2>1. call[c].id \in User!Ids \cup {""}
    BY <1>1, CallFields
  <2> QED
    BY <2>1 DEF User!Idle, Calls
<1> HIDE DEF dropping
<1>6. /\ rows \in [DOMAIN rows -> Row] /\ meant \in [DOMAIN rows -> Row]
  BY <1>1 DEF UserTyped
<1>7. /\ rows' \in [DOMAIN rows' -> Row] /\ DOMAIN rows' = DOMAIN rows
      /\ rows'[id] = row /\ \A k \in DOMAIN rows \ {id} : rows'[k] = rows[k]
  <2> HIDE DEF row
  <2> QED
    BY <1>2, <1>3a, <1>4, <1>6 DEF User!Put
<1>8. /\ meant' \in [DOMAIN rows -> Row]
      /\ meant'[id] = User!Merged(meant[id], body) /\ \A k \in DOMAIN rows \ {id} : meant'[k] = meant[k]
  <2>1. meant[id] \in Row
    BY <1>2, <1>6
  <2>2. User!Merged(meant[id], body) \in Row
    BY <1>3, <2>1
  <2> QED
    BY <1>2, <1>4, <1>6, <2>2
<1>9. /\ User!Overtake(id) \in [Callers -> Calls]
      /\ \A d \in Callers :
            /\ User!Overtake(id)[d].at = call[d].at /\ User!Overtake(id)[d].id = call[d].id
            /\ User!Overtake(id)[d].user = call[d].user
            /\ call[d].overtaken => User!Overtake(id)[d].overtaken
            /\ call[d].id = id /\ call[d].at \in {"fill", "merge"} => User!Overtake(id)[d].overtaken
  BY <1>1, Overtaken, Zenon
<1>10. /\ call' \in [Callers -> Calls] /\ call'[c] = dropping
       /\ \A d \in Callers \ {c} : call'[d] = User!Overtake(id)[d]
  BY <1>4, <1>5, <1>9
<1>11. UserTyped'
  BY <1>1, <1>4, <1>6, <1>7, <1>8, <1>10 DEF UserTyped
<1>12. \A d \in Callers : Holds(call[d])'
  <2> SUFFICES ASSUME NEW d \in Callers PROVE Holds(call[d])'
    OBVIOUS
  <2>1. CASE d = c
    BY <1>5, <1>10, <2>1 DEF Holds
  <2>2. CASE d # c
    <3>1. call'[d] = User!Overtake(id)[d]
      BY <1>10, <2>2
    <3>2. Holds(call[d])
      BY DEF UserInv
    <3> QED
      BY <1>7, <1>9, <3>1, <3>2 DEF Holds
  <2> QED
    BY <2>1, <2>2
<1>13. User!UsersConsistent'
  <2>1. \A k \in DOMAIN cached' : cached'[k] # rows'[k] =>
           k \in misfit' \/ \E d \in Callers : call'[d].at = "drop" /\ call'[d].id = k
    <3> SUFFICES ASSUME NEW k \in DOMAIN cached, cached[k] # rows'[k], k \notin misfit
                 PROVE  \E d \in Callers : call'[d].at = "drop" /\ call'[d].id = k
      BY <1>4
    <3>1. CASE k = id
      BY <1>5, <1>10, <3>1
    <3>2. CASE k # id
      <4>1. rows'[k] = rows[k]
        BY <1>1, <1>7, <3>2 DEF UserTyped
      <4>2. PICK d \in Callers : call[d].at = "drop" /\ call[d].id = k
        BY <4>1 DEF UserInv, User!UsersConsistent
      <4>3. d # c
        BY <1>1, <4>2
      <4> QED
        BY <1>9, <1>10, <4>2, <4>3
    <3> QED
      BY <3>1, <3>2
  <2>2. \A k \in DOMAIN rows' : rows'[k] # meant'[k] => k \in raced'
    <3> SUFFICES ASSUME NEW k \in DOMAIN rows, k \notin raced' PROVE rows'[k] = meant'[k]
      BY <1>7
    <3>1. k \notin raced /\ rows[k] = meant[k]
      BY <1>4 DEF UserInv, User!UsersConsistent
    <3>2. CASE k = id
      <4>1. ~call[c].overtaken
        BY <1>4, <3>2
      <4>2. call[c].user = meant[id]
        BY <1>2, <3>1, <3>2, <4>1
      <4> QED
        BY <1>7, <1>8, <3>2, <4>2
    <3>3. CASE k # id
      BY <1>7, <1>8, <3>1, <3>3
    <3> QED
      BY <3>2, <3>3
  <2> QED
    BY <2>1, <2>2 DEF User!UsersConsistent
<1> QED
  BY <1>11, <1>12, <1>13 DEF UserInv

LEMMA UserKept == ASSUME UserInv, [User!Next]_(User!vars) PROVE UserInv'
<1>a. UserTyped
  BY DEF UserInv
<1>1. ASSUME NEW c \in Callers, NEW id \in User!Ids, User!Miss(c, id) \/ User!BeginUpdate(c, id) PROVE UserInv'
  <2> DEFINE begun(place) == [User!Idle EXCEPT !.at = place, !.id = id]
  <2>1. ASSUME NEW place \in {"miss", "read"}
        PROVE  begun(place) \in Calls /\ Holds(begun(place))
    <3>1. begun(place) \in Calls /\ begun(place).at = place
      BY DEF User!Idle, Calls
    <3> HIDE DEF begun
    <3> QED
      BY <3>1 DEF Holds
  <2> HIDE DEF begun
  <2>2. /\ UNCHANGED <<rows, cached, meant, misfit, raced>> /\ call[c].at # "drop"
        /\ call' = [call EXCEPT ![c] = begun("miss")] \/ call' = [call EXCEPT ![c] = begun("read")]
    BY <1>1 DEF User!Miss, User!BeginUpdate, User!history, begun
  <2> QED
    BY <2>1, <2>2, ReadKeeps
<1>2. ASSUME NEW c \in Callers, NEW from \in {"miss", "read"}, NEW to \in {"fill", "merge"}, User!ReadRow(c, from, to)
      PROVE  UserInv'
  <2> DEFINE id == call[c].id
             q == IF id \in DOMAIN rows
                  THEN [at |-> to, id |-> id, user |-> rows[id], overtaken |-> FALSE] ELSE User!Idle
  <2>1. /\ UNCHANGED <<rows, cached, meant, misfit, raced>> /\ call[c].at # "drop"
        /\ call' = [call EXCEPT ![c] = q]
    BY <1>2 DEF User!ReadRow, User!history
  <2>2. q \in Calls /\ Holds(q)
    <3>1. CASE id \in DOMAIN rows
      <4>1. q = [at |-> to, id |-> id, user |-> rows[id], overtaken |-> FALSE]
        BY <3>1
      <4>2. rows[id] \in Row /\ id \in User!Ids \cup {""}
        BY <1>a, <3>1, CallFields DEF UserTyped
      <4> HIDE DEF id, q
      <4> QED
        BY <3>1, <4>1, <4>2 DEF Calls, Holds
    <3>2. CASE id \notin DOMAIN rows
      <4>1. q = User!Idle
        BY <3>2
      <4> QED
        BY <4>1 DEF Calls, Holds, User!Idle
    <3> QED
      BY <3>1, <3>2
  <2> HIDE DEF q
  <2> QED
    BY <2>1, <2>2, ReadKeeps
<1>3. CASE UNCHANGED User!vars
  BY <1>3 DEF User!vars, User!history, UserInv, UserTyped, Holds, User!UsersConsistent
<1> QED
  BY <1>1, <1>2, <1>3, FillKeeps, DropKeeps, CreateKeeps, UpdateKeeps DEF User!Next

(* A read fills the cache with what it read before, an update merges into   *)
(* what it read before, and none of them is atomic: the cache and the       *)
(* database disagree only in the two windows of UsersConsistent, and a      *)
(* value somebody sent is lost only to an update that another overtook.     *)
THEOREM UsersStayConsistent == Spec => []UsersConsistent
<1>1. Init => UserInv
  BY UserStart DEF Init
<1>2. UserInv /\ [Next]_vars => UserInv'
  BY StepsAreTheirs, UserKept
<1>3. UserInv => UsersConsistent
  BY DEF UserInv, UsersConsistent
<1> QED
  BY <1>1, <1>2, <1>3, PTL DEF Spec

-----------------------------------------------------------------------------
(* The notification queue.                                                  *)
NoteTyped ==
    /\ wired \in BOOLEAN /\ closed \in BOOLEAN
    /\ publish \in [Messages -> {"new", "delay", "done"}] /\ dropped \subseteq Messages
    /\ channel \in Seq(Messages) /\ accepted \in Seq(Messages) /\ records \in Seq(Messages)
    /\ consumer \in [at : {"select", "handle", "insert", "gone"}, msg : Messages \cup {Note!Nobody}]
    /\ stats \in [success : Nat, failed : Nat]

(* How many messages have been taken off the channel.                       *)
Count == Len(accepted) - Len(channel)

(* The channel holds the last messages it took, ...                         *)
Queued ==
    /\ Count \in Nat
    /\ \A i \in 1 .. Len(channel) : channel[i] = accepted[Count + i]

(* ... the worker has stored those before, but for the one at hand, ...     *)
Worked ==
    /\ consumer.at \in {"select", "gone"} => Len(records) = Count
    /\ consumer.at \in {"handle", "insert"} =>
          Count >= 1 /\ Len(records) = Count - 1 /\ consumer.msg = accepted[Count]
    /\ \A i \in 1 .. Len(records) : records[i] = accepted[i]
    /\ stats.success + stats.failed = Count - (IF consumer.at = "handle" THEN 1 ELSE 0)

(* ... and each was published once.                                         *)
Published ==
    /\ \A i, j \in 1 .. Len(accepted) : accepted[i] = accepted[j] => i = j
    /\ \A i \in 1 .. Len(accepted) : accepted[i] \notin dropped /\ publish[accepted[i]] = "done"
    /\ \A m \in dropped : publish[m] = "done"
    /\ \A m \in Messages : publish[m] = "done" /\ wired =>
          (\E i \in 1 .. Len(accepted) : accepted[i] = m) \/ m \in dropped \/ crashed

Stopped == (consumer.at = "gone" \/ closed \/ crashed) => stopping

NoteInv == NoteTyped /\ Queued /\ Worked /\ Published /\ Stopped

LEMMA NoteStart == ASSUME Note!Init PROVE NoteInv
<1> USE DEF Note!Init
<1>1. /\ <<>> \in Seq(Messages) /\ Len(<<>>) = 0
  BY EmptySeq, Zenon
<1>2. channel = <<>> /\ accepted = <<>> /\ records = <<>>
  OBVIOUS
<1>3. NoteTyped
  BY <1>1, <1>2 DEF NoteTyped, Note!Nobody
<1>4. Len(channel) = 0 /\ Len(accepted) = 0 /\ Len(records) = 0
  BY <1>1, <1>2, Zenon
<1>5. Count = 0
  BY <1>4 DEF Count
<1>5a. consumer.at = "select" /\ stats.success = 0 /\ stats.failed = 0
  OBVIOUS
<1>6. Queued
  BY <1>4, <1>5 DEF Queued
<1>6a. Worked
  <2>1. Len(records) = Count /\ \A i \in 1 .. Len(records) : records[i] = accepted[i]
    BY <1>4, <1>5
  <2>2. stats.success + stats.failed = Count
    BY <1>5, <1>5a
  <2>3. Count - 0 = Count /\ consumer.at # "handle"
    BY <1>5, <1>5a
  <2>4. consumer.at \notin {"handle", "insert"}
    BY <1>5a
  <2> QED
    BY <2>1, <2>2, <2>3, <2>4, Zenon DEF Worked
<1>7. Published /\ Stopped
  BY <1>4 DEF Published, Stopped
<1> QED
  BY <1>3, <1>6, <1>6a, <1>7 DEF NoteInv

LEMMA Appended ==
    ASSUME NEW S, NEW s \in Seq(S), NEW x \in S
    PROVE  /\ Append(s, x) \in Seq(S) /\ Len(s) \in Nat /\ Len(Append(s, x)) = Len(s) + 1
           /\ Append(s, x)[Len(s) + 1] = x /\ \A i \in 1 .. Len(s) : Append(s, x)[i] = s[i]
OBVIOUS

LEMMA Lengths ==
    ASSUME NoteTyped
    PROVE  Len(channel) \in Nat /\ Len(accepted) \in Nat /\ Len(records) \in Nat
BY DEF NoteTyped

LEMMA SendKeeps == ASSUME NoteInv, ~crashed, NEW m \in Messages, Note!Send(m) PROVE NoteInv'
<1> USE DEF Note!Send, Note!queueVars, Note!workVars
<1>1. NoteTyped /\ Queued /\ Worked /\ Published /\ Stopped
  BY DEF NoteInv
<1>2. /\ publish[m] = "delay" /\ publish' = [publish EXCEPT ![m] = "done"] /\ crashed' = closed
      /\ UNCHANGED <<wired, consumer, stats, records, stopping, closed>>
  OBVIOUS
<1>3. /\ publish' \in [Messages -> {"new", "delay", "done"}]
      /\ publish'[m] = "done" /\ \A p \in Messages \ {m} : publish'[p] = publish[p]
  BY <1>1, <1>2 DEF NoteTyped
<1>4. \A i \in 1 .. Len(accepted) : accepted[i] \in Messages /\ accepted[i] # m
  BY <1>1, <1>2 DEF NoteTyped, Published
<1>5. m \notin dropped
  BY <1>1, <1>2 DEF Published
<1>6. Stopped'
  BY <1>1, <1>2 DEF Stopped
<1>7. CASE closed
  <2>1. crashed' /\ UNCHANGED <<channel, accepted, dropped>>
    BY <1>2, <1>7
  <2>2. NoteTyped'
    BY <1>1, <1>2, <1>3, <2>1 DEF NoteTyped
  <2>3. Queued' /\ Worked'
    BY <1>1, <1>2, <2>1 DEF Queued, Worked, Count
  <2>4. Published'
    BY <1>1, <1>3, <2>1 DEF Published, NoteTyped
  <2> QED
    BY <1>6, <2>2, <2>3, <2>4 DEF NoteInv
<1>8. CASE ~closed /\ Len(channel) < Buffer
  <2>1. channel' = Append(channel, m) /\ accepted' = Append(accepted, m) /\ dropped' = dropped
    BY <1>8
  <2>2. channel \in Seq(Messages) /\ accepted \in Seq(Messages)
    BY <1>1 DEF NoteTyped
  <2>3. /\ channel' \in Seq(Messages) /\ Len(channel) \in Nat /\ Len(channel') = Len(channel) + 1
        /\ channel'[Len(channel) + 1] = m /\ \A i \in 1 .. Len(channel) : channel'[i] = channel[i]
    BY <2>1, <2>2, Appended
  <2>4. /\ accepted' \in Seq(Messages) /\ Len(accepted) \in Nat /\ Len(accepted') = Len(accepted) + 1
        /\ accepted'[Len(accepted) + 1] = m /\ \A i \in 1 .. Len(accepted) : accepted'[i] = accepted[i]
    BY <2>1, <2>2, Appended
  <2>5. Count' = Count /\ Count \in Nat /\ Count + Len(channel) = Len(accepted)
    BY <1>1, <2>3, <2>4 DEF Count, Queued
  <2>6. NoteTyped'
    BY <1>1, <1>2, <1>3, <2>1, <2>3, <2>4 DEF NoteTyped
  <2>7. Queued'
    <3> SUFFICES ASSUME NEW i \in 1 .. Len(channel') PROVE channel'[i] = accepted'[Count + i]
      BY <2>5 DEF Queued
    <3>1. CASE i = Len(channel) + 1
      BY <2>3, <2>4, <2>5, <3>1
    <3>2. CASE i # Len(channel) + 1
      <4>1. i \in 1 .. Len(channel) /\ Count + i \in 1 .. Len(accepted)
        BY <2>3, <2>4, <2>5, <3>2
      <4>2. channel[i] = accepted[Count + i]
        BY <1>1, <4>1 DEF Queued
      <4> QED
        BY <2>3, <2>4, <4>1, <4>2
    <3> QED
      BY <3>1, <3>2
  <2>8. Worked'
    <3>1. Len(records) \in Nat /\ Len(records) <= Count
      BY <1>1, <2>5, Lengths DEF Worked, NoteTyped
    <3>2. \A i \in 1 .. Len(records) : records[i] = accepted'[i]
      BY <1>1, <2>3, <2>4, <2>5, <3>1 DEF Worked
    <3>3. Count >= 1 => accepted'[Count] = accepted[Count]
      BY <2>3, <2>4, <2>5
    <3> QED
      BY <1>1, <1>2, <2>5, <3>2, <3>3 DEF Worked
  <2>9. Published'
    <3>1. \A i, j \in 1 .. Len(accepted') : accepted'[i] = accepted'[j] => i = j
      BY <1>1, <1>4, <2>4 DEF Published
    <3>2. \A i \in 1 .. Len(accepted') : accepted'[i] \notin dropped' /\ publish'[accepted'[i]] = "done"
      BY <1>1, <1>3, <1>4, <1>5, <2>1, <2>4 DEF Published
    <3>3. \A p \in dropped' : publish'[p] = "done"
      BY <1>1, <1>3, <1>5, <2>1 DEF Published, NoteTyped
    <3>4. \A p \in Messages : publish'[p] = "done" /\ wired' =>
             (\E i \in 1 .. Len(accepted') : accepted'[i] = p) \/ p \in dropped' \/ crashed'
      BY <1>1, <1>2, <1>3, <2>1, <2>4 DEF Published
    <3> QED
      BY <3>1, <3>2, <3>3, <3>4 DEF Published
  <2> QED
    BY <1>6, <2>6, <2>7, <2>8, <2>9 DEF NoteInv
<1>9. CASE ~closed /\ ~(Len(channel) < Buffer)
  <2>1. UNCHANGED <<channel, accepted>> /\ dropped' = dropped \cup {m}
    BY <1>9
  <2>2. NoteTyped'
    BY <1>1, <1>2, <1>3, <2>1 DEF NoteTyped
  <2>3. Queued' /\ Worked'
    BY <1>1, <1>2, <2>1 DEF Queued, Worked, Count
  <2>4. Published'
    BY <1>1, <1>2, <1>3, <1>4, <2>1 DEF Published, NoteTyped
  <2> QED
    BY <1>6, <2>2, <2>3, <2>4 DEF NoteInv
<1> QED
  BY <1>7, <1>8, <1>9

(* The worker's own steps leave what was published.                         *)
LEMMA ConsumeKeeps ==
    ASSUME NoteInv, Note!Consume, UNCHANGED <<wired, publish, stopping, crashed>>
    PROVE  NoteInv'
<1> USE DEF Note!Consume
<1>1. NoteTyped /\ Queued /\ Worked /\ Published /\ Stopped
  BY DEF NoteInv
<1>2. /\ consumer.at = "select" /\ channel # <<>> /\ channel' = Tail(channel)
      /\ consumer' = [at |-> "handle", msg |-> Head(channel)]
      /\ UNCHANGED <<closed, dropped, accepted, stats, records>>
  OBVIOUS
<1>3. channel \in Seq(Messages)
  BY <1>1 DEF NoteTyped
<1>4. /\ Head(channel) \in Messages /\ Tail(channel) \in Seq(Messages) /\ Len(Tail(channel)) = Len(channel) - 1
      /\ Head(channel) = channel[1] /\ Len(channel) \in Nat /\ Len(channel) >= 1
      /\ \A i \in 1 .. Len(channel) - 1 : Tail(channel)[i] = channel[i + 1]
  BY <1>2, <1>3
<1>5. /\ channel' \in Seq(Messages) /\ Len(channel') = Len(channel) - 1
      /\ \A i \in 1 .. Len(channel) - 1 : channel'[i] = channel[i + 1]
  BY <1>2, <1>4
<1>6. consumer'.at = "handle" /\ consumer'.msg = channel[1]
  BY <1>2, <1>4
<1>7. Count' = Count + 1 /\ Count \in Nat /\ Len(accepted) \in Nat /\ Count + Len(channel) = Len(accepted)
  BY <1>1, <1>2, <1>4, <1>5, Lengths DEF Count, Queued
<1>8. NoteTyped'
  BY <1>1, <1>2, <1>4, <1>5 DEF NoteTyped
<1>9. Queued'
  BY <1>1, <1>2, <1>4, <1>5, <1>7 DEF Queued
<1>10. channel[1] = accepted[Count + 1]
  BY <1>1, <1>4 DEF Queued
<1>11. Worked'
  BY <1>1, <1>2, <1>6, <1>7, <1>10 DEF Worked
<1>12. Published' /\ Stopped'
  BY <1>1, <1>2 DEF Published, Stopped
<1> QED
  BY <1>8, <1>9, <1>11, <1>12 DEF NoteInv

LEMMA HandleKeeps ==
    ASSUME NoteInv, NEW success \in BOOLEAN, Note!HandleOrderCreated(success),
           UNCHANGED <<wired, publish, stopping, crashed>>
    PROVE  NoteInv'
<1>1. NoteTyped /\ Queued /\ Worked /\ Published /\ Stopped
  BY DEF NoteInv
<1>2. /\ consumer.at = "handle" /\ consumer' = [consumer EXCEPT !.at = "insert"]
      /\ stats' = [stats EXCEPT !.success = @ + 1] \/ stats' = [stats EXCEPT !.failed = @ + 1]
      /\ UNCHANGED <<channel, closed, dropped, accepted, records>>
  BY DEF Note!HandleOrderCreated, Note!Counted, Note!queueVars
<1>3. consumer'.at = "insert" /\ consumer'.msg = consumer.msg /\ consumer' \in [at : {"select", "handle", "insert", "gone"}, msg : Messages \cup {Note!Nobody}]
  BY <1>1, <1>2 DEF NoteTyped
<1>4. stats' \in [success : Nat, failed : Nat] /\ stats'.success + stats'.failed = stats.success + stats.failed + 1
  <2>1. stats \in [success : Nat, failed : Nat]
    BY <1>1 DEF NoteTyped
  <2>2. CASE stats' = [stats EXCEPT !.success = @ + 1]
    BY <2>1, <2>2
  <2>3. CASE stats' = [stats EXCEPT !.failed = @ + 1]
    BY <2>1, <2>3
  <2> QED
    BY <1>2, <2>2, <2>3
<1>5. Count' = Count /\ Count \in Nat
  BY <1>1, <1>2 DEF Count, Queued
<1>6. NoteTyped'
  BY <1>1, <1>2, <1>3, <1>4 DEF NoteTyped
<1>7. Queued' /\ Published' /\ Stopped'
  BY <1>1, <1>2, <1>3, <1>5 DEF Queued, Published, Stopped
<1>8. Worked'
  BY <1>1, <1>2, <1>3, <1>4, <1>5 DEF Worked
<1> QED
  BY <1>6, <1>7, <1>8 DEF NoteInv

LEMMA InsertKeeps ==
    ASSUME NoteInv, Note!InsertRecord, UNCHANGED <<wired, publish, stopping, crashed>>
    PROVE  NoteInv'
<1>1. NoteTyped /\ Queued /\ Worked /\ Published /\ Stopped
  BY DEF NoteInv
<1>2. /\ consumer.at = "insert" /\ consumer' = [at |-> "select", msg |-> Note!Nobody]
      /\ records' = Append(records, consumer.msg)
      /\ UNCHANGED <<channel, closed, dropped, accepted, stats>>
  BY DEF Note!InsertRecord, Note!queueVars
<1>3. /\ Count \in Nat /\ Count' = Count /\ Count >= 1 /\ Len(records) = Count - 1
      /\ consumer.msg = accepted[Count] /\ Count <= Len(accepted)
  BY <1>1, <1>2, Lengths DEF Queued, Worked, Count
<1>4. records \in Seq(Messages) /\ accepted \in Seq(Messages) /\ accepted[Count] \in Messages
  BY <1>1, <1>3, Lengths DEF NoteTyped
<1>5. /\ records' \in Seq(Messages) /\ Len(records') = Count
      /\ records'[Count] = accepted[Count] /\ \A i \in 1 .. Count - 1 : records'[i] = records[i]
  BY <1>2, <1>3, <1>4, Appended
<1>6. consumer'.at = "select"
  BY <1>2
<1>7. NoteTyped'
  BY <1>1, <1>2, <1>5 DEF NoteTyped
<1>8. Queued' /\ Published' /\ Stopped'
  BY <1>1, <1>2, <1>3, <1>6 DEF Queued, Published, Stopped
<1>9. \A i \in 1 .. Len(records') : records'[i] = accepted[i]
  BY <1>1, <1>3, <1>5 DEF Worked
<1>10. Worked'
  BY <1>1, <1>2, <1>3, <1>5, <1>6, <1>9 DEF Worked
<1> QED
  BY <1>7, <1>8, <1>10 DEF NoteInv

LEMMA NoteKept == ASSUME NoteInv, [Note!Next]_(Note!vars) PROVE NoteInv'
<1> USE DEF Note!Next, Note!Step, Note!Up, Note!queueVars, Note!workVars
<1>1. NoteTyped /\ Queued /\ Worked /\ Published /\ Stopped
  BY DEF NoteInv
<1>2. ASSUME NEW m \in Messages, Note!Publish(m) PROVE NoteInv'
  <2>1. /\ publish[m] = "new" /\ publish' = [publish EXCEPT ![m] = IF wired THEN "delay" ELSE "done"]
        /\ UNCHANGED <<wired, channel, closed, dropped, accepted, consumer, stats, records, stopping, crashed>>
    BY <1>2 DEF Note!Publish
  <2>2. NoteTyped'
    BY <1>1, <2>1 DEF NoteTyped
  <2>3. Queued' /\ Worked' /\ Stopped'
    BY <1>1, <2>1 DEF Queued, Worked, Stopped, Count
  <2>4. /\ publish'[m] = (IF wired THEN "delay" ELSE "done")
        /\ \A p \in Messages \ {m} : publish'[p] = publish[p]
    BY <1>1, <2>1 DEF NoteTyped
  <2>5. /\ \A i \in 1 .. Len(accepted) : accepted[i] \in Messages /\ accepted[i] # m
        /\ m \notin dropped /\ dropped \subseteq Messages
    BY <1>1, <2>1 DEF NoteTyped, Published
  <2>6. Published'
    BY <1>1, <2>1, <2>4, <2>5 DEF Published
  <2> QED
    BY <2>2, <2>3, <2>6 DEF NoteInv
<1>3. CASE Note!Work
  <2>1. UNCHANGED <<wired, publish, stopping, crashed>>
    BY <1>3 DEF Note!Work
  <2>2. CASE Note!ConsumerReturns
    <3>1. /\ consumer.at = "select" /\ (stopping \/ closed) /\ consumer' = [at |-> "gone", msg |-> Note!Nobody]
          /\ UNCHANGED <<channel, closed, dropped, accepted, stats, records>>
      BY <2>2 DEF Note!ConsumerReturns
    <3>2. consumer'.at = "gone"
      BY <3>1
    <3>3. NoteTyped'
      BY <1>1, <2>1, <3>1 DEF NoteTyped
    <3>4. Queued' /\ Worked' /\ Published' /\ Stopped'
      BY <1>1, <2>1, <3>1, <3>2 DEF Queued, Worked, Published, Stopped, Count
    <3> QED
      BY <3>3, <3>4 DEF NoteInv
  <2> QED
    BY <1>3, <2>1, <2>2, ConsumeKeeps, HandleKeeps, InsertKeeps DEF Note!Work
<1>4. CASE Note!Stop \/ Note!CancelSub \/ Note!Shutdown \/ UNCHANGED Note!vars
  <2>1. /\ UNCHANGED <<wired, publish, channel, dropped, accepted, consumer, stats, records, crashed>>
        /\ (stopping => stopping') /\ closed' \in BOOLEAN /\ (closed' => closed \/ stopping)
    <3>1. closed \in BOOLEAN
      BY <1>1 DEF NoteTyped
    <3>2. CASE Note!Stop
      BY <3>1, <3>2 DEF Note!Stop
    <3>3. CASE Note!CancelSub
      BY <3>1, <3>3 DEF Note!CancelSub
    <3>4. CASE Note!Shutdown
      BY <3>1, <3>4 DEF Note!Shutdown
    <3>5. CASE UNCHANGED Note!vars
      BY <3>1, <3>5 DEF Note!vars
    <3> QED
      BY <1>4, <3>2, <3>3, <3>4, <3>5
  <2>2. NoteTyped'
    BY <1>1, <2>1 DEF NoteTyped
  <2>3. Queued' /\ Worked' /\ Published' /\ Stopped'
    BY <1>1, <2>1 DEF Queued, Worked, Published, Stopped, Count
  <2> QED
    BY <2>2, <2>3 DEF NoteInv
<1> QED
  BY <1>2, <1>3, <1>4, SendKeeps

-----------------------------------------------------------------------------
(* What that says of the sequences themselves.                              *)
LEMMA InOrder == ASSUME NoteInv PROVE Note!HandledInOrder
<1>1. NoteTyped /\ Queued /\ Worked /\ Published /\ Stopped
  BY DEF NoteInv
<1> DEFINE s == Note!Taken
<1>2. accepted \in Seq(Messages) /\ channel \in Seq(Messages) /\ records \in Seq(Messages)
  BY <1>1 DEF NoteTyped
<1>3. Count \in Nat /\ Count <= Len(accepted) /\ Count + Len(channel) = Len(accepted) /\ Len(accepted) \in Nat
  BY <1>1, Lengths DEF Queued, Count
<1>4. s = [i \in 1 .. Count |-> accepted[i]]
  BY DEF Note!Taken, Count
<1>5. \A i \in 1 .. Count : accepted[i] \in Messages
  BY <1>2, <1>3
<1>6. s \in Seq(Messages) /\ Len(s) = Count /\ \A i \in 1 .. Count : s[i] = accepted[i]
  BY <1>3, <1>4, <1>5
<1> HIDE DEF s
<1>7. accepted = s \o channel
  <2>1. /\ s \o channel \in Seq(Messages) /\ Len(s \o channel) = Count + Len(channel)
        /\ \A i \in 1 .. Count + Len(channel) : (s \o channel)[i] = IF i <= Count THEN s[i] ELSE channel[i - Count]
    BY <1>2, <1>6, ConcatProperties
  <2>2. \A i \in 1 .. Len(accepted) : accepted[i] = (s \o channel)[i]
    <3> SUFFICES ASSUME NEW i \in 1 .. Len(accepted) PROVE accepted[i] = (s \o channel)[i]
      OBVIOUS
    <3>1. CASE i <= Count
      BY <1>3, <1>6, <2>1, <3>1
    <3>2. CASE ~(i <= Count)
      <4>1. i - Count \in 1 .. Len(channel) /\ Count + (i - Count) = i
        BY <1>2, <1>3, <3>2
      <4>2. channel[i - Count] = accepted[Count + (i - Count)]
        BY <1>1, <4>1 DEF Queued
      <4> QED
        BY <1>3, <2>1, <3>2, <4>1, <4>2
    <3> QED
      BY <3>1, <3>2
  <2> QED
    BY <1>2, <1>3, <2>1, <2>2, SeqEqual
<1>8. DOMAIN accepted = 1 .. Len(accepted)
  BY <1>2
<1>9. /\ Note!IsInjective(accepted)
      /\ Note!ToSet(accepted) \cap dropped = {}
      /\ \A m \in Messages : publish[m] = "done" /\ wired => m \in Note!ToSet(accepted) \cup dropped \/ crashed
  BY <1>1, <1>8 DEF Note!IsInjective, Note!ToSet, Published
<1>10. CASE consumer.at \in {"handle", "insert"}
  <2>1. Note!Front(s) = SubSeq(s, 1, Count - 1)
    BY <1>6 DEF Note!Front
  <2>2. /\ Note!Front(s) \in Seq(Messages) /\ Len(Note!Front(s)) = Count - 1
        /\ \A i \in 1 .. Count - 1 : Note!Front(s)[i] = accepted[i]
    BY <1>1, <1>3, <1>6, <1>10, <2>1 DEF Worked
  <2>3. records = Note!Front(s)
    BY <1>1, <1>2, <1>10, <2>2, SeqEqual DEF Worked
  <2>4. stats.success + stats.failed = (IF consumer.at = "insert" THEN Len(s) ELSE Len(Note!Front(s)))
    BY <1>1, <1>3, <1>6, <1>10, <2>2 DEF Worked
  <2> QED
    BY <1>1, <1>7, <1>9, <1>10, <2>3, <2>4 DEF Note!HandledInOrder, s, Stopped
<1>11. CASE consumer.at \in {"select", "gone"}
  <2>1. records = s
    BY <1>1, <1>2, <1>6, <1>11, SeqEqual DEF Worked
  <2>2. stats.success + stats.failed = Len(s)
    BY <1>1, <1>3, <1>6, <1>11 DEF Worked
  <2> QED
    BY <1>1, <1>7, <1>9, <1>11, <2>1, <2>2 DEF Note!HandledInOrder, s, Stopped
<1>12. consumer.at \in {"select", "handle", "insert", "gone"}
  BY <1>1 DEF NoteTyped
<1> QED
  BY <1>10, <1>11, <1>12

(* Publish sends later and to whatever the channel is by then, and the      *)
(* worker may be told to stop at any time: what the channel took is still   *)
(* handled in its order, once and counted, and what it did not take met a   *)
(* full or a closed one.                                                    *)
THEOREM AlwaysHandledInOrder == Spec => []HandledInOrder
<1>1. Init => NoteInv
  BY NoteStart DEF Init
<1>2. NoteInv /\ [Next]_vars => NoteInv'
  BY StepsAreTheirs, NoteKept
<1>3. NoteInv => HandledInOrder
  BY InOrder DEF HandledInOrder
<1> QED
  BY <1>1, <1>2, <1>3, PTL DEF Spec

=============================================================================
