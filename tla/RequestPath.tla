----------------------------- MODULE RequestPath -----------------------------
(***************************************************************************)
(* A request on its way through the middleware every service has           *)
(* (internal/middleware: Logging, Metrics, Tracing, ChaosFaults) and, in   *)
(* the gateway, through the rate limiter and the reverse proxy.            *)
(*                                                                         *)
(* A proxy that loses the connection half way through a response panics,   *)
(* to make the server drop the client too (external: httputil); what       *)
(* Metrics does after its call is not deferred and is skipped.             *)
(*                                                                         *)
(* Faults are reduced to whether none, one of another kind, or an error    *)
(* budget is active.  Delays, spans, headers and log lines are left out.   *)
(***************************************************************************)
EXTENDS Naturals, FiniteSets

CONSTANTS
    Requests,   \* requests in progress
    Limit,      \* requests proxied between two resets, 1000
    MaxArrived  \* bound: requests

VARIABLES
    active,    \* the faults of this process
    path,      \* the requests
    gauge,     \* telemetry.ActiveRequests, a series for each chaos.active
    counter,   \* telemetry.RequestCounter
    failures,  \* telemetry.ErrorCounter
    window,    \* requestCount
    proxied,   \* history: requests proxied since the counter was last reset
    former,    \* history: requests proxied between that reset and the one before
    arrived,   \* requests so far
    aborted    \* history: requests a panic ended, in each series

metrics == <<gauge, counter, failures>>
limiter == <<window, proxied, former>>
vars == <<active, path, metrics, limiter, arrived, aborted>>

-----------------------------------------------------------------------------
Faults == {"none", "other", "error_budget"}

(* /chaos, /ops and /health; and what is proxied.                          *)
Routes == {"control", "api"}

Absent == [at |-> "absent", route |-> "", chaos |-> FALSE, status |-> 200]

Init ==
    /\ active = "none"
    /\ path = [r \in Requests |-> Absent]
    /\ gauge = [b \in BOOLEAN |-> 0] /\ counter = gauge /\ failures = gauge /\ aborted = gauge
    /\ window = 0 /\ proxied = 0 /\ former = 0 /\ arrived = 0

Answer(r, status) == path' = [path EXCEPT ![r].at = "answered", ![r].status = status]

-----------------------------------------------------------------------------
(* Metrics, before the call: the series is chosen here, once.              *)
Arrive(r, route) ==
    /\ path[r].at = "absent"
    /\ arrived < MaxArrived
    /\ arrived' = arrived + 1
    /\ path' = [path EXCEPT ![r] = [at |-> "faults", route |-> route, chaos |-> active # "none", status |-> 200]]
    /\ gauge' = [gauge EXCEPT ![active # "none"] = @ + 1]
    /\ UNCHANGED <<active, counter, failures, limiter, aborted>>

(* ChaosFaults.                                                            *)
Fault(r) ==
    /\ path[r].at = "faults" /\ path[r].route = "api" /\ active = "error_budget"
    /\ Answer(r, 500)
    /\ UNCHANGED <<active, metrics, limiter, arrived, aborted>>

Pass(r) ==
    /\ path[r].at = "faults"
    /\ path' = [path EXCEPT ![r].at = "mux"]
    /\ UNCHANGED <<active, metrics, limiter, arrived, aborted>>

(* The process's own handlers.                                             *)
Serve(r) ==
    /\ path[r].at = "mux" /\ path[r].route = "control"
    /\ Answer(r, 200)
    /\ UNCHANGED <<active, metrics, limiter, arrived, aborted>>

(* proxyHandler's limiter.  What is turned away counts too.                *)
Admit(r) ==
    /\ path[r].at = "mux" /\ path[r].route = "api"
    /\ window' = window + 1
    /\ IF window' > Limit
       THEN Answer(r, 429) /\ UNCHANGED proxied
       ELSE path' = [path EXCEPT ![r].at = "proxy"] /\ proxied' = proxied + 1
    /\ UNCHANGED <<active, metrics, former, arrived, aborted>>

(* The service's answer, passed on, or the ErrorHandler's 502.             *)
Proxied(r, status) ==
    /\ path[r].at = "proxy"
    /\ Answer(r, status)
    /\ UNCHANGED <<active, metrics, limiter, arrived, aborted>>

Abort(r) ==
    /\ path[r].at = "proxy"
    /\ path' = [path EXCEPT ![r] = Absent]
    /\ aborted' = [aborted EXCEPT ![path[r].chaos] = @ + 1]
    /\ UNCHANGED <<active, metrics, limiter, arrived>>

Done(r, series) ==
    /\ path[r].at = "answered"
    /\ gauge' = [gauge EXCEPT ![series] = @ - 1]
    /\ counter' = [counter EXCEPT ![series] = @ + 1]
    /\ failures' = IF path[r].status >= 400 THEN [failures EXCEPT ![series] = @ + 1] ELSE failures
    /\ path' = [path EXCEPT ![r] = Absent]
    /\ UNCHANGED <<active, limiter, arrived, aborted>>

MutLeave(r) == Done(r, active # "none")

(* Metrics, after the call.                                                *)
Leave(r) == Done(r, path[r].chaos)

-----------------------------------------------------------------------------
(* Every second.                                                           *)
ResetWindow ==
    /\ window' = 0 /\ proxied' = 0 /\ former' = proxied
    /\ UNCHANGED <<active, path, metrics, arrived, aborted>>

FaultsChange ==
    /\ active' \in Faults
    /\ UNCHANGED <<path, metrics, limiter, arrived, aborted>>

Next ==
    \/ \E r \in Requests :
          \/ \E route \in Routes : Arrive(r, route)
          \/ Fault(r) \/ Pass(r) \/ Serve(r) \/ Admit(r) \/ Abort(r) \/ Leave(r)
          \/ \E status \in {200, 502} : Proxied(r, status)
    \/ ResetWindow
    \/ FaultsChange

Spec == Init /\ [][Next]_vars

-----------------------------------------------------------------------------
(* However faults come and go while requests are in progress, each series  *)
(* of the gauge counts the requests in progress that arrived under it, and *)
(* drifts by one for each aborted proxy and by nothing else; every other   *)
(* request is counted once.  No fault or limit strikes the control plane.  *)
(* The limiter is a fixed window: it turns nothing away before the limit   *)
(* is used up and lets no more through until the counter is reset, which   *)
(* is no bound on every second.  A span that sees one reset, as a second   *)
(* may, lets through up to twice the limit, and never more.                *)
RequestsAccounted ==
    /\ \A b \in BOOLEAN :
          gauge[b] = Cardinality({r \in Requests : path[r].at # "absent" /\ path[r].chaos = b}) + aborted[b]
    /\ arrived = gauge[TRUE] + gauge[FALSE] + counter[TRUE] + counter[FALSE]
    /\ \A r \in Requests : path[r].route = "control" => path[r].status = 200
    /\ proxied = IF window <= Limit THEN window ELSE Limit
    /\ former + proxied <= 2 * Limit
=============================================================================
