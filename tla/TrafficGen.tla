----------------------------- MODULE TrafficGen -----------------------------
(***************************************************************************)
(* The traffic generator (cmd/traffic): sessions that send the steps of a  *)
(* journey one after the other, or, in legacy mode, single requests on a   *)
(* ticker that bursts speed up; what the answers teach the next requests;  *)
(* and the statistics a summary prints twice a minute and at the end.      *)
(*                                                                         *)
(* Rates and probabilities become choices.  A latency is left out, so the  *)
(* list of them is its length.                                             *)
(***************************************************************************)
EXTENDS Naturals, Sequences, SequencesExt

CONSTANTS
    Journeys,    \* journeys picked, names of JourneyTable
    Picked,      \* actions the legacy picker draws
    Names,       \* identifiers and tokens the services answer with
    Sessions,    \* sessions at a time
    MaxSize,     \* actorState.maxSize, 2000
    MaxLaunched, \* bound: sessions
    MaxBursts    \* bound: bursts at a time

VARIABLES
    mode,      \* "journeys" or "legacy"
    session,   \* runSession and sendRequest goroutines
    launched,  \* sessions so far
    actors,    \* actorState: users, orders, tokens
    traffic,   \* globalStats
    reported,  \* history: latencies that went into some summary
    rate,      \* the ticker's rate
    bursts,    \* sleeping goroutines that will end a burst
    done,      \* ctx is done
    process    \* "up", "ended" or "panicked"

goroutines == <<session, launched, actors>>
pace == <<rate, bursts>>
vars == <<mode, goroutines, traffic, reported, pace, done, process>>

-----------------------------------------------------------------------------
(* journeys.  The user may leave before a step that has an abandonProb.    *)
Always(a) == [action |-> a, abandon |-> FALSE]
Maybe(a) == [action |-> a, abandon |-> TRUE]

JourneyTable == [
    browser |-> <<Always("auth_login"), Always("users_get"), Maybe("orders_list"), Maybe("orders_get")>>,
    buyer |-> <<Always("auth_login"), Always("users_get"), Always("orders_list"),
                Maybe("orders_create"), Always("orders_get")>>,
    check |-> <<Always("auth_verify"), Always("orders_list")>>,
    signup |-> <<Always("users_list"), Maybe("users_create"), Always("auth_login"), Always("users_get")>>,
    converter |-> <<Always("auth_login"), Always("users_get"), Maybe("user_upgrade")>>]

(* buildPlan: the list an action takes its argument from.                  *)
Reads(a) ==
    CASE a \in {"users_get", "user_upgrade", "orders_create"} -> {"users"}
      [] a = "orders_get" -> {"orders"}
      [] a = "auth_verify" -> {"tokens"}
      [] OTHER -> {}

(* trackState: the lists its answer goes into.                             *)
Teaches(a) ==
    CASE a \in {"users_create", "users_get"} -> {"users"}
      [] a = "auth_login" -> {"tokens", "users"}
      [] a \in {"orders_create", "orders_get"} -> {"orders", "users"}
      [] OTHER -> {}

(* appendTrimmed; an answer without an identifier teaches nothing.         *)
AppendTrimmed(values, next) ==
    LET all == IF next = "" THEN values ELSE Append(values, next)
    IN  SubSeq(all, IF Len(all) > MaxSize THEN Len(all) - MaxSize + 1 ELSE 1, Len(all))

-----------------------------------------------------------------------------
Gone == [at |-> "gone", steps |-> <<>>, target |-> ""]

Init ==
    /\ mode \in {"journeys", "legacy"}
    /\ session = [s \in Sessions |-> Gone]
    /\ launched = 0
    /\ actors = [k \in {"users", "orders", "tokens"} |-> <<>>]
    /\ traffic = [total |-> 0, successes |-> 0, failures |-> 0, latencies |-> 0]
    /\ reported = 0
    /\ rate = "normal" /\ bursts = 0
    /\ done = FALSE /\ process = "up"

(* runJourneyMode, and the legacy loop's tick: picker.pick.                *)
Launch(s, steps) ==
    /\ session[s].at = "gone"
    /\ launched < MaxLaunched
    /\ launched' = launched + 1
    /\ session' = [session EXCEPT ![s] = [at |-> "think", steps |-> steps, target |-> ""]]
    /\ UNCHANGED <<mode, actors, traffic, reported, pace, done, process>>

(* sendPlanned, up to client.Do.                                           *)
Send(s) ==
    LET known == UNION {ToSet(actors[k]) : k \in Reads(Head(session[s].steps).action)}
    IN  /\ session[s].at = "think"
        /\ \E target \in IF known = {} THEN {""} ELSE known :
              session' = [session EXCEPT ![s].at = "flight", ![s].target = target]
        /\ UNCHANGED <<mode, launched, actors, traffic, reported, pace, done, process>>

(* The user wandered off, or ctx is done.                                  *)
Leave(s) ==
    /\ session[s].at = "think"
    /\ Head(session[s].steps).abandon \/ (done /\ mode = "journeys")
    /\ session' = [session EXCEPT ![s] = Gone]
    /\ UNCHANGED <<mode, launched, actors, traffic, reported, pace, done, process>>

(* record.                                                                 *)
Record(ok) == traffic' = [total |-> traffic.total + 1, latencies |-> traffic.latencies + 1,
                          successes |-> traffic.successes + (IF ok THEN 1 ELSE 0),
                          failures |-> traffic.failures + (IF ok THEN 0 ELSE 1)]

NextStep(s) ==
    session' = [session EXCEPT ![s] =
        IF Len(@.steps) = 1 THEN Gone ELSE [at |-> "think", steps |-> Tail(@.steps), target |-> ""]]

(* An answer below 400 is learnt from first; then anything is recorded.    *)
Succeed(s, name) ==
    /\ session[s].at = "flight"
    /\ actors' = [k \in DOMAIN actors |->
          IF k \in Teaches(Head(session[s].steps).action) THEN AppendTrimmed(actors[k], name) ELSE actors[k]]
    /\ Record(TRUE) /\ NextStep(s)
    /\ UNCHANGED <<mode, launched, reported, pace, done, process>>

Fail(s) ==
    /\ session[s].at = "flight"
    /\ Record(FALSE) /\ NextStep(s)
    /\ UNCHANGED <<mode, launched, actors, reported, pace, done, process>>

-----------------------------------------------------------------------------
MutSummarize(then) ==
    /\ reported' = reported + traffic.latencies
    /\ process' = then
    /\ UNCHANGED traffic

(* summarize.  Counts are never reset, latencies are; the average divides  *)
(* by how many there are.                                                  *)
Summarize(then) ==
    /\ reported' = reported + traffic.latencies
    /\ traffic' = [traffic EXCEPT !.latencies = 0]
    /\ process' = IF traffic.total > 0 /\ traffic.latencies = 0 THEN "panicked" ELSE then

PrintSummary ==
    /\ Summarize("up")
    /\ UNCHANGED <<mode, goroutines, pace, done>>

Stop ==
    /\ ~done
    /\ done' = TRUE
    /\ UNCHANGED <<mode, goroutines, traffic, reported, pace, process>>

(* Both main loops end with a summary.                                     *)
End ==
    /\ done
    /\ Summarize("ended")
    /\ UNCHANGED <<mode, goroutines, pace, done>>

-----------------------------------------------------------------------------
(* The burst timer, in a healthy system.  Otherwise it only starts again.  *)
Burst ==
    /\ mode = "legacy" /\ bursts < MaxBursts
    /\ rate' = "burst" /\ bursts' = bursts + 1
    /\ UNCHANGED <<mode, goroutines, traffic, reported, done, process>>

BurstOver ==
    /\ bursts > 0
    /\ rate' = "normal" /\ bursts' = bursts - 1
    /\ UNCHANGED <<mode, goroutines, traffic, reported, done, process>>

Step ==
    \/ \E s \in Sessions :
          \/ Send(s) \/ Leave(s) \/ Fail(s)
          \/ \E name \in Names \cup {""} : Succeed(s, name)
          \/ mode = "journeys" /\ \E j \in Journeys : Launch(s, JourneyTable[j])
          \/ mode = "legacy" /\ \E a \in Picked : Launch(s, <<Always(a)>>)
    \/ PrintSummary \/ Stop \/ End \/ Burst \/ BurstOver

(* A panic and the end of main end every goroutine.                        *)
Next == process = "up" /\ Step

Spec == Init /\ [][Next]_vars

-----------------------------------------------------------------------------
(* Every request that ended is counted and goes into one summary, whatever *)
(* sessions and summaries interleave.  A summary fails only for want of    *)
(* any since the last: "no requests in this period" is what the code says  *)
(* when there were none ever.  No burst outlasts the goroutines that end   *)
(* bursts.                                                                 *)
StatsAddUp ==
    /\ traffic.total = traffic.successes + traffic.failures
    /\ traffic.total = traffic.latencies + reported
    /\ process = "panicked" => traffic.total > 0 /\ traffic.latencies = 0
    /\ rate = "burst" => bursts > 0
=============================================================================
