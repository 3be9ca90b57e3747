------------------------------ MODULE SysState ------------------------------
(***************************************************************************)
(* The synthetic incidents of internal/sysstate: an epoch schedule every   *)
(* process derives from the clock, off unless LOADGEN_AUTO_INCIDENTS says  *)
(* otherwise, and a force switch that overrides it.  A status page is put  *)
(* together from five reads of the switch, one of them for t as it was     *)
(* before; a command may land between any two.                             *)
(*                                                                         *)
(* Times are half-minutes since the epoch began, healths hundredths, and   *)
(* intensities tenths.  What epochInfo draws is a choice made once.        *)
(***************************************************************************)
EXTENDS Integers

CONSTANTS
    ForceNames,     \* scenarios clients force
    Intensities,    \* intensities they send, 0 for none
    Standings,      \* durations they send
    DefaultForce,   \* 300 seconds
    Starts,         \* times at which a behaviour may start
    Horizon,        \* bound: half-minutes in one behaviour
    MaxCommands,    \* bound: commands
    MaxPages        \* bound: status pages

VARIABLES
    auto,      \* autoIncidentsEnabled
    plan,      \* epochInfo of this epoch
    clock,     \* time since the epoch began
    started,   \* the clock when the behaviour started
    forced,    \* the override
    orders,    \* history: commands so far
    page,      \* the status page being put together
    pages      \* status pages asked for

vars == <<auto, plan, clock, started, forced, orders, page, pages>>

-----------------------------------------------------------------------------
Incident(primary, cascade, ramp, peak, recover, health) ==
    [primary |-> primary, cascade |-> cascade, ramp |-> ramp, peak |-> peak,
     recover |-> recover, health |-> health]

(* The table incidents, with its faults by their names.                    *)
Incidents == [
    db_contention              |-> Incident("db_contention", {"network_congestion"}, 6, 16, 14, 15),
    payment_degradation        |-> Incident("payment_gateway", {}, 4, 12, 16, 20),
    auth_service_degradation   |-> Incident("auth_service", {}, 3, 10, 10, 25),
    network_saturation         |-> Incident("network_congestion", {"payment_gateway", "db_contention"}, 8, 20, 20, 10),
    memory_pressure            |-> Incident("memory_pressure", {"network_congestion"}, 10, 14, 24, 30),
    cache_stampede             |-> Incident("cache_stampede", {"db_contention"}, 4, 16, 12, 20),
    connection_pool_exhaustion |-> Incident("connection_pool", {"db_contention"}, 6, 20, 16, 18),
    retry_amplification        |-> Incident("retry_storm", {"payment_gateway"}, 6, 18, 12, 22),
    clock_skew_auth            |-> Incident("clock_skew", {"auth_service"}, 3, 12, 8, 28),
    queue_consumer_lag         |-> Incident("queue_backpressure", {"memory_pressure"}, 8, 16, 20, 25)]

EpochLength == 60

Faults(inc) == {inc.primary} \cup inc.cascade

AllFaults == UNION {Faults(Incidents[n]) : n \in DOMAIN Incidents}

(* epochInfo: a quiet epoch, or an incident after 20 to 45% of calm.       *)
QuietEpoch == [incident |-> FALSE, name |-> "payment_degradation", quiet |-> 0]

Plans == {QuietEpoch} \cup
    [incident : {TRUE}, name : DOMAIN Incidents, quiet : {EpochLength \div 5, (EpochLength * 9) \div 20}]

NotForced == [name |-> "none", until |-> 0, intensity |-> 10]

Resting == [at |-> "idle", t |-> 0, scenario |-> "none", health |-> 100, state |-> "normal",
            faults |-> {}, seen |-> {}, struck |-> FALSE]

Init ==
    /\ auto \in BOOLEAN
    /\ plan \in Plans
    /\ clock \in Starts /\ started = clock
    /\ forced = NotForced
    /\ orders = 0
    /\ page = Resting
    /\ pages = 0

-----------------------------------------------------------------------------
(* forcedIncident: an override is over once its deadline has passed.       *)
ForceIn(f, now) == f.name # "none" /\ now <= f.until

Clamp(low, high, x) == IF x < low THEN low ELSE IF x > high THEN high ELSE x

(* ForceScenario, behind handleForce's checks.                             *)
Intensity(asked) == IF asked <= 0 THEN 10 ELSE Clamp(1, 100, asked)

(* forcedEffectivePeakHealthLocked.                                        *)
PeakHealth(f) == Clamp(1, 100, (Incidents[f.name].health * 10) \div f.intensity)

CeilDiv(a, b) == (a + b - 1) \div b

Of == Incidents[plan.name]
RampEnd == plan.quiet + Of.ramp
PeakEnd == RampEnd + Of.peak
RecoverEnd == PeakEnd + Of.recover

(* healthAt on the schedule.  Ramp and recovery are lines; what the end of *)
(* the epoch cuts off is not made up for.                                  *)
Scheduled(t) ==
    LET drop == 100 - Of.health
    IN  IF ~plan.incident \/ t < plan.quiet \/ t >= RecoverEnd THEN 100
        ELSE IF t < RampEnd THEN 100 - CeilDiv((t - plan.quiet) * drop, Of.ramp)
        ELSE IF t < PeakEnd THEN Of.health
        ELSE Of.health + ((t - PeakEnd) * drop) \div Of.recover

MutHealthAt(f, now, t) == IF ForceIn(f, now) THEN PeakHealth(f) ELSE Scheduled(t)

(* healthAt: without a plan in force and off the schedule all is well.     *)
HealthAt(f, now, t) ==
    IF ForceIn(f, now) THEN PeakHealth(f) ELSE IF auto THEN Scheduled(t) ELSE 100

(* activeFaultsAt below its first check: health decides whether there are  *)
(* faults, the schedule alone which.                                       *)
FaultsBelow(health, t) ==
    IF health >= 95 \/ ~plan.incident THEN {}
    ELSE IF 2 * (t - plan.quiet) > Of.ramp THEN Faults(Of) ELSE {Of.primary}

FaultsAt(f, now, t) ==
    IF ForceIn(f, now) THEN Faults(Incidents[f.name]) ELSE FaultsBelow(HealthAt(f, now, t), t)

(* stateNameAt.                                                            *)
StateAt(f, now, t) ==
    IF ForceIn(f, now) THEN "critical"
    ELSE IF ~auto \/ ~plan.incident \/ t < plan.quiet \/ t >= RecoverEnd THEN "normal"
    ELSE IF t < RampEnd THEN "degraded"
    ELSE IF t < PeakEnd THEN "critical" ELSE "recovering"

(* FaultHealth, off the force switch.                                      *)
FaultHealth(ft, t) ==
    LET health == HealthAt(NotForced, t, t)
        scaled(quarters) == Clamp(1, 100, (health * quarters) \div 4)
    IN  IF health >= 95 \/ ~plan.incident THEN 100
        ELSE IF ft = Of.primary THEN scaled(2)
        ELSE IF ft \in Of.cascade THEN scaled(3) ELSE 100

-----------------------------------------------------------------------------
(* What a page in the making may rightly show of this moment.              *)
Moment(f, now) == [scenario |-> IF ForceIn(f, now) THEN f.name ELSE "none",
    health |-> HealthAt(f, now, now), state |-> StateAt(f, now, now), faults |-> FaultsAt(f, now, now)]

Watch(p, f, now) == IF p.at = "idle" THEN p ELSE [p EXCEPT !.seen = @ \cup {Moment(f, now)}]

Command(f) ==
    /\ orders < MaxCommands
    /\ orders' = orders + 1
    /\ forced' = f
    /\ page' = [Watch(page, f, clock) EXCEPT !.struck = page.at # "idle"]
    /\ UNCHANGED <<auto, plan, clock, started, pages>>

(* POST /anomaly/force, POST /anomaly/clear.                               *)
ForceScenario(n, d, i) ==
    Command([name |-> n, until |-> clock + (IF d = 0 THEN DefaultForce ELSE d), intensity |-> Intensity(i)])

ClearForce == Command(NotForced)

(* The end of the behaviour is never the end of the epoch.                 *)
Tick ==
    /\ clock < started + Horizon /\ clock + 1 < EpochLength
    /\ clock' = clock + 1
    /\ page' = Watch(page, forced, clock')
    /\ UNCHANGED <<auto, plan, started, forced, orders, pages>>

(* GET /anomaly/status: ForceStatus, HealthScore, CurrentStateName, and    *)
(* ActiveFaultNames in two halves.  Each takes the time just before it     *)
(* looks at the switch; the two are one step here, as it takes a command   *)
(* and an edge of the schedule within that instant to tell them apart.     *)
Page(p) == page' = p /\ UNCHANGED <<auto, plan, clock, started, forced, orders>>

ForceStatus ==
    /\ page.at = "idle" /\ pages < MaxPages
    /\ pages' = pages + 1
    /\ Page([Resting EXCEPT !.at = "health", !.scenario = Moment(forced, clock).scenario,
             !.seen = {Moment(forced, clock)}])

HealthScore ==
    /\ page.at = "health"
    /\ Page([page EXCEPT !.at = "state", !.health = HealthAt(forced, clock, clock)])
    /\ UNCHANGED pages

CurrentStateName ==
    /\ page.at = "state"
    /\ Page([page EXCEPT !.at = "faults", !.state = StateAt(forced, clock, clock)])
    /\ UNCHANGED pages

ActiveFaultNames ==
    /\ page.at = "faults"
    /\ Page(IF ForceIn(forced, clock)
            THEN [page EXCEPT !.at = "done", !.faults = Faults(Incidents[forced.name])]
            ELSE [page EXCEPT !.at = "below", !.t = clock])
    /\ UNCHANGED pages

FaultsOffSwitch ==
    /\ page.at = "below"
    /\ Page([page EXCEPT !.at = "done", !.faults = FaultsBelow(HealthAt(forced, clock, page.t), page.t)])
    /\ UNCHANGED pages

Replied == page.at = "done" /\ Page(Resting) /\ UNCHANGED pages

Status == ForceStatus \/ HealthScore \/ CurrentStateName \/ ActiveFaultNames \/ FaultsOffSwitch \/ Replied

Next ==
    \/ \E n \in ForceNames, d \in Standings, i \in Intensities : ForceScenario(n, d, i)
    \/ ClearForce
    \/ Tick
    \/ Status

Spec == Init /\ [][Next]_vars

-----------------------------------------------------------------------------
On == ForceIn(forced, clock)

Shown(f) == [name |-> f.name, intensity |-> f.intensity]

Switch == INSTANCE TimedSwitch WITH
    Values <- [name : ForceNames, intensity : 1 .. 100], Off <- Shown(NotForced),
    Standings <- (Standings \ {0}) \cup {DefaultForce}, commands <- orders,
    value <- Shown(IF On THEN forced ELSE NotForced),
    left <- IF On THEN forced.until - clock ELSE 0

(* The force switch stands as long as the command said and no longer.      *)
ForceKeepsTime == Switch!Spec

(* Each part of a status page was true at some moment of the request.  The *)
(* one exception: an override that lands between the two halves of         *)
(* ActiveFaultNames makes it answer with the schedule's faults, whether or *)
(* not the schedule is on.                                                 *)
PageJustified == page.at = "done" =>
    /\ \E m \in page.seen : m.scenario = page.scenario
    /\ \E m \in page.seen : m.health = page.health
    /\ \E m \in page.seen : m.state = page.state
    /\ \/ \E m \in page.seen : m.faults = page.faults
       \/ page.struck /\ plan.incident /\ page.faults \subseteq Faults(Of)

(* On the schedule the probes agree: faults exactly while the health is    *)
(* low, none in a normal state, the primary worst; a fault that lowers a   *)
(* service's health is active, but for a cascade early in the ramp.        *)
ScheduleAgrees ==
    LET t == clock
        faults == FaultsAt(NotForced, t, t)
    IN  /\ (faults # {}) <=> HealthAt(NotForced, t, t) < 95
        /\ StateAt(NotForced, t, t) = "normal" => faults = {}
        /\ \A f \in faults : FaultHealth(Of.primary, t) <= FaultHealth(f, t)
                             /\ FaultHealth(f, t) < HealthAt(NotForced, t, t)
        /\ \A f \in AllFaults \ faults : FaultHealth(f, t) < 100 =>
              f \in Of.cascade /\ 2 * (t - plan.quiet) <= Of.ramp

(* What the probes say, asked while commands come and go.                  *)
ProbesJustified == PageJustified /\ ScheduleAgrees
=============================================================================
