------------------------------- MODULE Services -------------------------------
(***************************************************************************)
(* The smaller components side by side: the knobs that switch themselves   *)
(* off (the synthetic incidents, a fault's shape, the injected scenarios,  *)
(* the chaos scheduler) and the stateful parts of the services (the        *)
(* notification queue, the user store, the token cache, the request path,  *)
(* the traffic generator).  They are processes of their own or parts of    *)
(* one that share nothing, so each step is a step of one of them.          *)
(***************************************************************************)
EXTENDS Integers, Sequences, FiniteSets

CONSTANTS
    ForceNames, Intensities, Standings, DefaultForce, Starts, SysHorizon, SysCommands, MaxPages,
    FaultTypes, Sensitive, Specs, Replicas, RampDefault, PeriodDefault, LengthDefault, Longest, LeakClimb,
    ShapeHorizon, ShapeCommands,
    Scenarios, Dims, Durations, DefaultDuration, MaxInject, MaxAsked,
    ChaosKinds, Sent, Clients, MaxPosted,
    Messages, Buffer,
    Seeded, Drawn, Fields, Values, OldValue, Callers, MaxWrites,
    Tokens, Usernames, Strangers, Verifiers,
    Requests, Limit, MaxArrived,
    Journeys, Picked, Names, Sessions, MaxSize, MaxLaunched, MaxBursts

(* Requests in progress are finitely many.                                 *)
ASSUME RequestsAssumption == IsFiniteSet(Requests)

ASSUME LimitAssumption == Limit \in Nat

VARIABLES
    auto, plan, clock, started, forced, orders, page, pages,
    kind, fault, elapsed, capacity, commands, reader,
    inject, asked,
    chaos, posted, request, struck,
    wired, publish, channel, closed, dropped, accepted, consumer, stats, records, stopping, main, crashed,
    rows, cached, call, writes, meant, misfit, raced,
    login, owner, tokens, verifier, stampeded,
    active, path, gauge, counter, failures, window, proxied, former, arrived, aborted,
    mode, session, launched, actors, traffic, reported, rate, bursts, done, process

Sys == INSTANCE SysState WITH Horizon <- SysHorizon, MaxCommands <- SysCommands

Shape == INSTANCE ChaosShape WITH
    Kinds <- FaultTypes, Requests <- Specs, Horizon <- ShapeHorizon, MaxCommands <- ShapeCommands

Ecom == INSTANCE EcomInjector

Sched == INSTANCE ChaosScheduler WITH Kinds <- ChaosKinds

Note == INSTANCE NotificationQueue

User == INSTANCE UserStore

Auth == INSTANCE AuthTokens

Path == INSTANCE RequestPath

Gen == INSTANCE TrafficGen

(* What forces an incident names one of the table, and every number sent   *)
(* or drawn is one.                                                        *)
ASSUME SysAssumption ==
    /\ ForceNames \subseteq DOMAIN Sys!Incidents
    /\ Intensities \subseteq Int /\ Standings \subseteq Int /\ DefaultForce \in Int
    /\ Starts \subseteq Int

ASSUME ShapeAssumption ==
    /\ Specs \subseteq [enabled : BOOLEAN, level : Int, onset : STRING, ramp : Int, period : Int,
                        sticky : BOOLEAN, scope : Int, duration : Int]
    /\ Replicas \subseteq Int
    /\ {RampDefault, PeriodDefault, LengthDefault, Longest, LeakClimb} \subseteq Nat \ {0}

ASSUME EcomAssumption == Durations \subseteq Int /\ MaxInject \in Int /\ DefaultDuration \in 1 .. MaxInject

(* What stands for no chaos at all is none of its types.                   *)
ASSUME ChaosAssumption == Sched!NoKind \notin ChaosKinds /\ Sent \subseteq Int

(* What stands for nobody is no user, and what stands for no token is none.*)
ASSUME TokensAssumption == Auth!NoUser \notin Usernames \cup Strangers /\ Auth!NoToken \notin Tokens

-----------------------------------------------------------------------------
Init ==
    /\ Sys!Init /\ Shape!Init /\ Ecom!Init /\ Sched!Init
    /\ Note!Init /\ User!Init /\ Auth!Init /\ Path!Init /\ Gen!Init

sysVars == <<auto, plan, clock, started, forced, orders, page, pages>>
shapeVars == <<kind, fault, elapsed, capacity, commands, reader>>
ecomVars == <<inject, asked>>
schedVars == <<chaos, posted, request, struck>>
knobVars == <<sysVars, shapeVars, ecomVars, schedVars>>

noteVars == <<wired, publish, channel, closed, dropped, accepted, consumer, stats, records, stopping, main, crashed>>
userVars == <<rows, cached, call, writes, meant, misfit, raced>>
authVars == <<login, owner, tokens, verifier, stampeded>>
pathVars == <<active, path, gauge, counter, failures, window, proxied, former, arrived, aborted>>
genVars == <<mode, session, launched, actors, traffic, reported, rate, bursts, done, process>>
serviceVars == <<noteVars, userVars, authVars, pathVars, genVars>>

vars == <<knobVars, serviceVars>>

SysSteps == Sys!Next /\ UNCHANGED <<shapeVars, ecomVars, schedVars, serviceVars>>
ShapeSteps == Shape!Next /\ UNCHANGED <<sysVars, ecomVars, schedVars, serviceVars>>
EcomSteps == Ecom!Next /\ UNCHANGED <<sysVars, shapeVars, schedVars, serviceVars>>
SchedSteps == Sched!Next /\ UNCHANGED <<sysVars, shapeVars, ecomVars, serviceVars>>
NoteSteps == Note!Next /\ UNCHANGED <<knobVars, userVars, authVars, pathVars, genVars>>
UserSteps == User!Next /\ UNCHANGED <<knobVars, noteVars, authVars, pathVars, genVars>>
AuthSteps == Auth!Next /\ UNCHANGED <<knobVars, noteVars, userVars, pathVars, genVars>>
PathSteps == Path!Next /\ UNCHANGED <<knobVars, noteVars, userVars, authVars, genVars>>
GenSteps == Gen!Next /\ UNCHANGED <<knobVars, noteVars, userVars, authVars, pathVars>>

Next ==
    \/ SysSteps \/ ShapeSteps \/ EcomSteps \/ SchedSteps
    \/ NoteSteps \/ UserSteps \/ AuthSteps \/ PathSteps \/ GenSteps

Spec == Init /\ [][Next]_vars

-----------------------------------------------------------------------------
(* An override, an injected scenario and a posted fault each stand as long *)
(* as their command said and no longer.                                    *)
SwitchesKeepTime == Sys!ForceKeepsTime /\ Ecom!ScenariosKeepTime /\ Sched!ChaosKeepsTime

(* What the probes of sysstate say, while commands come and go.            *)
ProbesJustified == Sys!ProbesJustified

(* A request is struck by a fault it saw, or that was sent since, and no   *)
(* harder than that fault may strike.                                      *)
StruckByItsOwn == Sched!StruckByItsOwn /\ Shape!IntensityJustified

(* The notification worker handles what the queue took, in order.          *)
HandledInOrder == Note!HandledInOrder

(* It ends when it is told to, and until then handles all it is sent.      *)
WorkerFinishes == Note!WorkerFinishes

(* The user cache and database disagree only in two windows.               *)
UsersConsistent == User!UsersConsistent

(* A token stays its user's, unless the cache hid it once.                 *)
TokenKeepsUser == Auth!TokenKeepsUser

(* The request metrics account for every request but the aborted ones.     *)
RequestsAccounted == Path!RequestsAccounted

(* Every answer is counted, and goes into one summary.                     *)
StatsAddUp == Gen!StatsAddUp
=============================================================================
