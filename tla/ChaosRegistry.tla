---------------------------- MODULE ChaosRegistry ----------------------------
(***************************************************************************)
(* The fault registry every load-generator service embeds                  *)
(* (internal/chaos): the map `states` behind the RWMutex `mu`, the         *)
(* activation path EnableSpec, the goroutine it leaves behind to end a     *)
(* timed fault, Disable, and the two operator sweeps, the kill-switch and  *)
(* the /ops remediations.                                                  *)
(*                                                                         *)
(* One action is one critical section of `mu`: whatever the code does      *)
(* between an unlock and the next lock may be interleaved with any other   *)
(* handler or timer goroutine.  Side effects a fault starts (burners,      *)
(* leakers, log writers) are in ChaosEffects, the shape of the intensity   *)
(* over time is in ChaosShape, campaigns are in ChaosCampaign.             *)
(***************************************************************************)
EXTENDS Integers, FiniteSets

CONSTANTS
    Types,           \* ChaosType: the kinds of fault the map has an entry for
    Actions,         \* the remediations under /ops that clear faults
    OpsClears,       \* opsClears: the fault types each remediation clears
    Restart,         \* the remediation that also resets the capacity
    Operators,       \* callers of the kill-switch and of /ops
    Durations,       \* the durations a request may carry
    DefaultDuration, \* defaultStepSeconds
    MaxDuration,     \* maxDuration
    Replicas,        \* the replica counts an operator may scale to
    MaxStarts,       \* bound: faults enabled in one behaviour
    StartHorizon,    \* bound: no fault is enabled at or after this time
    MaxParallel      \* bound: EnableSpec calls in flight at once

ASSUME RegistryAssumption ==
    /\ {"idle", "kill"} \cap Actions = {}
    /\ OpsClears \in [Actions -> SUBSET Types]
    /\ Durations \subseteq Int
    /\ DefaultDuration \in Nat \ {0}
    /\ MaxDuration \in Nat \ {0}
    /\ DefaultDuration <= MaxDuration
    /\ Replicas \subseteq Nat \ {0}
    /\ MaxStarts \in Nat
    /\ StartHorizon \in Nat
    /\ MaxParallel \in Nat

VARIABLES
    states,    \* states: one record per fault type
    capacity,  \* capacityBits: simulated replicas
    starts,    \* faults enabled so far (only MaxStarts reads it)
    now,       \* the monotonic clock; StartedAt is a reading of it
    spawning,  \* EnableSpec calls between the unlock and their timer's spawn
    timers,    \* auto-disable goroutines
    sweeps     \* kill-switch and /ops requests in progress

vars == <<states, capacity, starts, now, spawning, timers, sweeps>>

-----------------------------------------------------------------------------
(* Values.  A duration kept with a sticky fault is not normalised, so it   *)
(* may be any integer; startedAt = 0 is the zero time.                     *)

State == [enabled : BOOLEAN, sticky : BOOLEAN, duration : Int, startedAt : Nat]

Off == [enabled |-> FALSE, sticky |-> FALSE, duration |-> 0, startedAt |-> 0]

(* `own` is the StartedAt the call itself wrote: the code does not keep    *)
(* it, the model does, to identify the call and to state properties.       *)
Spawn == [type : Types, duration : Nat \ {0}, own : Nat \ {0}]

Timer == [type : Types, own : Nat \ {0}, captured : Nat, wake : Nat,
          phase : {"sleeping", "disabling"}]

Sweep == [kind : {"idle", "kill"} \cup Actions, scope : SUBSET Types,
          todo : SUBSET Types, hit : SUBSET Types, since : Nat]

NoSweep == [kind |-> "idle", scope |-> {}, todo |-> {}, hit |-> {}, since |-> 0]

(* Mutant: a duration that is zero or negative is let through.             *)
NormalizeDurationUnclamped(d) == IF d > MaxDuration THEN MaxDuration ELSE d

NormalizeDuration(d) ==
    IF d <= 0 THEN DefaultDuration ELSE IF d > MaxDuration THEN MaxDuration ELSE d

Expired(t) ==
    /\ ~states[t].sticky
    /\ states[t].duration > 0
    /\ now - states[t].startedAt > states[t].duration

IsActive(t) == states[t].enabled /\ ~Expired(t)

(* What Disable writes in its critical section; sticky is left as it was.  *)
TurnedOff(s) == [enabled |-> FALSE, sticky |-> s.sticky, duration |-> 0, startedAt |-> 0]

Disabled(t) == [states EXCEPT ![t] = TurnedOff(states[t])]

-----------------------------------------------------------------------------
Init ==
    /\ states = [t \in Types |-> Off]
    /\ capacity = 1
    /\ starts = 0
    /\ now = 0
    /\ spawning = {}
    /\ timers = {}
    /\ sweeps = [o \in Operators |-> NoSweep]

(* POST /chaos/<type> and Enable: EnableSpec up to its unlock.  A sticky   *)
(* call has nothing left to do; a timed one still has to spawn its timer.  *)
(* time.Now() is later than every reading before it, so each activation    *)
(* has a stamp of its own.                                                 *)
EnableSpec(t, d, sticky) ==
    /\ starts < MaxStarts
    /\ now < StartHorizon
    /\ Cardinality(spawning) < MaxParallel
    /\ starts' = starts + 1
    /\ now' = now + 1
    /\ LET kept == IF sticky THEN d ELSE NormalizeDuration(d) IN
       /\ states' = [states EXCEPT ![t] =
                        [enabled |-> TRUE, sticky |-> sticky,
                         duration |-> kept, startedAt |-> now + 1]]
       /\ spawning' = IF sticky THEN spawning
                      ELSE spawning \cup {[type |-> t, duration |-> kept, own |-> now + 1]}
    /\ UNCHANGED <<capacity, timers, sweeps>>

(* Mutant: the goroutine remembers the time of its spawn, not StartedAt.   *)
SpawnTimerFresh(c) ==
    /\ c \in spawning
    /\ spawning' = spawning \ {c}
    /\ timers' = timers \cup
          {[type |-> c.type, own |-> c.own, captured |-> now,
            wake |-> now + c.duration, phase |-> "sleeping"]}
    /\ UNCHANGED <<states, capacity, starts, now, sweeps>>

(* The go statement of EnableSpec: timeNowFor takes the lock again to read *)
(* the StartedAt the new goroutine will compare with, then it sleeps.      *)
SpawnTimer(c) ==
    /\ c \in spawning
    /\ spawning' = spawning \ {c}
    /\ timers' = timers \cup
          {[type |-> c.type, own |-> c.own, captured |-> states[c.type].startedAt,
            wake |-> now + c.duration, phase |-> "sleeping"]}
    /\ UNCHANGED <<states, capacity, starts, now, sweeps>>

(* Mutant: the sleep is cut short.                                         *)
WakeTimerEarly(g) ==
    /\ g \in timers
    /\ g.phase = "sleeping"
    /\ now + 1 > g.wake
    /\ LET still == states[g.type].enabled /\ states[g.type].startedAt = g.captured IN
       timers' = (timers \ {g}) \cup
                    (IF still THEN {[g EXCEPT !.phase = "disabling"]} ELSE {})
    /\ UNCHANGED <<states, capacity, starts, now, spawning, sweeps>>

(* time.Sleep returns; the goroutine decides under the read lock whether   *)
(* its activation is still current.  The sleep began after StartedAt was   *)
(* read, so more than the duration has passed.                             *)
WakeTimer(g) ==
    /\ g \in timers
    /\ g.phase = "sleeping"
    /\ now > g.wake
    /\ LET still == states[g.type].enabled /\ states[g.type].startedAt = g.captured IN
       timers' = (timers \ {g}) \cup
                    (IF still THEN {[g EXCEPT !.phase = "disabling"]} ELSE {})
    /\ UNCHANGED <<states, capacity, starts, now, spawning, sweeps>>

(* ... and then calls Disable, which takes the write lock.                 *)
AutoDisable(g) ==
    /\ g \in timers
    /\ g.phase = "disabling"
    /\ states' = Disabled(g.type)
    /\ timers' = timers \ {g}
    /\ UNCHANGED <<capacity, starts, now, spawning, sweeps>>

(* DELETE /chaos/<type>.                                                   *)
Delete(t) ==
    /\ states' = Disabled(t)
    /\ UNCHANGED <<capacity, starts, now, spawning, timers, sweeps>>

(* POST /ops/scale.                                                        *)
Scale(r) ==
    /\ capacity' = r
    /\ UNCHANGED <<states, starts, now, spawning, timers, sweeps>>

(* POST /chaos/kill-switch or /ops/<action> arrives.                       *)
BeginSweep(o, kind) ==
    /\ sweeps[o].kind = "idle"
    /\ LET scope == IF kind = "kill" THEN Types ELSE OpsClears[kind] IN
       sweeps' = [sweeps EXCEPT ![o] =
                     [kind |-> kind, scope |-> scope, todo |-> scope,
                      hit |-> {}, since |-> now]]
    /\ UNCHANGED <<states, capacity, starts, now, spawning, timers>>

(* Mutant: the sweep leaves alone what IsActive no longer reports.         *)
KillOneActive(o, t) ==
    /\ sweeps[o].kind = "kill"
    /\ t \in sweeps[o].todo
    /\ states' = IF IsActive(t) THEN Disabled(t) ELSE states
    /\ sweeps' = [sweeps EXCEPT ![o].todo = @ \ {t}]
    /\ UNCHANGED <<capacity, starts, now, spawning, timers>>

(* DisableAll: one Disable for each entry, in the order the map yields.    *)
KillOne(o, t) ==
    /\ sweeps[o].kind = "kill"
    /\ t \in sweeps[o].todo
    /\ states' = Disabled(t)
    /\ sweeps' = [sweeps EXCEPT ![o].todo = @ \ {t}]
    /\ UNCHANGED <<capacity, starts, now, spawning, timers>>

(* makeOpsHandler looks at one type (IsActive, under the read lock) ...    *)
OpsLook(o, t) ==
    /\ sweeps[o].kind \in Actions
    /\ sweeps[o].hit = {}
    /\ t \in sweeps[o].todo
    /\ LET w == sweeps[o] IN
       sweeps' = [sweeps EXCEPT ![o] =
                     [w EXCEPT !.todo = w.todo \ {t},
                               !.hit = IF IsActive(t) THEN {t} ELSE {}]]
    /\ UNCHANGED <<states, capacity, starts, now, spawning, timers>>

(* ... and disables it if it was active (under the write lock).            *)
OpsClear(o, t) ==
    /\ t \in sweeps[o].hit
    /\ states' = Disabled(t)
    /\ sweeps' = [sweeps EXCEPT ![o].hit = @ \ {t}]
    /\ UNCHANGED <<capacity, starts, now, spawning, timers>>

(* Mutant: the answer goes out while the last Disable is still to come.    *)
SweepDoneEarly(o) == sweeps[o].kind # "idle" /\ sweeps[o].todo = {}

(* The sweep is over and the handler answers; a restart first resets the   *)
(* capacity.                                                               *)
SweepDone(o) == sweeps[o].kind # "idle" /\ sweeps[o].todo = {} /\ sweeps[o].hit = {}

Reply(o) ==
    /\ SweepDone(o)
    /\ capacity' = IF sweeps[o].kind = Restart THEN 1 ELSE capacity
    /\ sweeps' = [sweeps EXCEPT ![o] = NoSweep]
    /\ UNCHANGED <<states, starts, now, spawning, timers>>

(* Time passes while anything may still begin or is still asleep.          *)
Tick ==
    /\ \/ now < StartHorizon
       \/ \E g \in timers : g.phase = "sleeping" /\ now <= g.wake
    /\ now' = now + 1
    /\ UNCHANGED <<states, capacity, starts, spawning, timers, sweeps>>

-----------------------------------------------------------------------------
TimerStep == \E g \in timers : WakeTimer(g) \/ AutoDisable(g)

SweepStep(o) ==
    \/ \E t \in Types : KillOne(o, t) \/ OpsLook(o, t) \/ OpsClear(o, t)
    \/ Reply(o)

Request ==
    \/ \E t \in Types, d \in Durations, sticky \in BOOLEAN : EnableSpec(t, d, sticky)
    \/ \E t \in Types : Delete(t)
    \/ \E r \in Replicas : Scale(r)
    \/ \E o \in Operators, kind \in {"kill"} \cup Actions : BeginSweep(o, kind)

Next ==
    \/ Request
    \/ \E c \in spawning : SpawnTimer(c)
    \/ TimerStep
    \/ \E o \in Operators : SweepStep(o)
    \/ Tick

Spec == Init /\ [][Next]_vars

(* Every goroutine that can run does run: one fairness condition for each  *)
(* EnableSpec call and each timer, told apart by the stamp they wrote, one *)
(* for each operator's handler, and time passes.  Requests are not fair.   *)
Fairness ==
    /\ \A n \in 1 .. StartHorizon :
          /\ WF_vars(\E c \in spawning : c.own = n /\ SpawnTimer(c))
          /\ WF_vars(\E g \in timers : g.own = n /\ (WakeTimer(g) \/ AutoDisable(g)))
    /\ \A o \in Operators : WF_vars(SweepStep(o))
    /\ WF_vars(Tick)

FairSpec == Spec /\ Fairness

-----------------------------------------------------------------------------
(* Properties.                                                             *)

(* Every variable has its type.                                            *)
TypeOK ==
    /\ states \in [Types -> State]
    /\ capacity \in Nat \ {0}
    /\ starts \in Nat
    /\ now \in Nat
    /\ spawning \subseteq Spawn
    /\ timers \subseteq Timer
    /\ sweeps \in [Operators -> Sweep]

(* No timed fault is orphaned: at every moment between its activation and  *)
(* its end, some call is about to spawn, or some goroutine is, a timer     *)
(* that will recognise the activation as the one it has to end.            *)
TimedFaultHasTimer ==
    \A t \in Types : states[t].enabled /\ ~states[t].sticky =>
        \/ \E c \in spawning : c.type = t /\ c.own = states[t].startedAt
        \/ \E g \in timers : g.type = t /\ g.captured = states[t].startedAt

(* A timer that has decided to end the activation that spawned it never    *)
(* cuts it short: as long as that activation is current, it has run out.   *)
NeverCutShort ==
    \A g \in timers :
        g.phase = "disabling" /\ states[g.type].startedAt = g.own => ~IsActive(g.type)

(* What a sweep has passed stays cleared: a fault of its scope that is on  *)
(* (for the kill-switch) or active (for /ops) although the sweep is done   *)
(* with it was enabled after the request arrived.                          *)
Swept(o) == sweeps[o].scope \ (sweeps[o].todo \cup sweeps[o].hit)

SweepClears ==
    \A o \in Operators : \A t \in Swept(o) :
        (IF sweeps[o].kind = "kill" THEN states[t].enabled ELSE IsActive(t))
            => states[t].startedAt > sweeps[o].since

(* Every timed activation ends: it is disabled or superseded, however the  *)
(* handlers and timers of other activations interleave with its own.       *)
TimedFaultEnds ==
    \A t \in Types, n \in 1 .. StartHorizon :
        (states[t].enabled /\ ~states[t].sticky /\ states[t].startedAt = n)
            ~> states[t].startedAt # n

(* The registry, seen through IsActive, keeps the contract.                *)
Contract == INSTANCE ChaosContract WITH
    live  <- [t \in Types |-> IF IsActive(t) THEN states[t].startedAt ELSE 0],
    time  <- now,
    asked <- [o \in Operators |-> [open  |-> sweeps[o].kind # "idle",
                                   scope |-> sweeps[o].scope,
                                   since |-> sweeps[o].since]]

KeepsContract == Contract!Spec

-----------------------------------------------------------------------------
(* What the comments say of timers and the code does not do.               *)

(* "Sticky faults never expire by time - only an explicit Disable (via     *)
(* /ops remediation or kill-switch) ends them": a step that turns off a    *)
(* sticky fault is not a step of a timer goroutine.                        *)
StickyNeverExpires ==
    [][\A t \in Types :
          states[t].enabled /\ states[t].sticky /\ ~states'[t].enabled
              => UNCHANGED timers]_vars
=============================================================================
