------------------------- MODULE ChaosRegistryProofs -------------------------
(***************************************************************************)
(* Proofs about ChaosRegistry for any set of fault types, operators,       *)
(* remediations and durations, and with no bound on the clock, on the      *)
(* number of activations or on how many of them overlap.                   *)
(***************************************************************************)
EXTENDS ChaosRegistry, TLAPS

(* The strengthening the safety properties need.  Stamps are readings of   *)
(* the clock, so none is later than now, and the zero time marks exactly   *)
(* the faults that are off.                                                *)
Stamped ==
    /\ \A t \in Types :
          /\ states[t].enabled => states[t].startedAt # 0
          /\ ~states[t].enabled => states[t].startedAt = 0
          /\ states[t].startedAt <= now
    /\ \A c \in spawning : c.own <= now
    /\ \A g \in timers : g.own <= now
    /\ \A o \in Operators : sweeps[o].since <= now

(* While the activation a call wrote is current, the call still agrees     *)
(* with the map on what it wrote.                                          *)
CallsAgree ==
    \A c \in spawning : states[c.type].startedAt = c.own =>
        ~states[c.type].sticky /\ states[c.type].duration = c.duration

(* A timer sleeps past the end of the activation that spawned it.          *)
TimersLate ==
    \A g \in timers :
        /\ g.phase = "disabling" => now > g.wake
        /\ states[g.type].startedAt = g.own =>
              /\ ~states[g.type].sticky
              /\ states[g.type].duration > 0
              /\ g.wake >= g.own + states[g.type].duration

IInv == TypeOK /\ Stamped /\ CallsAgree /\ TimersLate /\ TimedFaultHasTimer /\ SweepClears

-----------------------------------------------------------------------------
(* A normalised duration is a positive number of seconds.                  *)
LEMMA NormalizePositive ==
    ASSUME NEW d \in Int
    PROVE  NormalizeDuration(d) \in Nat \ {0}
BY RegistryAssumption DEF NormalizeDuration

(* Disabling one entry leaves the others as they were.                     *)
LEMMA DisabledEntry ==
    ASSUME TypeOK, NEW t \in Types
    PROVE  /\ Disabled(t) \in [Types -> State]
           /\ \A u \in Types \ {t} : Disabled(t)[u] = states[u]
           /\ ~Disabled(t)[t].enabled
           /\ Disabled(t)[t].startedAt = 0
<1>1. states[t] \in State
    BY DEF TypeOK
<1>2. /\ TurnedOff(states[t]) \in State
      /\ ~TurnedOff(states[t]).enabled
      /\ TurnedOff(states[t]).startedAt = 0
    BY <1>1 DEF State, TurnedOff
<1>3. states \in [Types -> State]
    BY DEF TypeOK
<1>4. QED
    BY <1>2, <1>3 DEF Disabled

-----------------------------------------------------------------------------
(* Type correctness: every reachable value of every variable is one the    *)
(* code's types and normalisation allow; in particular a call that spawns  *)
(* a timer sleeps for a positive duration.                                 *)
LEMMA TypeStep == TypeOK /\ [Next]_vars => TypeOK'
<1> SUFFICES ASSUME TypeOK, [Next]_vars PROVE TypeOK'
    OBVIOUS
<1> USE RegistryAssumption
<1>1. ASSUME NEW t \in Types, NEW d \in Durations, NEW sticky \in BOOLEAN,
             EnableSpec(t, d, sticky)
      PROVE  TypeOK'
    <2> DEFINE kept == IF sticky THEN d ELSE NormalizeDuration(d)
    <2>1. kept \in Int /\ (~sticky => kept \in Nat \ {0})
        BY NormalizePositive
    <2>2. [enabled |-> TRUE, sticky |-> sticky, duration |-> kept, startedAt |-> now + 1]
              \in State
        BY <2>1 DEF TypeOK, State
    <2>3. states' \in [Types -> State]
        BY <1>1, <2>2 DEF EnableSpec, TypeOK
    <2>4. ~sticky => [type |-> t, duration |-> kept, own |-> now + 1] \in Spawn
        BY <2>1 DEF TypeOK, Spawn
    <2>5. spawning' \subseteq Spawn
        BY <1>1, <2>4 DEF EnableSpec, TypeOK
    <2>6. QED
        BY <1>1, <2>3, <2>5 DEF EnableSpec, TypeOK
<1>2. ASSUME NEW c \in spawning, SpawnTimer(c) PROVE TypeOK'
    <2>1. c \in Spawn /\ states[c.type].startedAt \in Nat
        BY DEF TypeOK, Spawn, State
    <2>2. [type |-> c.type, own |-> c.own, captured |-> states[c.type].startedAt,
           wake |-> now + c.duration, phase |-> "sleeping"] \in Timer
        BY <2>1 DEF TypeOK, Spawn, Timer
    <2>3. QED
        BY <1>2, <2>2 DEF SpawnTimer, TypeOK
<1>3. ASSUME NEW g \in timers, WakeTimer(g) PROVE TypeOK'
    <2>1. [g EXCEPT !.phase = "disabling"] \in Timer
        BY DEF TypeOK, Timer
    <2>2. QED
        BY <1>3, <2>1 DEF WakeTimer, TypeOK
<1>4. ASSUME NEW g \in timers, AutoDisable(g) PROVE TypeOK'
    <2>1. g.type \in Types
        BY DEF TypeOK, Timer
    <2>2. QED
        BY <1>4, <2>1, DisabledEntry DEF AutoDisable, TypeOK
<1>5. ASSUME NEW t \in Types, Delete(t) PROVE TypeOK'
    BY <1>5, DisabledEntry DEF Delete, TypeOK
<1>6. ASSUME NEW r \in Replicas, Scale(r) PROVE TypeOK'
    BY <1>6 DEF Scale, TypeOK
<1>7. ASSUME NEW o \in Operators, NEW kind \in {"kill"} \cup Actions, BeginSweep(o, kind)
      PROVE  TypeOK'
    <2> DEFINE scope == IF kind = "kill" THEN Types ELSE OpsClears[kind]
    <2>1. [kind |-> kind, scope |-> scope, todo |-> scope, hit |-> {}, since |-> now]
              \in Sweep
        BY DEF TypeOK, Sweep
    <2>2. QED
        BY <1>7, <2>1 DEF BeginSweep, TypeOK
<1>8. ASSUME NEW o \in Operators, NEW t \in Types, KillOne(o, t) PROVE TypeOK'
    <2>1. [sweeps[o] EXCEPT !.todo = @ \ {t}] \in Sweep
        BY DEF TypeOK, Sweep
    <2>2. sweeps' \in [Operators -> Sweep]
        BY <1>8, <2>1 DEF KillOne, TypeOK
    <2>3. QED
        BY <1>8, <2>2, DisabledEntry DEF KillOne, TypeOK
<1>9. ASSUME NEW o \in Operators, NEW t \in Types, OpsLook(o, t) PROVE TypeOK'
    <2>1. [sweeps[o] EXCEPT !.todo = sweeps[o].todo \ {t},
                            !.hit = IF IsActive(t) THEN {t} ELSE {}] \in Sweep
        BY DEF TypeOK, Sweep
    <2>2. QED
        BY <1>9, <2>1 DEF OpsLook, TypeOK
<1>10. ASSUME NEW o \in Operators, NEW t \in Types, OpsClear(o, t) PROVE TypeOK'
    <2>1. [sweeps[o] EXCEPT !.hit = sweeps[o].hit \ {t}] \in Sweep
        BY DEF TypeOK, Sweep
    <2>2. sweeps \in [Operators -> Sweep] /\ sweeps' = [sweeps EXCEPT ![o].hit = @ \ {t}]
        BY <1>10 DEF OpsClear, TypeOK
    <2>3. sweeps' \in [Operators -> Sweep]
        BY <2>1, <2>2
    <2>4. QED
        BY <1>10, <2>3, DisabledEntry DEF OpsClear, TypeOK
<1>11. ASSUME NEW o \in Operators, Reply(o) PROVE TypeOK'
    BY <1>11 DEF Reply, TypeOK, Sweep, NoSweep
<1>12. CASE Tick
    BY <1>12 DEF Tick, TypeOK
<1>13. CASE UNCHANGED vars
    BY <1>13 DEF vars, TypeOK
<1>14. QED
    BY <1>1, <1>2, <1>3, <1>4, <1>5, <1>6, <1>7, <1>8, <1>9, <1>10, <1>11, <1>12, <1>13
    DEF Next, Request, TimerStep, SweepStep

(* Every variable has its type in every reachable state, with any number   *)
(* of calls, timers and sweeps in flight (the RWMutex only orders them).   *)
THEOREM TypeCorrect == Spec => []TypeOK
<1>1. Init => TypeOK
    BY DEF Init, TypeOK, State, Off, Sweep, NoSweep
<1>2. QED
    BY <1>1, TypeStep, PTL DEF Spec

-----------------------------------------------------------------------------
(* What a step may do to one entry of the map: nothing, turn it off, or    *)
(* activate it with a stamp no reading of the clock has given before.      *)
Kept(t) == states'[t] = states[t]

Ended(t) == ~states'[t].enabled /\ states'[t].startedAt = 0

Begun(t) ==
    /\ states'[t].enabled
    /\ states'[t].startedAt = now + 1
    /\ now' = now + 1
    /\ timers' = timers
    /\ sweeps' = sweeps
    /\ ~states'[t].sticky =>
          \E c \in spawning' : c.type = t /\ c.own = now + 1

(* The clock never goes back, and only a new activation or a tick moves it. *)
LEMMA EntryStep ==
    ASSUME TypeOK, [Next]_vars
    PROVE  /\ now' \in {now, now + 1}
           /\ \A t \in Types : Kept(t) \/ Ended(t) \/ Begun(t)
<1> USE RegistryAssumption
<1> DEFINE Goal == /\ now' \in {now, now + 1}
                   /\ \A t \in Types : Kept(t) \/ Ended(t) \/ Begun(t)
<1>1. ASSUME NEW t \in Types, NEW d \in Durations, NEW sticky \in BOOLEAN,
             EnableSpec(t, d, sticky)
      PROVE  Goal
    <2> DEFINE kept == IF sticky THEN d ELSE NormalizeDuration(d)
               new  == [enabled |-> TRUE, sticky |-> sticky,
                        duration |-> kept, startedAt |-> now + 1]
    <2>1. states' = [states EXCEPT ![t] = new] /\ states \in [Types -> State]
        BY <1>1 DEF EnableSpec, TypeOK
    <2>2. ASSUME ~sticky PROVE \E c \in spawning' : c.type = t /\ c.own = now + 1
        <3> DEFINE call == [type |-> t, duration |-> kept, own |-> now + 1]
        <3>1. call \in spawning'
            BY <1>1, <2>2 DEF EnableSpec
        <3>2. call.type = t /\ call.own = now + 1
            OBVIOUS
        <3>3. QED
            BY <3>1, <3>2
    <2>3. now' = now + 1 /\ timers' = timers /\ sweeps' = sweeps
        BY <1>1 DEF EnableSpec
    <2>4. Begun(t)
        BY <2>1, <2>2, <2>3 DEF Begun
    <2>5. \A u \in Types \ {t} : Kept(u)
        BY <2>1 DEF Kept
    <2>6. QED
        BY <2>3, <2>4, <2>5
<1>2. ASSUME NEW t \in Types, states' = Disabled(t), now' = now
      PROVE  Goal
    BY <1>2, DisabledEntry DEF Kept, Ended
<1>3. ASSUME UNCHANGED states, now' \in {now, now + 1} PROVE Goal
    BY <1>3 DEF Kept
<1>4. ASSUME NEW c \in spawning, SpawnTimer(c) PROVE Goal
    BY <1>3, <1>4 DEF SpawnTimer
<1>5. ASSUME NEW g \in timers, WakeTimer(g) PROVE Goal
    BY <1>3, <1>5 DEF WakeTimer
<1>6. ASSUME NEW g \in timers, AutoDisable(g) PROVE Goal
    BY <1>2, <1>6 DEF AutoDisable, TypeOK, Timer
<1>7. ASSUME NEW t \in Types, Delete(t) PROVE Goal
    BY <1>2, <1>7 DEF Delete
<1>8. ASSUME NEW r \in Replicas, Scale(r) PROVE Goal
    BY <1>3, <1>8 DEF Scale
<1>9. ASSUME NEW o \in Operators, NEW kind \in {"kill"} \cup Actions, BeginSweep(o, kind)
      PROVE  Goal
    BY <1>3, <1>9 DEF BeginSweep
<1>10. ASSUME NEW o \in Operators, NEW t \in Types, KillOne(o, t) \/ OpsClear(o, t)
       PROVE  Goal
    BY <1>2, <1>10 DEF KillOne, OpsClear
<1>11. ASSUME NEW o \in Operators, NEW t \in Types, OpsLook(o, t) PROVE Goal
    BY <1>3, <1>11 DEF OpsLook
<1>12. ASSUME NEW o \in Operators, Reply(o) PROVE Goal
    BY <1>3, <1>12 DEF Reply
<1>13. CASE Tick
    BY <1>3, <1>13 DEF Tick
<1>14. CASE UNCHANGED vars
    BY <1>3, <1>14 DEF vars
<1>15. QED
    BY <1>1, <1>4, <1>5, <1>6, <1>7, <1>8, <1>9, <1>10, <1>11, <1>12, <1>13, <1>14
    DEF Next, Request, TimerStep, SweepStep

(* Where the members of the sets of goroutines come from.                  *)
LEMMA CallStep ==
    ASSUME TypeOK, [Next]_vars, NEW c \in spawning'
    PROVE  \/ c \in spawning
           \/ /\ c.own = now + 1
              /\ now' = now + 1
              /\ ~states'[c.type].sticky
              /\ states'[c.type].duration = c.duration
<1> SUFFICES ASSUME c \notin spawning
             PROVE  /\ c.own = now + 1
                    /\ now' = now + 1
                    /\ ~states'[c.type].sticky
                    /\ states'[c.type].duration = c.duration
    OBVIOUS
<1>1. PICK t \in Types, d \in Durations, sticky \in BOOLEAN : EnableSpec(t, d, sticky)
    BY DEF Next, Request, TimerStep, SweepStep, vars, SpawnTimer, WakeTimer, AutoDisable,
           Delete, Scale, BeginSweep, KillOne, OpsLook, OpsClear, Reply, Tick
<1> DEFINE kept == IF sticky THEN d ELSE NormalizeDuration(d)
           new  == [enabled |-> TRUE, sticky |-> sticky,
                    duration |-> kept, startedAt |-> now + 1]
<1>2. states' = [states EXCEPT ![t] = new] /\ states \in [Types -> State]
    BY <1>1 DEF EnableSpec, TypeOK
<1>3. ~sticky /\ c = [type |-> t, duration |-> kept, own |-> now + 1] /\ now' = now + 1
    BY <1>1 DEF EnableSpec
<1>4. QED
    BY <1>2, <1>3

(* A timer after a step was there before, or was just spawned by a call,   *)
(* or is one that just woke late enough and found its activation current.  *)
LEMMA TimerStepOf ==
    ASSUME TypeOK, [Next]_vars, NEW g \in timers'
    PROVE  \/ g \in timers
           \/ /\ UNCHANGED <<states, now>>
              /\ g.phase = "sleeping"
              /\ \E c \in spawning : /\ g.type = c.type
                                     /\ g.own = c.own
                                     /\ g.wake = now + c.duration
           \/ /\ UNCHANGED <<states, now>>
              /\ \E h \in timers : /\ g = [h EXCEPT !.phase = "disabling"]
                                   /\ now > h.wake
<1> SUFFICES ASSUME g \notin timers
             PROVE  \/ /\ UNCHANGED <<states, now>>
                       /\ g.phase = "sleeping"
                       /\ \E c \in spawning : /\ g.type = c.type
                                              /\ g.own = c.own
                                              /\ g.wake = now + c.duration
                    \/ /\ UNCHANGED <<states, now>>
                       /\ \E h \in timers : /\ g = [h EXCEPT !.phase = "disabling"]
                                            /\ now > h.wake
    OBVIOUS
<1>1. \/ \E c \in spawning : SpawnTimer(c)
      \/ \E h \in timers : WakeTimer(h)
    BY DEF Next, Request, TimerStep, SweepStep, vars, EnableSpec, AutoDisable,
           Delete, Scale, BeginSweep, KillOne, OpsLook, OpsClear, Reply, Tick
<1>2. ASSUME NEW c \in spawning, SpawnTimer(c)
      PROVE  /\ UNCHANGED <<states, now>>
             /\ g.phase = "sleeping"
             /\ g.type = c.type /\ g.own = c.own /\ g.wake = now + c.duration
    BY <1>2 DEF SpawnTimer
<1>3. ASSUME NEW h \in timers, WakeTimer(h)
      PROVE  /\ UNCHANGED <<states, now>>
             /\ g = [h EXCEPT !.phase = "disabling"]
             /\ now > h.wake
    BY <1>3 DEF WakeTimer
<1>4. QED
    BY <1>1, <1>2, <1>3

(* A call leaves its set only by spawning the timer that carries on its    *)
(* duty; a timer leaves only when it sees another activation, or by the    *)
(* Disable it was spawned for.                                             *)
LEMMA DutyPassesOn ==
    ASSUME TypeOK, [Next]_vars, NEW t \in Types, Kept(t), states[t].enabled,
           \/ \E c \in spawning : c.type = t /\ c.own = states[t].startedAt
           \/ \E g \in timers : g.type = t /\ g.captured = states[t].startedAt
    PROVE  \/ \E c \in spawning' : c.type = t /\ c.own = states[t].startedAt
           \/ \E g \in timers' : g.type = t /\ g.captured = states[t].startedAt
<1> DEFINE Guarded == \/ \E c \in spawning' : c.type = t /\ c.own = states[t].startedAt
                      \/ \E g \in timers' : g.type = t /\ g.captured = states[t].startedAt
<1>1. ASSUME NEW c \in spawning, SpawnTimer(c) PROVE Guarded
    <2> DEFINE g == [type |-> c.type, own |-> c.own,
                     captured |-> states[c.type].startedAt,
                     wake |-> now + c.duration, phase |-> "sleeping"]
    <2>1. spawning' = spawning \ {c} /\ timers' = timers \cup {g}
        BY <1>1 DEF SpawnTimer
    <2>2. g.type = c.type /\ g.captured = states[c.type].startedAt
        OBVIOUS
    <2> HIDE DEF g
    <2>3. QED
        BY <2>1, <2>2
<1>2. ASSUME NEW h \in timers, WakeTimer(h) PROVE Guarded
    <2> DEFINE g == [h EXCEPT !.phase = "disabling"]
    <2>1. h \in Timer
        BY DEF TypeOK
    <2>2. g.type = h.type /\ g.captured = h.captured
        BY <2>1 DEF Timer
    <2>3. h.type = t /\ h.captured = states[t].startedAt => timers' = (timers \ {h}) \cup {g}
        BY <1>2 DEF WakeTimer
    <2>4. (timers \ {h}) \subseteq timers' /\ spawning' = spawning
        BY <1>2 DEF WakeTimer
    <2> HIDE DEF g
    <2>5. QED
        BY <2>2, <2>3, <2>4
<1>3. ASSUME NEW h \in timers, AutoDisable(h) PROVE Guarded
    <2>1. h.type # t
        BY <1>3, DisabledEntry DEF AutoDisable, Kept, TypeOK, Timer
    <2>2. QED
        BY <1>3, <2>1 DEF AutoDisable
<1>4. ASSUME spawning \subseteq spawning', timers' = timers PROVE Guarded
    BY <1>4
<1>5. QED
    BY <1>1, <1>2, <1>3, <1>4 DEF Next, Request, TimerStep, SweepStep, vars, EnableSpec,
       Delete, Scale, BeginSweep, KillOne, OpsLook, OpsClear, Reply, Tick

(* What a step does to one sweep.                                          *)
LEMMA SweepProgress ==
    ASSUME TypeOK, [Next]_vars, NEW o \in Operators
    PROVE  /\ sweeps'[o].since \in {sweeps[o].since, now, 0}
           /\ \A t \in Swept(o)' :
                 \/ t \in Types /\ Ended(t)
                 \/ /\ t \in Swept(o)
                    /\ sweeps'[o].kind = sweeps[o].kind
                    /\ sweeps'[o].since = sweeps[o].since
                 \/ /\ UNCHANGED <<states, now>>
                    /\ sweeps'[o].kind # "kill"
                    /\ ~IsActive(t)
<1> USE RegistryAssumption
<1> DEFINE Goal ==
        /\ sweeps'[o].since \in {sweeps[o].since, now, 0}
        /\ \A t \in Swept(o)' :
              \/ t \in Types /\ Ended(t)
              \/ /\ t \in Swept(o)
                 /\ sweeps'[o].kind = sweeps[o].kind
                 /\ sweeps'[o].since = sweeps[o].since
              \/ /\ UNCHANGED <<states, now>>
                 /\ sweeps'[o].kind # "kill"
                 /\ ~IsActive(t)
<1>0. sweeps \in [Operators -> Sweep] /\ sweeps[o] \in Sweep
    BY DEF TypeOK
<1>1. ASSUME sweeps'[o] = sweeps[o] PROVE Goal
    BY <1>1 DEF Swept
<1>2. ASSUME NEW kind \in {"kill"} \cup Actions, BeginSweep(o, kind) PROVE Goal
    <2> DEFINE scope == IF kind = "kill" THEN Types ELSE OpsClears[kind]
               new == [kind |-> kind, scope |-> scope, todo |-> scope, hit |-> {}, since |-> now]
    <2>1. sweeps'[o] = new
        BY <1>0, <1>2 DEF BeginSweep
    <2>2. new.since = now /\ new.scope = new.todo
        OBVIOUS
    <2> HIDE DEF new
    <2>3. QED
        BY <2>1, <2>2 DEF Swept
<1>3. ASSUME NEW t \in Types, KillOne(o, t) PROVE Goal
    <2> DEFINE new == [sweeps[o] EXCEPT !.todo = sweeps[o].todo \ {t}]
    <2>1. sweeps'[o] = new
        BY <1>0, <1>3 DEF KillOne
    <2>2. /\ new.kind = sweeps[o].kind /\ new.since = sweeps[o].since
          /\ new.scope = sweeps[o].scope /\ new.hit = sweeps[o].hit
          /\ new.todo = sweeps[o].todo \ {t}
        BY <1>0 DEF Sweep
    <2> HIDE DEF new
    <2>3. Ended(t)
        BY <1>3, DisabledEntry DEF KillOne, Ended
    <2>4. QED
        BY <2>1, <2>2, <2>3 DEF Swept
<1>4. ASSUME NEW t \in Types, OpsLook(o, t) PROVE Goal
    <2> DEFINE hit == IF IsActive(t) THEN {t} ELSE {}
               new == [sweeps[o] EXCEPT !.todo = sweeps[o].todo \ {t}, !.hit = hit]
    <2>1. sweeps'[o] = new
        BY <1>0, <1>4 DEF OpsLook
    <2>2. /\ new.kind = sweeps[o].kind /\ new.since = sweeps[o].since
          /\ new.scope = sweeps[o].scope /\ new.hit = hit
          /\ new.todo = sweeps[o].todo \ {t}
        BY <1>0 DEF Sweep
    <2> HIDE DEF new
    <2>3. sweeps[o].kind \in Actions /\ sweeps[o].hit = {} /\ UNCHANGED <<states, now>>
        BY <1>4 DEF OpsLook
    <2>4. QED
        BY <2>1, <2>2, <2>3 DEF Swept
<1>5. ASSUME NEW t \in Types, OpsClear(o, t) PROVE Goal
    <2> DEFINE new == [sweeps[o] EXCEPT !.hit = sweeps[o].hit \ {t}]
    <2>1. sweeps'[o] = new
        BY <1>0, <1>5 DEF OpsClear
    <2>2. /\ new.kind = sweeps[o].kind /\ new.since = sweeps[o].since
          /\ new.scope = sweeps[o].scope /\ new.hit = sweeps[o].hit \ {t}
          /\ new.todo = sweeps[o].todo
        BY <1>0 DEF Sweep
    <2> HIDE DEF new
    <2>3. Ended(t)
        BY <1>5, DisabledEntry DEF OpsClear, Ended
    <2>4. QED
        BY <2>1, <2>2, <2>3 DEF Swept
<1>6. ASSUME Reply(o) PROVE Goal
    <2>1. sweeps'[o] = NoSweep
        BY <1>0, <1>6 DEF Reply
    <2>2. QED
        BY <2>1 DEF NoSweep, Swept
<1>7. ASSUME NEW p \in Operators \ {o}, SweepStep(p) \/ \E kind \in {"kill"} \cup Actions :
                                                        BeginSweep(p, kind)
      PROVE  sweeps'[o] = sweeps[o]
    BY <1>0, <1>7 DEF SweepStep, BeginSweep, KillOne, OpsLook, OpsClear, Reply
<1>8. QED
    BY <1>1, <1>2, <1>3, <1>4, <1>5, <1>6, <1>7
    DEF Next, Request, TimerStep, SweepStep, vars, EnableSpec, Delete, Scale, SpawnTimer,
        WakeTimer, AutoDisable, Tick

-----------------------------------------------------------------------------
(* Stamps stay readings of the clock: no handler or timer writes one later *)
(* than now, and only Disable writes the zero time.                        *)
LEMMA StampedStep ==
    ASSUME TypeOK, Stamped, [Next]_vars
    PROVE  Stamped'
<1>1. TypeOK'
    BY TypeStep
<1>2. now \in Nat /\ now' \in {now, now + 1}
    BY EntryStep DEF TypeOK
<1>3. ASSUME NEW t \in Types
      PROVE  /\ states'[t].enabled => states'[t].startedAt # 0
             /\ ~states'[t].enabled => states'[t].startedAt = 0
             /\ states'[t].startedAt <= now'
    <2>1. states[t].startedAt \in Nat /\ states'[t].startedAt \in Nat
        BY <1>1 DEF TypeOK, State
    <2>2. CASE Kept(t)
        BY <1>2, <2>1, <2>2 DEF Kept, Stamped
    <2>3. CASE Ended(t)
        BY <1>1, <1>2, <2>3 DEF Ended
    <2>4. CASE Begun(t)
        BY <1>2, <2>4 DEF Begun
    <2>5. QED
        BY <2>2, <2>3, <2>4, EntryStep
<1>4. ASSUME NEW c \in spawning' PROVE c.own <= now'
    <2>1. c.own \in Nat
        BY <1>1 DEF TypeOK, Spawn
    <2>2. QED
        BY <1>2, <2>1, CallStep DEF Stamped
<1>5. ASSUME NEW g \in timers' PROVE g.own <= now'
    <2>1. CASE g \in timers
        <3>1. g.own \in Nat
            BY <1>1 DEF TypeOK, Timer
        <3>2. QED
            BY <1>2, <2>1, <3>1 DEF Stamped
    <2>2. ASSUME NEW c \in spawning, g.own = c.own, now' = now PROVE g.own <= now'
        BY <2>2 DEF Stamped
    <2>3. ASSUME NEW h \in timers, g = [h EXCEPT !.phase = "disabling"], now' = now
          PROVE  g.own <= now'
        <3>1. h \in Timer
            BY DEF TypeOK
        <3>2. g.own = h.own
            BY <2>3, <3>1 DEF Timer
        <3>3. QED
            BY <2>3, <3>2 DEF Stamped
    <2>4. QED
        BY <2>1, <2>2, <2>3, TimerStepOf
<1>6. ASSUME NEW o \in Operators PROVE sweeps'[o].since <= now'
    <2>1. sweeps[o].since \in Nat /\ sweeps[o].since <= now
        BY DEF TypeOK, Sweep, Stamped
    <2>2. sweeps'[o].since \in {sweeps[o].since, now, 0}
        BY SweepProgress
    <2>3. QED
        BY <1>2, <2>1, <2>2
<1>7. QED
    BY <1>3, <1>4, <1>5, <1>6 DEF Stamped

(* Between its unlock and its go statement a call agrees with the map on a *)
(* fault it finds with its own stamp: no other goroutine can have written  *)
(* that stamp.                                                             *)
LEMMA CallsAgreeStep ==
    ASSUME TypeOK, Stamped, CallsAgree, [Next]_vars
    PROVE  CallsAgree'
<1> SUFFICES ASSUME NEW c \in spawning', states'[c.type].startedAt = c.own
             PROVE  ~states'[c.type].sticky /\ states'[c.type].duration = c.duration
    BY DEF CallsAgree
<1>1. TypeOK'
    BY TypeStep
<1>2. c.type \in Types /\ c.own \in Nat \ {0} /\ now \in Nat
    BY <1>1 DEF TypeOK, Spawn
<1>3. CASE c \in spawning
    <2>1. c.own <= now
        BY <1>3 DEF Stamped
    <2>2. ~Begun(c.type) /\ ~Ended(c.type)
        BY <1>2, <2>1 DEF Begun, Ended
    <2>3. Kept(c.type)
        BY <1>2, <2>2, EntryStep
    <2>4. QED
        BY <1>3, <2>3 DEF Kept, CallsAgree
<1>4. QED
    BY <1>3, CallStep

(* However late a timer is spawned, its sleep ends after the duration of   *)
(* the activation that spawned it.                                         *)
LEMMA TimersLateStep ==
    ASSUME TypeOK, Stamped, CallsAgree, TimersLate, [Next]_vars
    PROVE  TimersLate'
<1>1. TypeOK'
    BY TypeStep
<1>2. now \in Nat /\ now' \in {now, now + 1}
    BY EntryStep DEF TypeOK
<1> SUFFICES ASSUME NEW g \in timers'
             PROVE  /\ g.phase = "disabling" => now' > g.wake
                    /\ states'[g.type].startedAt = g.own =>
                          /\ ~states'[g.type].sticky
                          /\ states'[g.type].duration > 0
                          /\ g.wake >= g.own + states'[g.type].duration
    BY DEF TimersLate
<1>3. g.type \in Types /\ g.own \in Nat \ {0} /\ g.wake \in Nat
    BY <1>1 DEF TypeOK, Timer
<1>4. CASE g \in timers
    <2>1. g.own <= now
        BY <1>4 DEF Stamped
    <2>2. states'[g.type].startedAt = g.own => Kept(g.type)
        BY <1>2, <1>3, <2>1, EntryStep DEF Begun, Ended
    <2>3. QED
        BY <1>2, <1>3, <1>4, <2>2 DEF Kept, TimersLate
<1>5. ASSUME NEW c \in spawning, UNCHANGED <<states, now>>, g.phase = "sleeping",
             g.type = c.type, g.own = c.own, g.wake = now + c.duration,
             states'[g.type].startedAt = g.own
      PROVE  /\ ~states'[g.type].sticky
             /\ states'[g.type].duration > 0
             /\ g.wake >= g.own + states'[g.type].duration
    <2>1. c.duration \in Nat \ {0} /\ c.own <= now
        BY DEF TypeOK, Spawn, Stamped
    <2>2. ~states[c.type].sticky /\ states[c.type].duration = c.duration
        BY <1>5 DEF CallsAgree
    <2>3. QED
        BY <1>2, <1>3, <1>5, <2>1, <2>2
<1>6. ASSUME NEW h \in timers, UNCHANGED <<states, now>>,
             g = [h EXCEPT !.phase = "disabling"], now > h.wake
      PROVE  /\ now' > g.wake
             /\ states'[g.type].startedAt = g.own =>
                   /\ ~states'[g.type].sticky
                   /\ states'[g.type].duration > 0
                   /\ g.wake >= g.own + states'[g.type].duration
    <2>1. h \in Timer
        BY DEF TypeOK
    <2>2. g.type = h.type /\ g.own = h.own /\ g.wake = h.wake
        BY <1>6, <2>1 DEF Timer
    <2>3. QED
        BY <1>6, <2>2 DEF TimersLate
<1>7. QED
    BY <1>4, <1>5, <1>6, TimerStepOf

(* A step that leaves a timed fault on leaves it with the goroutine that   *)
(* owes it an end.                                                         *)
LEMMA HasTimerStep ==
    ASSUME TypeOK, TimedFaultHasTimer, [Next]_vars
    PROVE  TimedFaultHasTimer'
<1> SUFFICES ASSUME NEW t \in Types, states'[t].enabled, ~states'[t].sticky
             PROVE  \/ \E c \in spawning' : c.type = t /\ c.own = states'[t].startedAt
                    \/ \E g \in timers' : g.type = t /\ g.captured = states'[t].startedAt
    BY DEF TimedFaultHasTimer
<1>1. CASE Kept(t)
    <2>1. states'[t] = states[t]
        BY <1>1 DEF Kept
    <2>2. states[t].enabled /\ ~states[t].sticky
        BY <2>1
    <2>3. QED
        BY <1>1, <2>1, <2>2, DutyPassesOn DEF TimedFaultHasTimer
<1>2. CASE Begun(t)
    BY <1>2 DEF Begun
<1>3. QED
    BY <1>1, <1>2, EntryStep DEF Ended

(* A fault a sweep has passed comes back only by an activation later than  *)
(* the request.                                                            *)
LEMMA SweepClearsStep ==
    ASSUME TypeOK, Stamped, SweepClears, [Next]_vars
    PROVE  SweepClears'
<1>1. TypeOK' /\ Stamped'
    BY TypeStep, StampedStep
<1>2. now \in Nat /\ now' \in {now, now + 1}
    BY EntryStep DEF TypeOK
<1> SUFFICES ASSUME NEW o \in Operators, NEW t \in Swept(o)',
                    IF sweeps'[o].kind = "kill" THEN states'[t].enabled ELSE IsActive(t)'
             PROVE  states'[t].startedAt > sweeps'[o].since
    BY DEF SweepClears
<1>3. t \in Types /\ sweeps'[o].since \in Nat
    BY <1>1 DEF TypeOK, Sweep, Swept
<1>4. states'[t].enabled
    BY DEF IsActive
<1>5. CASE Begun(t)
    <2>1. sweeps'[o].since <= now
        BY <1>5 DEF Begun, Stamped
    <2>2. QED
        BY <1>2, <1>3, <1>5, <2>1 DEF Begun
<1>6. CASE Kept(t)
    <2>1. states'[t] = states[t]
        BY <1>6 DEF Kept
    <2>2. states[t].startedAt \in Nat /\ states[t].duration \in Int
        BY <1>3 DEF TypeOK, State
    <2>3. IsActive(t)' => IsActive(t)
        BY <1>2, <2>1, <2>2 DEF IsActive, Expired
    <2>4. \/ /\ t \in Swept(o)
             /\ sweeps'[o].kind = sweeps[o].kind
             /\ sweeps'[o].since = sweeps[o].since
          \/ /\ sweeps'[o].kind # "kill"
             /\ ~IsActive(t)
        BY <1>4, SweepProgress DEF Ended
    <2>5. QED
        BY <2>1, <2>3, <2>4 DEF SweepClears
<1>7. QED
    BY <1>3, <1>4, <1>5, <1>6, EntryStep DEF Ended

-----------------------------------------------------------------------------
(* The strengthening holds in every reachable state.                       *)
LEMMA Inductive == Spec => []IInv
<1>1. Init => IInv
    <2> SUFFICES ASSUME Init PROVE IInv
        OBVIOUS
    <2>1. TypeOK
        BY DEF Init, TypeOK, State, Off, Sweep, NoSweep
    <2>2. Stamped /\ CallsAgree /\ TimersLate /\ TimedFaultHasTimer /\ SweepClears
        BY DEF Init, Off, NoSweep, Stamped, CallsAgree, TimersLate, TimedFaultHasTimer,
               SweepClears, Swept
    <2>3. QED
        BY <2>1, <2>2 DEF IInv
<1>2. IInv /\ [Next]_vars => IInv'
    BY TypeStep, StampedStep, CallsAgreeStep, TimersLateStep, HasTimerStep, SweepClearsStep
    DEF IInv
<1>3. QED
    BY <1>1, <1>2, PTL DEF Spec

(* EnableSpec never leaves a timed fault without the goroutine that will   *)
(* end it, whatever other calls, timers and sweeps do in between.          *)
THEOREM NoOrphan == Spec => []TimedFaultHasTimer
<1>1. IInv => TimedFaultHasTimer
    BY DEF IInv
<1>2. QED
    BY <1>1, Inductive, PTL

(* The auto-disable goroutine does not end its own activation before the   *)
(* duration has passed.                                                    *)
THEOREM NotCutShort == Spec => []NeverCutShort
<1>1. IInv => NeverCutShort
    <2> SUFFICES ASSUME IInv, NEW g \in timers, g.phase = "disabling",
                        states[g.type].startedAt = g.own
                 PROVE  ~IsActive(g.type)
        BY DEF NeverCutShort
    <2>1. /\ now > g.wake
          /\ ~states[g.type].sticky
          /\ states[g.type].duration > 0
          /\ g.wake >= g.own + states[g.type].duration
        BY DEF IInv, TimersLate
    <2>2. /\ now \in Nat /\ g.own \in Nat /\ g.wake \in Nat
          /\ states[g.type].duration \in Int
        BY DEF IInv, TypeOK, Timer, State
    <2>3. QED
        BY <2>1, <2>2 DEF IsActive, Expired
<1>2. QED
    BY <1>1, Inductive, PTL

(* The kill-switch and the /ops remediations really clear their scope: at  *)
(* the answer only faults enabled after the request arrived are left.      *)
THEOREM SweepsClear == Spec => []SweepClears
<1>1. IInv => SweepClears
    BY DEF IInv
<1>2. QED
    BY <1>1, Inductive, PTL

-----------------------------------------------------------------------------
(* The registry as its callers see it, in the variables of ChaosContract.  *)
Live == [t \in Types |-> IF IsActive(t) THEN states[t].startedAt ELSE 0]

Asked == [o \in Operators |-> [open  |-> sweeps[o].kind # "idle",
                               scope |-> sweeps[o].scope,
                               since |-> sweeps[o].since]]

(* What IsActive reports of a type changes only by an end or by a stamp    *)
(* later than every reading of the clock before: an activation that ended  *)
(* or expired never comes back.                                            *)
LEMMA LiveStep ==
    ASSUME TypeOK, [Next]_vars
    PROVE  /\ now \in Nat
           /\ now' \in {now, now + 1}
           /\ \A t \in Types : Live'[t] \in {Live[t], 0} \cup (now + 1 .. now')
<1>1. now \in Nat /\ now' \in {now, now + 1}
    BY EntryStep DEF TypeOK
<1> SUFFICES ASSUME NEW t \in Types
             PROVE  Live'[t] \in {Live[t], 0} \cup (now + 1 .. now')
    BY <1>1
<1>2. /\ Live[t] = IF IsActive(t) THEN states[t].startedAt ELSE 0
      /\ Live'[t] = IF IsActive(t)' THEN states'[t].startedAt ELSE 0
    BY DEF Live
<1>3. CASE Kept(t)
    <2>1. states'[t] = states[t]
        BY <1>3 DEF Kept
    <2>2. states[t].startedAt \in Nat /\ states[t].duration \in Int
        BY DEF TypeOK, State
    <2>3. IsActive(t)' => IsActive(t)
        BY <1>1, <2>1, <2>2 DEF IsActive, Expired
    <2>4. QED
        BY <1>2, <2>1, <2>3
<1>4. CASE Ended(t)
    BY <1>2, <1>4 DEF Ended, IsActive
<1>5. CASE Begun(t)
    BY <1>1, <1>2, <1>5 DEF Begun
<1>6. QED
    BY <1>3, <1>4, <1>5, EntryStep

(* A step that neither takes nor answers a request to clear is, to the     *)
(* callers, faults beginning and ending.                                   *)
LEMMA EvolveStep ==
    ASSUME TypeOK, [Next]_vars, Asked' = Asked
    PROVE  Contract!Evolve
<1>1. /\ now' \in Nat
      /\ now' >= now
      /\ Live' = [t \in Types |-> Live'[t]]
      /\ \A t \in Types : Live'[t] \in {Live[t], 0} \cup (now + 1 .. now')
    BY LiveStep DEF Live
<1>2. QED
    BY <1>1 DEF Contract!Evolve, Live, Asked

(* The request and the answer of a sweep are those of the contract; the    *)
(* answer needs what the sweep has passed to have stayed cleared.          *)
LEMMA RefinesStep ==
    ASSUME TypeOK, SweepClears, [Next]_vars
    PROVE  [Contract!Next]_(Contract!vars)
<1> USE RegistryAssumption
<1>0. sweeps \in [Operators -> Sweep] /\ \A o \in Operators : sweeps[o] \in Sweep
    BY DEF TypeOK
<1>1. CASE Asked' = Asked
    BY <1>1, EvolveStep DEF Contract!Next
<1>2. ASSUME NEW o \in Operators, NEW kind \in {"kill"} \cup Actions, BeginSweep(o, kind)
      PROVE  Contract!Ask(o)
    <2> DEFINE scope == IF kind = "kill" THEN Types ELSE OpsClears[kind]
               new == [kind |-> kind, scope |-> scope, todo |-> scope, hit |-> {}, since |-> now]
    <2>1. sweeps' = [sweeps EXCEPT ![o] = new] /\ sweeps[o].kind = "idle"
        BY <1>2 DEF BeginSweep
    <2>2. new.kind # "idle" /\ new.scope = scope /\ new.since = now
        OBVIOUS
    <2>3. Asked' = [Asked EXCEPT ![o] = [open |-> TRUE, scope |-> scope, since |-> now]]
        <3> HIDE DEF new
        <3> QED
            BY <1>0, <2>1, <2>2 DEF Asked
    <2>4. UNCHANGED <<states, now>> /\ Live' = Live
        BY <1>2 DEF BeginSweep, Live, IsActive, Expired
    <2>5. scope \in SUBSET Types /\ ~Asked[o].open
        BY <2>1 DEF Asked
    <2>6. QED
        BY <2>3, <2>4, <2>5 DEF Contract!Ask, Live, Asked
<1>3. ASSUME NEW o \in Operators, Reply(o)
      PROVE  Contract!Answer(o)
    <2>1. sweeps[o].kind # "idle" /\ Swept(o) = sweeps[o].scope
        BY <1>0, <1>3 DEF Reply, SweepDone, Swept
    <2>2. Asked[o].open
        BY <2>1 DEF Asked
    <2>3. \A t \in Asked[o].scope : Live[t] = 0 \/ Live[t] > Asked[o].since
        <3> SUFFICES ASSUME NEW t \in Asked[o].scope, IsActive(t)
                     PROVE  Live[t] > Asked[o].since
            BY <1>0 DEF Live, Asked, Sweep
        <3>1. t \in Types /\ t \in Swept(o)
            BY <1>0, <2>1 DEF Asked, Sweep
        <3>2. states[t].startedAt > sweeps[o].since
            BY <3>1 DEF SweepClears, IsActive
        <3>3. QED
            BY <3>1, <3>2 DEF Live, Asked
    <2>4. sweeps' = [sweeps EXCEPT ![o] = NoSweep] /\ UNCHANGED <<states, now>>
        BY <1>3 DEF Reply
    <2>5. Live' = Live
        BY <2>4 DEF Live, IsActive, Expired
    <2>6. Asked' = [Asked EXCEPT ![o] = [open |-> FALSE, scope |-> {}, since |-> 0]]
        BY <1>0, <2>4 DEF Asked, NoSweep
    <2>7. QED
        BY <2>2, <2>3, <2>4, <2>5, <2>6
        DEF Contract!Answer, Contract!Cleared, Contract!Closed, Live, Asked
<1>4. ASSUME NEW o \in Operators, NEW t \in Types, KillOne(o, t) \/ OpsLook(o, t) \/ OpsClear(o, t)
      PROVE  Asked' = Asked
    <2>1. /\ sweeps' = [sweeps EXCEPT ![o] = sweeps'[o]]
          /\ sweeps'[o].kind = sweeps[o].kind
          /\ sweeps'[o].scope = sweeps[o].scope
          /\ sweeps'[o].since = sweeps[o].since
        <3>1. CASE KillOne(o, t)
            BY <1>0, <3>1 DEF KillOne, Sweep
        <3>2. CASE OpsLook(o, t)
            BY <1>0, <3>2 DEF OpsLook, Sweep
        <3>3. CASE OpsClear(o, t)
            BY <1>0, <3>3 DEF OpsClear, Sweep
        <3>4. QED
            BY <1>4, <3>1, <3>2, <3>3
    <2>2. \A p \in Operators : /\ sweeps'[p].kind = sweeps[p].kind
                               /\ sweeps'[p].scope = sweeps[p].scope
                               /\ sweeps'[p].since = sweeps[p].since
        BY <1>0, <2>1
    <2>3. QED
        BY <2>2 DEF Asked
<1>5. CASE UNCHANGED sweeps
    <2>1. Asked' = Asked
        BY <1>5 DEF Asked
    <2>2. QED
        BY <1>1, <2>1
<1>6. QED
    BY <1>1, <1>2, <1>3, <1>4, <1>5
    DEF Next, Request, TimerStep, SweepStep, vars, EnableSpec, Delete, Scale, SpawnTimer,
        WakeTimer, AutoDisable, Tick, Contract!Next

(* The registry implements the contract: an activation that ended or was   *)
(* superseded never comes back, and the kill-switch and /ops answer only   *)
(* when nothing that was active in their scope when they were asked still  *)
(* is, with timers, DELETEs and new activations running meanwhile.         *)
THEOREM ImplementsContract == Spec => KeepsContract
<1>1. Init => Contract!Init
    <2> SUFFICES ASSUME Init PROVE Contract!Init
        OBVIOUS
    <2>1. \A t \in Types : ~IsActive(t)
        BY DEF Init, Off, IsActive
    <2>2. \A o \in Operators : [open  |-> sweeps[o].kind # "idle",
                                scope |-> sweeps[o].scope,
                                since |-> sweeps[o].since] = Contract!Closed
        <3>1. /\ NoSweep.kind = "idle" /\ NoSweep.scope = {} /\ NoSweep.since = 0
            BY DEF NoSweep
        <3> SUFFICES ASSUME NEW o \in Operators
                     PROVE  [open  |-> sweeps[o].kind # "idle",
                             scope |-> sweeps[o].scope,
                             since |-> sweeps[o].since] = Contract!Closed
            OBVIOUS
        <3>2. sweeps[o] = NoSweep
            BY DEF Init
        <3>3. sweeps[o].kind = "idle" /\ sweeps[o].scope = {} /\ sweeps[o].since = 0
            BY <3>1, <3>2
        <3>4. (sweeps[o].kind # "idle") = FALSE
            BY <3>3
        <3>5. QED
            BY <3>3, <3>4 DEF Contract!Closed
    <2>3. Asked = [o \in Operators |-> Contract!Closed]
        BY <2>2 DEF Asked
    <2>4. Live = [t \in Types |-> 0] /\ now = 0
        BY <2>1 DEF Live, Init
    <2>5. QED
        BY <2>3, <2>4 DEF Contract!Init, Live, Asked
<1>2. IInv /\ [Next]_vars => [Contract!Next]_(Contract!vars)
    BY RefinesStep DEF IInv
<1>3. QED
    BY <1>1, <1>2, Inductive, PTL DEF Spec, KeepsContract, Contract!Spec
=============================================================================
