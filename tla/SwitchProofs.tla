---------------------------- MODULE SwitchProofs ----------------------------
(* Proofs about the knobs of Services, for any names, durations, clients    *)
(* and number of commands: the three that switch themselves off keep the    *)
(* contract of TimedSwitch, the probes say what was in force, and nothing   *)
(* strikes what did not see it, or harder than it may.  As with the         *)
(* services, each knob has an inductive invariant of its own.               *)
EXTENDS Services, TLAPS

-----------------------------------------------------------------------------
(* A step of the whole is a step of each knob or leaves it alone.           *)
LEMMA KnobSteps ==
    ASSUME [Next]_vars
    PROVE  /\ [Sys!Next]_(Sys!vars) /\ [Shape!Next]_(Shape!vars)
           /\ [Ecom!Next]_(Ecom!vars) /\ [Sched!Next]_(Sched!vars)
<1> USE DEF knobVars, sysVars, shapeVars, ecomVars, schedVars, Sys!vars, Shape!vars, Ecom!vars, Sched!vars
<1>1. CASE UNCHANGED vars
  BY <1>1 DEF vars
<1>2. CASE SysSteps \/ ShapeSteps \/ EcomSteps \/ SchedSteps
  BY <1>2 DEF SysSteps, ShapeSteps, EcomSteps, SchedSteps
<1>3. CASE NoteSteps \/ UserSteps \/ AuthSteps \/ PathSteps \/ GenSteps
  BY <1>3 DEF NoteSteps, UserSteps, AuthSteps, PathSteps, GenSteps
<1> QED
  BY <1>1, <1>2, <1>3 DEF Next

-----------------------------------------------------------------------------
(* The chaos scheduler.                                                     *)
Stages == {"new", "inject", "answer"}

SchedTypes ==
    /\ chaos \in [active : BOOLEAN, kind : ChaosKinds \cup {Sched!NoKind}, left : Int]
    /\ posted \in Nat
    /\ request \in [Clients -> [at : Stages, seen : SUBSET (ChaosKinds \cup {Sched!NoKind})]]
    /\ struck \in BOOLEAN

(* A switch that is on has a kind.                                          *)
OnIsSet == Sched!On => chaos.kind \in ChaosKinds

(* A request about to be struck has seen the kind that is on now.           *)
Foreseen == \A c \in Clients : request[c].at = "inject" => chaos.kind \in request[c].seen

SchedInv == SchedTypes /\ OnIsSet /\ Foreseen /\ Sched!StruckByItsOwn

LEMMA SchedStart == ASSUME Sched!Init PROVE SchedInv
<1> USE DEF Sched!Init
<1>1. Sched!Waiting \in [at : Stages, seen : SUBSET (ChaosKinds \cup {Sched!NoKind})] /\ Sched!Waiting.at # "inject"
  BY DEF Sched!Waiting, Stages
<1>2. SchedTypes
  <2>1. chaos \in [active : BOOLEAN, kind : ChaosKinds \cup {Sched!NoKind}, left : Int]
    OBVIOUS
  <2>2. request \in [Clients -> [at : Stages, seen : SUBSET (ChaosKinds \cup {Sched!NoKind})]]
    BY <1>1
  <2> QED
    BY <2>1, <2>2 DEF SchedTypes
<1>3. ~Sched!On
  BY DEF Sched!On
<1>4. Foreseen
  BY <1>1 DEF Foreseen
<1> QED
  BY <1>2, <1>3, <1>4 DEF SchedInv, OnIsSet, Sched!StruckByItsOwn

LEMMA HandleKeeps ==
    ASSUME SchedInv, NEW k \in ChaosKinds, NEW d \in Sent, Sched!HandleChaos(k, d)
    PROVE  SchedInv'
<1> USE ChaosAssumption DEF SchedInv, Sched!HandleChaos
<1>1. chaos' = [active |-> TRUE, kind |-> k, left |-> d] /\ d \in Int
  OBVIOUS
<1>2. \A c \in Clients :
         /\ request'[c].at = request[c].at
         /\ request'[c].at # "new" => k \in request'[c].seen
         /\ request'[c] \in [at : Stages, seen : SUBSET (ChaosKinds \cup {Sched!NoKind})]
  BY DEF Sched!See, SchedTypes
<1>3. request' = [c \in Clients |-> request'[c]]
  BY DEF Sched!See
<1>4. SchedTypes'
  BY <1>1, <1>2, <1>3 DEF SchedTypes
<1>5. OnIsSet'
  BY <1>1 DEF OnIsSet, Sched!On
<1>6. Foreseen' /\ Sched!StruckByItsOwn'
  BY <1>1, <1>2 DEF Foreseen, Sched!StruckByItsOwn
<1> QED
  BY <1>4, <1>5, <1>6

(* isChaosActive touches the flag alone, and only when it says on no more.  *)
LEMMA AskKeeps ==
    ASSUME SchedInv, NEW c \in Clients, NEW next \in [at : Stages, seen : SUBSET (ChaosKinds \cup {Sched!NoKind})],
           Sched!On /\ next.at = "inject" => chaos.kind \in next.seen,
           Sched!IsChaosActive(c, next)
    PROVE  SchedInv'
<1> USE DEF SchedInv, Sched!IsChaosActive
<1>1. /\ chaos' = [chaos EXCEPT !.active = Sched!On] /\ (Sched!On <=> Sched!On')
      /\ chaos'.kind = chaos.kind /\ chaos'.left = chaos.left
  BY DEF SchedTypes, Sched!On
<1>2. Sched!Waiting \in [at : Stages, seen : SUBSET (ChaosKinds \cup {Sched!NoKind})] /\ Sched!Waiting.at = "new"
  BY DEF Sched!Waiting, Stages
<1>3. SchedTypes'
  BY <1>1, <1>2 DEF SchedTypes, Sched!On
<1>4. OnIsSet'
  BY <1>1 DEF OnIsSet
<1>5. Foreseen'
  BY <1>1, <1>2 DEF Foreseen, SchedTypes
<1> QED
  BY <1>3, <1>4, <1>5 DEF Sched!StruckByItsOwn

LEMMA SchedKept == ASSUME SchedInv, [Sched!Next]_(Sched!vars) PROVE SchedInv'
<1>1. ASSUME NEW k \in ChaosKinds, NEW d \in Sent, Sched!HandleChaos(k, d) PROVE SchedInv'
  BY <1>1, HandleKeeps
<1>2. ASSUME NEW c \in Clients, Sched!Arrive(c) PROVE SchedInv'
  <2>1. [at |-> "inject", seen |-> IF Sched!On THEN {chaos.kind} ELSE {}]
            \in [at : Stages, seen : SUBSET (ChaosKinds \cup {Sched!NoKind})]
    BY DEF Stages, SchedInv, SchedTypes
  <2> QED
    BY <1>2, <2>1, AskKeeps DEF Sched!Arrive
<1>3. ASSUME NEW c \in Clients, Sched!InjectChaos(c) PROVE SchedInv'
  <2> USE <1>3 DEF SchedInv, Sched!InjectChaos
  <2>1. SchedTypes'
    BY DEF SchedTypes, Stages
  <2> QED
    BY <2>1 DEF OnIsSet, Sched!On, Foreseen, Sched!StruckByItsOwn, SchedTypes
<1>4. ASSUME NEW c \in Clients, Sched!Answer(c) PROVE SchedInv'
  <2>1. Sched!Waiting \in [at : Stages, seen : SUBSET (ChaosKinds \cup {Sched!NoKind})] /\ Sched!Waiting.at # "inject"
    BY DEF Sched!Waiting, Stages
  <2> QED
    BY <1>4, <2>1, AskKeeps DEF Sched!Answer
<1>5. CASE Sched!Tick
  <2> USE <1>5 DEF SchedInv, Sched!Tick
  <2>1. SchedTypes'
    BY DEF SchedTypes
  <2>2. OnIsSet'
    BY DEF OnIsSet, Sched!On, SchedTypes
  <2> QED
    BY <2>1, <2>2 DEF Foreseen, Sched!StruckByItsOwn, SchedTypes
<1>6. CASE UNCHANGED Sched!vars
  BY <1>6 DEF Sched!vars, SchedInv, SchedTypes, OnIsSet, Sched!On, Foreseen, Sched!StruckByItsOwn
<1> QED
  BY <1>1, <1>2, <1>3, <1>4, <1>5, <1>6 DEF Sched!Next

LEMMA SchedOff == ASSUME Sched!Init PROVE Sched!Switch!Init
<1>1. ~Sched!On /\ posted = 0
  BY DEF Sched!Init, Sched!On
<1> QED
  BY <1>1 DEF Sched!Switch!Init

(* Every step of the scheduler is a command, a tick or nothing to the       *)
(* switch: expiry is written down by whoever asks, and seen by nobody.      *)
LEMMA SchedRefines == ASSUME SchedInv, [Sched!Next]_(Sched!vars) PROVE [Sched!Switch!Next]_(Sched!Switch!vars)
<1> USE DEF SchedInv, Sched!Switch!vars, Sched!Switch!Next
<1>1. ASSUME NEW k \in ChaosKinds, NEW d \in Sent, Sched!HandleChaos(k, d) PROVE Sched!Switch!Next
  <2>1. chaos' = [active |-> TRUE, kind |-> k, left |-> d] /\ d \in Int /\ posted' = posted + 1
    BY <1>1, ChaosAssumption DEF Sched!HandleChaos
  <2>2. CASE d >= 0
    BY <2>1, <2>2 DEF Sched!Switch!Set, Sched!On
  <2>3. CASE d < 0
    BY <2>1, <2>3 DEF Sched!Switch!Clear, Sched!On
  <2> QED
    BY <2>1, <2>2, <2>3
<1>2. ASSUME NEW c \in Clients, NEW next, Sched!IsChaosActive(c, next) PROVE UNCHANGED Sched!Switch!vars
  BY <1>2 DEF Sched!IsChaosActive, Sched!On, SchedTypes
<1>3. CASE Sched!Tick
  <2>1. Sched!On /\ chaos' = [chaos EXCEPT !.left = @ - 1] /\ posted' = posted /\ chaos.left \in Int
    BY <1>3 DEF Sched!Tick, SchedTypes
  <2>2. /\ chaos.active /\ chaos.left >= 0 /\ chaos'.active = chaos.active
        /\ chaos'.kind = chaos.kind /\ chaos'.left = chaos.left - 1
    BY <2>1 DEF Sched!On, SchedTypes
  <2>3. chaos.kind # Sched!NoKind
    BY <2>1, ChaosAssumption DEF OnIsSet
  <2>4. CASE chaos.left = 0
    BY <2>1, <2>2, <2>3, <2>4 DEF Sched!Switch!Pass, Sched!On
  <2>5. CASE chaos.left > 0
    BY <2>1, <2>2, <2>3, <2>5 DEF Sched!Switch!Pass, Sched!On
  <2> QED
    BY <2>1, <2>2, <2>4, <2>5
<1>4. ASSUME NEW c \in Clients, Sched!InjectChaos(c) PROVE UNCHANGED Sched!Switch!vars
  BY <1>4 DEF Sched!InjectChaos, Sched!On
<1>5. CASE UNCHANGED Sched!vars
  BY <1>5 DEF Sched!vars, Sched!On
<1> QED
  BY <1>1, <1>2, <1>3, <1>4, <1>5 DEF Sched!Next, Sched!Arrive, Sched!Answer

-----------------------------------------------------------------------------
(* The injected scenarios.                                                  *)
InjectStates == [enabled : BOOLEAN, dim : Ecom!Dimensions, left : Int]

EcomInv ==
    /\ inject \in [Scenarios -> InjectStates]
    /\ asked \in [Scenarios -> Nat]

LEMMA NoneIsState == Ecom!State0 \in InjectStates
<1>1. "" \in Ecom!Dimensions
  BY DEF Ecom!Dimensions
<1>2. \A dim \in Ecom!Dimensions : [enabled |-> FALSE, dim |-> dim, left |-> 0] \in InjectStates
  BY DEF InjectStates
<1> QED
  BY <1>1, <1>2, Zenon DEF Ecom!State0

LEMMA EcomStart == ASSUME Ecom!Init PROVE EcomInv /\ \A s \in Scenarios : Ecom!Switch(s)!Init
<1> USE DEF Ecom!Init, Ecom!State0
<1>1. EcomInv
  BY NoneIsState DEF EcomInv
<1>2. ASSUME NEW s \in Scenarios PROVE Ecom!Switch(s)!Init
  <2>1. ~Ecom!Active(s) /\ asked[s] = 0
    BY DEF Ecom!Active
  <2> QED
    BY <2>1 DEF Ecom!Switch!Init
<1> QED
  BY <1>1, <1>2

(* Enable fills in a dimension, and a duration of at least a tick.          *)
LEMMA DefaultsFit ==
    ASSUME NEW s \in Scenarios, NEW dim \in Dims, NEW d \in Durations
    PROVE  /\ Ecom!Duration(d) \in 1 .. MaxInject
           /\ Ecom!Dimension(s, dim) \in Ecom!Dimensions
<1>1. Ecom!Duration(d) \in 1 .. MaxInject
  BY EcomAssumption DEF Ecom!Duration
<1>2. Ecom!DefaultDimension(s) \in {"", "Footwear", "nike-air-zoom", "wh-east", "nike shoes"}
  BY DEF Ecom!DefaultDimension
<1> QED
  BY <1>1, <1>2 DEF Ecom!Dimension, Ecom!Dimensions

LEMMA EcomKept == ASSUME EcomInv, [Ecom!Next]_(Ecom!vars) PROVE EcomInv'
<1> USE DEF EcomInv
<1>1. ASSUME NEW S, Ecom!Asked(S) PROVE asked' \in [Scenarios -> Nat]
  BY <1>1 DEF Ecom!Asked
<1>2. ASSUME NEW s \in Scenarios, NEW dim \in Dims, NEW d \in Durations, Ecom!Enable(s, dim, d) PROVE EcomInv'
  <2>1. Ecom!Duration(d) \in Int /\ Ecom!Dimension(s, dim) \in Ecom!Dimensions
    BY DefaultsFit, EcomAssumption
  <2>2. [enabled |-> TRUE, dim |-> Ecom!Dimension(s, dim), left |-> Ecom!Duration(d)] \in InjectStates
    BY <2>1 DEF InjectStates
  <2>3. inject' \in [Scenarios -> InjectStates]
    BY <1>2, <2>2 DEF Ecom!Enable
  <2> QED
    BY <1>1, <1>2, <2>3 DEF Ecom!Enable
<1>3. ASSUME NEW S, Ecom!Disable(S) PROVE EcomInv'
  BY <1>1, <1>3, NoneIsState DEF Ecom!Disable
<1>4. CASE Ecom!Tick
  BY <1>4 DEF Ecom!Tick, InjectStates
<1>5. CASE UNCHANGED Ecom!vars
  BY <1>5 DEF Ecom!vars
<1> QED
  BY <1>2, <1>3, <1>4, <1>5 DEF Ecom!Next

(* To each scenario a command of its own is one, and another's is nothing.  *)
LEMMA EcomRefines ==
    ASSUME EcomInv, [Ecom!Next]_(Ecom!vars), NEW s \in Scenarios
    PROVE  [Ecom!Switch(s)!Next]_(Ecom!Switch(s)!vars)
<1> USE DEF EcomInv, InjectStates, Ecom!Switch!vars, Ecom!Switch!Next
<1>0. ASSUME inject'[s] = inject[s], asked'[s] = asked[s] PROVE UNCHANGED Ecom!Switch(s)!vars
  BY <1>0 DEF Ecom!Active
<1>1. ASSUME NEW S, Ecom!Asked(S) PROVE asked'[s] = IF s \in S THEN asked[s] + 1 ELSE asked[s]
  BY <1>1 DEF Ecom!Asked
<1>2. ASSUME NEW t \in Scenarios, NEW dim \in Dims, NEW d \in Durations, Ecom!Enable(t, dim, d)
      PROVE  Ecom!Switch(s)!Next \/ UNCHANGED Ecom!Switch(s)!vars
  <2>1. CASE s # t
    <3>1. inject'[s] = inject[s] /\ asked'[s] = asked[s]
      BY <1>1, <1>2, <2>1 DEF Ecom!Enable
    <3> QED
      BY <1>0, <3>1
  <2>2. CASE s = t
    <3>1. /\ inject'[s] = [enabled |-> TRUE, dim |-> Ecom!Dimension(s, dim), left |-> Ecom!Duration(d)]
          /\ asked'[s] = asked[s] + 1
      BY <1>1, <1>2, <2>2 DEF Ecom!Enable
    <3>2. Ecom!Duration(d) \in 1 .. MaxInject /\ Ecom!Dimension(s, dim) \in Ecom!Dimensions
      BY DefaultsFit
    <3>3. inject'[s].enabled /\ inject'[s].left = Ecom!Duration(d) /\ inject'[s].dim = Ecom!Dimension(s, dim)
      BY <3>1
    <3>4. inject'[s].left >= 0
      BY <3>2, <3>3, EcomAssumption
    <3> QED
      BY <3>1, <3>2, <3>3, <3>4 DEF Ecom!Switch!Set, Ecom!Active
  <2> QED
    BY <2>1, <2>2
<1>3. ASSUME NEW S, Ecom!Disable(S) PROVE Ecom!Switch(s)!Next \/ UNCHANGED Ecom!Switch(s)!vars
  <2>1. CASE s \in S
    <3>1. ~Ecom!Active(s)' /\ asked'[s] = asked[s] + 1
      BY <1>1, <1>3, <2>1 DEF Ecom!Disable, Ecom!Active, Ecom!State0
    <3> QED
      BY <3>1 DEF Ecom!Switch!Clear
  <2>2. CASE s \notin S
    BY <1>0, <1>1, <1>3, <2>2 DEF Ecom!Disable
  <2> QED
    BY <2>1, <2>2
<1>4. CASE Ecom!Tick
  <2>1. asked'[s] = asked[s] /\ inject'[s] = IF Ecom!Active(s) THEN [inject[s] EXCEPT !.left = @ - 1] ELSE inject[s]
    BY <1>4 DEF Ecom!Tick
  <2>2. CASE Ecom!Active(s)
    <3>1. /\ inject'[s].enabled /\ inject'[s].dim = inject[s].dim /\ inject'[s].left = inject[s].left - 1
          /\ inject[s].enabled /\ inject[s].left \in Nat
      BY <2>1, <2>2 DEF Ecom!Active
    <3>2. CASE inject[s].left = 0
      BY <2>1, <2>2, <3>1, <3>2 DEF Ecom!Switch!Pass, Ecom!Active
    <3>3. CASE inject[s].left > 0
      BY <2>1, <2>2, <3>1, <3>3 DEF Ecom!Switch!Pass, Ecom!Active
    <3> QED
      BY <3>1, <3>2, <3>3
  <2>3. CASE ~Ecom!Active(s)
    BY <1>0, <2>1, <2>3
  <2> QED
    BY <2>2, <2>3
<1>5. CASE UNCHANGED Ecom!vars
  BY <1>0, <1>5 DEF Ecom!vars
<1> QED
  BY <1>2, <1>3, <1>4, <1>5 DEF Ecom!Next

-----------------------------------------------------------------------------
(* The force switch of the synthetic incidents.                             *)
ForceInv ==
    /\ clock \in Int /\ orders \in Nat
    /\ forced \in [name : ForceNames \cup {"none"}, until : Int, intensity : 1 .. 100]

LEMMA NoneIsNoIncident == "none" \notin ForceNames
<1>1. "none" \notin DOMAIN Sys!Incidents
  BY DEF Sys!Incidents
<1> QED
  BY <1>1, SysAssumption DEF SysAssumption

LEMMA ForceStart == ASSUME Sys!Init PROVE ForceInv /\ Sys!Switch!Init
<1> USE DEF Sys!Init, Sys!NotForced
<1>1. clock \in Int
  BY SysAssumption DEF SysAssumption
<1>2. ForceInv
  BY <1>1 DEF ForceInv
<1>3. ~Sys!On
  BY DEF Sys!On, Sys!ForceIn
<1> QED
  BY <1>2, <1>3 DEF Sys!Switch!Init

LEMMA IntensityFits == ASSUME NEW i \in Intensities PROVE Sys!Intensity(i) \in 1 .. 100
BY SysAssumption DEF SysAssumption, Sys!Intensity, Sys!Clamp

(* How long a command lets the override stand.                              *)
Stays(d) == IF d = 0 THEN DefaultForce ELSE d

LEMMA ForceSets ==
    ASSUME NEW n, NEW d, NEW i, Sys!ForceScenario(n, d, i)
    PROVE  /\ forced' = [name |-> n, until |-> clock + Stays(d), intensity |-> Sys!Intensity(i)]
           /\ clock' = clock /\ orders' = orders + 1
BY DEF Sys!ForceScenario, Sys!Command, Stays

LEMMA StatusOnlyReads == ASSUME Sys!Status PROVE UNCHANGED <<auto, plan, clock, started, forced, orders>>
BY DEF Sys!Status, Sys!ForceStatus, Sys!HealthScore, Sys!CurrentStateName, Sys!ActiveFaultNames,
       Sys!FaultsOffSwitch, Sys!Replied, Sys!Page

LEMMA ForceKept == ASSUME ForceInv, [Sys!Next]_(Sys!vars) PROVE ForceInv'
<1> USE DEF ForceInv
<1>1. ASSUME NEW n \in ForceNames, NEW d \in Standings, NEW i \in Intensities, Sys!ForceScenario(n, d, i)
      PROVE  ForceInv'
  <2>1. Stays(d) \in Int
    BY SysAssumption DEF SysAssumption, Stays
  <2> QED
    BY <1>1, <2>1, ForceSets, IntensityFits
<1>2. CASE Sys!ClearForce
  BY <1>2 DEF Sys!ClearForce, Sys!Command, Sys!NotForced
<1>3. CASE Sys!Tick
  BY <1>3 DEF Sys!Tick
<1>4. CASE UNCHANGED <<clock, orders, forced>>
  BY <1>4
<1>5. CASE Sys!Status
  BY <1>4, <1>5, StatusOnlyReads
<1> QED
  BY <1>1, <1>2, <1>3, <1>4, <1>5 DEF Sys!Next, Sys!vars

(* To the switch a status page is nothing, and a tick of a switch that is   *)
(* off is nothing.                                                          *)
LEMMA ForceRefines == ASSUME ForceInv, [Sys!Next]_(Sys!vars) PROVE [Sys!Switch!Next]_(Sys!Switch!vars)
<1> USE DEF ForceInv, Sys!Switch!vars, Sys!Switch!Next, Sys!On, Sys!ForceIn, Sys!Shown
<1>1. ASSUME NEW n \in ForceNames, NEW d \in Standings, NEW i \in Intensities, Sys!ForceScenario(n, d, i)
      PROVE  Sys!Switch!Next
  <2>1. /\ forced'.name = n /\ forced'.until = clock + Stays(d) /\ forced'.intensity = Sys!Intensity(i)
        /\ clock' = clock /\ orders' = orders + 1 /\ n # "none"
    BY <1>1, ForceSets, NoneIsNoIncident
  <2>2. Stays(d) \in Int /\ Stays(d) \in (Standings \ {0}) \cup {DefaultForce}
    BY SysAssumption DEF SysAssumption, Stays
  <2>3. Sys!Intensity(i) \in 1 .. 100
    BY IntensityFits
  <2>4. CASE Stays(d) >= 0
    <3>1. clock' <= forced'.until /\ forced'.until - clock' = Stays(d)
      BY <2>1, <2>2, <2>4
    <3>2. [name |-> forced'.name, intensity |-> forced'.intensity] \in [name : ForceNames, intensity : 1 .. 100]
      BY <2>1, <2>3
    <3> QED
      BY <2>1, <2>2, <3>1, <3>2 DEF Sys!Switch!Set
  <2>5. CASE Stays(d) < 0
    <3>1. ~(clock' <= forced'.until)
      BY <2>1, <2>2, <2>5
    <3> QED
      BY <2>1, <3>1 DEF Sys!Switch!Clear, Sys!NotForced
  <2> QED
    BY <2>2, <2>4, <2>5
<1>2. CASE Sys!ClearForce
  BY <1>2 DEF Sys!ClearForce, Sys!Command, Sys!NotForced, Sys!Switch!Clear
<1>3. CASE Sys!Tick
  <2>1. clock' = clock + 1 /\ forced' = forced /\ orders' = orders /\ clock \in Int /\ forced.until \in Int
    BY <1>3 DEF Sys!Tick
  <2>2. CASE Sys!On /\ clock = forced.until
    BY <2>1, <2>2 DEF Sys!Switch!Pass, Sys!NotForced
  <2>3. CASE Sys!On /\ clock < forced.until
    BY <2>1, <2>3 DEF Sys!Switch!Pass, Sys!NotForced
  <2>4. CASE ~Sys!On
    BY <2>1, <2>4
  <2> QED
    BY <2>1, <2>2, <2>3, <2>4
<1>4. CASE UNCHANGED <<clock, orders, forced>>
  BY <1>4
<1>5. CASE Sys!Status
  BY <1>4, <1>5, StatusOnlyReads
<1> QED
  BY <1>1, <1>2, <1>3, <1>4, <1>5 DEF Sys!Next, Sys!vars

-----------------------------------------------------------------------------
(* The probes.  What they share is the table: every incident has its times, *)
(* a low health that half and three quarters still lower, and a primary     *)
(* fault that is not among its cascades.                                    *)
LEMMA TableIsSane ==
    ASSUME NEW n \in DOMAIN Sys!Incidents
    PROVE  /\ Sys!Incidents[n].health \in 10 .. 30
           /\ Sys!Incidents[n].ramp \in Nat \ {0} /\ Sys!Incidents[n].peak \in Nat
           /\ Sys!Incidents[n].recover \in Nat \ {0}
           /\ Sys!Incidents[n].primary \notin Sys!Incidents[n].cascade
<1> USE DEF Sys!Incidents, Sys!Incident
<1>1. n \in {"db_contention", "payment_degradation", "auth_service_degradation", "network_saturation",
             "memory_pressure", "cache_stampede", "connection_pool_exhaustion", "retry_amplification",
             "clock_skew_auth", "queue_consumer_lag"}
  OBVIOUS
<1>2. CASE n \in {"db_contention", "payment_degradation", "auth_service_degradation"}
  BY <1>2
<1>3. CASE n \in {"network_saturation", "memory_pressure", "cache_stampede"}
  BY <1>3
<1>4. CASE n \in {"connection_pool_exhaustion", "retry_amplification", "clock_skew_auth", "queue_consumer_lag"}
  BY <1>4
<1> QED
  BY <1>1, <1>2, <1>3, <1>4

LEMMA PlanIsSane ==
    ASSUME plan \in Sys!Plans, plan.incident
    PROVE  plan.name \in DOMAIN Sys!Incidents /\ plan.quiet \in Nat
<1> DEFINE names == DOMAIN Sys!Incidents
           quiets == {Sys!EpochLength \div 5, (Sys!EpochLength * 9) \div 20}
<1>1. quiets \subseteq Nat
  BY DEF Sys!EpochLength
<1>2. ~Sys!QuietEpoch.incident
  BY DEF Sys!QuietEpoch
<1>3. plan \in {Sys!QuietEpoch} \cup [incident : {TRUE}, name : names, quiet : quiets]
  BY DEF Sys!Plans
<1> HIDE DEF names, quiets
<1>4. plan.name \in names /\ plan.quiet \in quiets
  BY <1>2, <1>3
<1> QED
  BY <1>1, <1>4 DEF names

(* A line from nothing to d in r steps stays between them.                  *)
LEMMA LineStays ==
    ASSUME NEW a \in Nat, NEW r \in Nat \ {0}, NEW d \in Nat, a <= r
    PROVE  (a * d) \div r \in 0 .. d /\ Sys!CeilDiv(a * d, r) \in 0 .. d
<1>1. a * d \in Nat /\ a * d <= r * d /\ r * d \in Nat
  OBVIOUS
<1> DEFINE x == a * d
<1>2. x \in Nat /\ x <= r * d
  BY <1>1
<1> HIDE DEF x
<1>3. (x \div r) \in 0 .. d
  BY <1>2
<1>4. (x + r - 1) \div r \in 0 .. d
  BY <1>2
<1> QED
  BY <1>3, <1>4 DEF x, Sys!CeilDiv

LEMMA ScheduleStaysLow ==
    ASSUME plan \in Sys!Plans, NEW t \in Int
    PROVE  Sys!Scheduled(t) \in 10 .. 100 /\ Sys!Scheduled(t) \in Int
<1>1. CASE ~plan.incident \/ t < plan.quiet \/ t >= Sys!RecoverEnd
  BY <1>1 DEF Sys!Scheduled
<1>2. CASE plan.incident /\ ~(t < plan.quiet) /\ ~(t >= Sys!RecoverEnd)
  <2>1. plan.name \in DOMAIN Sys!Incidents /\ plan.quiet \in Nat
    BY <1>2, PlanIsSane
  <2> DEFINE inc == Sys!Incidents[plan.name]
             drop == 100 - inc.health
  <2>2. inc.health \in 10 .. 30 /\ inc.ramp \in Nat \ {0} /\ inc.peak \in Nat /\ inc.recover \in Nat \ {0}
    BY <2>1, TableIsSane
  <2>3. Sys!Of = inc /\ drop \in Nat
    BY <2>2 DEF Sys!Of
  <2> HIDE DEF inc, drop
  <2>4. CASE t < Sys!RampEnd
    <3>1. t - plan.quiet \in Nat /\ t - plan.quiet <= inc.ramp
      BY <1>2, <2>1, <2>2, <2>3, <2>4 DEF Sys!RampEnd
    <3>2. Sys!CeilDiv((t - plan.quiet) * drop, inc.ramp) \in 0 .. drop
      BY <2>2, <2>3, <3>1, LineStays
    <3>3. Sys!Scheduled(t) = 100 - Sys!CeilDiv((t - plan.quiet) * drop, inc.ramp)
      BY <1>2, <2>3, <2>4 DEF Sys!Scheduled, drop
    <3> QED
      BY <2>2, <2>3, <3>2, <3>3 DEF drop
  <2>5. CASE ~(t < Sys!RampEnd) /\ t < Sys!PeakEnd
    BY <1>2, <2>2, <2>3, <2>5 DEF Sys!Scheduled
  <2>6. CASE ~(t < Sys!RampEnd) /\ ~(t < Sys!PeakEnd)
    <3>1. t - Sys!PeakEnd \in Nat /\ t - Sys!PeakEnd <= inc.recover
      BY <1>2, <2>1, <2>2, <2>3, <2>6 DEF Sys!RampEnd, Sys!PeakEnd, Sys!RecoverEnd
    <3>2. ((t - Sys!PeakEnd) * drop) \div inc.recover \in 0 .. drop
      BY <2>2, <2>3, <3>1, LineStays
    <3>3. Sys!Scheduled(t) = inc.health + ((t - Sys!PeakEnd) * drop) \div inc.recover
      BY <1>2, <2>3, <2>6 DEF Sys!Scheduled, drop
    <3> QED
      BY <2>2, <2>3, <3>2, <3>3 DEF drop
  <2> QED
    BY <2>4, <2>5, <2>6
<1> QED
  BY <1>1, <1>2

LEMMA ScheduleMatches == ASSUME plan \in Sys!Plans, clock \in Int PROVE Sys!ScheduleAgrees
<1> DEFINE health == Sys!HealthAt(Sys!NotForced, clock, clock)
           faults == Sys!FaultsAt(Sys!NotForced, clock, clock)
<1>1. ~Sys!ForceIn(Sys!NotForced, clock)
  BY DEF Sys!ForceIn, Sys!NotForced
<1>2. faults = Sys!FaultsBelow(health, clock) /\ health = IF auto THEN Sys!Scheduled(clock) ELSE 100
  BY <1>1 DEF Sys!FaultsAt, Sys!HealthAt
<1>3. health \in 10 .. 100
  BY <1>2, ScheduleStaysLow
<1>4. /\ plan.incident => plan.name \in DOMAIN Sys!Incidents
      /\ plan.incident => Sys!Of.primary \notin Sys!Of.cascade
  BY TableIsSane, PlanIsSane DEF Sys!Of
<1> HIDE DEF health, faults
<1>5. ~plan.incident => health = 100
  BY <1>2 DEF Sys!Scheduled
<1>6. faults # {} <=> health < 95
  BY <1>2, <1>3, <1>5 DEF Sys!FaultsBelow, Sys!Faults
<1>7. Sys!StateAt(Sys!NotForced, clock, clock) = "normal" => faults = {}
  <2>1. Sys!StateAt(Sys!NotForced, clock, clock) = "normal" => health = 100
    BY <1>1, <1>2 DEF Sys!StateAt, Sys!Scheduled
  <2> QED
    BY <1>6, <2>1
<1>8. CASE health >= 95
  <2>1. faults = {}
    BY <1>3, <1>6, <1>8
  <2>2. \A f : Sys!FaultHealth(f, clock) = 100
    BY <1>8 DEF Sys!FaultHealth, health
  <2> QED
    BY <1>6, <1>7, <2>1, <2>2 DEF Sys!ScheduleAgrees, health, faults
<1>9. CASE health < 95
  <2>1. plan.incident /\ health \in 10 .. 94 /\ Sys!Of.primary \notin Sys!Of.cascade
    BY <1>3, <1>4, <1>5, <1>9
  <2>2. \A q \in {2, 3} : Sys!Clamp(1, 100, (health * q) \div 4) = (health * q) \div 4
    BY <2>1 DEF Sys!Clamp
  <2>3. \A f : Sys!FaultHealth(f, clock) = IF f = Sys!Of.primary THEN (health * 2) \div 4
                                         ELSE IF f \in Sys!Of.cascade THEN (health * 3) \div 4 ELSE 100
    BY <1>9, <2>1, <2>2 DEF Sys!FaultHealth, health
  <2>4. /\ (health * 2) \div 4 <= (health * 3) \div 4 /\ (health * 2) \div 4 < health
        /\ (health * 3) \div 4 < health /\ (health * 2) \div 4 < 100
    BY <2>1
  <2>5. /\ faults \subseteq {Sys!Of.primary} \cup Sys!Of.cascade /\ Sys!Of.primary \in faults
        /\ faults = {Sys!Of.primary} \cup Sys!Of.cascade \/ 2 * (clock - plan.quiet) <= Sys!Of.ramp
    <3>1. plan.quiet \in Int /\ Sys!Of.ramp \in Int
      BY <2>1, TableIsSane, PlanIsSane DEF Sys!Of
    <3> QED
      BY <1>2, <1>9, <2>1, <3>1 DEF Sys!FaultsBelow, Sys!Faults
  <2>6. \A f \in faults : /\ Sys!FaultHealth(Sys!Of.primary, clock) <= Sys!FaultHealth(f, clock)
                          /\ Sys!FaultHealth(f, clock) < health
    BY <2>1, <2>3, <2>4, <2>5
  <2>7. \A f \in Sys!AllFaults \ faults : Sys!FaultHealth(f, clock) < 100 =>
            f \in Sys!Of.cascade /\ 2 * (clock - plan.quiet) <= Sys!Of.ramp
    BY <2>1, <2>3, <2>5
  <2> QED
    BY <1>6, <1>7, <2>6, <2>7 DEF Sys!ScheduleAgrees, health, faults
<1> QED
  BY <1>3, <1>8, <1>9

(* The faults a moment shows whose override is over.                        *)
Calm(t) == Sys!FaultsBelow(Sys!HealthAt(Sys!NotForced, t, t), t)

Parts == {"at", "t", "scenario", "health", "state", "faults", "seen", "struck"}

(* Since a page was begun, every moment was seen, and each part of it so    *)
(* far was true at one.  A page that looked at the switch and found it off  *)
(* will show a moment's faults, unless a command has come since.            *)
PageInv ==
    /\ DOMAIN page = Parts
    /\ page.at # "idle" => /\ Sys!Moment(forced, clock) \in page.seen
                           /\ \E m \in page.seen : m.scenario = page.scenario
    /\ page.at \in {"state", "faults", "below", "done"} => \E m \in page.seen : m.health = page.health
    /\ page.at \in {"faults", "below", "done"} => \E m \in page.seen : m.state = page.state
    /\ page.at = "below" => /\ page.t \in Int /\ page.t <= clock
                            /\ page.struck \/ ~Sys!ForceIn(forced, page.t)
                            /\ \E m \in page.seen : m.faults = Calm(page.t)
    /\ Sys!PageJustified

ProbesInv == ForceInv /\ plan \in Sys!Plans /\ PageInv

(* The page has lost nothing, and has seen the moment that there is now.    *)
Grows ==
    /\ DOMAIN page' = Parts
    /\ page'.at = page.at /\ page'.t = page.t /\ page'.scenario = page.scenario
    /\ page'.health = page.health /\ page'.state = page.state /\ page'.faults = page.faults
    /\ page.seen \subseteq page'.seen
    /\ page.at # "idle" => Sys!Moment(forced, clock)' \in page'.seen
    /\ page.struck => page.at = "idle" \/ page'.struck

LEMMA OffAndOver ==
    ASSUME ForceInv, NEW s \in Int, NEW t \in Int, s <= t, ~Sys!ForceIn(forced, s)
    PROVE  ~Sys!ForceIn(forced, t)
BY DEF ForceInv, Sys!ForceIn

LEMMA MomentParts ==
    ASSUME NEW f, NEW t
    PROVE  /\ Sys!Moment(f, t).scenario = IF Sys!ForceIn(f, t) THEN f.name ELSE "none"
           /\ Sys!Moment(f, t).health = Sys!HealthAt(f, t, t)
           /\ Sys!Moment(f, t).state = Sys!StateAt(f, t, t)
           /\ Sys!Moment(f, t).faults = Sys!FaultsAt(f, t, t)
BY DEF Sys!Moment

LEMMA GrowingKeeps ==
    ASSUME ForceInv, PageInv, Grows, UNCHANGED <<auto, plan>>, clock \in Int, clock' \in Int, clock <= clock',
           (forced' = forced) \/ page'.struck \/ page.at = "idle"
    PROVE  PageInv'
<1> USE DEF Grows
<1>1. /\ page'.at # "idle" => /\ Sys!Moment(forced, clock)' \in page'.seen
                              /\ \E m \in page'.seen : m.scenario = page'.scenario
      /\ page'.at \in {"state", "faults", "below", "done"} => \E m \in page'.seen : m.health = page'.health
      /\ page'.at \in {"faults", "below", "done"} => \E m \in page'.seen : m.state = page'.state
  BY DEF PageInv
<1>2. ASSUME NEW t PROVE Calm(t)' = Calm(t)
  BY DEF Calm, Sys!FaultsBelow, Sys!HealthAt, Sys!Scheduled, Sys!ForceIn, Sys!NotForced,
         Sys!RampEnd, Sys!PeakEnd, Sys!RecoverEnd, Sys!Of
<1>3. page'.at = "below" => \E m \in page'.seen : m.faults = Calm(page.t)'
  BY <1>2 DEF PageInv
<1>4. page'.at = "below" => /\ page'.t \in Int /\ page'.t <= clock'
                            /\ page'.struck \/ ~Sys!ForceIn(forced, page.t)'
  <2>1. forced' = forced => (Sys!ForceIn(forced, page.t)' <=> Sys!ForceIn(forced, page.t))
    BY DEF Sys!ForceIn
  <2> QED
    BY <2>1 DEF PageInv
<1>5. page.at = "done" =>
         \/ \E m \in page'.seen : m.faults = page'.faults
         \/ page'.struck /\ plan'.incident /\ page'.faults \subseteq Sys!Faults(Sys!Of)
  BY DEF PageInv, Sys!PageJustified
<1>6. Sys!PageJustified'
  BY <1>1, <1>5 DEF Sys!PageJustified, Sys!Faults, Sys!Of
<1> QED
  BY <1>1, <1>3, <1>4, <1>6 DEF PageInv

(* A read of the page in the making takes what is true at this moment.      *)
LEMMA StatusKeeps == ASSUME ProbesInv, Sys!Status PROVE PageInv'
<1> DEFINE now == Sys!Moment(forced, clock)
<1>1. UNCHANGED <<auto, plan, clock, forced>> /\ Sys!Moment(forced, clock)' = now
  BY StatusOnlyReads DEF Sys!Moment, Sys!ForceIn, Sys!HealthAt, Sys!StateAt, Sys!FaultsAt, Sys!FaultsBelow,
     Sys!Scheduled, Sys!PeakHealth, Sys!RampEnd, Sys!PeakEnd, Sys!RecoverEnd, Sys!Of
<1>2. /\ now.health = Sys!HealthAt(forced, clock, clock) /\ now.state = Sys!StateAt(forced, clock, clock)
      /\ now.faults = Sys!FaultsAt(forced, clock, clock)
  BY MomentParts
<1>3. DOMAIN page = Parts /\ (page.at # "idle" => now \in page.seen)
  BY DEF ProbesInv, PageInv
<1> HIDE DEF now
<1> USE DEF Parts
<1>4. CASE Sys!ForceStatus
  <2>1. page' = [Sys!Resting EXCEPT !.at = "health", !.scenario = now.scenario, !.seen = {now}]
    BY <1>4 DEF Sys!ForceStatus, Sys!Page, now
  <2>2. DOMAIN page' = Parts /\ page'.at = "health" /\ page'.scenario = now.scenario /\ page'.seen = {now}
    BY <2>1 DEF Sys!Resting
  <2> QED
    BY <1>1, <2>2 DEF PageInv, Sys!PageJustified
<1>5. CASE Sys!HealthScore
  <2>1. page.at = "health" /\ page' = [page EXCEPT !.at = "state", !.health = now.health]
    BY <1>2, <1>5 DEF Sys!HealthScore, Sys!Page
  <2>2. /\ DOMAIN page' = Parts /\ page'.at = "state" /\ page'.health = now.health
        /\ page'.scenario = page.scenario /\ page'.seen = page.seen
    BY <1>3, <2>1
  <2> QED
    BY <1>1, <1>3, <2>1, <2>2 DEF ProbesInv, PageInv, Sys!PageJustified
<1>6. CASE Sys!CurrentStateName
  <2>1. page.at = "state" /\ page' = [page EXCEPT !.at = "faults", !.state = now.state]
    BY <1>2, <1>6 DEF Sys!CurrentStateName, Sys!Page
  <2>2. /\ DOMAIN page' = Parts /\ page'.at = "faults" /\ page'.state = now.state
        /\ page'.scenario = page.scenario /\ page'.health = page.health /\ page'.seen = page.seen
    BY <1>3, <2>1
  <2> QED
    BY <1>1, <1>3, <2>1, <2>2 DEF ProbesInv, PageInv, Sys!PageJustified
<1>7. CASE Sys!ActiveFaultNames
  <2>1. page.at = "faults"
    BY <1>7 DEF Sys!ActiveFaultNames
  <2>2. CASE Sys!ForceIn(forced, clock)
    <3>1. page' = [page EXCEPT !.at = "done", !.faults = now.faults]
      BY <1>2, <1>7, <2>2 DEF Sys!ActiveFaultNames, Sys!Page, Sys!FaultsAt
    <3>2. /\ DOMAIN page' = Parts /\ page'.at = "done" /\ page'.faults = now.faults /\ page'.state = page.state
          /\ page'.scenario = page.scenario /\ page'.health = page.health /\ page'.seen = page.seen
      BY <1>3, <3>1
    <3> QED
      BY <1>1, <1>3, <2>1, <3>2 DEF ProbesInv, PageInv, Sys!PageJustified
  <2>3. CASE ~Sys!ForceIn(forced, clock)
    <3>1. page' = [page EXCEPT !.at = "below", !.t = clock]
      BY <1>7, <2>3 DEF Sys!ActiveFaultNames, Sys!Page
    <3>2. /\ DOMAIN page' = Parts /\ page'.at = "below" /\ page'.t = clock /\ page'.state = page.state
          /\ page'.scenario = page.scenario /\ page'.health = page.health /\ page'.seen = page.seen
      BY <1>3, <3>1
    <3>3. now.faults = Calm(clock)
      BY <1>2, <2>3 DEF Sys!FaultsAt, Calm, Sys!HealthAt, Sys!ForceIn, Sys!NotForced
    <3>4. Calm(page.t)' = Calm(clock) /\ (Sys!ForceIn(forced, page.t)' <=> Sys!ForceIn(forced, clock))
      BY <1>1, <3>2 DEF Calm, Sys!FaultsBelow, Sys!HealthAt, Sys!Scheduled, Sys!ForceIn, Sys!NotForced,
         Sys!RampEnd, Sys!PeakEnd, Sys!RecoverEnd, Sys!Of
    <3>5. clock \in Int
      BY DEF ProbesInv, ForceInv
    <3> QED
      BY <1>1, <1>3, <2>1, <2>3, <3>2, <3>3, <3>4, <3>5 DEF ProbesInv, PageInv, Sys!PageJustified
  <2> QED
    BY <2>2, <2>3
<1>8. CASE Sys!FaultsOffSwitch
  <2> DEFINE found == Sys!FaultsBelow(Sys!HealthAt(forced, clock, page.t), page.t)
  <2>1. page.at = "below" /\ page' = [page EXCEPT !.at = "done", !.faults = found]
    BY <1>8 DEF Sys!FaultsOffSwitch, Sys!Page
  <2>2. /\ DOMAIN page' = Parts /\ page'.at = "done" /\ page'.faults = found /\ page'.state = page.state
        /\ page'.scenario = page.scenario /\ page'.health = page.health /\ page'.seen = page.seen
        /\ page'.struck = page.struck
    BY <1>3, <2>1
  <2>3. \/ \E m \in page.seen : m.faults = found
        \/ page.struck /\ plan.incident /\ found \subseteq Sys!Faults(Sys!Of)
    <3>1. /\ page.t \in Int /\ page.t <= clock /\ clock \in Int
          /\ page.struck \/ ~Sys!ForceIn(forced, page.t)
          /\ \E m \in page.seen : m.faults = Calm(page.t)
      BY <2>1 DEF ProbesInv, PageInv, ForceInv
    <3>2. CASE ~Sys!ForceIn(forced, clock)
      <4>1. found = Calm(page.t)
        BY <3>2 DEF Calm, Sys!HealthAt, Sys!ForceIn, Sys!NotForced
      <4> QED
        BY <3>1, <4>1
    <3>3. CASE Sys!ForceIn(forced, clock)
      <4>1. page.struck
        BY <3>1, <3>3, OffAndOver DEF ProbesInv
      <4>2. CASE plan.incident
        BY <4>1, <4>2 DEF Sys!FaultsBelow, Sys!Faults
      <4>3. CASE ~plan.incident
        <5>1. found = Calm(page.t)
          BY <4>3 DEF Calm, Sys!FaultsBelow
        <5> QED
          BY <3>1, <5>1
      <4> QED
        BY <4>2, <4>3
    <3> QED
      BY <3>2, <3>3
  <2> HIDE DEF found
  <2>4. Sys!Faults(Sys!Of)' = Sys!Faults(Sys!Of) /\ plan' = plan
    BY <1>1 DEF Sys!Faults, Sys!Of
  <2> QED
    BY <1>1, <1>3, <2>1, <2>2, <2>3, <2>4 DEF ProbesInv, PageInv, Sys!PageJustified
<1>9. CASE Sys!Replied
  <2>1. DOMAIN page' = Parts /\ page'.at = "idle"
    BY <1>9 DEF Sys!Replied, Sys!Page, Sys!Resting
  <2> QED
    BY <2>1 DEF PageInv, Sys!PageJustified
<1> QED
  BY <1>4, <1>5, <1>6, <1>7, <1>8, <1>9 DEF Sys!Status

LEMMA PageKept == ASSUME ProbesInv, [Sys!Next]_(Sys!vars) PROVE PageInv'
<1> USE DEF ProbesInv
<1>0. clock \in Int /\ DOMAIN page = Parts
  BY DEF ForceInv, PageInv
<1>1. ASSUME NEW f, Sys!Command(f) PROVE PageInv'
  <2>1. /\ forced' = f /\ clock' = clock /\ UNCHANGED <<auto, plan>>
        /\ page' = [Sys!Watch(page, f, clock) EXCEPT !.struck = page.at # "idle"]
    BY <1>1 DEF Sys!Command
  <2>2. Sys!Moment(forced, clock)' = Sys!Moment(f, clock)
    BY <2>1 DEF Sys!Moment, Sys!ForceIn, Sys!HealthAt, Sys!StateAt, Sys!FaultsAt, Sys!FaultsBelow, Sys!Scheduled,
                Sys!PeakHealth, Sys!RampEnd, Sys!PeakEnd, Sys!RecoverEnd, Sys!Of
  <2>3. Grows /\ (page'.struck \/ page.at = "idle")
    BY <1>0, <2>1, <2>2 DEF Grows, Sys!Watch, Parts
  <2> QED
    BY <1>0, <2>1, <2>3, GrowingKeeps
<1>2. CASE Sys!Tick
  <2>1. /\ forced' = forced /\ clock' = clock + 1 /\ UNCHANGED <<auto, plan>>
        /\ page' = Sys!Watch(page, forced, clock')
    BY <1>2 DEF Sys!Tick
  <2>2. Sys!Moment(forced, clock)' = Sys!Moment(forced, clock')
    BY <2>1 DEF Sys!Moment, Sys!ForceIn, Sys!HealthAt, Sys!StateAt, Sys!FaultsAt, Sys!FaultsBelow, Sys!Scheduled,
                Sys!PeakHealth, Sys!RampEnd, Sys!PeakEnd, Sys!RecoverEnd, Sys!Of
  <2>3. Grows
    BY <1>0, <2>1, <2>2 DEF Grows, Sys!Watch, Parts
  <2> QED
    BY <1>0, <2>1, <2>3, GrowingKeeps
<1>3. CASE UNCHANGED Sys!vars
  <2>1. UNCHANGED <<auto, plan, clock, forced, page>>
    BY <1>3 DEF Sys!vars
  <2>2. Sys!Moment(forced, clock)' = Sys!Moment(forced, clock)
    BY <2>1 DEF Sys!Moment, Sys!ForceIn, Sys!HealthAt, Sys!StateAt, Sys!FaultsAt, Sys!FaultsBelow, Sys!Scheduled,
                Sys!PeakHealth, Sys!RampEnd, Sys!PeakEnd, Sys!RecoverEnd, Sys!Of
  <2>3. Grows
    BY <1>0, <2>1, <2>2 DEF Grows, PageInv
  <2> QED
    BY <1>0, <2>1, <2>3, GrowingKeeps
<1>4. CASE Sys!Status
  BY <1>4, StatusKeeps
<1> QED
  BY <1>1, <1>2, <1>3, <1>4 DEF Sys!Next, Sys!ForceScenario, Sys!ClearForce

-----------------------------------------------------------------------------
(* The shape of a fault: what is sent, with its level and its scope in L    *)
(* and S.  The onsets are any strings.                                      *)
Onsets == {r.onset : r \in Specs} \cup {"step"}

Shaped(L, S) == [enabled : BOOLEAN, level : L, onset : Onsets, ramp : Int, period : Int,
                 sticky : BOOLEAN, scope : S, duration : Int]

Hundredths == 0 .. 100

Entries == Shaped(Hundredths, Hundredths)

(* An entry that is enabled was normalized, and one that is not has no      *)
(* level.  A call that found an entry active has seen the one there is.     *)
ShapeInv ==
    /\ fault \in Entries /\ elapsed \in Nat /\ capacity \in Nat \ {0}
    /\ fault.enabled => fault.ramp > 0 /\ fault.period > 0 /\ (fault.sticky \/ fault.duration > 0)
    /\ ~fault.enabled => fault.level = 0
    /\ DOMAIN reader = {"at", "seen", "answer"}
    /\ reader.at = "read" => fault \in reader.seen
    /\ reader.at = "answered" => \E f \in reader.seen : reader.answer <= Shape!Peak(f)

LEMMA DefaultsArePositive ==
    /\ RampDefault \in Nat /\ RampDefault > 0 /\ PeriodDefault \in Nat /\ PeriodDefault > 0
    /\ LengthDefault \in Nat /\ LengthDefault > 0 /\ Longest \in Nat /\ Longest > 0
    /\ LeakClimb \in Nat /\ LeakClimb > 0
BY ShapeAssumption DEF ShapeAssumption

(* Setting a field, and several of them one after the other.                *)
LEMMA SetField ==
    ASSUME NEW L, NEW S, NEW f \in Shaped(L, S)
    PROVE  /\ \A z \in BOOLEAN : [f EXCEPT !.enabled = z] \in Shaped(L, S)
           /\ \A M : \A z \in M : [f EXCEPT !.level = z] \in Shaped(M, S)
           /\ \A z \in Int : [f EXCEPT !.duration = z] \in Shaped(L, S)
           /\ \A z \in Int : [f EXCEPT !.ramp = z] \in Shaped(L, S)
           /\ \A z \in Int : [f EXCEPT !.period = z] \in Shaped(L, S)
           /\ \A M : \A z \in M : [f EXCEPT !.scope = z] \in Shaped(L, M)
BY DEF Shaped

LEMMA LimitsHold == ASSUME NEW x \in Nat, NEW y \in Nat, y > 0 PROVE Shape!Least(12, (12 * x) \div y) \in 0 .. 12
<1>1. (12 * x) \div y \in Nat
  OBVIOUS
<1> QED
  BY <1>1 DEF Shape!Least

(* An onset lets through so many parts of Full, at any age.                 *)
LEMMA FactorFits == ASSUME ShapeInv PROVE Shape!OnsetFactor(fault, elapsed) \in 0 .. 12
<1> USE DEF ShapeInv, Shape!OnsetFactor, Shape!Full
<1>1. elapsed \in Nat /\ fault.ramp \in Int /\ fault.duration \in Int
  BY DEF Entries, Shaped, Hundredths
<1>2. CASE fault.onset = "ramp"
  BY <1>1, <1>2, LimitsHold
<1>3. CASE fault.onset = "slowleak"
  BY <1>1, <1>3, LimitsHold, DefaultsArePositive
<1>4. CASE fault.onset \notin {"ramp", "slowleak"}
  BY <1>4
<1> QED
  BY <1>2, <1>3, <1>4

LEMMA QuotientFits ==
    ASSUME NEW x \in Nat, NEW c \in Nat \ {0}
    PROVE  (x \div c) \in Nat /\ (x \div c) <= x /\ (x \div c) * c \in Nat /\ (x \div c) * c <= x
OBVIOUS

LEMMA PartFits == ASSUME NEW a \in Nat, NEW w \in 0 .. 12 PROVE a * w \in Nat /\ a * w <= a * 12
OBVIOUS

(* What is left of a level once it is cut down to its scope.                *)
Share(f) == f.level * (IF f.scope > 0 /\ f.scope < 100 THEN f.scope ELSE 100)

LEMMA ShareFits ==
    ASSUME NEW f \in Entries
    PROVE  /\ Share(f) \in Nat /\ Shape!Peak(f) = Share(f) * 12
           /\ Shape!Peak(f) \div Shape!Full = Share(f)
           /\ f.level = 0 => Share(f) = 0
<1> DEFINE cut == IF f.scope > 0 /\ f.scope < 100 THEN f.scope ELSE 100
<1>1. f.level \in Nat /\ cut \in Nat
  BY DEF Entries, Shaped, Hundredths
<1> HIDE DEF cut
<1>2. Share(f) = f.level * cut /\ Shape!Peak(f) = f.level * cut * 12
  BY DEF Share, Shape!Peak, Shape!Full, cut
<1> DEFINE x == f.level * cut
<1>3. x \in Nat /\ (f.level = 0 => x = 0)
  BY <1>1
<1> HIDE DEF x
<1>4. (x * 12) \div 12 = x
  BY <1>3
<1> QED
  BY <1>2, <1>3, <1>4 DEF x, Shape!Full

LEMMA CapacityFits ==
    ASSUME ShapeInv
    PROVE  /\ Shape!CapacityFor(kind) \in Nat \ {0}
           /\ capacity = 1 \/ kind \notin Sensitive => Shape!CapacityFor(kind) = 1
BY DEF ShapeInv, Shape!CapacityFor

(* How hard an entry strikes: between nothing and its peak, with and        *)
(* without the capacity.                                                    *)
LEMMA EffectiveFits ==
    ASSUME ShapeInv
    PROVE  LET e == Shape!Effective(fault, elapsed)
               c == Shape!CapacityFor(kind)
           IN  /\ e \in Nat /\ e <= Shape!Peak(fault)
               /\ e * c \in Nat /\ e * c <= Shape!Peak(fault)
               /\ c = 1 => e = Share(fault) * Shape!OnsetFactor(fault, elapsed)
               /\ Share(fault) = 0 => e = 0
<1> DEFINE a == Share(fault)
           w == Shape!OnsetFactor(fault, elapsed)
           c == Shape!CapacityFor(kind)
           x == a * w
<1>1. a \in Nat /\ Shape!Peak(fault) = a * 12 /\ Shape!Peak(fault) \div Shape!Full = a
  BY ShareFits DEF ShapeInv
<1>2. w \in 0 .. 12 /\ c \in Nat \ {0}
  BY FactorFits, CapacityFits
<1>3. Shape!Effective(fault, elapsed) = x \div c
  BY <1>1 DEF Shape!Effective
<1> HIDE DEF a, w, c
<1>4. x \in Nat /\ x <= a * 12 /\ (a = 0 => x = 0)
  BY <1>1, <1>2, PartFits
<1> HIDE DEF x
<1>5. /\ (x \div c) \in Nat /\ (x \div c) <= x /\ (x \div c) * c \in Nat /\ (x \div c) * c <= x
      /\ c = 1 => x \div c = x
      /\ x = 0 => x \div c = 0
  BY <1>2, <1>4, QuotientFits
<1>6. a * 12 \in Nat
  BY <1>1
<1> QED
  BY <1>1, <1>3, <1>4, <1>5, <1>6 DEF a, w, c, x

LEMMA ShapeStart == ASSUME Shape!Init PROVE ShapeInv
<1> USE DEF Shape!Init, Shape!Off, Shape!Idle
<1>1. ASSUME NEW z \in Hundredths, NEW onset \in Onsets
      PROVE  [enabled |-> FALSE, level |-> z, onset |-> onset, ramp |-> 0, period |-> 0,
              sticky |-> FALSE, scope |-> z, duration |-> 0] \in Entries
  BY DEF Entries, Shaped
<1>2. 0 \in Hundredths
  BY DEF Hundredths
<1>4. "step" \in Onsets
  BY DEF Onsets
<1>3. fault \in Entries
  BY <1>1, <1>2, <1>4
<1> QED
  BY <1>3 DEF ShapeInv

(* EnableSpec makes an entry of whatever it is sent.                        *)
LEMMA NormalizedFits ==
    ASSUME NEW r \in Specs
    PROVE  LET f == [Shape!Normalized(r) EXCEPT !.enabled = TRUE]
           IN  f \in Entries /\ f.enabled /\ f.ramp > 0 /\ f.period > 0 /\ (f.sticky \/ f.duration > 0)
<1> DEFINE level == Shape!NormalizeIntensity(r.level)
           duration == IF r.sticky THEN r.duration ELSE Shape!NormalizeDuration(r.duration)
           ramp == IF r.ramp <= 0 THEN RampDefault ELSE r.ramp
           period == IF r.period <= 0 THEN PeriodDefault ELSE r.period
           scope == IF r.scope <= 0 \/ r.scope > 100 THEN 100 ELSE r.scope
           n == Shape!Normalized(r)
           f == [n EXCEPT !.enabled = TRUE]
<1>1. r \in Shaped(Int, Int)
  <2>1. r.onset \in Onsets
    BY DEF Onsets
  <2> QED
    BY <2>1, ShapeAssumption DEF ShapeAssumption, Shaped
<1>2. r.level \in Int /\ r.ramp \in Int /\ r.period \in Int /\ r.scope \in Int /\ r.duration \in Int
  BY <1>1 DEF Shaped
<1>3. level \in Hundredths
  BY <1>2 DEF Hundredths, Shape!NormalizeIntensity, Shape!Least
<1>4. Shape!NormalizeDuration(r.duration) \in Int /\ Shape!NormalizeDuration(r.duration) > 0
  BY <1>2, DefaultsArePositive DEF Shape!NormalizeDuration, Shape!Least
<1>5. /\ duration \in Int /\ (r.sticky \/ duration > 0)
      /\ ramp \in Int /\ ramp > 0 /\ period \in Int /\ period > 0 /\ scope \in Hundredths
  BY <1>2, <1>4, DefaultsArePositive DEF Hundredths
<1>6. n = [r EXCEPT !.level = level, !.duration = duration, !.ramp = ramp, !.period = period, !.scope = scope]
  BY DEF Shape!Normalized
<1> HIDE DEF level, duration, ramp, period, scope, n
<1>7. /\ n = [[[[[r EXCEPT !.level = level] EXCEPT !.duration = duration] EXCEPT !.ramp = ramp]
                  EXCEPT !.period = period] EXCEPT !.scope = scope]
      /\ f.ramp = ramp /\ f.period = period /\ f.duration = duration /\ f.sticky = r.sticky /\ f.enabled
  BY <1>1, <1>6 DEF Shaped
<1>8. n \in Entries
  <2>1. [r EXCEPT !.level = level] \in Shaped(Hundredths, Int)
    BY <1>1, <1>3, SetField
  <2>2. [[r EXCEPT !.level = level] EXCEPT !.duration = duration] \in Shaped(Hundredths, Int)
    BY <1>5, <2>1, SetField
  <2>3. [[[r EXCEPT !.level = level] EXCEPT !.duration = duration] EXCEPT !.ramp = ramp] \in Shaped(Hundredths, Int)
    BY <1>5, <2>2, SetField
  <2>4. [[[[r EXCEPT !.level = level] EXCEPT !.duration = duration] EXCEPT !.ramp = ramp] EXCEPT !.period = period]
            \in Shaped(Hundredths, Int)
    BY <1>5, <2>3, SetField
  <2> DEFINE g == [[[[r EXCEPT !.level = level] EXCEPT !.duration = duration] EXCEPT !.ramp = ramp]
                      EXCEPT !.period = period]
  <2>5. g \in Shaped(Hundredths, Int)
    BY <2>4
  <2>6. n = [g EXCEPT !.scope = scope]
    BY <1>7
  <2> HIDE DEF g
  <2> QED
    BY <1>5, <2>5, <2>6, SetField DEF Entries
<1>9. f \in Entries
  BY <1>8, SetField DEF Entries
<1> QED
  BY <1>5, <1>7, <1>9 DEF n

LEMMA ShapeKept == ASSUME ShapeInv, [Shape!Next]_(Shape!vars) PROVE ShapeInv'
<1> USE DEF ShapeInv
<1>1. ASSUME NEW f \in Entries, Shape!Command(f), f.enabled => f.ramp > 0 /\ f.period > 0 /\ (f.sticky \/ f.duration > 0),
             ~f.enabled => f.level = 0
      PROVE  ShapeInv'
  <2>1. fault' = f /\ elapsed' = 0 /\ capacity' = capacity /\ reader' = Shape!See(f)
    BY <1>1 DEF Shape!Command
  <2>2. /\ DOMAIN reader' = {"at", "seen", "answer"} /\ reader'.at = reader.at
        /\ reader.seen \subseteq reader'.seen /\ reader'.answer = reader.answer
        /\ reader.at = "read" => f \in reader'.seen
    BY <2>1 DEF Shape!See
  <2>3. \A g : Shape!Peak(g)' = Shape!Peak(g)
    BY DEF Shape!Peak
  <2> QED
    BY <1>1, <2>1, <2>2, <2>3
<1>2. ASSUME NEW r \in Specs, Shape!EnableSpec(r) PROVE ShapeInv'
  BY <1>1, <1>2, NormalizedFits DEF Shape!EnableSpec
<1>3. CASE Shape!Disable
  <2> DEFINE f == [fault EXCEPT !.enabled = FALSE, !.level = 0, !.duration = 0]
  <2>1. \A e \in BOOLEAN, l \in Hundredths, d \in Int :
            [fault EXCEPT !.enabled = e, !.level = l, !.duration = d] \in Entries
    <3> TAKE e \in BOOLEAN, l \in Hundredths, d \in Int
    <3>1. [fault EXCEPT !.enabled = e, !.level = l, !.duration = d]
              = [[[fault EXCEPT !.enabled = e] EXCEPT !.level = l] EXCEPT !.duration = d]
      OBVIOUS
    <3>2. [[fault EXCEPT !.enabled = e] EXCEPT !.level = l] \in Shaped(Hundredths, Hundredths)
      BY SetField DEF Entries
    <3>3. [[[fault EXCEPT !.enabled = e] EXCEPT !.level = l] EXCEPT !.duration = d] \in Shaped(Hundredths, Hundredths)
      BY <3>2, SetField
    <3> QED
      BY <3>1, <3>3 DEF Entries
  <2>2. FALSE \in BOOLEAN /\ 0 \in Hundredths /\ 0 \in Int
    BY DEF Hundredths
  <2>3. f \in Entries
    BY <2>1, <2>2, Zenon
  <2>4. ~f.enabled /\ f.level = 0
    BY DEF Entries, Shaped, Hundredths
  <2> HIDE DEF f
  <2>5. Shape!Command(f)
    BY <1>3 DEF Shape!Disable, f
  <2> QED
    BY <1>1, <2>3, <2>4, <2>5
<1>4. ASSUME NEW n \in Replicas, Shape!Scale(n) PROVE ShapeInv'
  <2>1. n \in Nat \ {0}
    BY <1>4, ShapeAssumption DEF ShapeAssumption, Shape!Scale
  <2> QED
    BY <1>4, <2>1 DEF Shape!Scale, Shape!Peak
<1>5. CASE Shape!Tick
  BY <1>5 DEF Shape!Tick, Shape!Peak
<1>6. CASE Shape!AskIsActive
  BY <1>6 DEF Shape!AskIsActive, Shape!Idle
<1>7. CASE Shape!GetIntensity
  <2>1. Shape!Effective(fault, elapsed) <= Shape!Peak(fault)
    BY EffectiveFits
  <2>2. /\ reader.at = "read" /\ reader' = [reader EXCEPT !.at = "answered", !.answer = Shape!Effective(fault, elapsed)]
        /\ UNCHANGED <<fault, elapsed, capacity>>
    BY <1>7 DEF Shape!GetIntensity
  <2>3. /\ DOMAIN reader' = {"at", "seen", "answer"} /\ reader'.at = "answered"
        /\ reader'.answer = Shape!Effective(fault, elapsed) /\ reader'.seen = reader.seen
    BY <2>2
  <2> QED
    BY <2>1, <2>2, <2>3 DEF Shape!Peak
<1>8. CASE Shape!Answered
  BY <1>8 DEF Shape!Answered, Shape!Idle
<1>9. CASE UNCHANGED Shape!vars
  BY <1>9 DEF Shape!vars, Shape!Peak
<1> QED
  BY <1>2, <1>3, <1>4, <1>5, <1>6, <1>7, <1>8, <1>9 DEF Shape!Next

LEMMA ClimbEnds ==
    ASSUME NEW x \in Nat, NEW y \in Nat, y > 0
    PROVE  Shape!Least(12, (12 * x) \div y) = 12 <=> x >= y
<1> DEFINE q == (12 * x) \div y
<1>1. q \in Nat /\ (q >= 12 <=> x >= y)
  OBVIOUS
<1> HIDE DEF q
<1> QED
  BY <1>1 DEF Shape!Least, q

LEMMA WholePart == ASSUME NEW a \in Nat, NEW w \in 0 .. 12 PROVE a * w = a * 12 <=> (a = 0 \/ w = 12)
OBVIOUS

(* The peak is reached when the onset lets all of it through.               *)
LEMMA PeakIsReached ==
    ASSUME ShapeInv, fault.enabled, capacity = 1
    PROVE  CASE fault.onset = "slowleak" ->
                  (Shape!Effective(fault, elapsed) = Shape!Peak(fault)) <=>
                      \/ Shape!Peak(fault) = 0
                      \/ elapsed >= (IF fault.sticky THEN LeakClimb ELSE fault.duration)
             [] fault.onset = "ramp" ->
                  (Shape!Effective(fault, elapsed) = Shape!Peak(fault)) <=>
                      (Shape!Peak(fault) = 0 \/ elapsed >= fault.ramp)
             [] fault.onset = "flap" ->
                  Shape!Effective(fault, elapsed) \in
                      (IF elapsed < fault.period THEN {} ELSE {0}) \cup {Shape!Peak(fault)}
             [] OTHER -> Shape!Effective(fault, elapsed) = Shape!Peak(fault)
<1> DEFINE a == Share(fault)
           w == Shape!OnsetFactor(fault, elapsed)
           effective == Shape!Effective(fault, elapsed)
           peak == Shape!Peak(fault)
<1>1. /\ elapsed \in Nat /\ fault.ramp \in Nat /\ fault.ramp > 0 /\ fault.period \in Nat /\ fault.period > 0
      /\ fault.duration \in Int /\ (fault.sticky \/ fault.duration > 0)
  BY DEF ShapeInv, Entries, Shaped, Hundredths
<1>2. w \in 0 .. 12 /\ a \in Nat /\ effective = a * w /\ peak = a * 12
  BY FactorFits, ShareFits, EffectiveFits, CapacityFits DEF ShapeInv
<1>3. CASE fault.onset = "slowleak"
  <2>1. w = 12 <=> elapsed >= (IF fault.sticky THEN LeakClimb ELSE fault.duration)
    BY <1>1, <1>3, ClimbEnds, DefaultsArePositive DEF Shape!OnsetFactor, Shape!Full
  <2> HIDE DEF a, w, effective, peak
  <2>2. effective = peak <=> (peak = 0 \/ w = 12)
    BY <1>2, WholePart
  <2> QED
    BY <1>3, <2>1, <2>2 DEF effective, peak
<1>4. CASE fault.onset = "ramp"
  <2>1. w = 12 <=> elapsed >= fault.ramp
    BY <1>1, <1>4, ClimbEnds DEF Shape!OnsetFactor, Shape!Full
  <2> HIDE DEF a, w, effective, peak
  <2>2. effective = peak <=> (peak = 0 \/ w = 12)
    BY <1>2, WholePart
  <2> QED
    BY <1>4, <2>1, <2>2 DEF effective, peak
<1>5. CASE fault.onset = "flap"
  <2>1. elapsed < fault.period => elapsed \div fault.period = 0
    BY <1>1
  <2>2. w = 12 \/ (w = 0 /\ ~(elapsed < fault.period))
    BY <1>1, <1>5, <2>1 DEF Shape!OnsetFactor, Shape!Full
  <2> HIDE DEF a, w, effective, peak
  <2>3. effective = peak \/ (effective = 0 /\ ~(elapsed < fault.period))
    BY <1>2, <2>2
  <2> QED
    BY <1>5, <2>3 DEF effective, peak
<1>6. CASE fault.onset \notin {"slowleak", "ramp", "flap"}
  <2>1. w = 12
    BY <1>6 DEF Shape!OnsetFactor, Shape!Full
  <2> QED
    BY <1>2, <1>6, <2>1
<1> QED
  BY <1>3, <1>4, <1>5, <1>6

LEMMA ShapeJustified == ASSUME ShapeInv PROVE Shape!IntensityJustified
<1>1. /\ Shape!Effective(fault, elapsed) \in Nat
      /\ Shape!Effective(fault, elapsed) * Shape!CapacityFor(kind) \in Nat
      /\ Shape!Effective(fault, elapsed) * Shape!CapacityFor(kind) <= Shape!Peak(fault)
      /\ Share(fault) = 0 => Shape!Effective(fault, elapsed) = 0
  BY EffectiveFits
<1>2. ~fault.enabled => Share(fault) = 0
  BY ShareFits DEF ShapeInv
<1>3. capacity = 1 \/ kind \notin Sensitive =>
          Shape!Effective(fault, elapsed) * Shape!CapacityFor(kind) = Shape!Effective(fault, elapsed)
  BY <1>1, CapacityFits
<1>4. reader.at = "answered" => \E f \in reader.seen : reader.answer <= Shape!Peak(f)
  BY DEF ShapeInv
<1> QED
  BY <1>1, <1>2, <1>3, <1>4, PeakIsReached DEF Shape!IntensityJustified

-----------------------------------------------------------------------------
(* Chaos is looked up behind two locks, and so is an intensity: whatever    *)
(* commands come between the question whether a fault is on and the one how *)
(* hard it strikes, the kind of chaos that strikes a request was on when it *)
(* asked or was sent since, no answer exceeds the peak of every entry there *)
(* was during the call, and an entry left alone reaches its own peak.       *)
THEOREM AlwaysStruckByItsOwn == Spec => []StruckByItsOwn
<1>1. Init => SchedInv /\ ShapeInv
  BY SchedStart, ShapeStart DEF Init
<1>2. SchedInv /\ ShapeInv /\ [Next]_vars => (SchedInv /\ ShapeInv)'
  BY KnobSteps, SchedKept, ShapeKept
<1>3. SchedInv /\ ShapeInv => StruckByItsOwn
  BY ShapeJustified DEF SchedInv, StruckByItsOwn
<1> QED
  BY <1>1, <1>2, <1>3, PTL DEF Spec

(* The status page reads the force switch five times, and each part of it   *)
(* was true at some moment of the request, unless a command came between    *)
(* the two halves of ActiveFaultNames; and what health, state and faults    *)
(* say of the schedule agrees, at any time of any epoch.                    *)
THEOREM AlwaysProbesJustified == Spec => []ProbesJustified
<1>1. Init => ProbesInv
  <2>1. Sys!Init => PageInv
    BY DEF Sys!Init, Sys!Resting, PageInv, Sys!PageJustified, Parts
  <2> QED
    BY <2>1, ForceStart DEF Init, Sys!Init, ProbesInv
<1>2. ProbesInv /\ [Next]_vars => ProbesInv'
  <2> SUFFICES ASSUME ProbesInv, [Sys!Next]_(Sys!vars) PROVE ProbesInv'
    BY KnobSteps
  <2>1. plan' = plan
    BY StatusOnlyReads DEF Sys!Next, Sys!vars, Sys!ForceScenario, Sys!ClearForce, Sys!Command, Sys!Tick
  <2> QED
    BY <2>1, ForceKept, PageKept DEF ProbesInv
<1>3. ProbesInv => ProbesJustified
  BY ScheduleMatches DEF ProbesInv, PageInv, ForceInv, ProbesJustified, Sys!ProbesJustified
<1> QED
  BY <1>1, <1>2, <1>3, PTL DEF Spec

(* The refinement of TimedSwitch, three times: an override, an injected     *)
(* scenario and a posted fault stand for as long as their command said and  *)
(* no longer, though nothing runs when one expires: the override and the    *)
(* scenarios compare times when they are asked, the scheduler writes it     *)
(* down when it is.                                                         *)
THEOREM AllSwitchesKeepTime == Spec => SwitchesKeepTime
<1> DEFINE Inv == ForceInv /\ EcomInv /\ SchedInv
           Started == Sys!Switch!Init /\ (\A s \in Scenarios : Ecom!Switch(s)!Init) /\ Sched!Switch!Init
<1>1. Init => Inv /\ Started
  BY ForceStart, EcomStart, SchedStart, SchedOff DEF Init
<1>2. Inv /\ [Next]_vars => Inv'
  BY KnobSteps, ForceKept, EcomKept, SchedKept
<1>3. Inv /\ [Next]_vars => [Sys!Switch!Next]_(Sys!Switch!vars)
  BY KnobSteps, ForceRefines
<1>4. Inv /\ [Next]_vars => [\A s \in Scenarios : [Ecom!Switch(s)!Next]_(Ecom!Switch(s)!vars)]_(Ecom!vars)
  BY KnobSteps, EcomRefines
<1>5. Inv /\ [Next]_vars => [Sched!Switch!Next]_(Sched!Switch!vars)
  BY KnobSteps, SchedRefines
<1>6. Spec => []Inv /\ [][Next]_vars /\ Started
  BY <1>1, <1>2, PTL DEF Spec
<1>7. []Inv /\ [][Next]_vars => [][Sys!Switch!Next]_(Sys!Switch!vars)
  BY <1>3, PTL
<1>8. []Inv /\ [][Next]_vars =>
          [][\A s \in Scenarios : [Ecom!Switch(s)!Next]_(Ecom!Switch(s)!vars)]_(Ecom!vars)
  BY <1>4, PTL
<1>9. []Inv /\ [][Next]_vars => [][Sched!Switch!Next]_(Sched!Switch!vars)
  BY <1>5, PTL
<1> QED
  BY <1>6, <1>7, <1>8, <1>9 DEF SwitchesKeepTime, Sys!ForceKeepsTime, Sys!Switch!Spec,
     Ecom!ScenariosKeepTime, Sched!ChaosKeepsTime, Sched!Switch!Spec
=============================================================================
