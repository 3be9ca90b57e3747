---------------------------- MODULE EcomInjector ----------------------------
(***************************************************************************)
(* The e-commerce anomaly injector (internal/ecom): one timed switch for   *)
(* each scenario, set by POST, cleared by DELETE, all cleared at once by a *)
(* reset.  Nothing runs when a scenario expires: active() compares times,  *)
(* each time a collection asks it.                                         *)
(*                                                                         *)
(* Time is counted in ticks, down: left is duration minus the time since   *)
(* startedAt.  Intensity only scales a series and is left out.             *)
(***************************************************************************)
EXTENDS Integers

CONSTANTS
    Scenarios,        \* those of AllScenarios that clients send
    Dims,             \* dimensions they send, "" for none
    Durations,        \* durations they send
    DefaultDuration,  \* defaultDuration
    MaxInject,        \* maxInjectDuration
    MaxAsked          \* bound: commands for each scenario

VARIABLES
    inject,  \* Injector.states
    asked    \* history: commands for each scenario

vars == <<inject, asked>>

-----------------------------------------------------------------------------
DefaultDimension(s) ==
    CASE s \in {"conversion_drop", "variant_mismatch", "returns_spike"} -> "Footwear"
      [] s = "pricing_anomaly" -> "nike-air-zoom"
      [] s \in {"fulfillment_delay", "warehouse_sla_breach"} -> "wh-east"
      [] s = "search_failures" -> "nike shoes"
      [] OTHER -> ""

State0 == [enabled |-> FALSE, dim |-> "", left |-> 0]

Init ==
    /\ inject = [s \in Scenarios |-> State0]
    /\ asked = [s \in Scenarios |-> 0]

MutActive(s) == inject[s].enabled

(* active: expiry is a comparison.                                         *)
Active(s) == inject[s].enabled /\ inject[s].left >= 0

(* Enable's defaults and caps.                                             *)
Duration(d) == IF d <= 0 THEN DefaultDuration ELSE IF d > MaxInject THEN MaxInject ELSE d

Dimension(s, dim) == IF dim = "" THEN DefaultDimension(s) ELSE dim

Asked(S) ==
    /\ \A s \in S : asked[s] < MaxAsked
    /\ asked' = [s \in Scenarios |-> IF s \in S THEN asked[s] + 1 ELSE asked[s]]

(* POST /ecom/inject.                                                      *)
Enable(s, dim, d) ==
    /\ Asked({s})
    /\ inject' = [inject EXCEPT ![s] = [enabled |-> TRUE, dim |-> Dimension(s, dim), left |-> Duration(d)]]

(* DELETE /ecom/inject, POST /ecom/reset.                                  *)
Disable(S) ==
    /\ Asked(S)
    /\ inject' = [s \in Scenarios |-> IF s \in S THEN State0 ELSE inject[s]]

Tick ==
    /\ {s \in Scenarios : Active(s)} # {}
    /\ inject' = [s \in Scenarios |->
          IF Active(s) THEN [inject[s] EXCEPT !.left = @ - 1] ELSE inject[s]]
    /\ UNCHANGED asked

Next ==
    \/ \E s \in Scenarios, dim \in Dims, d \in Durations : Enable(s, dim, d)
    \/ \E s \in Scenarios : Disable({s})
    \/ Disable(Scenarios)
    \/ Tick

Spec == Init /\ [][Next]_vars

-----------------------------------------------------------------------------
Dimensions == {"", "Footwear", "nike-air-zoom", "wh-east", "nike shoes"} \cup Dims

Switch(s) == INSTANCE TimedSwitch WITH
    Values <- {<<dim>> : dim \in Dimensions}, Off <- <<>>,
    Standings <- 1 .. MaxInject, commands <- asked[s],
    value <- IF Active(s) THEN <<inject[s].dim>> ELSE <<>>,
    left <- IF Active(s) THEN inject[s].left ELSE 0

(* Each scenario stands as long as its own command said and no longer,     *)
(* whatever happens to the others.                                         *)
ScenariosKeepTime ==
    /\ \A s \in Scenarios : Switch(s)!Init
    /\ [][\A s \in Scenarios : [Switch(s)!Next]_(Switch(s)!vars)]_vars
=============================================================================
