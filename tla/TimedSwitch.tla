----------------------------- MODULE TimedSwitch -----------------------------
(***************************************************************************)
(* What the generator's knobs promise.  A command gives a value a standing *)
(* of so many ticks, or withdraws it; between two commands the value goes  *)
(* away only when its time is up, and then it does go.                     *)
(*                                                                         *)
(* The force switch of internal/sysstate, each scenario of internal/ecom   *)
(* and the scheduler of cmd/chaos-service implement it.                    *)
(***************************************************************************)
EXTENDS Integers

CONSTANTS
    Values,     \* what can be switched on
    Off,        \* nothing is
    Standings   \* the ticks a command can give

VARIABLES
    commands,  \* commands accepted so far
    value,     \* what is on
    left       \* ticks it still has

vars == <<commands, value, left>>

Init == commands = 0 /\ value = Off /\ left = 0

(* A command replaces whatever is on, and its time.                        *)
Set == value' \in Values /\ left' \in Standings /\ commands' = commands + 1

Clear == value' = Off /\ left' = 0 /\ commands' = commands + 1

(* A tick of the clock: the value stands through its last tick.            *)
Pass ==
    /\ value # Off
    /\ IF left = 0 THEN value' = Off /\ left' = 0
                   ELSE value' = value /\ left' = left - 1
    /\ UNCHANGED commands

Next == Set \/ Clear \/ Pass

Spec == Init /\ [][Next]_vars
=============================================================================
