---------------------------- MODULE ChaosContract ----------------------------
(***************************************************************************)
(* What the fault registry owes an operator, whatever goroutines it is     *)
(* built from: every activation has a stamp of its own, an activation that *)
(* ended or was superseded never comes back, and a request to clear a      *)
(* scope is answered only when nothing that was live in that scope when    *)
(* the request arrived is still live.                                      *)
(***************************************************************************)
EXTENDS Integers

CONSTANTS Types, Operators

VARIABLES
    live,   \* for each fault type the stamp of its live activation, or 0
    time,   \* no stamp issued so far is later
    asked   \* the clearing requests not answered yet

vars == <<live, time, asked>>

Closed == [open |-> FALSE, scope |-> {}, since |-> 0]

Init ==
    /\ live = [t \in Types |-> 0]
    /\ time = 0
    /\ asked = [o \in Operators |-> Closed]

(* Faults begin, with stamps later than all before, and faults end.        *)
Evolve ==
    /\ time' \in Nat
    /\ time' >= time
    /\ live' = [t \in Types |-> live'[t]]
    /\ \A t \in Types : live'[t] \in {live[t], 0} \cup (time + 1 .. time')
    /\ UNCHANGED asked

Ask(o) ==
    /\ ~asked[o].open
    /\ \E scope \in SUBSET Types :
          asked' = [asked EXCEPT ![o] = [open |-> TRUE, scope |-> scope, since |-> time]]
    /\ UNCHANGED <<live, time>>

Cleared(o) == \A t \in asked[o].scope : live[t] = 0 \/ live[t] > asked[o].since

Answer(o) ==
    /\ asked[o].open
    /\ Cleared(o)
    /\ asked' = [asked EXCEPT ![o] = Closed]
    /\ UNCHANGED <<live, time>>

Next == Evolve \/ \E o \in Operators : Ask(o) \/ Answer(o)

Spec == Init /\ [][Next]_vars
=============================================================================
