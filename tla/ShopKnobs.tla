------------------------------ MODULE ShopKnobs ------------------------------
(***************************************************************************)
(* The incident knobs of the Shopify mock (internal/shopify/incident.go):  *)
(* a payment meltdown and a product slump, each for one shop at a time.    *)
(* A POST enables the knob and leaves behind a goroutine that sleeps for   *)
(* the duration and then disables the knob, whoever enabled it last.  The  *)
(* two knobs are the same code written out twice.                          *)
(*                                                                         *)
(* Time is counted in ticks, down: what a knob and a sleeper still have.   *)
(* A sleeper wakes at its time or any time later, so starting it together  *)
(* with Enable loses nothing.  Fractions and boosts only scale the draws   *)
(* of the emitter and are left to its choice.                              *)
(***************************************************************************)
EXTENDS Integers, FiniteSets

CONSTANTS
    Shops,           \* cfg.Shops
    DefaultShop,     \* cfg.Shops[0]
    AskedShops,      \* shops a client may send, NoShop for none
    Asked,           \* duration_seconds a client may send, in ticks
    MeltdownDefault, \* 300 seconds
    SlumpDefault,    \* 600 seconds
    MaxDuration,     \* maxIncidentDuration
    MaxPosts,        \* bound: POSTs in one behaviour
    MaxDeletes       \* bound: DELETEs in one behaviour

Knobs == {"meltdown", "slump"}

NoShop == "none"

\* duration_seconds below a nanosecond, and beyond what an int64 of
\* nanoseconds holds.
TooShort == -1
TooLong == -2

ASSUME KnobAssumption ==
    /\ Asked \subseteq Nat \cup {TooShort, TooLong}
    /\ {MeltdownDefault, SlumpDefault, MaxDuration} \subseteq Nat \ {0}
    /\ DefaultShop \in Shops /\ AskedShops \subseteq Shops \cup {NoShop}

VARIABLES
    knob,      \* IncidentState, ProductSlumpState
    sleepers,  \* the auto-disable goroutines asleep
    posts,     \* POSTs so far; numbers the sleepers
    deletes,   \* DELETEs so far
    askedFor   \* history: the shops each knob has ever been enabled for

knobVars == <<knob, sleepers, posts, deletes, askedFor>>

-----------------------------------------------------------------------------
Disabled == [enabled |-> FALSE, shop |-> NoShop, duration |-> 0, left |-> 0]

KnobInit ==
    /\ knob = [k \in Knobs |-> Disabled]
    /\ sleepers = {}
    /\ posts = 0
    /\ deletes = 0
    /\ askedFor = [k \in Knobs |-> {}]

(* time.Duration(req.DurationSeconds * float64(time.Second)) and the cap.  *)
(* What a float outside an int64 converts to is up to the machine: the     *)
(* least value on some, the greatest on others.                            *)
Durations(k, asked) ==
    CASE asked = TooShort -> {0}
      [] asked = TooLong -> {-1, MaxDuration}
      [] asked = 0 -> {IF k = "meltdown" THEN MeltdownDefault ELSE SlumpDefault}
      [] OTHER -> {IF asked > MaxDuration THEN MaxDuration ELSE asked}

(* Active: left is duration minus the time since startedAt.                *)
Active(k) == knob[k].enabled /\ (knob[k].duration > 0 => knob[k].left >= 0)

(* What GET /incident/status calls active.                                 *)
Snapshot(k) == knob[k].enabled /\ (knob[k].duration = 0 \/ knob[k].left >= 0)

MutStarted(k, d) == IF d > 0 THEN {[n |-> posts, knob |-> k, left |-> d]} ELSE {}

(* The goroutine a POST starts.                                            *)
Started(k, d) == {[n |-> posts, knob |-> k, left |-> d]}

(* Enable, and the goroutine that will disable.                            *)
Post(k, shop, d) ==
    /\ posts < MaxPosts
    /\ posts' = posts + 1
    /\ knob' = [knob EXCEPT ![k] =
          [enabled |-> TRUE, shop |-> shop, duration |-> d, left |-> d]]
    /\ sleepers' = sleepers \cup Started(k, d)
    /\ askedFor' = [askedFor EXCEPT ![k] = @ \cup {shop}]
    /\ UNCHANGED deletes

Delete(k) ==
    /\ deletes < MaxDeletes
    /\ deletes' = deletes + 1
    /\ knob' = [knob EXCEPT ![k] = Disabled]
    /\ UNCHANGED <<sleepers, posts, askedFor>>

Wake(s) ==
    /\ s.left <= 0
    /\ sleepers' = sleepers \ {s}
    /\ knob' = [knob EXCEPT ![s.knob] = Disabled]
    /\ UNCHANGED <<posts, deletes, askedFor>>

Counting(k) == knob[k].enabled /\ knob[k].left >= 0

Down(x) == [x EXCEPT !.left = @ - 1]

(* A tick: nothing counts further down than past its time.                 *)
Tick ==
    /\ {k \in Knobs : Counting(k)} # {} \/ {s \in sleepers : s.left > 0} # {}
    /\ knob' = [k \in Knobs |-> IF Counting(k) THEN Down(knob[k]) ELSE knob[k]]
    /\ sleepers' = {IF s.left > 0 THEN Down(s) ELSE s : s \in sleepers}
    /\ UNCHANGED <<posts, deletes, askedFor>>

(* An empty shop in the body stands for the first configured one.          *)
Ask(k) == \E shop \in AskedShops, a \in Asked : \E d \in Durations(k, a) :
    Post(k, IF shop = NoShop THEN DefaultShop ELSE shop, d)

KnobNext ==
    \/ \E k \in Knobs : Ask(k) \/ Delete(k)
    \/ \E s \in sleepers : Wake(s)
    \/ Tick

KnobSpec == KnobInit /\ [][KnobNext]_knobVars

(* Time passes, and a sleeper whose time is up gets to run.                *)
KnobFairness ==
    /\ WF_knobVars(Tick)
    /\ WF_knobVars(\E s \in sleepers : Wake(s))

-----------------------------------------------------------------------------
(* An incident that is on, and that no client touches, stays on until its  *)
(* duration is over: auto-expiry is for the activation that asked for it.  *)
StandsUntilOver ==
    [][\A k \in Knobs :
          (Active(k) /\ UNCHANGED <<posts, deletes>> /\ knob[k].left > 0) => Active(k)']_knobVars

(* A duration too short or too long to be one enables a knob that does not *)
(* expire; the goroutine that puts an end to it is then already due.  When *)
(* the duration is below zero the status page denies meanwhile that it is  *)
(* on, and there is no other way for the page and the emitter to disagree. *)
UnlimitedIsBrief ==
    \A k \in Knobs :
        /\ (knob[k].enabled /\ knob[k].duration <= 0) =>
              \E s \in sleepers : s.knob = k /\ s.left <= 0
        /\ Snapshot(k) # Active(k) => knob[k].enabled /\ knob[k].duration < 0

(* Clients that stop asking see every incident end.                        *)
IncidentsEnd == <>[](\A k \in Knobs : ~knob[k].enabled)

=============================================================================
