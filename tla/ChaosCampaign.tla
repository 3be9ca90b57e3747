---------------------------- MODULE ChaosCampaign ----------------------------
(***************************************************************************)
(* Campaigns (internal/chaos): StartCampaign validates a plan, makes it    *)
(* the one activeCampaign, and leaves behind one goroutine for each step,  *)
(* which sleeps and then enables a fault, and one that ends the campaign.  *)
(* None of them can be called off.  The kill-switch disables every fault   *)
(* and then marks the active campaign as no longer running.                *)
(*                                                                         *)
(* Time is a clock of equal ticks.  A goroutine never wakes early; that a  *)
(* step wakes at most MaxLate ticks late is an assumption on the scheduler *)
(* that only FinishedMeansOver needs.  The registry is kept as far as      *)
(* IsActive reads it; its timers and remediations are in ChaosRegistry.    *)
(***************************************************************************)
EXTENDS Integers, Sequences, FiniteSets

CONSTANTS
    Types,        \* ChaosType
    Ids,          \* campaign_id values; a client may send one again
    Plans,        \* the plans clients send: sequences of [type, start, duration]
    MaxSteps,     \* maxCampaignSteps
    DefaultStep,  \* defaultStepSeconds, in ticks
    MaxDuration,  \* maxDuration, in ticks
    Second,       \* one second, in ticks
    MaxLate,      \* scheduler: a step goroutine runs at most this late
    MaxRuns,      \* bound: campaigns started in one behaviour
    Horizon       \* bound: no campaign is started at or after this time

RawStep == [type : Types, start : Int, duration : Int]

ASSUME CampaignAssumption ==
    /\ Plans \subseteq Seq(RawStep)
    /\ {MaxSteps, DefaultStep, MaxDuration, Second} \subseteq Nat \ {0}
    /\ {MaxLate, MaxRuns, Horizon} \subseteq Nat
    /\ MaxLate < Second

VARIABLES
    active,     \* activeCampaign
    faults,     \* the registry entries
    launching,  \* StartCampaign calls between the unlock and the go statements
    steps,      \* step goroutines asleep
    closers,    \* closing goroutines asleep
    killing,    \* types the kill-switch has yet to disable, if it is running
    now,        \* the clock
    runs        \* campaigns accepted so far; names each

vars == <<active, faults, launching, steps, closers, killing, now, runs>>

-----------------------------------------------------------------------------
NoCampaign == [run |-> 0, id |-> "none", running |-> FALSE]

(* A registry entry, with the campaign whose step enabled it.              *)
Off == [enabled |-> FALSE, run |-> 0, startedAt |-> 0, duration |-> 0]

NotKilling == [on |-> FALSE, todo |-> {}]

IsActive(t) ==
    /\ faults[t].enabled
    /\ ~(faults[t].duration > 0 /\ now - faults[t].startedAt > faults[t].duration)

Maximum(S) == CHOOSE m \in S : \A n \in S : n <= m

(* Mutant: a step without a duration keeps having none.                    *)
NormalStepNoDefault(s) ==
    [type     |-> s.type,
     start    |-> IF s.start < 0 THEN 0 ELSE s.start,
     duration |-> s.duration]

(* What the validation loop makes of a step, and Enable of its duration.   *)
NormalStep(s) ==
    [type     |-> s.type,
     start    |-> IF s.start < 0 THEN 0 ELSE s.start,
     duration |-> IF s.duration <= 0 THEN DefaultStep ELSE s.duration]

NormalPlan(plan) == [i \in DOMAIN plan |-> NormalStep(plan[i])]

ClampDuration(d) == IF d <= 0 THEN DefaultStep ELSE IF d > MaxDuration THEN MaxDuration ELSE d

(* Mutant: the closer does not wait the extra second.                      *)
EndDurationBare(plan) == Maximum({plan[i].start + plan[i].duration : i \in DOMAIN plan})

(* campaignEndDuration: when the last step is over, and a second.          *)
EndDuration(plan) ==
    Maximum({plan[i].start + plan[i].duration : i \in DOMAIN plan}) + Second

-----------------------------------------------------------------------------
Init ==
    /\ active = NoCampaign
    /\ faults = [t \in Types |-> Off]
    /\ launching = {}
    /\ steps = {}
    /\ closers = {}
    /\ killing = NotKilling
    /\ now = 0
    /\ runs = 0

(* Mutant: a dry run is recorded as running.                               *)
StartCampaignAlwaysRunning(id, plan, dry) ==
    /\ runs < MaxRuns /\ now < Horizon
    /\ Len(plan) \in 1 .. MaxSteps
    /\ runs' = runs + 1
    /\ active' = [run |-> runs + 1, id |-> id, running |-> TRUE]
    /\ launching' = IF dry THEN launching
                    ELSE launching \cup {[run |-> runs + 1, id |-> id, plan |-> NormalPlan(plan)]}
    /\ UNCHANGED <<faults, steps, closers, killing, now>>

(* POST /chaos/campaign: a valid plan replaces the active campaign, also   *)
(* for a dry run, which is never running and leaves nothing behind.        *)
StartCampaign(id, plan, dry) ==
    /\ runs < MaxRuns /\ now < Horizon
    /\ Len(plan) \in 1 .. MaxSteps
    /\ runs' = runs + 1
    /\ active' = [run |-> runs + 1, id |-> id, running |-> ~dry]
    /\ launching' = IF dry THEN launching
                    ELSE launching \cup {[run |-> runs + 1, id |-> id, plan |-> NormalPlan(plan)]}
    /\ UNCHANGED <<faults, steps, closers, killing, now>>

(* The go statements: one goroutine for each step, one to close.           *)
Launch(c) ==
    /\ c \in launching
    /\ launching' = launching \ {c}
    /\ steps' = steps \cup {[run  |-> c.run, index |-> i, type |-> c.plan[i].type,
                             duration |-> c.plan[i].duration,
                             wake |-> now + c.plan[i].start] : i \in DOMAIN c.plan}
    /\ closers' = closers \cup {[run |-> c.run, id |-> c.id, wake |-> now + EndDuration(c.plan)]}
    /\ UNCHANGED <<active, faults, killing, now, runs>>

(* A step goroutine wakes and enables its fault, whatever has become of    *)
(* the campaign meanwhile.                                                 *)
FireStep(s) ==
    /\ s \in steps
    /\ now >= s.wake
    /\ steps' = steps \ {s}
    /\ faults' = [faults EXCEPT ![s.type] = [enabled |-> TRUE, run |-> s.run, startedAt |-> now,
                                             duration |-> ClampDuration(s.duration)]]
    /\ UNCHANGED <<active, launching, closers, killing, now, runs>>

(* Mutant: Running is cleared in a copy of the campaign.                   *)
CloseCampaignCopy(c) ==
    /\ c \in closers
    /\ now >= c.wake
    /\ closers' = closers \ {c}
    /\ UNCHANGED <<active, faults, launching, steps, killing, now, runs>>

(* The closing goroutine wakes; it knows its campaign by the ID alone.     *)
CloseCampaign(c) ==
    /\ c \in closers
    /\ now >= c.wake
    /\ closers' = closers \ {c}
    /\ active' = IF active.id = c.id THEN [active EXCEPT !.running = FALSE] ELSE active
    /\ UNCHANGED <<faults, launching, steps, killing, now, runs>>

(* POST /chaos/kill-switch: DisableAll goes through the types ...          *)
BeginKill ==
    /\ ~killing.on
    /\ killing' = [on |-> TRUE, todo |-> Types]
    /\ UNCHANGED <<active, faults, launching, steps, closers, now, runs>>

KillOne(t) ==
    /\ t \in killing.todo
    /\ faults' = [faults EXCEPT ![t] = Off]
    /\ killing' = [killing EXCEPT !.todo = @ \ {t}]
    /\ UNCHANGED <<active, launching, steps, closers, now, runs>>

(* ... and then marks the active campaign, and answers.                    *)
KillCampaign ==
    /\ killing.on
    /\ killing.todo = {}
    /\ active' = [active EXCEPT !.running = FALSE]
    /\ killing' = NotKilling
    /\ UNCHANGED <<faults, launching, steps, closers, now, runs>>

(* Time passes while something may still begin or come due, and not past   *)
(* the lateness the scheduler is granted.                                  *)
Tick ==
    /\ now < Horizon \/ \E g \in steps \cup closers : now < g.wake
    /\ \A s \in steps : now < s.wake + MaxLate
    /\ now' = now + 1
    /\ UNCHANGED <<active, faults, launching, steps, closers, killing, runs>>

-----------------------------------------------------------------------------
Next ==
    \/ \E id \in Ids, plan \in Plans, dry \in BOOLEAN : StartCampaign(id, plan, dry)
    \/ \E c \in launching : Launch(c)
    \/ \E s \in steps : FireStep(s)
    \/ \E c \in closers : CloseCampaign(c)
    \/ BeginKill
    \/ \E t \in Types : KillOne(t)
    \/ KillCampaign
    \/ Tick

Spec == Init /\ [][Next]_vars

(* Goroutines run and time passes; requests, the kill-switch's among them, *)
(* owe nothing.                                                            *)
Fairness ==
    /\ \A n \in 1 .. MaxRuns :
          /\ WF_vars(\E c \in launching : c.run = n /\ Launch(c))
          /\ WF_vars(\E s \in steps : s.run = n /\ FireStep(s))
          /\ WF_vars(\E c \in closers : c.run = n /\ CloseCampaign(c))
    /\ WF_vars(Tick)

FairSpec == Spec /\ Fairness

-----------------------------------------------------------------------------
(* Properties.                                                             *)

(* Every variable has its type.                                            *)
TypeOK ==
    /\ active \in [run : Nat, id : Ids \cup {"none"}, running : BOOLEAN]
    /\ faults \in [Types -> [enabled : BOOLEAN, run : Nat, startedAt : Nat, duration : Nat]]
    /\ launching \subseteq [run : Nat \ {0}, id : Ids,
                            plan : Seq([type : Types, start : Nat, duration : Nat \ {0}])]
    /\ steps \subseteq [run : Nat \ {0}, index : Nat \ {0}, type : Types,
                        duration : Nat \ {0}, wake : Nat]
    /\ closers \subseteq [run : Nat \ {0}, id : Ids, wake : Nat]
    /\ killing \in [on : BOOLEAN, todo : SUBSET Types]
    /\ now \in Nat
    /\ runs \in Nat

(* A campaign reported as running has a goroutine, started or about to be, *)
(* that will end it, although closers only know the ID and campaigns       *)
(* replace one another.                                                    *)
RunningHasCloser ==
    active.running => \E c \in launching \cup closers : c.id = active.id /\ c.run = active.run

(* Nothing of campaign n is still to come, and nothing it brought is       *)
(* active.                                                                 *)
Over(n) ==
    /\ \A g \in launching \cup steps : g.run # n
    /\ \A t \in Types : faults[t].run = n => ~IsActive(t)

(* When activeCampaign turns from running to finished, and it is neither   *)
(* the kill-switch that does it nor a new campaign that takes its place,   *)
(* all its steps have fired and nothing they enabled is active any more:   *)
(* the second that campaignEndDuration adds outlasts the lateness of the   *)
(* steps.  The one exception is an ID sent again while the closing         *)
(* goroutine of an earlier campaign of that ID is asleep: that goroutine   *)
(* tells campaigns apart by ID only, and ends the later one, in whatever   *)
(* state its steps are.                                                    *)
KillPassed == killing.on /\ ~killing'.on

ClosedByNamesake == \E c \in closers \ closers' : c.id = active.id /\ c.run < active.run

FinishedMeansOver ==
    [][active.running /\ ~active'.running /\ active'.run = active.run
        => Over(active.run) \/ KillPassed \/ ClosedByNamesake]_vars

(* A running campaign ends, or another takes its place.                    *)
CampaignEnds ==
    \A n \in 1 .. MaxRuns :
        (active.run = n /\ active.running) ~> ~(active.run = n /\ active.running)
=============================================================================
