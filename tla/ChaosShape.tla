----------------------------- MODULE ChaosShape -----------------------------
(***************************************************************************)
(* How hard a fault strikes (internal/chaos, shape.go): the intensity of   *)
(* an entry of the registry is shaped by the time since it was enabled,    *)
(* cut down to its scope and divided by the simulated capacity.  A service *)
(* asks for it in two critical sections, whether the fault is active and   *)
(* then how hard it strikes, and commands and time come in between.        *)
(*                                                                         *)
(* Intensities and scopes are hundredths, the factor of an onset is so     *)
(* many parts of Full, times are ticks.  Fractions are rounded down.       *)
(***************************************************************************)
EXTENDS Integers

CONSTANTS
    Kinds,          \* fault types
    Sensitive,      \* those that scaling out relieves
    Requests,       \* specs handlers and campaigns pass to EnableSpec
    Replicas,       \* replica counts sent to /ops/scale
    RampDefault,    \* 120 seconds
    PeriodDefault,  \* 60 seconds
    LengthDefault,  \* defaultStepSeconds
    Longest,        \* maxDuration
    LeakClimb,      \* 30 minutes
    Horizon,        \* bound: ticks an entry is followed
    MaxCommands     \* bound: requests of clients

VARIABLES
    kind,      \* the fault type followed
    fault,     \* its entry in states
    elapsed,   \* the time since its StartedAt
    capacity,  \* capacityBits
    commands,  \* requests so far
    reader     \* a call of GetIntensity

vars == <<kind, fault, elapsed, capacity, commands, reader>>

-----------------------------------------------------------------------------
Full == 12

Least(a, b) == IF a < b THEN a ELSE b

Off == [enabled |-> FALSE, level |-> 0, onset |-> "step", ramp |-> 0, period |-> 0,
        sticky |-> FALSE, scope |-> 0, duration |-> 0]

\* seen: the entries there were during the call.
Idle == [at |-> "idle", seen |-> {}, answer |-> 0]

Init ==
    /\ kind \in Kinds
    /\ fault = Off /\ elapsed = 0
    /\ capacity = 1
    /\ commands = 0
    /\ reader = Idle

(* normalizeIntensity: more than one is taken for a percentage.            *)
NormalizeIntensity(v) == IF v > 100 THEN Least(100, v \div 100) ELSE IF v < 0 THEN 0 ELSE v

NormalizeDuration(d) == IF d <= 0 THEN LengthDefault ELSE Least(Longest, d)

(* EnableSpec up to its unlock.                                            *)
Normalized(r) ==
    [r EXCEPT !.level = NormalizeIntensity(r.level),
              !.duration = IF r.sticky THEN @ ELSE NormalizeDuration(r.duration),
              !.ramp = IF @ <= 0 THEN RampDefault ELSE @,
              !.period = IF @ <= 0 THEN PeriodDefault ELSE @,
              !.scope = IF @ <= 0 \/ @ > 100 THEN 100 ELSE @]

(* IsActive.                                                               *)
IsActive(f, age) == f.enabled /\ (f.sticky \/ f.duration <= 0 \/ age <= f.duration)

(* onsetFactor.                                                            *)
OnsetFactor(f, age) ==
    LET climb(total) == Least(Full, (Full * age) \div total)
    IN  CASE f.onset = "ramp" -> IF f.ramp <= 0 THEN Full ELSE climb(f.ramp)
          [] f.onset = "slowleak" -> climb(IF f.sticky \/ f.duration <= 0 THEN LeakClimb ELSE f.duration)
          [] f.onset = "flap" -> IF (age \div (IF f.period <= 0 THEN PeriodDefault ELSE f.period)) % 2 = 0
                                THEN Full ELSE 0
          [] OTHER -> Full

(* capacityFor.                                                            *)
CapacityFor(k) == IF k \in Sensitive /\ capacity >= 1 THEN capacity ELSE 1

(* The most an entry can do: scope 0 was never written and cuts nothing.   *)
Peak(f) == f.level * (IF f.scope > 0 /\ f.scope < 100 THEN f.scope ELSE 100) * Full

(* GetIntensity below IsActive.                                            *)
Effective(f, age) == ((Peak(f) \div Full) * OnsetFactor(f, age)) \div CapacityFor(kind)

-----------------------------------------------------------------------------
See(f) == IF reader.at = "read" THEN [reader EXCEPT !.seen = @ \cup {f}] ELSE reader

Command(f) ==
    /\ commands < MaxCommands
    /\ commands' = commands + 1
    /\ fault' = f /\ elapsed' = 0
    /\ reader' = See(f)
    /\ UNCHANGED <<kind, capacity>>

EnableSpec(r) == Command([Normalized(r) EXCEPT !.enabled = TRUE])

(* Disable, by anybody.  It zeroes StartedAt too; without a level the time  *)
(* since then is of no account.                                            *)
Disable == fault.enabled /\ Command([fault EXCEPT !.enabled = FALSE, !.level = 0, !.duration = 0])

(* /ops/scale: SetCapacity, for what is not below one.                     *)
Scale(n) ==
    /\ n >= 1 /\ commands < MaxCommands
    /\ commands' = commands + 1
    /\ capacity' = n
    /\ UNCHANGED <<kind, fault, elapsed, reader>>

Tick ==
    /\ fault.enabled /\ elapsed < Horizon
    /\ elapsed' = elapsed + 1
    /\ UNCHANGED <<kind, fault, capacity, commands, reader>>

(* GetIntensity: first whether it is active; the answer to no is none.     *)
AskIsActive ==
    /\ reader.at = "idle" /\ IsActive(fault, elapsed)
    /\ reader' = [Idle EXCEPT !.at = "read", !.seen = {fault}]
    /\ UNCHANGED <<kind, fault, elapsed, capacity, commands>>

(* Then how hard, whatever the entry has become.                           *)
GetIntensity ==
    /\ reader.at = "read"
    /\ reader' = [reader EXCEPT !.at = "answered", !.answer = Effective(fault, elapsed)]
    /\ UNCHANGED <<kind, fault, elapsed, capacity, commands>>

Answered ==
    /\ reader.at = "answered"
    /\ reader' = Idle
    /\ UNCHANGED <<kind, fault, elapsed, capacity, commands>>

Next ==
    \/ \E r \in Requests : EnableSpec(r)
    \/ Disable
    \/ \E n \in Replicas : Scale(n)
    \/ Tick
    \/ AskIsActive \/ GetIntensity \/ Answered

Spec == Init /\ [][Next]_vars

-----------------------------------------------------------------------------
(* What a service is told is never more than some activation of the call   *)
(* allows, though the entry it reads may be another one, or be off or over *)
(* by then.  An activation left alone gets to its peak: a leak just as it  *)
(* ends, a ramp when it lasts long enough, a flap each second period; and  *)
(* capacity only ever relieves, and only the sensitive kinds.              *)
IntensityJustified ==
    LET unscaled == Effective(fault, elapsed) * CapacityFor(kind)
    IN  /\ reader.at = "answered" => \E f \in reader.seen : reader.answer <= Peak(f)
        /\ ~fault.enabled => Effective(fault, elapsed) = 0
        /\ 0 <= unscaled /\ unscaled <= Peak(fault)
        /\ capacity = 1 \/ kind \notin Sensitive => unscaled = Effective(fault, elapsed)
        /\ (fault.enabled /\ capacity = 1) =>
              CASE fault.onset = "slowleak" ->
                     (Effective(fault, elapsed) = Peak(fault)) <=>
                         \/ Peak(fault) = 0
                         \/ elapsed >= (IF fault.sticky THEN LeakClimb ELSE fault.duration)
                [] fault.onset = "ramp" ->
                     (Effective(fault, elapsed) = Peak(fault)) <=> (Peak(fault) = 0 \/ elapsed >= fault.ramp)
                [] fault.onset = "flap" ->
                     Effective(fault, elapsed) \in (IF elapsed < fault.period THEN {} ELSE {0}) \cup {Peak(fault)}
                [] OTHER -> Effective(fault, elapsed) = Peak(fault)
=============================================================================
