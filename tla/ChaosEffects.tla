---------------------------- MODULE ChaosEffects ----------------------------
(***************************************************************************)
(* What a fault does to the process besides being in the registry: the     *)
(* CPU burners behind cpuCancel, the memory leakers and their ballast, the *)
(* log writers, and the goroutine that exits the process (internal/chaos). *)
(* EnableSpec starts them after it has unlocked `mu`; Disable stops what   *)
(* it can stop after it has unlocked `mu`.  In between any other call may  *)
(* run, which is what this module is about.                                *)
(*                                                                         *)
(* Of the registry only what these goroutines see is kept: whether the     *)
(* entry is off, active, or enabled with its duration over.  ChaosRegistry *)
(* has the rest, and the timers, sweeps and DELETEs that call Disable are  *)
(* the callers of this module.                                             *)
(***************************************************************************)
EXTENDS Integers, FiniteSets

CONSTANTS
    Callers,     \* goroutines that call EnableSpec or Disable, one call at a time
    Kinds,       \* the fault types with a side effect that are exercised
    Chunks,      \* pieces a leaker allocates (100 in the code)
    Lines,       \* bound: lines a log writer has time for
    MaxStarts    \* bound: faults enabled in one behaviour

AllKinds == {"cpu_stress", "memory_leak", "log_storm", "novel_log", "pod_crash"}

ASSUME EffectsAssumption ==
    /\ IsFiniteSet(Callers)
    /\ Kinds \subseteq AllKinds
    /\ Chunks \in Nat \ {0}
    /\ Lines \in Nat
    /\ MaxStarts \in Nat

VARIABLES
    entry,      \* what the registry says of each fault type
    calls,      \* each caller's call and how far it has come
    cpuCancel,  \* the stop channel of the current burners, 0 for nil
    closed,     \* stop channels that have been closed
    burning,    \* stop channels of the burner groups still running
    leakers,    \* startMemoryLeak goroutines
    ballast,    \* memoryBallast: how many chunks of each activation it holds
    writers,    \* startLogStorm and startNovelLog goroutines
    crashes,    \* startPodCrash goroutines asleep
    up,         \* the process has not exited
    starts,     \* faults enabled so far; names the goroutines of each
    crossed     \* history: the cpu_stress calls each start of burners overlapped

vars == <<entry, calls, cpuCancel, closed, burning, leakers, ballast,
          writers, crashes, up, starts, crossed>>

effects == <<burning, leakers, ballast, writers, crashes, up>>

-----------------------------------------------------------------------------
(* A call: the fault type, the number of the activation it starts (0 for a *)
(* Disable), where it is, and the channel it has taken to close.           *)
Call == [kind : AllKinds, start : Nat, chan : Nat,
         at : {"idle", "take", "close", "install", "launch", "release"}]

Idle == [kind |-> "cpu_stress", start |-> 0, chan |-> 0, at |-> "idle"]

Leaker == [start : Nat \ {0}, left : Nat \ {0}, at : {"check", "append"}]

Writer == [start : Nat \ {0}, kind : {"log_storm", "novel_log"}, left : Nat,
           checked : BOOLEAN]

IsActive(k) == entry[k] = "on"

(* Calls about cpu_stress that have not returned, and what they are.       *)
Stressing == {p \in Callers : calls[p].at # "idle" /\ calls[p].kind = "cpu_stress"}

CallKind(p) == IF calls[p].start = 0 THEN "disable" ELSE "enable"

(* A cpu_stress call of kind c begins: the starts in flight are overlapped *)
(* by it, and it, if it is start n, by the calls in flight.                *)
Crossing(c, n) ==
    [m \in 1 .. MaxStarts |->
        crossed[m] \cup (IF \E p \in Stressing : calls[p].start = m THEN {c} ELSE {})
                   \cup (IF m = n THEN {CallKind(p) : p \in Stressing} ELSE {})]

Init ==
    /\ entry = [k \in Kinds |-> "off"]
    /\ calls = [p \in Callers |-> Idle]
    /\ cpuCancel = 0
    /\ closed = {}
    /\ burning = {}
    /\ leakers = {}
    /\ ballast = [n \in 1 .. MaxStarts |-> 0]
    /\ writers = {}
    /\ crashes = {}
    /\ up = TRUE
    /\ starts = 0
    /\ crossed = [n \in 1 .. MaxStarts |-> {}]

-----------------------------------------------------------------------------
(* Mutant: the new burners start without stopping those that run.          *)
FirstStepNoStop(k) == IF k = "cpu_stress" THEN "install" ELSE "launch"

(* startCPUStress stops the burners that run before it starts its own.     *)
FirstStep(k) == IF k = "cpu_stress" THEN "take" ELSE "launch"

(* EnableSpec up to its unlock.                                            *)
Enable(p, k) ==
    /\ up
    /\ calls[p].at = "idle"
    /\ starts < MaxStarts
    /\ starts' = starts + 1
    /\ entry' = [entry EXCEPT ![k] = "on"]
    /\ calls' = [calls EXCEPT ![p] = [kind |-> k, start |-> starts + 1, chan |-> 0,
                                      at |-> FirstStep(k)]]
    /\ crossed' = IF k = "cpu_stress" THEN Crossing("enable", starts + 1) ELSE crossed
    /\ UNCHANGED <<cpuCancel, closed, effects>>

(* A timed fault's duration passes; its entry stays enabled until the      *)
(* timer's Disable.                                                        *)
Expire(k) ==
    /\ up
    /\ IsActive(k)
    /\ entry' = [entry EXCEPT ![k] = "over"]
    /\ UNCHANGED <<calls, cpuCancel, closed, effects, starts, crossed>>

(* What Disable has to stop: burners and memory, nothing else.             *)
StopStep(k) ==
    CASE k = "cpu_stress"  -> "take"
      [] k = "memory_leak" -> "release"
      [] OTHER             -> "idle"

(* Disable up to its unlock.                                               *)
Disable(p, k) ==
    /\ up
    /\ calls[p].at = "idle"
    /\ entry' = [entry EXCEPT ![k] = "off"]
    /\ calls' = [calls EXCEPT ![p] =
                     IF StopStep(k) = "idle" THEN Idle
                     ELSE [kind |-> k, start |-> 0, chan |-> 0, at |-> StopStep(k)]]
    /\ crossed' = IF k = "cpu_stress" THEN Crossing("disable", 0) ELSE crossed
    /\ UNCHANGED <<cpuCancel, closed, effects, starts>>

(* Mutant: cpuCancel keeps the channel that is about to be closed.         *)
TakeCancelKept(p) ==
    /\ up
    /\ calls[p].at = "take"
    /\ calls' = [calls EXCEPT ![p].chan = cpuCancel, ![p].at = "close"]
    /\ UNCHANGED <<entry, cpuCancel, closed, effects, starts, crossed>>

(* stopCPUStress takes the channel out of cpuCancel ...                    *)
TakeCancel(p) ==
    /\ up
    /\ calls[p].at = "take"
    /\ calls' = [calls EXCEPT ![p].chan = cpuCancel, ![p].at = "close"]
    /\ cpuCancel' = 0
    /\ UNCHANGED <<entry, closed, effects, starts, crossed>>

(* ... and closes it, outside the lock.                                    *)
CloseCancel(p) ==
    /\ up
    /\ calls[p].at = "close"
    /\ closed' = closed \cup ({calls[p].chan} \ {0})
    /\ calls' = [calls EXCEPT ![p] = IF calls[p].start = 0 THEN Idle
                                     ELSE [calls[p] EXCEPT !.chan = 0, !.at = "install"]]
    /\ UNCHANGED <<entry, cpuCancel, effects, starts, crossed>>

(* startCPUStress stores its own new channel, overwriting whatever is      *)
(* there, ...                                                              *)
Install(p) ==
    /\ up
    /\ calls[p].at = "install"
    /\ cpuCancel' = calls[p].start
    /\ calls' = [calls EXCEPT ![p].at = "launch"]
    /\ UNCHANGED <<entry, closed, effects, starts, crossed>>

(* ... and the go statements follow: burners, a leaker, a log writer or    *)
(* the goroutine that will exit the process.                               *)
Launch(p) ==
    LET k == calls[p].kind
        n == calls[p].start
    IN
    /\ up
    /\ calls[p].at = "launch"
    /\ burning' = IF k = "cpu_stress" THEN burning \cup {n} ELSE burning
    /\ leakers' = IF k = "memory_leak"
                  THEN leakers \cup {[start |-> n, left |-> Chunks, at |-> "check"]}
                  ELSE leakers
    /\ writers' = IF k \in {"log_storm", "novel_log"}
                  THEN writers \cup {[start |-> n, kind |-> k, left |-> Lines, checked |-> FALSE]}
                  ELSE writers
    /\ crashes' = IF k = "pod_crash" THEN crashes \cup {n} ELSE crashes
    /\ calls' = [calls EXCEPT ![p] = Idle]
    /\ UNCHANGED <<entry, cpuCancel, closed, ballast, up, starts, crossed>>

(* releaseMemory, called by Disable.                                       *)
Release(p) ==
    /\ up
    /\ calls[p].at = "release"
    /\ ballast' = [n \in 1 .. MaxStarts |-> 0]
    /\ calls' = [calls EXCEPT ![p] = Idle]
    /\ UNCHANGED <<entry, cpuCancel, closed, burning, leakers, writers, crashes, up, starts, crossed>>

-----------------------------------------------------------------------------
(* A burner group sees its channel closed and returns.                     *)
BurnersStop(ch) ==
    /\ up
    /\ ch \in burning \cap closed
    /\ burning' = burning \ {ch}
    /\ UNCHANGED <<entry, calls, cpuCancel, closed, leakers, ballast, writers, crashes, up, starts, crossed>>

(* Mutant: the leaker does not look at the registry.                       *)
LeakCheckNever(l) ==
    /\ up
    /\ l \in leakers
    /\ l.at = "check"
    /\ leakers' = (leakers \ {l}) \cup {[l EXCEPT !.at = "append"]}
    /\ UNCHANGED <<entry, calls, cpuCancel, closed, burning, ballast, writers, crashes, up, starts, crossed>>

(* The leaker returns once memory_leak is not active ...                   *)
LeakCheck(l) ==
    /\ up
    /\ l \in leakers
    /\ l.at = "check"
    /\ leakers' = (leakers \ {l}) \cup
                     (IF IsActive("memory_leak") THEN {[l EXCEPT !.at = "append"]} ELSE {})
    /\ UNCHANGED <<entry, calls, cpuCancel, closed, burning, ballast, writers, crashes, up, starts, crossed>>

(* Mutant: the loop runs once more than it should.                         *)
LeakAppendOneMore(l) ==
    /\ up
    /\ l \in leakers
    /\ l.at = "append"
    /\ ballast' = [ballast EXCEPT ![l.start] = @ + 1]
    /\ leakers' = (leakers \ {l}) \cup
                     (IF l.left = 0 THEN {}
                      ELSE {[l EXCEPT !.at = "check", !.left = l.left - 1]})
    /\ UNCHANGED <<entry, calls, cpuCancel, closed, burning, writers, crashes, up, starts, crossed>>

(* ... and otherwise allocates a chunk, appends it, and sleeps.            *)
LeakAppend(l) ==
    /\ up
    /\ l \in leakers
    /\ l.at = "append"
    /\ ballast' = [ballast EXCEPT ![l.start] = @ + 1]
    /\ leakers' = (leakers \ {l}) \cup
                     (IF l.left = 1 THEN {}
                      ELSE {[l EXCEPT !.at = "check", !.left = l.left - 1]})
    /\ UNCHANGED <<entry, calls, cpuCancel, closed, burning, writers, crashes, up, starts, crossed>>

(* At a tick a novel-log writer first looks at the registry, ...           *)
NovelCheck(w) ==
    /\ up
    /\ w \in writers
    /\ w.kind = "novel_log"
    /\ ~w.checked
    /\ w.left > 0
    /\ writers' = (writers \ {w}) \cup
                     (IF IsActive("novel_log") THEN {[w EXCEPT !.checked = TRUE]} ELSE {})
    /\ UNCHANGED <<entry, calls, cpuCancel, closed, burning, leakers, ballast, crashes, up, starts, crossed>>

(* ... a storm writer does not, ...                                        *)
WriteLine(w) ==
    /\ up
    /\ w \in writers
    /\ w.left > 0
    /\ w.kind = "novel_log" => w.checked
    /\ writers' = (writers \ {w}) \cup {[w EXCEPT !.left = w.left - 1, !.checked = FALSE]}
    /\ UNCHANGED <<entry, calls, cpuCancel, closed, burning, leakers, ballast, crashes, up, starts, crossed>>

(* ... and either returns when its own deadline has come.                  *)
WriterDeadline(w) ==
    /\ up
    /\ w \in writers
    /\ ~w.checked
    /\ writers' = writers \ {w}
    /\ UNCHANGED <<entry, calls, cpuCancel, closed, burning, leakers, ballast, crashes, up, starts, crossed>>

(* The crash goroutine wakes and exits the process.                        *)
Exit(n) ==
    /\ up
    /\ n \in crashes
    /\ up' = FALSE
    /\ UNCHANGED <<entry, calls, cpuCancel, closed, burning, leakers, ballast, writers,
                   crashes, starts, crossed>>

-----------------------------------------------------------------------------
CallStep(p) == TakeCancel(p) \/ CloseCancel(p) \/ Install(p) \/ Launch(p) \/ Release(p)

Effect ==
    \/ \E ch \in burning : BurnersStop(ch)
    \/ \E l \in leakers : LeakCheck(l) \/ LeakAppend(l)
    \/ \E w \in writers : NovelCheck(w) \/ WriteLine(w) \/ WriterDeadline(w)
    \/ \E n \in crashes : Exit(n)

Next ==
    \/ \E k \in Kinds : Expire(k) \/ \E p \in Callers : Enable(p, k) \/ Disable(p, k)
    \/ \E p \in Callers : CallStep(p)
    \/ Effect

Spec == Init /\ [][Next]_vars

-----------------------------------------------------------------------------
(* Properties.                                                             *)

(* Every variable has its type.                                            *)
TypeOK ==
    /\ entry \in [Kinds -> {"off", "on", "over"}]
    /\ calls \in [Callers -> Call]
    /\ cpuCancel \in Nat
    /\ closed \subseteq Nat \ {0}
    /\ burning \subseteq Nat \ {0}
    /\ leakers \subseteq Leaker
    /\ ballast \in [1 .. MaxStarts -> Nat]
    /\ writers \subseteq Writer
    /\ crashes \subseteq Nat \ {0}
    /\ up \in BOOLEAN
    /\ starts \in Nat
    /\ crossed \in [1 .. MaxStarts -> SUBSET {"enable", "disable"}]

(* No stop channel is closed twice, which would panic: a caller about to   *)
(* close a channel is the only one that has it, and it is still open.      *)
ClosedOnce ==
    \A p \in Callers : calls[p].at = "close" /\ calls[p].chan # 0 =>
        /\ calls[p].chan \notin closed
        /\ calls[p].chan # cpuCancel
        /\ \A q \in Callers \ {p} : calls[q].chan # calls[p].chan

StressOff == "cpu_stress" \in Kinds /\ entry["cpu_stress"] = "off"

(* Burners run as long as their fault, whoever calls at once: those nobody *)
(* has told to stop can still be told, for their channel is in cpuCancel   *)
(* or with a caller about to close it; and once cpu_stress is off and the  *)
(* calls about it have returned, none is left burning.  What may break     *)
(* this is named.  Of two starts that overlap the later store overwrites   *)
(* the other's channel, and nothing stops its burners again; a Disable     *)
(* that overlaps a start can come too early to stop what it starts.        *)
BurnersAnswer ==
    \A ch \in burning \ closed :
        /\ ch = cpuCancel \/ (\E p \in Callers : calls[p].chan = ch) \/ "enable" \in crossed[ch]
        /\ StressOff /\ Stressing = {} => crossed[ch] # {}

(* When memory_leak is off and no Disable is under way, all it has left    *)
(* behind is at most one chunk of each leaker, appended after the release  *)
(* by a leaker that had looked before the Disable.                         *)
Releasing == \E p \in Callers : calls[p].at = "release"

ResidueBounded ==
    "memory_leak" \in Kinds /\ entry["memory_leak"] = "off" /\ ~Releasing
        => \A n \in 1 .. MaxStarts : ballast[n] <= 1
=============================================================================
