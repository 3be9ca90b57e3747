------------------------- MODULE ChaosEffectsProofs -------------------------
(***************************************************************************)
(* Proofs about ChaosEffects for any callers, any number of activations    *)
(* and any size of a leak, with any number of calls in flight.             *)
(***************************************************************************)
EXTENDS ChaosEffects, FiniteSetTheorems, TLAPS

(* No number in use is later than the last activation's.                   *)
Numbered ==
    /\ starts <= MaxStarts
    /\ cpuCancel <= starts
    /\ \A p \in Callers : calls[p].chan <= starts /\ calls[p].start <= starts
    /\ \A ch \in closed \cup burning : ch <= starts
    /\ \A l \in leakers : l.start <= starts

(* An open channel is in one place: cpuCancel or one caller about to close *)
(* it.                                                                     *)
ChannelsOwned ==
    /\ cpuCancel \notin closed
    /\ \A p \in Callers : calls[p].chan # 0 =>
          /\ calls[p].at = "close"
          /\ calls[p].chan \notin closed
          /\ calls[p].chan # cpuCancel
          /\ \A q \in Callers \ {p} : calls[q].chan # calls[p].chan

(* The number of an activation that is still being started is known to     *)
(* nobody but its caller, until the caller stores its channel.             *)
StartsOwned ==
    \A p \in Callers :
        /\ calls[p].at \in {"install", "launch"} => calls[p].start # 0
        /\ calls[p].start # 0 =>
              /\ calls[p].at # "idle"
              /\ \A q \in Callers \ {p} : calls[q].start # calls[p].start
              /\ \A l \in leakers : l.start # calls[p].start
              /\ calls[p].at # "launch" =>
                    /\ calls[p].start # cpuCancel
                    /\ calls[p].start \notin closed
                    /\ \A q \in Callers : calls[q].chan # calls[p].start

(* Each activation has one leaker.                                         *)
LeakersApart == \A l, m \in leakers : l.start = m.start => l = m

(* What ResidueBounded needs to be inductive: a leaker still to append     *)
(* after the release has no chunk in the ballast yet.                      *)
Residue ==
    "memory_leak" \in Kinds /\ entry["memory_leak"] = "off" /\ ~Releasing =>
        /\ \A n \in 1 .. MaxStarts : ballast[n] <= 1
        /\ \A l \in leakers : l.at = "append" => ballast[l.start] = 0

EInv == TypeOK /\ Numbered /\ ChannelsOwned /\ StartsOwned /\ LeakersApart /\ Residue

-----------------------------------------------------------------------------
(* What a step of a caller does to its call, field by field, and that it   *)
(* leaves the other calls alone.                                           *)
To(p, n, c, a) ==
    /\ calls'[p].start = n
    /\ calls'[p].chan = c
    /\ calls'[p].at = a
    /\ \A q \in Callers \ {p} : calls'[q] = calls[q]

(* Each call step moves its own call as the code does, fields one by one.  *)
LEMMA CallFields ==
    ASSUME TypeOK, NEW p \in Callers
    PROVE  /\ \A k \in Kinds : Enable(p, k) => To(p, starts + 1, 0, FirstStep(k)) /\ calls'[p].kind = k
           /\ \A k \in Kinds : Disable(p, k) => To(p, 0, 0, StopStep(k))
           /\ TakeCancel(p)  => To(p, calls[p].start, cpuCancel, "close")
           /\ CloseCancel(p) => To(p, calls[p].start, 0,
                                   IF calls[p].start = 0 THEN "idle" ELSE "install")
           /\ Install(p)     => To(p, calls[p].start, calls[p].chan, "launch")
           /\ Launch(p)      => To(p, 0, 0, "idle")
           /\ Release(p)     => To(p, 0, 0, "idle")
           /\ \A k \in Kinds : Disable(p, k) => calls'[p].at = "idle" \/ calls'[p].kind = k
           /\ CallStep(p) => calls'[p].at = "idle" \/ calls'[p].kind = calls[p].kind
<1>1. calls \in [Callers -> Call] /\ calls[p] \in Call
    BY DEF TypeOK
<1>2. Idle.start = 0 /\ Idle.chan = 0 /\ Idle.at = "idle"
    BY DEF Idle
<1>3. ASSUME NEW k \in Kinds, Enable(p, k)
      PROVE  To(p, starts + 1, 0, FirstStep(k)) /\ calls'[p].kind = k
    BY <1>1, <1>3 DEF Enable, To
<1>4. ASSUME NEW k \in Kinds, Disable(p, k)
      PROVE  To(p, 0, 0, StopStep(k)) /\ (calls'[p].at = "idle" \/ calls'[p].kind = k)
    BY <1>1, <1>2, <1>4 DEF Disable, To
<1>5. ASSUME TakeCancel(p)
      PROVE  To(p, calls[p].start, cpuCancel, "close") /\ calls'[p].kind = calls[p].kind
    BY <1>1, <1>5 DEF TakeCancel, To, Call
<1>6. ASSUME CloseCancel(p)
      PROVE  /\ To(p, calls[p].start, 0, IF calls[p].start = 0 THEN "idle" ELSE "install")
             /\ calls'[p].at = "idle" \/ calls'[p].kind = calls[p].kind
    <2>1. CASE calls[p].start = 0
        BY <1>1, <1>2, <1>6, <2>1 DEF CloseCancel, To
    <2>2. CASE calls[p].start # 0
        BY <1>1, <1>6, <2>2 DEF CloseCancel, To, Call
    <2>3. QED
        BY <2>1, <2>2
<1>7. ASSUME Install(p)
      PROVE  To(p, calls[p].start, calls[p].chan, "launch") /\ calls'[p].kind = calls[p].kind
    BY <1>1, <1>7 DEF Install, To, Call
<1>8. ASSUME Launch(p) PROVE To(p, 0, 0, "idle")
    BY <1>1, <1>2, <1>8 DEF Launch, To
<1>9. ASSUME Release(p) PROVE To(p, 0, 0, "idle")
    BY <1>1, <1>2, <1>9 DEF Release, To
<1>10. QED
    BY <1>3, <1>4, <1>5, <1>6, <1>7, <1>8, <1>9 DEF CallStep, To

-----------------------------------------------------------------------------
(* A call that begins is noted with the starts it overlaps, and they with  *)
(* it.                                                                     *)
LEMMA CrossingGrows ==
    ASSUME TypeOK, NEW c \in {"enable", "disable"}, NEW n
    PROVE  /\ Crossing(c, n) \in [1 .. MaxStarts -> SUBSET {"enable", "disable"}]
           /\ \A m \in 1 .. MaxStarts : crossed[m] \subseteq Crossing(c, n)[m]
           /\ \A p \in Stressing : calls[p].start \in 1 .. MaxStarts => c \in Crossing(c, n)[calls[p].start]
           /\ n \in 1 .. MaxStarts => \A p \in Stressing : CallKind(p) \in Crossing(c, n)[n]
<1>1. \A m \in 1 .. MaxStarts : crossed[m] \subseteq {"enable", "disable"}
    BY DEF TypeOK
<1>2. \A p \in Callers : CallKind(p) \in {"enable", "disable"}
    BY DEF CallKind
<1>3. QED
    BY <1>1, <1>2 DEF Crossing, Stressing

-----------------------------------------------------------------------------
(* Type correctness: every reachable value of every variable is one the    *)
(* code's types allow; in particular a leaker always has a chunk to go,    *)
(* and the goroutines carry the number of an activation.                   *)
LEMMA TypeStep == TypeOK /\ StartsOwned /\ [Next]_vars => TypeOK'
<1> SUFFICES ASSUME TypeOK, StartsOwned, [Next]_vars PROVE TypeOK'
    OBVIOUS
<1> USE EffectsAssumption
<1>a. Idle \in Call
    BY DEF Idle, Call, AllKinds
<1>1. ASSUME NEW k \in Kinds, Expire(k) PROVE TypeOK'
    BY <1>1 DEF Expire, TypeOK, effects
<1>2. ASSUME NEW k \in Kinds, NEW p \in Callers, Enable(p, k) PROVE TypeOK'
    <2>1. [kind |-> k, start |-> starts + 1, chan |-> 0, at |-> FirstStep(k)] \in Call
        BY DEF TypeOK, Call, FirstStep
    <2>2. calls' \in [Callers -> Call]
        BY <1>2, <2>1 DEF Enable, TypeOK
    <2>3. crossed' \in [1 .. MaxStarts -> SUBSET {"enable", "disable"}]
        BY <1>2, CrossingGrows DEF Enable, TypeOK
    <2>4. QED
        BY <1>2, <2>2, <2>3 DEF Enable, TypeOK, effects
<1>3. ASSUME NEW k \in Kinds, NEW p \in Callers, Disable(p, k) PROVE TypeOK'
    <2>1. StopStep(k) # "idle" =>
              [kind |-> k, start |-> 0, chan |-> 0, at |-> StopStep(k)] \in Call
        BY DEF Call, StopStep
    <2>2. calls' \in [Callers -> Call]
        BY <1>a, <1>3, <2>1 DEF Disable, TypeOK
    <2>3. crossed' \in [1 .. MaxStarts -> SUBSET {"enable", "disable"}]
        BY <1>3, CrossingGrows DEF Disable, TypeOK
    <2>4. QED
        BY <1>3, <2>2, <2>3 DEF Disable, TypeOK, effects
<1>4. ASSUME NEW p \in Callers, TakeCancel(p) PROVE TypeOK'
    <2>1. calls' \in [Callers -> Call]
        BY <1>4 DEF TakeCancel, TypeOK, Call
    <2>2. QED
        BY <1>4, <2>1 DEF TakeCancel, TypeOK, effects
<1>5. ASSUME NEW p \in Callers, CloseCancel(p) PROVE TypeOK'
    <2>1. [calls[p] EXCEPT !.chan = 0, !.at = "install"] \in Call
        BY DEF TypeOK, Call
    <2>2. calls' \in [Callers -> Call]
        BY <1>a, <1>5, <2>1 DEF CloseCancel, TypeOK
    <2>3. closed' \subseteq Nat \ {0}
        BY <1>5 DEF CloseCancel, TypeOK, Call
    <2>4. QED
        BY <1>5, <2>2, <2>3 DEF CloseCancel, TypeOK, effects
<1>6. ASSUME NEW p \in Callers, Install(p) PROVE TypeOK'
    <2>1. calls' \in [Callers -> Call] /\ cpuCancel' \in Nat
        BY <1>6 DEF Install, TypeOK, Call
    <2>2. QED
        BY <1>6, <2>1 DEF Install, TypeOK, effects
<1>7. ASSUME NEW p \in Callers, Launch(p) PROVE TypeOK'
    <2> DEFINE n == calls[p].start
               k == calls[p].kind
    <2>1. n \in Nat \ {0}
        BY <1>7 DEF Launch, TypeOK, StartsOwned, Call
    <2>2. [start |-> n, left |-> Chunks, at |-> "check"] \in Leaker
        BY <2>1 DEF Leaker
    <2>3. k \in {"log_storm", "novel_log"} =>
              [start |-> n, kind |-> k, left |-> Lines, checked |-> FALSE] \in Writer
        BY <2>1 DEF Writer
    <2>4. calls' \in [Callers -> Call]
        BY <1>a, <1>7 DEF Launch, TypeOK
    <2>5. leakers' \subseteq Leaker /\ writers' \subseteq Writer
        BY <1>7, <2>2, <2>3 DEF Launch, TypeOK
    <2>6. burning' \subseteq Nat \ {0} /\ crashes' \subseteq Nat \ {0}
        BY <1>7, <2>1 DEF Launch, TypeOK
    <2>7. QED
        BY <1>7, <2>4, <2>5, <2>6 DEF Launch, TypeOK
<1>8. ASSUME NEW p \in Callers, Release(p) PROVE TypeOK'
    <2>1. calls' \in [Callers -> Call]
        BY <1>a, <1>8 DEF Release, TypeOK
    <2>2. QED
        BY <1>8, <2>1 DEF Release, TypeOK
<1>9. ASSUME NEW ch \in burning, BurnersStop(ch) PROVE TypeOK'
    BY <1>9 DEF BurnersStop, TypeOK
<1>10. ASSUME NEW l \in leakers, LeakCheck(l) PROVE TypeOK'
    <2>1. [l EXCEPT !.at = "append"] \in Leaker
        BY DEF TypeOK, Leaker
    <2>2. leakers' \subseteq Leaker
        BY <1>10, <2>1 DEF LeakCheck, TypeOK
    <2>3. QED
        BY <1>10, <2>2 DEF LeakCheck, TypeOK
<1>11. ASSUME NEW l \in leakers, LeakAppend(l) PROVE TypeOK'
    <2>1. l.left # 1 => [l EXCEPT !.at = "check", !.left = l.left - 1] \in Leaker
        <3>1. l \in Leaker /\ l.left \in Nat \ {0}
            BY DEF TypeOK, Leaker
        <3>2. l.left # 1 => l.left - 1 \in Nat \ {0}
            BY <3>1
        <3>3. QED
            BY <3>1, <3>2 DEF Leaker
    <2>2. leakers' \subseteq Leaker
        BY <1>11, <2>1 DEF LeakAppend, TypeOK
    <2>3. ballast' \in [1 .. MaxStarts -> Nat]
        <3>1. l.start \in 1 .. MaxStarts => ballast[l.start] + 1 \in Nat
            BY DEF TypeOK
        <3>2. ballast' = [ballast EXCEPT ![l.start] = ballast[l.start] + 1]
            BY <1>11 DEF LeakAppend
        <3>3. QED
            BY <3>1, <3>2 DEF TypeOK
    <2>4. QED
        BY <1>11, <2>2, <2>3 DEF LeakAppend, TypeOK
<1>12. ASSUME NEW w \in writers, NovelCheck(w) PROVE TypeOK'
    <2>1. [w EXCEPT !.checked = TRUE] \in Writer
        BY DEF TypeOK, Writer
    <2>2. writers' \subseteq Writer
        BY <1>12, <2>1 DEF NovelCheck, TypeOK
    <2>3. QED
        BY <1>12, <2>2 DEF NovelCheck, TypeOK
<1>13. ASSUME NEW w \in writers, WriteLine(w) PROVE TypeOK'
    <2>1. [w EXCEPT !.left = w.left - 1, !.checked = FALSE] \in Writer
        <3>1. w \in Writer /\ w.left \in Nat /\ w.left > 0
            BY <1>13 DEF WriteLine, TypeOK, Writer
        <3>2. w.left - 1 \in Nat
            BY <3>1
        <3>3. QED
            BY <3>1, <3>2 DEF Writer
    <2>2. writers' \subseteq Writer
        BY <1>13, <2>1 DEF WriteLine, TypeOK
    <2>3. QED
        BY <1>13, <2>2 DEF WriteLine, TypeOK
<1>14. ASSUME NEW w \in writers, WriterDeadline(w) PROVE TypeOK'
    BY <1>14 DEF WriterDeadline, TypeOK
<1>15. ASSUME NEW n \in crashes, Exit(n) PROVE TypeOK'
    BY <1>15 DEF Exit, TypeOK
<1>16. ASSUME UNCHANGED vars PROVE TypeOK'
    BY <1>16 DEF vars, TypeOK
<1>17. QED
    BY <1>1, <1>2, <1>3, <1>4, <1>5, <1>6, <1>7, <1>8, <1>9, <1>10, <1>11, <1>12,
       <1>13, <1>14, <1>15, <1>16 DEF Next, CallStep, Effect

-----------------------------------------------------------------------------
(* The goroutines leave the calls, the channels and the numbering alone,   *)
(* and a leaker stays the leaker of its activation.                        *)
LEMMA EffectFrame ==
    ASSUME TypeOK, Effect \/ (\E k \in Kinds : Expire(k)) \/ UNCHANGED vars
    PROVE  /\ UNCHANGED <<calls, cpuCancel, closed, starts>>
           /\ burning' \subseteq burning
           /\ \A m \in leakers' : \E l \in leakers : m.start = l.start
<1>1. UNCHANGED <<calls, cpuCancel, closed, starts>>
    BY DEF Effect, BurnersStop, LeakCheck, LeakAppend, NovelCheck, WriteLine,
           WriterDeadline, Exit, Expire, effects, vars
<1>2. burning' \subseteq burning
    BY DEF Effect, BurnersStop, LeakCheck, LeakAppend, NovelCheck, WriteLine,
           WriterDeadline, Exit, Expire, effects, vars
<1>3. ASSUME NEW l \in leakers, LeakCheck(l) \/ LeakAppend(l)
      PROVE  \A m \in leakers' : \E x \in leakers : m.start = x.start
    <2>1. /\ [l EXCEPT !.at = "append"].start = l.start
          /\ [l EXCEPT !.at = "check", !.left = l.left - 1].start = l.start
        BY DEF TypeOK, Leaker
    <2>2. QED
        BY <1>3, <2>1 DEF LeakCheck, LeakAppend
<1>4. CASE ~\E l \in leakers : LeakCheck(l) \/ LeakAppend(l)
    <2>1. leakers' = leakers
        BY <1>4 DEF Effect, BurnersStop, NovelCheck, WriteLine, WriterDeadline, Exit,
                    Expire, effects, vars
    <2>2. QED
        BY <1>1, <1>2, <2>1
<1>5. QED
    BY <1>1, <1>2, <1>3, <1>4

(* No number in use is later than the last activation's.                   *)
LEMMA NumberedStep == TypeOK /\ Numbered /\ [Next]_vars => Numbered'
<1> SUFFICES ASSUME TypeOK, Numbered, [Next]_vars PROVE Numbered'
    OBVIOUS
<1> USE EffectsAssumption
<1>a. /\ starts \in Nat /\ cpuCancel \in Nat
      /\ \A p \in Callers : calls[p].start \in Nat /\ calls[p].chan \in Nat
      /\ \A ch \in closed \cup burning : ch \in Nat
      /\ \A l \in leakers : l.start \in Nat
    BY DEF TypeOK, Call, Leaker
<1>1. ASSUME NEW k \in Kinds, NEW p \in Callers, Enable(p, k) PROVE Numbered'
    <2>1. To(p, starts + 1, 0, FirstStep(k))
        BY <1>1, CallFields
    <2>2. /\ starts' = starts + 1 /\ starts < MaxStarts
          /\ UNCHANGED <<cpuCancel, closed, burning, leakers>>
        BY <1>1 DEF Enable, effects
    <2>3. QED
        BY <1>a, <2>1, <2>2 DEF Numbered, To
<1>2. ASSUME NEW k \in Kinds, NEW p \in Callers, Disable(p, k) PROVE Numbered'
    <2>1. To(p, 0, 0, StopStep(k))
        BY <1>2, CallFields
    <2>2. UNCHANGED <<starts, cpuCancel, closed, burning, leakers>>
        BY <1>2 DEF Disable, effects
    <2>3. QED
        BY <1>a, <2>1, <2>2 DEF Numbered, To
<1>3. ASSUME NEW p \in Callers, TakeCancel(p) PROVE Numbered'
    <2>1. To(p, calls[p].start, cpuCancel, "close")
        BY <1>3, CallFields
    <2>2. cpuCancel' = 0 /\ UNCHANGED <<starts, closed, burning, leakers>>
        BY <1>3 DEF TakeCancel, effects
    <2>3. QED
        BY <1>a, <2>1, <2>2 DEF Numbered, To
<1>4. ASSUME NEW p \in Callers, CloseCancel(p) PROVE Numbered'
    <2>1. To(p, calls[p].start, 0, IF calls[p].start = 0 THEN "idle" ELSE "install")
        BY <1>4, CallFields
    <2>2. /\ closed' = closed \cup ({calls[p].chan} \ {0})
          /\ UNCHANGED <<starts, cpuCancel, burning, leakers>>
        BY <1>4 DEF CloseCancel, effects
    <2>3. QED
        BY <1>a, <2>1, <2>2 DEF Numbered, To
<1>5. ASSUME NEW p \in Callers, Install(p) PROVE Numbered'
    <2>1. To(p, calls[p].start, calls[p].chan, "launch")
        BY <1>5, CallFields
    <2>2. cpuCancel' = calls[p].start /\ UNCHANGED <<starts, closed, burning, leakers>>
        BY <1>5 DEF Install, effects
    <2>3. QED
        BY <1>a, <2>1, <2>2 DEF Numbered, To
<1>6. ASSUME NEW p \in Callers, Launch(p) PROVE Numbered'
    <2>1. To(p, 0, 0, "idle")
        BY <1>6, CallFields
    <2>2. /\ UNCHANGED <<starts, cpuCancel, closed>>
          /\ \A ch \in burning' : ch \in burning \/ ch = calls[p].start
          /\ \A l \in leakers' : l \in leakers \/ l.start = calls[p].start
        BY <1>6 DEF Launch
    <2>3. QED
        BY <1>a, <2>1, <2>2 DEF Numbered, To
<1>7. ASSUME NEW p \in Callers, Release(p) PROVE Numbered'
    <2>1. To(p, 0, 0, "idle")
        BY <1>7, CallFields
    <2>2. UNCHANGED <<starts, cpuCancel, closed, burning, leakers>>
        BY <1>7 DEF Release
    <2>3. QED
        BY <1>a, <2>1, <2>2 DEF Numbered, To
<1>8. CASE Effect \/ (\E k \in Kinds : Expire(k)) \/ UNCHANGED vars
    BY <1>a, <1>8, EffectFrame DEF Numbered
<1>9. QED
    BY <1>1, <1>2, <1>3, <1>4, <1>5, <1>6, <1>7, <1>8 DEF Next, CallStep

(* An open channel stays in one place.  The two moves that could break it  *)
(* are the swap in stopCPUStress, which empties cpuCancel as it fills the  *)
(* caller's variable, and the store in startCPUStress, whose channel       *)
(* nobody else has seen.                                                   *)
LEMMA ChannelsStep ==
    TypeOK /\ StartsOwned /\ ChannelsOwned /\ [Next]_vars => ChannelsOwned'
<1> SUFFICES ASSUME TypeOK, StartsOwned, ChannelsOwned, [Next]_vars PROVE ChannelsOwned'
    OBVIOUS
<1>a. cpuCancel \notin closed /\ 0 \notin closed
    BY DEF ChannelsOwned, TypeOK
<1>1. ASSUME NEW k \in Kinds, NEW p \in Callers, Enable(p, k) PROVE ChannelsOwned'
    <2>1. To(p, starts + 1, 0, FirstStep(k))
        BY <1>1, CallFields
    <2>2. UNCHANGED <<cpuCancel, closed>>
        BY <1>1 DEF Enable
    <2>3. QED
        BY <2>1, <2>2 DEF ChannelsOwned, To
<1>2. ASSUME NEW k \in Kinds, NEW p \in Callers, Disable(p, k) PROVE ChannelsOwned'
    <2>1. To(p, 0, 0, StopStep(k))
        BY <1>2, CallFields
    <2>2. UNCHANGED <<cpuCancel, closed>>
        BY <1>2 DEF Disable
    <2>3. QED
        BY <2>1, <2>2 DEF ChannelsOwned, To
<1>3. ASSUME NEW p \in Callers, TakeCancel(p) PROVE ChannelsOwned'
    <2>1. To(p, calls[p].start, cpuCancel, "close")
        BY <1>3, CallFields
    <2>2. cpuCancel' = 0 /\ UNCHANGED closed
        BY <1>3 DEF TakeCancel
    <2>3. QED
        BY <1>a, <2>1, <2>2 DEF ChannelsOwned, To
<1>4. ASSUME NEW p \in Callers, CloseCancel(p) PROVE ChannelsOwned'
    <2>1. To(p, calls[p].start, 0, IF calls[p].start = 0 THEN "idle" ELSE "install")
        BY <1>4, CallFields
    <2>2. closed' = closed \cup ({calls[p].chan} \ {0}) /\ UNCHANGED cpuCancel
        BY <1>4 DEF CloseCancel
    <2>3. QED
        BY <2>1, <2>2 DEF ChannelsOwned, To
<1>5. ASSUME NEW p \in Callers, Install(p) PROVE ChannelsOwned'
    <2>1. To(p, calls[p].start, calls[p].chan, "launch")
        BY <1>5, CallFields
    <2>2. cpuCancel' = calls[p].start /\ UNCHANGED closed /\ calls[p].at = "install"
        BY <1>5 DEF Install
    <2>3. /\ calls[p].start \notin closed
          /\ \A q \in Callers : calls[q].chan # calls[p].start
        BY <2>2 DEF StartsOwned
    <2>4. QED
        BY <2>1, <2>2, <2>3 DEF ChannelsOwned, To
<1>6. ASSUME NEW p \in Callers, Launch(p) \/ Release(p) PROVE ChannelsOwned'
    <2>1. To(p, 0, 0, "idle")
        BY <1>6, CallFields
    <2>2. UNCHANGED <<cpuCancel, closed>>
        BY <1>6 DEF Launch, Release
    <2>3. QED
        BY <2>1, <2>2 DEF ChannelsOwned, To
<1>7. CASE Effect \/ (\E k \in Kinds : Expire(k)) \/ UNCHANGED vars
    BY <1>7, EffectFrame DEF ChannelsOwned
<1>8. QED
    BY <1>1, <1>2, <1>3, <1>4, <1>5, <1>6, <1>7 DEF Next, CallStep

(* An activation's number stays its caller's until its channel is stored   *)
(* and its goroutines are launched.                                        *)
LEMMA StartsStep ==
    TypeOK /\ Numbered /\ StartsOwned /\ ChannelsOwned /\ [Next]_vars => StartsOwned'
<1> SUFFICES ASSUME TypeOK, Numbered, StartsOwned, ChannelsOwned, [Next]_vars
             PROVE  StartsOwned'
    OBVIOUS
<1>a. /\ starts \in Nat /\ cpuCancel \in Nat /\ 0 \notin closed
      /\ \A p \in Callers : calls[p].start \in Nat /\ calls[p].chan \in Nat
      /\ \A ch \in closed : ch \in Nat
      /\ \A l \in leakers : l.start \in Nat \ {0}
    BY DEF TypeOK, Call, Leaker
<1>1. ASSUME NEW k \in Kinds, NEW p \in Callers, Enable(p, k) PROVE StartsOwned'
    <2>1. To(p, starts + 1, 0, FirstStep(k)) /\ FirstStep(k) \in {"take", "launch"}
        BY <1>1, CallFields DEF FirstStep
    <2>2. UNCHANGED <<cpuCancel, closed, leakers>>
        BY <1>1 DEF Enable, effects
    <2>3. /\ starts + 1 # 0 /\ starts + 1 # cpuCancel /\ starts + 1 \notin closed
          /\ \A q \in Callers : calls[q].start # starts + 1 /\ calls[q].chan # starts + 1
          /\ \A l \in leakers : l.start # starts + 1
        BY <1>a DEF Numbered
    <2>4. QED
        BY <1>a, <2>1, <2>2, <2>3 DEF StartsOwned, To
<1>2. ASSUME NEW k \in Kinds, NEW p \in Callers, Disable(p, k) PROVE StartsOwned'
    <2>1. To(p, 0, 0, StopStep(k)) /\ StopStep(k) \notin {"install", "launch"}
        BY <1>2, CallFields DEF StopStep
    <2>2. UNCHANGED <<cpuCancel, closed, leakers>>
        BY <1>2 DEF Disable, effects
    <2>3. QED
        BY <2>1, <2>2 DEF StartsOwned, To
<1>3. ASSUME NEW p \in Callers, TakeCancel(p) PROVE StartsOwned'
    <2>1. To(p, calls[p].start, cpuCancel, "close") /\ calls[p].at = "take"
        BY <1>3, CallFields DEF TakeCancel
    <2>2. cpuCancel' = 0 /\ UNCHANGED <<closed, leakers>>
        BY <1>3 DEF TakeCancel, effects
    <2>3. QED
        BY <2>1, <2>2 DEF StartsOwned, To
<1>4. ASSUME NEW p \in Callers, CloseCancel(p) PROVE StartsOwned'
    <2>1. /\ To(p, calls[p].start, 0, IF calls[p].start = 0 THEN "idle" ELSE "install")
          /\ calls[p].at = "close"
        BY <1>4, CallFields DEF CloseCancel
    <2>2. /\ closed' = closed \cup ({calls[p].chan} \ {0})
          /\ UNCHANGED <<cpuCancel, leakers>>
        BY <1>4 DEF CloseCancel, effects
    <2>3. QED
        BY <2>1, <2>2 DEF StartsOwned, To
<1>5. ASSUME NEW p \in Callers, Install(p) PROVE StartsOwned'
    <2>1. To(p, calls[p].start, calls[p].chan, "launch") /\ calls[p].at = "install"
        BY <1>5, CallFields DEF Install
    <2>2. cpuCancel' = calls[p].start /\ UNCHANGED <<closed, leakers>>
        BY <1>5 DEF Install, effects
    <2>3. QED
        BY <2>1, <2>2 DEF StartsOwned, To
<1>6. ASSUME NEW p \in Callers, Launch(p) PROVE StartsOwned'
    <2>1. To(p, 0, 0, "idle") /\ calls[p].at = "launch"
        BY <1>6, CallFields DEF Launch
    <2>2. /\ UNCHANGED <<cpuCancel, closed>>
          /\ \A l \in leakers' : l \in leakers \/ l.start = calls[p].start
        BY <1>6 DEF Launch
    <2>3. QED
        BY <2>1, <2>2 DEF StartsOwned, To
<1>7. ASSUME NEW p \in Callers, Release(p) PROVE StartsOwned'
    <2>1. To(p, 0, 0, "idle")
        BY <1>7, CallFields
    <2>2. UNCHANGED <<cpuCancel, closed, leakers>>
        BY <1>7 DEF Release
    <2>3. QED
        BY <2>1, <2>2 DEF StartsOwned, To
<1>8. CASE Effect \/ (\E k \in Kinds : Expire(k)) \/ UNCHANGED vars
    BY <1>8, EffectFrame DEF StartsOwned
<1>9. QED
    BY <1>1, <1>2, <1>3, <1>4, <1>5, <1>6, <1>7, <1>8 DEF Next, CallStep

(* An activation never gets a second leaker: the one step that adds a      *)
(* leaker uses up its number.                                              *)
LEMMA ApartStep == TypeOK /\ StartsOwned /\ LeakersApart /\ [Next]_vars => LeakersApart'
<1> SUFFICES ASSUME TypeOK, StartsOwned, LeakersApart, [Next]_vars PROVE LeakersApart'
    OBVIOUS
<1>1. ASSUME NEW p \in Callers, Launch(p) PROVE LeakersApart'
    <2> DEFINE new == [start |-> calls[p].start, left |-> Chunks, at |-> "check"]
    <2>1. /\ leakers' = leakers \/ leakers' = leakers \cup {new}
          /\ calls[p].at = "launch"
        BY <1>1 DEF Launch
    <2>2. new.start = calls[p].start
        OBVIOUS
    <2>3. \A l \in leakers : l.start # new.start
        BY <2>1, <2>2 DEF StartsOwned
    <2> HIDE DEF new
    <2>4. QED
        BY <2>1, <2>3 DEF LeakersApart
<1>2. ASSUME NEW l \in leakers, LeakCheck(l) \/ LeakAppend(l) PROVE LeakersApart'
    <2>1. PICK m : m.start = l.start /\ leakers' \subseteq (leakers \ {l}) \cup {m}
        <3>1. /\ [l EXCEPT !.at = "append"].start = l.start
              /\ [l EXCEPT !.at = "check", !.left = l.left - 1].start = l.start
            BY DEF TypeOK, Leaker
        <3>2. QED
            BY <1>2, <3>1 DEF LeakCheck, LeakAppend
    <2>2. QED
        BY <2>1 DEF LeakersApart
<1>3. ASSUME \A p \in Callers : ~Launch(p),
             \A l \in leakers : ~LeakCheck(l) /\ ~LeakAppend(l)
      PROVE  LeakersApart'
    <2>1. \A p \in Callers, k \in Kinds : Enable(p, k) \/ Disable(p, k) => leakers' = leakers
        BY DEF Enable, Disable, effects
    <2>2. \A p \in Callers : CallStep(p) => leakers' = leakers
        BY <1>3 DEF CallStep, TakeCancel, CloseCancel, Install, Release, effects
    <2>3. Effect => leakers' = leakers
        BY <1>3 DEF Effect, BurnersStop, NovelCheck, WriteLine, WriterDeadline, Exit
    <2>4. (\E k \in Kinds : Expire(k)) \/ UNCHANGED vars => leakers' = leakers
        BY DEF Expire, effects, vars
    <2>5. leakers' = leakers
        BY <2>1, <2>2, <2>3, <2>4 DEF Next
    <2>6. QED
        BY <2>5 DEF LeakersApart
<1>4. QED
    BY <1>1, <1>2, <1>3

(* What a leaker leaves after the release is one chunk.                    *)
LEMMA ResidueStep ==
    TypeOK /\ Numbered /\ LeakersApart /\ Residue /\ [Next]_vars => Residue'
<1> SUFFICES ASSUME TypeOK, Numbered, LeakersApart, Residue, [Next]_vars,
                    "memory_leak" \in Kinds, (entry["memory_leak"] = "off")', ~Releasing'
             PROVE  /\ \A n \in 1 .. MaxStarts : ballast'[n] <= 1
                    /\ \A l \in leakers' : l.at = "append" => ballast'[l.start] = 0
    BY DEF Residue
<1> USE EffectsAssumption
<1> DEFINE Small == /\ \A n \in 1 .. MaxStarts : ballast[n] <= 1
                    /\ \A l \in leakers : l.at = "append" => ballast[l.start] = 0
<1>a. entry["memory_leak"] = "off" /\ ~Releasing => Small
    BY DEF Residue
<1>b. /\ \A l \in leakers : l \in Leaker /\ l.start \in 1 .. MaxStarts
      /\ ballast \in [1 .. MaxStarts -> Nat]
      /\ entry \in [Kinds -> {"off", "on", "over"}]
    BY DEF TypeOK, Leaker, Numbered
<1>1. ASSUME NEW k \in Kinds, NEW p \in Callers, Enable(p, k) PROVE Small /\ UNCHANGED <<leakers, ballast>>
    <2>1. To(p, starts + 1, 0, FirstStep(k)) /\ calls[p].at = "idle" /\ k # "memory_leak"
        BY <1>1, <1>b, CallFields DEF Enable
    <2>2. entry["memory_leak"] = "off" /\ ~Releasing
        BY <1>1, <1>b, <2>1 DEF Enable, To, Releasing
    <2>3. QED
        BY <1>1, <1>a, <2>2 DEF Enable, effects
<1>2. ASSUME NEW k \in Kinds, NEW p \in Callers, Disable(p, k) PROVE Small /\ UNCHANGED <<leakers, ballast>>
    <2>1. To(p, 0, 0, StopStep(k)) /\ calls[p].at = "idle"
        BY <1>2, CallFields DEF Disable
    <2>2. k # "memory_leak" /\ ~Releasing
        BY <2>1 DEF To, Releasing, StopStep
    <2>3. entry["memory_leak"] = "off"
        BY <1>2, <1>b, <2>2 DEF Disable
    <2>4. QED
        BY <1>2, <1>a, <2>2, <2>3 DEF Disable, effects
<1>3. ASSUME NEW p \in Callers, CallStep(p), ~Release(p)
      PROVE  /\ Small
             /\ ballast' = ballast
             /\ \A l \in leakers' : l \in leakers \/ l.at # "append"
    <2>1. entry' = entry
        BY <1>3 DEF CallStep, TakeCancel, CloseCancel, Install, Launch
    <2>2. calls[p].at # "release" /\ \A q \in Callers \ {p} : calls'[q] = calls[q]
        BY <1>3, CallFields DEF CallStep, To, TakeCancel, CloseCancel, Install, Launch
    <2>3. Small
        BY <1>a, <2>1, <2>2 DEF Releasing
    <2>4. CASE Launch(p)
        BY <2>3, <2>4 DEF Launch
    <2>5. CASE ~Launch(p)
        BY <1>3, <2>3, <2>5 DEF CallStep, TakeCancel, CloseCancel, Install, effects
    <2>6. QED
        BY <2>4, <2>5
<1>4. ASSUME NEW p \in Callers, Release(p)
      PROVE  ballast' = [n \in 1 .. MaxStarts |-> 0] /\ leakers' = leakers
    BY <1>4 DEF Release
<1>5. ASSUME Effect PROVE Small
    <2>1. UNCHANGED <<entry, calls>>
        BY <1>5 DEF Effect, BurnersStop, LeakCheck, LeakAppend, NovelCheck, WriteLine,
                    WriterDeadline, Exit
    <2>2. QED
        BY <1>a, <2>1 DEF Releasing
<1>6. ASSUME NEW l \in leakers, LeakCheck(l)
      PROVE  ballast' = ballast /\ leakers' \subseteq leakers
    <2>1. entry["memory_leak"] = "off"
        BY <1>6 DEF LeakCheck
    <2>2. QED
        BY <1>6, <2>1 DEF LeakCheck, IsActive
<1>7. ASSUME NEW l \in leakers, LeakAppend(l), Small
      PROVE  /\ \A n \in 1 .. MaxStarts : ballast'[n] <= 1
             /\ \A m \in leakers' : m.at = "append" => ballast'[m.start] = 0
    <2>1. l.at = "append" /\ ballast[l.start] = 0 /\ ballast' = [ballast EXCEPT ![l.start] = 1]
        <3>1. l.at = "append" /\ ballast[l.start] = 0
            BY <1>7 DEF LeakAppend
        <3>2. ballast' = [ballast EXCEPT ![l.start] = ballast[l.start] + 1]
            BY <1>7 DEF LeakAppend
        <3>3. QED
            BY <3>1, <3>2
    <2>2. \A m \in leakers' : m.at = "append" => m \in leakers \ {l}
        <3>1. [l EXCEPT !.at = "check", !.left = l.left - 1].at = "check"
            BY <1>b DEF Leaker
        <3>2. QED
            BY <1>7, <3>1 DEF LeakAppend
    <2>3. \A m \in leakers \ {l} : m.start # l.start
        BY DEF LeakersApart
    <2>4. QED
        BY <1>7, <1>b, <2>1, <2>2, <2>3
<1>8. ASSUME Effect, \A l \in leakers : ~LeakCheck(l) /\ ~LeakAppend(l)
      PROVE  UNCHANGED <<leakers, ballast>>
    BY <1>8 DEF Effect, BurnersStop, NovelCheck, WriteLine, WriterDeadline, Exit
<1>9. ASSUME (\E k \in Kinds : Expire(k)) \/ UNCHANGED vars
      PROVE  Small /\ UNCHANGED <<leakers, ballast>>
    <2>1. calls' = calls /\ UNCHANGED <<leakers, ballast>>
        BY <1>9 DEF Expire, effects, vars
    <2>2. entry["memory_leak"] = "off"
        BY <1>9, <1>b DEF Expire, IsActive, vars
    <2>3. QED
        BY <1>a, <2>1, <2>2 DEF Releasing
<1>10. QED
    <2>1. CASE Small /\ ballast' = ballast /\ \A l \in leakers' : l \in leakers \/ l.at # "append"
        BY <2>1
    <2>2. CASE \E p \in Callers : Release(p)
        BY <1>4, <1>b, <2>2
    <2>3. CASE \E l \in leakers : LeakAppend(l)
        BY <1>5, <1>7, <2>3 DEF Effect
    <2>4. QED
        BY <1>1, <1>2, <1>3, <1>5, <1>6, <1>8, <1>9, <2>1, <2>2, <2>3 DEF Next, CallStep, Effect

-----------------------------------------------------------------------------
(* Nothing runs at first, so the invariant holds.                          *)
LEMMA EInvInit == Init => EInv
<1> SUFFICES ASSUME Init PROVE EInv
    OBVIOUS
<1> USE EffectsAssumption
<1>1. Idle \in Call /\ Idle.start = 0 /\ Idle.chan = 0 /\ Idle.at = "idle"
    BY DEF Idle, Call, AllKinds
<1>2. calls \in [Callers -> Call] /\ \A p \in Callers : calls[p] = Idle
    BY <1>1 DEF Init
<1>3. TypeOK
    BY <1>2 DEF Init, TypeOK
<1>4. Numbered /\ ChannelsOwned /\ StartsOwned /\ LeakersApart
    BY <1>1, <1>2 DEF Init, Numbered, ChannelsOwned, StartsOwned, LeakersApart
<1>5. Residue
    BY DEF Init, Residue
<1>6. QED
    BY <1>3, <1>4, <1>5 DEF EInv

(* EInv is inductive, whatever the number of calls in flight.              *)
LEMMA EInvariant == Spec => []EInv
<1>1. EInv /\ [Next]_vars => EInv'
    BY TypeStep, NumberedStep, ChannelsStep, StartsStep, ApartStep, ResidueStep DEF EInv
<1>2. QED
    BY EInvInit, <1>1, PTL DEF Spec

(* Every value the code's goroutines reach is one its types allow; in      *)
(* particular a launched goroutine always carries an activation's number.  *)
THEOREM EffectsTypeCorrect == Spec => []TypeOK
<1>1. EInv => TypeOK
    BY DEF EInv
<1>2. QED
    BY <1>1, EInvariant, PTL

(* stopCPUStress never closes a channel twice, however many enables,       *)
(* timers, sweeps and DELETEs run at once: the swap under cpuMu gives each *)
(* channel to one closer.                                                  *)
THEOREM NoDoubleClose == Spec => []ClosedOnce
<1>1. EInv => ClosedOnce
    BY DEF EInv, ChannelsOwned, ClosedOnce
<1>2. QED
    BY <1>1, EInvariant, PTL

(* A leak that has been disabled and released holds at most one chunk of   *)
(* each activation until it is enabled again.                              *)
THEOREM LeakResidue == Spec => []ResidueBounded
<1>1. EInv => ResidueBounded
    BY DEF EInv, Residue, ResidueBounded
<1>2. QED
    BY <1>1, EInvariant, PTL

-----------------------------------------------------------------------------
(* The burners.  A channel is answered for when it is closed, in cpuCancel *)
(* or with a caller about to close it, or when its start overlapped        *)
(* another.                                                                *)
Held(ch) == ch = cpuCancel \/ \E p \in Callers : calls[p].chan = ch

Answered(ch) == ch \in closed \/ Held(ch) \/ "enable" \in crossed[ch]

Kinded ==
    \A p \in Callers : calls[p].at \in {"take", "close", "install"} => calls[p].kind = "cpu_stress"

(* Of two calls in flight a start knows of the other.                      *)
Paired ==
    \A p, q \in Stressing : p # q /\ calls[p].start # 0 => CallKind(q) \in crossed[calls[p].start]

(* What a start is about to overwrite is the channel of one that overlaps  *)
(* it: its own swap had emptied cpuCancel.                                 *)
NothingToLose ==
    \A p \in Callers :
        calls[p].start # 0 /\ calls[p].at \in {"close", "install"} /\ cpuCancel # 0
            => "enable" \in crossed[cpuCancel]

Launchable ==
    \A p \in Callers : calls[p].at = "launch" /\ calls[p].kind = "cpu_stress" =>
        Answered(calls[p].start)

Reached == \A ch \in burning : Answered(ch)

(* While burners are started and no other call is about, the fault is on;  *)
(* and when it goes off, the call that turns it off is on its way to the   *)
(* channel that is stored.                                                 *)
StillOn ==
    \A p \in Stressing : calls[p].start # 0 /\ crossed[calls[p].start] = {} => ~StressOff

StoredOn ==
    cpuCancel # 0 /\ crossed[cpuCancel] = {} /\ StressOff => \E p \in Callers : calls[p].at = "take"

BInv == Kinded /\ Paired /\ NothingToLose /\ Launchable /\ Reached /\ StillOn /\ StoredOn

(* What any step does to the history and to the activations in flight.     *)
Later ==
    /\ \A n \in 1 .. MaxStarts : crossed[n] \subseteq crossed'[n]
    /\ starts <= MaxStarts

LEMMA HistoryGrows == TypeOK /\ Numbered /\ [Next]_vars => Later
<1> SUFFICES ASSUME TypeOK, Numbered, [Next]_vars PROVE Later
    OBVIOUS
<1>1. ASSUME NEW k \in Kinds, NEW p \in Callers, Enable(p, k) \/ Disable(p, k)
      PROVE  \A n \in 1 .. MaxStarts : crossed[n] \subseteq crossed'[n]
    BY <1>1, CrossingGrows DEF Enable, Disable
<1>2. \/ \E k \in Kinds, p \in Callers : Enable(p, k) \/ Disable(p, k)
      \/ crossed' = crossed
    BY DEF Next, CallStep, Effect, Expire, TakeCancel, CloseCancel, Install, Launch, Release,
           BurnersStop, LeakCheck, LeakAppend, NovelCheck, WriteLine, WriterDeadline, Exit, vars
<1>3. QED
    BY <1>1, <1>2 DEF Later, Numbered

(* A number in use indexes the history.                                    *)
LEMMA InHistory ==
    ASSUME TypeOK, Numbered
    PROVE  /\ cpuCancel # 0 => cpuCancel \in 1 .. MaxStarts
           /\ \A p \in Callers : calls[p].start # 0 => calls[p].start \in 1 .. MaxStarts
           /\ burning \subseteq 1 .. MaxStarts
<1>1. starts \in Nat /\ cpuCancel \in Nat /\ MaxStarts \in Nat /\ burning \subseteq Nat \ {0}
    BY EffectsAssumption DEF TypeOK
<1>2. \A p \in Callers : calls[p].start \in Nat
    BY DEF TypeOK, Call
<1>3. QED
    BY <1>1, <1>2 DEF Numbered

(* A channel that is answered for remains so.                              *)
LEMMA AnsweredKept ==
    ASSUME TypeOK, Numbered, ChannelsOwned, StartsOwned, NothingToLose, [Next]_vars,
           NEW ch \in 1 .. MaxStarts, Answered(ch)
    PROVE  Answered(ch)'
<1>a. crossed[ch] \subseteq crossed'[ch] /\ ch # 0
    BY HistoryGrows DEF Later
<1>b. CASE "enable" \in crossed[ch]
    BY <1>a, <1>b DEF Answered
<1>c. SUFFICES ASSUME ch \in closed \/ Held(ch) PROVE Answered(ch)'
    BY <1>b DEF Answered
<1>1. ASSUME NEW k \in Kinds, NEW p \in Callers, Enable(p, k) \/ Disable(p, k)
      PROVE  ch \in closed' \/ Held(ch)'
    <2>1. \A q \in Callers \ {p} : calls'[q] = calls[q]
        BY <1>1, CallFields DEF To
    <2>2. calls[p].chan = 0 /\ UNCHANGED <<cpuCancel, closed>>
        BY <1>1 DEF Enable, Disable, ChannelsOwned
    <2>3. QED
        BY <1>a, <1>c, <2>1, <2>2 DEF Held
<1>2. ASSUME NEW p \in Callers, TakeCancel(p) PROVE ch \in closed' \/ Held(ch)'
    <2>1. To(p, calls[p].start, cpuCancel, "close") /\ calls[p].chan = 0 /\ UNCHANGED closed
        BY <1>2, CallFields DEF TakeCancel, ChannelsOwned
    <2>2. QED
        BY <1>a, <1>c, <2>1 DEF Held, To
<1>3. ASSUME NEW p \in Callers, CloseCancel(p) PROVE ch \in closed' \/ Held(ch)'
    <2>1. \A q \in Callers \ {p} : calls'[q] = calls[q]
        BY <1>3, CallFields DEF To
    <2>2. closed' = closed \cup ({calls[p].chan} \ {0}) /\ UNCHANGED cpuCancel
        BY <1>3 DEF CloseCancel
    <2>3. QED
        BY <1>a, <1>c, <2>1, <2>2 DEF Held
<1>4. ASSUME NEW p \in Callers, Install(p) PROVE Answered(ch)'
    <2>1. To(p, calls[p].start, calls[p].chan, "launch") /\ UNCHANGED closed
        BY <1>4, CallFields DEF Install
    <2>2. CASE cpuCancel = ch
        <3>1. calls[p].start # 0 /\ calls[p].at = "install"
            BY <1>4 DEF Install, StartsOwned
        <3>2. "enable" \in crossed[ch]
            BY <1>a, <2>2, <3>1 DEF NothingToLose
        <3>3. QED
            BY <1>a, <3>2 DEF Answered
    <2>3. CASE cpuCancel # ch
        <3>1. ch \in closed' \/ Held(ch)'
            BY <1>c, <2>1, <2>3 DEF Held, To
        <3>2. QED
            BY <3>1 DEF Answered
    <2>4. QED
        BY <2>2, <2>3
<1>5. ASSUME NEW p \in Callers, Launch(p) \/ Release(p) PROVE ch \in closed' \/ Held(ch)'
    <2>1. \A q \in Callers \ {p} : calls'[q] = calls[q]
        BY <1>5, CallFields DEF To
    <2>2. calls[p].chan = 0 /\ UNCHANGED <<cpuCancel, closed>>
        BY <1>5 DEF Launch, Release, ChannelsOwned
    <2>3. QED
        BY <1>a, <1>c, <2>1, <2>2 DEF Held
<1>6. CASE Effect \/ (\E k \in Kinds : Expire(k)) \/ UNCHANGED vars
    <2>1. ch \in closed' \/ Held(ch)'
        BY <1>c, <1>6, EffectFrame DEF Held
    <2>2. QED
        BY <2>1 DEF Answered
<1>7. QED
    BY <1>1, <1>2, <1>3, <1>4, <1>5, <1>6 DEF Next, CallStep, Answered

-----------------------------------------------------------------------------
(* A step of a caller moves its call along or begins one; the others stay. *)
Begins(p) == \E k \in Kinds : Enable(p, k) \/ Disable(p, k)

LEMMA OneCallMoves ==
    ASSUME TypeOK, [Next]_vars
    PROVE  \/ \E p \in Callers : Begins(p)
           \/ \E p \in Callers : CallStep(p) /\ UNCHANGED <<entry, crossed>>
           \/ /\ UNCHANGED <<calls, cpuCancel, closed, starts, crossed>>
              /\ StressOff' => StressOff
<1>1. CASE \E p \in Callers : CallStep(p)
    BY <1>1 DEF CallStep, TakeCancel, CloseCancel, Install, Launch, Release
<1>2. CASE Effect \/ UNCHANGED vars
    <2>1. UNCHANGED <<entry, crossed>>
        BY <1>2 DEF Effect, BurnersStop, LeakCheck, LeakAppend, NovelCheck, WriteLine,
                    WriterDeadline, Exit, vars
    <2>2. QED
        BY <1>2, <2>1, EffectFrame DEF StressOff
<1>3. ASSUME NEW k \in Kinds, Expire(k)
      PROVE  /\ UNCHANGED <<calls, cpuCancel, closed, starts, crossed>>
             /\ StressOff' => StressOff
    <2>1. entry' = [entry EXCEPT ![k] = "over"] /\ entry \in [Kinds -> {"off", "on", "over"}]
        BY <1>3 DEF Expire, TypeOK
    <2>2. StressOff' => StressOff
        BY <2>1 DEF StressOff
    <2>3. QED
        BY <1>3, <2>2 DEF Expire
<1>4. QED
    BY <1>1, <1>2, <1>3 DEF Next, Begins

(* What a call that begins knows of the others, and they of it.            *)
LEMMA BeginFields ==
    ASSUME TypeOK, Numbered, NEW p \in Callers, Begins(p)
    PROVE  /\ calls[p].at = "idle"
           /\ \A q \in Callers \ {p} : calls'[q] = calls[q]
           /\ calls'[p].chan = 0 /\ calls'[p].at \notin {"close", "install"}
           /\ calls'[p].at = "take" => calls'[p].kind = "cpu_stress"
           /\ UNCHANGED <<cpuCancel, closed>>
           /\ p \in Stressing' => \A q \in Stressing \ {p} :
                 /\ calls[q].start # 0 => CallKind(p)' \in crossed'[calls[q].start]
                 /\ calls'[p].start # 0 => CallKind(q) \in crossed'[calls'[p].start]
           /\ StressOff' => StressOff \/ (calls'[p].at = "take" /\ calls'[p].start = 0)
           /\ p \in Stressing' /\ calls'[p].start # 0 => ~StressOff'
<1>0. \A q \in Callers : calls[q].start \in Nat
    BY DEF TypeOK, Call
<1>1. ASSUME NEW k \in Kinds, Enable(p, k)
      PROVE  /\ calls[p].at = "idle" /\ UNCHANGED <<cpuCancel, closed>>
             /\ To(p, starts + 1, 0, FirstStep(k)) /\ calls'[p].kind = k
             /\ k = "cpu_stress" => crossed' = Crossing("enable", starts + 1)
             /\ starts + 1 \in 1 .. MaxStarts /\ entry' = [entry EXCEPT ![k] = "on"]
    <2>1. starts + 1 \in 1 .. MaxStarts
        BY <1>1, EffectsAssumption DEF Enable, TypeOK
    <2>2. QED
        BY <1>1, <2>1, CallFields DEF Enable
<1>2. ASSUME NEW k \in Kinds, Disable(p, k)
      PROVE  /\ calls[p].at = "idle" /\ UNCHANGED <<cpuCancel, closed>>
             /\ To(p, 0, 0, StopStep(k)) /\ (calls'[p].at = "idle" \/ calls'[p].kind = k)
             /\ k = "cpu_stress" => crossed' = Crossing("disable", 0)
             /\ entry' = [entry EXCEPT ![k] = "off"]
    BY <1>2, CallFields DEF Disable
<1>a. entry \in [Kinds -> {"off", "on", "over"}]
    BY DEF TypeOK
<1>b. \A q \in Callers : calls[q].start # 0 => calls[q].start \in 1 .. MaxStarts
    BY InHistory
<1>3. ASSUME NEW k \in Kinds, Enable(p, k)
      PROVE  /\ p \in Stressing' => \A q \in Stressing \ {p} :
                   /\ calls[q].start # 0 => CallKind(p)' \in crossed'[calls[q].start]
                   /\ calls'[p].start # 0 => CallKind(q) \in crossed'[calls'[p].start]
             /\ StressOff' => StressOff
             /\ p \in Stressing' => ~StressOff'
    <2>1. CASE k = "cpu_stress"
        <3>1. calls'[p].start = starts + 1 /\ starts + 1 # 0 /\ CallKind(p)' = "enable"
            BY <1>1, <1>3 DEF To, CallKind
        <3>2. ~StressOff'
            BY <1>1, <1>3, <1>a, <2>1 DEF StressOff
        <3>3. \A q \in Stressing :
                 /\ calls[q].start # 0 => "enable" \in crossed'[calls[q].start]
                 /\ CallKind(q) \in crossed'[starts + 1]
            BY <1>1, <1>3, <1>b, <2>1, CrossingGrows DEF Stressing
        <3>4. QED
            BY <3>1, <3>2, <3>3
    <2>2. CASE k # "cpu_stress"
        BY <1>1, <1>3, <1>a, <2>2 DEF StressOff, Stressing
    <2>3. QED
        BY <2>1, <2>2
<1>4. ASSUME NEW k \in Kinds, Disable(p, k)
      PROVE  /\ p \in Stressing' => \A q \in Stressing \ {p} :
                   calls[q].start # 0 => CallKind(p)' \in crossed'[calls[q].start]
             /\ StressOff' => StressOff \/ calls'[p].at = "take"
             /\ calls'[p].start = 0
    <2>1. CASE k = "cpu_stress"
        <3>1. calls'[p].start = 0 /\ CallKind(p)' = "disable" /\ calls'[p].at = "take"
            BY <1>2, <1>4, <2>1 DEF To, CallKind, StopStep
        <3>2. \A q \in Stressing : calls[q].start # 0 => "disable" \in crossed'[calls[q].start]
            BY <1>2, <1>4, <1>b, <2>1, CrossingGrows DEF Stressing
        <3>3. QED
            BY <3>1, <3>2
    <2>2. CASE k # "cpu_stress"
        BY <1>2, <1>4, <1>a, <2>2 DEF StressOff, Stressing, To
    <2>3. QED
        BY <2>1, <2>2
<1>5. \A k \in Kinds : FirstStep(k) \in {"take", "launch"} /\ (FirstStep(k) = "take" => k = "cpu_stress")
    BY DEF FirstStep
<1>6. \A k \in Kinds : StopStep(k) \in {"take", "release", "idle"} /\ (StopStep(k) = "take" => k = "cpu_stress")
    BY DEF StopStep
<1>7. QED
    BY <1>1, <1>2, <1>3, <1>4, <1>5, <1>6 DEF Begins, To

(* A step of a call in flight, as far as the burners go.                   *)
LEMMA CallMoves ==
    ASSUME TypeOK, StartsOwned, NEW p \in Callers, CallStep(p)
    PROVE  /\ calls[p].at # "idle"
           /\ \A q \in Callers \ {p} : calls'[q] = calls[q]
           /\ calls'[p].at = "idle" \/ (calls'[p].kind = calls[p].kind /\ calls'[p].start = calls[p].start)
           /\ calls'[p].at \in {"close", "install"} => calls[p].at \in {"take", "close"}
           /\ calls'[p].at # "take"
           /\ calls[p].at = "take" => cpuCancel' = 0
           /\ calls'[p].at = "launch" <=> Install(p)
           /\ Install(p) => cpuCancel' = calls[p].start /\ calls[p].start # 0 /\ calls[p].at = "install"
           /\ calls[p].at # "take" /\ ~Install(p) => cpuCancel' = cpuCancel
<1>1. ASSUME TakeCancel(p) PROVE To(p, calls[p].start, cpuCancel, "close") /\ calls[p].at = "take" /\ cpuCancel' = 0
    BY <1>1, CallFields DEF TakeCancel
<1>2. ASSUME CloseCancel(p)
      PROVE  /\ To(p, calls[p].start, 0, IF calls[p].start = 0 THEN "idle" ELSE "install")
             /\ calls[p].at = "close" /\ cpuCancel' = cpuCancel
    BY <1>2, CallFields DEF CloseCancel
<1>3. ASSUME Install(p)
      PROVE  /\ To(p, calls[p].start, calls[p].chan, "launch") /\ calls[p].at = "install"
             /\ cpuCancel' = calls[p].start /\ calls[p].start # 0
    BY <1>3, CallFields DEF Install, StartsOwned
<1>4. ASSUME Launch(p) \/ Release(p)
      PROVE  To(p, 0, 0, "idle") /\ calls[p].at \in {"launch", "release"} /\ cpuCancel' = cpuCancel
    BY <1>4, CallFields DEF Launch, Release
<1>5. calls'[p].at = "idle" \/ calls'[p].kind = calls[p].kind
    BY CallFields
<1>6. QED
    BY <1>1, <1>2, <1>3, <1>4, <1>5 DEF CallStep, To

-----------------------------------------------------------------------------
(* Calls know of one another, and each part of BInv that speaks of calls   *)
(* in flight is kept.                                                      *)
LEMMA PairedStep ==
    ASSUME EInv, BInv, [Next]_vars
    PROVE  Kinded' /\ Paired'
<1> USE DEF EInv, BInv
<1>a. \A p \in Callers : calls[p].start # 0 => calls[p].start \in 1 .. MaxStarts
    BY InHistory
<1>b. \A n \in 1 .. MaxStarts : crossed[n] \subseteq crossed'[n]
    BY HistoryGrows DEF Later
<1>1. ASSUME NEW p \in Callers, Begins(p) PROVE Kinded' /\ Paired'
    <2>1. Kinded'
        BY <1>1, BeginFields DEF Kinded
    <2>2. \A q \in Callers \ {p} : q \in Stressing' => q \in Stressing /\ calls'[q] = calls[q]
        BY <1>1, BeginFields DEF Stressing
    <2>3. ASSUME NEW x \in Stressing', NEW y \in Stressing', x # y, calls'[x].start # 0
          PROVE  CallKind(y)' \in crossed'[calls'[x].start]
        <3>0. x \in Callers /\ y \in Callers
            BY DEF Stressing
        <3>1. CASE x = p
            <4>1. y \in Stressing \ {p} /\ CallKind(y)' = CallKind(y)
                BY <2>2, <2>3, <3>0, <3>1 DEF CallKind
            <4>2. QED
                BY <1>1, <2>3, <3>1, <4>1, BeginFields
        <3>2. CASE y = p
            <4>1. x \in Stressing \ {p} /\ calls'[x] = calls[x]
                BY <2>2, <2>3, <3>0, <3>2
            <4>2. QED
                BY <1>1, <2>3, <3>2, <4>1, BeginFields
        <3>3. CASE x # p /\ y # p
            <4>1. x \in Stressing /\ y \in Stressing /\ calls'[x] = calls[x] /\ calls'[y] = calls[y]
                BY <2>2, <3>0, <3>3
            <4>2. CallKind(y)' = CallKind(y) /\ CallKind(y) \in crossed[calls[x].start]
                BY <2>3, <4>1 DEF CallKind, Paired
            <4>3. QED
                BY <1>a, <1>b, <2>3, <3>0, <4>1, <4>2
        <3>4. QED
            BY <3>1, <3>2, <3>3
    <2>4. QED
        BY <2>1, <2>3 DEF Paired
<1>2. ASSUME NEW p \in Callers, CallStep(p), UNCHANGED crossed PROVE Kinded' /\ Paired'
    <2>1. \A q \in Stressing' : q \in Stressing /\ calls'[q].start = calls[q].start
        BY <1>2, CallMoves DEF Stressing
    <2>2. Paired'
        BY <1>2, <2>1 DEF Paired, CallKind
    <2>3. Kinded'
        BY <1>2, CallMoves DEF Kinded
    <2>4. QED
        BY <2>2, <2>3
<1>3. CASE UNCHANGED <<calls, crossed>>
    BY <1>3 DEF Kinded, Paired, Stressing, CallKind
<1>4. QED
    BY <1>1, <1>2, <1>3, OneCallMoves

LEMMA LoseStep ==
    ASSUME EInv, BInv, [Next]_vars
    PROVE  NothingToLose'
<1> USE DEF EInv, BInv
<1>a. cpuCancel # 0 => cpuCancel \in 1 .. MaxStarts
    BY InHistory
<1>b. \A n \in 1 .. MaxStarts : crossed[n] \subseteq crossed'[n]
    BY HistoryGrows DEF Later
<1>1. ASSUME NEW p \in Callers, Begins(p) PROVE NothingToLose'
    <2>1. \A q \in Callers : calls'[q].at \in {"close", "install"} => calls'[q] = calls[q]
        BY <1>1, BeginFields
    <2>2. cpuCancel' = cpuCancel
        BY <1>1, BeginFields
    <2>3. QED
        BY <1>a, <1>b, <2>1, <2>2 DEF NothingToLose
<1>2. ASSUME NEW p \in Callers, CallStep(p), UNCHANGED crossed PROVE NothingToLose'
    <2>1. CASE calls[p].at = "take"
        BY <1>2, <2>1, CallMoves DEF NothingToLose
    <2>2. CASE Install(p)
        <3> SUFFICES ASSUME NEW q \in Callers, calls'[q].start # 0, calls'[q].at \in {"close", "install"}
                     PROVE  "enable" \in crossed'[cpuCancel']
            BY DEF NothingToLose
        <3>1. q # p /\ calls'[q] = calls[q] /\ cpuCancel' = calls[p].start
            BY <1>2, <2>2, CallMoves
        <3>2. p \in Stressing /\ q \in Stressing /\ calls[p].start # 0 /\ CallKind(q) = "enable"
            BY <1>2, <2>2, <3>1, CallMoves DEF Kinded, Stressing, CallKind
        <3>3. QED
            BY <1>2, <3>1, <3>2 DEF Paired
    <2>3. CASE calls[p].at # "take" /\ ~Install(p)
        <3>1. cpuCancel' = cpuCancel
            BY <1>2, <2>3, CallMoves
        <3>2. \A q \in Callers : calls'[q].at \in {"close", "install"} =>
                 calls[q].at \in {"close", "install"} /\ calls'[q].start = calls[q].start
            BY <1>2, <2>3, CallMoves
        <3>3. QED
            BY <1>2, <3>1, <3>2 DEF NothingToLose
    <2>4. QED
        BY <2>1, <2>2, <2>3
<1>3. CASE UNCHANGED <<calls, cpuCancel, crossed>>
    BY <1>3 DEF NothingToLose
<1>4. QED
    BY <1>1, <1>2, <1>3, OneCallMoves

LEMMA OnStep ==
    ASSUME EInv, BInv, [Next]_vars
    PROVE  StillOn' /\ StoredOn'
<1> USE DEF EInv, BInv
<1>a. /\ cpuCancel # 0 => cpuCancel \in 1 .. MaxStarts
      /\ \A p \in Callers : calls[p].start # 0 => calls[p].start \in 1 .. MaxStarts
    BY InHistory
<1>b. \A n \in 1 .. MaxStarts : crossed[n] \subseteq crossed'[n]
    BY HistoryGrows DEF Later
<1>1. ASSUME NEW p \in Callers, Begins(p) PROVE StillOn' /\ StoredOn'
    <2>1. \A q \in Callers \ {p} : calls'[q] = calls[q]
        BY <1>1, BeginFields
    <2>2. \A q \in Callers \ {p} : q \in Stressing' => q \in Stressing
        BY <2>1 DEF Stressing
    <2>3. calls[p].at = "idle" /\ cpuCancel' = cpuCancel
        BY <1>1, BeginFields
    <2>4. StressOff' => StressOff \/ (calls'[p].at = "take" /\ calls'[p].start = 0)
        BY <1>1, BeginFields
    <2>5. p \in Stressing' /\ calls'[p].start # 0 => ~StressOff'
        BY <1>1, BeginFields
    <2>6. ASSUME NEW q \in Stressing', calls'[q].start # 0, crossed'[calls'[q].start] = {}, StressOff'
          PROVE  FALSE
        <3>1. q \in Callers \ {p} /\ q \in Stressing /\ calls'[q] = calls[q]
            BY <2>1, <2>2, <2>5, <2>6 DEF Stressing
        <3>2. crossed[calls[q].start] = {} /\ calls[q].start # 0
            BY <1>a, <1>b, <2>6, <3>1
        <3>3. CASE StressOff
            BY <3>1, <3>2, <3>3 DEF StillOn
        <3>4. CASE calls'[p].at = "take"
            <4>1. p \in Stressing'
                BY <1>1, <3>4, BeginFields DEF Stressing
            <4>2. CallKind(p)' \in crossed'[calls[q].start]
                BY <1>1, <3>1, <3>2, <4>1, BeginFields
            <4>3. QED
                BY <2>6, <3>1, <4>2
        <3>5. QED
            BY <2>4, <2>6, <3>3, <3>4
    <2>7. StoredOn'
        <3> SUFFICES ASSUME cpuCancel' # 0, crossed'[cpuCancel'] = {}, StressOff'
                     PROVE  \E q \in Callers : calls'[q].at = "take"
            BY DEF StoredOn
        <3>1. crossed[cpuCancel] = {} /\ cpuCancel # 0
            BY <1>a, <1>b, <2>3
        <3>2. CASE StressOff
            <4>1. PICK q \in Callers : calls[q].at = "take"
                BY <3>1, <3>2 DEF StoredOn
            <4>2. QED
                BY <2>1, <2>3, <4>1
        <3>3. QED
            BY <2>4, <3>2
    <2>8. QED
        BY <2>6, <2>7 DEF StillOn
<1>2. ASSUME NEW p \in Callers, CallStep(p), UNCHANGED <<entry, crossed>> PROVE StillOn' /\ StoredOn'
    <2>1. \A q \in Stressing' : q \in Stressing /\ calls'[q].start = calls[q].start
        BY <1>2, CallMoves DEF Stressing
    <2>2. StressOff' = StressOff
        BY <1>2 DEF StressOff
    <2>3. StillOn'
        BY <1>2, <2>1, <2>2 DEF StillOn
    <2>4. CASE calls[p].at = "take"
        BY <1>2, <2>3, <2>4, CallMoves DEF StoredOn
    <2>5. CASE Install(p)
        <3>1. p \in Stressing /\ calls[p].start # 0 /\ cpuCancel' = calls[p].start
            BY <1>2, <2>5, CallMoves DEF Kinded, Stressing
        <3>2. QED
            BY <1>2, <2>2, <2>3, <3>1 DEF StillOn, StoredOn
    <2>6. CASE calls[p].at # "take" /\ ~Install(p)
        <3>1. cpuCancel' = cpuCancel
            BY <1>2, <2>6, CallMoves
        <3>2. \A q \in Callers : calls[q].at = "take" => calls'[q].at = "take"
            BY <1>2, <2>6, CallMoves
        <3>3. QED
            BY <1>2, <2>2, <2>3, <3>1, <3>2 DEF StoredOn
    <2>7. QED
        BY <2>4, <2>5, <2>6
<1>3. CASE UNCHANGED <<calls, cpuCancel, crossed>> /\ (StressOff' => StressOff)
    <2>1. Stressing' = Stressing
        BY <1>3 DEF Stressing
    <2>2. QED
        BY <1>3, <2>1 DEF StillOn, StoredOn
<1>4. QED
    BY <1>1, <1>2, <1>3, OneCallMoves

(* Burners that are about to be launched, and those that run, are answered *)
(* for.                                                                    *)
LEMMA ReachedStep ==
    ASSUME EInv, BInv, [Next]_vars
    PROVE  Launchable' /\ Reached'
<1> USE DEF EInv, BInv
<1>a. \A ch \in 1 .. MaxStarts : Answered(ch) => Answered(ch)'
    BY AnsweredKept
<1>b. \A p \in Callers : calls[p].start # 0 => calls[p].start \in 1 .. MaxStarts
    BY InHistory
<1>c. burning \subseteq 1 .. MaxStarts
    BY InHistory
<1>1. Launchable'
    <2> SUFFICES ASSUME NEW p \in Callers, calls'[p].at = "launch", calls'[p].kind = "cpu_stress"
                 PROVE  \A ch : ch = calls'[p].start => Answered(ch)'
        BY DEF Launchable, Answered, Held
    <2>1. CASE calls'[p] = calls[p]
        <3>1. calls[p].start \in 1 .. MaxStarts /\ Answered(calls[p].start)
            BY <1>b, <2>1 DEF Launchable, StartsOwned
        <3>2. QED
            BY <1>a, <2>1, <3>1
    <2>2. CASE Install(p)
        BY <2>2, CallFields DEF Install, To, Answered, Held
    <2>3. ASSUME NEW q \in Callers, CallStep(q) PROVE calls'[p] = calls[p] \/ Install(p)
        BY <2>3, CallMoves
    <2>4. ASSUME NEW q \in Callers, Begins(q) PROVE calls'[p] = calls[p] \/ calls'[p].kind # "cpu_stress"
        <3>1. CASE p # q
            BY <2>4, <3>1, BeginFields
        <3>2. ASSUME p = q, NEW k \in Kinds, Enable(q, k) PROVE calls'[p].kind # "cpu_stress"
            BY <3>2, CallFields DEF To, FirstStep
        <3>3. ASSUME p = q, NEW k \in Kinds, Disable(q, k) PROVE FALSE
            BY <3>3, CallFields DEF To, StopStep
        <3>4. QED
            BY <2>4, <3>1, <3>2, <3>3 DEF Begins
    <2>5. QED
        BY <2>1, <2>2, <2>3, <2>4, OneCallMoves
<1>2. Reached'
    <2> SUFFICES ASSUME NEW ch \in burning' PROVE Answered(ch)'
        BY DEF Reached
    <2>1. CASE ch \in burning
        BY <1>a, <1>c, <2>1 DEF Reached
    <2>2. CASE ch \notin burning
        <3>1. PICK p \in Callers : Launch(p) /\ calls[p].kind = "cpu_stress" /\ ch = calls[p].start
            <4>1. \A p \in Callers, k \in Kinds : Enable(p, k) \/ Disable(p, k) => burning' = burning
                BY DEF Enable, Disable, effects
            <4>2. \A p \in Callers : CallStep(p) /\ ~Launch(p) => burning' = burning
                BY DEF CallStep, TakeCancel, CloseCancel, Install, Release, effects
            <4>3. Effect => burning' \subseteq burning
                BY DEF Effect, BurnersStop, LeakCheck, LeakAppend, NovelCheck, WriteLine,
                       WriterDeadline, Exit
            <4>4. (\E k \in Kinds : Expire(k)) \/ UNCHANGED vars => burning' = burning
                BY DEF Expire, effects, vars
            <4>5. PICK p \in Callers : Launch(p)
                BY <2>2, <4>1, <4>2, <4>3, <4>4 DEF Next, CallStep
            <4>6. QED
                BY <2>2, <4>5 DEF Launch
        <3>2. ch \in 1 .. MaxStarts /\ Answered(ch)
            BY <1>b, <3>1 DEF Launch, StartsOwned, Launchable
        <3>3. QED
            BY <1>a, <3>2
    <2>3. QED
        BY <2>1, <2>2
<1>3. QED
    BY <1>1, <1>2

(* For any callers: burners nobody has told to stop can be told, unless    *)
(* their start overlapped another; and none burns behind a fault that is   *)
(* off with no call about, unless its start overlapped some call.  What    *)
(* carries it is that a start's swap leaves nothing in cpuCancel that only *)
(* its store could lose.                                                   *)
THEOREM BurnersReachable == Spec => []BurnersAnswer
<1>1. Init => BInv
    BY DEF Init, Idle, BInv, Kinded, Paired, NothingToLose, Launchable, Reached, StillOn, StoredOn,
           Stressing
<1>2. EInv /\ BInv /\ [Next]_vars => BInv'
    BY PairedStep, LoseStep, OnStep, ReachedStep DEF BInv
<1>3. EInv /\ BInv => BurnersAnswer
    <2> SUFFICES ASSUME EInv, BInv, NEW ch \in burning \ closed
                 PROVE  /\ Held(ch) \/ "enable" \in crossed[ch]
                        /\ StressOff /\ Stressing = {} => crossed[ch] # {}
        BY DEF BurnersAnswer, Held
    <2>1. Held(ch) \/ "enable" \in crossed[ch]
        BY DEF BInv, Reached, Answered
    <2>2. ch \in 1 .. MaxStarts /\ ch # 0
        BY InHistory DEF EInv
    <2>3. ASSUME StressOff, crossed[ch] = {} PROVE Stressing # {}
        <3>1. CASE cpuCancel = ch
            BY <2>2, <2>3, <3>1 DEF BInv, StoredOn, Kinded, Stressing
        <3>2. ASSUME NEW p \in Callers, calls[p].chan = ch PROVE Stressing # {}
            BY <2>2, <3>2 DEF EInv, ChannelsOwned, BInv, Kinded, Stressing
        <3>3. QED
            BY <2>1, <2>3, <3>1, <3>2 DEF Held
    <2>4. QED
        BY <2>1, <2>3
<1>4. QED
    BY <1>1, <1>2, <1>3, EInvariant, PTL DEF Spec

=============================================================================
