------------------------- MODULE ChaosCampaignProofs -------------------------
(* Proofs about ChaosCampaign, for any types, plans, lateness and number of *)
(* campaigns.                                                               *)
EXTENDS ChaosCampaign, SequenceTheorems, WellFoundedInduction, TLAPS

Steps == [type : Types, start : Nat, duration : Nat \ {0}]

-----------------------------------------------------------------------------
(* Finitely many numbers have a greatest: were there a sequence without one *)
(* of its first k, the least such k would be one more than a k that has it. *)
LEMMA GreatestOf ==
    ASSUME NEW n \in Nat \ {0}, NEW f \in [1 .. n -> Nat]
    PROVE  \E m \in 1 .. n : \A j \in 1 .. n : f[j] <= f[m]
<1> DEFINE Has(k) == \E m \in 1 .. k : \A j \in 1 .. k : f[j] <= f[m]
<1> DEFINE Bad == {i \in 1 .. n : ~Has(i)}
<1> SUFFICES ASSUME Bad # {} PROVE FALSE
  <2>1. n \in Bad \/ Has(n)
    OBVIOUS
  <2> QED
    BY <2>1
<1> HIDE DEF Has
<1>1. Bad \subseteq Nat
  OBVIOUS
<1>2. PICK k \in Bad : \A y \in Bad : ~(<<y, k>> \in OpToRel(<, Nat))
  BY <1>1, NatLessThanWellFounded, WFMin
<1>3. \A y \in Bad : ~(y < k)
  BY <1>1, <1>2 DEF OpToRel
<1>4. Has(1)
  BY DEF Has
<1>5. k # 1 /\ k - 1 \in 1 .. n /\ k \in 1 .. n /\ ~Has(k)
  <2>1. k \in 1 .. n /\ ~Has(k)
    OBVIOUS
  <2>2. k # 1
    BY <2>1, <1>4
  <2> QED
    BY <2>1, <2>2
<1>6. Has(k - 1)
  BY <1>3, <1>5
<1>7. PICK m \in 1 .. k - 1 : \A j \in 1 .. k - 1 : f[j] <= f[m]
  BY <1>6 DEF Has
<1>8. CASE f[k] <= f[m]
  <2>1. \A j \in 1 .. k : f[j] <= f[m]
    BY <1>5, <1>7, <1>8
  <2>2. m \in 1 .. k
    BY <1>5
  <2>3. Has(k)
    BY <2>1, <2>2 DEF Has
  <2> QED
    BY <2>3, <1>5
<1>9. CASE f[m] < f[k]
  <2>1. \A j \in 1 .. k : f[j] <= f[k]
    BY <1>5, <1>7, <1>9
  <2>2. k \in 1 .. k
    BY <1>5
  <2>3. Has(k)
    BY <2>1, <2>2 DEF Has
  <2> QED
    BY <2>3, <1>5
<1> QED
  BY <1>5, <1>7, <1>8, <1>9

LEMMA Shifted ==
    ASSUME NEW n \in Nat, NEW a \in Nat, NEW b \in Nat, NEW c \in Nat, NEW e \in Nat
    PROVE  /\ a + b + c <= e => n + (a + b + c) <= n + e
           /\ (n + a) + b + c = n + (a + b + c)
  OBVIOUS

(* The end of a campaign is a second after the end of each of its steps.   *)
LEMMA EndAfterSteps ==
    ASSUME NEW plan \in Seq(Steps), plan # <<>>
    PROVE  /\ EndDuration(plan) \in Nat
           /\ \A i \in DOMAIN plan : plan[i].start + plan[i].duration + Second <= EndDuration(plan)
<1> DEFINE Ends == {plan[i].start + plan[i].duration : i \in DOMAIN plan}
<1> DEFINE f == [i \in 1 .. Len(plan) |-> plan[i].start + plan[i].duration]
<1>1. Len(plan) \in Nat \ {0} /\ DOMAIN plan = 1 .. Len(plan)
  BY EmptySeq, LenProperties
<1>2. \A i \in DOMAIN plan : plan[i] \in Steps
  BY ElementOfSeq, <1>1
<1>3. \A i \in DOMAIN plan : plan[i].start + plan[i].duration \in Nat
  BY <1>2 DEF Steps
<1>4. f \in [1 .. Len(plan) -> Nat]
  BY <1>1, <1>3
<1>5. PICK m \in 1 .. Len(plan) : \A j \in 1 .. Len(plan) : f[j] <= f[m]
  BY <1>1, <1>4, GreatestOf
<1>6. f[m] \in Ends /\ \A e \in Ends : e <= f[m]
  BY <1>1, <1>5
<1>7. Maximum(Ends) \in Ends /\ \A e \in Ends : e <= Maximum(Ends)
  BY <1>6 DEF Maximum
<1>8. Ends \subseteq Nat /\ Second \in Nat
  BY <1>3, CampaignAssumption
<1>9. EndDuration(plan) = Maximum(Ends) + Second
  BY DEF EndDuration
<1> HIDE DEF f, Maximum
<1>10. \A i \in DOMAIN plan : plan[i].start + plan[i].duration \in Ends
  OBVIOUS
<1> HIDE DEF Ends
<1>11. \A i \in DOMAIN plan : plan[i].start + plan[i].duration <= Maximum(Ends)
  BY <1>7, <1>10
<1>12. Maximum(Ends) \in Nat
  BY <1>7, <1>8
<1>13. \A i \in DOMAIN plan : plan[i].start \in Nat /\ plan[i].duration \in Nat
  BY <1>2 DEF Steps
<1> HIDE DEF Ends
<1> QED
  BY <1>8, <1>9, <1>11, <1>12, <1>13

(* StartCampaign makes every step one that lasts.                          *)
LEMMA PlanNormal ==
    ASSUME NEW plan \in Plans, Len(plan) \in 1 .. MaxSteps
    PROVE  NormalPlan(plan) \in Seq(Steps) /\ NormalPlan(plan) # <<>>
<1>1. plan \in Seq(RawStep) /\ DefaultStep \in Nat \ {0} /\ MaxSteps \in Nat
  BY CampaignAssumption
<1>2. DOMAIN plan = 1 .. Len(plan) /\ Len(plan) \in Nat /\ Len(plan) >= 1
  BY <1>1, LenProperties
<1>3. \A i \in DOMAIN plan : plan[i] \in RawStep
  BY <1>1, <1>2, ElementOfSeq
<1>4. \A i \in DOMAIN plan : NormalStep(plan[i]) \in Steps
  BY <1>1, <1>3 DEF NormalStep, RawStep, Steps
<1>5. NormalPlan(plan) \in [1 .. Len(plan) -> Steps]
  BY <1>2, <1>4 DEF NormalPlan
<1>6. NormalPlan(plan) \in Seq(Steps) /\ Len(NormalPlan(plan)) = Len(plan)
  BY <1>2, <1>5, LenProperties, SeqDef
<1> QED
  BY <1>2, <1>6, EmptySeq
-----------------------------------------------------------------------------
(* A campaign that is yet to be launched has left nothing behind, and is    *)
(* the only one of its number.                                              *)
Unlaunched ==
    /\ \A l \in launching : l.run <= runs /\ l.plan # <<>>
    /\ \A l, m \in launching : l.run = m.run => l = m
    /\ \A l \in launching :
          /\ \A g \in steps \cup closers : g.run # l.run
          /\ \A t \in Types : faults[t].run # l.run

Numbered ==
    /\ active.run = runs
    /\ \A g \in steps \cup closers : g.run <= runs
    /\ \A t \in Types : faults[t].run <= runs

(* The closing goroutine's time lies a second behind the end of every step  *)
(* of its campaign that sleeps, and of every fault such a step enabled, but *)
(* for what the step was late.                                              *)
OnTime ==
    /\ \A s \in steps : now <= s.wake + MaxLate
    /\ \A c \in closers, s \in steps : s.run = c.run => s.wake + s.duration + Second <= c.wake
    /\ \A c \in closers, t \in Types : faults[t].run = c.run =>
          faults[t].startedAt + faults[t].duration + Second <= c.wake + MaxLate
    /\ \A t \in Types : faults[t].run # 0 => faults[t].duration # 0

CInv == TypeOK /\ RunningHasCloser /\ Unlaunched /\ Numbered /\ OnTime

LEMMA InitC == Init => CInv
<1> SUFFICES ASSUME Init PROVE CInv
  OBVIOUS
<1> USE DEF Init, Off, NoCampaign, NotKilling
<1>1. TypeOK
  BY DEF TypeOK
<1>2. RunningHasCloser /\ Unlaunched /\ Numbered /\ OnTime
  BY DEF RunningHasCloser, Unlaunched, Numbered, OnTime
<1> QED
  BY <1>1, <1>2 DEF CInv

LEMMA StartKeeps ==
    ASSUME CInv, NEW id \in Ids, NEW plan \in Plans, NEW dry \in BOOLEAN, StartCampaign(id, plan, dry)
    PROVE  CInv'
<1> USE DEF CInv, StartCampaign
<1> DEFINE l == [run |-> runs + 1, id |-> id, plan |-> NormalPlan(plan)]
<1>1. runs \in Nat /\ runs' = runs + 1 /\ launching' \subseteq launching \cup {l}
  BY DEF TypeOK
<1>2. NormalPlan(plan) \in Seq(Steps) /\ NormalPlan(plan) # <<>>
  BY PlanNormal
<1>3. TypeOK'
  <2>1. l \in [run : Nat \ {0}, id : Ids, plan : Seq([type : Types, start : Nat, duration : Nat \ {0}])]
    BY <1>1, <1>2 DEF Steps
  <2>2. active' \in [run : Nat, id : Ids \cup {"none"}, running : BOOLEAN]
    BY <1>1
  <2> HIDE DEF l
  <2> QED
    BY <1>1, <2>1, <2>2 DEF TypeOK
<1>4. RunningHasCloser'
  BY DEF RunningHasCloser
<1>5. \A m \in launching : m.run <= runs /\ m.run \in Nat
  BY DEF TypeOK, Unlaunched
<1>6. /\ \A g \in steps \cup closers : g.run \in Nat /\ g.run <= runs
      /\ \A t \in Types : faults[t].run \in Nat /\ faults[t].run <= runs
  BY DEF TypeOK, Numbered
<1>7. Unlaunched'
  <2>1. \A m \in launching' : m.run <= runs' /\ m.plan # <<>>
    BY <1>1, <1>2, <1>5 DEF Unlaunched
  <2>2. \A m \in launching : m.run # l.run
    BY <1>1, <1>5
  <2>3. \A m, o \in launching' : m.run = o.run => m = o
    BY <1>1, <2>2 DEF Unlaunched
  <2>4. \A m \in launching' :
          /\ \A g \in steps \cup closers : g.run # m.run
          /\ \A t \in Types : faults[t].run # m.run
    BY <1>1, <1>6 DEF Unlaunched
  <2> QED
    BY <2>1, <2>3, <2>4 DEF Unlaunched
<1>8. Numbered'
  BY <1>1, <1>6 DEF Numbered
<1>9. OnTime'
  BY DEF OnTime
<1> QED
  BY <1>3, <1>4, <1>7, <1>8, <1>9

LEMMA LaunchKeeps ==
    ASSUME CInv, NEW c \in launching, Launch(c)
    PROVE  CInv'
<1> USE DEF CInv, Launch
<1> DEFINE end == [run |-> c.run, id |-> c.id, wake |-> now + EndDuration(c.plan)]
<1> DEFINE started == {[run |-> c.run, index |-> i, type |-> c.plan[i].type,
                        duration |-> c.plan[i].duration, wake |-> now + c.plan[i].start] : i \in DOMAIN c.plan}
<1>1. /\ c.run \in Nat \ {0} /\ c.id \in Ids /\ c.plan \in Seq(Steps) /\ c.plan # <<>>
      /\ now \in Nat /\ runs \in Nat /\ c.run <= runs
  BY DEF TypeOK, Unlaunched, Steps
<1>2. EndDuration(c.plan) \in Nat
  BY <1>1, EndAfterSteps
<1>3. \A i \in DOMAIN c.plan : i \in Nat \ {0} /\ c.plan[i] \in Steps
  BY <1>1, ElementOfSeq, LenProperties
<1>4. /\ launching' = launching \ {c} /\ steps' = steps \cup started /\ closers' = closers \cup {end}
      /\ UNCHANGED <<active, faults, killing, now, runs>>
  OBVIOUS
<1>5. end \in [run : Nat \ {0}, id : Ids, wake : Nat]
  BY <1>1, <1>2
<1>6. started \subseteq [run : Nat \ {0}, index : Nat \ {0}, type : Types, duration : Nat \ {0}, wake : Nat]
  BY <1>1, <1>3 DEF Steps
<1>7. \A s \in started :
         /\ s.run = c.run /\ now <= s.wake
         /\ s.wake + s.duration + Second <= end.wake
  <2> TAKE s \in started
  <2>1. PICK i \in DOMAIN c.plan : s = [run |-> c.run, index |-> i, type |-> c.plan[i].type,
                        duration |-> c.plan[i].duration, wake |-> now + c.plan[i].start]
    OBVIOUS
  <2>2. c.plan[i].start \in Nat /\ c.plan[i].duration \in Nat /\ Second \in Nat
    BY <1>3, CampaignAssumption DEF Steps
  <2>3. c.plan[i].start + c.plan[i].duration + Second <= EndDuration(c.plan)
    BY <1>1, EndAfterSteps
  <2>4. /\ s.run = c.run /\ s.wake = now + c.plan[i].start /\ s.duration = c.plan[i].duration
        /\ end.wake = now + EndDuration(c.plan)
    BY <2>1
  <2> HIDE DEF end
  <2>5. now + (c.plan[i].start + c.plan[i].duration + Second) <= now + EndDuration(c.plan)
    BY <1>1, <1>2, <2>2, <2>3, Shifted
  <2>6. s.wake + s.duration + Second = now + (c.plan[i].start + c.plan[i].duration + Second)
    BY <1>1, <2>2, <2>4, Shifted
  <2>7. now <= s.wake
    BY <1>1, <2>2, <2>4
  <2> QED
    BY <2>4, <2>5, <2>6, <2>7
<1>8. end.run = c.run /\ end.id = c.id
  OBVIOUS
<1> HIDE DEF end, started
<1>9. TypeOK'
  BY <1>4, <1>5, <1>6 DEF TypeOK
<1>10. RunningHasCloser'
  BY <1>4, <1>8 DEF RunningHasCloser
<1>11. Unlaunched'
  <2>1. \A m \in launching' : m \in launching /\ m.run # c.run
    BY <1>4 DEF Unlaunched
  <2>2. \A g \in steps' \cup closers' : g \in steps \cup closers \/ g.run = c.run
    BY <1>4, <1>7, <1>8
  <2> QED
    BY <1>4, <2>1, <2>2 DEF Unlaunched
<1>12. Numbered'
  <2>1. \A g \in steps' \cup closers' : g \in steps \cup closers \/ g.run = c.run
    BY <1>4, <1>7, <1>8
  <2> QED
    BY <1>1, <1>4, <2>1 DEF Numbered
<1>13. OnTime'
  <2>1. MaxLate \in Nat
    BY CampaignAssumption
  <2>2. \A s \in steps' : now <= s.wake + MaxLate
    BY <1>1, <1>4, <1>6, <1>7, <2>1 DEF OnTime
  <2>3. \A g \in steps \cup closers : g.run # c.run
    BY DEF Unlaunched
  <2>4. \A d \in closers', s \in steps' : s.run = d.run => s.wake + s.duration + Second <= d.wake
    BY <1>4, <1>7, <1>8, <2>3 DEF OnTime
  <2>5. \A t \in Types : faults[t].run # c.run
    BY DEF Unlaunched
  <2> QED
    BY <1>4, <1>8, <2>2, <2>4, <2>5 DEF OnTime
<1> QED
  BY <1>9, <1>10, <1>11, <1>12, <1>13

LEMMA FireKeeps ==
    ASSUME CInv, NEW s \in steps, FireStep(s)
    PROVE  CInv'
<1> USE DEF CInv, FireStep
<1> DEFINE f == [enabled |-> TRUE, run |-> s.run, startedAt |-> now, duration |-> ClampDuration(s.duration)]
<1>1. /\ s.run \in Nat \ {0} /\ s.type \in Types /\ s.duration \in Nat \ {0} /\ s.wake \in Nat
      /\ now \in Nat /\ runs \in Nat /\ {MaxLate, Second} \subseteq Nat
  BY CampaignAssumption DEF TypeOK
<1>2. ClampDuration(s.duration) \in Nat \ {0} /\ ClampDuration(s.duration) <= s.duration
  BY <1>1, CampaignAssumption DEF ClampDuration
<1>3. f \in [enabled : BOOLEAN, run : Nat, startedAt : Nat, duration : Nat]
  BY <1>1, <1>2
<1>4. /\ f.run = s.run /\ f.startedAt = now /\ f.duration = ClampDuration(s.duration)
      /\ faults' = [faults EXCEPT ![s.type] = f] /\ steps' = steps \ {s}
      /\ UNCHANGED <<active, launching, closers, killing, now, runs>>
  OBVIOUS
<1> HIDE DEF f
<1>5. \A t \in Types : faults'[t] = faults[t] \/ faults'[t] = f
  BY <1>4 DEF TypeOK
<1>6. TypeOK'
  BY <1>3, <1>4 DEF TypeOK
<1>7. RunningHasCloser'
  BY <1>4 DEF RunningHasCloser
<1>8. Unlaunched'
  BY <1>4, <1>5 DEF Unlaunched
<1>9. Numbered'
  BY <1>4, <1>5 DEF Numbered
<1>10. OnTime'
  <2>1. now <= s.wake + MaxLate
    BY DEF OnTime
  <2>2. \A c \in closers : f.run = c.run => f.startedAt + f.duration + Second <= c.wake + MaxLate
    <3> TAKE c \in closers
    <3>1. c.wake \in Nat
      BY DEF TypeOK
    <3>2. s.run = c.run => s.wake + s.duration + Second <= c.wake
      BY DEF OnTime
    <3> QED
      BY <1>1, <1>2, <1>4, <2>1, <3>1, <3>2
  <2> QED
    BY <1>2, <1>4, <1>5, <2>2 DEF OnTime
<1> QED
  BY <1>6, <1>7, <1>8, <1>9, <1>10

(* A goroutine that closes a campaign finds nothing of it left.             *)
LEMMA NothingLeft ==
    ASSUME CInv, NEW c \in closers, now >= c.wake
    PROVE  Over(c.run)
<1> USE DEF CInv
<1>1. /\ c.wake \in Nat /\ c.run \in Nat \ {0} /\ now \in Nat
      /\ MaxLate \in Nat /\ Second \in Nat /\ MaxLate < Second
  BY CampaignAssumption DEF TypeOK
<1>2. ASSUME NEW s \in steps, s.run = c.run PROVE FALSE
  <2>1. s.wake \in Nat /\ s.duration \in Nat
    BY DEF TypeOK
  <2>2. now <= s.wake + MaxLate /\ s.wake + s.duration + Second <= c.wake
    BY <1>2 DEF OnTime
  <2> QED
    BY <1>1, <2>1, <2>2
<1>3. ASSUME NEW t \in Types, faults[t].run = c.run PROVE ~IsActive(t)
  <2>1. faults[t].startedAt \in Nat /\ faults[t].duration \in Nat
    BY DEF TypeOK
  <2>2. faults[t].startedAt + faults[t].duration + Second <= c.wake + MaxLate /\ faults[t].duration # 0
    BY <1>1, <1>3 DEF OnTime
  <2> QED
    BY <1>1, <2>1, <2>2 DEF IsActive
<1>4. \A l \in launching : l.run # c.run
  BY DEF Unlaunched
<1> QED
  BY <1>2, <1>3, <1>4 DEF Over

LEMMA TickKeeps ==
    ASSUME CInv, Tick
    PROVE  CInv'
<1>1. /\ now' = now + 1 /\ UNCHANGED <<active, faults, launching, steps, closers, killing, runs>>
      /\ \A s \in steps : now < s.wake + MaxLate
  BY DEF Tick
<1>2. TypeOK /\ RunningHasCloser /\ Unlaunched /\ Numbered /\ OnTime
  BY DEF CInv
<1>3. now \in Nat /\ now' \in Nat /\ \A s \in steps : s.wake \in Nat
  BY <1>1, <1>2 DEF TypeOK
<1>4. TypeOK'
  BY <1>1, <1>2, <1>3 DEF TypeOK
<1>5. \A s \in steps : now' <= s.wake + MaxLate
  BY <1>1, <1>3, CampaignAssumption
<1>6. RunningHasCloser' /\ Unlaunched' /\ Numbered'
  BY <1>1, <1>2 DEF RunningHasCloser, Unlaunched, Numbered
<1>7. OnTime'
  BY <1>1, <1>2, <1>5 DEF OnTime
<1> QED
  BY <1>4, <1>6, <1>7 DEF CInv

LEMMA NextKeeps == CInv /\ [Next]_vars => CInv'
<1> SUFFICES ASSUME CInv, [Next]_vars PROVE CInv'
  OBVIOUS
<1>1. ASSUME NEW id \in Ids, NEW plan \in Plans, NEW dry \in BOOLEAN, StartCampaign(id, plan, dry)
      PROVE  CInv'
  BY <1>1, StartKeeps
<1>2. ASSUME NEW c \in launching, Launch(c) PROVE CInv'
  BY <1>2, LaunchKeeps
<1>3. ASSUME NEW s \in steps, FireStep(s) PROVE CInv'
  BY <1>3, FireKeeps
<1>4. ASSUME NEW c \in closers, CloseCampaign(c) PROVE CInv'
  <2> USE <1>4 DEF CInv, CloseCampaign
  <2>1. TypeOK'
    BY DEF TypeOK
  <2>2. RunningHasCloser'
    BY DEF RunningHasCloser, TypeOK
  <2> QED
    BY <2>1, <2>2 DEF Unlaunched, Numbered, OnTime
<1>5. CASE BeginKill
  BY <1>5 DEF CInv, BeginKill, TypeOK, RunningHasCloser, Unlaunched, Numbered, OnTime
<1>6. ASSUME NEW t \in Types, KillOne(t) PROVE CInv'
  <2> USE <1>6 DEF CInv, KillOne
  <2>1. TypeOK'
    BY DEF TypeOK, Off
  <2>2. \A u \in Types : faults'[u] = faults[u] \/ faults'[u] = Off
    BY DEF TypeOK
  <2>3. /\ Off.run = 0 /\ runs \in Nat /\ \A l \in launching : l.run # 0
        /\ \A c \in closers : c.run # 0
    BY DEF Off, TypeOK
  <2>4. RunningHasCloser' /\ Unlaunched' /\ Numbered'
    BY <2>2, <2>3 DEF RunningHasCloser, Unlaunched, Numbered
  <2>5. OnTime'
    BY <2>2, <2>3 DEF OnTime
  <2> QED
    BY <2>1, <2>4, <2>5
<1>7. CASE KillCampaign
  <2> USE <1>7 DEF CInv, KillCampaign
  <2>1. TypeOK'
    BY DEF TypeOK, NotKilling
  <2> QED
    BY <2>1 DEF TypeOK, RunningHasCloser, Unlaunched, Numbered, OnTime
<1>8. CASE Tick
  BY <1>8, TickKeeps
<1>9. CASE UNCHANGED vars
  BY <1>9 DEF CInv, vars, TypeOK, RunningHasCloser, Unlaunched, Numbered, OnTime
<1> QED
  BY <1>1, <1>2, <1>3, <1>4, <1>5, <1>6, <1>7, <1>8, <1>9 DEF Next

LEMMA CInvHolds == Spec => []CInv
<1> QED
  BY InitC, NextKeeps, PTL DEF Spec

-----------------------------------------------------------------------------
(* StartCampaign normalises what clients send, and every goroutine carries  *)
(* numbers that are times: campaignEndDuration's among them.                *)
THEOREM CampaignTypeCorrect == Spec => []TypeOK
<1>1. CInv => TypeOK
  BY DEF CInv
<1> QED
  BY <1>1, CInvHolds, PTL

(* Whatever campaigns replace one another, whatever ids they share and      *)
(* whenever the kill-switch falls, a running campaign has a goroutine that  *)
(* will end it.                                                             *)
THEOREM RunningCloses == Spec => []RunningHasCloser
<1>1. CInv => RunningHasCloser
  BY DEF CInv
<1> QED
  BY <1>1, CInvHolds, PTL

(* The second that campaignEndDuration adds is enough, for any plan, if no  *)
(* step goroutine is late by as much; and what ends a campaign before it is *)
(* over is the kill-switch or the goroutine of a campaign of the same ID,   *)
(* nothing else.                                                            *)
THEOREM FinishedIsOver == Spec => FinishedMeansOver
<1> DEFINE Finish == active.running /\ ~active'.running /\ active'.run = active.run
<1>1. ASSUME CInv, Next, Finish
      PROVE  Over(active.run) \/ KillPassed \/ ClosedByNamesake
  <2>1. \/ \E c \in closers : CloseCampaign(c) /\ active.id = c.id
        \/ KillCampaign
    <3>1. \A id \in Ids, plan \in Plans, dry \in BOOLEAN :
             StartCampaign(id, plan, dry) => active'.run # active.run
      BY <1>1 DEF CInv, Numbered, TypeOK, StartCampaign
    <3> QED
      BY <1>1, <3>1 DEF Next, Launch, FireStep, CloseCampaign, BeginKill, KillOne, Tick
  <2>2. CASE KillCampaign
    BY <2>2 DEF KillCampaign, KillPassed, NotKilling
  <2>3. ASSUME NEW c \in closers, CloseCampaign(c), active.id = c.id
        PROVE  Over(active.run) \/ ClosedByNamesake
    <3>1. now >= c.wake /\ c \in closers \ closers'
      BY <2>3 DEF CloseCampaign
    <3>2. c.run \in Nat /\ active.run \in Nat /\ c.run <= active.run
      BY <1>1 DEF CInv, TypeOK, Numbered
    <3>3. CASE c.run = active.run
      BY <1>1, <3>1, <3>3, NothingLeft
    <3>4. CASE c.run < active.run
      BY <2>3, <3>1, <3>4 DEF ClosedByNamesake
    <3> QED
      BY <3>2, <3>3, <3>4
  <2> QED
    BY <2>1, <2>2, <2>3
<1>2. CInv /\ [Next]_vars => [Finish => Over(active.run) \/ KillPassed \/ ClosedByNamesake]_vars
  BY <1>1
<1> QED
  BY <1>2, CInvHolds, PTL DEF Spec, FinishedMeansOver
=============================================================================
