------------------------ MODULE VerdictHarnessProofs ------------------------
(* Proofs about VerdictHarness, for any library of scenarios, any alerts    *)
(* and any length of a suite.                                               *)
EXTENDS VerdictHarness, TLAPS

(* Where the harness is in each section, and behind the last.               *)
Stages == <<{"quiet", "quiet_poll"}, {"detect", "detect_poll"}, {"rca", "rca_poll"},
            {"remediation", "approve", "recover"}, {"business"}, {"kill", "killing", "cooldown"}>>

Stage == 1 .. 6

Before == {"preflight", "setup", "inject"}

Underway == \E i \in Stage : at \in Stages[i]

Grades == {"pass", "fail", "skip", "degraded"}

Injections == [run : 1 .. MaxRuns, inj : AllInjections]

Found == [run : 1 .. MaxRuns, inj : AllInjections, late : BOOLEAN]

Sweeps == [run : 1 .. MaxRuns, target : {i.target : i \in AllInjections},
           todo : SUBSET {i.type : i \in AllInjections}]

Placed ==
    /\ at \in Before \cup {"done", "exited"} \/ Underway
    /\ at \in Before \/ Underway => run > 0

-----------------------------------------------------------------------------
(* Every expected section before this one has a grade.                      *)
Graded ==
    \A i \in Stage : at \in Stages[i] =>
        \A j \in 1 .. 5 : j < i /\ Sections[j] \in sc.expect => outcome[Sections[j]] # "none"

Injected == Underway => outcome["inject"] = "pass"

(* No injection is of a run to come, nor of this one before it dispatches.  *)
OfRunsSoFar ==
    \A g \in pending \cup faults : g.run <= run /\ (at \in Before => g.run < run)

(* The kill loop has called, or will call, every target.                    *)
KillsAll ==
    /\ calling # {} => at = "killing"
    /\ \A t, u \in calling : t = u
    /\ at = "killing" => Targets(sc) \subseteq toKill \cup calling \cup killed \cup missed
    /\ at = "cooldown" => Targets(sc) \subseteq killed \cup missed

(* Behind a sweep of this run there is nothing that did not come later.     *)
SweptClean ==
    /\ \A w \in sweeps : w.run <= run
    /\ \A w \in sweeps, f \in faults :
          w.run = run /\ f.inj.target = w.target /\ ~f.inj.path /\ f.inj.type \notin w.todo => f.late
    /\ \A t \in killed : Swept(t)

(* An alert as fresh as the injection lit the pager.                        *)
FreshIsLit == Underway => \A a \in Alerts : alerts[a].fresh => alerts[a].lit

(* What a phase knows of the alerts that fired when it began.               *)
BaselineKnows ==
    Polling => \A a \in sc.watch :
        /\ baseline.ok /\ alerts[a].firing /\ a \notin DOMAIN baseline.dedup => alerts[a].lit
        /\ a \in DOMAIN baseline.dedup =>
              /\ baseline.dedup[a] \in Nat
              /\ alerts[a].fresh \/ alerts[a].dedup >= baseline.dedup[a]
              /\ baseline.ok /\ alerts[a].dedup > baseline.dedup[a] => alerts[a].lit
              /\ alerts[a].since = "paged" => alerts[a].fresh \/ alerts[a].dedup > baseline.dedup[a]

Runs == Placed /\ Graded /\ Injected /\ OfRunsSoFar /\ VerdictHonest

Kills == KillsAll /\ SweptClean

Pages == FreshIsLit /\ BaselineKnows

VInv == TypeOK /\ Runs /\ Kills /\ Pages

-----------------------------------------------------------------------------
(* The sections come in order, and no place belongs to two of them.         *)
LEMMA StageOf ==
    ASSUME NEW i \in 1 .. 5
    PROVE  /\ Sections[i] \in SectionNames
           /\ Sections[i] \in Stages[i]
           /\ \A k \in Stage : Sections[i] \in Stages[k] => k = i
           /\ Sections[i] \notin {"quiet_poll", "detect_poll", "kill"}
<1>1. i = 1 \/ i = 2 \/ i = 3 \/ i = 4 \/ i = 5
  OBVIOUS
<1> QED
  BY <1>1 DEF Sections, SectionNames, Stages, Stage

LEMMA KillIsLast == \A k \in Stage : {"kill", "killing", "cooldown"} \cap Stages[k] # {} => k = 6
BY DEF Stages, Stage

LEMMA StagesApart == \A i, k \in Stage : \A p \in Stages[i] : p \in Stages[k] => k = i
<1> SUFFICES ASSUME NEW i \in Stage, NEW k \in Stage, NEW p \in Stages[i], p \in Stages[k] PROVE k = i
  OBVIOUS
<1>1. (i = 1 \/ i = 2 \/ i = 3 \/ i = 4 \/ i = 5 \/ i = 6) /\ (k = 1 \/ k = 2 \/ k = 3 \/ k = 4 \/ k = 5 \/ k = 6)
  BY DEF Stage
<1> QED
  BY <1>1 DEF Stages

LEMMA StagesAreNot ==
    \A i \in Stage : Stages[i] \cap (Before \cup {"done", "exited"}) = {}
<1> SUFFICES ASSUME NEW i \in Stage PROVE Stages[i] \cap (Before \cup {"done", "exited"}) = {}
  OBVIOUS
<1>1. i = 1 \/ i = 2 \/ i = 3 \/ i = 4 \/ i = 5 \/ i = 6
  BY DEF Stage
<1> QED
  BY <1>1 DEF Stages, Before

LEMMA IndexOfSection == \A i \in 1 .. 5 : IndexOf(Sections[i]) = i
<1> SUFFICES ASSUME NEW i \in 1 .. 5 PROVE IndexOf(Sections[i]) = i
  OBVIOUS
<1>1. DOMAIN Sections = 1 .. 5
  BY DEF Sections
<1>2. \A k \in 1 .. 5 : Sections[k] = Sections[i] => k = i
  <2>1. i = 1 \/ i = 2 \/ i = 3 \/ i = 4 \/ i = 5
    OBVIOUS
  <2> QED
    BY <2>1 DEF Sections
<1> QED
  BY <1>1, <1>2 DEF IndexOf

(* The next section is the first one the scenario expects.                  *)
LEMMA NextSection ==
    ASSUME NEW n \in 0 .. 5
    PROVE  \/ SectionAfter(n) = "kill" /\ \A j \in 1 .. 5 : j > n => Sections[j] \notin sc.expect
           \/ \E i \in 1 .. 5 : /\ SectionAfter(n) = Sections[i]
                                /\ i > n
                                /\ \A j \in 1 .. 5 : n < j /\ j < i => Sections[j] \notin sc.expect
<1> DEFINE rest == {i \in n + 1 .. Len(Sections) : Sections[i] \in sc.expect}
<1>1. Len(Sections) = 5
  BY DEF Sections
<1>2. rest = {i \in 1 .. 5 : i > n /\ Sections[i] \in sc.expect}
  BY <1>1
<1>3. CASE rest = {}
  BY <1>2, <1>3 DEF SectionAfter
<1>4. CASE rest # {}
  <2> DEFINE first == CHOOSE i \in rest : \A j \in rest : i <= j
  <2>1. SectionAfter(n) = Sections[first]
    BY <1>4 DEF SectionAfter
  <2> HIDE DEF rest
  <2>2. \E i \in rest : \A j \in rest : i <= j
    <3>1. 1 \in rest \/ 2 \in rest \/ 3 \in rest \/ 4 \in rest \/ 5 \in rest
      BY <1>2, <1>4
    <3> QED
      BY <1>2, <3>1
  <2>3. first \in rest /\ \A j \in rest : first <= j
    BY <2>2
  <2>4. first \in 1 .. 5 /\ first > n
    BY <1>2, <2>3
  <2>5. \A j \in 1 .. 5 : n < j /\ j < first => Sections[j] \notin sc.expect
    BY <1>2, <2>3, <2>4
  <2> QED
    BY <2>1, <2>4, <2>5
<1> QED
  BY <1>3, <1>4

-----------------------------------------------------------------------------
(* A section is left with a grade, for the next one expected, or goes on.   *)
Leave(i, result) == at \in Stages[i] /\ Record(Sections[i], result)

Leaves == \E i \in 1 .. 5, result \in Grades : Leave(i, result)

Stays == \E i \in 1 .. 5 : at \in Stages[i] /\ at' \in Stages[i] /\ UNCHANGED outcome

LEMMA OutcomeTyped ==
    ASSUME TypeOK, NEW p \in DOMAIN Ungraded, NEW result \in Grades,
           outcome' = [outcome EXCEPT ![p] = result]
    PROVE  /\ outcome' \in [DOMAIN Ungraded -> {"none"} \cup Grades]
           /\ outcome'[p] = result
           /\ \A q \in DOMAIN Ungraded : q # p => outcome'[q] = outcome[q]
BY DEF TypeOK, Grades

LEMMA SectionsDiffer == \A i, j \in 1 .. 5 : Sections[i] = Sections[j] => i = j
BY StageOf DEF Stage

LEMMA LeavesOn ==
    ASSUME VInv, Leaves, UNCHANGED sc
    PROVE  /\ outcome' \in [DOMAIN Ungraded -> {"none"} \cup Grades]
           /\ outcome'["inject"] = outcome["inject"]
           /\ Underway /\ Underway' /\ at' \notin {"killing", "cooldown", "quiet_poll", "detect_poll"}
           /\ Graded'
<1>1. PICK i \in 1 .. 5, result \in Grades : Leave(i, result)
  BY DEF Leaves
<1> DEFINE p == Sections[i]
<1>2. /\ at \in Stages[i] /\ p \in SectionNames /\ i \in Stage
      /\ outcome' = [outcome EXCEPT ![p] = result] /\ at' = SectionAfter(i)
  BY <1>1, StageOf, IndexOfSection DEF Leave, Record, Stage
<1>3. p \in DOMAIN Ungraded /\ p # "inject" /\ "inject" \in DOMAIN Ungraded
  BY <1>2 DEF Ungraded, SectionNames, Sections
<1>4. /\ outcome' \in [DOMAIN Ungraded -> {"none"} \cup Grades]
      /\ outcome'[p] = result
      /\ \A q \in DOMAIN Ungraded : q # p => outcome'[q] = outcome[q]
  BY <1>2, <1>3, OutcomeTyped DEF VInv
<1>5. \A j \in 1 .. 5 : j <= i /\ Sections[j] \in sc.expect => outcome'[Sections[j]] # "none"
  <2> SUFFICES ASSUME NEW j \in 1 .. 5, j <= i, Sections[j] \in sc.expect
               PROVE  outcome'[Sections[j]] # "none"
    OBVIOUS
  <2>1. CASE j = i
    BY <2>1, <1>4 DEF Grades
  <2>2. CASE j # i
    <3>1. outcome[Sections[j]] # "none"
      BY <2>2, <1>2 DEF VInv, Runs, Graded
    <3>2. Sections[j] # p
      BY <2>2, SectionsDiffer
    <3>3. Sections[j] \in DOMAIN Ungraded
      BY StageOf DEF Ungraded
    <3> QED
      BY <3>1, <3>2, <3>3, <1>4
  <2> QED
    BY <2>1, <2>2
<1>6. CASE at' = "kill" /\ \A j \in 1 .. 5 : j > i => Sections[j] \notin sc.expect
  <2>1. \A j \in 1 .. 5 : Sections[j] \in sc.expect => outcome'[Sections[j]] # "none"
    BY <1>5, <1>6
  <2>2. Underway'
    BY <1>6 DEF Underway, Stages, Stage
  <2> QED
    BY <1>2, <1>3, <1>4, <1>6, <2>1, <2>2 DEF Graded, Underway
<1>7. CASE \E k \in 1 .. 5 : /\ at' = Sections[k] /\ k > i
                             /\ \A j \in 1 .. 5 : i < j /\ j < k => Sections[j] \notin sc.expect
  <2>1. PICK k \in 1 .. 5 : /\ at' = Sections[k] /\ k > i
                           /\ \A j \in 1 .. 5 : i < j /\ j < k => Sections[j] \notin sc.expect
    BY <1>7
  <2>2. /\ at' \in Stages[k] /\ k \in Stage
        /\ \A m \in Stage : at' \in Stages[m] => m = k
        /\ at' \notin {"quiet_poll", "detect_poll", "kill"}
    BY <2>1, StageOf DEF Stage
  <2>3. at' \notin {"killing", "cooldown"}
    BY <2>2 DEF Stages
  <2>4. \A j \in 1 .. 5 : j < k /\ Sections[j] \in sc.expect => outcome'[Sections[j]] # "none"
    BY <1>5, <2>1
  <2>5. Underway' /\ Graded'
    BY <2>2, <2>4 DEF Underway, Graded
  <2> QED
    BY <1>2, <1>3, <1>4, <2>2, <2>3, <2>5 DEF Underway
<1> QED
  BY <1>2, <1>6, <1>7, NextSection

LEMMA StaysOn ==
    ASSUME VInv, Stays, UNCHANGED sc
    PROVE  /\ outcome' \in [DOMAIN Ungraded -> {"none"} \cup Grades]
           /\ outcome'["inject"] = outcome["inject"]
           /\ Underway /\ Underway' /\ at' \notin {"killing", "cooldown"}
           /\ Graded'
<1>1. PICK i \in 1 .. 5 : at \in Stages[i] /\ at' \in Stages[i] /\ UNCHANGED outcome
  BY DEF Stays
<1>2. i \in Stage
  BY DEF Stage
<1>3. \A k \in Stage : at' \in Stages[k] => k = i
  BY <1>1, <1>2, StagesApart
<1>4. Graded'
  BY <1>1, <1>2, <1>3 DEF VInv, Runs, Graded
<1>5. at' \notin {"killing", "cooldown"}
  BY <1>3, KillIsLast, <1>1 DEF Stages, Stage
<1> QED
  BY <1>1, <1>2, <1>4, <1>5 DEF VInv, TypeOK, Grades, Underway

(* A step within the sections leaves the runs and the kills as they are.    *)
LEMMA SectionStep ==
    ASSUME VInv, Leaves \/ Stays, UNCHANGED <<control, services>>
    PROVE  Runs' /\ Kills' /\ Underway /\ Underway' /\ outcome' \in [DOMAIN Ungraded -> {"none"} \cup Grades]
<1>1. /\ outcome' \in [DOMAIN Ungraded -> {"none"} \cup Grades]
      /\ outcome'["inject"] = outcome["inject"]
      /\ Underway /\ Underway' /\ at' \notin {"killing", "cooldown"}
      /\ Graded'
  BY LeavesOn, StaysOn DEF control
<1>2. at \notin Before /\ at' \notin Before /\ at' \notin {"done", "exited"}
  BY <1>1, StagesAreNot DEF Underway
<1>3. Placed' /\ Injected' /\ OfRunsSoFar' /\ VerdictHonest'
  BY <1>1, <1>2 DEF VInv, Runs, Placed, Injected, OfRunsSoFar, VerdictHonest, control, services, kills
<1>4. Kills'
  <2>1. at # "killing"
    BY KillIsLast DEF Leaves, Leave, Stays, Stage
  <2> QED
    BY <1>1, <2>1 DEF VInv, Kills, KillsAll, SweptClean, Swept, control, services, kills
<1> QED
  BY <1>1, <1>3, <1>4 DEF Runs

(* And with nothing new on the pager, the pages.                            *)
LEMMA SectionKeeps ==
    ASSUME VInv, Leaves \/ Stays, UNCHANGED <<control, services>>, ~Polling',
           UNCHANGED watching \/ Return
    PROVE  VInv'
<1>1. Runs' /\ Kills' /\ Underway /\ outcome' \in [DOMAIN Ungraded -> {"none"} \cup Grades]
  BY SectionStep
<1>2. alerts' \in [Alerts -> Alert] /\ baseline'.ok \in BOOLEAN /\ standing' \subseteq Alerts
  <2>1. CASE UNCHANGED watching
    BY <2>1 DEF VInv, TypeOK, watching
  <2>2. CASE Return
    <3>1. \A a \in Alerts : [alerts[a] EXCEPT !.since = "no"] \in Alert
      BY DEF VInv, TypeOK, Alert
    <3> QED
      BY <2>2, <3>1 DEF Return, NoBaseline
  <2> QED
    BY <2>1, <2>2
<1>3. TypeOK'
  BY <1>1, <1>2 DEF VInv, TypeOK, Targets, control, services, kills, Grades
<1>4. \A a \in Alerts : alerts'[a].fresh = alerts[a].fresh /\ alerts'[a].lit = alerts[a].lit
  BY DEF VInv, TypeOK, Return, watching, Alert
<1>5. Pages'
  BY <1>1, <1>4 DEF VInv, Pages, FreshIsLit, BaselineKnows
<1> QED
  BY <1>1, <1>3, <1>5 DEF VInv

-----------------------------------------------------------------------------
(* The steps of the sections, but for the baseline and a poll.              *)
LEMMA GradeTyped == ASSUME NEW shown PROVE GradeRCA(shown) \in Grades
BY DEF GradeRCA, Grades

LEMMA RecordLeaves ==
    ASSUME VInv, NEW i \in 1 .. 5, NEW result \in Grades, at \in Stages[i], Record(Sections[i], result),
           UNCHANGED sc
    PROVE  Leaves /\ ~Polling'
<1>1. Leaves
  BY DEF Leaves, Leave
<1> QED
  BY <1>1, LeavesOn DEF Polling

LEMMA AnalysisKeeps ==
    ASSUME VInv, NEW ok \in BOOLEAN, NEW shown \in SUBSET sc.wanted, Analysis(ok, shown)
    PROVE  VInv'
<1>1. PICK result \in Grades : Record("rca", result)
  BY GradeTyped DEF Analysis, Grades
<1>2. at \in Stages[3] /\ Sections[3] = "rca" /\ UNCHANGED <<control, services, watching>>
  BY DEF Analysis, Stages, Sections
<1>3. Leaves /\ ~Polling'
  BY <1>1, <1>2, RecordLeaves DEF control
<1> QED
  BY <1>2, <1>3, SectionKeeps

LEMMA ResultSteps ==
    ASSUME VInv,
           \/ PollOver \/ AnalysisTimeout \/ NotRecovered \/ NoBusiness \/ BusinessHit
           \/ \E ok \in BOOLEAN : \/ TriggerRCA(ok) \/ Remediate(ok) \/ Approve(ok) \/ Recovered(ok)
                                 \/ \E a \in Alerts : PollHit(a, ok)
    PROVE  VInv'
<1>1. /\ Sections[1] = "quiet" /\ Sections[2] = "detect" /\ Sections[3] = "rca"
      /\ Sections[4] = "remediation" /\ Sections[5] = "business"
  BY DEF Sections
<1>2. /\ Stages[1] = {"quiet", "quiet_poll"} /\ Stages[2] = {"detect", "detect_poll"}
      /\ Stages[3] = {"rca", "rca_poll"} /\ Stages[4] = {"remediation", "approve", "recover"}
      /\ Stages[5] = {"business"}
  BY DEF Stages
<1>3. ASSUME NEW i \in 1 .. 5, NEW result \in Grades, at \in Stages[i], Record(Sections[i], result),
             UNCHANGED control
      PROVE  Leaves /\ ~Polling'
  BY <1>3, RecordLeaves DEF control
<1> USE DEF Grades
<1>4. CASE PollOver
  BY <1>1, <1>2, <1>3, <1>4, SectionKeeps DEF PollOver, Polling
<1>5. CASE AnalysisTimeout
  BY <1>1, <1>2, <1>3, <1>5, SectionKeeps DEF AnalysisTimeout
<1>6. CASE NotRecovered
  BY <1>1, <1>2, <1>3, <1>6, SectionKeeps DEF NotRecovered
<1>7. CASE NoBusiness \/ BusinessHit
  BY <1>1, <1>2, <1>3, <1>7, SectionKeeps DEF NoBusiness, BusinessHit
<1>8. ASSUME NEW ok \in BOOLEAN, TriggerRCA(ok) PROVE VInv'
  <2>1. CASE ok
    <3>1. Stays /\ ~Polling'
      BY <1>2, <1>8, <2>1 DEF TriggerRCA, Stays, Polling
    <3> QED
      BY <3>1, <1>8, SectionKeeps DEF TriggerRCA
  <2>2. CASE ~ok
    BY <1>1, <1>2, <1>3, <1>8, <2>2, SectionKeeps DEF TriggerRCA
  <2> QED
    BY <2>1, <2>2
<1>9. ASSUME NEW ok \in BOOLEAN, Remediate(ok) PROVE VInv'
  <2>1. CASE ~SkipRemediation /\ ok
    <3>1. Stays /\ ~Polling'
      BY <1>2, <1>9, <2>1 DEF Remediate, Stays, Polling
    <3> QED
      BY <3>1, <1>9, SectionKeeps DEF Remediate
  <2>2. CASE SkipRemediation \/ ~ok
    BY <1>1, <1>2, <1>3, <1>9, <2>2, SectionKeeps DEF Remediate
  <2> QED
    BY <2>1, <2>2
<1>10. ASSUME NEW ok \in BOOLEAN, Approve(ok) PROVE VInv'
  <2>1. CASE ok
    <3>1. Stays /\ ~Polling'
      BY <1>2, <1>10, <2>1 DEF Approve, Stays, Polling
    <3> QED
      BY <3>1, <1>10, SectionKeeps DEF Approve
  <2>2. CASE ~ok
    BY <1>1, <1>2, <1>3, <1>10, <2>2, SectionKeeps DEF Approve
  <2> QED
    BY <2>1, <2>2
<1>11. ASSUME NEW ok \in BOOLEAN, Recovered(ok) PROVE VInv'
  BY <1>1, <1>2, <1>3, <1>11, SectionKeeps DEF Recovered
<1>12. ASSUME NEW ok \in BOOLEAN, NEW a \in Alerts, PollHit(a, ok) PROVE VInv'
  BY <1>1, <1>2, <1>3, <1>12, SectionKeeps DEF PollHit, Polling
<1> QED
  BY <1>4, <1>5, <1>6, <1>7, <1>8, <1>9, <1>10, <1>11, <1>12

-----------------------------------------------------------------------------
(* A phase begins, and looks again.                                         *)
LEMMA BaselineKeeps == ASSUME VInv, NEW ok \in BOOLEAN, Baseline(ok) PROVE VInv'
<1>1. /\ baseline' = [ok |-> ok, dedup |-> IF ok
                          THEN [a \in {x \in sc.watch : alerts[x].firing} |-> alerts[a].dedup] ELSE <<>>]
      /\ alerts' = [a \in Alerts |-> [alerts[a] EXCEPT !.since = "no"]]
      /\ standing' = {} /\ UNCHANGED <<control, outcome, services>>
  BY DEF Baseline
<1>2. Stays
  <2>1. \/ at \in Stages[1] /\ at' \in Stages[1]
        \/ at \in Stages[2] /\ at' \in Stages[2]
    BY DEF Baseline, Stages
  <2> QED
    BY <2>1, <1>1 DEF Stays
<1>3. Runs' /\ Kills' /\ Underway
  BY <1>1, <1>2, SectionStep
<1>4. \A a \in Alerts : alerts'[a] = [alerts[a] EXCEPT !.since = "no"] /\ alerts'[a] \in Alert
  BY <1>1 DEF VInv, TypeOK, Alert
<1>5. TypeOK'
  BY <1>1, <1>4 DEF VInv, TypeOK, Targets, control, services, kills
<1>6. FreshIsLit'
  <2>1. \A a \in Alerts : alerts[a] \in Alert
    BY DEF VInv, TypeOK
  <2>2. \A a \in Alerts : alerts'[a].fresh = alerts[a].fresh /\ alerts'[a].lit = alerts[a].lit
    BY <1>4, <2>1 DEF Alert
  <2>3. \A a \in Alerts : alerts[a].fresh => alerts[a].lit
    BY <1>3 DEF VInv, Pages, FreshIsLit
  <2> QED
    BY <2>2, <2>3 DEF FreshIsLit
<1>7. sc.watch \subseteq Alerts
  BY ScenarioAssumption DEF VInv, TypeOK
<1>8. \A a \in sc.watch : /\ alerts'[a].firing = alerts[a].firing /\ alerts'[a].dedup = alerts[a].dedup
                          /\ alerts'[a].since = "no" /\ alerts[a].dedup \in Nat
  <2> SUFFICES ASSUME NEW a \in sc.watch
               PROVE  /\ alerts'[a].firing = alerts[a].firing /\ alerts'[a].dedup = alerts[a].dedup
                      /\ alerts'[a].since = "no" /\ alerts[a].dedup \in Nat
    OBVIOUS
  <2>1. alerts[a] \in Alert /\ alerts'[a] = [alerts[a] EXCEPT !.since = "no"]
    BY <1>4, <1>7 DEF VInv, TypeOK
  <2> QED
    BY <2>1, ScenarioAssumption DEF Alert
<1>9. BaselineKnows'
  <2> SUFFICES ASSUME NEW a \in sc.watch
               PROVE  (/\ baseline.ok /\ alerts[a].firing /\ a \notin DOMAIN baseline.dedup => alerts[a].lit
                       /\ a \in DOMAIN baseline.dedup =>
                             /\ baseline.dedup[a] \in Nat
                             /\ alerts[a].fresh \/ alerts[a].dedup >= baseline.dedup[a]
                             /\ baseline.ok /\ alerts[a].dedup > baseline.dedup[a] => alerts[a].lit
                             /\ alerts[a].since = "paged" =>
                                   alerts[a].fresh \/ alerts[a].dedup > baseline.dedup[a])'
    BY <1>1 DEF BaselineKnows, control
  <2>1. CASE ok
    <3>1. /\ baseline'.dedup = [y \in {x \in sc.watch : alerts[x].firing} |-> alerts[y].dedup]
          /\ a \in DOMAIN baseline'.dedup <=> alerts[a].firing
      BY <1>1, <2>1
    <3>2. a \in DOMAIN baseline'.dedup => baseline'.dedup[a] = alerts[a].dedup
      BY <3>1
    <3> QED
      BY <1>8, <3>1, <3>2
  <2>2. CASE ~ok
    <3>1. DOMAIN baseline'.dedup = {} /\ baseline'.ok = FALSE
      BY <1>1, <2>2
    <3> QED
      BY <3>1
  <2> QED
    BY <2>1, <2>2
<1> QED
  BY <1>3, <1>5, <1>6, <1>9 DEF VInv, Pages

LEMMA PollKeeps == ASSUME VInv, NEW ok \in BOOLEAN, Poll(ok) PROVE VInv'
<1>1. UNCHANGED <<control, at, outcome, services, alerts, baseline>>
  BY DEF Poll
<1>2. standing' \subseteq Alerts
  BY ScenarioAssumption DEF VInv, TypeOK, Poll
<1>3. TypeOK' /\ Pages'
  BY <1>1, <1>2 DEF VInv, TypeOK, Pages, FreshIsLit, BaselineKnows, Polling, Underway, Targets,
     control, services, kills
<1>4. Runs' /\ Kills'
  BY <1>1 DEF VInv, Runs, Placed, Underway, Graded, Injected, OfRunsSoFar, VerdictHonest,
     Kills, KillsAll, SweptClean, Swept, control, services, kills
<1> QED
  BY <1>3, <1>4 DEF VInv

-----------------------------------------------------------------------------
(* The product's own steps.                                                 *)
LEMMA AlertStep ==
    ASSUME VInv, UNCHANGED <<control, at, outcome, services, baseline, standing>>,
           alerts' \in [Alerts -> Alert], Pages'
    PROVE  VInv'
<1>1. TypeOK'
  BY DEF VInv, TypeOK, Targets, control, services, kills
<1>2. Runs' /\ Kills'
  BY DEF VInv, Runs, Placed, Underway, Graded, Injected, OfRunsSoFar, VerdictHonest,
     Kills, KillsAll, SweptClean, Swept, control, services, kills
<1> QED
  BY <1>1, <1>2 DEF VInv

(* What one alert may become.                                               *)
LEMMA OneAlert ==
    ASSUME VInv, NEW a \in Alerts, NEW x \in Alert, alerts' = [alerts EXCEPT ![a] = x],
           UNCHANGED <<control, at, outcome, services, baseline, standing>>,
           x.fresh => x.lit \/ alerts[a].fresh,
           alerts[a].lit => x.lit,
           x.firing => x.lit \/ alerts[a].firing,
           alerts[a].fresh => x.fresh,
           x.fresh \/ x.dedup >= alerts[a].dedup,
           x.dedup > alerts[a].dedup => x.lit,
           \/ ~Polling
           \/ x.since = "paged" => x.fresh \/ x.dedup > alerts[a].dedup
                                \/ (alerts[a].since = "paged" /\ x.dedup = alerts[a].dedup)
    PROVE  VInv'
<1>1. alerts' \in [Alerts -> Alert] /\ alerts'[a] = x /\ \A b \in Alerts : b # a => alerts'[b] = alerts[b]
  BY DEF VInv, TypeOK
<1>2. FreshIsLit'
  BY <1>1 DEF VInv, Pages, FreshIsLit, Underway
<1>3. \A b \in Alerts : alerts[b].dedup \in Nat /\ x.dedup \in Nat
  BY ScenarioAssumption DEF VInv, TypeOK, Alert
<1>4. BaselineKnows'
  <2> SUFFICES ASSUME Polling, NEW b \in sc.watch
               PROVE  (/\ baseline.ok /\ alerts[b].firing /\ b \notin DOMAIN baseline.dedup => alerts[b].lit
                       /\ b \in DOMAIN baseline.dedup =>
                             /\ baseline.dedup[b] \in Nat
                             /\ alerts[b].fresh \/ alerts[b].dedup >= baseline.dedup[b]
                             /\ baseline.ok /\ alerts[b].dedup > baseline.dedup[b] => alerts[b].lit
                             /\ alerts[b].since = "paged" =>
                                   alerts[b].fresh \/ alerts[b].dedup > baseline.dedup[b])'
    BY DEF BaselineKnows, control, Polling
  <2>1. b \in Alerts
    BY ScenarioAssumption DEF VInv, TypeOK
  <2>2. /\ baseline.ok /\ alerts[b].firing /\ b \notin DOMAIN baseline.dedup => alerts[b].lit
        /\ b \in DOMAIN baseline.dedup =>
              /\ baseline.dedup[b] \in Nat
              /\ alerts[b].fresh \/ alerts[b].dedup >= baseline.dedup[b]
              /\ baseline.ok /\ alerts[b].dedup > baseline.dedup[b] => alerts[b].lit
              /\ alerts[b].since = "paged" => alerts[b].fresh \/ alerts[b].dedup > baseline.dedup[b]
    BY DEF VInv, Pages, BaselineKnows
  <2>3. CASE b # a
    BY <1>1, <2>1, <2>2, <2>3
  <2>4. CASE b = a
    <3>1. alerts'[b] = x
      BY <1>1, <2>4
    <3>2. b \notin DOMAIN baseline.dedup => (baseline.ok /\ x.firing => x.lit)
      BY <2>2, <2>4
    <3>3. ASSUME b \in DOMAIN baseline.dedup
          PROVE  /\ baseline.dedup[b] \in Nat
                 /\ x.fresh \/ x.dedup >= baseline.dedup[b]
                 /\ baseline.ok /\ x.dedup > baseline.dedup[b] => x.lit
                 /\ x.since = "paged" => x.fresh \/ x.dedup > baseline.dedup[b]
      <4>1. baseline.dedup[b] \in Nat /\ alerts[a].dedup \in Nat /\ x.dedup \in Nat
        BY <2>2, <3>3, <1>3
      <4>2. x.fresh \/ x.dedup >= baseline.dedup[b]
        BY <2>2, <2>4, <3>3, <4>1
      <4>3. baseline.ok /\ x.dedup > baseline.dedup[b] => x.lit
        BY <2>2, <2>4, <3>3, <4>1
      <4>4. x.since = "paged" => x.fresh \/ x.dedup > baseline.dedup[b]
        BY <2>2, <2>4, <3>3, <4>1
      <4> QED
        BY <4>1, <4>2, <4>3, <4>4
    <3> QED
      BY <3>1, <3>2, <3>3
  <2> QED
    BY <2>3, <2>4
<1> QED
  BY <1>1, <1>2, <1>4, AlertStep DEF Pages

LEMMA EngineKeeps == ASSUME VInv, Engine PROVE VInv'
<1>1. PICK a \in Alerts : Page(a) \/ Absorb(a) \/ Resurrect(a) \/ Resolve(a)
  BY DEF Engine
<1>2. alerts \in [Alerts -> Alert] /\ alerts[a] \in Alert /\ MaxDedup \in Nat
  BY ScenarioAssumption DEF VInv, TypeOK
<1>3. PagedNow \in {"no", "paged"} /\ (Polling => PagedNow = "paged")
  BY DEF PagedNow
<1>4. CASE Page(a)
  <2> DEFINE x == [firing |-> TRUE, fresh |-> TRUE, lit |-> TRUE, since |-> PagedNow, dedup |-> 0]
  <2>1. x \in Alert
    BY <1>2, <1>3 DEF Alert
  <2> QED
    BY <1>2, <1>4, <2>1, OneAlert DEF Page
<1>5. CASE Absorb(a)
  <2> DEFINE x == [alerts[a] EXCEPT !.dedup = alerts[a].dedup + 1, !.lit = TRUE, !.since = PagedNow]
  <2>1. alerts' = [alerts EXCEPT ![a] = x]
    BY <1>2, <1>5 DEF Absorb
  <2>2. /\ x.firing = alerts[a].firing /\ x.fresh = alerts[a].fresh /\ x.lit = TRUE
        /\ x.since = PagedNow /\ x.dedup = alerts[a].dedup + 1
    BY <1>2 DEF Alert
  <2>3. x.dedup \in 0 .. MaxDedup /\ x.dedup > alerts[a].dedup
    BY <1>2, <1>5, <2>2 DEF Absorb, Alert
  <2>4. x \in Alert
    BY <1>2, <1>3, <2>3 DEF Alert
  <2>5. /\ alerts[a].firing /\ alerts[a].dedup \in Nat /\ x.dedup \in Nat
        /\ UNCHANGED <<control, at, outcome, services, baseline, standing>>
    BY <1>2, <1>5, <2>3 DEF Absorb, Alert
  <2> HIDE DEF x
  <2>6. /\ x.fresh => x.lit \/ alerts[a].fresh
        /\ alerts[a].lit => x.lit
        /\ x.firing => x.lit \/ alerts[a].firing
        /\ alerts[a].fresh => x.fresh
        /\ x.fresh \/ x.dedup >= alerts[a].dedup
        /\ x.dedup > alerts[a].dedup => x.lit
        /\ \/ ~Polling
           \/ x.since = "paged" => x.fresh \/ x.dedup > alerts[a].dedup
                                \/ (alerts[a].since = "paged" /\ x.dedup = alerts[a].dedup)
    BY <2>2, <2>3, <2>5
  <2> QED
    BY <2>1, <2>4, <2>5, <2>6, OneAlert
<1>6. CASE Resurrect(a)
  <2> DEFINE x == [alerts[a] EXCEPT !.firing = TRUE, !.lit = TRUE,
                                    !.since = IF Polling /\ alerts[a].since = "no" THEN "back" ELSE alerts[a].since]
  <2>1. alerts' = [alerts EXCEPT ![a] = x]
    BY <1>2, <1>6 DEF Resurrect
  <2>2. /\ x.firing = TRUE /\ x.fresh = alerts[a].fresh /\ x.lit = TRUE /\ x.dedup = alerts[a].dedup
        /\ x.since = IF Polling /\ alerts[a].since = "no" THEN "back" ELSE alerts[a].since
    BY <1>2 DEF Alert
  <2>3. x \in Alert
    BY <1>2 DEF Alert
  <2>4. /\ ~alerts[a].firing /\ alerts[a].dedup \in Nat /\ x.dedup \in Nat
        /\ UNCHANGED <<control, at, outcome, services, baseline, standing>>
    BY <1>2, <1>6, <2>2 DEF Resurrect, Alert
  <2> HIDE DEF x
  <2>5. /\ x.fresh => x.lit \/ alerts[a].fresh
        /\ alerts[a].lit => x.lit
        /\ x.firing => x.lit \/ alerts[a].firing
        /\ alerts[a].fresh => x.fresh
        /\ x.fresh \/ x.dedup >= alerts[a].dedup
        /\ x.dedup > alerts[a].dedup => x.lit
        /\ \/ ~Polling
           \/ x.since = "paged" => x.fresh \/ x.dedup > alerts[a].dedup
                                \/ (alerts[a].since = "paged" /\ x.dedup = alerts[a].dedup)
    BY <2>2, <2>4
  <2> QED
    BY <2>1, <2>3, <2>4, <2>5, OneAlert
<1>7. CASE Resolve(a)
  <2> DEFINE x == [alerts[a] EXCEPT !.firing = FALSE]
  <2>1. alerts' = [alerts EXCEPT ![a] = x]
    BY <1>2, <1>7 DEF Resolve
  <2>2. /\ x.firing = FALSE /\ x.fresh = alerts[a].fresh /\ x.lit = alerts[a].lit /\ x.dedup = alerts[a].dedup
        /\ x.since = alerts[a].since
    BY <1>2 DEF Alert
  <2>3. x \in Alert
    BY <1>2 DEF Alert
  <2>4. /\ alerts[a].firing /\ alerts[a].dedup \in Nat /\ x.dedup \in Nat
        /\ UNCHANGED <<control, at, outcome, services, baseline, standing>>
    BY <1>2, <1>7, <2>2 DEF Resolve, Alert
  <2> HIDE DEF x
  <2>5. /\ x.fresh => x.lit \/ alerts[a].fresh
        /\ alerts[a].lit => x.lit
        /\ x.firing => x.lit \/ alerts[a].firing
        /\ alerts[a].fresh => x.fresh
        /\ x.fresh \/ x.dedup >= alerts[a].dedup
        /\ x.dedup > alerts[a].dedup => x.lit
        /\ \/ ~Polling
           \/ x.since = "paged" => x.fresh \/ x.dedup > alerts[a].dedup
                                \/ (alerts[a].since = "paged" /\ x.dedup = alerts[a].dedup)
    BY <2>2, <2>4
  <2> QED
    BY <2>1, <2>3, <2>4, <2>5, OneAlert
<1> QED
  BY <1>1, <1>4, <1>5, <1>6, <1>7

-----------------------------------------------------------------------------
(* Injections arrive, sweeps go on and faults end, at any time.             *)
LEMMA ArrivalStep ==
    ASSUME VInv, UNCHANGED <<control, at, outcome, toKill, calling, killed, missed, watching>>,
           pending' \subseteq pending, faults' \subseteq Found, sweeps' \subseteq Sweeps,
           \A f \in faults' : \E g \in pending \cup faults : f.run = g.run,
           SweptClean'
    PROVE  VInv'
<1>1. TypeOK'
  BY DEF VInv, TypeOK, Targets, control, watching, Found, Sweeps
<1>2. \A f \in pending' \cup faults' : \E g \in pending \cup faults : f.run = g.run
  OBVIOUS
<1>3. OfRunsSoFar' /\ VerdictHonest'
  BY <1>2 DEF VInv, Runs, OfRunsSoFar, VerdictHonest, control
<1>4. Placed' /\ Graded' /\ Injected'
  BY DEF VInv, Runs, Placed, Underway, Graded, Injected, control
<1>5. KillsAll'
  BY DEF VInv, Kills, KillsAll, control
<1>6. Pages'
  BY DEF VInv, Pages, FreshIsLit, BaselineKnows, Polling, Underway, control, watching
<1> QED
  BY <1>1, <1>3, <1>4, <1>5, <1>6 DEF VInv, Runs, Kills

LEMMA DeliverKeeps == ASSUME VInv, NEW g \in pending, NEW ok \in BOOLEAN, Deliver(g, ok) PROVE VInv'
<1> DEFINE new == [run |-> g.run, inj |-> g.inj, late |-> Passed(g.inj)]
<1>1. /\ UNCHANGED <<control, at, outcome, kills, watching>>
      /\ pending' \subseteq pending
      /\ \A f \in faults' : f \in faults \/ f = new
  BY DEF Deliver
<1>2. g.run \in 1 .. MaxRuns /\ g.inj \in AllInjections
  BY DEF VInv, TypeOK
<1>3. Passed(g.inj) \in BOOLEAN
  BY DEF Passed
<1>4. new \in Found /\ new.run = g.run /\ new.inj = g.inj /\ new.late = Passed(g.inj)
  BY <1>2, <1>3 DEF Found
<1> HIDE DEF new
<1>5. faults' \subseteq Found /\ sweeps' \subseteq Sweeps
  BY <1>1, <1>4 DEF VInv, TypeOK, Found, Sweeps, kills
<1>6. \A f \in faults' : \E h \in pending \cup faults : f.run = h.run
  BY <1>1, <1>4
<1>7. SweptClean'
  <2>1. \A w \in sweeps : w.run = run /\ new.inj.target = w.target /\ new.inj.type \notin w.todo => new.late
    BY <1>4 DEF Passed
  <2> QED
    BY <1>1, <2>1 DEF VInv, Kills, SweptClean, Swept, kills, control
<1> QED
  BY <1>1, <1>5, <1>6, <1>7, ArrivalStep DEF kills

LEMMA FaultEndsKeeps == ASSUME VInv, NEW f \in faults, FaultEnds(f) PROVE VInv'
<1>1. /\ UNCHANGED <<control, at, outcome, pending, kills, watching>>
      /\ faults' \subseteq faults
  BY DEF FaultEnds
<1>2. faults' \subseteq Found /\ sweeps' \subseteq Sweeps
  BY <1>1 DEF VInv, TypeOK, Found, Sweeps, kills
<1>3. SweptClean'
  BY <1>1 DEF VInv, Kills, SweptClean, Swept, kills, control
<1> QED
  BY <1>1, <1>2, <1>3, ArrivalStep DEF kills

(* A sweep that comes past a type leaves no fault of it, and remembers.     *)
LEMMA ClearKeeps == ASSUME VInv, NEW w \in sweeps, NEW type \in w.todo, Clear(w, type) PROVE VInv'
<1> DEFINE less == [w EXCEPT !.todo = w.todo \ {type}]
<1>1. /\ UNCHANGED <<control, at, outcome, pending, toKill, calling, killed, missed, watching>>
      /\ faults' = {f \in faults : f.inj.target = w.target /\ f.inj.type = type => f.inj.path}
      /\ sweeps' = (sweeps \ {w}) \cup {v \in {less} : v.run = run \/ v.todo # {}}
  BY DEF Clear
<1>2. w \in Sweeps
  BY DEF VInv, TypeOK, Sweeps
<1>3. /\ less \in Sweeps /\ less.run = w.run /\ less.target = w.target
      /\ less.todo = w.todo \ {type}
  BY <1>2 DEF Sweeps
<1> HIDE DEF less
<1>4. faults' \subseteq Found /\ sweeps' \subseteq Sweeps
  BY <1>1, <1>3 DEF VInv, TypeOK, Found, Sweeps
<1>5. \A v \in sweeps' : v \in sweeps \/ v = less
  BY <1>1
<1>6. SweptClean'
  <2>0. run' = run /\ killed' = killed
    BY <1>1 DEF control
  <2>1. \A v \in sweeps' : v.run <= run
    BY <1>3, <1>5 DEF VInv, Kills, SweptClean
  <2>2. ASSUME NEW v \in sweeps', NEW f \in faults', v.run = run, f.inj.target = v.target,
               ~f.inj.path, f.inj.type \notin v.todo
        PROVE  f.late
    <3>1. f \in faults
      BY <1>1
    <3>2. CASE v \in sweeps
      BY <2>2, <3>1, <3>2 DEF VInv, Kills, SweptClean
    <3>3. CASE v = less
      <4>1. w.run = run /\ f.inj.target = w.target /\ f.inj.type # type
        BY <1>1, <1>3, <2>2, <3>3
      <4>2. f.inj.type \notin w.todo
        BY <1>3, <2>2, <3>3, <4>1
      <4> QED
        BY <2>2, <3>1, <4>1, <4>2 DEF VInv, Kills, SweptClean
    <3> QED
      BY <1>5, <3>2, <3>3
  <2>3. ASSUME NEW t \in killed PROVE \E v \in sweeps' : v.run = run /\ v.target = t /\ v.todo = {}
    <3>1. PICK v \in sweeps : v.run = run /\ v.target = t /\ v.todo = {}
      BY DEF VInv, Kills, SweptClean, Swept
    <3>2. v \in sweeps'
      BY <1>1, <3>1
    <3> QED
      BY <3>1, <3>2
  <2> QED
    BY <2>0, <2>1, <2>2, <2>3 DEF SweptClean, Swept
<1> QED
  BY <1>1, <1>4, <1>6, ArrivalStep

-----------------------------------------------------------------------------
(* The loop of the suite, and the phases around the sections.               *)
LEMMA FirstStep ==
    ASSUME VInv, NEW s \in Scenarios, NextScenario(s)
    PROVE  VInv'
<1>1. /\ at = "done" /\ run < MaxRuns /\ sc' = s /\ run' = run + 1 /\ at' = "preflight"
      /\ outcome' = Ungraded /\ passed' = FALSE
      /\ toKill' = {} /\ killed' = {} /\ missed' = {} /\ sweeps' \subseteq sweeps
      /\ faults' = {[f EXCEPT !.late = FALSE] : f \in faults}
      /\ UNCHANGED <<cancelled, pending, calling, watching>>
  BY DEF NextScenario
<1>2. run \in Nat /\ run' \in 0 .. MaxRuns /\ run' > 0
  BY <1>1, ScenarioAssumption DEF VInv, TypeOK
<1>3. ~Underway' /\ ~Polling' /\ at' \in Before /\ at' \notin {"done", "exited", "killing", "cooldown"}
  BY <1>1, StagesAreNot DEF Underway, Polling, Before
<1>a. calling = {}
  BY <1>1 DEF VInv, Kills, KillsAll
<1>b. \A f \in faults : /\ [f EXCEPT !.late = FALSE] \in Found
                       /\ [f EXCEPT !.late = FALSE].run = f.run
  BY DEF VInv, TypeOK, Found
<1>c. faults' \subseteq Found /\ \A f \in faults' : \E g \in faults : f.run = g.run
  BY <1>1, <1>b
<1>4. TypeOK'
  BY <1>1, <1>2, <1>a, <1>c DEF VInv, TypeOK, Ungraded, Found, watching
<1>5. \A g \in pending \cup faults : g.run \in Nat /\ g.run <= run
  BY DEF VInv, TypeOK, Runs, OfRunsSoFar
<1>6. OfRunsSoFar'
  BY <1>1, <1>2, <1>5, <1>c DEF OfRunsSoFar
<1>7. Placed' /\ Graded' /\ Injected' /\ VerdictHonest'
  BY <1>2, <1>3 DEF Placed, Graded, Injected, VerdictHonest, Underway
<1>8. Kills'
  <2>1. \A w \in sweeps : w.run \in Nat /\ w.run <= run
    BY DEF VInv, TypeOK, Kills, SweptClean
  <2>2. \A w \in sweeps' : w.run <= run' /\ w.run # run'
    BY <1>1, <1>2, <2>1
  <2> QED
    BY <1>1, <1>3, <1>a, <2>2 DEF Kills, KillsAll, SweptClean
<1>9. Pages'
  BY <1>3 DEF Pages, FreshIsLit, BaselineKnows
<1> QED
  BY <1>4, <1>6, <1>7, <1>8, <1>9 DEF VInv, Runs

(* finish: what it returns is what it recorded.                             *)
LEMMA FinishKeeps ==
    ASSUME VInv, NEW p \in DOMAIN Ungraded, NEW result \in Grades, Finish(p, result),
           UNCHANGED <<sc, run, cancelled, services, watching>>,
           Verdict(outcome') =>
              /\ \A q \in sc.expect : outcome'[q] \in {"pass", "skip", "degraded"}
              /\ outcome'["inject"] = "pass" /\ outcome'["cooldown"] = "pass",
           outcome'["cooldown"] = "none" => at \in Before,
           at # "killing"
    PROVE  VInv'
<1>1. outcome' = [outcome EXCEPT ![p] = result] /\ at' = "done" /\ passed' = Verdict(outcome')
  BY DEF Finish
<1>2. outcome' \in [DOMAIN Ungraded -> {"none"} \cup Grades]
  BY <1>1, OutcomeTyped DEF VInv
<1>3. ~Underway' /\ ~Polling' /\ at' \notin Before
  BY <1>1, StagesAreNot DEF Underway, Polling, Before
<1>4. passed' \in BOOLEAN
  BY <1>1 DEF Verdict
<1>5. TypeOK'
  BY <1>2, <1>4 DEF VInv, TypeOK, Targets, Grades, services, kills, watching
<1>6. \A g \in pending \cup faults : g.run \in Nat /\ g.run <= run
  BY DEF VInv, TypeOK, Runs, OfRunsSoFar
<1>7. OfRunsSoFar'
  BY <1>3, <1>6 DEF OfRunsSoFar, services, kills
<1>8. at \in Before => \A g \in pending \cup faults : g.run # run
  BY DEF VInv, TypeOK, Runs, OfRunsSoFar
<1>9. VerdictHonest'
  <2>1. CASE Verdict(outcome')
    BY <1>1, <2>1 DEF VerdictHonest
  <2>2. CASE ~Verdict(outcome')
    <3>1. \E q \in DOMAIN outcome' : outcome'[q] = "fail"
      BY <2>2 DEF Verdict
    <3> QED
      BY <1>1, <1>8, <2>2, <3>1 DEF VerdictHonest, services, kills
  <2> QED
    BY <2>1, <2>2
<1>10. Placed' /\ Graded' /\ Injected'
  BY <1>1, <1>3 DEF Placed, Graded, Injected, Underway
<1>11. Kills'
  BY <1>1 DEF VInv, Kills, KillsAll, SweptClean, Swept, services, kills
<1>12. Pages'
  BY <1>3 DEF Pages, FreshIsLit, BaselineKnows
<1> QED
  BY <1>5, <1>7, <1>9, <1>10, <1>11, <1>12 DEF VInv, Runs

(* A phase before the injection passes, or ends the run.                    *)
LEMMA EarlyStep ==
    ASSUME VInv, NEW ok \in BOOLEAN, Preflight(ok) \/ SetUp(ok)
    PROVE  VInv'
<1>1. at \in {"preflight", "setup"} /\ at \in Before
  BY DEF Preflight, SetUp, Before
<1>2. CASE ok
  <2>1. /\ at' \in {"setup", "inject"} /\ passed' = passed
        /\ \E p \in {"preflight", "setup"} : outcome' = [outcome EXCEPT ![p] = "pass"]
        /\ UNCHANGED <<sc, run, cancelled, services, watching>>
    BY <1>2 DEF Preflight, SetUp
  <2>2. outcome' \in [DOMAIN Ungraded -> {"none"} \cup Grades]
    BY <2>1, OutcomeTyped DEF VInv, Grades, Ungraded
  <2>3. TypeOK'
    BY <2>1, <2>2 DEF VInv, TypeOK, Targets, Grades, services, kills, watching
  <2>4. ~Underway' /\ ~Polling' /\ at' \in Before /\ at' \notin {"done", "killing", "cooldown"}
    BY <2>1, StagesAreNot DEF Underway, Polling, Before
  <2>5. Runs'
    BY <1>1, <2>1, <2>4 DEF VInv, Runs, Placed, Graded, Injected, OfRunsSoFar, VerdictHonest, Underway,
       services, kills
  <2>6. Kills'
    BY <1>1, <2>1, <2>4 DEF VInv, Kills, KillsAll, SweptClean, Swept, services, kills
  <2>7. Pages'
    BY <2>4 DEF Pages, FreshIsLit, BaselineKnows
  <2> QED
    BY <2>3, <2>5, <2>6, <2>7 DEF VInv
<1>3. CASE ~ok
  <2>1. PICK p \in {"preflight", "setup"} : Finish(p, "fail")
    BY <1>3 DEF Preflight, SetUp
  <2>2. UNCHANGED <<sc, run, cancelled, services, watching>> /\ p \in DOMAIN Ungraded
    BY DEF Preflight, SetUp, Ungraded
  <2>3. outcome' = [outcome EXCEPT ![p] = "fail"]
    BY <2>1 DEF Finish
  <2>4. outcome'[p] = "fail" /\ p \in DOMAIN outcome'
    BY <2>2, <2>3, OutcomeTyped DEF VInv, Grades
  <2>5. ~Verdict(outcome')
    BY <2>4 DEF Verdict
  <2> QED
    BY <1>1, <2>1, <2>2, <2>5, FinishKeeps DEF Grades
<1> QED
  BY <1>2, <1>3

LEMMA DispatchKeeps ==
    ASSUME VInv, NEW recent \in SUBSET Alerts, Dispatch(recent)
    PROVE  VInv'
<1>1. /\ at = "inject" /\ at' = SectionAfter(0)
      /\ pending' = pending \cup {[run |-> run, inj |-> i] : i \in sc.inject}
      /\ outcome' = [outcome EXCEPT !["inject"] = "pass"]
      /\ alerts' = [a \in Alerts |-> [alerts[a] EXCEPT !.fresh = a \in recent, !.lit = a \in recent]]
      /\ UNCHANGED <<control, faults, kills, baseline, standing>>
  BY DEF Dispatch
<1>2. /\ outcome' \in [DOMAIN Ungraded -> {"none"} \cup Grades]
      /\ outcome'["inject"] = "pass"
  BY <1>1, OutcomeTyped DEF VInv, Grades, Ungraded
<1>3. Underway' /\ Graded' /\ at' \notin {"killing", "cooldown", "quiet_poll", "detect_poll"}
  <2>1. CASE at' = "kill" /\ \A j \in 1 .. 5 : Sections[j] \notin sc.expect
    <3>1. Graded'
      BY <2>1, <1>1 DEF Graded, control
    <3>2. Underway'
      BY <2>1 DEF Underway, Stages, Stage
    <3> QED
      BY <2>1, <3>1, <3>2
  <2>2. ASSUME NEW k \in 1 .. 5, at' = Sections[k],
               \A j \in 1 .. 5 : j < k => Sections[j] \notin sc.expect
        PROVE  Underway' /\ Graded' /\ at' \notin {"killing", "cooldown", "quiet_poll", "detect_poll"}
    <3>1. /\ at' \in Stages[k] /\ k \in Stage
          /\ \A m \in Stage : at' \in Stages[m] => m = k
          /\ at' \notin {"quiet_poll", "detect_poll"}
      BY <2>2, StageOf DEF Stage
    <3>2. at' \notin {"killing", "cooldown"}
      BY <3>1 DEF Stages
    <3> QED
      BY <1>1, <2>2, <3>1, <3>2 DEF Underway, Graded, control
  <2>3. \/ at' = "kill" /\ \A j \in 1 .. 5 : j > 0 => Sections[j] \notin sc.expect
        \/ \E i \in 1 .. 5 : /\ at' = Sections[i]
                             /\ \A j \in 1 .. 5 : 0 < j /\ j < i => Sections[j] \notin sc.expect
    <3>1. 0 \in 0 .. 5
      OBVIOUS
    <3> QED
      BY <1>1, <3>1, NextSection
  <2>4. \A j \in 1 .. 5 : j > 0 /\ 0 < j
    OBVIOUS
  <2> QED
    BY <2>1, <2>2, <2>3, <2>4
<1>4. at' \notin Before /\ at' \notin {"done", "exited"}
  BY <1>3, StagesAreNot DEF Underway
<1>5. run \in 1 .. MaxRuns /\ run > 0
  <2>1. run \in 0 .. MaxRuns /\ MaxRuns \in Nat
    BY ScenarioAssumption DEF VInv, TypeOK
  <2>2. run > 0
    BY <1>1 DEF VInv, Runs, Placed, Before
  <2> QED
    BY <2>1, <2>2
<1>6. pending' \subseteq Injections
  <2>1. pending \subseteq Injections /\ sc \in Scenarios
    BY DEF VInv, TypeOK, Injections
  <2>2. \A i \in sc.inject : [run |-> run, inj |-> i] \in Injections
    BY <1>5, <2>1 DEF Injections, AllInjections
  <2> QED
    BY <1>1, <2>1, <2>2
<1>7. alerts' \in [Alerts -> Alert] /\ \A a \in Alerts : alerts'[a].fresh = alerts'[a].lit
  <2>1. ASSUME NEW a \in Alerts
        PROVE  /\ [alerts[a] EXCEPT !.fresh = a \in recent, !.lit = a \in recent] \in Alert
               /\ [alerts[a] EXCEPT !.fresh = a \in recent, !.lit = a \in recent].fresh = (a \in recent)
               /\ [alerts[a] EXCEPT !.fresh = a \in recent, !.lit = a \in recent].lit = (a \in recent)
    <3>1. alerts[a] \in Alert /\ (a \in recent) \in BOOLEAN
      BY DEF VInv, TypeOK
    <3> QED
      BY <3>1 DEF Alert
  <2> QED
    BY <1>1, <2>1
<1>8. TypeOK'
  BY <1>1, <1>2, <1>6, <1>7 DEF VInv, TypeOK, Targets, Grades, Injections, control, kills
<1>9. OfRunsSoFar'
  <2>1. \A g \in pending' \cup faults' : g \in pending \cup faults \/ g.run = run
    <3>1. \A i \in sc.inject : [run |-> run, inj |-> i].run = run
      OBVIOUS
    <3> QED
      BY <1>1, <3>1
  <2>2. \A g \in pending' \cup faults' : g.run <= run
    BY <1>5, <2>1 DEF VInv, Runs, OfRunsSoFar
  <2> QED
    BY <1>1, <1>4, <2>2 DEF OfRunsSoFar, control
<1>10. Placed' /\ Injected' /\ VerdictHonest'
  <2>1. run' = run
    BY <1>1 DEF control
  <2>2. Placed'
    BY <1>3, <1>5, <2>1 DEF Placed
  <2>3. Injected' /\ VerdictHonest'
    BY <1>2, <1>4 DEF Injected, VerdictHonest
  <2> QED
    BY <2>2, <2>3
<1>11. Kills'
  <2>1. calling = {}
    BY <1>1 DEF VInv, Kills, KillsAll
  <2> QED
    BY <1>1, <1>3, <2>1 DEF VInv, Kills, KillsAll, SweptClean, Swept, control, kills
<1>12. Pages'
  BY <1>3, <1>7 DEF Pages, FreshIsLit, BaselineKnows, Polling
<1> QED
  BY <1>3, <1>8, <1>9, <1>10, <1>11, <1>12 DEF VInv, Runs

-----------------------------------------------------------------------------
(* The cleanup.                                                             *)
LEMMA CleanupStep ==
    ASSUME VInv, at \in Stages[6], at' \in Stages[6], UNCHANGED <<control, outcome, pending>>,
           faults' \subseteq faults
    PROVE  Runs' /\ Underway /\ ~Polling'
<1>1. 6 \in Stage
  BY DEF Stage
<1>2. \A i \in Stage : at \in Stages[i] \/ at' \in Stages[i] => i = 6
  BY <1>1, StagesApart
<1>3. Underway /\ Underway' /\ at' \notin Before /\ at' \notin {"done", "exited"} /\ at \notin Before
  BY <1>1, StagesAreNot DEF Underway
<1>4. ~Polling'
  BY DEF Polling, Stages
<1>5. Placed' /\ Injected' /\ OfRunsSoFar' /\ VerdictHonest'
  BY <1>3 DEF VInv, Runs, Placed, Injected, OfRunsSoFar, VerdictHonest, control
<1>6. Graded'
  BY <1>1, <1>2 DEF VInv, Runs, Graded, control
<1> QED
  BY <1>3, <1>4, <1>5, <1>6 DEF Runs

LEMMA CleanupKeeps ==
    ASSUME VInv,
           \/ BeginKill
           \/ \E ok \in BOOLEAN, t \in toKill : CallKill(t, ok)
           \/ \E ok \in BOOLEAN, t \in calling : KillDone(t, ok)
           \/ \E done \in SUBSET Alerts : ResolveRunAlerts(done)
    PROVE  VInv'
<1>1. CASE BeginKill
  <2>1. /\ at = "kill" /\ at' = "killing" /\ toKill' = Targets(sc)
        /\ UNCHANGED <<control, outcome, pending, faults, calling, sweeps, killed, missed, watching>>
    BY <1>1 DEF BeginKill
  <2>2. Runs' /\ Underway /\ ~Polling'
    BY <2>1, CleanupStep DEF Stages
  <2>3. TypeOK'
    BY <2>1 DEF VInv, TypeOK, Targets, control, watching
  <2>4. Kills'
    BY <2>1 DEF VInv, Kills, KillsAll, SweptClean, Swept, Targets, control
  <2>5. Pages'
    BY <2>1, <2>2 DEF VInv, Pages, FreshIsLit, BaselineKnows, watching
  <2> QED
    BY <2>2, <2>3, <2>4, <2>5 DEF VInv
<1>2. ASSUME NEW ok \in BOOLEAN, NEW t \in toKill, CallKill(t, ok) PROVE VInv'
  <2> DEFINE w == [run |-> run, target |-> t, todo |-> KindsAt(t)]
  <2>1. /\ at = "killing" /\ at' = "killing" /\ calling = {} /\ toKill' = toKill \ {t}
        /\ calling' = IF ok THEN {t} ELSE {}
        /\ sweeps' = IF ok THEN sweeps \cup {w} ELSE sweeps
        /\ missed' = IF ok THEN missed ELSE missed \cup {t}
        /\ UNCHANGED <<control, outcome, pending, faults, killed, watching>>
    BY <1>2 DEF CallKill
  <2>2. Runs' /\ Underway /\ ~Polling'
    BY <2>1, CleanupStep DEF Stages
  <2>3. toKill' \cup calling' \cup killed' \cup missed' = toKill \cup killed \cup missed
    BY <2>1
  <2>4. w \in Sweeps
    <3>1. t \in {i.target : i \in AllInjections}
      BY DEF VInv, TypeOK, Targets, AllInjections
    <3>2. run \in 1 .. MaxRuns
      BY <2>2, ScenarioAssumption DEF VInv, TypeOK, Runs, Placed
    <3>3. KindsAt(t) \in SUBSET {i.type : i \in AllInjections}
      BY DEF KindsAt
    <3> QED
      BY <3>1, <3>2, <3>3 DEF Sweeps
  <2>5. TypeOK'
    BY <2>1, <2>3, <2>4 DEF VInv, TypeOK, Targets, Sweeps, control, watching
  <2>6. KillsAll'
    BY <2>1, <2>3 DEF VInv, Kills, KillsAll, Targets, control
  <2>7. \A f \in faults : f.inj.target = t /\ ~f.inj.path => f.inj.type \in KindsAt(t)
    BY DEF VInv, TypeOK, KindsAt
  <2>8. SweptClean'
    <3>1. w.run = run /\ w.target = t /\ w.todo = KindsAt(t) /\ run <= run
      BY DEF VInv, TypeOK
    <3> HIDE DEF w
    <3>2. run' = run /\ faults' = faults /\ killed' = killed /\ sweeps \subseteq sweeps'
          /\ \A v \in sweeps' : v \in sweeps \/ v = w
      BY <2>1 DEF control
    <3>3. \A v \in sweeps' : v.run <= run
      BY <3>1, <3>2 DEF VInv, Kills, SweptClean
    <3>4. \A v \in sweeps', f \in faults :
              v.run = run /\ f.inj.target = v.target /\ ~f.inj.path /\ f.inj.type \notin v.todo => f.late
      BY <2>7, <3>1, <3>2 DEF VInv, Kills, SweptClean
    <3>5. \A x \in killed : \E v \in sweeps' : v.run = run /\ v.target = x /\ v.todo = {}
      BY <3>2 DEF VInv, Kills, SweptClean, Swept
    <3> QED
      BY <3>2, <3>3, <3>4, <3>5 DEF SweptClean, Swept
  <2>9. Pages'
    BY <2>1, <2>2 DEF VInv, Pages, FreshIsLit, BaselineKnows, watching
  <2> QED
    BY <2>2, <2>5, <2>6, <2>8, <2>9 DEF VInv, Kills
<1>4. ASSUME NEW ok \in BOOLEAN, NEW t \in calling, KillDone(t, ok) PROVE VInv'
  <2>1. /\ at = "killing" /\ at' = "killing" /\ (ok => Swept(t))
        /\ calling' = {}
        /\ killed' = IF ok THEN killed \cup {t} ELSE killed
        /\ missed' = IF ok THEN missed ELSE missed \cup {t}
        /\ UNCHANGED <<control, outcome, pending, faults, toKill, sweeps, watching>>
    BY <1>4 DEF KillDone, VInv, Kills, KillsAll
  <2>2. Runs' /\ Underway /\ ~Polling'
    BY <2>1, CleanupStep DEF Stages
  <2>3. calling = {t}
    BY <1>4 DEF VInv, Kills, KillsAll
  <2>4. TypeOK'
    BY <2>1 DEF VInv, TypeOK, Targets, control, watching
  <2>5. KillsAll'
    BY <2>1, <2>3 DEF VInv, Kills, KillsAll, Targets, control
  <2>6. SweptClean'
    BY <2>1 DEF VInv, Kills, SweptClean, Swept, control
  <2>7. Pages'
    BY <2>1, <2>2 DEF VInv, Pages, FreshIsLit, BaselineKnows, watching
  <2> QED
    BY <2>2, <2>4, <2>5, <2>6, <2>7 DEF VInv, Kills
<1>3. ASSUME NEW done \in SUBSET Alerts, ResolveRunAlerts(done) PROVE VInv'
  <2>1. /\ at = "killing" /\ at' = "cooldown" /\ toKill = {} /\ calling = {}
        /\ alerts' = [a \in Alerts |-> IF a \in done THEN [alerts[a] EXCEPT !.firing = FALSE] ELSE alerts[a]]
        /\ UNCHANGED <<control, outcome, services, baseline, standing>>
    BY <1>3 DEF ResolveRunAlerts
  <2>2. Runs' /\ Underway /\ ~Polling'
    BY <2>1, CleanupStep DEF Stages, services, kills
  <2>3. \A a \in Alerts : /\ [alerts[a] EXCEPT !.firing = FALSE] \in Alert
                          /\ [alerts[a] EXCEPT !.firing = FALSE].fresh = alerts[a].fresh
                          /\ [alerts[a] EXCEPT !.firing = FALSE].lit = alerts[a].lit
                          /\ alerts[a] \in Alert
    BY DEF VInv, TypeOK, Alert
  <2>4. TypeOK'
    BY <2>1, <2>3 DEF VInv, TypeOK, Targets, control, services, kills
  <2>5. Kills'
    BY <2>1 DEF VInv, Kills, KillsAll, SweptClean, Swept, Targets, control, services, kills
  <2>6. Pages'
    BY <2>1, <2>2, <2>3 DEF VInv, Pages, FreshIsLit, BaselineKnows
  <2> QED
    BY <2>2, <2>4, <2>5, <2>6 DEF VInv
<1> QED
  BY <1>1, <1>2, <1>3, <1>4

LEMMA CoolDownKeeps == ASSUME VInv, CoolDown PROVE VInv'
<1>1. at = "cooldown" /\ Finish("cooldown", "pass") /\ UNCHANGED <<sc, run, cancelled, services, watching>>
  BY DEF CoolDown
<1>2. at \in Stages[6] /\ 6 \in Stage
  BY <1>1 DEF Stages, Stage
<1>3. outcome' = [outcome EXCEPT !["cooldown"] = "pass"] /\ "cooldown" \in DOMAIN Ungraded
  BY <1>1 DEF Finish, Ungraded
<1>4. /\ outcome' \in [DOMAIN Ungraded -> {"none"} \cup Grades]
      /\ outcome'["cooldown"] = "pass"
      /\ \A q \in DOMAIN Ungraded : q # "cooldown" => outcome'[q] = outcome[q]
  BY <1>3, OutcomeTyped DEF VInv, Grades
<1>5. outcome["inject"] = "pass" /\ "inject" \in DOMAIN Ungraded
  BY <1>2 DEF VInv, Runs, Injected, Underway, Ungraded
<1>6. ASSUME Verdict(outcome'), NEW q \in sc.expect PROVE outcome'[q] \in {"pass", "skip", "degraded"}
  <2>1. q \in SectionNames
    BY ScenarioAssumption DEF VInv, TypeOK
  <2>2. PICK j \in 1 .. 5 : q = Sections[j]
    BY <2>1 DEF SectionNames, Sections
  <2>3. outcome[q] # "none"
    BY <1>2, <2>2 DEF VInv, Runs, Graded
  <2>4. q # "cooldown" /\ q \in DOMAIN Ungraded
    BY <2>1 DEF SectionNames, Sections, Ungraded
  <2>5. outcome'[q] = outcome[q] /\ outcome'[q] \in {"none"} \cup Grades
    BY <1>4, <2>4
  <2>6. outcome'[q] # "fail"
    BY <1>4, <1>6, <2>4 DEF Verdict
  <2> QED
    BY <2>3, <2>5, <2>6 DEF Grades
<1> QED
  BY <1>1, <1>3, <1>4, <1>5, <1>6, FinishKeeps DEF Grades

-----------------------------------------------------------------------------
(* The end of the process, a signal, and nothing at all.                    *)
LEMMA QuietStep ==
    ASSUME VInv, Report \/ Cancel \/ UNCHANGED vars
    PROVE  VInv'
<1>1. CASE Report
  <2>1. /\ at = "done" /\ at' = "exited" /\ pending' = {}
        /\ UNCHANGED <<control, outcome, faults, kills, watching>>
    BY <1>1 DEF Report
  <2>2. ~Underway' /\ ~Polling' /\ at' \notin Before
    BY <2>1, StagesAreNot DEF Underway, Polling, Before
  <2>3. TypeOK'
    BY <2>1 DEF VInv, TypeOK, Targets, control, kills, watching
  <2>4. Runs'
    BY <2>1, <2>2 DEF VInv, Runs, Placed, Graded, Injected, OfRunsSoFar, VerdictHonest, Underway, control
  <2>5. Kills' /\ Pages'
    BY <2>1, <2>2 DEF VInv, Kills, KillsAll, SweptClean, Swept, Pages, FreshIsLit, BaselineKnows, control, kills
  <2> QED
    BY <2>3, <2>4, <2>5 DEF VInv
<1>2. CASE Cancel \/ UNCHANGED vars
  <2>1. /\ UNCHANGED <<sc, run, passed, at, outcome, services, watching>>
        /\ cancelled' \in BOOLEAN
    BY <1>2 DEF Cancel, vars, VInv, TypeOK, services, kills, watching
  <2>2. TypeOK'
    BY <2>1 DEF VInv, TypeOK, Targets, services, kills, watching
  <2>3. Runs'
    BY <2>1 DEF VInv, Runs, Placed, Graded, Injected, OfRunsSoFar, VerdictHonest, Underway, services, kills
  <2>4. Kills'
    BY <2>1 DEF VInv, Kills, KillsAll, SweptClean, Swept, services, kills
  <2>5. Pages'
    BY <2>1 DEF VInv, Pages, FreshIsLit, BaselineKnows, Polling, Underway, watching
  <2> QED
    BY <2>2, <2>3, <2>4, <2>5 DEF VInv
<1> QED
  BY <1>1, <1>2

LEMMA InitV == Init => VInv
<1> SUFFICES ASSUME Init PROVE VInv
  OBVIOUS
<1> USE DEF Init
<1>1. sc \in Scenarios
  BY ScenarioAssumption
<1>2. ~Underway /\ ~Polling /\ at \notin Before
  BY StagesAreNot DEF Underway, Polling, Before
<1>3. alerts \in [Alerts -> Alert]
  OBVIOUS
<1>4. TypeOK
  <2>1. 0 \in 0 .. MaxRuns
    BY ScenarioAssumption
  <2>2. outcome \in [DOMAIN Ungraded -> {"none", "pass", "fail", "skip", "degraded"}]
    BY DEF Ungraded
  <2>3. baseline.ok \in BOOLEAN
    BY DEF NoBaseline
  <2> QED
    BY <1>1, <1>3, <2>1, <2>2, <2>3 DEF TypeOK
<1>5. Runs
  BY <1>2 DEF Runs, Placed, Graded, Injected, OfRunsSoFar, VerdictHonest, Underway
<1>6. Kills /\ Pages
  BY <1>2 DEF Kills, KillsAll, SweptClean, Swept, Pages, FreshIsLit, BaselineKnows
<1> QED
  BY <1>4, <1>5, <1>6 DEF VInv

LEMMA VInvKept == VInv /\ [Next]_vars => VInv'
<1> SUFFICES ASSUME VInv, [Next]_vars PROVE VInv'
  OBVIOUS
<1>1. ASSUME NEW ok \in BOOLEAN, Call(ok) PROVE VInv'
  BY <1>1, EarlyStep, BaselineKeeps, ResultSteps, CleanupKeeps DEF Call
<1>2. CASE Onward
  BY <1>1, <1>2, DispatchKeeps, ResultSteps, CleanupKeeps, CoolDownKeeps DEF Onward
<1>3. ASSUME NEW ok \in BOOLEAN, Finding(ok) PROVE VInv'
  <2>1. CASE Poll(ok)
    BY <2>1, PollKeeps
  <2>2. ASSUME NEW a \in Alerts, PollHit(a, ok) PROVE VInv'
    BY <2>2, ResultSteps
  <2>3. ASSUME NEW shown \in SUBSET sc.wanted, Analysis(ok, shown) PROVE VInv'
    BY <2>3, AnalysisKeeps
  <2>4. CASE Recovered(ok)
    BY <2>4, ResultSteps
  <2> QED
    BY <1>3, <2>1, <2>2, <2>3, <2>4 DEF Finding
<1> QED
  BY <1>2, <1>3, FirstStep, ResultSteps, DeliverKeeps, ClearKeeps, FaultEndsKeeps, EngineKeeps,
     QuietStep DEF Next

-----------------------------------------------------------------------------
LEMMA Always == Spec => []VInv
BY InitV, VInvKept, PTL DEF Spec

(* Every variable keeps its type.                                           *)
THEOREM HarnessTypeCorrect == Spec => []TypeOK
<1>1. VInv => TypeOK
  BY DEF VInv
<1> QED
  BY <1>1, Always, PTL

(* What ends a wait with a baseline is a page of this run: the fresh alerts *)
(* are lit since the injection, and whatever else counts as a hit changed   *)
(* after the baseline was taken.                                            *)
THEOREM HitsArePages == Spec => []DetectionIsAPage
<1>1. VInv => DetectionIsAPage
  <2> SUFFICES ASSUME VInv, Polling, baseline.ok, NEW a \in sc.watch, Hit(a) PROVE alerts[a].lit
    BY DEF DetectionIsAPage
  <2>1. a \in Alerts
    BY ScenarioAssumption DEF VInv, TypeOK
  <2>2. Underway
    BY DEF Polling, Underway, Stages, Stage
  <2> QED
    BY <2>1, <2>2 DEF VInv, Pages, FreshIsLit, BaselineKnows, Hit
<1> QED
  BY <1>1, Always, PTL

(* And a page lit since the baseline is a hit, but for the one that came    *)
(* back as it was.                                                          *)
THEOREM PagesAreHits == Spec => []NoMissedPage
<1>1. VInv => NoMissedPage
  <2> SUFFICES ASSUME VInv, Polling, NEW a \in sc.watch, Lit(a)
               PROVE  Hit(a) \/ (alerts[a].since = "back" /\ a \in DOMAIN baseline.dedup)
    BY DEF NoMissedPage
  <2>1. alerts[a].since \in {"no", "paged", "back"}
    BY ScenarioAssumption DEF VInv, TypeOK, Alert
  <2> QED
    BY <2>1 DEF VInv, Pages, BaselineKnows, Hit, Lit
<1> QED
  BY <1>1, Always, PTL

(* What outlives a kill-switch that answered arrived behind its sweep, for  *)
(* any order of the types, and the cleanup called every target.             *)
THEOREM KillsHold == Spec => []KillHolds
<1>1. VInv => KillHolds
  BY DEF VInv, Kills, KillsAll, SweptClean, Swept, KillHolds, TypeOK
<1> QED
  BY <1>1, Always, PTL

(* A verdict says what happened: a pass has every expected section graded   *)
(* and its cleanup done, a failure names a failed phase.                    *)
THEOREM VerdictsHonest == Spec => []VerdictHonest
<1>1. VInv => VerdictHonest
  BY DEF VInv, Runs
<1> QED
  BY <1>1, Always, PTL
=============================================================================
