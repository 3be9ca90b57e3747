---------------------------- MODULE VerdictHarness ----------------------------
(***************************************************************************)
(* The verdict harness (internal/harness/runner.go, cmd/verdict): a suite  *)
(* of scenarios, each a sequence of phases that call out to the monitoring *)
(* product and to the services under fault.  Injections are goroutines of  *)
(* their own, every call may fail, alerts come and go while the harness    *)
(* polls, and SIGINT cancels the context at any moment.                    *)
(*                                                                         *)
(* The product (InfraSage) is outside the repository: it may answer        *)
(* anything its API allows.  Deadlines are a choice: a loop that looks at  *)
(* its deadline may find it passed.  What matters of time is whether       *)
(* an alert fired later than a minute before the injection, and whether    *)
(* the pager was lit since a phase took its baseline.  A service's faults  *)
(* are a set; how they begin and end is in ChaosRegistry.                  *)
(***************************************************************************)
EXTENDS Integers, Sequences, FiniteSets

CONSTANTS
    Alerts,           \* ids of alerts the product may raise
    Scenarios,        \* the scenarios of the library; rank: their place in its order
    SkipRemediation,  \* --skip-remediation
    MaxRuns,          \* bound: scenarios run in one suite
    MaxDedup          \* bound: occurrences an alert absorbs

Sections == <<"quiet", "detect", "rca", "remediation", "business">>

SectionNames == {Sections[i] : i \in DOMAIN Sections}

(* What an analysis can be asked to show, in gradeRCA.                     *)
Merits == {"origin", "confidence", "keyword", "change"}

(* Scenario.Validate: something to do and something to grade.              *)
ASSUME ScenarioAssumption ==
    /\ Scenarios # {} /\ {MaxRuns, MaxDedup} \subseteq Nat
    /\ \A s, t \in Scenarios : s.rank \in Nat /\ (s.rank = t.rank => s = t)
    /\ \A s \in Scenarios :
           /\ s.expect \subseteq SectionNames /\ s.expect # {}
           /\ s.inject # {} \/ s.changes
           /\ s.watch \subseteq Alerts
           /\ s.wanted \subseteq Merits
           /\ \A i \in s.inject : {i.path, i.sticky} \subseteq BOOLEAN

AllInjections == UNION {s.inject : s \in Scenarios}

VARIABLES
    sc,         \* the scenario that runs
    run,        \* its number in the suite
    at,         \* what the harness does next
    outcome,    \* the phases recorded so far
    passed,     \* the verdict, once there is one
    cancelled,  \* the context is done
    pending,    \* injection goroutines that have not called yet
    faults,     \* faults on the services
    toKill,     \* targets killAll has yet to call
    calling,    \* the target it is calling
    sweeps,     \* DisableAll handlers at the services, and the types they have to go
    killed,     \* targets whose kill-switch answered in this run
    missed,     \* targets whose kill-switch call failed in this run
    alerts,     \* the product's alerts
    baseline,   \* what waitForAlert knew when it began
    standing    \* alerts lit since then that stood when it polled

vars == <<sc, run, at, outcome, passed, cancelled, pending, faults, toKill,
          calling, sweeps, killed, missed, alerts, baseline, standing>>

control  == <<sc, run, passed, cancelled>>
kills    == <<toKill, calling, sweeps, killed, missed>>
services == <<pending, faults, kills>>
watching == <<alerts, baseline, standing>>

-----------------------------------------------------------------------------
Ungraded == [p \in {"preflight", "setup", "inject", "cooldown"} \cup SectionNames |-> "none"]

NoBaseline == [ok |-> FALSE, dedup |-> <<>>]

Targets(s) == {i.target : i \in s.inject}

(* The types of the registry at t that the suite's injections may turn on; *)
(* what is injected through a path of its own is not in the registry.      *)
KindsAt(t) == {i.type : i \in {j \in AllInjections : j.target = t /\ ~j.path}}

(* An alert in the product.  fresh: fired_at is later than a minute before *)
(* the injection (before it: may turn out to be).  lit: the pager was lit  *)
(* since then.  since: whether it paged since the phase took its baseline, *)
(* or only came back.                                                      *)
Alert == [firing : BOOLEAN, fresh : BOOLEAN, lit : BOOLEAN, since : {"no", "paged", "back"},
          dedup : 0 .. MaxDedup]

Init ==
    /\ sc = CHOOSE s \in Scenarios : TRUE
    /\ run = 0
    /\ at = "done"
    /\ outcome = Ungraded
    /\ passed = FALSE
    /\ cancelled = FALSE
    /\ pending = {}
    /\ faults = {}
    /\ toKill = {}
    /\ calling = {}
    /\ sweeps = {}
    /\ killed = {}
    /\ missed = {}
    /\ alerts \in [Alerts -> {a \in Alert : a.dedup = 0 /\ ~a.lit /\ a.since = "no"}]
    /\ baseline = NoBaseline
    /\ standing = {}

(* A call that carries the context fails once the context is done.         *)
MayAnswer(ok) == ok => ~cancelled

(* The next section the scenario expects after the n-th, or the cleanup.   *)
SectionAfter(n) ==
    LET rest == {i \in n + 1 .. Len(Sections) : Sections[i] \in sc.expect}
    IN  IF rest = {} THEN "kill" ELSE Sections[CHOOSE i \in rest : \A j \in rest : i <= j]

IndexOf(p) == CHOOSE i \in DOMAIN Sections : Sections[i] = p

(* Mutant: the last phase decides.                                         *)
VerdictOfLast(o) == o["cooldown"] # "none"

(* finish: a degraded or skipped phase does not fail the run.              *)
Verdict(o) == \A p \in DOMAIN o : o[p] # "fail"

(* add, and on to the next section.                                        *)
Record(p, result) ==
    /\ outcome' = [outcome EXCEPT ![p] = result]
    /\ at' = SectionAfter(IndexOf(p))

(* add, and return finish(res).                                            *)
Finish(p, result) ==
    /\ outcome' = [outcome EXCEPT ![p] = result]
    /\ at' = "done"
    /\ passed' = Verdict(outcome')

-----------------------------------------------------------------------------
(* Mutant: killAll's set of targets it has seen outlives the run.          *)
NextScenarioSeenKept(s) ==
    /\ at = "done"
    /\ run < MaxRuns
    /\ run > 0 => s.rank > sc.rank
    /\ ~cancelled
    /\ sc' = s
    /\ run' = run + 1
    /\ at' = "preflight"
    /\ outcome' = Ungraded
    /\ passed' = FALSE
    /\ UNCHANGED <<cancelled, services, watching>>

(* The suite's loop: the next scenario, unless the context is done.  A     *)
(* suite is what the filter leaves of the library, in the library's order. *)
(* What a sweep did is forgotten with its run, what it has to do is not.   *)
NextScenario(s) ==
    /\ at = "done"
    /\ run < MaxRuns
    /\ run > 0 => s.rank > sc.rank
    /\ ~cancelled
    /\ sc' = s
    /\ run' = run + 1
    /\ at' = "preflight"
    /\ outcome' = Ungraded
    /\ toKill' = {}
    /\ sweeps' = {w \in sweeps : w.todo # {}}
    /\ killed' = {}
    /\ missed' = {}
    /\ passed' = FALSE
    /\ faults' = {[f EXCEPT !.late = FALSE] : f \in faults}
    /\ UNCHANGED <<cancelled, pending, calling, watching>>

(* The suite is over; the process exits and its goroutines with it.        *)
Report ==
    /\ at = "done"
    /\ run > 0
    /\ at' = "exited"
    /\ pending' = {}
    /\ UNCHANGED <<control, outcome, faults, kills, watching>>

(* preflight calls without the context: it may pass although cancelled.    *)
Preflight(ok) ==
    /\ at = "preflight"
    /\ IF ok
       THEN /\ outcome' = [outcome EXCEPT !["preflight"] = "pass"]
            /\ at' = IF sc.changes THEN "setup" ELSE "inject"
            /\ passed' = passed
       ELSE Finish("preflight", "fail")
    /\ UNCHANGED <<sc, run, cancelled, services, watching>>

(* The change events, and the lead.                                        *)
SetUp(ok) ==
    /\ at = "setup"
    /\ MayAnswer(ok)
    /\ IF ok
       THEN /\ outcome' = [outcome EXCEPT !["setup"] = "pass"]
            /\ at' = "inject"
            /\ passed' = passed
       ELSE Finish("setup", "fail")
    /\ UNCHANGED <<sc, run, cancelled, services, watching>>

(* One goroutine for each injection.  Of the alerts that may have fired in *)
(* the last minute some did; no other is fresh for this run.               *)
Dispatch(recent) ==
    /\ at = "inject"
    /\ recent \subseteq {a \in Alerts : alerts[a].fresh}
    /\ pending' = pending \cup {[run |-> run, inj |-> i] : i \in sc.inject}
    /\ outcome' = [outcome EXCEPT !["inject"] = "pass"]
    /\ at' = SectionAfter(0)
    /\ alerts' = [a \in Alerts |-> [alerts[a] EXCEPT !.fresh = a \in recent, !.lit = a \in recent]]
    /\ UNCHANGED <<control, faults, kills, baseline, standing>>

(* This run's kill-switch has passed that type at that target.             *)
Passed(inj) ==
    \E w \in sweeps : w.run = run /\ w.target = inj.target /\ inj.type \notin w.todo

(* An injection goroutine has slept and calls the service, or fails to.    *)
(* `late` notes that the kill-switch had already passed its type there.    *)
Deliver(g, ok) ==
    /\ g \in pending
    /\ MayAnswer(ok)
    /\ pending' = pending \ {g}
    /\ faults' = IF ok
                 THEN faults \cup {[run |-> g.run, inj |-> g.inj, late |-> Passed(g.inj)]}
                 ELSE faults
    /\ UNCHANGED <<control, at, outcome, kills, watching>>

-----------------------------------------------------------------------------
(* waitForAlert, for the quiet and the detect phase.  The baseline stays   *)
(* empty if the product does not answer.                                   *)
Baseline(ok) ==
    /\ at \in {"quiet", "detect"}
    /\ MayAnswer(ok)
    /\ baseline' = [ok    |-> ok,
                    dedup |-> IF ok
                              THEN [a \in {x \in sc.watch : alerts[x].firing} |-> alerts[a].dedup]
                              ELSE <<>>]
    /\ at' = IF at = "quiet" THEN "quiet_poll" ELSE "detect_poll"
    /\ alerts' = [a \in Alerts |-> [alerts[a] EXCEPT !.since = "no"]]
    /\ standing' = {}
    /\ UNCHANGED <<control, outcome, services>>

Polling == at \in {"quiet_poll", "detect_poll"}

(* Mutant: occurrences absorbed by an alert that fired before are ignored. *)
HitFreshOnly(a) ==
    /\ alerts[a].firing
    /\ alerts[a].fresh \/ a \notin DOMAIN baseline.dedup

(* Mutant: any occurrence counts, also those before the phase began.       *)
HitAnyDedup(a) ==
    /\ alerts[a].firing
    /\ \/ alerts[a].fresh
       \/ a \notin DOMAIN baseline.dedup
       \/ a \in DOMAIN baseline.dedup /\ alerts[a].dedup >= baseline.dedup[a]

(* An alert that counts as a page: fresh, absorbing, or newly firing.      *)
Hit(a) ==
    /\ alerts[a].firing
    /\ \/ alerts[a].fresh
       \/ a \notin DOMAIN baseline.dedup
       \/ a \in DOMAIN baseline.dedup /\ alerts[a].dedup > baseline.dedup[a]

Lit(a) == alerts[a].firing /\ alerts[a].since # "no"

(* One poll that returns nothing: the call failed, or no alert counts.     *)
Poll(ok) ==
    /\ Polling
    /\ MayAnswer(ok)
    /\ ok => \A a \in sc.watch : ~Hit(a)
    /\ standing' = standing \cup {a \in sc.watch : Lit(a)}
    /\ UNCHANGED <<control, at, outcome, services, alerts, baseline>>

(* waitForAlert returns, and forgets what it knew.                         *)
Return ==
    /\ baseline' = NoBaseline
    /\ standing' = {}
    /\ alerts' = [a \in Alerts |-> [alerts[a] EXCEPT !.since = "no"]]

(* One that finds an alert; the detect phase also looks at its severity.   *)
PollHit(a, severe) ==
    /\ Polling
    /\ ~cancelled
    /\ a \in sc.watch
    /\ Hit(a)
    /\ IF at = "quiet_poll"
       THEN Record("quiet", "fail")
       ELSE Record("detect", IF severe THEN "pass" ELSE "fail")
    /\ Return
    /\ UNCHANGED <<control, services>>

(* The window is over, or the context is done.                             *)
PollOver ==
    /\ Polling
    /\ IF at = "quiet_poll" THEN Record("quiet", "pass") ELSE Record("detect", "fail")
    /\ Return
    /\ UNCHANGED <<control, services>>

-----------------------------------------------------------------------------
(* rca: trigger after the delay, ...                                       *)
TriggerRCA(ok) ==
    /\ at = "rca"
    /\ MayAnswer(ok)
    /\ IF ok THEN at' = "rca_poll" /\ UNCHANGED outcome ELSE Record("rca", "fail")
    /\ UNCHANGED <<control, services, watching>>

(* gradeRCA: confidence is only looked at when the origin is right.        *)
GradeRCA(shown) ==
    LET wrong == {m \in sc.wanted \ {"confidence"} : m \notin shown}
        weak  == {"origin", "confidence"} \subseteq sc.wanted /\ "confidence" \notin shown
    IN  IF wrong = {} /\ ~weak THEN "pass" ELSE "fail"

(* ... an analysis later than the injection, degraded or graded ...        *)
Analysis(degraded, shown) ==
    /\ at = "rca_poll"
    /\ ~cancelled
    /\ Record("rca", IF degraded THEN "degraded" ELSE GradeRCA(shown))
    /\ UNCHANGED <<control, services, watching>>

(* Mutant: the wait for an analysis has no deadline.                       *)
AnalysisTimeoutNever ==
    /\ at = "rca_poll"
    /\ cancelled
    /\ Record("rca", "fail")
    /\ UNCHANGED <<control, services, watching>>

(* ... or none in time.                                                    *)
AnalysisTimeout ==
    /\ at = "rca_poll"
    /\ Record("rca", "fail")
    /\ UNCHANGED <<control, services, watching>>

(* remediation: skipped, or the runbook triggered ...                      *)
Remediate(ok) ==
    /\ at = "remediation"
    /\ MayAnswer(ok)
    /\ IF SkipRemediation THEN Record("remediation", "skip")
       ELSE IF ok THEN at' = "approve" /\ UNCHANGED outcome
       ELSE Record("remediation", "fail")
    /\ UNCHANGED <<control, services, watching>>

(* ... and approved, which has to dispatch it.                             *)
Approve(dispatched) ==
    /\ at = "approve"
    /\ MayAnswer(dispatched)
    /\ IF dispatched THEN at' = "recover" /\ UNCHANGED outcome
       ELSE Record("remediation", "fail")
    /\ UNCHANGED <<control, services, watching>>

(* anyFaultActive, which calls without the context: an unreachable target  *)
(* counts as faulty, an answer it cannot decode as healthy.                *)
StatusActive == \E f \in faults : f.inj.target = sc.remedied /\ ~f.inj.path

Recovered(garbled) ==
    /\ at = "recover"
    /\ garbled \/ ~StatusActive
    /\ Record("remediation", "pass")
    /\ UNCHANGED <<control, services, watching>>

(* The time to recover is over, or the context is done.                    *)
NotRecovered ==
    /\ at = "recover"
    /\ Record("remediation", "fail")
    /\ UNCHANGED <<control, services, watching>>

(* business: a keyword in the answer, ...                                  *)
BusinessHit ==
    /\ at = "business"
    /\ ~cancelled
    /\ Record("business", "pass")
    /\ UNCHANGED <<control, services, watching>>

(* ... or none in time.                                                    *)
NoBusiness ==
    /\ at = "business"
    /\ Record("business", "fail")
    /\ UNCHANGED <<control, services, watching>>

-----------------------------------------------------------------------------
(* cleanup.  killAll collects the targets of the scenario ...              *)
BeginKill ==
    /\ at = "kill"
    /\ at' = "killing"
    /\ toKill' = Targets(sc)
    /\ UNCHANGED <<control, outcome, pending, faults, calling, sweeps, killed, missed, watching>>

(* ... and calls the kill-switch of each once: the call reaches the target *)
(* and its DisableAll begins, or it fails.                                 *)
CallKill(t, sent) ==
    /\ at = "killing"
    /\ t \in toKill
    /\ calling = {}
    /\ MayAnswer(sent)
    /\ toKill' = toKill \ {t}
    /\ calling' = IF sent THEN {t} ELSE {}
    /\ sweeps' = IF sent THEN sweeps \cup {[run |-> run, target |-> t, todo |-> KindsAt(t)]}
                 ELSE sweeps
    /\ missed' = IF sent THEN missed ELSE missed \cup {t}
    /\ UNCHANGED <<control, at, outcome, pending, faults, killed, watching>>

(* DisableAll disables type by type, in any order, with the lock released  *)
(* in between; it does not know whether its caller still waits.            *)
Clear(w, type) ==
    /\ w \in sweeps
    /\ type \in w.todo
    /\ sweeps' = (sweeps \ {w}) \cup {v \in {[w EXCEPT !.todo = w.todo \ {type}]} :
                                           v.run = run \/ v.todo # {}}
    /\ faults' = {f \in faults : f.inj.target = w.target /\ f.inj.type = type => f.inj.path}
    /\ UNCHANGED <<control, at, outcome, pending, toKill, calling, killed, missed, watching>>

Swept(t) == \E w \in sweeps : w.run = run /\ w.target = t /\ w.todo = {}

(* Mutant: the kill-switch answers and sweeps afterwards.                  *)
KillDoneEarly(t, ok) ==
    /\ t \in calling
    /\ MayAnswer(ok)
    /\ calling' = {}
    /\ killed' = IF ok THEN killed \cup {t} ELSE killed
    /\ missed' = IF ok THEN missed ELSE missed \cup {t}
    /\ UNCHANGED <<control, at, outcome, pending, faults, toKill, sweeps, watching>>

(* The kill-switch answers once its sweep is through, or the call fails or *)
(* comes back with an error status, and killAll looks at neither.          *)
KillDone(t, ok) ==
    /\ t \in calling
    /\ MayAnswer(ok)
    /\ ok => Swept(t)
    /\ calling' = {}
    /\ killed' = IF ok THEN killed \cup {t} ELSE killed
    /\ missed' = IF ok THEN missed ELSE missed \cup {t}
    /\ UNCHANGED <<control, at, outcome, pending, faults, toKill, sweeps, watching>>

(* resolveRunAlerts: the fresh alerts, as far as the calls go through.     *)
ResolveRunAlerts(done) ==
    /\ at = "killing"
    /\ toKill = {}
    /\ calling = {}
    /\ done \subseteq {a \in Alerts : alerts[a].firing /\ alerts[a].fresh}
    /\ cancelled => done = {}
    /\ alerts' = [a \in Alerts |-> IF a \in done THEN [alerts[a] EXCEPT !.firing = FALSE]
                                   ELSE alerts[a]]
    /\ at' = "cooldown"
    /\ UNCHANGED <<control, outcome, services, baseline, standing>>

(* cooldown: the floor is over and the queue short, or time is up.         *)
CoolDown ==
    /\ at = "cooldown"
    /\ Finish("cooldown", "pass")
    /\ UNCHANGED <<sc, run, cancelled, services, watching>>

-----------------------------------------------------------------------------
(* SIGINT or SIGTERM.                                                      *)
Cancel ==
    /\ ~cancelled
    /\ at # "exited"
    /\ cancelled' = TRUE
    /\ UNCHANGED <<sc, run, passed, at, outcome, services, watching>>

(* A fault ends by its own timer, or the runbook's /ops call clears it.    *)
FaultEnds(f) ==
    /\ f \in faults
    /\ f.inj.sticky => at = "recover" /\ f.inj.target = sc.remedied
    /\ faults' = faults \ {f}
    /\ UNCHANGED <<control, at, outcome, pending, kills, watching>>

PagedNow == IF Polling THEN "paged" ELSE "no"

(* The product raises an alert, ...                                        *)
Page(a) ==
    /\ ~alerts[a].firing
    /\ alerts' = [alerts EXCEPT ![a] = [firing |-> TRUE, fresh |-> TRUE, lit |-> TRUE,
                                        since |-> PagedNow, dedup |-> 0]]
    /\ UNCHANGED <<control, at, outcome, services, baseline, standing>>

(* ... absorbs an occurrence into one that fires, ...                      *)
Absorb(a) ==
    /\ alerts[a].firing
    /\ alerts[a].dedup < MaxDedup
    /\ alerts' = [alerts EXCEPT ![a].dedup = @ + 1, ![a].lit = TRUE,
                                 ![a].since = PagedNow]
    /\ UNCHANGED <<control, at, outcome, services, baseline, standing>>

(* ... brings one back that keeps its old fired_at, ...                    *)
Resurrect(a) ==
    /\ ~alerts[a].firing
    /\ alerts' = [alerts EXCEPT ![a].firing = TRUE, ![a].lit = TRUE,
                                 ![a].since = IF Polling /\ @ = "no" THEN "back" ELSE @]
    /\ UNCHANGED <<control, at, outcome, services, baseline, standing>>

(* ... or resolves one.                                                    *)
Resolve(a) ==
    /\ alerts[a].firing
    /\ alerts' = [alerts EXCEPT ![a].firing = FALSE]
    /\ UNCHANGED <<control, at, outcome, services, baseline, standing>>

-----------------------------------------------------------------------------
(* A call of the harness, which has a timeout and so returns.              *)
Call(ok) ==
    \/ Preflight(ok) \/ SetUp(ok)
    \/ Baseline(ok)
    \/ TriggerRCA(ok) \/ Remediate(ok) \/ Approve(ok)
    \/ \E t \in toKill : CallKill(t, ok)
    \/ \E t \in calling : KillDone(t, ok)

(* What the harness does whatever the others do.                           *)
Onward ==
    \/ \E ok \in BOOLEAN : Call(ok)
    \/ \E recent \in SUBSET Alerts : Dispatch(recent)
    \/ PollOver \/ AnalysisTimeout \/ NotRecovered \/ NoBusiness
    \/ BeginKill
    \/ \E done \in SUBSET Alerts : ResolveRunAlerts(done)
    \/ CoolDown

(* What it finds when it polls before a deadline.                          *)
Finding(ok) ==
    \/ Poll(ok)
    \/ \E a \in Alerts : PollHit(a, ok)
    \/ \E shown \in SUBSET sc.wanted : Analysis(ok, shown)
    \/ Recovered(ok)

Engine == \E a \in Alerts : Page(a) \/ Absorb(a) \/ Resurrect(a) \/ Resolve(a)

Next ==
    \/ \E s \in Scenarios : NextScenario(s)
    \/ Onward
    \/ \E ok \in BOOLEAN : Finding(ok)
    \/ BusinessHit
    \/ \E g \in pending, ok \in BOOLEAN : Deliver(g, ok)
    \/ \E w \in sweeps : \E type \in w.todo : Clear(w, type)
    \/ \E f \in faults : FaultEnds(f)
    \/ Engine
    \/ Cancel
    \/ Report

Spec == Init /\ [][Next]_vars

(* Every call has a timeout, every wait a deadline.  Nothing is assumed of *)
(* what the product or a service answers.                                  *)
FairSpec == Spec /\ WF_vars(Onward)

-----------------------------------------------------------------------------
(* Properties.                                                             *)

(* Every variable has its type.                                            *)
TypeOK ==
    LET injection == [run : 1 .. MaxRuns, inj : AllInjections]
        fault == [run : 1 .. MaxRuns, inj : AllInjections, late : BOOLEAN]
        sweep == [run : 1 .. MaxRuns, target : {i.target : i \in AllInjections},
                  todo : SUBSET {i.type : i \in AllInjections}]
    IN  /\ sc \in Scenarios
        /\ run \in 0 .. MaxRuns
        /\ outcome \in [DOMAIN Ungraded -> {"none", "pass", "fail", "skip", "degraded"}]
        /\ {passed, cancelled} \subseteq BOOLEAN
        /\ pending \subseteq injection
        /\ faults \subseteq fault
        /\ toKill \cup calling \cup killed \cup missed \subseteq Targets(sc)
        /\ sweeps \subseteq sweep
        /\ alerts \in [Alerts -> Alert]
        /\ baseline.ok \in BOOLEAN
        /\ standing \subseteq Alerts

(* An alert that ends a wait is a page of this run: the pager was lit no   *)
(* earlier than a minute before the injection.  This needs the baseline;   *)
(* when that first call fails, every alert that already fires counts.      *)
DetectionIsAPage ==
    Polling /\ baseline.ok => \A a \in sc.watch : Hit(a) => alerts[a].lit

(* And the other way round: a page lit since the phase began is one the    *)
(* next answered poll returns, also when the product keeps the alert's     *)
(* fired_at, as for an occurrence absorbed by an older alert.  One that    *)
(* the baseline knows, that resolves and comes back with its old fired_at  *)
(* and count, is the page the loop cannot tell.                            *)
NoMissedPage ==
    Polling => \A a \in sc.watch :
        Lit(a) => Hit(a) \/ (alerts[a].since = "back" /\ a \in DOMAIN baseline.dedup)

(* Behind the kill loop every target has been called, and whatever fault   *)
(* of the chaos registry is still on at a target that answered arrived     *)
(* after the sweep had come past its type: one that was on when the call   *)
(* was made does not survive it, but one that lands during it may, though  *)
(* the kill-switch has yet to answer.                                      *)
KillHolds ==
    /\ at = "cooldown" => Targets(sc) \subseteq killed \cup missed
    /\ \A f \in faults : f.inj.target \in killed /\ ~f.inj.path => f.late

(* A run passes only with every expected section graded, none failed, and  *)
(* its cleanup done; one that ended in preflight or setup injected nothing. *)
VerdictHonest ==
    at = "done" /\ run > 0 =>
        IF passed
        THEN /\ \A p \in sc.expect : outcome[p] \in {"pass", "skip", "degraded"}
             /\ outcome["inject"] = "pass" /\ outcome["cooldown"] = "pass"
        ELSE /\ \E p \in DOMAIN outcome : outcome[p] = "fail"
             /\ outcome["cooldown"] = "none" => \A g \in pending \cup faults : g.run # run

(* A scenario that has begun ends, whatever the product and the services   *)
(* answer.                                                                 *)
ScenarioEnds == at = "preflight" ~> at = "done"

-----------------------------------------------------------------------------
(* What comments say and the code does not do.                             *)

(* "killAll clears every fault on every scenario target - no scenario may  *)
(* leak chaos into the next": where every kill-switch answered, no fault   *)
(* that the run injected before the sweep came past it is on at the end.   *)
NoLeak ==
    at = "done" /\ outcome["cooldown"] = "pass" /\ missed = {} =>
        \A f \in faults : f.run = run => f.late

(* "PASS means InfraSage did NOT alert on the named service within the     *)
(* window": no alert lit in the window stood while the harness polled.     *)
QuietMeansSilent == [][outcome'["quiet"] = "pass" /\ at = "quiet_poll" => standing = {}]_vars
=============================================================================
