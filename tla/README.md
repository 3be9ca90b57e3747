# TLA+ models of loadgen

loadgen is a set of small Go services (gateway, auth, user, order, payment,
notification, a mock Shopify store) under synthetic load, a fault-injection
package they all embed, and a harness (`verdict`) that runs fault scenarios
against an external monitoring product and grades what it sees.  What is hard
to get right in it is not the business logic but the *injection*: dozens of
goroutines that sleep, wake, look at shared state, unlock, and act on what they
saw.  That is what the models are about first.

## 1. Inventory

State is in-process memory everywhere; nothing is persisted, so a restart is a
fresh start and crash recovery is not a concern.  Components talk by HTTP, by an
in-process publish/subscribe queue (`platform.SharedQueue`) and, in the Shopify
mock, by a Go channel.

| Component | State | Operations | What is hard | What makes it correct |
|---|---|---|---|---|
| **Fault registry** `internal/chaos` (chaos.go, shape.go, ops.go) | `states` (type -> enabled, sticky, duration, StartedAt) under `mu`; `capacityBits` | `EnableSpec`, `Enable`, `Disable`, `DisableAll`, `/ops/{restart,rollback,scale,...}`; one auto-disable goroutine for each timed activation | the timer is spawned, wakes, checks and disables in separate critical sections; the sweeps look and clear type by type | a timed fault always ends and never early; what a sweep has passed is clear; a stamp identifies an activation |
| **Fault side effects** (chaos.go, shape.go, novel_log.go) | `cpuCancel`, `memoryBallast`, goroutines: burners, leaker, log writers, pod crash | started by `EnableSpec` after its unlock, stopped by `Disable` after its unlock | start and stop are not atomic with the entry; channels are closed by several goroutines | no double close; burners that can be stopped and end with their fault, unless their start overlapped another call; bounded residue of a leak |
| **Campaigns** (chaos.go) | `activeCampaign` under `campaignMu`; one sleeping goroutine per step and one that closes | `StartCampaign`, kill-switch, status | goroutines cannot be called off; the closer knows only an ID a client may reuse | a campaign called finished is over, but for the kill-switch and a reused ID; every one ends |
| **Fault shapes, capacity** (shape.go, `GetIntensity`) | none (pure functions of the spec and the time) | `ShapedIntensity`, scope, capacity | divisions by configured periods, boundary times | intensity in 0..1, reaches its target, never before its time |
| **Chaos status and metadata** | reads the registry | `/chaos/status`, `ActiveTypes` | enabled is not the same as active | read-only |
| **System state** `internal/sysstate` | the forced scenario with its deadline; otherwise a schedule every process derives from the clock | force, clear, five kinds of query | a status page is five reads; a force or its deadline falls between two, or between the halves of one | each part of a page was true during the request; the probes agree on the schedule; a force stands as long as it was asked for |
| **Verdict harness** `internal/harness`, `cmd/verdict` | the phases of a run; injections in flight | preflight, setup, inject, quiet/detect, rca, remediation, business, cleanup | injections are detached goroutines; every outside call may fail | a failed phase fails the run; a fault of the registry outlives a kill-switch only if it arrived behind it |
| **Shopify mock** `internal/shopify` | orders, products, customers, `idSeq`, the event channel, the meltdown and the slump | mutator, emitter (webhooks), two incident knobs with their goroutines, REST pages | goroutines that disable whatever is current; a bounded channel that drops; an id counter without a lock; an emitter that looks at the knobs twice | every event goes out once, in order, or is dropped; an incident alters only its shop's; ids repeat only where the draws race |
| **Ecom metrics, injector** `internal/ecom` | one entry for each scenario | `Enable`, `Disable`, `Reset`, the collector's reads | nothing runs at expiry; readers see a reset halfway | a scenario stands as long as it was asked for |
| **Platform** `internal/platform` | tables, cache, subscribers' channels | DB and cache calls, `Publish`, `Subscribe`, cancel | full channels drop, cancel leaves a closed channel behind | a message reaches each subscriber at most once, in order |
| **Order / payment / notification** `cmd/*` | orders, payments, notifications | `createOrder`, `handleProcess`, queue consumer | partial failure, retry of a charged payment | an order marked paid has a charge; one charge for an order |
| **User service** `cmd/user` | users, cache | get (cache-aside), create, update | a reader's late store after an invalidation, lost updates, ids drawn at random | cache and database differ in named windows only |
| **Auth service** `cmd/auth` | tokens in a cache | login, verify | a simulated stampede hides an entry, and the fallback writes a made-up user over it | a token stays its user's |
| **API gateway** `cmd/gateway` | one request counter | limiter, proxy | the reset races the counting; an aborted response panics | exactly the limit between two resets of the counter; every request is answered and counted |
| **Traffic generator** `cmd/traffic`, `internal/loadshape` | sessions, what answers taught, statistics, the ticker's rate | journeys, single requests, bursts, summaries | overlapping bursts, an empty window | every request goes into one summary |
| **Chaos scheduler** `cmd/chaos-service` | one current fault | `POST /chaos`, a middleware that suffers it | expiry is written down by whoever asks; on and which are two locks | a request suffers what was on while it was served |
| **Middleware** `internal/middleware` | the gauge of active requests, counters | wraps every handler | what follows the handler is not deferred | the metrics account for every request |
| **Telemetry, dimensions, distributions** | none of their own | set-up, random draws | - | - |

Interactions: operators, campaigns and the harness call the registry by HTTP;
`middleware.ChaosFaults` reads `GetIntensity` at each request; the harness reads
`/chaos/status` to see a recovery; order calls payment and publishes to its own
process's `SharedQueue`.

`PROJECT.json` lists under `hazards` each place where one of the hard behaviours
bites, with the properties that watch it.

## 2. Modules

### ChaosRegistry, ChaosContract

`ChaosRegistry` is the map `states` and everything that writes it.  **One action
is one critical section of `mu`.**  What the code does between an unlock and the
next lock can be overtaken by any other action:

| Action | Code |
|---|---|
| `EnableSpec(t, d, sticky)` | `EnableSpec` up to its unlock: normalises the duration (not of a sticky fault), stamps, stores |
| `SpawnTimer(c)` | the `go` statement: `timeNowFor` takes the lock *again* to read the stamp the goroutine will compare with |
| `WakeTimer(g)` | `time.Sleep` returns, the goroutine decides under the read lock |
| `AutoDisable(g)` | ... and calls `Disable`, a second critical section |
| `Delete(t)` | `DELETE /chaos/<type>` |
| `BeginSweep`, `KillOne` | the kill-switch: `DisableAll`, one `Disable` per type in map order (any order) |
| `OpsLook`, `OpsClear`, `Reply` | `/ops/<action>`: `IsActive`, then `Disable`, type by type (the code's list order is one of the orders modelled); restart resets the capacity |
| `Scale(r)` | `/ops/scale` |
| `Tick` | the monotonic clock |

Abstractions: times are ticks; intensity, onset and scope are left out (they do
not influence which faults are on); the zero `time.Time` is 0.  Each activation
advances the clock, because two monotonic readings under the same lock differ on
the platforms the services run on.  `own` in a call and a timer is a history
field: the stamp its own activation wrote.  Durations include one that overflowed
in `makeChaosHandler`'s conversion to nanoseconds and so arrives negative.

`ChaosContract` is the abstract specification: activations have distinct stamps,
one that ended never comes back, and a request to clear a scope is answered only
when nothing that was live in that scope when it arrived still is.
`ChaosRegistry!KeepsContract` is the refinement; `live` is the registry seen
through `IsActive`, `asked` is the sweeps.

### ChaosEffects

The goroutines a fault starts.  Of the registry it keeps only what they read:
an entry is `off`, `on`, or `over` (enabled, duration passed).  The callers stand
for HTTP handlers, timers and sweeps, any of which calls `Disable` at any time.
`Enable`/`Disable` are the calls up to their unlock; `TakeCancel`, `CloseCancel`,
`Install`, `Launch` and `Release` are the steps after it (`startCPUStress`,
`stopCPUStress`, the `go` statements, `releaseMemory`).  `LeakCheck`,
`LeakAppend`, `NovelCheck`, `WriteLine`, `WriterDeadline`, `BurnersStop` and
`Exit` are the loops of the goroutines.  The chunk and line counts are
parameters.  `crossed` is history: for each start of burners, whether another
start or a Disable of cpu_stress was in flight with it.

### ChaosCampaign

`StartCampaign`, the step and closing goroutines and the kill-switch.  An invalid
plan changes nothing, so the guard leaves it out.  Time is counted in ticks, two
to a second in the runs.  `FinishedMeansOver` is about `activeCampaign` itself: the
step in which it turns from running to finished, whoever takes it.

### ChaosShape

How hard an active fault strikes.  `EnableSpec` here is the normalisation of a
request (intensity, durations, ramp, period, scope); `AskIsActive` and
`GetIntensity` are the two critical sections of `GetIntensity`, between which
commands and time come.  `OnsetFactor`, `CapacityFor` and `Effective` are the pure
functions below them, in integers.  An intensity of 1.5 is read as 1.5 per cent,
because `normalizeIntensity` takes everything above one for a percentage.

### VerdictHarness

`Runner.Run` and the suite loop of `cmd/verdict`.  `at` is the program counter:
one action per outside call or per poll, because between two of them anything
else can happen - a detached injection arrives (`Deliver`), a fault ends
(`FaultEnds`), the product raises, absorbs, revives or resolves an alert (`Page`,
`Absorb`, `Resurrect`, `Resolve`), SIGINT cancels the context (`Cancel`).

| Actions | Code |
|---|---|
| `NextScenario`, `Report` | the suite loop, which stops at a cancelled context |
| `Preflight`, `SetUp`, `Dispatch` | the phases before the wait; the first two end the run when they fail |
| `Baseline`, `Poll`, `PollHit`, `PollOver` | `waitForAlert`, for `quiet` and for `detect` |
| `TriggerRCA`, `Analysis`, `AnalysisTimeout`, `GradeRCA` | `runRCA`, `gradeRCA` |
| `Remediate`, `Approve`, `Recovered`, `NotRecovered` | `runRemediation`, `anyFaultActive` |
| `BusinessHit`, `NoBusiness` | the business phase |
| `BeginKill`, `CallKill`, `KillDone` | `killAll`: its targets, the call of each (any order), and its return, whose error and status nobody looks at |
| `Clear` | a service's `DisableAll`: one `Disable` per type, in any order, with the lock released in between |
| `ResolveRunAlerts`, `CoolDown` | `resolveRunAlerts`, `cooldown` |

A call either answers or fails (`ok`); one that carries the context fails once it
is cancelled, one that does not (preflight's and the status calls) may succeed.
Deadlines are a choice: a loop that looks at its deadline may find it passed.
Alerts are seen by what `waitForAlert` compares - `fired_at` against a minute
before the injection (`fresh`) and the occurrence count (`dedup`).  `lit`,
`since`, `standing`, `killed`, `missed` and a fault's `late` (this run's sweep of
the target had passed its type when it arrived) are history, for the properties.
A sweep belongs to the service, not to its caller: it goes on when the call has
failed, also into the next scenario.  Of a service's types only those a scenario
of the suite may turn on are kept, and the suite takes the library in its order,
each scenario once.  The matching of names, a stale analysis of an earlier run, YAML and
the report's layout are abstracted.  One thing `waitForAlert` cannot tell is left
open in `NoMissedPage`: an alert that the baseline knows, that resolves and
comes back with the same `fired_at` and count.

### OrderFlow

`createOrder` with `callPaymentService`, `getOrder`, and the payment service's
`handleProcess`.  The two services share nothing, so a payment handler
(`HandleProcess`) goes on when its caller has given up; `NoAnswer` is a connection
that fails before or behind it, an injected fault that answers in its place, or a
client that went away and with it the context.  `Answer` reads the status code and
either ends the loop or goes to the next attempt with `NextAttempt`.  `Store` is
`db.Insert`/`db.Update`: both write the whole record, so two requests that drew the
same random id overwrite each other.  A reader that misses the cache (or is told
so by an injected stampede) reads the DB and fills the cache in two steps, with any
other step in between; nothing invalidates an entry, which may stay pending for
good.  `heard` is history: the calls whose answer arrived.  The event published at
the end reaches nobody, because the queue is the process's own and the
notification worker listens to the queue of *its* process.

### ShopKnobs, ShopFlow

`ShopKnobs` is `incident.go`: two knobs that are the same code twice.  `Post` is
`Enable` with the goroutine it leaves behind, `Delete` is `Disable`, `Wake` the end
of a goroutine's sleep, `Tick` time.  A duration that is no int64 of nanoseconds
converts to whatever the machine makes of it, which is a choice.

`ShopFlow` EXTENDS it with the rest of the mock, by goroutine:

| Actions | Code |
|---|---|
| `Emit`, `MutatorDraws`, `MutatorSends`, `MutatorReturns` | `RunMutator`: the tick up to the read of `idSeq`, its write, `recordOrder` with the non-blocking send, the end |
| `Receive`, `CheckIncident`, `EmitterDraws`, `Deliver`, `EmitterReturns` | `Emitter.Run`: the receive with the look at the slump, `applyIncident`'s look at the meltdown, the refund's id, `post`, the end |
| `Cancel` | SIGTERM |

An id is a read of `idSeq` and a later write; `nextID` returns what it wrote, as the
Go compiler forwards the stored value to the return.

`Retained` and `ListOrders` are what the store keeps and what `orders.json` shows;
the seeds are not cut to `maxOrdersRetained` until the first order comes behind
them.  The slump suppresses the webhook of an order that stays in the store
(emitter.go:80), and a full channel drops it: later events name an order the
receiver never heard of, which `OrderFirst` allows for and for nothing else.

### TimedSwitch, SysState, EcomInjector, ChaosScheduler

Three components keep "a value that stands for so long", each in its own way: the
force switch of sysstate compares with a deadline, the ecom injector with a
duration since its start, and the chaos scheduler writes expiry down when somebody
asks.  `TimedSwitch` is the promise common to them, for any set of `Values` and of
`Standings`, the times a command may give.  Each of the three instantiates it with
what a reader can tell of its state and has a property that says it implements it
(`ForceKeepsTime`, `ScenariosKeepTime`, `ChaosKeepsTime`); the sets are those the
component lets through, so a force that asks for no time stands for the default
and an injected scenario never longer than `MaxInject`.

`SysState` keeps the table of incidents as it is and the schedule in half-minutes;
what `epochInfo` draws is a choice made once.  A status page is its five reads
(`ForceStatus`, `HealthScore`, `CurrentStateName`, `ActiveFaultNames` and
`FaultsOffSwitch`), and the page remembers every moment it lived through.  Two
oddities the properties had to allow for: a force between the two halves of
`activeFaultsAt` makes the page name the schedule's faults even when the schedule
is off, and `FaultHealth` lowers a cascade fault's health before `activeFaultsAt`
names it.  `time.Now()` and the look at the switch that follows it in each read are
one step.  `ChaosScheduler` has the commands of `POST /chaos` and a request's four
steps; the 503 of a struck request is followed by the handler's own body, which
changes no state.

### NotificationQueue, UserStore, AuthTokens

The simulated platform as its services use it, one action for each access: a
publisher's backlog delay and its send, the worker's receive, count and store, the
cancel that closes a channel somebody may still send on; a read that misses the
cache and fills it; an update that reads, merges (one field, both or none), writes and drops; a login that
caches a token; a verification that misses and falls back on a made-up user.
`NotificationQueue` has both wirings: publishers in the worker's process, which is
what `SharedQueue` is written for, and the services as they are deployed, where the
worker subscribes to a queue nobody publishes on.

### RequestPath, TrafficGen

`RequestPath` is a request through `Metrics` and `ChaosFaults` and, in the gateway,
the limiter and the proxy; `Abort` is the panic with which the proxy gives up a
response half sent, and which skips the decrement of the gauge.  `ResetWindow` is
the goroutine that empties the counter once a second: a fixed window, although the
comment at cmd/gateway/main.go:52 calls it a sliding-window counter.  `former` is
history, what the window before let through: `RequestsAccounted` says that a window
passes the limit and no more, and a span with one reset in it up to twice the limit.  `TrafficGen` has both
modes of the generator: journeys whose steps learn from answers, and single
requests on a ticker that bursts speed up.  A summary with no request since the
last one divides by zero latencies (cmd/traffic/main.go:104) and panics; that is
the state `panicked`.  Overlapping bursts are the count `bursts`, whose first end
slows the ticker for all of them.

### Services, MCServices

`Services` is the nine small state machines side by side: sysstate, the shapes, the
injector, the scheduler, the queue, the users, the tokens, the request path and the
generator.  They share nothing, so `Next` is a step of one of them while the others
rest, and the properties are conjunctions of the components' own.  It holds their
constants and what the code says of those, as named assumptions, and is what the
proofs are about.

Interleaving what shares nothing only multiplies states, so for TLC `MCServices`
chooses one component at the start, `focus`, and a behaviour steps that one alone.
Its `Schedule` is sysstate a second time, with no commands, from the start of an
epoch to its end for each incident of the table.

### Proof modules

| Module | Proves about |
|---|---|
| `ChaosRegistryProofs` | the registry and its refinement of `ChaosContract` |
| `ChaosEffectsProofs`, `ChaosCampaignProofs` | the goroutines of a fault, campaigns |
| `VerdictHarnessProofs` | the harness |
| `OrderFlowProofs` | order and payment service |
| `ShopFlowProofs` | the Shopify mock |
| `ServicesProofs` | queue, users, tokens, request path, generator |
| `SwitchProofs` | sysstate, shapes, injector, scheduler, and their refinements of `TimedSwitch` |

Section 5 says what, and along which invariant.

## 3. Runs

| Run | Configuration | Shows |
|---|---|---|
| `registry_safety` | two types, timed and sticky, two enables that may overlap, kill-switch, restart | types; every timed fault has a timer; no timer cuts its own activation short; sweeps clear; the contract is kept |
| `registry_live` | one type, two overlapping enables, fair goroutines | every timed fault ends or is superseded |
| `registry_sticky` | violation | a timer that has checked can turn off a *sticky* fault enabled in between |
| `effects_safety` | three interchangeable callers, all five side effects, any calls at once | no double close; burners can be stopped, and end with their fault, unless their start overlapped another call; a released leak keeps at most a chunk per activation |
| `campaign` | two campaigns that may share an ID, dry runs, kill-switch, fair goroutines | a running campaign has a closer and ends; `activeCampaign` is called finished with steps to come or on only by the kill-switch or by the closer of a namesake |
| `harness` | suites of two scenarios out of three (full loop, control, KPI slump with a fault), one alert, fair harness | a hit is a page of this run, and no page is missed; what survives a kill-switch arrived behind its sweep; verdicts are honest; scenarios end |
| `harness_leak` | violation | a shop incident injected by its own path outlives the cleanup although every kill-switch answered |
| `harness_quiet` | violation | the quiet phase passes although an alert stood, because the polls failed |
| `orders` | two orders with the same id, two payment calls each, one reader, fair services | a status is what was heard of the payment; nobody is charged again after an answer that arrived; every order settles |
| `shop` | two shops, one incident asked for and cancelled, a channel and a store of two places, three events, fair goroutines | every event is in one place, goes out once and in order; a named order went out first; incidents stay in their shop; ids repeat only for a raced refund; pages show the newest orders; everything comes to rest |
| `shop_incident` | violation | the goroutine of a first POST ends the incident of a second one |
| `services` | one component in each behaviour (ten small instances), the worker fair | switches keep their time; pages, strikes and intensities are justified; messages are handled in order and the worker ends; users, tokens, metrics and statistics go wrong in the named windows only |

The `violation` runs are disagreements between a comment and the code; each is
explained under `findings` in `PROJECT.json` with the line it quotes.

**Bounds.**  `MaxStarts = 2` is what the interesting cases need: an activation
and the one that supersedes it, before or after each step of the first one's
timer.  `StartHorizon = 4` lets the second begin after the first has run out
(durations are normalised to at most `MaxDuration = 2`) as well as before; the
clock then runs until every timer has woken.  `MaxParallel = 2` lets two
`EnableSpec` calls overlap; it is 1 in `registry_sticky`, to show that the defect
needs no overlap.  Three callers in `ChaosEffects` are a starter, a stopper and a
third that meets both, and two starts are enough for one to overwrite the other's
channel; three chunks distinguish "one chunk left" from "the rest of the leak".
In campaigns, `Horizon` bounds when one starts, and the clock runs until the last
goroutine has woken; `MaxLate < Second` is the assumption that a goroutine wakes
less than the second late that `campaignEndDuration` allows for.

Suites of two scenarios are enough for what one leaves to the next: its faults,
its injections still asleep and its alerts.  One alert is enough, because
`waitForAlert` looks at each alert alone; its count goes up once.  The scenarios
are instances of the library's s02, s09 and s10, the last with a second target in
the passing run.

In `shop` three events are two of the first shop and one of the second between them:
a webhook that names an order the slump suppressed, or one still queued.
`Room = 2` lets two events wait in their order and drops the third, `MaxRetained = 2`
drops the seed when the second order comes and leaves two for a page of two.  One POST is enough for two goroutines that look at a knob
at different times; `shop_incident` has the second.  The proofs have all sizes.

In `services`: the schedule is followed through a whole epoch for every incident
and both lengths of calm; forced incidents start in a ramp, at a peak and near the
epoch's end, with two commands around one page.  A shape is followed for seven
ticks, past the longest duration, ramp and period its requests ask for, with the
second command before or after the first entry's end.  Three messages and two
places queue two in their order and drop one.  Three writes by two callers are an update that
overtakes a fill and another update.  Two tokens and two verifications tell a
token from its neighbour and one verification's fallback from the other's hit.  A
limit of one with three requests passes, rejects and passes again after the reset.

In `orders` the two requests always draw the same id: with different ids they share
nothing.  Two calls instead of the code's three are the last one and one before it;
section 5 has the result for any number.

**Deadlock** is not checked in these runs: each has bounds, and a service with
nothing enabled and nobody calling, or a process that was told to stop, is at rest.

## 4. Fairness

`FairSpec` of the registry grants weak fairness to each call past its unlock, to
each timer goroutine, to each request being handled, and to time.  The Go
scheduler runs every runnable goroutine, `time.Sleep` returns, and `RWMutex` does
not starve a writer; all of them are always enabled once runnable, so weak
fairness is enough.  Nothing is granted to requests: nobody owes the service a
DELETE.  Campaigns have the same, except that the kill-switch is a request too.
Safety runs use no fairness.

`FairSpec` of the harness is weak fairness of `Onward`: every call has a client
timeout and every wait a deadline, so the harness can always move on.  The
answers it hopes for - an alert, an analysis, a recovery, a business anomaly -
are not in `Onward`: the product owes it nothing.  In `OrderFlow` the goroutine of a
request and the payment handlers are fair: every sleep in them is finite.

`FairSpec` of `ShopFlow`: the mutator's and the emitter's goroutine each go on while
they can (a post ends by the client's timeout), time passes and a goroutine whose
sleep is over wakes.  Nobody has to POST, DELETE or send SIGTERM.  The notification
worker's `Fairness` is that of its goroutine, of the cancel and of the shutdown in
main; a publisher may stop for ever.

## 5. Proofs

`ChaosRegistryProofs` proves, for any types, operators, durations and replica
counts, with no bound on clock, activations or overlap:

| Theorem | Statement |
|---|---|
| `TypeCorrect` | `Spec => []TypeOK` |
| `NoOrphan` | `Spec => []TimedFaultHasTimer` |
| `NotCutShort` | `Spec => []NeverCutShort` |
| `SweepsClear` | `Spec => []SweepClears` |
| `ImplementsContract` | `Spec => KeepsContract`, the refinement |

The inductive invariant is `IInv = TypeOK /\ Stamped /\ CallsAgree /\ TimersLate
/\ TimedFaultHasTimer /\ SweepClears`.  `TimedFaultHasTimer` needs `CallsAgree`
(while the activation a call wrote is current, the map still says what the call
wrote) because the timer is spawned from the call's variables and not from the
map; `NeverCutShort` needs `TimersLate` (a timer sleeps past the end of the
activation that spawned it, even when it captured another stamp); `Stamped` ties
all stamps to the clock, which is what makes a new stamp differ from every old
one.  The refinement maps each action to a step or stutter of the contract; it
uses `SweepClears` for the answer of a sweep.

`ChaosEffectsProofs` proves, for any callers, activations and leak size:

| Theorem | Statement |
|---|---|
| `EffectsTypeCorrect` | `Spec => []TypeOK` |
| `NoDoubleClose` | `Spec => []ClosedOnce` |
| `LeakResidue` | `Spec => []ResidueBounded` |
| `BurnersReachable` | `Spec => []BurnersAnswer` |

`EInv = TypeOK /\ Numbered /\ ChannelsOwned /\ StartsOwned /\ LeakersApart /\
Residue`: an open channel is in one place only; an activation's number is known
to its caller alone until it is stored; an activation has one leaker, which has
no chunk in the ballast if it is still to append after the release.
`BurnersReachable` adds `BInv`, with any calls in flight.  Calls about cpu_stress that
are in flight together are recorded by each other's starts (`Paired`); a start past
its swap leaves in `cpuCancel` only what an overlapping start stored
(`NothingToLose`), so its own store loses no other channel; and a fault that is off
is so by a Disable that either met the start (`crossed`) or takes its channel
(`StillOn`, `StoredOn`).

`OrderFlowProofs` proves, for any requests, readers, ids and number of attempts:

| Theorem | Statement |
|---|---|
| `StatusHonest` | `Spec => []StatusIsWhatWasHeard` |
| `NoNeedlessCharge` | `Spec => []ChargedAgainOnlyIfLost` |

`OInv` adds to the two: `PlaceKnows` (where a request stands says whether it heard
of a payment), `HeardIsOver` (a call that was heard of does not change any more),
`NoneAhead` (no call is made ahead of the loop) and `RefusedIsOver` (the request of
a refused order hears nothing any more) - the last because copies of a record
outlive it in the cache and with readers.

`ChaosCampaignProofs` proves, for any plans, lateness and number of campaigns:

| Theorem | Statement |
|---|---|
| `CampaignTypeCorrect` | `Spec => []TypeOK` |
| `RunningCloses` | `Spec => []RunningHasCloser` |
| `FinishedIsOver` | `Spec => FinishedMeansOver` |

`CInv = TypeOK /\ RunningHasCloser /\ Unlaunched /\ Numbered /\ OnTime`.  `OnTime`
ties what is still asleep to the end that `campaignEndDuration` computed: a step
yet to fire, and the end of what it will enable, lie at or before the closer's
time.  When `activeCampaign` turns to finished, the goroutine that does it is its own,
an older one of the same ID, or the kill-switch; of its own `OnTime` says that
everything is over.  The code's running maximum is a `CHOOSE` over a finite set; that it exists
is `GreatestOf`, proved from the well-foundedness of the naturals, since the
library's induction on finite sets takes an operator.

`VerdictHarnessProofs` proves, for any library of scenarios, alerts and suites:

| Theorem | Statement |
|---|---|
| `HarnessTypeCorrect` | `Spec => []TypeOK` |
| `HitsArePages` | `Spec => []DetectionIsAPage` |
| `PagesAreHits` | `Spec => []NoMissedPage` |
| `KillsHold` | `Spec => []KillHolds` |
| `VerdictsHonest` | `Spec => []VerdictHonest` |

`VInv` is `TypeOK` with three groups.  *Runs*: `Graded` (a section that is expected
and lies behind the program counter has a grade), `Injected`, `OfRunsSoFar` (no
injection belongs to a run to come) and the verdict.  *Kills*: between the kill
loop's steps every target is to be called or has been (`KillsAll`), and of the types
a sweep of this run has passed, what is on at its target is late (`SweptClean`).  *Pages*: `BaselineKnows`
relates each alert to what the baseline recorded of it - one that was not there is
lit now, one that was has a count no lower, and a higher one means it was lit.

`ShopFlowProofs` proves, for any shops, topics, durations, requests and sizes:

| Theorem | Statement |
|---|---|
| `ShopTypeCorrect` | `Spec => []TypeOK` |
| `IncidentsStayHome` | `Spec => []OnlyTheAsked` |
| `OnlyRefundsCollide` | `Spec => []DuplicateBlamesRefund` |
| `UnlimitedEnds` | `Spec => []UnlimitedIsBrief` |
| `OnceAndInOrder` | `Spec => []NothingLostOrTwice` |
| `OrdersGoFirst` | `Spec => []OrderFirst` |
| `NewestAreShown` | `Spec => []RestShowsNewest` |

`KInv` is of the knobs: one that is on was asked for in its shop (`KnobsAsked`), and
one with no time of its own has a goroutine that is due (`Doomed`).  `FInv` is of
the flow: `InTurn` ties an event's shop to its number, `Touched` says of each thing
an incident altered that it is of a shop asked for, and `Ids` says that while no
two draws have overlapped the ids are distinct and at most `idSeq`, and a draw in
progress is of the next one.  Requests only add to what was asked for, so the
knobs' steps preserve `FInv`.

`OnceAndInOrder` adds `QInv`, of what passes from the mutator to the receiver:
`Numbered` (the numbers grow from the webhooks over the emitter and the channel to
the mutator), `Apart` (what was dropped or suppressed is nowhere else), `Somewhere`
(every number that left the mutator's hands is in one of the places), `Fanned` (the
emitter's list starts with the event's own webhook until that is posted; after that
the last webhook posted is of the same event) and `Sorted` (the webhooks so far).
That no two webhooks of an event are its own follows from `Sorted`.

`OrdersGoFirst` adds `NInv`, which speaks of numbers only and leaves the positions
to `QInv`.  An order is `Told` when its own webhook is out or never will be, and
`Known` when it is told or an `orders/create` with its number is with the emitter or
on the channel.  `Kept`: every order of the store is known, and left the mutator's
hands.  `Referring`: an event, wherever it is, names its own order or a known one
with a smaller number.  `Telling`: once the emitter has posted an event's own
webhook, the event's order is told.  When a webhook goes out, the order it names
has a smaller number than the event, while what the channel has is numbered higher
(`Numbered`); so a known order can only be a told one.

`NewestAreShown` needs `RestInv` alone: the store holds a suffix of the orders
recorded (`Suffix`), all of them as long as only the seeds are there.

`ServicesProofs` proves about `Services`, for any actors, messages and requests:

| Theorem | Statement |
|---|---|
| `AlwaysHandledInOrder` | `Spec => []HandledInOrder` |
| `UsersStayConsistent` | `Spec => []UsersConsistent` |
| `TokensAreKept` | `Spec => []TokenKeepsUser` |
| `RequestsAlwaysAccounted` | `Spec => []RequestsAccounted` |
| `StatsAlwaysAddUp` | `Spec => []StatsAddUp` |

A step of the whole is a step of one component and a stutter of each other
(`StepsAreTheirs`), so each component has an invariant of its own:

- `NoteInv`, the queue.  `Count`, the messages accepted less those on the channel,
  is where the worker is: the channel is the rest of the accepted (`Queued`), the
  records are its beginning, one behind while a message is in hand (`Worked`), and
  the statistics run between the two.  `Published` and `Stopped` say where a
  message may be and when the channel may be closed.
- `UserInv`, the users.  `Holds`: who has read a row and is still to fill the cache
  or merge holds what the row is, unless a write has come in between.
- `TokenInv`, the tokens.  Nobody can present a token before its login has
  answered (`Private`); from then on the cache has its owner (`Kept`), and who makes a user up
  for it was kept from seeing that (`Missed`).
- `PathInv`, the request path.  The gauge of a series is the cardinality of the
  requests in flight that arrived under it, plus the aborted ones; what was let
  through is what was counted, up to the limit, and the window before let through
  no more than the limit.
- `GenInv`, the generator: the property itself with its types, because recording
  and summarizing are single steps.

`SwitchProofs` proves about `Services`, for any names, times, clients and commands:

| Theorem | Statement |
|---|---|
| `AllSwitchesKeepTime` | `Spec => SwitchesKeepTime`, three refinements of `TimedSwitch` |
| `AlwaysProbesJustified` | `Spec => []ProbesJustified` |
| `AlwaysStruckByItsOwn` | `Spec => []StruckByItsOwn` |

The refinements (`ForceRefines`, `EcomRefines`, `SchedRefines`) need no more than
types (`ForceInv`, `EcomInv`) and, of the scheduler, that what is on is one of its
kinds (`OnIsSet` of `SchedInv`): the request that writes expiry down stutters,
because readers already saw it off.  They hold for
each scenario of the injector by itself; a reset is a command to each.

`PageInv` is of a status page half put together: every moment since it began was
seen, each part it has was true at one of them, and a page that found the switch
off has the faults of a moment, unless a command came since.  That an override
which was over stays over is `OffAndOver`; without it a page could be wrong with
no command at all.  What the probes say of the schedule (`ScheduleMatches`) is no
invariant but a fact about every plan at every time, proved for each incident of
the table (`TableIsSane`).

`ShapeInv` says what `EnableSpec`'s normalisation leaves of a request: an entry that
is enabled has a positive ramp and period, so that the divisions of `OnsetFactor` are
by no zero, and an entry that is not has no level.  A call to `GetIntensity` that
found the fault active has the entry there is now among those it may answer for.

`OrderTypeCorrect` (`OrderFlowProofs`) is `Spec => []TypeOK`, from the same `OInv`.

Assumptions are those named in the modules, and TLC evaluates them on each run.
Those of `Services` are the code's: what forces an incident is checked against the
table, numbers sent are integers and the defaults are positive constants.  Two are
about the encoding: what stands for no chaos, no user and no token (`NoKind`,
`NoUser`, `NoToken`, where the code has a flag or a failed lookup) is outside the
sets of what there can be.

**Only model-checked**: liveness (`TimedFaultEnds`, `CampaignEnds`, `ScenarioEnds`,
`OrderSettles`, `QuietsDown`, `WorkerFinishes`), which the prover does not handle
under fairness.  Every invariant and action property of a passing run is a theorem.

## 6. What is known to go wrong

Besides the `findings`, the models show behaviour that no comment or test of the
repository contradicts, so no run refutes anything, but a maintainer should know:

- A timer may compare with the stamp of another activation, when two overlap
  (shape.go:114); `TimedFaultEnds` and `NeverCutShort` hold all the same.
- Burners started behind the unlock may outlive a Disable that came in between
  (shape.go:91), and a log storm outlives any (chaos.go:447).  Of two overlapping
  starts of burners one loses its channel, and nothing stops its burners before the
  process ends (chaos.go:374).
- A campaign whose ID was used before may be called finished by the goroutine of the
  earlier one, with its steps pending (chaos.go:296).
- An injection that lands while the kill-switch sweeps its target may survive
  although the kill-switch answers later that all is disabled (chaos.go:231-234).
- The gateway's limiter, a "sliding-window counter" in its comment
  (cmd/gateway/main.go:52), is a fixed window: twice the limit may pass within a
  second, across a reset.
- An order service's reader may cache a pending order for good.
- Under a simulated cache stampede a verification can give a token to a made-up
  user for good (cmd/auth/main.go:337).
- Users who log in get ids the user service has never heard of, so the generator's
  learnt ids partly lead nowhere.
- `REQUESTS_PER_SECOND=0` divides by zero in the traffic generator's legacy mode,
  before any state the model has.

## 7. Plan

Done: every component that keeps state, and a proof of every safety property.
Left, in this order:

1. An abstract queue that may drop but not reorder, implemented by the worker's
   channel and by the Shopify mock's, and the proof that both do.
2. Several subscribers of one topic, should a second service subscribe.
3. The Shopify customer pages, to which customers/create appends, and the product
   and inventory pages beside them.

## 8. Not modelled

Telemetry export, HTTP and JSON plumbing, token cryptography, webhook signatures,
random draws and the load curves that scale them, metric values, the Shopify
catalogue and the customers that customers/create appends, the external
monitoring product (modelled only as what it may answer), deployment files and
scripts.
