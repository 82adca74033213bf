# Formal models of ntn-in-a-box

`ntnbox` emulates what an application sees behind a non-terrestrial (satellite)
link: a device comes into coverage, is blocked, falls out of coverage, and the
delay, loss and rate of its traffic change all the while. Most of the program
is concurrent: a driver goroutine per device publishes coverage and link-state
events synchronously on a bus, and modules, the report, the recorder, HTTP
handlers and timers act on them under locks of their own.

This directory holds TLA+ modules translated from the Go source, TLC
configurations that check them on small instances, and TLAPS proofs of the
main safety properties for every value of the constants. `PROJECT.json` maps
every definition to the source lines it models.

    tlc -workers 2 -config <run>.cfg <MC module>      # one run
    tlapm <module>Proof.tla                           # one proof module

## 1. Inventory

### Components, their state and their operations

| Component | State | Operations | Shared with |
|---|---|---|---|
| Dual-path sandbox (`devsandbox/module.go`, `path/manager.go`) | `inCoverage`, `lastState`/`hasState` under `mu`; bearer and blockage memory in `path.Manager`; default route and qdisc in the kernel; `satMu` | `InitBearer`, `OnCoverageEvent` -> `reconcileBearer`, `OnLinkState` | bus (callbacks), `tc` and `ip` commands that may fail or time out |
| Single-path sandbox (same file) | the same fields, `gen`, the channel `shapeCh` of 16 commands, `shaperLoop`'s `currentGen` | the same handlers, `shaperLoop` | bus, `tc` |
| Messaging (`messaging/module.go`, `store.go`, `handlers.go`) | bounded store of messages with a status each | `POST /messages`, flush at `window_opened`, receipts, eviction, `Close` | bus, condition evaluator, IMS adapter |
| Mock IMS adapter (`imsadapter/mock.go`) | one goroutine per submitted message | `Submit`, `driveLifecycle` with cancellation | messaging (callback) |
| Report aggregator (`report/aggregator.go`) | running coverage segment, seconds per bucket, opens and closes, tallies, `finalized`, ticker channel | `onCoverage`, `onMessage`, `onCall`, `onHandover`, `tickLoop`, `Close`, `Finalize` | bus, evaluator |
| Coverage driver (`driver/loop.go`) | last coverage seen, lookahead flags | `tick` | evaluator, bus; one goroutine per device |
| Condition engine (`condition/`) | none: functions of profile and time | coverage, blockage, curves, lookahead | everyone who samples |
| Event bus and throttle (`eventbus/`) | lists of subscribers; last link state published per device | subscribe, publish (synchronous, from a copy of the list) | everyone |
| Pass prediction and link models (`tle/predict.go`, `linkmodel.go`, `generate.go`) | none: functions of the elevation over time | find rises and sets, select and sample passes, generate profiles | sequence clock |
| Sequence clock (`tle/sequence.go`, `synced_eval.go`) | simulated time, passes, mode | `Advance`, evaluation of the master and its peers | driver |
| API host (`apihost/`, `device/registry.go`) | devices, evaluators, hook, SSE clients | registration, conditions, event stream | bus, messaging, drivers |
| Recorder, replayer (`recorder/`) | a JSON-lines file | record coverage and link states; replay them | bus |
| Namespace and netem (`netns/`, `netem/`) | namespace, veth pairs, NAT rules, qdiscs in the kernel | create, destroy, set-up, route, shape | sandbox, command line |
| Command line (`cmd/ntnbox`) | the context of a signal, the child process, the deferred calls | start in order, wait, undo | everyone |
| Dashboard (`tui/`) | the child's watch, the pipe of its output, metrics | keys, SIGTERM and SIGKILL, restart of a replay | command line |
| Profiles, voice, web UI | sequential | parse, validate, estimate, draw | - |

### How they interact

`ntnbox run` wires one sandbox: it creates the namespace, sets up netem with the
first curve values, calls `InitBearer` when there is a terrestrial fallback, and
only then subscribes the sandbox, the recorder and the report to the bus and
starts the driver. `ntnbox serve` starts one driver per device, the API host
and the modules. A publication calls every subscriber in the publisher's
goroutine, so that the hooks of one device run on its driver; the module contract
(`pkg/module/module.go:17-22`) nevertheless requires modules to accept calls
from any goroutine, and `devsandbox.Module` says it does. Messaging hooks run on
the drivers of all devices, on HTTP goroutines and on adapter goroutines.

### What is hard

* Steps of two goroutines between two locks: the store's mutex guards each
  method and nothing in between; `mu` is released before `satMu` is taken and
  before a command is sent to `shapeCh`.
* Failure in the middle: route and shaping commands may fail, the adapter may
  refuse a message, `Close` may cancel it.
* Events and samples of the same change applied in any order: the report has a
  ticker that samples what the driver also announces; handlers run after
  unsubscription, because the bus copies its subscribers.
* Everything is bounded: the store, the channel, the SSE queues, the rings.
* A session may end anywhere: a step of the start fails, a signal comes in the middle of
  a command, the process crashes and is started again on what it left behind, the child
  ignores SIGTERM, or leaves descendants behind that no signal reaches.
* The API host answers while the start goes on: between the registration of a device,
  its evaluator and its driver there are requests of other clients.

`PROJECT.json` lists each hazard at its line, with the properties that watch it,
or the reason why none does.

### What makes each component correct

* *Sandbox*: traffic leaves by the bearer that is reported; a path that has been
  left drops everything, whatever link states were under way; the newest link
  state wins; an outage gets through a full queue; handovers form a chain.
* *Messaging*: nothing is submitted twice, left in flight, or evicted in flight;
  nothing stays queued for a reachable recipient; outcomes are announced.
* *Report*: the buckets add up to the run; a segment is in the bucket of its start (a profile) or in
  the one the pass sequence is in; once finalized, nothing changes; `Close` returns.
* *Driver, bus*: edges alternate; a notice precedes each foreseeable one and is true; predictions
  come true; what subscribers hold of the link is recent and close.
* *Pass prediction*: passes begin and end on crossings; none that is long enough is missed; the link of
  an instant is that of its elevation.
* *Sequence clock*: simulated time never runs backwards, never jumps over a pass, and every
  pass is announced, opens and is announced to close.
* *API host*: a device has one driver, and its evaluator once its registration was
  answered; clients see events in order, from the right evaluator, and every handover.
* *Recorder*: a recording holds every event once; a replay publishes what was recorded.
* *Command line, namespace, dashboard*: however a session ends, the host is left as it was, but for pairs that
  `Create` half made or that a process in the namespace keeps; a signalled session ends, unless the dashboard's
  output pipe is held or unread.

## 2. Modules

| Module | Models | Abstract counterpart |
|---|---|---|
| `PathManager` | `path.Manager` as operators on a record | - |
| `DualPath` | the sandbox with terrestrial fallback | `HandoverFeed` |
| `HandoverFeed` | what subscribers of handover events are promised | - |
| `ShaperQueue` | the sandbox without fallback | - |
| `Messaging` | store, module, handlers, mock adapter, drivers | `MessageLifecycle` |
| `MessageLifecycle` | what a sender is promised about each message | - |
| `Condition` | profiles that `Validate` accepts; coverage, curves, link state, lookahead | definitions inside the properties |
| `LinkThrottle` | the bus's throttle for one device | - |
| `DriverLoop` | one tick of the driver | - |
| `CoverageDriver` | the three composed: a loop over an evaluator | - |
| `PassPrediction` | the search for passes over an elevation | `PredictionTrue`: what a pass is, and which ones may be missed |
| `LinkModel` | link models, and the profile of a pass (extends `Condition`, `PassPrediction`) | - |
| `SequenceClock` | the evaluator of a sequence of passes and its clock | `EntriesTrue`: what it says against the sky |
| `Recording` | recorder and replayer of coverage events | - |
| `SatelliteSession` | these with `DriverLoop`: a session driven by an orbit | - |
| `SandboxHost` | namespace, veth pairs and NAT rules on the host | - |
| `ChildRun` | the user's command, its output and the watch over it | - |
| `DeviceHost` | devices, evaluators, the hook, requests of several clients | - |
| `EventStream` | `GET /events` for one client | - |
| `RunSession` | these four composed: one life of `run`, `serve` or `replay`, or two with a crash between | - |
| `ReportAggregator` | coverage accounting, ticker, `Close`, `Finalize` | - |
| `MC...` | values of the constants for TLC | - |
| `...Proof` | theorems and proofs | - |

### DualPath

`OnCoverageEvent` is one action per stretch of code between two points where
another goroutine can get in: `CoverageCall` (the event arrives), `Reconcile` (take
`satMu`; record coverage and sample `lastState` under `mu`), then `Refresh` when
the bearer is already the wanted one, or `Shape`, `SwitchRoute` or
`SwitchRouteFails`, and `Commit` (commit the bearer and publish). `OnLinkState`
is `LinkCall` (under `mu`), `LinkLock` (take `satMu`, re-check the bearer) and
`LinkApply`. `satMu` is a variable. Every `tc` and `ip` command may fail at any
time. Two history variables record whether the latest shaping command worked
(`shaped`) and whether the latest reconcile was given up at the route command
(`switched`): the code drops shaping errors, so that no property of the qdisc can
hold after one, and the properties say so with these variables as premises. An
error of the route command is taken to mean that the route is unchanged, which
is what the code takes it to mean. Start-up is `InitBearer`, which may abort.

### ShaperQueue

`CoverageCall` and `LinkCall` do what the handlers do under `mu` and leave the
caller with a command to send; `Send` waits for room in the channel. `Skip`,
`Take` and `Execute` are `shaperLoop`: drop a command of an older generation, or
remember its generation and execute it. The history variable `raced` says that
the latest event was delivered while another goroutine had a command to send.

### CoverageDriver

`Condition` is pure: `Coverage`, `LinkState` and `Lookahead` are functions of a profile and of a
position in its cycle, as in the code, where an instant matters only through
`positiveMod`. Seconds are integers, and interpolation divides exactly in the profiles
checked. A predicted instant is a number of seconds from now. `LinkThrottle!Offer` is
`PublishLinkStateEvent` with the age of the last publication instead of its time,
which stops counting at `Interval`, where nothing changes any more. `DriverLoop!Tick` is
`Loop.tick`, with what it evaluated as parameters. `DriverTick` lets the clock move by 1 to
`MaxGap` seconds and ticks. Two history variables hold what subscribers know: the events
since the last edge (`heard`) and the last link state (`shown`). The properties say
what "coverage resumes" and "the window closes" mean by looking at the positions that follow.

Two profiles `Validate` accepts need a premise. A blockage that outlasts its window, or
touches the next one, makes `Coverage` report the blockage's end as the next
transition although coverage does not come back then (`scheduler.go:71`; `Lookahead`
handles the first case). `Loop.tick` then publishes a `window_opening` that is not
followed by an opening, and, its flag being set, none before the real one. So
`NoticesTruthful` asks for `Isolated` blockages, and `PredictionHolds`, which covers blockages
that outlast the window, only for `Separate` ones. In continuous mode with a lookahead the loop also announces the
end of a cycle as a `window_closing`; `NoticesTruthful` speaks of periodic profiles.

### SatelliteSession

What the orbit says is a function from instants to elevations (a *sky*), one for each
observer; SGP4 that computes it is a library. `PassPrediction` is the search over it: a
coarse grid, each crossing narrowed by halving, passes shorter than `MinPass` skipped, at
most `Count` kept, samples for the link. `LinkModel` turns samples into the curves of a
profile with `Condition`'s types, and `EntriesOf` makes one profile for each pass.
`PrimaryTick` is `Advance`, then a tick of `DriverLoop` at the new instant; `PeerEvaluate` and
`PeerPublish` are the two halves of a tick of a peer, between which the primary may move the
clock. Observers share the clock and nothing else, so one driver is watched in each behaviour,
and the other's loop is reduced to its calls of `Advance`. `Publish` ends with the recorder, which
evaluates the device *again*, at the clock of its own moment. `Stop` leaves nothing of the
process but its file, which `Replay` then plays. `started` is whether `Advance` was called; `told` is a history variable: what
subscribers heard of each pass.

### RunSession

`Startup` is the order of the start of each command, `at` the step it has come to, and `Wanted` the flags that ask
for it. Each step is an action of its own that may fail; `CreateCommand` is one command of
`netns.Create`, which fails without effect, succeeds, or is killed by the signal after it took effect. `Fail`
and a stop both lead to `Unwind`, the deferred calls. `Signal` and `Crash` come at any moment; after a crash `Begin` starts a
second life on what the host still has: the name, the pairs, the rules, and a process that lives on (`stray`).
`before` remembers what this life found. `SandboxHost` says what the kernel
does: a namespace lives while it has a name or a process in it, and takes the pairs
inside along. So `Unwind` calls `Destroy` with whether the namespace is `Inhabited`; if it is, its pairs are orphans, held by
a stray process that a session left behind although it returned.

`ChildRun` is the child with the goroutine that waits for it: SIGTERM, three seconds, SIGKILL, both to the child
alone. The user's command may leave descendants in the namespace (`Fork`), which end when they like
(`HeirsEnd`); `heirs` is the set of the kinds of them that live: `holding` the pipe that is the command's output behind a dashboard
(`tui.go:178`), or `quiet`, without it. `cmd.Wait` returns (`Waited`) once the child has exited, and, behind a dashboard, all its output was
read and no descendant holds the pipe. Without a dashboard the output is a file and only the child counts.
`DeviceHost` has the request handlers one lock at a time: a registration is answered after the device is in the
registry (`PostRegister`), its evaluator stored (`PostStore`) and the hook called (`PostHook`), and other
clients' requests come in between; `promised` remembers that a client asked after somebody was told the
device is there. `EventStream` subscribes topic by topic, flushes, greets,
forwards; callbacks run on the publishers' goroutines, after unsubscription too; a
handover waits for room on a goroutine of its own, all else is dropped when there is none.

### Messaging

Goroutines are senders (HTTP), drivers (one per device) and lifecycles (one per
submitted message). Each method of `Store` is one action, as its mutex makes it;
a status is read (`Get`) and published (`Publish`) in two steps, as in
`publishStatus`. `accepted` is a message that has an ID and is not in the store yet,
`gone` one that was evicted. Time stamps are abstracted to their order (`older`).
`CoverageFlip` changes what the evaluator says, `Tick` is the driver that notices.
With `ShortGaps` coverage may change twice between two ticks, so that the driver
misses it. `Close` cancels the adapter's context at any time.

### ReportAggregator

The report asks an evaluator what coverage is at an instant (`Sampled`). There are two kinds of it. That of a *profile*
is the function `Schedule` of the instant. That of a pass *sequence* (`run --tle --report`) ignores the instant and answers for its
own clock (`sequence.go:187-195`), which only the driver's ticks advance: `answer` is that answer, `Ticked` moves it to anything the passes may hold, no
wall time gone by (`lastWall`) means no move, and there are no blockages. `DriverTick` publishes an event
that `OnCoverage` handles later; `TickArm`, `TickFire`, `TickStop` and `SampleNow`
are `tickLoop`, where `TickArm` reads the field `a.stopTick` that `Close` sets to nil;
`TakeFields`, `CloseStop`, `WaitTicker`, `Unsubscribe` and `Finalize` are `Finalize`
with the `Close` it calls. With `PromptDriver` the driver ticks and its event is
handled at every instant; without it both may be late.

## 3. Runs

| Run | Instance | Question |
|---|---|---|
| `DualPathBearer` | 2 coverage goroutines, 1 link goroutine, 2 link states | Do route, bearer, qdisc and events stay in agreement while commands fail? |
| `DualPathRace` (violation) | the same | Can impairments come back over full loss out of coverage? |
| `ShaperQueue` | 2 goroutines, 2 link states, channel of 2, 3 edges | Does a drained channel leave the right setting, and does an outage get through? |
| `CoverageDriver` | all valid profiles of 6 seconds with at most 2 blockages, 10 schedules, ticks every 1 or 2 seconds | Do notices and predictions come true, in order, and is the link state fresh? |
| `SatelliteSession` | 2 observers under 5 skies of up to 3 passes, speeds 1 and 5, 2 start times, ticks every 1 or 2 seconds; recording, replay | Are the passes those of the sky? Does the clock keep its discipline, is every pass played, and does a replay repeat the recording? |
| `MessagingRace` | 1 message to a device, 1 to the cloud, 2 senders, store of 1 | Is each message handed over at most once, held while in flight, and evicted only when it may be? |
| `MessagingWindow` | 2 messages to a device, 1 sender, store of 2 | Is anything stranded, unannounced, or never settled? |
| `MessagingFeed` (violation) | the same | Is the last event of a message its outcome? |
| `ReportTicking` | 6 instants, a profile with a blockage and a gap or any pass sequence, a ticker, a late driver, 2 callers | Is every second accounted for, once, and is each segment in its bucket? |
| `ReportCounts` (violation) | the profile alone with a prompt driver, 1 caller | Are opens and closes those of the schedule? |
| `ReportClose` (violation) | the profile alone with a late driver, 1 caller | Does `Close` return? |
| `RunSession` | 8 command lines of the three commands, descendants of the command, 2 devices, up to 2 clients and 1 event stream, 1 crash | Is the host left as it was found, are devices served, is the stream faithful, and does a signalled session end? |

Every property of a passing run has a mutant: a plausible bug in one mapped definition
under which TLC finds that property violated in that same run.

### Bounds, and why they are enough

* *DualPath*: nothing grows, so the state space is finite without a bound. Two
  coverage goroutines meet at every step of a reconcile, and the link goroutine
  meets both; a third of either kind can only wait for `satMu`. Two link states are
  needed to tell a stale one from the newest. There is one link goroutine since
  `LatestStateApplied` needs it (see section 6).
* *ShaperQueue*: `MaxEdges` = 3 bounds the coverage edges: a window between two
  gaps, or a gap between two windows. `QueueCap` is 2 instead of 16: one command is
  executed, two are queued and two senders wait, so that the channel is full and a
  command can be overtaken. The proofs cover every capacity and any number of edges.
* *CoverageDriver*: with six seconds, windows of three, four and six, and ticks two apart, a
  gap, a blockage and what lies between two of them can all be jumped over. Two
  blockages can touch, touch the window's ends, outlast it, or lie in the gap. The throttle's
  interval of four outlasts a short outage. In the longest window the delay rises by less than the
  threshold (30%) per second and by more in two, and one leaves and returns to zero. The proofs cover every
  profile, interval, threshold and gap.
* *Messaging*: two messages are enough for one to evict the other, to be refused
  because of it, and to stand behind it in a flush. The store of one is full at once.
* *Report*: the timeline has each bucket, both kinds of return to coverage (from a blockage and from a
  gap) and each kind of loss but a blockage at the edge of a window; six instants
  leave room for an event, a tick and a call that are late by several. A pass sequence may answer anything at each of
  the driver's ticks, so that no timeline of passes is left out. The two violations need no more than a profile.

* *SatelliteSession*: a coarse step of 8 stands for 30 seconds, and `Horizon` ends the second pass of every
  sky. The skies have a pass under way when the search begins, one too short, one between two points of the grid, one
  that the search's end cuts off, two that lie closer than a coarse step, and none at
  all. At speed 5 with gaps of 2 a step of the clock is longer than the lead of a notice. `StartTimes` begins inside a
  pass. The proofs cover every sky, link model, speed, start and gap.
* *RunSession*: `MCSessions` is a set of scenarios, not every combination: a dual-path run that crashes once
  and starts again; the API host with two clients that register the same late device, under `run` and `serve`; the event stream beside a late
  registration and beside handovers; a replay; the two dashboards. Clients do not
  touch the host and the child does not touch the clients, so that each scenario enables what it is about. `Capacity` 1 (64 in the
  code) and 2 events of each source fill the channel at once, with a handover waiting; 2 lines of output end or block
  the reader. Descendants are counted by kind, as one that holds the pipe, or is in the namespace, does what ten do. One crash is enough for a life to begin on a stray process, and on stale rules. The proofs cover every set of command lines,
  devices and clients.

Deadlock is checked except in the report runs, where time ends at `Horizon`, and the two session runs, where sessions end: there
everything stops. Symmetry is used in `DualPathRace`, `MessagingRace` and
`ReportTicking`, where no liveness property is checked.

### Fairness

* *DualPath*: weak fairness of each caller's steps, as goroutines run and commands
  are cut off by `shaperTimeout`; strong fairness of taking `satMu`, as a Go mutex
  hands a starving waiter the lock.
* *ShaperQueue*: weak fairness of `shaperLoop`; strong fairness of `Send`, as a
  channel serves its waiting senders in their order.
* *CoverageDriver*: none; its properties are safety.
* *Messaging*: weak fairness of every goroutine, and every closed window opens in
  the end, as it does with the periodic schedule of a profile. After the last pass of a TLE session no window opens any more, and
  `QueuedIsReleased` says nothing of such a session. No fairness for senders to post, for the adapter to
  succeed, or for `Close`.
* *Report*: weak fairness of the clock, driver, ticker and each caller.
* *SatelliteSession*: weak fairness of `Loops` as a whole: tickers do not stop. None for
  `Stop` and `Replay`.
* *RunSession*: weak fairness of the start, of the stop (the goroutine that waits, the timer of three seconds, the deferred calls), of
  SIGKILL taking effect, of the stream's handler, callbacks and waiting goroutines. None for the child or its descendants to exit, the user to press a
  key, a signal to come, or a client to ask or stay.

### What the violations show

* `DualPathRace`: a link state is recorded in coverage and waits for `satMu`; a close
  shapes full loss, its route command fails, and it releases `satMu` with the bearer
  still satellite; the link state passes the re-check and is applied over full loss.
  It takes two goroutines, as the module promises to allow; in `ntnbox run` there is one.
* `MessagingFeed`: a sender reads `queued`, the driver has the message delivered and
  announced, then the sender publishes `queued`. A consumer of the feed such as the report keeps
  the latest status and counts the message open.
* `ReportCounts`: the ticker samples the loss of coverage before the driver's event
  is handled; the event then finds no change of bucket and is not counted.
* `ReportClose`: `Close` sets `a.stopTick` to nil while `tickLoop` samples; the next
  `select` has a nil channel, never ends, and `Close` waits for it.

## 4. Proofs

| Theorem | Says, for every value of the constants |
|---|---|
| `DualPathProof!TypeCorrect`, `RouteAgrees`, `SatelliteFailsClosed`, `FeedImplemented` | `TypeOK`, `RouteMatchesBearer`, `FailClosed`; `DualPath` implements `HandoverFeed` |
| `DualPathProof!BearerFollows`, `ShapingComesFirst`, `NewestStateReaches` | `BearerTracksCoverage`, `ShapeBeforeRoute`; `LatestStateApplied`, with one link-state goroutine |
| `ShaperQueueProof!TypeCorrect`, `SinglePathFailsClosed`, `ServiceResumes`, `LatestStateReaches` | `TypeOK`, `FailClosed`, `ServedInCoverage`, `LatestStateApplied` |
| `CoverageDriverProof!TypeCorrect`, `EventsComeInOrder`, `NoticesAreTruthful`, `PredictionComesTrue`, `LinkStaysFresh` | all five properties of the run |
| `CoverageDriverProof!AtMostOneBlockage` | in a valid profile at most one blockage is active: the search in `activeBlockage` is deterministic |
| `MessagingProof!TypeCorrect`, `SubmittedAtMostOnce`, `NothingLeftInFlight`, `LifecycleImplemented` | `TypeOK`, `AtMostOnce`, `InFlightHeld`; `Messaging` implements `MessageLifecycle` |
| `MessagingProof!OutcomesAnnounced`, `NothingStranded` | `OutcomeAnnounced`; `NoneStranded`, if drivers see every change of coverage |
| `ReportAggregatorProof!TypeCorrect`, `NoTimeLost`, `SegmentsFaithful`, `ReportCoversRun`, `Frozen` | `TypeOK`, `TimeAccounted`, `SegmentFaithful`, `RunCovered`, `FrozenOnceFinalized` |
| `SequenceClockProof!PredictionIsTrue`, `EntriesAreTrue` | `PredictionTrue` of any sky; `EntriesTrue` of any sky and any link model that loads |
| `SatelliteSessionProof!SessionTyped`, `SequenceIsTrue`, `ClockIsDisciplined`, `ReplayIsFaithful` | `TypeOK`, `SequenceTrue`, `ClockDisciplined`, `ReplayFaithful` |
| `SatelliteSessionProof!PassesAreAnnounced` | the safety half of `PassesPlayed`, for the primary: no notice is skipped or out of turn |
| `RunSessionProof!TypesHold`, `HostIsRestored`, `DevicesAreServed` | `TypeOK`, `HostRestored`, `DevicesServed` |
| `RunSessionProof!StreamIsOrdered`, `NoHandoverLost` | `StreamInOrder`, the safety half of `StreamFaithful`; a handover published to a client that stays is with it or on its way |

The only assumptions are the named ones on constants in each module: sets of
goroutines are disjoint, special values are none of the ordinary ones, a capacity is
positive, the set of messages is finite, a profile's schedule is a function of time, profiles are
records of integers. Five of a satellite session stand for constants of the code: `MinPass` and two
fine steps fit in a coarse one (10, 1 and 30 seconds in `predict.go`), the lead of a notice is at most a coarse
step (both 30), a loop ticks again before a pass as short as `MinPass` is over, and within the
lead and the coarse step, and `Infinity` is
longer than any session. Skies, link models, speeds and starts are arbitrary.

* **DualPath.** `RouteMatchesBearer` is not inductive: it speaks of moments when
  `satMu` is free. `IInv` adds who holds `satMu` (`LockInv`: exactly the caller between
  lock and return), what that caller knows (`HolderInv`: it works for the current
  `inCoverage`, and the bearer is, or is not, already the wanted one) and where the route
  goes meanwhile (`RouteInv`: already to the next bearer between the command and the
  commit). `ClosedInv` carries `FailClosed` through the two steps in which the qdisc is
  shaped and the bearer not yet committed. The refinement needs `HolderInv`: a
  commit always changes the bearer. `TrackInv` says that between reconciles the bearer is the one for
  the last reconciled edge, unless the last route command failed; `ShapedInv` that the qdisc already fits the bearer whose route comes next.
  For `LatestStateApplied` the premise is one link-state goroutine: what it carries is then the latest state (`CarriedInv`), and a satellite bearer
  in coverage has the latest state, or that goroutine carries it, or the reconcile that sampled it does (`NewestInv`).
* **ShaperQueue.** The argument is about the commands that are pending anywhere: in a sender,
  in the channel, in `shaperLoop`. None is of a later generation than `gen`, those of the
  current one fit the coverage (`GenInv`), and as soon as there is something to
  shape, either one of the current generation is pending or it was the last to be executed
  (`ShapeInv`). The lemmas say how each step changes the set `Pending`. `NewestInv`
  follows the newest command from its sender to the qdisc.
* **CoverageDriver.** Two facts about lists need more than what `Validate` says of
  neighbours: any two blockages are disjoint, and every offset lies in a segment of a curve.
  Both follow from the least-number principle (`LeastNatural`, from the library's
  well-foundedness of the natural numbers): take the first counterexample. Interpolation
  stays in the natural numbers, so the loop never offers NaN in coverage. `NothingHappensBefore`
  says that an outage lasts, and a scheduled window stays, until the transition
  `Coverage` reports; `OutageEnds` that coverage is back then. `IInv` ties the loop's
  memory to what subscribers heard: a transition that is near has been announced
  (`ImminentIsFired`), so one that happens within the next `MaxGap` seconds was.
* **Messaging.** `IInv` says where each kind of goroutine can be (`PlaceInv`), that a
  message in flight has exactly one holder (`InFlightHeld`), and that its holder knows
  whether it has been handed over (`HoldInv`, `HandedInv`); at most one submission follows
  as a claim is only possible before any. `ToldInv` follows an outcome from `SetStatus` to its event: published, or
  about to be, by the goroutine that set it. `AttendedInv` says who has a queued message of a reachable recipient before it: the sender that
  queued it, a driver about to take its snapshot, or whoever has it in one. It survives since a window opens for the driver at a tick,
  which starts a flush (premise `~ShortGaps`); `TodoInv` lets no snapshot be dropped.
* **ReportAggregator.** The checked invariants are inductive together with `AnswerTold`: a pass sequence answers what the driver's
  latest tick found, so that a segment in another bucket than `answer` has an event on its way. `Accrual` does the
  arithmetic once: closing a segment at an instant makes the buckets add up to
  that instant, clamped to the segment.
* **SequenceClock.** The search is two recursive functions over data, one that halves an interval and one that looks for pass after pass.
  Each has a fixed point because the interval gets shorter, or the instant to go on from later (well-founded
  recursion of the library); what it yields is proved by taking a least counterexample, since the provers cannot instantiate an
  induction rule. `Yields` says of any instant and any count what the rest of the search finds: passes `FoundAfter` one
  another, more than a coarse step apart, and no isolated pass left out before the last. An isolated pass that lasts a coarse step is seen up at a point of the grid;
  bisection cuts it by less than `Fine` at each end, so it is still `LongEnough`, which is where the assumption on `MinPass` is used.
  For the link, the points of a profile are strictly increasing and its curve is interpolated at a sample exactly.
* **SatelliteSession.** `SessionInv` is what the clock relies on: the entries are those of the skies, hence in order and longer than a tick (`Orderly`), and no
  loop is later than `MaxGap`. `SnapStops` says where an accelerated clock
  stops: before the first pass it would reach, or where that pass rises, crossing no other. In a pass the
  clock moves by at most `MaxGap` < `MinPass`, so it crosses no other pass either (`AdvanceDisciplined`).
  `TypeInv` needs one fact more than the types: the position is not older than `PositionEvery` plus the time since the
  primary's last tick. `MemoryInv` relates what the primary's loop remembers to what each pass was told: passes to come
  were told nothing but, at most, that they are opening, those under way have opened, and the edge last written is
  the loop's. So each event of a tick is new to its pass, and the rows of a kind and the passes told of it grow together
  (`RowsInv`; both are finite sets, counted with the library's theorems). `ReplayInv` says that what was replayed is the file up to a row.
  `NoticeInv` adds when the notice is due: a rise within the lead, or the loop's flag set, has been announced; `Advance`
  reaches a rise only from within the lead, as an accelerated clock stops there first and a tick is shorter than the lead
  (`NoticeDue`).
* **RunSession.** Four invariants. `LifeInv` has the types and the order of a life: a running session is
  at the last step of its start, a child runs only in a running session and `serve` has no process at all (`ServeBare`), `Create` has commands left until its step is
  over. `HostInv` accounts for what is on the host: a rule more than before is this life's own command,
  a pair with its inner end on the host is half made by this life or was found, an orphan has a stray process, left by a life that crashed or by one that returned over descendants; `Destroy` takes back one rule of each link, which is the one. `DeviceInv` orders
  what the API host offers: whatever a client or the stream does needs a listening server, which comes after the
  evaluators and the hook (`Ready`); drivers of the command line come from the start alone, of other devices from the hook alone, once (`Loops`, `Apart`); `Told` says
  what each stage of a request may rely on; a coverage event on its way has its own evaluator
  (`Followed`), so what is queued and received is filled in from it (`Queued(OwnEvents)`). `StreamInv` orders
  the event stream: every event on its way was published before the one whose callback is under way (`Sent`), which makes a new one
  later than all of its source in the channel and with the client (`InChannel`, `Ahead`, `InReceived`); handovers come from goroutines in any
  order, and differ because a number leaves `waiting` once. `NoneLost` follows a handover from the callback to its goroutine, the channel
  and the client.

Only model-checked: the liveness properties (`CallsReturn`, `LossReachesKernel`,
`QueuedIsReleased`, `ClaimedIsSettled`, `HandoversArrive` in `StreamFaithful`, `SessionEnds`, and in `PassesPlayed` that
every pass is played in the end), which the prover does not reach; and the order of notices to a peer when gaps are not accelerated
(`InStep` in `PassesPlayed`), whose clock moves between an evaluation and its publication. Every other property of the
passing runs is a theorem.

## 5. Plan

The modules of the plan are built. What could follow:

1. The metrics of the dashboard and the ring buffer of the voice window, as pure operators against a reference
   definition.
2. Parsing of TLE sets and profiles, and the resolution of profile names, by what they accept.
3. `DualPath`, `ShaperQueue`, `Messaging` and `ReportAggregator` each carry their own abstraction of the
   driver. `CoverageDriver` is the detailed one; what the others assume of it
   (`ShortGaps`, `PromptDriver`, one event at a time) could be stated as properties of it.
4. The order of notices to a peer in unaccelerated gaps as a theorem: its invariant has to relate the instant the peer
   evaluated to the primary's clock, which is ahead of it by less than a tick.

## 6. What is not modelled

* *Two link-state goroutines in dual-path mode* can leave the older of two link states on the
  qdisc, since `lastState` is written under `mu` and applied under `satMu`. The
  driver of a device is one goroutine, and nothing in the code promises more.
* *Coverage that changes twice between two ticks* leaves a message that was queued in the
  gap to the next window: `NoneStranded` is checked without short gaps.
* *Replayed events* carry no device ID and flush every recipient; this branch of
  `messaging.OnCoverageEvent` has no counterpart in `Messaging`.
* *A route command that times out after it took effect.* The code reports failure and keeps the old bearer.
* *`Finalize` called twice* returns different ends and percentages, against its comment
  (`aggregator.go:189`); `report` in the model has the end, and no property compares them.
* *Boundaries of segments in the report of a TLE run.* `SequenceEvaluator` ignores the instant it is asked about, while
  `noteTransition` stores the bucket under that instant: a segment is stored as starting when the event or the ticker's tick was
  made, which may be later or earlier than the change of the driver's clock it reflects. `SegmentFaithful` speaks of the start of a segment for profiles only,
  and for a sequence of the bucket alone.
* *Message, call and handover tallies and voice estimates* of the report, which count
  or average under one lock.
* *Observed, and left outside the runs.* Pressing `d` with several devices makes `Update` send to the program that runs
  `Update`, and the dashboard waits for itself (`tui.go:87`; modelled as `frozen`, which only an outside signal ends). After a
  signal, or a line longer than 64 kB, `readLines` is gone; a child that writes more than the pipe holds keeps `cmd.Wait` waiting
  (`stuck`, which `SessionEnds` excepts). So does a descendant of the command that holds that pipe, such as what a shell script has started:
  SIGTERM and SIGKILL go to the direct child alone (`tui.go:134-139`), and the dashboard never returns while it lives
  (excepted in `SessionEnds`). A descendant that is still in the namespace when the session returns keeps the namespace and its pairs
  alive after `ip netns del`, until it ends (excepted in `HostRestored`). `Create` cut off between `link add` and `link set` leaves a pair that
  `Destroy`'s comment (`namespace.go:181`) expects to go with the namespace (excepted in `HostRestored`). After a crash a stale NAT rule survives, and a stray process's pair makes the
  next `link add` fail. The recorder loses rows with an infinite `until`; a peer's row may contradict its kind, since the clock
  moves between event and record, and a peer's short pass may be jumped over in the primary's gap. Two handovers may reach a stream in either order. A replay's device has no evaluator, and a condition asked of it is answered 500. A
  TLE `run` stores the session's evaluator under `sandbox-0` whether such a device is registered or not.
* *Commands of `Destroy`* are taken to succeed on what exists: their errors are ignored by the code too. A
  process is taken to live once, or twice with one crash; the dashboard takes no keys once signalled.
* *Focus switches* of the dashboard's adapter, and link-state rows of a
  recording.
* *Other IMS adapters.* The contract lets them repeat receipts; only the mock exists.
* *SGP4 propagation, voice formulas*: a library, and floating-point arithmetic. Link models are modelled with integers and division rounds down, where the code has floats. `Validate` of a link model does not bound its values: one with a negative delay or a loss above 100 loads, and then no session starts with it, as its profiles are refused (`Sound`). Profiles are modelled
  with integer seconds and values, so rounding at the very boundary of a window is left out.
* *Flags, JSON, logs, drawing, web UI, Android client, samples*: input and output.
