# DAEMON CHOIR in TLA+

DAEMON CHOIR turns kernel telemetry into sound. eBPF programs (or simulated
probes) make events; the `conductor` daemon collects them in windows, derives
metrics, maps the metrics to audio parameters and sends these as OSC bundles to
synthesizers over UDP. Beside that it stores events and snapshots in SQLite and
serves a control API over HTTP.

This directory holds TLA+ modules translated from `src/`, the TLC runs that
check them on small instances, and proofs checked by TLAPS. `PROJECT.json`
lists the components, runs, mutants (one plausible bug per checked property,
which that property catches), hazards, theorems, and for each definition the
source lines it stands for.

    tlc -workers 2 -config MCAudioPath_path.cfg MCAudioPath
    tlapm AudioPathProofs.tla

## 1. The system

All paths below are in `src/crates/conductor/src/` unless they say otherwise.

| Component | State | Operations | Talks to |
|---|---|---|---|
| Probe tasks (`probe_manager.rs`) | `ProbeStats` atomics per probe, the shared cumulative loss counter, a shutdown flag | poll or simulate, `try_send`, count; `start`, `shutdown`, `get_probes_info` | raw event channel (2048) to the consumer; the loss counter to the aggregator |
| Consumer (`ringbuf.rs`) | the event in its hand | receive, spawn an insert task, `try_send` | aggregator channel (2048); the database |
| Aggregator (`aggregator.rs`) | the window, moving averages, the counter of empty windows | `select!` between an event and the tick; at the tick: staleness, swap of the loss counter, publish, two `try_send`s | shared snapshot, tick timestamp, snapshot channel (256), database channel (512) |
| Mapping engine (`mapping.rs`) | none between snapshots | receive, copy the rules, transform, `try_send` | rules lock; parameter channel (256) |
| OSC dispatcher (`osc.rs`) | socket, histogram, counters | receive, copy the backends, bundle, fan out, observe | backends lock; tick timestamp; UDP |
| Control API (`control_api.rs`) | `current_config`, rules, backends (three locks), its own histogram | pages, reload, PUT of the backends, shutdown, wipe | all of the above |
| Database (`db.rs`) | one connection behind a mutex, or none | insert event, insert snapshot, purge, wipe | the SQLite file |
| `main.rs` | channels, tasks, the shutdown channel (1) | start in order, wait, stop | everything |
| `cpu_sched.bpf.c` | hash map of wakeups, ring buffer | three tracepoint handlers | the eBPF polling task |
| Worker threads (tokio) | which task each one polls | poll, wake; a poll that blocks keeps its worker | every task above |
| Other eBPF programs | a ring buffer | reserve, fill, submit | their polling tasks |
| TUI (`daemon-choir-tui`) | none | HTTP requests | control API |

What is hard here: every channel is bounded and refuses instead of waiting, so
anything may be lost between any two tasks; the tasks share atomics and locks
that are read at one time and used at another; no two locks are ever held
together; a task that ends closes its channels and takes its neighbours with
it, and nothing restarts it; the store is switched off by the first failing
statement and says nothing about it; SQLite's statements and the eBPF drain
loops run on the same worker threads as the audio and await nothing; the
process may be killed at any point.

### What makes each component correct

- *Probes, consumer, aggregator.* No event is counted twice or out of order.
  Every refused event is reported exactly once. `stale` is true exactly after
  five empty windows. A shut-down probe stops.
- *Aggregator, mapping engine, dispatcher.* Backends hear snapshots in order.
  What is stale on the way (rules, list of backends, latency stamp) is bounded.
- *Configuration.* What the API shows is what is in use.
- *Store.* Snapshots are in order, old rows go, a wipe wipes, what was handed
  over is stored.
- *Metrics.* Counters are exact when nothing runs, and off by a known bound
  while something does.
- *Window.* The percentile is the sample it is meant to be, no event counts
  twice, and what is sent and drawn lies in its range.
- *Process.* eBPF programs are in the kernel as long as their events are read;
  requests to stop are honoured, and nothing else stops it with success; the
  pipeline stands as long as its mapping task does, and ends as a whole.
- *Worker threads.* A slow store or a busy poller delays the audio but does not
  stop it, nor an exit.
- *cpu_sched.* Latencies are not invented and map entries do not leak.

## 2. Modules

| Module | Models | Proofs | TLC module |
|---|---|---|---|
| `TelemetryPath` | probe tasks, raw channel, consumer, aggregator channel, aggregator | `TelemetryPathProofs` | `MCTelemetryPath` |
| `AudioPath` | tick, snapshot channel, mapping engine, parameter channel, dispatcher, clock, rules and backends | `AudioPathProofs` | `MCAudioPath` |
| `SnapshotFeed` | the abstract promise of a path: in order, none twice | in the proofs of its users | through `AudioPath`, `TelemetryPath` |
| `Cascade` | the abstract rule by which tasks end one another | in the proofs of its users | through `TelemetryPath`, `AudioPath`, `Conductor` |
| `WindowMetrics` | the arithmetic from a window to a snapshot, a parameter and a bar | `WindowMetricsProofs` | `MCWindowMetrics` |
| `ConfigStore` | reload and PUT lock by lock | `ConfigStoreProofs` | `MCConfigStore` |
| `ConfigRegister` | the abstract promise of the configuration: one value | in `ConfigStoreProofs` | through `ConfigStore` |
| `Persistence` | inserts, snapshot writer, purge, wipe, exit, crash, restart | `PersistenceProofs` | `MCPersistence` |
| `MetricsScrape` | histogram and totals, atomic by atomic, against a scrape | `MetricsScrapeProofs` | `MCMetricsScrape` |
| `Lifecycle` | startup, shutdown requests, signals, the end | in `ConductorProofs` | through `Conductor` |
| `Conductor` | `Lifecycle` composed with the tasks and `Cascade` | `ConductorProofs` | `MCConductor` |
| `WorkerPool` | the tasks on tokio's worker threads, the store's blocking mutex | in `PersistenceProofs` | `MCWorkerPool` |
| `SchedProbe` | the eBPF program `cpu_sched` against a scheduler | `SchedProbeProofs` | `MCSchedProbe` |

The modules meet at variables that stand for the same thing. `audio` of
`TelemetryPath` is `mapper = "done"` of `AudioPath`; `aggregator` of `AudioPath`
is the tick half of `Tick` and `Publish` in `TelemetryPath`; `spawned` of
`TelemetryPath` counts the tasks that are `inserting` in `Persistence`; `rules`
and `backends` of `AudioPath` are `mappingRules` and `oscBackends` of
`ConfigStore`; `flag` of `Lifecycle` is `shutdown` of `TelemetryPath`; `window`
of `WindowMetrics` is the bag of `window` of `TelemetryPath`; `mutex` of
`Persistence` and `lock` of `WorkerPool` are the same mutex. `Cascade` ties the
three modules in which tasks end: `TelemetryPath` and `AudioPath` implement it
with their own reasons for ending, and `Conductor` builds on it.

### TelemetryPath

An event is a probe and a sequence number. A probe is a loop with a program
counter: at the loop head it reads the flag (`LoopHead`), then has an event or
none (`Cycle`), then `try_send` accepts (`Emit`), refuses (`Refuse`) or finds
the channel closed (`FindClosed`), and then the counters go up, each atomic in
a step of its own (`CountSent`, `CountLost`, `CountCumulative`), so that the
aggregator's `swap(0)` may fall between two of them. The kinds of probe differ
as the code does: a simulated probe ends at a closed channel, an eBPF poller
counts the event as lost and goes on. The consumer is `Receive`, then `Forward`,
`Drop` or `ConsumerStops`. The tick is two steps, `Tick` (staleness and the
swap) and `Publish` (the shared snapshot, the audio channel, the clearing of
the window). While the aggregator is between them `select!` receives nothing,
as in the code.

`recent` remembers which of the last windows were empty, no more of them than
it takes to overflow the counter; `StaleExact` compares the flag with that
memory instead of with the counter the code keeps.

Left out: payloads and `last_event_us`; sums, percentiles and moving averages
are in `WindowMetrics`.

### AudioPath and SnapshotFeed

A snapshot is a number and a time. Rules are a name of which only two facts
matter: whether they map anything (`Mute`) and whether mapping with them panics
(`Poison`). The rules are copied when a snapshot is mapped, the backends when
the parameters are picked up, and the stamp that latencies are measured against
is the newest tick's, not the snapshot's: these are three separate reads in the
code and three separate steps here. `SendBundle` is one `send_to` of the
fan-out; it may fail, and its failure does not end the fan-out. `MapPanics`
ends the mapping engine; its channels close, the aggregator ends at its next
send and the dispatcher when its queue is empty.

`SnapshotFeed` says what all that is for: numbered snapshots are played in
order, any may be lost, none is held back. `AudioPath` maps to it with
`published <- ticks`, `pending <- InFlight` (the numbers in every queue and
hand) and `played <- played`. `TelemetryPath` maps to its safety part too, once
for each probe (`EventsAreFed`): `published` is what the probe has made,
`pending` what is in a channel, in the consumer's hand or just refused, and
`played` the last event taken into a window.

### Cascade

A pair `<<s, t>>` of `Feeds` says that task `s` sends into the channel that `t`
reads. A task ends because it may of itself (`willing`), because it finds a
channel it sends into closed (`Leavers`), or because its own channel is closed
and empty (`Drainers`). That is all the supervision the code has: nobody joins
or restarts a task. `EndsInCascade` of the two path modules is this
specification under a mapping of their program counters to `ended`, so that a
full channel taken for a closed one, or an empty one, shows up as a task that
ends without a reason. In `Conductor` the same property says it of all the
tasks together, with drain loops, startup and shutdown between their ends; there
`willing` (`Reasons`) are the mapping task, the pollers and, once the flag is
set, every probe.

### WindowMetrics

A window is a bag of payloads. `P95` is the element at the clamped index of the
sorted latencies, found by counting instead of sorting. The moving average is
`0.3 x + 0.7 ema`, kept with two decimals and rounded down; `Normalize`,
`Mapped` and `Filled` (the dashboard's bar) follow the code's order of clamping,
subtracting and scaling. `Shaped` has a case for each transform, the power law
and its quadratic fallback included. TLC has no `powf` and no `ln`: the power law
`min * (max/min)^t` is `min + (max - min) * (q^t - 1)/(q - 1)` with
`q = max/min`, and that curve (`PowerCurve`, one for each rule) and the
logarithmic one (`LogCurve`) are constants, of which `RulesAssumption` says only
that they rise from 0 to 1. The run gives them their values to the hundredth.
Bounds of rules are whole numbers of a unit that is a parameter, so that the
theorems speak of all finite bounds. Rounding of `f64` is not modelled, nor are
infinite bounds and a NaN among the output bounds, which the code accepts too;
a NaN among the input bounds is `Poison` in `AudioPath`.

### ConfigStore

`POST /v1/config/reload` reads the file before it takes any lock and then
writes `current_config`, the rules and the backends, one lock after the other;
`PUT /v1/config/backends` writes the backends and then `current_config`. Each
write is a step. `rulesCrossed` and `backendsCrossed` tell whether the last
request to start found another under way.

`ConfigRegister` is what a client may believe: one configuration in force,
replaced as a whole by a reload and in its list of backends by a PUT. Both what
the API shows (`Shown`) and what the tasks use (`Used`) are such a register, as
long as requests do not cross (`RequestsAreAtomic`): each of them takes effect
in its first step, the reading of the file or the first write of the list, and
what it does afterwards only carries that out.

### Persistence

A statement of SQLite succeeds and is durable, or fails, changes nothing and
sets the connection to none for good. Insert tasks take the mutex in any order;
a purge and a wipe are two statements under one hold of the mutex. `Exit` is
`main` returning; `Crash` may come between the two statements of a purge or a
wipe; `Start` opens the file again or runs without. The clock does not pass a
due purge: the bounds on the age of rows assume a timer that is on time. The
snapshots table is a set of rows whose AUTOINCREMENT `key` gives the order;
`lastKey` survives purges, wipes and restarts, as SQLite's sequence table does.

### MetricsScrape

All counters are separate `AtomicU64`s used with `Relaxed`. An observation, a
send and a scrape are sets of steps on them that may take effect in any order,
which covers the program's order and every reordering that relaxed atomics allow
across locations. Writers are observers (requests of the
control API: many) and the dispatcher (one).

### Lifecycle

The phases of `main` in order, with a panic or exit wherever the code has one;
probes that load or fall back to simulation; requests with and without the
header; a channel of one place whose reader takes one message; signals, and
SIGHUP, which has no handler. The API answers from `BindApi` on, but the handlers
of SIGINT and SIGTERM exist only after the first poll of `select!`
(`InstallHandlers`), and not at all if that poll takes a request first: until
then, and in that case until the end, the signals' default action holds.

It has no TLC module of its own: `Conductor` extends it and checks everything
it states.

### Conductor

A probe's task has the probe's name, the others have their component's. Every
step of `Lifecycle` is a step here (`LifeGoesOn`). While `main` loads a probe it
attaches the probe's programs one by one (`Attach`; `cpu_sched` has three, the
others one), and any of these steps may be the last before the fallback.
`Detach` drops the programs of a load that failed, of a poller that ended and of
a process that is gone: `aya` detaches them with the `Bpf` object, which the
closure and later the task own. Beside these, `End(t)` lets a
started task end for a reason of `Cascade`: the mapping task by its panic, a
poller that cannot wrap or has lost its ring buffer, every probe at its loop
head after the flag. A simulated probe notices a closed channel only when it
has something to send (a probe with an unknown name never does), a poller never
asks. A poller between `StartDrain` and `EndDrain` awaits nothing, and a `main`
that returns waits for it, since the runtime does when it is dropped.

### WorkerPool

A task is idle, ready, polled, or inside the statements of the store; only the
number of busy workers is kept, not which one. `Arrive` needs a free worker
because timers, sockets and signals are noticed between two polls. A poll of
the store's tasks takes the mutex and runs its statements without an await. A
poller's poll may go on for ever. `main` has its own thread; when it returns,
nothing new is polled and the process ends with the last poll. tokio's
cooperative budget is one message, and its LIFO slot (a worker polls the task
it woke last first, a few times in a row) is left out, as are its blocking
threads, which the code does not use.

### SchedProbe

Each handler is one step, since a tracepoint runs within the kernel's step. The
scheduler is external: tasks sleep, wake, run on any CPU, are preempted, pass
their exit tracepoint and are switched away a last time. The wakeup tracepoint
fires for a sleeping task, but also for one that has announced its sleep and
still runs (`p == current`, or on another CPU), or was preempted before it slept;
the handler does not tell these apart, and stores the time in each case. Map and
ring buffer are bounded. A handler that finds the ring buffer full returns early.

`queuedAt` and `wokenAt` remember since when a task has waited for a CPU and when
it was last woken; `stray` the tasks whose entry, if they have one, was made by a
wakeup while they ran or left behind by a full ring buffer. `report` is the last
event, with what these said of its task.

## 3. Runs

| Run | Question | Result | Distinct states |
|---|---|---|---|
| `telemetry_safety` | Are losses, events and windows exact under every interleaving with full and closed channels, and do tasks end for no other reason? | holds | 3.4 million |
| `telemetry_liveness` | Is staleness exact up to the counter's overflow? Are losses reported, do events reach a window, do probes stop? | holds | 183 000 |
| `audio_path` | Is what backends hear in order, is what is stale bounded, and does the path implement the feed with its liveness? | holds | 715 000 |
| `audio_panic` | Does audio survive every reload? | violated | |
| `window` | Do percentile, averages, parameters and bars keep to what they are meant to be? | holds | 76 000 |
| `config_overlap` | Does the API show what is in use? | holds, unless requests crossed | 434 000 |
| `store` | Order, retention and wipe through failures, exits and crashes; is what was handed over stored? | holds, unless the store or process stopped | 413 000 |
| `store_wipe` | Does a wipe that answers 200 leave nothing? | violated | |
| `metrics_pages` | How wrong can a page be? | by the writers at work, no more | 2.8 million |
| `conductor_process` | Are programs attached as long as they are read, does the pipeline stand or fall as a whole, is every shutdown honoured? | holds | 117 000 |
| `workers` | Can the store's mutex or a busy poller stop the audio or the exit? | no, with fewer pollers than workers | 19 000 |
| `sched_exact` | Are latencies within the wait and entries short-lived? | holds, unless a running task was woken or the ring buffer was full | 1.9 million |

Nearly every cfg turns the deadlock check off, because its bounds stop the
system (events, ticks, wipes) or the program ends; `config_overlap` keeps it on.

Most type invariants, `EndsInCascade` of `AudioPath` and of `Conductor`,
`PlayedNeverGoesBack`, `StandsWithMapper`, `FailuresNotShown`, `StoredOnce`,
`GoneForGood` and `RulesKeepOrder` are in no run: section 4 has them proved for every value of the
constants.

### Properties worth a comment

- `LossLedger`: the refused events are those a probe is about to count, those
  in the shared counter, those in the snapshot being built and those published.
  A load where the code swaps, or a missing increment, breaks it only when a
  tick falls between two increments.
- `ProbeLedger`: a probe's `events_total + events_lost` is what it made but for
  the one it is about to count.
- `InOrder`: across channels, hand and window a probe's events stand in order,
  and none of them was already in a published window.
- `EventsAreFed`: what is taken into a window is the oldest event of its probe on
  the way, and nothing that was refused, dropped or lost with a task comes back.
  A consumer that put an event back into its channel would break it.
- `StaleExact`: the flag against a memory of the last windows. The run overflows
  the counter: exactly the silences of more windows than an `i32` counts are
  excepted, and the first event ends the exception.
- `EventsReachAWindow` excepts events dropped in front of the aggregator and a
  path whose aggregator has ended; it needs that the consumer does not mistake
  a full channel for a closed one. `EndsInCascade` says the same of every task
  as a safety property.
- `OldRulesBound`: after a reload at most `ParamCap + 1` bundles are played with
  older rules. `StrayBound`: a backend taken off the list gets at most the bundle
  whose fan-out had begun. Nothing keeps a list from having a backend twice; it
  then gets that bundle as often (`Occurs`).
- `LatencyNotOverstated`: the latency shown may be too small (a later tick has
  moved the stamp) but never too large.
- `P95Covers`: at least 95 % of a window's latencies are at most the percentile
  and at least 5 % of them are no less; an index rounded up breaks it at one
  number of samples and not at the next.
- `StaleRemnant`: five windows of silence leave 0.7^5, that is 17 %, of an
  average. `SilenceFades`: a window that got nothing raises no metric, which it
  would if a tick left events in the window.
- `AttachedWhileRead`: attaching three programs is three steps that may fail, and
  the fallback, the end of a poller and the end of the process are three ways to
  give them up. None may leave a program that nobody reads, and none may take one
  from a poller that runs. If the `ProbeManager` kept the `Bpf` objects, as it
  keeps the statistics, a poller's end would break it.
- `StopsOnlyWhenAsked`: also, once `main` waits for SIGINT and SIGTERM they no
  longer kill it, so that the probes are always told to stop.
- `BarsFit`, `MappedInRange`: the dashboard's unsigned subtraction and the
  instruments rely on ranges that the aggregator and the rules have to keep.
- `RulesAgree`, `BackendsAgree`: shown and used configuration agree at rest
  unless the last request crossed another. PUT may run in the middle of a
  reload without disturbing the rules. `RequestsAreAtomic` says it of every step
  and not only at rest: a request that crosses none takes effect at once, and an
  edit of the file in the middle of a reload has none.
- `RetentionBound`: a row is gone a period after it expired, or after its late
  insertion, across restarts, as long as the store works.
- `WipeResidue`: what survives a wipe that deleted was still waiting in an
  insert task or in the channel when it answered.
- `SkewBound`: a page's buckets are cumulative, and its successes within its
  total, up to the number of writers that were at work during the scrape.
- `EndsUpstream`: a task of the pipeline ends only after the one it sends to, the
  dispatcher only after the mapping task. Hence `StandsWithMapper`, which is
  proved from it: before shutdown nothing of the pipeline ends while the mapping
  task runs, whatever happens to the pollers. `FallsWithMapper`: after
  its end nothing goes on sending into closed channels but the pollers, as long
  as some simulated probe makes the consumer notice.
- `ShutdownEndsProcess`: a handler that waits for the one place of the channel
  does not keep the process alive; a drain loop that never ends does.
- `HolderRuns`: whoever holds the store's mutex is on a worker, so that the tasks
  that block on it never wait for one that waits for a worker, and the process
  does not end between the two statements of a purge or a wipe unless it is
  killed; a guard kept across an await would break it. `TickReachesDispatcher` and
  `SignalEndsProcess` are what follows for the audio and the exit.
- `LatencyWithinWait`: a latency is the time since the task's last wakeup, or 0.
  It is at most the time for which the task waited for a CPU, and less where it
  was woken while it waited, except in the two cases that `stray` remembers.
  `EntriesWaitUnlessStray`: but for these cases an entry belongs to a task that
  waits after a wakeup, so that no task, alive or dead, leaves one behind.

### Bounds

`MaxEvents`, `MaxTicks`, `MaxMade`, `MaxTime`, `MaxReloads`, `MaxWipes`,
`MaxObserved`, `MaxSends`, `MaxScrapes` and `MaxArrivals` bound what the
environment may do and appear only in guards of environment steps (and of
ticks; `MaxEmpty` bounds the ticks of a long silence).

- Capacities are 1 or 2, smaller than the number of items, so that channels are
  full, refuse, drain and are full again.
- `telemetry_liveness` has `StaleAfter` 2, `CounterMax` 2 and `MaxEmpty` 3: the
  counter wraps to -3, climbs through "not stale" and a further event makes it
  exact. Its simulated probe is sparse (cycles without an event).
  `telemetry_safety` trades that for two events of each probe.
- `audio_path`: three ticks meet queues of two and one; two backends in two
  lists, of which one has a backend twice, so that one can be taken off while the
  fan-out stands before it; one reload to rules that are plain, mute or panic; a
  clock of two that may be set back.
- `store`: `Retention` 1 and `Period` 1 with `MaxTime` 2 give rows time to
  expire, and purges before and after a restart. `store_wipe` needs a little more
  time.
- `conductor_process`: a probe of two programs, one of one program and a name no
  probe has; two programs are enough for a load that fails between them. Two
  requests meet a channel of one place.
- `workers`: two workers, of which a poller may keep one; the writer and three
  other callers can take both.
- `window`: payloads on both sides of every limit, 20 samples beside 1, and six
  empty windows: one more than makes a snapshot stale; a rule of every transform.
- `sched_exact`: `MapMax` is 1 with two tasks, so the map is full; the ring buffer
  holds two events, and a clock of 3 tells a wait from the time since a wakeup in
  the middle of it and before it.

Symmetry is used only in `config_overlap` (clients), a safety run.

### Fairness

Weak fairness of every task means that tokio runs a task that stays ready.
`WorkerPool` looks into that assumption: it takes only that workers which
become free again and again poll each ready task (strong fairness of `Poll`,
since a free worker comes and goes), that SQLite's statements end, and that a
free mutex is taken by one of those that wait, whichever, because std's `Mutex`
promises no order. A poller's drain loop may go on for ever; `DrainsEnd` is a
hypothesis only where the property is about the end of the process, and
`TickReachesDispatcher` needs fewer pollers than workers instead. With as many
pollers as workers, all draining for ever, nothing else runs, and the fairness
of the other modules is not to be had; the code does not exclude that on a
machine with few cores.

The aggregator's receive gets strong fairness because its `select!` picks a
ready branch at random and a tick may overtake an event any finite number of
times. In `Conductor` only `main`, the handlers, the simulated probes, the
aggregator, the dispatcher and the writer are fair, and the consumer while a
simulated probe feeds it. Nothing is assumed of the kernel, of users, of the
clock, of reloads, of requests, of signals or of the next tick in `AudioPath`.
In `Persistence` weak fairness of each insert is enough despite the mutex,
since nothing takes it for ever.

## 4. Proofs

Proved with TLAPS for every value of the constants that satisfies the
assumptions of the modules: `ConstantsAssumption` (capacities are positive, the
kinds of probes disjoint and finitely many, the counter reaches the limit of
staleness), `AudioAssumption`, `ConfigAssumption`, `PersistenceAssumption`,
`LifecycleAssumption`, `TasksAssumption` (no probe is called like a task of the
pipeline), `HooksAssumption` (a probe has at least one program),
`MetricsAssumption` (payloads of the four kinds arrive in finitely many bursts),
`RulesAssumption` (a rule has four finite bounds, in any order, and any transform;
the curves of the power law and of the logarithm rise from 0 to 1),
`PoolAssumption` (the task sets are finite and disjoint), `SchedAssumption`,
`ScrapeAssumption` (the observers are finitely many). The
bounds are constants too, so the theorems hold for all of them.

| Theorem | Says | Inductive invariant |
|---|---|---|
| `TelemetryPathProofs!TypeCorrect` | `[]TypeOK`, capacities included | `TypeOK` |
| `LossesAccounted`, `ProbesAccounted` | `[]LossLedger`, `[]ProbeLedger` | `LedgerInv` |
| `EventsInOrder` | `[]InOrder` | `OrderInv` |
| `ShutdownBounded` | `[]ShutdownBound` | `ShutInv` |
| `ProbesAreFed` | `Spec => EventsAreFed` | `OrderInv`, `RefusedInv` |
| `StalenessExact` | `[]StaleExact` | `StaleInv` |
| `TasksEndInCascade` | `Spec => EndsInCascade` | `TypeOK` |
| `AudioPathProofs!TypeCorrect` | `[]TypeOK` | `TypeOK` |
| `PathImplementsFeed` | `Spec => PlayedFeed!FeedSafety` | `PathInv` |
| `PlayedInOrder` | `[]PlayedNeverGoesBack` | `PathInv` |
| `LatencyBounded` | `[]LatencyNotOverstated` | `LatencyInv` |
| `PathEndsInCascade` | `Spec => EndsInCascade` | `TypeOK` |
| `StraysBounded` | `[]StrayBound` | `StrayInv` |
| `OldRulesBounded` | `[]OldRulesBound` | `RulesAgeInv` |
| `HeardInOrder` | `Spec => BackendsInOrder` | `HeardInv` |
| `ConfigStoreProofs!TypeCorrect` | `[]TypeOK` | `TypeOK` |
| `RulesStayTogether` | `[]RulesAgree` | `RulesInv` |
| `BackendsStayTogether` | `[]BackendsAgree` | `BackendsInv` |
| `RequestsImplementRegister` | `Spec => RequestsAreAtomic` | `AtomicInv` |
| `PersistenceProofs!TypeCorrect` | `[]TypeOK` | `TypeOK` |
| `StoredInOrder` | `[]SnapshotsInOrder` | `OrderInv` |
| `RowsExpire` | `[]RetentionBound` | `AgeInv` |
| `WipesCompletely` | `[]WipeResidue` | `WipeInv` |
| `EachStoredOnce`, `NothingComesBack` | `[]StoredOnce`, `Spec => GoneForGood` | `StoreInv` |
| `PersistenceProofs!PoolTypeCorrect` | `[]PoolTypeOK` of `WorkerPool` | `PoolInv` |
| `HolderOnWorker` | `[]HolderRuns` of `WorkerPool` | `PoolInv` |
| `ConductorProofs!TypeCorrect` | `[]ConductorTypeOK` | `TaskInv` |
| `FailuresStayHidden`, `NothingStopsUnasked` | `[]FailuresNotShown`, `[]StopsOnlyWhenAsked` | `LifeInv` |
| `ProgramsFollowPollers` | `[]AttachedWhileRead` | `TaskInv` |
| `EndsGoUpstream` | `[]EndsUpstream` | `TaskInv` |
| `PipelineStands` | `[]StandsWithMapper` | follows from `EndsUpstream` |
| `ProcessEndsInCascade` | `ConductorSpec => EndsInCascade` | `TaskInv` |
| `MetricsScrapeProofs!TypeCorrect` | `[]TypeOK` | `TypeOK` |
| `CountersSettle` | `[]SettledExact` | `CountInv` |
| `PageSkewBounded` | `[]SkewBound` | `CountInv`, `PageInv` |
| `SchedProbeProofs!TypeCorrect` | `[]TypeOK` | `TypeOK` |
| `LatencyBounded`, `EntriesWait` | `[]LatencyWithinWait`, `[]EntriesWaitUnlessStray` | `SchedInv` |
| `WindowMetricsProofs!TypeCorrect` | `[]TypeOK`, every metric within 0 and 1 | `MetricsInv` |
| `PercentileCorrect` | `[]P95Covers` | `MetricsInv` |
| `BarsNeverOverflow`, `ParametersInRange` | `[]BarsFit`, `[]MappedInRange` | `MetricsInv` |
| `StaleHoldsLittle`, `SilenceNeverRaises` | `[]StaleRemnant`, `Spec => SilenceFades` | `MetricsInv` |
| `RulesAreMonotone` | `RulesKeepOrder`: a higher metric never lowers a rising rule's parameter | none: a fact about `Mapped` |

Why the invariants are stronger than the properties:

- `LedgerInv` adds that the set of refused events is finite, that the snapshot
  in hand carries no loss outside a publication, and `ProbeLedger`, which shows
  that a newly refused event is not in the set yet: without that a second
  refusal of "the same" event would not raise the cardinality.
- `OrderInv` of `TelemetryPathProofs` cuts the pipeline at the aggregator. What
  is in the window lies between the last event published (`counted`) and the
  last taken (`taken`); what waits lies between `taken` and the last made. Each
  step appends to, shortens or joins one of the two flows, which five lemmas on
  sequences cover. For `EventsAreFed`, `RefusedInv` adds that an event just
  refused does not also wait in a channel; then a step makes an event, takes the
  least on the way, or leaves some out.
- `ShutInv` says where the program counter of a probe stands that has already
  made its one event after shutdown: past the point where it makes another.
- `StaleInv` says that, unless the silence is long enough to overflow it, the
  counter is the length of the silence, also between the two halves of a tick,
  where the counter is one ahead of the memory.
- `PathInv` orders the places of the audio path: everything in the parameter
  queue is older than what the mapping engine holds, that is older than the
  snapshot queue, that older than the snapshot being built, and all lie between
  `played` and `ticks`. A step of the path then moves numbers between places
  (a stutter of the feed), removes some (`LoseSnapshots`), or plays the least.
- `LatencyInv` says that everything on the path was stamped no later than the
  newest tick.
- `StrayInv` adds that a backend in the list has had no stray bundle, and that
  those it has had and those still to come in the fan-out are together no more
  than one list has it.
- `RulesAgeInv` is existential: some k frames at the head of the queue and in
  the mapping engine's hand may be stale, the rest are not, and k with those
  already played stays within the bound. A reload sets k to all of them.
- `HeardInv`: no backend has heard more than what was picked up last, and that
  is what the fan-out sends.
- `RulesInv` and `BackendsInv`, unless requests crossed, say that at most one
  request is under way and what it has already left in the stores. `AtomicInv`
  adds the first half of the writes (`Halfway`): what a reload has written
  already is what it read, so that its last write changes nothing that `Shown`
  and `Used` have not told since its first step.
- `OrderInv` of `PersistenceProofs` adds that the queue is in order, that all
  numbers lie up to `made` and all keys up to `lastKey`. `AgeInv` says, while
  the next purge lies ahead, that every row will at that purge have been in the
  table for less than a period or be no older than `Retention`; in the middle of
  a purge it says what the first statement has already done. `WipeInv` speaks of
  what is pending as well as of the rows: a number up to `cleared` that is
  anywhere is in the residue. `OnceInv` says of the insert tasks and the channel
  what `StoredOnce` says of the tables: whatever waits does so once.
- `LifeInv` adds what each phase of startup has already done (`StartInv`), and
  that a request on its way or in the channel means that somebody asked
  (`AskedInv`). `TaskInv` puts `EndsUpstream` and `AttachedWhileRead` beside it,
  which needs that only started tasks have ended and that nothing is half loaded
  once `main` has left the probes. By `Cascade` each task ends only after the one
  it sends to, or, the dispatcher, after the one it reads from. It says of the
  order after the mapping task's end what `StandsWithMapper` leaves open.
- `CountInv`: each counter, with one for each writer that still owes it a bump,
  comes to what is due of it. `PageInv`: during a scrape nothing is shown beyond
  what is due, and what has been loaded, or still will be, lacks no more than the
  writers at work since the scrape began; what is due is cumulative at any time,
  so that the page is, up to these writers, in whatever order it was loaded.
- `PoolInv` adds that only the store's tasks are inside, and that no worker is
  busy once the process has ended.
- `SchedInv`: a task runs on one CPU at most; no timestamp lies in the future;
  an entry holds the time of its task's last wakeup and, unless it is a stray
  one, the task has been waiting since then or longer.
- `MetricsInv` says that a snapshot shows the averages of the last tick, and that
  nothing has come since unless `fresh` says so. Its `RemnantInv` follows the
  averages through a silence: after each empty window a further factor of 0.7
  holds, and rounding down never undoes it. (TLC checks `RemnantInv` on small
  averages only, because its numbers have 32 bits.)

The sums of `WindowMetrics` are folds over sets of payloads. What a fold computes
for every set needs induction, and the library's theorem of induction over finite
sets takes an operator as a parameter. `SetInduction` has instead the set of the
subsets for which a claim holds, which is a set like any other, and is proved
from the least cardinality of a counterexample; the fold is unfolded through the
`CHOOSE` that defines it. That gives what the properties need of a sum: it is a
natural number, any element may be taken out of it, it splits at a condition, and
a sum of zeros is zero. `P95Covers` is then a count of the samples on either side
of the chosen one.

Model-checked only are the liveness properties (and the liveness half of the
feed): `LossesReported`, `EventsReachAWindow`, `SimulatedProbesStop`,
`Implements`, `PendingIsStored`, `FallsWithMapper`, `ShutdownEndsProcess`,
`TickReachesDispatcher`, `SignalEndsProcess`. Liveness under fairness and
`ENABLED` are beyond the prover. Every safety property that a run checks is
proved, but for the two that runs show violated.

## 5. Divergences met while modelling

Two are shown by runs and listed under `findings`:

1. `audio_panic`: `f64::clamp` panics on a NaN bound, TOML has `nan`, and the
   check `in_min >= in_max` (`mapping.rs:85`) lets it pass. The mapping
   engine ends and the audio with it, against R-01 of the design document.
2. `store_wipe`: `wipe` answers 200 when persistence was switched off by an
   earlier failure, and the rows stay in the file.

The others were met in the same models. They show as the exceptions that the
properties make, so that no further run repeats them:

3. `aggregator.rs:88`: the `i32` counter of empty windows is incremented without
   a bound; past 2^31 - 1 it wraps (or panics with overflow checks, which
   `WrapI32` leaves out) and `stale` turns false with no telemetry; hence the
   exception in `StaleExact`. At the default window that takes over three years.
4. `ringbuf.rs:31`: an event dropped in front of a full aggregator channel is
   counted nowhere; the design document (line 271) wants the loss counter
   incremented. `dropped` records these events and `LossLedger` leaves them out.
5. `osc.rs:154`: the latency is measured from the newest tick, not from the
   snapshot that was sent, as the comment at line 152 says; hence
   `LatencyNotOverstated` is an inequality. `osc.rs:122` takes the time tag from
   the moment of dispatch; the README (line 141) says "of the telemetry sample".
6. `control_api.rs:223`: crossing requests leave `GET /v1/config` showing
   backends that are not in use; hence the exception in `BackendsAgree`.
   `control_api.rs:202`: a reload shows `[daemon]` settings that no running task
   uses; the design document (line 753) advises to change `window_ms` so.
7. `db.rs:156`: once persistence is off, nothing is purged; hence `conn = "on"`
   in `RetentionBound`.
8. `main.rs:366`: a graceful exit drops what waits for the database, and may come
   before the answer to the request that caused it; the comment at line 364
   speaks of a flush.
9. `ringbuf.rs:24`: insert tasks are spawned without a bound; the README's
   diagram (line 35) shows a bounded channel. They, the writer and the purge run
   their statements on tokio's worker threads under a blocking mutex, although
   the README (line 126) has the database "on a separate thread pool" and the
   comment at `ringbuf.rs:22` says "without blocking the audio path".
   `TickReachesDispatcher` shows what remains: a delay.
10. `control_api.rs:236` and `262`: totals are loaded before successes and the
    count before the buckets; hence the `overlap` in `SkewBound`.
11. `probe_manager.rs:291`: a failed load sets `loaded = true`; the design
    document (line 737) wants it shown as false and counted. A name that no probe
    has is shown as loaded too, by a task that never makes an event; hence
    `Unknown` in `Conductor`. `FailuresNotShown`, which is proved, states what the
    code does: no failure is ever shown or counted, although the comment at
    `main.rs:241` means to. And `/v1/probes` goes on showing as loaded a probe
    whose poller could not wrap its ring buffer or lost it (`probe_manager.rs:268`
    and `262`), for which no simulated probe is started either.
12. `main.rs:339`: SIGHUP ends the process; R-04 wants a reload.
13. `cpu_sched.bpf.c:95`, `85` and `133`: a switch that finds the ring buffer full
    leaves its wakeup entry behind, and a wakeup of a running task makes one; a
    later switch then reports a time that is longer than the wait, although the
    comment at line 109 speaks of the actual queue latency. After the exit
    tracepoint nobody deletes such an entry, against the comment at line 128;
    hence `stray` in the two properties of `SchedProbe`.
14. `control_api.rs:107`: when the pipeline has died, `GET /v1/state` shows the
    last snapshot for ever with the flag it had; the design document (line 319)
    wants it with `stale: true`.
15. `aggregator.rs:138`: `stale` sets no metric to a baseline, as the README
    (line 123) says; the averages decay as before, and a high one leaves up to
    17 % (`StaleRemnant`), which may still be a normalised metric of 1.

## 6. Not modelled

- `powf` and `ln` beyond the shape of their curves; the rounding of `f64`; rules
  with infinite bounds, or a NaN among the output bounds.
- How long a statement of SQLite takes: the models show that the audio goes on
  behind it, not how late.
- The other three eBPF programs: one handler each, without state.
- The TUI beyond `draw_bar` and its shutdown command, which is a client of
  `Conductor`: it is a sequential HTTP client.
- Rendering of pages, OSC encoding, logging, argument parsing, `prctl`.
- tokio's LIFO slot and the internals of its scheduler.
- The default configuration and its template: data.
- Packaging, example clients, benchmarks.

## 7. Plan

Done, in this order: `TelemetryPath`, `SnapshotFeed`, `AudioPath`,
`ConfigStore`, `Persistence`, `MetricsScrape`, `Lifecycle`, `SchedProbe`;
`Cascade`, `Conductor`, `WorkerPool`, `WindowMetrics`, `ConfigRegister`; proofs
of every safety property; the refinements of `SnapshotFeed` (by the audio path
and by each probe's events), of `Cascade` (by both paths and by the process) and
of `ConfigRegister` (by the requests).

Left, in order of importance:

1. `TelemetryPath` and `AudioPath` in one composition, so that a loss can be
   followed to the moment the snapshot that reports it is heard; with it the two
   feeds, of events and of snapshots, would be proved to join.
2. `ConfigRegister` for the rules alone, which stay one value also where a PUT
   crosses a reload.
3. `Persistence` over `WorkerPool`, so that the order of its inserts follows from
   who gets the mutex instead of being any order.
