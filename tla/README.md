# Verification of the Zeus power library

The repository holds Zeus, a Python library that measures the energy of GPUs,
CPUs and SoCs and optimizes training jobs for it
(`original_zeus_python_project/zeus`), its daemon zeusd (Rust,
`original_zeus_python_project/zeusd`), and a header-only C++ port of the
monitors (`power_monitor.h`, `device/`, `monitor/`). This directory holds TLA+
modules of their stateful and concurrent parts, TLC configurations that check
them on small instances, and proofs, checked by TLAPS for every value of the
constants, of the properties that matter most.

    tlc -config MCZeusMonitor.cfg MCZeusMonitor.tla
    tlapm ZeusMonitor_proofs.tla

Below, `zeus/` and `zeusd/` are the two directories above.

## The system

| Component | Code | State | Operations |
| --- | --- | --- | --- |
| Jetson backend (C++) | `device/soc_jetson.h` | millijoules per rail, a polling thread, flag, condition variable, two mutexes | polling, snapshots, deltas, destruction |
| Jetson rail discovery | `device/soc_jetson.h`, `zeus/device/soc/jetson.py` | none: what sysfs holds | the walk over directories, in C++ and in Python |
| Energy windows (C++) | `monitor/energy_monitor.h` | `windows_`: per key a start and snapshots | `begin_window`, `end_window` |
| zeusd power streaming | `zeusd/src/power_streaming.rs`, `devices/gpu/power.rs`, `routes/gpu.rs` | count of subscribers, a `Notify`, a watch channel, the last readings | `/get_power`, `/stream_power`, polling, pause |
| Power and temperature monitors | `zeus/monitor/power.py`, `temperature.py` | child processes with queues and events, bounded timelines per GPU | construction, polling, queries, `stop` |
| Energy windows | `zeus/monitor/energy.py`, `device/cpu/rapl.py`, `device/soc/common.py`, `device/soc/jetson.py` | window tables of monitors and SoC, a wraparound tracker, a SoC process with two queues | `begin_window`, `end_window`, `reset_windows` |
| Power streaming client | `zeus/monitor/power_streaming.py` | a thread per stream, shared readings under a condition variable, a stop event | construction, reconnection, `get_power`, iteration, `stop` |
| Carbon and price monitors | `zeus/monitor/carbon.py`, `price.py` | a process per run of windows, two queues, energy per hour and window | `begin_window`, `end_window`, the hourly loop |
| Power limit optimizer | `zeus/optimizer/power_limit.py` | a state machine per rank, limits in force, a profile file | training callbacks, all-reduce, profile, exit |
| Pipeline frequency optimizer | `zeus/optimizer/pipeline_frequency` | server: a task and three kinds of channel per job; rank: a schedule and a clock process | registration, one schedule per rank, repeated in each step, eviction; the results the API accepts are never reported |
| Batch size optimizer | `zeus/optimizer/batch_size` | server: a job's stage, trials, arms, least cost; client: its trial | registration, predict, report, end, deletion |
| Legacy policies and simulator | `zeus/_legacy` | the exploration generator, arms, rows in flight, a clock | `predict`, `observe`, one job, a group |

How they interact. A training process owns a `ZeusMonitor` and drives the
optimizers through callbacks. The monitors poll devices in child processes,
which answer through queues; the carbon and price monitors put a second
`ZeusMonitor` into such a process. The power limit optimizer combines the
measurements of all ranks in an all-reduce. The pipeline and the batch size
optimizer are clients of an HTTP server that keeps the state of a job. zeusd is
a separate process: handlers that subscribe to a poller and are dropped with
their peer; the streaming client keeps one connection per stream to it. The C++
library is one process, its backends polled by threads.

What is hard here: notifications that may be lost, counters that wrap while
they are read, answers that come after their call gave up, processes that die
with somebody waiting, ranks that must take each step together, a job's state
that a server works out from trials of which some failed, and jobs that are
killed between any two steps. PROJECT.json lists each hazard at its line with
the properties about it, or why there is none.

## The modules

Each component has a module of its own, an `MC` module with its instance, a
`.cfg`, and most have a `_proofs` module. PROJECT.json maps every
definition to its lines.

**`JetsonSoC`**: the polling thread, user threads and the destructor. Control
points follow the code down to the two steps between the wait's predicate and
blocking, where a notification can be lost. A rail's reading is power times the
ticks since the last poll. `asOf`, `missed` and `birth` are history.

**`RailDiscovery`**: how both programs find the rails of a board below its
sysfs directories, as functions of what a directory holds, without a state of
its own. `MCJetsonSoC` evaluates them.

**`EnergyMonitor`** and **`EnergyWindows`**: `begin_window` and `end_window` as
calls that read one meter per step while energy flows, any read of which may
throw; and what they promise: a window that begins and ends atomically, with
readings taken within the call. The first implements the second under the
mapping at its end.

**`PowerStreaming`**: the poller's nested loops with load, `notified().await`
and sleep apart; the watch channel with, per receiver, whether it has seen the
value; both handlers, and peers that leave. `latest` and `since` are history.

**`ZeusPollers`**: the power and the temperature monitor, which share their
shape: children that poll all GPUs in a pass, remember readings and send those
that changed. A child that is not ready in time makes the power monitor clean up
and raise, where the temperature monitor warns and goes on with it
(`PowerReadyTimeout`, `TemperatureReadyTimeout`). A `multiprocessing.Queue` is what its feeder thread has not sent
(`unsent`) and a pipe of bounded capacity (`pipe`), because an exiting child
waits for the one to reach the other. A drain takes one message per step, as the
feeder goes on sending between two `get_nowait()`; the timelines it extends are
bounded deques (`Extended`), which queries read as sets of places. `_cleanup`
joins, terminates and kills.

**`ZeusMonitor`**: one thread that calls several monitors over the devices they
share. A call is as many steps as it reads devices, each of which may raise.
RAPL is the counter modulo its range and the tracker's count, read in two
steps. The Jetson process measures, takes a request or times out; a call that
gives up after 15 s leaves its answer in the queue.

**`PowerStreamingClient`**: constructor, a thread per stream (connect, receive
a chunk, work through its events, reconnect after the delay), iterators between
their check of the event, their wait and their body, and `stop`. A reading is
the time it was taken, so that older and newer can be told.

**`PowerLimitOptimizer`**: per rank, the states Ready, Warmup, Profiling and
Done under `on_step_end`, `on_epoch_end` and exit, with the all-reduce as a
step all ranks must have entered, the three selectors, the profile that is
truncated before it is written, calls that raise, and a job killed and run
again with the file it left.

**`PipelineFrequency`**: the server's task of one job (gather requests, send
schedules), its bounded channels and the handlers that wait on them; the ranks,
which register, ask for a schedule once and repeat it in every step; their clock
processes; a scheduler that fails, ranks that raise or are killed, clock
processes that die, and eviction of idle jobs under handlers that still wait.
The client asks in its constructor only (`optimizer.py:135`), and reporting a
result is a TODO (`optimizer.py:163`): nothing in the repository sends one, the
task waits for results until its job is evicted, and `observe()` is not reached.
The model ends there too.

**`BatchSizeOptimizer`** and **`PruningExplore`**: the server's stateless
`next_batch_size` over the list of trials, `predict`, `report` and `end_trial`,
deletion of the job, and clients that fail, are killed or lose a response. A
request is one step, because it holds the job's lock from its first read to its
commit. `PruningExplore` is the generator of the legacy policy that the server
replaced. `LegacySimulator` runs it, and `BatchSizeOptimizer` instantiates it as
the specification its server has to agree with.

**`HourlyMonitor`**: both monitors' begin and end queues, a polling process that
starts for the first window and ends with the last, windows that are ended and
begun again with each hour, intensities fetched before they leave the
provider's history, prices that lack an hour.

**`LegacySimulator`**: `simulate_one_job` and `simulate_one_alibaba_group` with
retries, the order in which finished rows are observed, both batch size
policies and power limits profiled when a batch size is first used.

Beside an action some modules define a variant that `Next` does not use
(`Pause` and `PauseKeepsPower`, `Exit` and `ExitLeavesClock`): the code with a
plausible fault. PROJECT.json pairs each property with such a fault that breaks
it, so that no property holds whatever the code does.

## What is checked

| Run | Instance | Shows |
| --- | --- | --- |
| `jetson` | the 2 rails discovered on one board, 2 users, 2 powers, time up to 2 | `EnergyEnvelope`, `SnapshotIsOneInstant`, `WindowEnvelope`: accumulators and windows lie within what the readings allow and no snapshot is torn. `StopTerminates`: the destructor returns even if the clock stops |
| `windows` | 2 keys, 2 rails of which one feeds the other | `ImplementsWindows`: all or nothing whatever read throws, readings from within the call. `WindowsNest` |
| `streaming` | 2 requests of either kind, 2 GPUs | `StreamsAreCurrent`, `NothingFromBeforePause`, `AnswerIsFresh`, `StreamsAreServed` |
| `pollers` | 1 domain, 2 GPUs, 3 readings, timelines of 2, a pipe of 2 | `DedupTimeline`, `LatestIsKept`, `ClosestIsNearest`, `EnergyIsBounded`: what queries take for granted of queued, deduplicated and cut timelines. `StopEndsAll`: `stop` returns and leaves no child, hung or not |
| `zeus_monitor` | 2 monitors, 2 keys, a counter of range 2, 1 call that gives up | `TablesAgree`: no failure leaves a window in one table only. `CpuReadings`, `SoCNeverNegative`, `AnswersMatch`, `CallsReturn` |
| `stream_client` | 1 server with GPU and CPU stream, 1 iterator | `ReadingsGoForward`, `StopEndsIterators` (also one that missed the notification), `ReadingsCatchUp` |
| `power_limit` | 2 ranks, 3 limits, 3 epochs of 5 steps, every selector | `MeasuredAtItsLimit`, `EachLimitOnce`, `RanksAgree` (also with the saved profile), `EndsRestored` |
| `pipeline` | 2 ranks of a stage each, 1 step, 1 error or kill | `AllAskFirst`: nobody trains by a schedule before all ranks have asked. `EveryRankIsAnswered` (also when the scheduler fails), `ClocksAreReset` |
| `batch_size` | 2 clients, 3 batch sizes, 2 rounds, 5 trials, 1 fault | `ExplorationsFollowRounds`, `MinCostIsLeast`, `AgreesWithGenerator`, `ExplorationNeverStuck` |
| `hourly` | both monitors, 2 windows, 9 ticks of 2 an hour | `EachHourAtItsRate`, `HistoryCoversMeasurements`, `WindowEnds` |
| `hourly_dram` | the same without DRAM | violates `EndsWithoutDram`, see below |
| `legacy` | one job or a group of 5 rows, both policies, 3 batch sizes | `ObservedAsTheyEnd`, `RowsAreAccountedFor`, `ArmsReachedInEveryRound` |

Before `jetson` starts, TLC evaluates `DiscoveryAssumption`: for every small
directory and for a board of two devices, the C++ discovery finds each rail that
has a name and can be read exactly once, the Python discovery no metric beyond
those of these rails, and the board's rails are those the run is about.

**What properties leave out**, because the code does not provide for it:
- `ClocksAreReset`: a rank that is killed runs no exit handler, and its clock
  process stays in `get()` with the clock locked; one whose clock process dies
  first (a driver call that raises, or Ctrl-C, which reaches both) leaves the
  clock as it is (`frequency_controller.py:25`, `:36`).
- `EveryRankIsAnswered`: ranks that wait for one that was lost before it asked,
  and ranks of an evicted job, wait on (`job_manager.py:91`).
- `EndsRestored` and `MeasuredAtItsLimit`: jobs in which a call raises or that are
  killed.
- `RanksAgree`: a profile that was truncated and not written again. The model
  has it: the constructor of the next job raises.
- `MinCostIsLeast`: that the cheapest result is a good one. A trial that was
  stopped early or did not converge has a cost too, as in the code.
- `ExplorationNeverStuck`: processes that are killed, lost responses, deleted
  jobs. A trial nobody ends stays `Dispatched`, and exploration is over.
- `EachHourAtItsRate` and `WindowEnds`: hours without a rate and a process that
  fails.

**Bounds.** Every bound is a constant in a guard, and the smallest for which
each case happens. `MaxTime` (`jetson`, `pollers`, `stream_client`), `MaxTicks`,
`MaxMeter` and `MaxDrawn` end clocks and energies: two polls in a row tear a
snapshot or repeat a sample, a counter of range 2 wraps in one unit after
another, five hours outlast a history of three by the fetch and by one more.
`MaxKills`, `MaxFailures`, `MaxErrors`, `MaxTimeouts` and `MaxFaults` bound faults:
one is enough for each handler of a fault to run at every point, and one late
answer is enough to shift all that follow. `Steps`, `Epochs`, `EpochSteps`,
`Recurrences`, `MaxTries`, `MaxTrials` and `MaxRuns` bound the length of jobs: an
epoch of 5 steps ends in the warm-up of one limit and in the window of another;
five trials take two explorations through both rounds and on to the bandit.
`MaxSamples` (the caller's choice in the code) and `PipeCapacity` (the operating
system's 64 KiB) are 2, so that timelines are cut and children wait at exit for a full pipe. Clients of
the batch size optimizer are interchangeable, hence the symmetry; no run with a
temporal property uses symmetry.

**Deadlock** is checked in `jetson`, `windows` and `streaming`. Elsewhere a
system may stop: jobs end, processes and monitors are stopped for good, clocks
reach their bound, and in `hourly` a caller waits for a process that failed.

**Fairness.** Weak fairness of a thread, task or process that the operating
system, the runtime or the peer schedules, and no more:
- `JetsonSoC`: each thread, and strong fairness for taking `stop_mutex_`, which
  the poller holds only around its sleep. The clock is not fair.
- `PowerStreaming`: the poller and the handlers. Peers and hardware are free.
- `ZeusPollers`: the parent's joins, which return or time out, and signals that
  arrive. Nothing is assumed of the children: they may hang in a driver.
- `ZeusMonitor`: a call that is under way and the SoC process while it lives;
  failures, the tracker and the user need not come.
- `PowerStreamingClient`: threads, iterators and the loop's body; waits that
  time out. Connections fail `MaxFailures` times and then hold.
- `PowerLimitOptimizer`: ranks, and an all-reduce that all have entered.
- `PipelineFrequency`: registration, ranks, the server's task and its handlers,
  and clock processes; nothing of eviction, errors and kills.
- `HourlyMonitor`: the polling process, and a `get` that has an answer.
- `EnergyMonitor`, `BatchSizeOptimizer` and `LegacySimulator` state safety only.

## What is proved

Eight modules hold the proofs. Each proves an inductive invariant, one step per
action, and derives the properties from it; the assumptions are the `ASSUME`s of
the component's module, which the runs evaluate on their instances.

**`JetsonSoC_proofs`** (`TypeCorrect`, `EnergyBounded`, `SnapshotsConsistent`,
`WindowsBounded`, `WakeupDelivered`, `PollerOutlived`). Control: who holds each
mutex and where the destructor and the poller may be relative to each other;
this gives the two about stopping. Accumulators: outside the critical section
all rails are as of one poll, inside it those not yet written are one behind;
what a rail has is bounded by its powers over the time its reads succeeded. The
properties on their own are not inductive, as they say nothing of the middle of
a poll.

**`EnergyMonitor_proofs`** (`Refinement`, `NestCorrect`, `TypeCorrect`). Every
initial state and step maps to one of `EnergyWindows` or to a stutter. The
invariant bounds what a call has read by the meters at its start and now.

**`PowerStreaming_proofs`** (`WakeupDelivered`, `PauseForgets`, `AnswersFresh`,
`StreamsShowLatest`). The count is the number of guards; a poller about to sleep
without a permit, or asleep, has no client that notified; and a poll under way
knows of each GPU either a reading of its own or that the last one still stands.
The last part is what a failed read needs. `Gpus` has no repetitions.

The same module holds the proof of **`PowerStreamingClient`**, the other end
(`NeverBack`). The events of a stream are in order all the way: readings, the
thread's buffer, the connection, the server. That two threads write one timestamp
is covered by its maximum.

**`ZeusMonitor_proofs`** (`TablesAgreed`, `ReadingsBounded`, `SoCForward`,
`AnswersMatched`). What each phase of a call has already changed in either
table; counter and count against what was drawn, off by a range while a wrap is
not counted; the answers in the queue in order, each at least what any open
window began with, which is why a late answer can be wrong and yet never
negative.

The same module holds the proof of **`HourlyMonitor`**, whose processes own such a
monitor (`HoursAreCharged`, `HistoryIsEnough`). While a window is open somewhere the
polling process is there, and the windows it has and those in its queue are the
ones that wait for an answer; so an end finds the window it is for. All ticks of
a piece are of one hour, the piece is put to an hour that has nothing yet, and
what an hour is charged and what is still measured of it add up to the ticks of
the window in that hour. The measured hours are no more than the hours counted
since the last fetch, which keeps them in the history. Without a rate the sums
say nothing, and the invariant neither. The history has to be two hours or
longer: with less the count never meets the length less one.

**`ZeusPollers_proofs`** (`OneTimeline`, `NothingNewIsLost`, `AnswersAreNearest`,
`EnergyWithinItsWindow`). Deque, pipe and the child's own queue are one timeline of
a GPU: in order of time, neighbours different, nothing later than the stamp of
the pass under way, and strictly earlier for a GPU this pass has still to read.
The newest of it is what the child remembers, until the child is gone; only then
may the queue lose its end. A message that moves from one part to the next, or
that a full deque drops, leaves a part of the same timeline. The queries are
functions of the deque: that the bisection ends between two neighbours gives the
nearest sample; the pieces of energy lie over disjoint intervals of ticks within
the window, so that their lengths add up to no more than the window's.

**`PowerLimitOptimizer_proofs`** (`EachOnce`, `Agreement`, `Measured`). What ranks
share: the length of their measurements differs by at most the all-reduce under
way, they hold the same entries, and a file says what all hold. Where a rank is
in the list of limits gives which limit its GPUs have and which window is
open. For the state Done, `ChosenIsListed` shows that every selector chooses one
of the listed limits, also from measurements a file saved in watts. It rests on
`EnergyIsNat`: the sum over the ranks is a fold, and its value a number by
induction over the set of ranks, which has to be finite and not empty.

The same module holds the proof of **`LegacySimulator`**, whose policies profile
the limits too (`InOrder`, `NoRowIsLost`, `ArmsAreEarned`). The generator is in one of
the states of its protocol, and what it says is left of a round, or good in it,
has reached the target that many times in the history. A generator that waits
for a result waits for a job in flight, and one that was never asked has none:
so a result it does not expect is only remembered, and the one it expects comes
when it waits. The job reaped is one that ends first, and a retry ends after
it. Each row adds one to the jobs in flight, and each result that reached the
target moves one from there to the history. `Infinity` stands for `float("inf")`;
the assumption on `Gaps` is that every row starts before it.

**`PipelineFrequency_proofs`** (`Barrier`, `Room`, `NothingAfterReset`). The
requests in the channel and those the task has gathered are of different ranks,
all of which have asked; a schedule is on its way only once the task has gathered
as many as there are ranks, and by the pigeonhole that is all of them. A rank
asks once, so that no channel ever holds more than its bound, and the error of a
scheduler that fails is delivered to every rank. The reset is the last thing a
rank puts in its clock's queue, and a process that has taken it takes no more.
That the reset comes is liveness, and model-checked.

**`BatchSizeOptimizer_proofs`** (`LeastCost`, `OneExplores`, `NeverStuck`,
`ServerAgrees`). A trial
has a cost once it has succeeded and not before; only the report that ends a
training adds a result, whatever the pruning and the bandit choose. For the
next two the invariant says what `next_batch_size` finds when it goes through
the trials again: the function `AfterRound` is shown to exist (`Rounds`), its
answer to explore to name a batch size that has one exploration less than the
round and only converged ones (`RoundsFind`), and the answer to be the same
while no exploration is added, ends or fails (`RoundsCarry`). What fails leaves
the list; what waits for its result makes the rounds answer `concurrent`, so
that nobody else explores; and it belongs to a process unless that was killed,
its response lost or the job deleted.

`ServerAgrees` relates two programs over the same list of trials: the server, which
goes through all rounds again at every request, and the generator, which keeps
a round, two lists, the good batch sizes and the best cost, and hears only of
completed explorations. That both name the same batch size now does not say
that they will after the next result, so the invariant (`Follows`) says where
the generator stands: either it has ended with what the last round leaves, or
it is in some round (`InRound`), begun with what `AfterRound` leaves of the one
before. In it, what is still to come has no exploration of this round, nothing
has one of the next, what is good has converged, the default is the cheapest of
the good ones, ties going to the one explored first (`IsCheapest`), and the
lists are what lies beyond the batch size it asks for, on the way down
(`AsksDown`) or, with that way over, on the way up (`AsksUp`). That batch size
has no exploration in this round, or the one that waits for its result. From
there:
- the server's walk stops at the batch size the generator asks for
  (`DownStops`, `UpStops`, `AskingAgrees`), and once the generator has ended finds
  the same batch sizes left (`EndedAgrees`);
- sent a result, the generator asks for the next one, goes on with the other
  direction, begins the next round with what the server's round leaves
  (`RoundLeaves`, `CheapestIs`), or ends (`Tells`);
- a step that adds, ends or fails one exploration leaves every other place in
  the rounds as it is (`AskingStays`, `WalkSame`, `RoundsSame`), so that what the
  generator relies on stays true.

The generator after a list of trials is a recursive function, shown to exist
(`GeneratorTold`) by induction over the length. The result that arrives last need
not be that of the last trial: concurrent trials come in between. It is that of
the last exploration (`HeardInv`), which is why one more step of the generator
accounts for it (`GeneratorHears`), and why the order in which the server lists its
trials is the order the generator heard of them. The window of the bandit only
ever lowers an arm's count, so that `arms` stays within the results.

Where a number is counted through, the proofs use an induction over sets
(`LeastOf`, `Induct`): a set of numbers that is not empty has a least member,
from the library's theorem about well-founded relations. The library's own
induction rules take an operator as a parameter, which none of the provers can
instantiate.

Only model-checked: all liveness (`StopTerminates`, `StreamsAreServed`,
`StopEndsAll`, `CallsReturn`, `StopEndsIterators`, `ReadingsCatchUp`,
`EndsRestored`, `EveryRankIsAnswered`, `ClocksAreReset`, `WindowEnds`), which TLAPS
does not prove under fairness. Every invariant and every action property of the
passing runs is a theorem.

## Where code and documentation disagree

**A window of the carbon or price monitor never ends without DRAM** (run
`hourly_dram`). `carbon.py:421` pops the window from the DRAM and CPU maps, which
have no entry if nothing was measured; `pop` of a `defaultdict` raises `KeyError`,
the polling process ends, and `end_window` waits for its answer without a
timeout. `carbon.py:174-176` documents that the value may be `None` where CPU or
DRAM cannot be measured. `price.py:427` has the same code.

Met while modelling, and recorded without a run of their own:
- `zeus/monitor/power.py:41` starts the minimum of update periods from 0.0: the
  inferred period is always 0 and the monitor polls without a pause, where the
  docstring (`:34`) promises half the fastest period detected.
- `zeus/monitor/power_streaming.py:258`: an iterator waits for the next
  notification, so that an update that arrives while the loop's body runs is
  not yielded until another follows; `:136` says each new arrival is.
- `zeus/optimizer/power_limit.py:441`: a limit that fails on one of several GPUs
  leaves `current_power_limit` as it was. If that is the highest limit, the exit
  handler (`:334`) returns early, and GPUs already set keep the lower limit.
- `zeusd/src/routes/gpu.rs:274` says a one-shot request waits up to 200 ms; `:297`
  waits without a limit. If the poller broadcasts between the subscription and
  the wait, and nothing changes later, it waits for ever.
- `zeusd/src/power_streaming.rs:71` says a stream skips a stale value; the clone it
  is made of (`:74`) has not seen the present one, which it yields first. A
  stream may therefore begin with a snapshot from before a pause;
  `StreamsAreCurrent` is about what it shows once a poll has completed.
- `zeus/optimizer/batch_size/client.py:153` and `:193` say that a batch size that
  did not converge will not be selected again. That holds of explorations; after
  a concurrent trial or one of the bandit the same size may be issued again.
- `zeus/_legacy/simulate.py:336` passes a job that never ran to `observe` with cost
  0 in a group, which `:631` says is to be treated separately, and which
  `simulate_one_job` does treat separately.
- `zeus/optimizer/pipeline_frequency/server/job_manager.py:84` and `:101` describe
  ranks that report after each schedule and ask for the next one; the client does
  neither (`optimizer.py:163` is a TODO), so every job waits for results until it
  is evicted, while its ranks still train.
- The same file, `:98`: a response that is taken after the eviction of its job
  sets the job's last active time again. The cleanup then finds no task for it
  (`:124`), the `KeyError` ends the cleanup task, and no job is evicted any more.
- `monitor/measurement.h:48` sums all rails, where the repository's
  `README.md:402` shows a total equal to the input rail: what feeds other rails
  is counted twice. `WindowsNest` and the refinement do not depend on sums.

## Assumptions and abstractions

Energies, powers and times are integers; rounding of floats is left out. Every
device of `ZeusMonitor` draws the same, as its properties relate each device to
itself. The tracker reads at least once per range of the counter, as its sleep
is computed for. A clock of `ZeusPollers` never gives a child the same time
twice. The bandit's draws and the sampled training paths are any arm and any
path. Costs of epochs are small constants, so that time and energy are told
apart only where a selector does. A request to the batch size server is atomic
and rolled back as a whole. `EnergyMonitor` has one calling thread, as its
header promises nothing to several.

## Not modelled

- **NVIDIA and Apple backends, facade, totals (C++)**: construction and sums run
  before or after the concurrency, on one thread; the NVIDIA poller is the
  Jetson's without its condition variable. The other backends are meters of
  `EnergyMonitor`, except NVIDIA GPUs without an energy counter (before Volta):
  their windows integrate sampled power between start and end
  (`device/gpu_nvidia.h:292-300`), or multiply a last reading, and neither the
  refinement nor `WindowsNest` speaks of them.
- **Metric exporters** (`zeus/metric.py`): a process per metric behind a queue of
  commands, of the shape of `HourlyMonitor` without its hours.
- **GPU, CPU and SoC device wrappers, device selection, callbacks, utilities**:
  forwarding to vendor libraries, singletons, permission checks; no behaviour
  over time. RAPL's wraparound and the Jetson process are in `ZeusMonitor`.
- **zeusd: GPU management, CPU energy, the poller of CPUs, startup**: a task per
  device that takes commands from a channel, and the subscriptions of
  `PowerStreaming` over differences of energy.
- **The server's database layer**: transactions that roll back, the seed of the
  bandit, several jobs, which share nothing but the process.
- **The pipeline server after a result** (gathering results, `observe()`, further
  schedules): the shipped client never reports one.
- **The point scheduler's schedules**: given, a fixed sequence of instructions
  per stage.
- **Examples, benchmarks, build files and tests.**

## What is left

In the order of its use: zeusd's CPU management with `PowerStreaming` over it
(differences of a wrapping counter at ticks that come late); `zeus/metric.py`
beside `HourlyMonitor`; the composition of `PowerStreaming` and
`PowerStreamingClient` over one connection.
