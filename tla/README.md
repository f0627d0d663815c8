# packet-poipoi: specifications, model checking and proofs

packet-poipoi measures how much a receiver gains by dropping unwanted UDP
traffic early (XDP), in the middle (netfilter) or late (the application). This
directory holds TLA+ models of the programs that conduct those measurements,
the TLC runs that check them and the TLAPS proofs about them.

1. [The system](#1-the-system)
2. [What makes it hard](#2-what-makes-it-hard)
3. [Modules](#3-modules)
4. [Runs](#4-runs)
5. [Fairness](#5-fairness)
6. [Proofs](#6-proofs)
7. [Disagreements with the documentation](#7-disagreements-with-the-documentation)
8. [Not modelled](#8-not-modelled)
9. [Plan](#9-plan)

`src/` below is the root of the repository.

## 1. The system

Two Raspberry Pis: Pi A sends, Pi B receives.

| Component | State it keeps | Operations | What makes it correct |
|---|---|---|---|
| **experiment-runner** (Pi B, `src/tools/experiment-runner`) | where it is in the sweep (repetition, rate, drop point), its nftables table, the UDP sink's counter, the experiment's result | configure a drop point, start/stop/query the load, publish a run, clean up; ends by itself, by an error or by SIGINT | every condition is measured once, under its own drop point; whatever happens the cleanups are tried, and what they acknowledged holds; it always ends |
| **traffic-node** (Pi A, `src/tools/traffic-node`) | `attack_active`, `attack_pps`, `packets_sent`, a `HealthWindow` with a generation, the send remainder | control commands start/stop/status; health worker; attack worker; console | a window holds the probes of its own run; the counters a run subtracts are those of its load; a stop stops |
| **xdp-hello**, user space (Pi B, `src/xdp-hello/xdp-hello`) | the mode, in the kernel map and in `current_mode` | set the mode, publish stats and events | the kernel drops exactly in mode `protect`; what is reported is what is applied |
| **xdp-hello**, eBPF (`src/xdp-hello/xdp-hello-ebpf`, `-common`) | per-CPU counters, rate windows per destination | decide, count, sample, alert | every packet counted once; only the configured port is dropped; an alert has the packets it speaks of behind it |
| **observation-hub** (Pi B, `src/tools/observation-hub`) | a broadcast channel of 4096 lines | ingest lines, pass valid ones to dashboards, reconnect to xdp-hello | only valid runs pass; lines in order and once; a slow dashboard is nobody else's trouble |
| **observation-core** (`src/observation-core`) | none | `ExperimentRun::validate`, `parse_upstream_line` | refuses impossible runs, and no possible one |
| **dashboard** (`src/dashboard`) | what it was last sent | reconnect, forward, draw | |
| **scripts** (`src/scripts`) | pid files | start, stop, deploy | |
| **shelfpdf** (`src/tools/shelfpdf`) | | an unrelated browser tool | |

How they interact:

    experiment-runner --nft--> kernel          UDP load, HTTP probes
            |--{"mode": ..}--> xdp-hello  <==================== traffic-node
            |--start/stop/status------------------------------>  |   ^ console
            '--experiment_run--> observation-hub <-attack_state--'
                                     ^ '--lines--> dashboard
            xdp-hello --stats, flows-'

Every control call is a TCP connection with one JSON line each way. The runner
gives a call `CONTROL_TIMEOUT` (3 s). Events to the hub are one connection and
one line each, with no answer.

## 2. What makes it hard

* A call that its caller gave up is not undone. The request may be handled after
  the caller has sent others, has exited, or has been launched again.
* The runner may die between any two steps; nftables, xdp-hello and traffic-node
  keep what it left.
* traffic-node and xdp-hello may restart in the middle of a measurement and
  answer as if nothing had happened.
* traffic-node's tasks share four variables with no common lock. A health probe
  takes its decisions before it begins and acts on them up to 1.5 s later; a
  burst goes on through a stop.
* Events of one cause travel over different connections. Their senders wait for
  the hub without a timeout.
* The CPUs of Pi B share a rate window per destination, with no lock and no
  atomic access, in a map that can be full and whose elements are reused.
* Two broadcast channels overwrite what a client has not read, and clients lose
  their connections and come back.
* Three drains (`HEALTH_DRAIN_TIME`, `UDP_DRAIN_TIME`, the probe's timeout) have
  to be long enough with respect to each other.

`PROJECT.json` lists these and the smaller ones under `hazards`, each at its line
and with the properties that stand guard over it.

## 3. Modules

| Module | What it is |
|---|---|
| `Conditions` | the sweep's order: `parse_pps_steps`, `rate_order`, `condition_order` and the three nested loops as positions with a successor |
| `SweepPromise` | the abstract specification of an experiment: measurements reported at most once, all of them if it ends well, no drop rule left then |
| `ExperimentRunner` | the runner and everything it steers, down to requests in flight and up to the lines it writes for the hub; refines `SweepPromise` |
| `ConditionsProofs`, `ExperimentRunnerProofs` | theorems about the two |
| `LoadSwitch` | the abstract specification of load control: a switch that commands set one after the other, and bursts that begin only while it is on |
| `TrafficNode` | the tasks of traffic-node, one access to the shared state per step; refines `LoadSwitch` |
| `LoadReports` | `TrafficNode` and the observation hub that learns of its load |
| `Measurement` | `TrafficNode`, the network, the UDP sink and one `run_condition` after the other, with time |
| `ExperimentRun` | the numbers of a run as functions: percentile, CPU share, the pace of the load, `ExperimentRun::validate` and the two verdicts |
| `RunReadings` | these functions over what `run_condition` may read |
| `EventStream` | the abstract specification of what a dashboard sees |
| `EventHub` | xdp-hello's event server, the hub and its clients; refines `EventStream` |
| `ModeRegister` | the abstract specification of mode control: a register a command sets at one moment between its call and its answer |
| `XdpHello` | xdp-hello: control server, packets on the CPUs, ticker; refines `ModeRegister` |
| `XdpHelloProofs` | theorems about it, the refinement among them |
| `XdpProgram` | the eBPF program on several CPUs: rate windows, alerts, sampling |
| `NumberLemmas` | facts about numbers, finite sets and sums over them that the proofs share |
| `MeasurementProofs` | theorems about `TrafficNode`, the refinement among them, and about `Measurement` |
| `RunReadingsProofs` | theorems about `RunReadings`, and with it about the functions of `ExperimentRun` |
| `XdpProgramProofs`, `EventHubProofs` | theorems about the module each is named after, a refinement among them |
| `MC*` | instances of these for TLC |

### ExperimentRunner

`pc` names the awaits of `main`, `run_experiment` and `run_condition`:

    off -> condition -> configuring -> settling -> starting -> measuring
        -> stopping -> draining -> querying -> udp_drain -> publishing
        -> condition ... -> clean_nft -> clean_xdp -> clean_traffic -> exited

(`crashed` is the end without these cleanups: the process is killed, or SIGINT's
handler cannot be registered.)

* `position` is the state of the three loops. `Remaining(position)` is what is
  left of the plan.
* `call` is the request the runner awaits and `reply` how far its server has got
  (`none`, `applied`, `loaded`, `arrived`: traffic-node changes its state, reads
  its counters and takes its window's summary in this order). `inbox` holds
  written requests. When the runner gives a call up (`HangUp`) the request stays
  in `inbox`. A dropped TCP segment is a request that is never handled.
* `nft`, `xdp`, `active`, `targetPps`, `window` are the world it steers. `xdp.by`
  and `activeBy` are ghosts that tell a write by an awaited call from a write by
  a restart or by a request whose caller had gone. They let the properties say
  what the runner can and what it cannot be responsible for.
* Failures: any call may time out or be refused (`CallFails`), `nft` may fail,
  `/proc` may be unreadable, the sink may fail, SIGINT drops whatever is awaited
  (`Interrupt`), the process may vanish (`Crash`), the servers may restart. Each
  ends in the branch the code has for it. The three cleanups are tried one after
  the other whatever became of the one before (`CleanNft`, `CleanXdp`, `Exit`).
* `Valid` has the checks of `ExperimentRun::validate` that depend on another
  process: a status that shows no probe, an inactive start. That the other checks
  never refuse what the runner measures is `RunnerRunsAreValid` of
  `ExperimentRun`.
* `published` has the runs whose line `publish_run` wrote to its connection
  (`HandOver`), also when it then failed or was dropped (`AbandonRun`). No answer
  comes back, and the hub reads the line in a task of its own: it may lose it, and
  the next load may be on by then. What the hub ingests is some of `published`;
  `EventHub` takes it from there. `Unreported` is the plan less what this launch
  has handed over, and this is what the refinement maps to `todo`.
* `Fails` spends `MaxFaults`: restarts of the servers.
* Here traffic-node handles a command in three steps and a probe in one;
  `TrafficNode` has the steps between.

### TrafficNode

* `health` is the health worker between two probes: it has read `attack_active`
  (`HealthTick`), then the window's generation (`HealthGeneration`), then the
  probe begins (`HealthProbe`) and at some time ends (`HealthRecord`). `begun` is
  a ghost: the generation and the phase of the load (`before`, `under`, `after`)
  at the moment the probe really began. `window.early` and `window.late` count
  recorded probes that did not begin under the load.
* `attack` is the attack worker's `select!`. A burst is one step per packet and
  one for its `fetch_add`; `remainder` is `send_remainder`.
* `conn[c]` is the task of a control connection, step by step through a command.
* `console` is the console of `main`, `trailing` a ghost: packets since the last
  stop.
* The atomics are `Relaxed`. The model takes every interleaving of their
  accesses, not the reorderings a weaker memory adds. Latencies are left out:
  nothing but the summary depends on them.

### LoadReports

The steps of `TrafficNode` that publish are joined with `Emit`. `inFlight` is the
set of `active` values on their way. A set is enough: the hub may ingest the
events in any order, and of several equal ones the last alone decides what is
shown. `hub` is up, down (it refuses connections: the event is lost at once, and
what was on its way too) or silent (its machine is off or out of reach: the
publication, which has no timeout, waits, and so does the task it is part of).

### Measurement

`phase` is `run_condition` with nothing failing (its failures are in
`ExperimentRunner`). A packet is first in `inNetwork` and then counted by the sink
or dropped. `Clock` is half a second in which every task waits for a tick, a
timer, a probe or the hub: computation takes no time compared with the sleeps.
`UDP_DRAIN_TIME` (100 ms) is taken to be enough for packets in the network, which
on one switch it is, so `Complete` requires an empty network. `HttpTimeout` and
`HealthDrain` are in units of half a second, 3 and 4 by default (1.5 s and 2 s).

### XdpHello

* `kernelMode` is the map, set under a mutex that covers only this; `currentMode`
  and the `defense_mode` event (`announced`) follow as steps of their own, so that
  two connections can leave them in different orders. `overlapped` is a ghost: the
  last command to set the map met another one half done.
* A CPU decides (`Decide`) and counts (`Count`) in two steps. Packets are `load`
  (UDP to the blocked port) or `other`. `leaked` is a ghost: load that each CPU
  passed since the kernel has been in protect.
* The ticker reads the per-CPU values one after the other, `pass` before `drop`.
  A lookup that fails passes for 0 (`SumFails`, at most `MaxMisread` times), which
  is then the previous value of the next round: that round's interval has every
  packet since the start once more. `misread` is a ghost: how often an action's
  counter was misread.
* In `ExperimentRunner` the whole server is the one step `SetMode`; that this is a
  fair picture is the refinement `ControlIsARegister`.

### XdpProgram

* The packet a CPU is at goes through `detect_packet_rate` one access to the map
  or to a window at a time; `count` and `warned` of a window that begins anew are
  one step, and `record_packet` is part of the last one, since nothing it touches
  is read by another CPU.
* The source names `(*window).count` three times (280, 281, 283). Whether the second
  and the third load it again or go on with the value in a register is left to the
  compiler, since the accesses are plain ones. `Readings` has both values, and each
  use takes either: `Compare` may meet a count that another CPU has reset or raised
  since the store, and the rate of an alert (`Alert`) may be that of a window begun
  after the comparison.
* An insertion may fail at any time (`InsertFails`): the map is full, or the kernel
  refuses it for a reason of its own. The program drops every error.
* `entries` is the hash map from destinations to `elements`. A pointer a CPU has
  looked up stays usable after another CPU has replaced its entry (`BPF_ANY` on a
  key inserted meanwhile), and the element is free for the next insertion: with
  preallocated elements that is what the kernel does. `replaced` is the ghost that
  tells such behaviours apart. Of the elements that were never used the first one
  stands for all.
* `exact` is a ghost: the window a detector that nobody disturbs would keep.
* The mode is fixed in a behaviour, both are initial states. `alerts` and
  `sampled` count what is meant for `EVENTS`; a full ring buffer drops it, and
  nothing in the program depends on whether it did.

### EventHub, ExperimentRun and RunReadings

* A client of one of the two broadcast servers is `away`, in the `backlog`
  (connected, not accepted yet) or `on`: its task's `cursor` in the channel and
  its socket's `wire`. The hub's own connection to xdp-hello is the client `Link`,
  what it ingests goes to `published`, the channel of the dashboards. `Forward`
  waits while the wire is full; `Lag` is `RecvError::Lagged`.
* Lines are their types; those of xdp-hello carry a number, runs are records of
  `ExperimentRun`, made by `RunOf` of what a runner may have read and checked by
  `IsValid`.
* `Break` loses a connection with what is in its socket, at both ends; `HubRestart`
  loses them all. `at` is the line a dashboard has come to; when it reconnects, the
  point it reconnects at.
* `ExperimentRun` has no state. `RunReadings` gives it what a run may be made of:
  `read` is one of `Readings`, and these may be any of the `Readable` ones: any
  counters, windows of any length, any condition of any plan. `MCRunReadings` takes
  a reading in which all is well, and those that differ from it in the inputs of one
  function. `Sorted` is `sort_unstable` as far as numbers can tell: it puts each value
  after those that precede it. Percentages are compared without dividing, where the
  code divides `f32` values. `Burst` is the same arithmetic as `SendTick` of
  `TrafficNode`.

## 4. Runs

Passing runs (states are distinct ones):

| Run | Instance | Shows | States |
|---|---|---|---|
| `runner_sweep` | two rates, two repetitions (the second walks the rates back and rotates the drop points), one launch, one restart of a server | `OneRunPerCondition`, `TypeOK`, `PublishedWindowIsItsOwn`, `MeasuredUnderItsDropPoint`, `PublishesAtRest`, `SweepPromiseKept` (refinement of `SweepPromise`), `RunnerEnds` (liveness) | 0.15 M |
| `runner_relaunch` | two rates, two launches, the second through its first rate (`FirstRateOfTheSecond`) | `CleanupHolds`, `QuietWhileConfiguring`, `MeasuredUnderItsDropPoint`, `LoadIsItsOwn` | 2.9 M |
| `node_commands` | two clients with two commands, a console line, two packets, rates 2 (default), 1 and the refused 0, two ticks a second | `TypeOKNode`, `AtMostOneBurstTrails`, `StrayProbesBounded`, `OwnProbesOnly`, `LoadIsASwitch` (refinement of `LoadSwitch`) | 2.8 M |
| `load_reports` | a client and a console line, a hub that goes down or silent once and need not return | `HubLearnsLoad`, `HubIsNotNeeded` (liveness) | 0.2 M |
| `measurement_times` | two measurements, three packets, the default times | `DrainCollectsProbes`, `RunAddsUp` | 2.3 M |
| `xdp_hello` | two clients with two commands, two CPUs, two packets, the ticker, and a counter it fails to read in the place of each command not sent (`TwoIncidents`) | `TypeOK`, `ShownModeIsApplied`, `ProtectStopsTheLoad`, `ControlIsARegister` (refinement of `ModeRegister`), `OnlyFailuresRepeat`, `StatsCatchUp` (liveness) | 0.79 M |
| `xdp_program` | two CPUs, four packets to three destinations, a map of two, two windows | `TypeOK`, `AlertsAreBacked`, `OneAlertPerWindow`, `ExactWithoutRaces`, `EveryPacketIsCounted`, `LoadIsSampled` | 0.53 M |
| `event_hub` | three lines of xdp-hello and three of others (a run, an impossible one, no event), channels of two lines, a dashboard that reads and one that need not, a break or restart | `StreamPromise` (refinement of `EventStream`), `XdpLinesInOrder`, `DashboardsCatchUp` (liveness) | 0.31 M |
| `run_readings` | runs of a second at four rates, windows of up to 22 probes, every choice of CPU counters that move by one | `PercentileIsNearestRank`, `MaintainedMeansServed`, `SlowSenderIsNoticed`, `CpuBusyIsAShareOfTime`, `RunnerRunsAreValid` | 14 k |

The bounds and why they are enough:

* `PpsSteps`: with two rates and two repetitions every kind of successor of a
  position occurs: next drop point, next rate up and down, next repetition, end.
  With two launches the first asks for the second rate while the second launch
  is at the first, which is what makes `StartedAtAnotherRate` happen, and a load
  left by a crash have a rate of its own. One rate is enough for `runner_late_start`.
* What a crash leaves (table, mode, load) needs two launches: `runner_relaunch` has
  the properties that a second launch could break, its first condition included.
* `MaxLaunches = 2`: the third launch meets nothing the second does not: the
  runner distinguishes its own requests from earlier ones and no more.
* `MaxFaults`, `MaxOutages`, `MaxBreaks = 1`: one fault at any moment. The
  proofs of section 6 hold for every number of the first and the third.
* `MaxChecks` and `U64Max = 1`: what matters of a count is whether there is a
  probe at all; a foreign one would be the first after a reset.
* `MaxCommands = 2` with two clients, and a line at the console: two starts or a
  start and a stop overlap in every way around one probe and one burst. The
  measurement runs have three commands per measurement, 6 for two.
* `HttpTimeout = 3`, `HealthDrain = 4` (half seconds): the defaults.
  `DrainCollectsProbes` needs the drain to be longer than a probe. With
  `--http-timeout-ms` above 2000 it fails, since `HEALTH_DRAIN_TIME` is fixed: set
  `HttpTimeout = 5` in `MeasurementTimes.cfg` to see it.
* `xdp_hello`: two commands of two clients overlap in every way; two packets, one on
  each CPU or both on one, of which `protect` may let one through. What a third
  command does is settled by the proofs of section 6, for every number of them.
* `MaxMisread = 2` there: two failures in one round or in two, of one counter or of
  both, or one beside a command. The constraint `TwoIncidents` leaves out failures
  beside two commands: what the ticker reads is nothing to the commands.
* `TicksPerSecond = 2` in `node_commands`: rate 1 carries a remainder over, rate 2
  does not. `measurement_times` and `load_reports` have the code's 100.
* `MaxEmitted = 2` there: a burst of one after a burst of one, under one rate or two.
* `xdp_program`: four packets and a map of two are the least under which an element
  is replaced, given to another destination and counted into by a CPU that still
  holds it; `Window = 1` and `MaxTime = 1` let a window expire once, and a `now_ns`
  be older than a window. Without its condition `~replaced` `ExactWithoutRaces` is
  violated with these bounds, and `AlertsAreBacked` with a fifth packet and
  `Threshold = 2`.
* `event_hub`: four lines at most reach the hub's channel of two, so that a
  client can be passed over twice.
* `run_readings`: `Samples = 22` covers each way the rank
  of the 95th percentile is rounded, and 20 values, where it is not.
* `CHECK_DEADLOCK FALSE` wherever the system may stop: a runner that exited, a node that quit and
  a bounded number of commands really stop.

Each property of a passing run has a mutant of the code, a plausible mistake next
to the definition it changes (`...Unanswered`, `...KeepsTable`, `...RecordsAll`,
`AcceptsAny` and so on), under which the same run finds it violated.

Runs that show a disagreement, each with one property: `runner_late_start`,
`measurement_late_probe`, `measurement_early_packet`
(section 7).

## 5. Fairness

* `ExperimentRunner`: weak fairness of `RunnerStep`, the runner's own task.
  tokio runs a ready task, every sleep ends and every call has a timeout.
  Nothing is assumed of the servers, the network or the operator, so that
  `RunnerEnds` holds against servers that never answer.
* `LoadReports`: weak fairness of the tasks of traffic-node and of the hub's
  ingestion. The hub need not come back: `HubLearnsLoad` is about behaviours in
  which it stays up in the end, `HubIsNotNeeded` about all. `ReportTick` has strong fairness:
  `select!` polls its branches in random order and a tick that is due stays due,
  so that a worker that comes back to its `select!` again and again takes the
  report tick at some time.
* `EventHub`: weak fairness of the servers' tasks, of the hub's ingestion and of
  the clients that reconnect in a loop, and of the reading of attentive dashboards
  alone.
* `XdpHello`: weak fairness of the ticker, and of nothing else. Its lookups may fail,
  though not for ever: `StatsCatchUp` counts on `MaxMisread`.
* `Measurement` and `XdpProgram` have none: their properties are of safety.

## 6. Proofs

Every safety property of the passing runs and every refinement is proved, for every
value of the constants that the modules' assumptions admit:

| Module | Theorem | Statement |
|---|---|---|
| `ExperimentRunnerProofs` | `TypeCorrect` | `Spec => []TypeOK` |
| | `DropPointHolds` | `Spec => []MeasuredUnderItsDropPoint` |
| | `CleanupCorrect` | `Spec => []CleanupHolds` |
| | `QuietCorrect` | `Spec => []QuietWhileConfiguring` |
| | `LoadCorrect` | `Spec => []LoadIsItsOwn` |
| | `WindowCorrect` | `Spec => []PublishedWindowIsItsOwn` |
| | `RestCorrect` | `Spec => PublishesAtRest` |
| | `OneRunCorrect` | `Spec => []OneRunPerCondition` |
| | `SweepImplemented` | `Spec => SweepPromiseKept`, the refinement of `SweepPromise` |
| `MeasurementProofs` | `NodeTypeCorrect` | `SpecNode => []TypeOKNode` |
| | `StrayProbesCorrect` | `SpecNode => []StrayProbesBounded` |
| | `BurstCorrect` | `SpecNode => []AtMostOneBurstTrails` |
| | `OwnProbesCorrect` | `SpecNode => OwnProbesOnly` |
| | `SwitchImplemented` | `SpecNode => LoadIsASwitch`, the refinement of `LoadSwitch` |
| | `RunAddsUpCorrect` | `Spec => []RunAddsUp` |
| | `DrainCorrect` | `HttpTimeout < HealthDrain` implies `Spec => []DrainCollectsProbes` |
| `XdpHelloProofs` | `TypeCorrect` | `Spec => []TypeOK` |
| | `ShownModeCorrect` | `Spec => []ShownModeIsApplied` |
| | `ProtectCorrect` | `Spec => []ProtectStopsTheLoad` |
| | `IntervalsCorrect` | `Spec => []OnlyFailuresRepeat` |
| | `RegisterImplemented` | `Spec => ControlIsARegister`, the refinement of `ModeRegister` |
| `XdpProgramProofs` | `ProgramTypeCorrect` | `Spec => []TypeOK` |
| | `AlertsBacked` | `Spec => []AlertsAreBacked` |
| | `OneAlertEach` | `Spec => []OneAlertPerWindow` |
| | `ExactCorrect` | `Spec => []ExactWithoutRaces` |
| | `PacketsCounted` | `Spec => []EveryPacketIsCounted` |
| | `SampledCorrect` | `Spec => []LoadIsSampled` |
| `EventHubProofs` | `XdpOrderCorrect` | `Spec => []XdpLinesInOrder` |
| | `StreamImplemented` | `Spec => StreamPromise`, the refinement of `EventStream` |
| `RunReadingsProofs` | `PercentileCorrect` | `Spec => []PercentileIsNearestRank` |
| | `MaintainedCorrect` | `Spec => []MaintainedMeansServed` |
| | `SlowSenderCorrect` | `Spec => []SlowSenderIsNoticed` |
| | `CpuBusyCorrect` | `Spec => []CpuBusyIsAShareOfTime` |
| | `ValidityCorrect` | `Spec => []RunnerRunsAreValid` |

Each module has an inductive invariant that holds always (`InvAlways`, `RunsInvAlways`,
`NodeInvAlways`, `RunInvAlways`, `FullInvAlways`, `ProgramInvAlways`, `HubInvAlways`), from
which the theorems are read off. TLC has checked these invariants on the bounds of
the runs before they were proved.

### What is assumed

Only what the modules assume of their constants, which TLC evaluates in the runs:

* `Conditions`: `PpsStepsAssumption` (an ascending sequence of rates in 1..100000) and
  `RepetitionsAssumption` (1..65535), what `parse_pps_steps` and `main` let through.
* `ExperimentRunner`: `ServerAssumption` (the servers' start values) and
  `BoundAssumption` (bounds are naturals).
* `TrafficNode`: rates that clients send are at most 100000 (0 stands for the refused
  ones), the default is clamped to 1..100000, there is a tick a second or more.
* `Measurement`: the runner is one of the clients and asks for a rate that is served.
* `XdpHello`, `XdpProgram`: finitely many CPUs and hosts; the start mode is a mode. In
  `XdpProgram` the clock does not come within a window of wrapping, samples are rarer
  than every packet, and `"none"`, the destination of an idle CPU, is no host.
* `ExperimentRun`: the thresholds are in the ranges `main` admits; `RunReadings`: `First`
  and `Readings` are `Readable`, that is counters are naturals and the condition is one
  of the plan.
* `EventHub`: the hub's own client is no dashboard, and what traffic-node and the
  runner send is an `attack_state`, an `experiment_run` or garbage.

`DrainCorrect` alone has a hypothesis of its own. `--http-timeout-ms` has no upper
bound (`src/tools/traffic-node/src/main.rs:446`), while `HEALTH_DRAIN_TIME` is fixed
(`src/tools/experiment-runner/src/main.rs:23`). With the default of 1500 ms the hypothesis holds;
with `HttpTimeout = 5` half seconds TLC shows that without it the property does not.

### ExperimentRunner

None of the properties is inductive. What an acknowledged call has brought about
can only be kept if no request of the same launch is left that could undo it.
`Inv` adds:

* `CallInv`: the awaited call is the one that belongs to `pc`, of this launch,
  and one that is being answered is no longer in the inbox;
* `InboxInv`: while an experiment runs, the only request of this launch in the
  inbox is the awaited one. Everything else is from an earlier launch and is
  marked as given up when it is handled. This fails during the cleanups, where an
  interrupted call may be left, and there `CleanInv` needs the marks instead;
* `LoopInv`: a running experiment stands at a position of the plan;
* `DropPointInv`, `CleanInv`, `LoadInv`: the property, and what holds between the
  moment the server applied a call and the moment the runner has its answer;
* `WindowInv`: the same for the window, which travels from traffic-node through
  the status response and `seen` into the published run; on this way it is never
  one of another start of the same launch.

`CleanupHolds` and `LoadIsItsOwn` are about what is there and not only about what was
acknowledged: a load that is still on after an exit was not reported stopped, and its
stop is still under way. So `CleanInv` carries, from cleanup to cleanup, that what is
not undone yet has its call in the inbox.

`OneRunCorrect` and the refinement need that the loops visit no condition twice.
`ConditionsProofs` shows it of the sweep's operators for every list of rates and every number of
repetitions: `rate_order` and `condition_order` are permutations (`RateOrderInjective`,
`RateOrderOnto`, `ConditionOrderPermutes`), two positions have two conditions
(`ConditionInjective`), and what remains at the successor of a position is what remained,
less that position's condition (`RemainingStep`). `RunsInv` then says that what an experiment under
way has not handed over (`Unreported`) is exactly what remains, and nothing once `run_experiment`
returned Ok. In the refinement, which maps `todo` to `Unreported`, `Publish` is the
abstract report, launching and exiting are its beginning and end, giving up is its failure; and
every other step changes the drop rule or stutters. A runner that went on after a failed
`publish_run` would come to an end with success and something left to do.

### TrafficNode and Measurement

`NodeInv` follows what a task read through to where it uses it:

* `StrayInv`: a health worker that read `attack_active` as set, while it is clear by
  now, belongs to a stop that the window has counted and no stray probe has used up, or to
  a window that has been reset since. This is the slack of one probe per stop;
* `GenerationInv`: the generation it read is not later than the window's;
* `RateInv` and `BurstInv`: `attack_pps` is a rate somebody asked for, and what was sent
  since the stop and what is left of the burst are together one burst at most. That
  `(remainder + pps) / TICKS_PER_SECOND` is bounded whatever the remainder is `BurstBound`,
  from the lemmas on division in `NumberLemmas`.

`RunInv` takes `NodeInv` over, since each step of `Measurement` is one of `TrafficNode` or leaves
its variables alone (`NodeSteps`), and adds `CallInv` (where the runner's connection may be in each
phase), `QuietInv` (from when on the load and its last burst are over), `CountInv` (packets
received and in the network are no more than those sent in this measurement) and `DrainInv` (a
probe that began under the load is at least as old as the drain is long).

The refinement of `LoadSwitch` maps the store of `attack_active` (for a status, its load) to the
moment a command takes effect, the load of `packets_sent` to that of its answer's counter, and
what a burst has left to the abstract burst. `CommandInv` says where a task may be with which command,
so that a start that gets to the store is one with a valid rate. What `LoadSwitch`
leaves out is what does not change at that moment: `attack_pps` and the window are stored before, one
after the other, and two starts that overlap may leave the rate of one with the window of the
other. `ExperimentRunner`, where a start is one step, does not have these; a runner meets them only
when a start that an earlier launch gave up comes to life during its own.

### XdpHello

`SerialInv`: as long as commands do not overlap, at most one is between the map and its
answer, it is the one that wrote the map, and an announcement that is due finds
`currentMode` right. The refinement maps `SetMap` to the moment the register takes the
value; the steps after it are stutters. `LeakInv`: a CPU that has let a packet through
under `protect` is not at another that would pass.

`ReportInv` is about the ticker, which sums counters that go on growing. `before` is the sum of
the values an earlier round read and `now` that of those read in this one; a CPU's new value
is no less than its old one, and no more than its counter is by now. So no total is
smaller than the one before, and the saturating subtraction loses nothing. A lookup
that fails breaks this for one round; the round after it repeats no more than the counter
itself, and that is what a misreading adds to the bound. The sum is
a fold of the community modules over a finite set. That its recursion has a solution,
and what a sum does when a value grows, is proved first, in `NumberLemmas` (`SumExists`,
`SumsGrow`, `SumsDiffer`, `SumAdds`).

### XdpProgram

`ProgramInv` has one part per question. `HoldInv`: what a CPU holds points to the
element of its destination, or that element was replaced. `AlertInv`: the alerts a CPU raised or
is about to raise, and the CPUs that hold a pointer with which they may still alert, are no more than
windows begun, which is where the CPUs' races on `warned` are bounded. `CountInv`: what a window or
a CPU's local says is no more than the packets observed, until an element is replaced; what a CPU
has stored or reads again is between 1 and that number, and once it has compared, as many packets as
the threshold have come. `ExactInv`: of a host that no two CPUs detected at
once, the window is the ghost `exact`, less the step its one CPU is at; that is why a rate below
the threshold takes a race. `EveryPacketIsCounted` is
inductive: it is an equation of two sums (`TotalsAgree`), of which a step changes one term each.
The sampling part relates `sampled` to the quotient of a counter.

### EventHub

`HubInv`: what a socket holds was taken from the channel in order (`WireInv`); what lies between
a dashboard and its task's cursor is in the socket or overwritten (`ShownInv`);
what xdp-hello has published came before whatever the link may still bring
(`LinkInv`), through breaks and restarts, since a link that comes back subscribes at the end. In the
refinement `Show` is the abstract step, accepting a dashboard is joining, publishing a
valid line is publishing, and forwarding, lagging and breaking are stutters.

### RunReadings

Nothing here is inductive: a reading is `Readable` in every state (`ReadableAlways`), and the rest is about
what the functions of `ExperimentRun` return for one. TLC evaluates them for 14 thousand
readings; the theorems hold for all, for windows of any length and counters of any size.

* `PercentileCorrect`, `MaintainedCorrect`: the value at a position of the sorted window is the one
  that as many precede. That no two values get the same position is seen directly; that each
  position is taken (`PositionsAreTaken`) follows by counting. A position reaches 95% of
  the window exactly if it is not below the rank that the code computes in integers, `(95 * n + 99) / 100`
  (`RankReaches`), so the value there is the least that 95% do not exceed (`PercentileRank`).
* `SlowSenderCorrect`: what the ticks send, with the remainder carried from one to the next, is
  `ticks * pps` divided once (`PacedIs`, from `BurstCarries` for one tick). The rest is
  arithmetic with this quotient.
* `CpuBusyCorrect`: sums of the eight fields subtract and split (`SumAdds`, `SumCoversTwo`), so that
  none of the saturating subtractions saturates.
* `ValidityCorrect`: each check of `validate` but the three that are named is met by what
  `run_condition` puts together; most of them because the saturating subtractions
  and `cpu_busy_percent` stay in their ranges even for counters that run backwards.

### Induction

Induction needs a theorem with an operator as a parameter, which cannot be
instantiated. Where a property of every number or every finite set is needed,
`NumberLemmas` has the least number (`LeastElement`) and the smallest set (`SmallestSet`) of those
that lack it, and the proof shows that there is none.

### Model-checked only

* Liveness (`RunnerEnds`, `HubLearnsLoad`, `HubIsNotNeeded`, `StatsCatchUp`,
  `DashboardsCatchUp`): out of the prover's reach, and with them all of `LoadReports`.
* The runs that show a disagreement (section 7) are counterexamples.

## 7. Disagreements with the documentation

* **The cleanup's stop is not final** (`runner_late_start`). A start call that
  the runner gave up can be handled after the cleanup's acknowledged stop. The
  load then stays on with no runner left. `src/docs/EXPERIMENT_PROTOCOL.md:153`
  says traffic-node is put back to stop. What does hold is `CleanupHolds`.
* **A probe begun after the stop may be recorded** (`measurement_late_probe`).
  The health worker reads `attack_active` before the probe begins. A comment of
  the runner (line 310) and step 7 of the protocol exclude such probes. What does
  hold is `StrayProbesBounded`: at most one per stop.
* **A run may receive more than it sent** (`measurement_early_packet`). A start
  switches the load on before it reads the counter it answers with. Packets
  counted in between are missing in `packets_sent`, and if all are received the
  run is refused by `validate`.

Three sentences of the documents are worth a remark, although no run is about
them. `src/docs/EXPERIMENT_PROTOCOL.md:142` says that TCP of the project's own ports is
not observed, but `is_control_plane_flow` looks at the destination port alone, so
that their answers are. The comment of `FlowEvent::rate` calls it the packets of
one second; a CPU that was held up between loading the count and storing it can
bring the count of an older window into a new one, and where the build reads the count
again for the alert (283), another CPU may have begun the window anew and the rate be one
below the threshold. That needs two CPUs at one host at the same time (`AlertsAreBacked`). `ATTACK_FLOW_SAMPLE_EVERY` says one
load packet in 64; it is one value in 64 of a CPU's counter, which in monitor mode
counts flows as well (`LoadIsSampled`).

## 8. Not modelled

* Bytes: packet headers, JSON, `/proc` files and HTTP; what is read from them is an
  input, and that reading fails where it can.
* The softirq counter, the run's environment and the percentages that are only
  displayed: numbers nothing depends on.
* Attaching the eBPF program, and the reader of its ring buffer beyond the lines it
  sends. The check of the load's target address at startup.
* Half-open connections: a connection that breaks is noticed at both ends. The
  hub's client of xdp-hello has no timeout and would wait on a dead one.
* Reorderings of relaxed atomics beyond their interleavings.
* The width of counters, times and latencies in `ExperimentRun` and of `packets_sent`: they
  are naturals, since no `u64` of them fills up. Their `saturating_add`s do not saturate; the
  `saturating_sub`s are in the model.
* What becomes of a run between `publish_run` and the hub: that it is read late or lost is
  in `EventHub`, for any line, and not in `ExperimentRunner`.
* A silent hub during a measurement: `LoadReports` has it, `Measurement` takes
  publications to end.
* Shell scripts: their effect, programs stopped or restarted at any time, is in
  the models.
* The dashboard's drawing, and shelfpdf.

## 9. Plan

Done, in this order: `Conditions`, `SweepPromise`, `ExperimentRunner` with its
proofs, `TrafficNode`, `LoadReports`, `Measurement`, `ModeRegister`, `XdpHello`
with its proofs, `XdpProgram`, `ExperimentRun`, `RunReadings`, `EventStream`, `EventHub`; then the
proofs about `TrafficNode`, `Measurement`, `XdpProgram`, `EventHub`, the ticker of `XdpHello`, and
the refinements of `SweepPromise` and `EventStream`; then those about `RunReadings`, and
`LoadSwitch` with its refinement. Left:

1. Starts in `ExperimentRunner` that store the rate, the window and the load one by one, so that
   a late start may overlap with the runner's own.
2. A silent hub during a measurement (`LoadReports` has it, `Measurement` does not).
