---------------------------- MODULE ExperimentRun ----------------------------
(* The numbers of a run: traffic-node's summary of its health window         *)
(* (tools/traffic-node/src/main.rs), what run_condition makes of it and of   *)
(* its own counters (tools/experiment-runner/src/main.rs), and when          *)
(* observation-core takes the result for a run (experiment.rs). Percentages  *)
(* are f32 in the code; here they are whole or are not divided at all.       *)
EXTENDS Conditions, FiniteSets, FiniteSetsExt, Functions

CONSTANTS MinSuccessPercent,   \* --service-min-success-percent
          MaxP95,              \* --service-max-p95-ms
          MinLoadDelivery,     \* --min-load-delivery-percent
          TicksPerSecond       \* TICKS_PER_SECOND of traffic-node

(* What main() wants of its options. *)
ASSUME ThresholdAssumption ==
    /\ MinSuccessPercent \in 0..100 /\ MaxP95 \in Nat \ {0}
    /\ MinLoadDelivery \in 1..100 /\ TicksPerSecond \in Nat \ {0}

Monus(a, b) == IF a > b THEN a - b ELSE 0
-----------------------------------------------------------------------------
(* The health window: a sequence of [success, latency]. *)

(* The values in ascending order, equal ones in the order they have.         *)
Sorted(values) ==
    LET Precede(i) == {j \in DOMAIN values :
                          \/ values[j] < values[i]
                          \/ values[j] = values[i] /\ j <= i}
    IN  [n \in DOMAIN values |->
            values[CHOOSE i \in DOMAIN values : Cardinality(Precede(i)) = n]]

(* Mutant of Percentile: the rank is rounded down. *)
PercentileRoundsDown(values, percent) ==
    IF values = <<>> THEN 0
    ELSE LET sorted == Sorted(values)
             rank == (percent * Len(values)) \div 100
         IN  sorted[Min({Monus(rank, 1), Len(values) - 1}) + 1]

Percentile(values, percent) ==
    IF values = <<>> THEN 0
    ELSE LET sorted == Sorted(values)
             rank == (percent * Len(values) + 99) \div 100
         IN  sorted[Min({Monus(rank, 1), Len(values) - 1}) + 1]

(* HealthWindow::summary: a probe that failed, or was given up after its     *)
(* timeout, has a latency all the same.                                      *)
Summary(probes) ==
    LET latencies == [i \in DOMAIN probes |-> probes[i].latency]
    IN  [checks |-> Len(probes),
         successes |-> Cardinality({i \in DOMAIN probes : probes[i].success}),
         p95 |-> Percentile(latencies, 95),
         max |-> Max({0} \cup Range(latencies))]

ServiceMaintained(health) ==
    /\ health.checks > 0
    /\ health.successes * 100 >= MinSuccessPercent * health.checks
    /\ health.p95 <= MaxP95
-----------------------------------------------------------------------------
(* The load. What a tick of the attack worker sends, and what it carries     *)
(* over to the next one.                                                     *)

(* Mutant of Burst: nothing is carried over. *)
BurstForgetsRest(carried, pps) ==
    [packets |-> (carried + pps) \div TicksPerSecond, carried |-> 0]

Burst(carried, pps) ==
    [packets |-> (carried + pps) \div TicksPerSecond,
     carried |-> (carried + pps) % TicksPerSecond]

(* What a load that has just begun sends in so many ticks. *)
Paced(pps, ticks) ==
    LET after[n \in 0..ticks] ==
            IF n = 0 THEN [sent |-> 0, carried |-> 0]
            ELSE LET last == after[n - 1]
                     burst == Burst(last.carried, pps)
                 IN  [sent |-> last.sent + burst.packets,
                      carried |-> burst.carried]
    IN  after[ticks].sent
-----------------------------------------------------------------------------
(* The CPU counters of /proc/stat, as its first line gives them: user, nice, *)
(* system, idle, iowait, irq, softirq, steal, guest, guest_nice.             *)

(* Mutant of CpuSnapshot: guest time is added to the user time it is in.     *)
CpuSnapshotWithGuests(fields) ==
    [total |-> MapThenSumSet(LAMBDA i : fields[i], DOMAIN fields),
     idle |-> fields[4] + fields[5]]

CpuSnapshot(fields) ==
    [total |-> MapThenSumSet(LAMBDA i : fields[i], 1..Min({8, Len(fields)})),
     idle |-> fields[4] + fields[5]]

CpuBusyPercent(before, after) ==
    LET total == Monus(after.total, before.total)
        busy == Monus(total, Monus(after.idle, before.idle))
    IN  IF total = 0 THEN 0 ELSE (busy * 100) \div total
-----------------------------------------------------------------------------
(* ExperimentRun *)

AttachModes == {"native", "generic", "not_used", "unknown"}

(* set_xdp_mode: the condition's mode is protect for the XDP condition only, *)
(* and then xdp-hello's answer says how it is attached.                      *)
AttachMode(dropPoint, answer) ==
    CASE dropPoint # "xdp" -> "not_used"
      [] dropPoint = "xdp" /\ answer \in {"native", "generic"} -> answer
      [] OTHER -> "unknown"

(* The run that run_condition returns of a condition and what it has read.   *)
RunOf(read) ==
    [repetition |-> read.condition.repetition,
     dropPoint |-> read.condition.dropPoint,
     targetPps |-> read.condition.pps,
     milliseconds |-> read.milliseconds,
     sent |-> Monus(read.sent[2], read.sent[1]),
     received |-> Monus(read.received[2], read.received[1]),
     cpuBusy |-> CpuBusyPercent(CpuSnapshot(read.cpu[1]),
                                CpuSnapshot(read.cpu[2])),
     attachMode |-> AttachMode(read.condition.dropPoint, read.answer),
     health |-> Summary(read.probes)]

(* load_rate_achieved, without its divisions. *)
LoadAchieved(run) ==
    run.sent * 1000 * 100
        >= MinLoadDelivery * run.targetPps * run.milliseconds

HealthIsValid(health) ==
    /\ health.checks > 0
    /\ health.successes <= health.checks
    /\ health.p95 <= health.max

SweepIsValid(run) ==
    /\ ValidPpsSteps(PpsSteps)
    /\ run.targetPps \in Range(PpsSteps)
    /\ run.repetition <= Repetitions

(* Mutant of IsValid: the attach mode is not looked at. *)
IsValidHoweverAttached(run) ==
    /\ run.repetition > 0 /\ run.targetPps > 0
    /\ run.cpuBusy \in 0..100
    /\ run.received <= run.sent
    /\ HealthIsValid(run.health)
    /\ SweepIsValid(run)

(* ExperimentRun::validate. Its texts, its duration and its payload are      *)
(* never empty: main() and traffic-node see to that.                         *)
IsValid(run) ==
    /\ run.repetition > 0 /\ run.targetPps > 0
    /\ run.cpuBusy \in 0..100
    /\ run.received <= run.sent
    /\ run.dropPoint = "xdp" => run.attachMode \notin {"not_used", "unknown"}
    /\ HealthIsValid(run.health)
    /\ SweepIsValid(run)
=============================================================================
