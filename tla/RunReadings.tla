----------------------------- MODULE RunReadings -----------------------------
(* The functions of ExperimentRun over what run_condition may read of the    *)
(* counters, of traffic-node and of xdp-hello.                               *)
EXTENDS ExperimentRun

Probes == [success : BOOLEAN, latency : Nat]

(* What run_condition may read: any counters, whether or not they grew, any  *)
(* window of probes, and an answer with or without an attach mode. Besides,  *)
(* the ticks at which traffic-node sent while the condition lasted.          *)
Readable ==
    [condition : Plan, milliseconds : Nat, ticks : Nat,
     sent : [1..2 -> Nat], received : [1..2 -> Nat],
     cpu : [1..2 -> [1..10 -> Nat]],
     answer : {"native", "generic", "absent"}, probes : Seq(Probes)]

CONSTANTS First,       \* a reading to start from
          Readings     \* bound: the readings of a run

ASSUME ReadingsAssumption == First \in Readable /\ Readings \subseteq Readable

VARIABLE read    \* what run_condition has read

Init == read = First

RunCondition == read = First /\ read' \in Readings

Spec == Init /\ [][RunCondition]_read
-----------------------------------------------------------------------------
(* Properties *)

(* The 95th percentile is the least of the latencies that 95% of them do not *)
(* exceed: not the one before it, whose service would look better, and not   *)
(* the maximum, which a single slow probe would set.                         *)
PercentileIsNearestRank ==
    LET probes == read.probes
        Reaches(latency) ==
            Cardinality({i \in DOMAIN probes : probes[i].latency <= latency})
                * 100 >= 95 * Len(probes)
    IN  probes # <<>> =>
            Summary(probes).p95 =
                Min({probes[i].latency : i \in
                        {j \in DOMAIN probes : Reaches(probes[j].latency)}})

(* A service that counts as maintained answered the required share of its    *)
(* probes, and 95% of them within the limit, timeouts included.              *)
MaintainedMeansServed ==
    LET probes == read.probes
        Share(share, Good(_)) ==
            Cardinality({i \in DOMAIN probes : Good(probes[i])}) * 100
                >= share * Len(probes)
    IN  ServiceMaintained(Summary(probes)) =>
            /\ Share(MinSuccessPercent, LAMBDA probe : probe.success)
            /\ Share(95, LAMBDA probe : probe.latency <= MaxP95)

(* The runner tells a sender that was too slow from a receiver that was:     *)
(* over a second, the load counts as delivered when every tick was served,   *)
(* also at rates the ticks do not divide, and not when more ticks were       *)
(* missed than MinLoadDelivery allows.                                       *)
SlowSenderIsNoticed ==
    /\ read.milliseconds = 1000
    /\ read.sent = <<0, Paced(read.condition.pps, read.ticks)>>
    =>
        /\ LoadAchieved(RunOf(read)) =>
              read.ticks * 100 >= MinLoadDelivery * TicksPerSecond
        /\ read.ticks = TicksPerSecond => LoadAchieved(RunOf(read))

(* CPU busy is the share of the time that was neither idle nor waiting for a *)
(* disk; guest time, which user and nice include, is not counted twice.      *)
CpuBusyIsAShareOfTime ==
    LET spent == [i \in 1..8 |-> read.cpu[2][i] - read.cpu[1][i]]
        all == MapThenSumSet(LAMBDA i : spent[i], 1..8)
    IN  (\A i \in 1..8 : spent[i] >= 0) /\ all > 0 =>
            RunOf(read).cpuBusy =
                ((all - spent[4] - spent[5]) * 100) \div all

(* What the runner measures under a condition of its plan is taken for a run *)
(* exactly when a probe was recorded, no more was received than sent, and    *)
(* for XDP the attach mode is known: whatever else it read, and even if the  *)
(* counters it read ran backwards, the dashboards get the run.               *)
RunnerRunsAreValid ==
    IsValid(RunOf(read)) <=>
        /\ read.probes # <<>>
        /\ Monus(read.received[2], read.received[1])
              <= Monus(read.sent[2], read.sent[1])
        /\ read.condition.dropPoint = "xdp" => read.answer # "absent"
=============================================================================
