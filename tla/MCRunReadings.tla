---------------------------- MODULE MCRunReadings ----------------------------
(* RunReadings for TLC: rates that 100 ticks a second divide, and do not. A  *)
(* reading differs from a run in which all is well in the inputs of one      *)
(* function of ExperimentRun at a time.                                      *)
EXTENDS RunReadings

CONSTANT Samples    \* bound: probes in a window

FourRates == <<7, 99, 150, 500>>

Zero == [i \in 1..10 |-> 0]

AllWell(condition) ==
    [condition |-> condition, milliseconds |-> 1000, ticks |-> TicksPerSecond,
     sent |-> <<0, Paced(condition.pps, TicksPerSecond)>>,
     received |-> <<0, 0>>,
     cpu |-> <<Zero, [Zero EXCEPT ![4] = 1]>>,
     answer |-> "native",
     probes |-> <<[success |-> TRUE, latency |-> MaxP95]>>]

FirstWell == AllWell(ConditionAt(FirstPosition))

(* Windows in which some probes fail and some are slow, and windows of       *)
(* latencies in no order.                                                    *)
Windows ==
    UNION {{[i \in 1..n |-> [success |-> i > failed,
                             latency |-> IF i <= slow THEN MaxP95 + 1
                                                      ELSE MaxP95]]
                : failed \in 0..n, slow \in 0..n} : n \in 0..Samples}
    \cup {[i \in 1..n |-> [success |-> TRUE, latency |-> (i * step) % base]]
              : n \in 1..Samples, step \in {1, 7}, base \in {2, 23}}

(* Ticks that were served in the second the run lasts. *)
Loads ==
    {[AllWell(condition) EXCEPT !.ticks = n,
                                !.sent = <<0, Paced(condition.pps, n)>>]
        : condition \in Plan, n \in 1..TicksPerSecond}

(* Guest time is part of user and nice. *)
Jiffies ==
    {spent \in [1..10 -> 0..1] : spent[1] >= spent[9] /\ spent[2] >= spent[10]}

(* Counters, some of which run backwards, a window that may be empty, and an *)
(* answer that may lack the attach mode.                                     *)
Counters ==
    {[AllWell(condition) EXCEPT !.sent = s, !.received = r, !.answer = answer,
                                !.cpu = <<[Zero EXCEPT ![4] = 1], after>>,
                                !.probes = probes]
        : condition \in Plan, s \in [1..2 -> 0..1], r \in [1..2 -> 0..2],
          after \in {[Zero EXCEPT ![1] = 1, ![4] = idle] : idle \in 0..2},
          answer \in {"native", "generic", "absent"},
          probes \in {<<>>, <<[success |-> FALSE, latency |-> 1500]>>}}

SomeReadings ==
    {[FirstWell EXCEPT !.probes = window] : window \in Windows}
    \cup {[FirstWell EXCEPT !.cpu = <<Zero, spent>>] : spent \in Jiffies}
    \cup Loads \cup Counters
=============================================================================
