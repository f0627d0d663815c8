----------------------------- MODULE MCEventHub -----------------------------
(* EventHub for TLC: what is sent to the hub are a run, a run that does not  *)
(* add up, and something else.                                               *)
EXTENDS EventHub

OneRate == <<500>>

RunLine(received) ==
    LET zero == [i \in 1..8 |-> 0]
    IN  [type |-> "experiment_run",
         run |-> RunOf([condition |-> [repetition |-> 1, pps |-> 500,
                                       dropPoint |-> "xdp"],
                        milliseconds |-> 4,
                        sent |-> <<7, 9>>, received |-> <<3, 3 + received>>,
                        cpu |-> <<zero, [zero EXCEPT ![1] = 1, ![4] = 9]>>,
                        answer |-> "native",
                        probes |-> <<[success |-> TRUE, latency |-> 20]>>])]

CONSTANTS reader, stalled

Lines == {RunLine(0), RunLine(3), [type |-> "garbage"]}
=============================================================================
