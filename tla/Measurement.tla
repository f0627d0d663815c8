----------------------------- MODULE Measurement -----------------------------
(* run_condition of the experiment runner against a real traffic-node: what  *)
(* one measurement adds up, when nothing fails. The runner calls start, lets *)
(* the load run, calls stop, waits HEALTH_DRAIN_TIME, calls status, waits    *)
(* UDP_DRAIN_TIME and subtracts; the packets it subtracts travel from the    *)
(* attack worker's socket to the runner's UDP sink, or are dropped on the    *)
(* way.                                                                      *)
(*                                                                           *)
(* Time passes in units of half a second. A sleep is over after so many      *)
(* units or later, a probe ends within HttpTimeout of them. What the         *)
(* programs do without waiting takes no time: a unit passes only when every  *)
(* task waits for a tick, a timer, a probe or the hub, and the network is    *)
(* empty.                                                                    *)
EXTENDS TrafficNode

CONSTANTS Runner,        \* the runner's connection, one per call
          TargetPps,     \* the rate it asks for
          HttpTimeout,   \* --http-timeout-ms of traffic-node
          HealthDrain,   \* HEALTH_DRAIN_TIME
          MaxRounds      \* bound: measurements in a row

ASSUME MeasurementAssumption ==
    /\ Runner \in Conns /\ TargetPps \in Rates \cap 1..MaxPps
    /\ HttpTimeout \in Nat \ {0} /\ HealthDrain \in Nat \ {0}
    /\ MaxRounds \in Nat

VARIABLES
    phase,          \* where run_condition is
    before,         \* traffic_before.packets_sent
    after,          \* traffic_after.packets_sent
    received,       \* the sink's counter
    appBefore,      \* app_before
    inNetwork,      \* packets between the socket and the sink
    waited,         \* units of the sleep in progress
    age,            \* units of the probe in progress
    round,          \* which measurement this is
    emittedBefore   \* ghost: `emitted' when the measurement began

runVars == <<phase, before, after, appBefore, round, emittedBefore>>
timeVars == <<waited, age>>
vars == <<nodeVars, phase, before, after, received, appBefore, inNetwork,
          waited, age, round, emittedBefore>>
-----------------------------------------------------------------------------
Init ==
    /\ InitNode
    /\ phase = "ready" /\ before = 0 /\ after = 0
    /\ received = 0 /\ appBefore = 0 /\ inNetwork = 0
    /\ waited = 0 /\ age = 0
    /\ round = 1 /\ emittedBefore = 0

Call(cmd) ==
    \E req \in Commands :
        /\ req.cmd = cmd
        /\ cmd = "start" => req.pps = TargetPps /\ req.reset
        /\ Receive(Runner, req)

Answered == conn[Runner].pc = "answered"

(* Mutant of StartLoad: the sink's counter is not read again. *)
StartLoadKeepsCounter ==
    /\ phase = "ready"
    /\ Call("start")
    /\ emittedBefore' = emitted
    /\ phase' = "starting"
    /\ UNCHANGED <<before, after, appBefore, round, received, inNetwork,
                   timeVars>>

(* The counters are read and the load is started. *)
StartLoad ==
    /\ phase = "ready"
    /\ Call("start")
    /\ appBefore' = received
    /\ emittedBefore' = emitted
    /\ phase' = "starting"
    /\ UNCHANGED <<before, after, round, received, inNetwork, timeVars>>

LoadStarted ==
    /\ phase = "starting" /\ Answered
    /\ before' = conn[Runner].total
    /\ Close(Runner)
    /\ phase' = "measuring" /\ waited' = 0
    /\ UNCHANGED <<after, appBefore, round, emittedBefore, received,
                   inNetwork, age>>

StopLoad ==
    /\ phase = "measuring" /\ waited > 0
    /\ Call("stop")
    /\ phase' = "stopping"
    /\ UNCHANGED <<before, after, appBefore, round, emittedBefore, received,
                   inNetwork, timeVars>>

LoadStopped ==
    /\ phase = "stopping" /\ Answered
    /\ Close(Runner)
    /\ phase' = "draining" /\ waited' = 0
    /\ UNCHANGED <<before, after, appBefore, round, emittedBefore, received,
                   inNetwork, age>>

(* Mutant of QueryStatus: no HEALTH_DRAIN_TIME. *)
QueryStatusAtOnce ==
    /\ phase = "draining"
    /\ Call("status")
    /\ phase' = "querying"
    /\ UNCHANGED <<before, after, appBefore, round, emittedBefore, received,
                   inNetwork, timeVars>>

QueryStatus ==
    /\ phase = "draining" /\ waited >= HealthDrain
    /\ Call("status")
    /\ phase' = "querying"
    /\ UNCHANGED <<before, after, appBefore, round, emittedBefore, received,
                   inNetwork, timeVars>>

StatusReceived ==
    /\ phase = "querying" /\ Answered
    /\ after' = conn[Runner].total
    /\ Close(Runner)
    /\ phase' = "udp_drain"
    /\ UNCHANGED <<before, appBefore, round, emittedBefore, received,
                   inNetwork, timeVars>>

(* UDP_DRAIN_TIME, less than a unit, has passed: the network has delivered,  *)
(* the run is complete.                                                      *)
Complete ==
    /\ phase = "udp_drain" /\ inNetwork = 0
    /\ phase' = "complete"
    /\ UNCHANGED <<nodeVars, before, after, appBefore, round, emittedBefore,
                   received, inNetwork, timeVars>>

NextRound ==
    /\ phase = "complete" /\ round < MaxRounds
    /\ phase' = "ready" /\ round' = round + 1
    /\ before' = 0 /\ after' = 0 /\ appBefore' = 0 /\ emittedBefore' = 0
    /\ UNCHANGED <<nodeVars, received, inNetwork, timeVars>>

-----------------------------------------------------------------------------
(* The network and the sink *)

Deliver ==
    /\ inNetwork > 0
    /\ inNetwork' = inNetwork - 1
    /\ received' = received + 1
    /\ UNCHANGED <<nodeVars, runVars, timeVars>>

(* A full buffer or the drop point. *)
Drop ==
    /\ inNetwork > 0
    /\ inNetwork' = inNetwork - 1
    /\ UNCHANGED <<nodeVars, runVars, timeVars, received>>

-----------------------------------------------------------------------------
(* The steps of traffic-node, as far as they have a part in this *)

Probe ==
    /\ HealthProbe
    /\ age' = 0
    /\ UNCHANGED <<runVars, received, inNetwork, waited>>

Send ==
    /\ SendPacket
    /\ inNetwork' = inNetwork + 1
    /\ UNCHANGED <<runVars, received, timeVars>>

OtherNodeStep ==
    /\ \/ HealthTick \/ HealthGeneration \/ HealthRecord
       \/ SendTick \/ SendTickIdle \/ CountPacket \/ SendFails
       \/ ReportTick \/ Report
       \/ \E c \in Conns : Serve(c)
    /\ UNCHANGED <<runVars, received, inNetwork, timeVars>>

(* Half a second during which every task waits. *)
Clock ==
    /\ health.pc \in {"tick", "probing"}
    /\ health.pc = "probing" => age < HttpTimeout
    /\ attack.pc \in {"select", "reporting"}
    /\ conn[Runner].pc \in {"idle", "publish"}
    /\ inNetwork = 0
    /\ waited' = IF waited < HealthDrain THEN waited + 1 ELSE waited
    /\ age' = IF health.pc = "probing" THEN age + 1 ELSE 0
    /\ UNCHANGED <<nodeVars, runVars, received, inNetwork>>

RunStep ==
    \/ StartLoad \/ LoadStarted \/ StopLoad \/ LoadStopped \/ QueryStatus
    \/ StatusReceived \/ Complete \/ NextRound

Next ==
    \/ RunStep \/ Deliver \/ Drop \/ Probe \/ Send \/ OtherNodeStep \/ Clock

Spec == Init /\ [][Next]_vars
-----------------------------------------------------------------------------
(* Properties *)

(* experiment-runner/src/main.rs: HEALTH_DRAIN_TIME lets a probe that began  *)
(* under the load reach the window before the window is read, even one that  *)
(* runs into its timeout.                                                    *)
BegunUnderLoad ==
    /\ health.pc = "probing" /\ health.recording
    /\ health.begun = [generation |-> window.generation, phase |-> "under"]

DrainCollectsProbes == phase \in {"udp_drain", "complete"} => ~BegunUnderLoad

(* The difference of the two packets_sent ends where the load does: the      *)
(* status response counts every packet of the measurement, those of the      *)
(* burst the stop came into included, and the sink has none of another one.  *)
RunAddsUp ==
    phase = "complete" =>
        /\ after = emitted
        /\ received - appBefore <= emitted - emittedBefore

(* experiment-runner/src/main.rs: traffic-node does not record a probe that  *)
(* began after the stop.                                                     *)
LateProbesExcluded == phase \in {"udp_drain", "complete"} => window.late = 0

(* observation-core/src/experiment.rs, ExperimentRun::validate: a run that   *)
(* received more than it sent is no run of a working system.                 *)
SentCoversReceived ==
    phase = "complete" => received - appBefore <= after - before
=============================================================================
