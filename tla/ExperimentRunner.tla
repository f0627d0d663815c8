-------------------------- MODULE ExperimentRunner --------------------------
(* The experiment runner on the receiving Pi                                 *)
(* (tools/experiment-runner/src/main.rs) together with everything it steers: *)
(* its own nftables table, the mode of xdp-hello and the load of             *)
(* traffic-node, both through control calls that may time out.               *)
(*                                                                           *)
(* A control call is one TCP connection. The runner gives up on it after     *)
(* CONTROL_TIMEOUT, or when SIGINT drops the future that awaits it, but the  *)
(* request it wrote may still reach its server: it stays in `inbox' until it *)
(* is handled or lost. Time is abstract: a timeout may strike at any moment  *)
(* while a call is awaited, and a sleep ends at any moment.                  *)
(*                                                                           *)
(* The module ends where the runner does: at the line publish_run writes to  *)
(* its connection to the hub. No answer comes back; the hub reads the line   *)
(* later, in a task of its own, or never. What it ingests is some of         *)
(* `published', and when is a question to EventHub.                          *)
EXTENDS Conditions, FiniteSets

CONSTANTS DefaultPps,       \* traffic-node's --attack-pps, clamped
          StartupMode,      \* xdp-hello's --defense-mode
          MaxLaunches,      \* bound: how often an operator starts a runner
          MaxFaults,        \* bound: restarts of a server
          MaxChecks         \* bound: health checks counted in a window

Modes == {"monitor", "protect"}

ASSUME ServerAssumption == DefaultPps \in 1..MaxPps /\ StartupMode \in Modes
ASSUME BoundAssumption == /\ MaxLaunches \in Nat /\ MaxFaults \in Nat
                          /\ MaxChecks \in Nat \ {0}

VARIABLES
    pc,          \* where the runner process is
    launch,      \* which launch of the runner this is
    position,    \* the loop counters of run_experiment
    call,        \* the control call being awaited, or NoRequest
    reply,       \* how far its server got with it, and the response
    sinkFailed,  \* Arc<AtomicBool> set by the UDP sink task
    startedBy,   \* the start call of the measurement in progress
    seen,        \* the health window as the "status" response showed it
    completed,   \* run_experiment returned Ok
    acked,       \* which of the three cleanups succeeded
    nft,         \* does the kernel hold the experiment's drop rule?
    inbox,       \* requests written to a server and not handled yet
    xdp,         \* xdp-hello: defense mode, and who set it
    active,      \* traffic-node: attack_active
    targetPps,   \* traffic-node: attack_pps
    activeBy,    \* who wrote attack_active last
    window,      \* traffic-node: HealthWindow, and the start that reset it
    published,   \* runs whose line was written to the hub's connection
    faults       \* how often each server restarted

runnerVars == <<pc, launch, position, sinkFailed, startedBy, seen, completed,
                acked>>
callVars == <<call, reply>>
trafficVars == <<active, targetPps, activeBy, window>>
vars == <<pc, launch, position, sinkFailed, startedBy, seen, completed, acked,
          call, reply, nft, inbox, xdp, active, targetPps, activeBy, window,
          published, faults>>

-----------------------------------------------------------------------------
(* Requests *)

XdpCommands == Modes
TrafficCommands == {"start", "stop", "status"}
Servers == {"xdp", "traffic"}

(* A request carries, besides what the code writes, where it was issued: the *)
(* launch and the loop position (EndPosition in the cleanup of main).        *)
NoRequest == [launch |-> 0, at |-> EndPosition, cmd |-> "none", pps |-> 0]
Requests == [launch : Nat \ {0}, at : Positions \cup {EndPosition},
             cmd : XdpCommands \cup TrafficCommands, pps : 0..MaxPps]

NoWindow == [owner |-> NoRequest, checks |-> 0]
Reply(stage, pps, w) == [stage |-> stage, pps |-> pps, window |-> w]
NoReply == Reply("none", 0, NoWindow)

(* Whether a value was written at startup, for a caller that was waiting, or *)
(* for one that had given up.                                                *)
Provenance == {"startup", "call", "late"}
WrittenFor(r) == IF r = call THEN "call" ELSE "late"

(* request_json, up to the written line. *)
Send(cmd, pps) ==
    LET r == [launch |-> launch, at |-> position, cmd |-> cmd, pps |-> pps]
    IN  /\ call' = r
        /\ reply' = NoReply
        /\ inbox' = inbox \cup {r}

(* read_line returned a response. *)
Answered == reply.stage = "arrived"

(* The await is over: answered, failed or dropped. *)
HangUp == call' = NoRequest /\ reply' = NoReply

-----------------------------------------------------------------------------
(* The runner *)

Condition == ConditionAt(position)

Awaiting == {"configuring", "starting", "stopping", "querying",
             "clean_xdp", "clean_traffic"}
Running == {"condition", "configuring", "settling", "starting", "measuring",
            "stopping", "draining", "querying", "udp_drain", "publishing"}
Cleaning == {"clean_nft", "clean_xdp", "clean_traffic"}

(* "exited": main() went through its cleanup. "crashed": it ended without.   *)
Off == {"off", "exited", "crashed"}

Cleanups == {"nft", "xdp", "traffic"}

ModeFor(dropPoint) == IF dropPoint = "xdp" THEN "protect" ELSE "monitor"

Init ==
    /\ pc = "off" /\ launch = 0 /\ position = EndPosition
    /\ call = NoRequest /\ reply = NoReply
    /\ sinkFailed = FALSE /\ startedBy = NoRequest /\ seen = NoWindow
    /\ completed = FALSE
    /\ acked = {}
    /\ nft = FALSE
    /\ inbox = {}
    /\ xdp = [mode |-> StartupMode, by |-> "startup"]
    /\ active = FALSE /\ targetPps = DefaultPps /\ activeBy = "startup"
    /\ window = NoWindow
    /\ published = {}
    /\ faults = [s \in Servers |-> 0]

(* main() up to its select!: one runner at a time, since a second one fails  *)
(* to bind the UDP sink. Options rejected before that change nothing.        *)
Launch ==
    /\ pc \in Off
    /\ launch < MaxLaunches
    /\ launch' = launch + 1
    /\ pc' = "condition"
    /\ position' = FirstPosition
    /\ sinkFailed' = FALSE
    /\ startedBy' = NoRequest /\ seen' = NoWindow
    /\ completed' = FALSE
    /\ acked' = {}
    /\ UNCHANGED <<callVars, nft, inbox, xdp, trafficVars, published, faults>>

(* The locals of run_experiment and run_condition are gone. *)
LeaveLoops ==
    /\ position' = EndPosition
    /\ startedBy' = NoRequest
    /\ seen' = NoWindow

(* run_experiment returns Err: main() goes on with its cleanup. *)
Abort ==
    /\ pc' = "clean_nft"
    /\ LeaveLoops
    /\ HangUp
    /\ UNCHANGED <<launch, sinkFailed, completed, acked>>

(* Mutant of BeginCondition: Xdp forgets to remove the table of Netfilter.   *)
BeginConditionKeepsTable ==
    /\ pc = "condition"
    /\ ~sinkFailed
    /\ IF Condition.dropPoint = "application"
       THEN nft' = FALSE
       ELSE UNCHANGED nft
    /\ Send(ModeFor(Condition.dropPoint), 0)
    /\ pc' = "configuring"
    /\ UNCHANGED <<launch, position, sinkFailed, startedBy, seen, completed,
                   acked, xdp, trafficVars, published, faults>>

(* Mutant of BeginCondition: the first condition trusts a clean start.       *)
BeginConditionTrustsStart ==
    /\ pc = "condition"
    /\ ~sinkFailed
    /\ IF Condition.dropPoint = "netfilter" \/ position = FirstPosition
       THEN UNCHANGED nft
       ELSE nft' = FALSE
    /\ Send(ModeFor(Condition.dropPoint), 0)
    /\ pc' = "configuring"
    /\ UNCHANGED <<launch, position, sinkFailed, startedBy, seen, completed,
                   acked, xdp, trafficVars, published, faults>>

(* The beginning of run_condition and of configure_drop_point. *)
BeginCondition ==
    /\ pc = "condition"
    /\ ~sinkFailed
    /\ IF Condition.dropPoint = "netfilter"
       THEN UNCHANGED nft
       ELSE nft' = FALSE
    /\ Send(ModeFor(Condition.dropPoint), 0)
    /\ pc' = "configuring"
    /\ UNCHANGED <<launch, position, sinkFailed, startedBy, seen, completed,
                   acked, xdp, trafficVars, published, faults>>

(* The sink is down, or NftGuard::disable fails. *)
BeginConditionFails ==
    /\ pc = "condition"
    /\ sinkFailed \/ Condition.dropPoint # "netfilter"
    /\ Abort
    /\ UNCHANGED <<nft, inbox, xdp, trafficVars, published, faults>>

(* set_xdp_mode returned; Netfilter now installs its table. *)
Configured ==
    /\ pc = "configuring"
    /\ Answered
    /\ nft' = IF Condition.dropPoint = "netfilter" THEN TRUE ELSE nft
    /\ pc' = "settling"
    /\ HangUp
    /\ UNCHANGED <<launch, position, sinkFailed, startedBy, seen,
                   completed, acked, inbox, xdp, trafficVars, published,
                   faults>>

(* NftGuard::enable fails: in its disable, or in the script that follows,    *)
(* which nft applies as a whole or not at all.                               *)
EnableFails ==
    /\ pc = "configuring"
    /\ Answered
    /\ Condition.dropPoint = "netfilter"
    /\ nft' \in {nft, FALSE}
    /\ Abort
    /\ UNCHANGED <<inbox, xdp, trafficVars, published, faults>>

(* settle_secs have passed, the counters are read: start_traffic. *)
StartTraffic ==
    /\ pc = "settling"
    /\ Send("start", Condition.pps)
    /\ startedBy' = call'
    /\ pc' = "starting"
    /\ UNCHANGED <<launch, position, sinkFailed, seen, completed, acked, nft,
                   xdp, trafficVars, published, faults>>

(* Mutant of Started: the runner does not wait for the response to start.    *)
StartedUnanswered ==
    /\ pc = "starting"
    /\ pc' = "measuring"
    /\ HangUp
    /\ UNCHANGED <<launch, position, sinkFailed, startedBy, seen, completed,
                   acked, nft, inbox, xdp, trafficVars, published, faults>>

Started ==
    /\ pc = "starting"
    /\ Answered
    /\ reply.pps = Condition.pps
    /\ pc' = "measuring"
    /\ HangUp
    /\ UNCHANGED <<launch, position, sinkFailed, startedBy, seen,
                   completed, acked, nft, inbox, xdp, trafficVars, published,
                   faults>>

(* "traffic-node accepted an unexpected rate" *)
StartedAtAnotherRate ==
    /\ pc = "starting"
    /\ Answered
    /\ reply.pps # Condition.pps
    /\ Abort
    /\ UNCHANGED <<nft, inbox, xdp, trafficVars, published, faults>>

(* duration_secs have passed. *)
StopTraffic ==
    /\ pc = "measuring"
    /\ Send("stop", 0)
    /\ pc' = "stopping"
    /\ UNCHANGED <<launch, position, sinkFailed, startedBy, seen, completed,
                   acked, nft, xdp, trafficVars, published, faults>>

(* Mutant of Stopped: the runner does not wait for the response to stop.     *)
StoppedUnanswered ==
    /\ pc = "stopping"
    /\ pc' = "draining"
    /\ HangUp
    /\ UNCHANGED <<launch, position, sinkFailed, startedBy, seen, completed,
                   acked, nft, inbox, xdp, trafficVars, published, faults>>

Stopped ==
    /\ pc = "stopping"
    /\ Answered
    /\ pc' = "draining"
    /\ HangUp
    /\ UNCHANGED <<launch, position, sinkFailed, startedBy, seen,
                   completed, acked, nft, inbox, xdp, trafficVars, published,
                   faults>>

(* HEALTH_DRAIN_TIME has passed. *)
QueryStatus ==
    /\ pc = "draining"
    /\ Send("status", 0)
    /\ pc' = "querying"
    /\ UNCHANGED <<launch, position, sinkFailed, startedBy, seen, completed,
                   acked, nft, xdp, trafficVars, published, faults>>

StatusReceived ==
    /\ pc = "querying"
    /\ Answered
    /\ seen' = reply.window
    /\ pc' = "udp_drain"
    /\ HangUp
    /\ UNCHANGED <<launch, position, sinkFailed, startedBy, completed,
                   acked, nft, inbox, xdp, trafficVars, published, faults>>

(* Mutant of Valid: no ZeroHealthChecks. *)
ValidWithoutChecks(w) == w.checks \in Nat

(* The part of ExperimentRun::validate that depends on what happened: a      *)
(* window with no check is refused. (A run that received more than it sent   *)
(* is refused too: RejectRun may take any run.)                              *)
Valid(w) == w.checks # 0

(* UDP_DRAIN_TIME has passed, run_condition returns Ok, validate accepts.    *)
FinishCondition ==
    /\ pc = "udp_drain"
    /\ ~sinkFailed
    /\ Valid(seen)
    /\ pc' = "publishing"
    /\ UNCHANGED <<launch, position, sinkFailed, startedBy, seen,
                   completed, acked, callVars, nft, inbox, xdp, trafficVars,
                   published, faults>>

(* The sink failed meanwhile, or validate refuses the run. *)
RejectRun ==
    /\ pc = "udp_drain"
    /\ Abort
    /\ UNCHANGED <<nft, inbox, xdp, trafficVars, published, faults>>

Run == [launch |-> launch, condition |-> Condition,
        startedBy |-> startedBy, window |-> seen]

(* publish_run writes the line of the run to its connection to the hub.      *)
HandOver == published' = published \cup {Run}

(* publish_run returns Ok: the line and its end are written. The loop        *)
(* increments follow.                                                        *)
Publish ==
    /\ pc = "publishing"
    /\ HandOver
    /\ position' = NextPosition(position)
    /\ startedBy' = NoRequest /\ seen' = NoWindow
    /\ completed' = (position' = EndPosition)
    /\ pc' = IF completed' THEN "clean_nft" ELSE "condition"
    /\ UNCHANGED <<launch, sinkFailed, acked, callVars, nft, inbox, xdp,
                   trafficVars, faults>>

(* publish_run ends without Ok, perhaps after the line went out. *)
AbandonRun == (pc = "publishing" /\ HandOver) \/ UNCHANGED published

(* Mutants of PublishFails: the measurement is repeated; the loops are left  *)
(* as if they had come to their end.                                         *)
PublishRetries ==
    /\ pc = "publishing"
    /\ AbandonRun
    /\ pc' = "condition"
    /\ UNCHANGED <<launch, position, sinkFailed, startedBy, seen, completed,
                   acked, callVars, nft, inbox, xdp, trafficVars, faults>>

PublishFailureBreaks ==
    /\ pc = "publishing"
    /\ AbandonRun
    /\ pc' = "clean_nft"
    /\ completed' = TRUE
    /\ LeaveLoops
    /\ UNCHANGED <<launch, sinkFailed, acked, callVars, nft, inbox, xdp,
                   trafficVars, faults>>

(* publish_run fails: no connection, a write error, CONTROL_TIMEOUT. *)
PublishFails ==
    /\ pc = "publishing"
    /\ AbandonRun
    /\ Abort
    /\ UNCHANGED <<nft, inbox, xdp, trafficVars, faults>>

(* Mutant of CallFails: no CONTROL_TIMEOUT, only an answer that is not ok.   *)
CallFailsWithoutTimeout ==
    /\ pc \in Awaiting \cap Running
    /\ Answered
    /\ Abort
    /\ UNCHANGED <<nft, inbox, xdp, trafficVars, published, faults>>

(* CONTROL_TIMEOUT, a refused connection, a connection closed early, an      *)
(* answer that is not ok: request_json and its callers return Err.           *)
CallFails ==
    /\ pc \in Awaiting \cap Running
    /\ Abort
    /\ UNCHANGED <<nft, inbox, xdp, trafficVars, published, faults>>

(* read_cpu_snapshot or read_net_rx_softirq fails: before the start call or  *)
(* after the stop response.                                                  *)
CountersUnreadable ==
    /\ pc = "settling" \/ (pc = "stopping" /\ Answered)
    /\ Abort
    /\ UNCHANGED <<nft, inbox, xdp, trafficVars, published, faults>>

(* SIGINT wins the select!: run_experiment is dropped at an await. *)
Interrupt ==
    /\ pc \in Running \ {"condition"}
    /\ AbandonRun
    /\ Abort
    /\ UNCHANGED <<nft, inbox, xdp, trafficVars, faults>>

(* NftGuard::disable of the cleanup, then the call that restores monitor     *)
(* mode, whatever became of the former.                                      *)
CleanNft ==
    /\ pc = "clean_nft"
    /\ \/ nft' = FALSE /\ acked' = acked \cup {"nft"}
       \/ UNCHANGED <<nft, acked>>
    /\ Send("monitor", 0)
    /\ pc' = "clean_xdp"
    /\ UNCHANGED <<launch, position, sinkFailed, startedBy, seen, completed,
                   xdp, trafficVars, published, faults>>

(* Mutant of CleanXdp: an unanswered call passes for a success.              *)
CleanXdpUnanswered ==
    /\ pc = "clean_xdp"
    /\ acked' = acked \cup {"xdp"}
    /\ Send("stop", 0)
    /\ pc' = "clean_traffic"
    /\ UNCHANGED <<launch, position, sinkFailed, startedBy, seen, completed,
                   nft, xdp, trafficVars, published, faults>>

(* Mutant of CleanXdp: main() returns when it fails, before the stop.        *)
CleanXdpReturnsEarly ==
    /\ pc = "clean_xdp"
    /\ \/ Answered /\ acked' = acked \cup {"xdp"}
          /\ Send("stop", 0) /\ pc' = "clean_traffic"
       \/ UNCHANGED <<acked, inbox>> /\ HangUp /\ pc' = "exited"
    /\ UNCHANGED <<launch, position, sinkFailed, startedBy, seen, completed,
                   nft, xdp, trafficVars, published, faults>>

(* xdp_cleanup is known, the call that stops the load goes out either way.   *)
CleanXdp ==
    /\ pc = "clean_xdp"
    /\ \/ Answered /\ acked' = acked \cup {"xdp"}
       \/ UNCHANGED acked
    /\ Send("stop", 0)
    /\ pc' = "clean_traffic"
    /\ UNCHANGED <<launch, position, sinkFailed, startedBy, seen, completed,
                   nft, xdp, trafficVars, published, faults>>

(* traffic_cleanup is known; main() returns and drops its NftGuard, which    *)
(* tries once more to remove the table.                                      *)
Exit ==
    /\ pc = "clean_traffic"
    /\ \/ Answered /\ acked' = acked \cup {"traffic"}
       \/ UNCHANGED acked
    /\ nft' \in {nft, FALSE}
    /\ pc' = "exited"
    /\ HangUp
    /\ UNCHANGED <<launch, position, sinkFailed, startedBy, seen,
                   completed, inbox, xdp, trafficVars, published, faults>>

(* ctrl_c() cannot register its handler: main() returns from inside the      *)
(* select!, when run_experiment was polled once at most. Only the NftGuard   *)
(* is left to clean up.                                                      *)
SignalUnavailable ==
    /\ pc \in {"condition", "configuring"}
    /\ position = FirstPosition
    /\ ~Answered
    /\ nft' \in {nft, FALSE}
    /\ pc' = "crashed"
    /\ LeaveLoops
    /\ HangUp
    /\ UNCHANGED <<launch, sinkFailed, completed, acked, inbox, xdp,
                   trafficVars, published, faults>>

(* The runner is killed, or its machine is: nothing is cleaned up. *)
Crash ==
    /\ pc \in Running \cup Cleaning
    /\ AbandonRun
    /\ pc' = "crashed"
    /\ LeaveLoops
    /\ HangUp
    /\ UNCHANGED <<launch, sinkFailed, completed, acked, nft, inbox, xdp,
                   trafficVars, faults>>

(* The UDP sink task gives up after a receive error. *)
SinkFails ==
    /\ pc \in Running
    /\ sinkFailed' = TRUE
    /\ UNCHANGED <<pc, launch, position, startedBy, seen, completed,
                   acked, callVars, nft, inbox, xdp, trafficVars, published,
                   faults>>

-----------------------------------------------------------------------------
(* xdp-hello's control server *)

SetMode(r) ==
    /\ r \in inbox
    /\ r.cmd \in XdpCommands
    /\ inbox' = inbox \ {r}
    /\ xdp' = [mode |-> r.cmd, by |-> WrittenFor(r)]
    /\ reply' = IF r = call THEN Reply("arrived", 0, NoWindow) ELSE reply
    /\ UNCHANGED <<runnerVars, call, nft, trafficVars, published, faults>>

-----------------------------------------------------------------------------
(* traffic-node's control server and health worker *)

(* A command is served in steps: its effect, the loads that follow it, and,  *)
(* once the event for the hub is sent, the response. The steps after the     *)
(* effect change nothing but the response, so they are followed only while   *)
(* somebody waits for it.                                                    *)
ServeStart(r) ==
    /\ r.cmd = "start"
    /\ r.pps \in 1..MaxPps
    /\ targetPps' = r.pps
    /\ window' = [owner |-> r, checks |-> 0]
    /\ active' = TRUE
    /\ activeBy' = WrittenFor(r)

ServeStop(r) ==
    /\ r.cmd = "stop"
    /\ active' = FALSE
    /\ activeBy' = WrittenFor(r)
    /\ UNCHANGED <<targetPps, window>>

ServeStatus(r) ==
    /\ r.cmd = "status"
    /\ UNCHANGED <<active, activeBy, targetPps, window>>

TrafficApply(r) ==
    /\ r \in inbox
    /\ inbox' = inbox \ {r}
    /\ ServeStart(r) \/ ServeStop(r) \/ ServeStatus(r)
    /\ reply' = IF r = call THEN Reply("applied", 0, NoWindow) ELSE reply
    /\ UNCHANGED <<runnerVars, call, nft, xdp, published, faults>>

TrafficLoad ==
    /\ reply.stage = "applied"
    /\ reply' = Reply("loaded", targetPps, NoWindow)
    /\ UNCHANGED <<runnerVars, call, nft, inbox, xdp, trafficVars, published,
                   faults>>

TrafficAnswer ==
    /\ reply.stage = "loaded"
    /\ reply' = Reply("arrived", reply.pps, window)
    /\ UNCHANGED <<runnerVars, call, nft, inbox, xdp, trafficVars, published,
                   faults>>

(* HealthWindow::record accepts the result of a probe: its generation is the *)
(* one of the last reset.                                                    *)
RecordProbe ==
    /\ window.owner # NoRequest
    /\ window.checks < MaxChecks
    /\ window' = [owner |-> window.owner, checks |-> window.checks + 1]
    /\ UNCHANGED <<runnerVars, callVars, nft, inbox, xdp, active, targetPps,
                   activeBy, published, faults>>

-----------------------------------------------------------------------------
(* Faults of the servers. A request the network loses needs no action: it   *)
(* stays in `inbox' for ever, since no server is obliged to handle it.       *)

Fails(server) ==
    /\ faults["xdp"] + faults["traffic"] < MaxFaults
    /\ faults' = [faults EXCEPT ![server] = @ + 1]

(* A server dies and comes back with its startup state; the connections it   *)
(* had are gone.                                                             *)
XdpRestart ==
    /\ Fails("xdp")
    /\ xdp' = [mode |-> StartupMode, by |-> "startup"]
    /\ inbox' = {r \in inbox : r.cmd \notin XdpCommands}
    /\ UNCHANGED <<runnerVars, callVars, nft, trafficVars, published>>

TrafficRestart ==
    /\ Fails("traffic")
    /\ active' = FALSE /\ targetPps' = DefaultPps /\ activeBy' = "startup"
    /\ window' = NoWindow
    /\ inbox' = {r \in inbox : r.cmd \notin TrafficCommands}
    /\ reply' = IF Answered THEN reply ELSE NoReply
    /\ UNCHANGED <<runnerVars, call, nft, xdp, published>>

-----------------------------------------------------------------------------
Measure ==
    \/ BeginCondition \/ Configured \/ StartTraffic \/ Started \/ StopTraffic
    \/ Stopped \/ QueryStatus \/ StatusReceived \/ FinishCondition \/ Publish

GiveUp ==
    \/ BeginConditionFails \/ EnableFails \/ StartedAtAnotherRate \/ RejectRun
    \/ PublishFails \/ CallFails \/ CountersUnreadable

Cleanup == CleanNft \/ CleanXdp \/ Exit

RunnerStep == Measure \/ GiveUp \/ Cleanup

Operator == Launch \/ Interrupt \/ SignalUnavailable \/ Crash \/ SinkFails

ServerStep ==
    \/ \E r \in inbox : SetMode(r) \/ TrafficApply(r)
    \/ TrafficLoad \/ TrafficAnswer \/ RecordProbe

Fault == XdpRestart \/ TrafficRestart

Next == RunnerStep \/ Operator \/ ServerStep \/ Fault

(* The runner's own task runs on: its sleeps end and its calls time out.     *)
(* Nothing is assumed of the servers, the network or the operator.           *)
Spec == Init /\ [][Next]_vars /\ WF_vars(RunnerStep)
-----------------------------------------------------------------------------
(* Properties *)

Windows == [owner : Requests \cup {NoRequest}, checks : Nat]
Replies == [stage : {"none", "applied", "loaded", "arrived"}, pps : 0..MaxPps,
            window : Windows]
Runs == [launch : Nat \ {0}, condition : Plan, startedBy : Requests,
         window : Windows]

(* Every variable has its type. *)
TypeOK ==
    /\ pc \in Running \cup Cleaning \cup Off
    /\ launch \in Nat
    /\ position \in Positions \cup {EndPosition}
    /\ call \in Requests \cup {NoRequest}
    /\ reply \in Replies
    /\ sinkFailed \in BOOLEAN /\ completed \in BOOLEAN
    /\ startedBy \in Requests \cup {NoRequest}
    /\ seen \in Windows
    /\ acked \subseteq Cleanups
    /\ nft \in BOOLEAN
    /\ inbox \subseteq Requests
    /\ xdp \in [mode : Modes, by : Provenance]
    /\ active \in BOOLEAN
    /\ targetPps \in 1..MaxPps
    /\ activeBy \in Provenance
    /\ window \in Windows
    /\ published \subseteq Runs
    /\ faults \in [Servers -> Nat]

(* From the end of its configuration until it is published, a measurement    *)
(* stands under its own drop point: the netfilter table is there exactly for *)
(* Netfilter, and xdp-hello is in the mode configure_drop_point asked for    *)
(* unless a restart of it, or a call some runner had given up, wrote the     *)
(* mode last. No interleaving of failures and timeouts of this runner breaks *)
(* that.                                                                     *)
Measuring == {"settling", "starting", "measuring", "stopping", "draining",
              "querying", "udp_drain", "publishing"}

MeasuredUnderItsDropPoint ==
    pc \in Measuring =>
        /\ nft = (Condition.dropPoint = "netfilter")
        /\ xdp.by = "call" => xdp.mode = ModeFor(Condition.dropPoint)

(* A run handed to the hub carries the health checks of one window, the one  *)
(* its own start call opened: a traffic-node that restarted under the        *)
(* measurement is noticed (run_condition does not ask, validate's            *)
(* ZeroHealthChecks does). The one exception is a start call of an EARLIER   *)
(* runner that had given it up and that reached traffic-node late.           *)
PublishedWindowIsItsOwn ==
    \A r \in published :
        r.window.owner # r.startedBy =>
            r.window.owner.launch \in 1..(r.launch - 1)

(* Whatever ended the experiment (an error, SIGINT, the last condition), and *)
(* whatever became of the cleanups before it, no cleanup is skipped and one  *)
(* that succeeded holds once the runner has exited, unless a restart or a    *)
(* given-up call wrote last. A table that is left was not reported removed;  *)
(* a mode or a load that is left was not reported undone either, and the     *)
(* call that undoes it was made and has not reached its server yet.          *)
LastCall(cmd) ==
    [launch |-> launch, at |-> EndPosition, cmd |-> cmd, pps |-> 0]

CleanupHolds ==
    pc = "exited" =>
        /\ nft => "nft" \notin acked
        /\ xdp.by = "call" /\ xdp.mode # "monitor" =>
              "xdp" \notin acked /\ LastCall("monitor") \in inbox
        /\ activeBy = "call" /\ active =>
              "traffic" \notin acked /\ LastCall("stop") \in inbox

(* While a measurement lasts the load is the one its start call asked for,   *)
(* on and at its rate, unless a restart or a given-up call wrote last. The   *)
(* load a crashed runner left running, at a rate of its own, is taken over,  *)
(* not measured.                                                             *)
LoadIsItsOwn ==
    pc = "measuring" /\ activeBy = "call" =>
        active /\ targetPps = Condition.pps

(* Within an experiment the load is off while the next drop point is being   *)
(* configured and its baseline counters are read. (The first condition has   *)
(* no such guarantee: run_condition does not stop a load left by a crash.)   *)
QuietWhileConfiguring ==
    /\ pc \in {"condition", "configuring", "settling"}
    /\ position # FirstPosition
    /\ activeBy = "call"
    => ~active

(* What this launch has not handed to the hub. *)
Unreported ==
    {m \in Plan :
        \A r \in published : r.launch = launch => r.condition # m}

(* No run is handed to the hub twice for one run_id, and while the loops go  *)
(* on they neither run ahead of what was handed over nor leave anything out. *)
OneRunPerCondition ==
    /\ \A r, s \in published :
          r.launch = s.launch /\ r.condition = s.condition => r = s
    /\ pc \in Running => Unreported = Remaining(position)

(* EXPERIMENT_PROTOCOL.md, "cleanup": the runner puts traffic-node back to   *)
(* stop. Read literally: after an acknowledged cleanup the load is off.      *)
AckedStopIsFinal == pc = "exited" /\ "traffic" \in acked => ~active

(* A run is handed to the hub only when its own generator is at rest: the    *)
(* stop of the measurement took effect before publish_run wrote anything,    *)
(* whatever restarted or came late. (When the hub reads the line is open:    *)
(* the next load may be on by then.)                                         *)
PublishesAtRest ==
    [][published' # published => (activeBy = "call" => ~active)]_vars

(* Nobody waits forever: a launched runner ends, whatever the servers and    *)
(* the network do, because every await of it has a deadline.                 *)
RunnerEnds == (pc \in Running \cup Cleaning) ~> (pc \in Off)

(* The exit status 0: experiment_result and the three cleanups are Ok. *)
Success == completed /\ acked = Cleanups

phase ==
    CASE pc = "off" -> "idle"
      [] pc \in Running \/ (pc \in Cleaning /\ completed) -> "running"
      [] pc = "exited" /\ Success -> "succeeded"
      [] OTHER -> "failed"

(* The runner keeps the promise of SweepPromise: one measurement after the   *)
(* other of the plan is handed to the hub, a runner that exits with success  *)
(* handed over every one of them, whatever failed in between, and left no    *)
(* rule behind.                                                              *)
Promise == INSTANCE SweepPromise WITH
    todo <- IF phase = "running" THEN Unreported ELSE {}, rule <- nft
SweepPromiseKept == Promise!Spec
=============================================================================
