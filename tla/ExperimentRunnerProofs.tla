----------------------- MODULE ExperimentRunnerProofs -----------------------
(* Proofs about ExperimentRunner, for every plan, every number of launches   *)
(* and restarts: the inductive invariant Inv, and what follows from it.      *)
EXTENDS ExperimentRunner, ConditionsProofs, TLAPS

-----------------------------------------------------------------------------
(* What every step preserves: the inductive strengthening of the invariants  *)
(* of ExperimentRunner, named by what it is about.                           *)

(* The command of the call a runner awaits at a pc of Awaiting. *)
CommandAt ==
    CASE pc = "configuring" -> ModeFor(Condition.dropPoint)
      [] pc = "starting" -> "start"
      [] pc = "querying" -> "status"
      [] pc = "clean_xdp" -> "monitor"
      [] OTHER -> "stop"

(* One call at a time; once its server took it up it is not in the inbox.    *)
CallInv ==
    /\ pc \in Awaiting => /\ call \in Requests
                          /\ call.launch = launch
                          /\ call.cmd = CommandAt
    /\ pc \notin Awaiting => call = NoRequest /\ reply = NoReply
    /\ reply.stage # "none" => call \notin inbox
    /\ reply.stage \in {"applied", "loaded"} => call.cmd \in TrafficCommands

(* A runner that is still measuring has given up none of its calls. *)
InboxInv ==
    \A r \in inbox :
        /\ r.launch <= launch
        /\ r.launch = launch /\ pc \in Running => r = call

LoopInv ==
    /\ pc \in Running => position \in Positions
    /\ pc # "off" => launch # 0
    /\ pc \notin Running => position = EndPosition

DropPointInv ==
    /\ MeasuredUnderItsDropPoint
    /\ pc = "configuring" =>
          /\ Condition.dropPoint # "netfilter" => ~nft
          /\ Answered /\ xdp.by = "call" =>
                xdp.mode = ModeFor(Condition.dropPoint)

CleanInv ==
    /\ pc \in Running \cup {"off", "clean_nft"} => acked = {}
    /\ pc = "clean_xdp" => "xdp" \notin acked /\ "traffic" \notin acked
    /\ pc = "clean_traffic" => "traffic" \notin acked
    /\ pc \in {"clean_xdp", "clean_traffic", "exited"} /\ "nft" \in acked
          => ~nft
    /\ pc = "clean_xdp" => call = LastCall("monitor")
    /\ pc = "clean_traffic" => call = LastCall("stop")
    /\ pc = "clean_xdp" /\ xdp.by = "call" /\ xdp.mode # "monitor"
          => ~Answered /\ LastCall("monitor") \in inbox
    /\ /\ pc \in {"clean_traffic", "exited"}
       /\ xdp.by = "call" /\ xdp.mode # "monitor"
       => "xdp" \notin acked /\ LastCall("monitor") \in inbox
    /\ pc = "clean_traffic" /\ activeBy = "call" /\ active
          => reply.stage = "none" /\ LastCall("stop") \in inbox
    /\ pc = "exited" /\ activeBy = "call" /\ active
          => "traffic" \notin acked /\ LastCall("stop") \in inbox

LoadInv ==
    /\ pc = "stopping" /\ reply.stage # "none" /\ activeBy = "call" => ~active
    /\ /\ pc \in {"draining", "querying", "udp_drain", "publishing"}
       /\ activeBy = "call"
       => ~active
    /\ QuietWhileConfiguring
    /\ pc = "starting" => call.pps = Condition.pps
    /\ pc = "starting" /\ reply.stage # "none" /\ activeBy = "call"
          => active /\ targetPps = Condition.pps
    /\ LoadIsItsOwn

(* A window no start of this launch but the current one has opened. *)
NotForeign(w) ==
    w.owner = NoRequest \/ w.owner = startedBy \/ w.owner.launch < launch

EmptyIfUnowned(w) == w.owner = NoRequest => w.checks = 0

WindowInv ==
    /\ EmptyIfUnowned(window) /\ EmptyIfUnowned(reply.window)
    /\ EmptyIfUnowned(seen)
    /\ pc = "starting" => startedBy = call
    /\ pc \in {"measuring", "stopping", "draining", "querying", "udp_drain",
               "publishing"} => startedBy \in Requests /\ NotForeign(window)
    /\ pc = "starting" /\ reply.stage # "none" => NotForeign(window)
    /\ pc = "querying" /\ Answered => NotForeign(reply.window)
    /\ pc \in {"udp_drain", "publishing"} => NotForeign(seen)
    /\ pc = "publishing" => Valid(seen)
    /\ PublishedWindowIsItsOwn

Inv == /\ TypeOK /\ CallInv /\ InboxInv /\ LoopInv
       /\ DropPointInv /\ CleanInv /\ LoadInv /\ WindowInv

-----------------------------------------------------------------------------

(* The bound of every rate, 100000, without its digits. *)
LEMMA MaxPpsType == MaxPps \in Nat /\ MaxPps > 0
BY DEF MaxPps

(* The values that stand for "none" have their types, and no request does. *)
LEMMA ConstantTypes ==
    /\ 0 \in 0..MaxPps /\ 1..MaxPps \subseteq 0..MaxPps
    /\ NoWindow \in Windows
    /\ NoReply \in Replies
    /\ NoRequest \notin Requests
BY MaxPpsType
   DEF NoWindow, Windows, NoReply, Reply, Replies, NoRequest, Requests,
       XdpCommands, TrafficCommands, Modes

(* request_json writes a well-formed request of the launch and the position  *)
(* it is called at.                                                          *)
LEMMA SendType ==
    ASSUME TypeOK, launch # 0,
           NEW cmd \in XdpCommands \cup TrafficCommands, NEW pps \in 0..MaxPps,
           Send(cmd, pps)
    PROVE  /\ call' \in Requests
           /\ call' = [launch |-> launch, at |-> position,
                       cmd |-> cmd, pps |-> pps]
           /\ inbox' = inbox \cup {call'}
           /\ reply' = NoReply
<1>1. [launch |-> launch, at |-> position, cmd |-> cmd, pps |-> pps]
        \in Requests
  BY DEF Requests, TypeOK
<1> QED BY <1>1 DEF Send

(* configure_drop_point asks xdp-hello for a mode it knows. *)
LEMMA ModeType == \A d : ModeFor(d) \in XdpCommands \cup TrafficCommands
BY DEF ModeFor, XdpCommands, Modes

(* What is handed to the hub is a run of the plan. *)
LEMMA HandOverType ==
    ASSUME TypeOK, LoopInv, pc = "publishing", startedBy \in Requests,
           HandOver
    PROVE  published' \subseteq Runs
<1>1. Run \in Runs
  BY ConditionType DEF Run, Runs, TypeOK, LoopInv, Condition, Running
<1> QED BY <1>1 DEF HandOver, TypeOK

(* Every step keeps the types and the loop counters: position is a position  *)
(* of the loops while the runner is in them, and EndPosition otherwise.      *)
LEMMA TypeStep ==
    ASSUME TypeOK, LoopInv, Next, pc = "publishing" => startedBy \in Requests
    PROVE  TypeOK' /\ LoopInv'
<1>n1. 0 \in 0..MaxPps
  BY ConstantTypes
<1>n2. {"monitor", "start", "stop", "status"}
          \subseteq XdpCommands \cup TrafficCommands
  BY DEF XdpCommands, TrafficCommands, Modes
<1>n3. pc \in Running => Condition \in Plan /\ Condition.pps \in 0..MaxPps
  BY ConditionType, ConstantTypes DEF Condition, LoopInv
<1> USE DEF TypeOK, LoopInv, Abort, HangUp, LeaveLoops, runnerVars, callVars,
            trafficVars, Running, Cleaning, Off
<1> USE ConstantTypes
<1>1. CASE BeginCondition
  BY <1>1, <1>n1, ModeType, SendType DEF BeginCondition
<1>2. CASE Configured
  BY <1>2 DEF Configured
<1>3. CASE StartTraffic
  BY <1>3, <1>n2, <1>n3, SendType DEF StartTraffic
<1>4. CASE Started
  BY <1>4 DEF Started
<1>5. CASE StopTraffic
  BY <1>5, <1>n1, <1>n2, SendType DEF StopTraffic
<1>6. CASE Stopped
  BY <1>6 DEF Stopped
<1>7. CASE QueryStatus
  BY <1>7, <1>n1, <1>n2, SendType DEF QueryStatus
<1>8. CASE StatusReceived
  BY <1>8 DEF StatusReceived, Replies
<1>9. CASE FinishCondition
  BY <1>9 DEF FinishCondition
<1>10. CASE Publish
  <2>1. NextPosition(position) \in Positions \cup {EndPosition}
    BY <1>10, NextPositionType DEF Publish
  <2>2. published' \subseteq Runs
    BY <1>10, HandOverType DEF Publish
  <2>3. pc' \in {"clean_nft", "condition"} /\ completed' \in BOOLEAN
    BY <1>10 DEF Publish
  <2>4. pc' = "clean_nft" <=> position' = EndPosition
    BY <1>10 DEF Publish
  <2> QED BY <1>10, <2>1, <2>2, <2>3, <2>4, EndIsNoPosition DEF Publish
<1>11. CASE BeginConditionFails
  BY <1>11 DEF BeginConditionFails
<1>12. CASE EnableFails
  BY <1>12 DEF EnableFails
<1>13. CASE StartedAtAnotherRate
  BY <1>13 DEF StartedAtAnotherRate
<1>14. CASE RejectRun
  BY <1>14 DEF RejectRun
<1>15. CASE PublishFails
  BY <1>15, HandOverType DEF PublishFails, AbandonRun
<1>16. CASE CallFails
  BY <1>16 DEF CallFails
<1>17. CASE CountersUnreadable
  BY <1>17 DEF CountersUnreadable
<1>18. CASE CleanNft
  BY <1>18, <1>n1, <1>n2, SendType DEF CleanNft, Cleanups
<1>19. CASE CleanXdp
  BY <1>19, <1>n1, <1>n2, SendType DEF CleanXdp, Cleanups
<1>20. CASE Exit
  BY <1>20 DEF Exit, Cleanups
<1>21. CASE Launch
  <2>1. launch' \in Nat \ {0} /\ pc' = "condition" /\ position' = FirstPosition
    BY <1>21 DEF Launch
  <2>2. UNCHANGED <<call, reply, nft, inbox, xdp, active, targetPps, activeBy,
                    window, published, faults>>
    BY <1>21 DEF Launch
  <2>3. /\ sinkFailed' = FALSE /\ completed' = FALSE /\ acked' = {}
        /\ startedBy' = NoRequest /\ seen' = NoWindow
    BY <1>21 DEF Launch
  <2> QED BY <2>1, <2>2, <2>3, EndIsNoPosition
<1>22. CASE Interrupt
  BY <1>22, HandOverType DEF Interrupt, AbandonRun
<1>23. CASE SignalUnavailable
  BY <1>23 DEF SignalUnavailable
<1>24. CASE Crash
  BY <1>24, HandOverType DEF Crash, AbandonRun
<1>25. CASE SinkFails
  BY <1>25 DEF SinkFails
<1>26. ASSUME NEW r \in inbox, SetMode(r) PROVE TypeOK' /\ LoopInv'
  BY <1>26 DEF SetMode, Reply, Replies, WrittenFor, Provenance, XdpCommands
<1>27. ASSUME NEW r \in inbox, TrafficApply(r) PROVE TypeOK' /\ LoopInv'
  <2>1. r \in Requests /\ [owner |-> r, checks |-> 0] \in Windows
    BY DEF Windows
  <2>2. /\ Reply("applied", 0, NoWindow) \in Replies
        /\ WrittenFor(r) \in Provenance
    BY DEF Reply, Replies, WrittenFor, Provenance
  <2>3. /\ targetPps' \in 1..MaxPps /\ window' \in Windows
        /\ active' \in BOOLEAN /\ activeBy' \in Provenance
    <3>1. CASE ServeStart(r)
      BY <2>1, <2>2, <3>1 DEF ServeStart
    <3>2. CASE ServeStop(r)
      BY <2>2, <3>2 DEF ServeStop
    <3>3. CASE ServeStatus(r)
      BY <3>3 DEF ServeStatus
    <3> QED BY <1>27, <3>1, <3>2, <3>3 DEF TrafficApply
  <2>4. reply' \in Replies /\ inbox' \subseteq Requests
    BY <1>27, <2>2 DEF TrafficApply
  <2>5. UNCHANGED <<pc, launch, position, sinkFailed, startedBy, seen,
                    completed, acked, call, nft, xdp, published, faults>>
    BY <1>27 DEF TrafficApply
  <2> QED BY <2>3, <2>4, <2>5
<1>28. CASE TrafficLoad
  BY <1>28 DEF TrafficLoad, Reply, Replies
<1>29. CASE TrafficAnswer
  BY <1>29 DEF TrafficAnswer, Reply, Replies
<1>30. CASE RecordProbe
  BY <1>30 DEF RecordProbe, Windows
<1>31. CASE XdpRestart
  BY <1>31, ServerAssumption DEF XdpRestart, Fails, Provenance, Servers
<1>32. CASE TrafficRestart
  <2>1. /\ active' = FALSE /\ targetPps' \in 1..MaxPps /\ window' \in Windows
        /\ activeBy' \in Provenance
    BY <1>32, ServerAssumption DEF TrafficRestart, Fails, Provenance
  <2>2. reply' \in Replies /\ inbox' \subseteq Requests
    BY <1>32 DEF TrafficRestart, Fails
  <2>3. faults' \in [Servers -> Nat]
    BY <1>32 DEF TrafficRestart, Fails, Servers
  <2>4. UNCHANGED <<pc, launch, position, sinkFailed, startedBy, seen,
                    completed, acked, call, nft, xdp, published>>
    BY <1>32 DEF TrafficRestart, Fails
  <2> QED BY ZenonT(40), <2>1, <2>2, <2>3, <2>4
<1> QED
  BY <1>1, <1>2, <1>3, <1>4, <1>5, <1>6, <1>7, <1>8, <1>9, <1>10, <1>11,
     <1>12, <1>13, <1>14, <1>15, <1>16, <1>17, <1>18, <1>19, <1>20, <1>21,
     <1>22, <1>23, <1>24, <1>25, <1>26, <1>27, <1>28, <1>29, <1>30, <1>31,
     <1>32
     DEF Next, RunnerStep, Measure, GiveUp, Cleanup, Operator, ServerStep,
         Fault

(* What each action of the runner that issues a call writes, to whom. *)
LEMMA SenderType ==
    ASSUME TypeOK, LoopInv,
           \/ BeginCondition \/ StartTraffic \/ StopTraffic \/ QueryStatus
           \/ CleanNft \/ CleanXdp
    PROVE  /\ call' \in Requests
           /\ call'.launch = launch /\ launch' = launch
           /\ call'.cmd = CommandAt'
           /\ inbox' = inbox \cup {call'}
           /\ reply' = NoReply
           /\ position' = position
<1>n1. 0 \in 0..MaxPps /\ launch # 0 /\ Condition' = Condition
  <2>1. position' = position
    BY DEF BeginCondition, StartTraffic, StopTraffic, QueryStatus, CleanNft,
           CleanXdp
  <2> QED BY <2>1, ConstantTypes
             DEF LoopInv, BeginCondition, StartTraffic, StopTraffic,
                 QueryStatus, CleanNft, CleanXdp, Condition
<1>n2. {"monitor", "start", "stop", "status"}
          \subseteq XdpCommands \cup TrafficCommands
  BY DEF XdpCommands, TrafficCommands, Modes
<1>n3. pc \in Running => Condition.pps \in 0..MaxPps
  BY ConditionType, ConstantTypes DEF Condition, LoopInv
<1> USE DEF CommandAt, Running
<1>1. CASE BeginCondition
  <2>1. Send(ModeFor(Condition.dropPoint), 0)
    BY <1>1 DEF BeginCondition
  <2> QED BY <1>1, <2>1, <1>n1, <1>n2, <1>n3, ModeType, SendType
             DEF BeginCondition
<1>2. CASE StartTraffic
  <2>1. Send("start", Condition.pps)
    BY <1>2 DEF StartTraffic
  <2> QED BY <1>2, <2>1, <1>n1, <1>n2, <1>n3, ModeType, SendType
             DEF StartTraffic
<1>3. CASE StopTraffic
  <2>1. Send("stop", 0)
    BY <1>3 DEF StopTraffic
  <2> QED BY <1>3, <2>1, <1>n1, <1>n2, <1>n3, ModeType, SendType
             DEF StopTraffic
<1>4. CASE QueryStatus
  <2>1. Send("status", 0)
    BY <1>4 DEF QueryStatus
  <2> QED BY <1>4, <2>1, <1>n1, <1>n2, <1>n3, ModeType, SendType
             DEF QueryStatus
<1>5. CASE CleanNft
  <2>1. Send("monitor", 0)
    BY <1>5 DEF CleanNft
  <2> QED BY <1>5, <2>1, <1>n1, <1>n2, <1>n3, ModeType, SendType DEF CleanNft
<1>6. CASE CleanXdp
  <2>1. Send("stop", 0)
    BY <1>6 DEF CleanXdp
  <2> QED BY <1>6, <2>1, <1>n1, <1>n2, <1>n3, ModeType, SendType DEF CleanXdp
<1> QED BY <1>1, <1>2, <1>3, <1>4, <1>5, <1>6

(* One call at a time: a runner that waits, waits for the command of its pc, *)
(* and a server that took a request up no longer has it before it.           *)
LEMMA CallStep ==
    ASSUME TypeOK, LoopInv, CallInv, Next
    PROVE  CallInv'
<1>n1. NoReply.stage = "none" /\ Condition = ConditionAt(position)
  BY DEF NoReply, Reply, Condition
<1>n2. NoRequest \notin inbox
  BY ConstantTypes DEF TypeOK
<1> USE DEF CallInv, Abort, HangUp, LeaveLoops, runnerVars, callVars,
            trafficVars, Running, Cleaning, Off, Awaiting
<1>1. CASE BeginCondition
  BY <1>1, <1>n1, SenderType DEF BeginCondition
<1>2. CASE Configured
  BY <1>2, <1>n1 DEF Configured
<1>3. CASE StartTraffic
  BY <1>3, <1>n1, SenderType DEF StartTraffic
<1>4. CASE Started
  BY <1>4, <1>n1 DEF Started
<1>5. CASE StopTraffic
  BY <1>5, <1>n1, SenderType DEF StopTraffic
<1>6. CASE Stopped
  BY <1>6, <1>n1 DEF Stopped
<1>7. CASE QueryStatus
  BY <1>7, <1>n1, SenderType DEF QueryStatus
<1>8. CASE StatusReceived
  BY <1>8, <1>n1 DEF StatusReceived
<1>9. CASE FinishCondition
  BY <1>9, <1>n1 DEF FinishCondition
<1>10. CASE Publish
  BY <1>10, <1>n1 DEF Publish
<1>11. CASE BeginConditionFails
  BY <1>11, <1>n1 DEF BeginConditionFails
<1>12. CASE EnableFails
  BY <1>12, <1>n1 DEF EnableFails
<1>13. CASE StartedAtAnotherRate
  BY <1>13, <1>n1 DEF StartedAtAnotherRate
<1>14. CASE RejectRun
  BY <1>14, <1>n1 DEF RejectRun
<1>15. CASE PublishFails
  BY <1>15, <1>n1 DEF PublishFails
<1>16. CASE CallFails
  BY <1>16, <1>n1 DEF CallFails
<1>17. CASE CountersUnreadable
  BY <1>17, <1>n1 DEF CountersUnreadable
<1>18. CASE CleanNft
  BY <1>18, <1>n1, SenderType DEF CleanNft
<1>19. CASE CleanXdp
  BY <1>19, <1>n1, SenderType DEF CleanXdp
<1>20. CASE Exit
  BY <1>20, <1>n1 DEF Exit
<1>21. CASE Launch
  BY <1>21, <1>n1 DEF Launch
<1>22. CASE Interrupt
  BY <1>22, <1>n1 DEF Interrupt
<1>23. CASE SignalUnavailable
  BY <1>23, <1>n1 DEF SignalUnavailable
<1>24. CASE Crash
  BY <1>24, <1>n1 DEF Crash
<1>25. CASE SinkFails
  BY <1>25, <1>n1 DEF SinkFails, CommandAt, Condition
<1>26. ASSUME NEW r \in inbox, SetMode(r) PROVE CallInv'
  <2>1. /\ call' = call /\ pc' = pc /\ launch' = launch
        /\ CommandAt' = CommandAt /\ inbox' = inbox \ {r}
    BY <1>26 DEF SetMode, CommandAt, Condition
  <2>2. CASE r = call
    <3>1. reply'.stage = "arrived" 
      BY <1>26, <2>2 DEF SetMode, Reply
    <3> QED BY <2>1, <2>2, <3>1, <1>n2
  <2>3. CASE r # call
    <3>1. reply' = reply
      BY <1>26, <2>3 DEF SetMode
    <3> QED BY <2>1, <2>3, <3>1
  <2> QED BY <2>2, <2>3
<1>27. ASSUME NEW r \in inbox, TrafficApply(r) PROVE CallInv'
  <2>1. /\ call' = call /\ pc' = pc /\ launch' = launch
        /\ CommandAt' = CommandAt /\ inbox' = inbox \ {r}
    BY <1>27 DEF TrafficApply, CommandAt, Condition
  <2>2. CASE r = call
    <3>1. reply'.stage = "applied" /\ call.cmd \in TrafficCommands
      BY <1>27, <2>2 DEF TrafficApply, Reply, ServeStart, ServeStop,
         ServeStatus, TrafficCommands
    <3> QED BY <2>1, <2>2, <3>1, <1>n2
  <2>3. CASE r # call
    <3>1. reply' = reply
      BY <1>27, <2>3 DEF TrafficApply
    <3> QED BY <2>1, <2>3, <3>1
  <2> QED BY <2>2, <2>3
<1>28. CASE TrafficLoad
  BY <1>28, <1>n1 DEF TrafficLoad, Reply, CommandAt, Condition
<1>29. CASE TrafficAnswer
  BY <1>29, <1>n1 DEF TrafficAnswer, Reply, CommandAt, Condition
<1>30. CASE RecordProbe
  BY <1>30, <1>n1 DEF RecordProbe, CommandAt, Condition
<1>31. CASE XdpRestart
  BY <1>31, <1>n1 DEF XdpRestart, Fails, CommandAt, Condition
<1>32. CASE TrafficRestart
  BY <1>32, <1>n1 DEF TrafficRestart, Fails, CommandAt, Condition, Answered
<1> QED
  BY <1>1, <1>2, <1>3, <1>4, <1>5, <1>6, <1>7, <1>8, <1>9, <1>10, <1>11,
     <1>12, <1>13, <1>14, <1>15, <1>16, <1>17, <1>18, <1>19, <1>20, <1>21,
     <1>22, <1>23, <1>24, <1>25, <1>26, <1>27, <1>28, <1>29, <1>30, <1>31,
     <1>32
     DEF Next, RunnerStep, Measure, GiveUp, Cleanup, Operator, ServerStep,
         Fault

(* Every action of the loops that stops waiting either had its answer or     *)
(* leaves the loops: what is left unanswered is of an ended experiment.       *)
LEMMA InboxStep ==
    ASSUME TypeOK, LoopInv, CallInv, InboxInv, Next
    PROVE  InboxInv'
<1>n1. /\ NoReply.stage = "none" /\ launch \in Nat
       /\ \A r \in inbox : r.launch \in Nat /\ r # NoRequest
  BY ConstantTypes DEF NoReply, Reply, TypeOK, Requests
<1>n2. pc \in Running \ Awaiting \/ reply.stage # "none"
          => \A r \in inbox : r # call
  BY <1>n1 DEF CallInv
<1> USE DEF InboxInv, Abort, HangUp, LeaveLoops, runnerVars, callVars,
            trafficVars, Running, Cleaning, Off, Awaiting, Answered
<1>1. CASE BeginCondition
  <2>1. /\ inbox' = inbox \cup {call'}
        /\ call'.launch = launch /\ launch' = launch
    BY <1>1, SenderType
  <2>2. pc = "condition" /\ pc' = "configuring"
    BY <1>1 DEF BeginCondition
  <2> QED BY <2>1, <2>2, <1>n1, <1>n2
<1>2. CASE Configured
  BY <1>2, <1>n1, <1>n2 DEF Configured
<1>3. CASE StartTraffic
  BY <1>3, <1>n1, <1>n2, SenderType DEF StartTraffic
<1>4. CASE Started
  BY <1>4, <1>n1, <1>n2 DEF Started
<1>5. CASE StopTraffic
  BY <1>5, <1>n1, <1>n2, SenderType DEF StopTraffic
<1>6. CASE Stopped
  BY <1>6, <1>n1, <1>n2 DEF Stopped
<1>7. CASE QueryStatus
  BY <1>7, <1>n1, <1>n2, SenderType DEF QueryStatus
<1>8. CASE StatusReceived
  BY <1>8, <1>n1, <1>n2 DEF StatusReceived
<1>9. CASE FinishCondition
  BY <1>9, <1>n1, <1>n2 DEF FinishCondition
<1>10. CASE Publish
  BY <1>10, <1>n1, <1>n2 DEF Publish
<1>11. CASE BeginConditionFails
  BY <1>11, <1>n1, <1>n2 DEF BeginConditionFails
<1>12. CASE EnableFails
  BY <1>12, <1>n1, <1>n2 DEF EnableFails
<1>13. CASE StartedAtAnotherRate
  BY <1>13, <1>n1, <1>n2 DEF StartedAtAnotherRate
<1>14. CASE RejectRun
  BY <1>14, <1>n1, <1>n2 DEF RejectRun
<1>15. CASE PublishFails
  BY <1>15, <1>n1, <1>n2 DEF PublishFails
<1>16. CASE CallFails
  BY <1>16, <1>n1, <1>n2 DEF CallFails
<1>17. CASE CountersUnreadable
  BY <1>17, <1>n1, <1>n2 DEF CountersUnreadable
<1>18. CASE CleanNft
  <2>1. /\ inbox' = inbox \cup {call'}
        /\ call'.launch = launch /\ launch' = launch
    BY <1>18, SenderType
  <2>2. pc = "clean_nft" /\ pc' = "clean_xdp"
    BY <1>18 DEF CleanNft
  <2> QED BY <2>1, <2>2, <1>n1, <1>n2
<1>19. CASE CleanXdp
  BY <1>19, <1>n1, <1>n2, SenderType DEF CleanXdp
<1>20. CASE Exit
  BY <1>20, <1>n1, <1>n2 DEF Exit
<1>21. CASE Launch
  BY <1>21, <1>n1, <1>n2 DEF Launch
<1>22. CASE Interrupt
  BY <1>22, <1>n1, <1>n2 DEF Interrupt
<1>23. CASE SignalUnavailable
  BY <1>23, <1>n1, <1>n2 DEF SignalUnavailable
<1>24. CASE Crash
  BY <1>24, <1>n1, <1>n2 DEF Crash
<1>25. CASE SinkFails
  BY <1>25, <1>n1, <1>n2 DEF SinkFails
<1>26. ASSUME NEW r \in inbox, SetMode(r) PROVE InboxInv'
  BY <1>26, <1>n1, <1>n2 DEF SetMode
<1>27. ASSUME NEW r \in inbox, TrafficApply(r) PROVE InboxInv'
  BY <1>27, <1>n1, <1>n2 DEF TrafficApply
<1>28. CASE TrafficLoad
  BY <1>28, <1>n1, <1>n2 DEF TrafficLoad
<1>29. CASE TrafficAnswer
  BY <1>29, <1>n1, <1>n2 DEF TrafficAnswer
<1>30. CASE RecordProbe
  BY <1>30, <1>n1, <1>n2 DEF RecordProbe
<1>31. CASE XdpRestart
  BY <1>31, <1>n1, <1>n2 DEF XdpRestart, Fails
<1>32. CASE TrafficRestart
  BY <1>32, <1>n1, <1>n2 DEF TrafficRestart, Fails
<1> QED
  BY <1>1, <1>2, <1>3, <1>4, <1>5, <1>6, <1>7, <1>8, <1>9, <1>10, <1>11,
     <1>12, <1>13, <1>14, <1>15, <1>16, <1>17, <1>18, <1>19, <1>20, <1>21,
     <1>22, <1>23, <1>24, <1>25, <1>26, <1>27, <1>28, <1>29, <1>30, <1>31,
     <1>32
     DEF Next, RunnerStep, Measure, GiveUp, Cleanup, Operator, ServerStep,
         Fault

(* The drop point is reconfigured by the order of configure_drop_point: the  *)
(* table first (but for Netfilter), the mode next, Netfilter's table last.   *)
LEMMA DropPointStep ==
    ASSUME TypeOK, CallInv, DropPointInv, Next
    PROVE  DropPointInv'
<1>n1. /\ NoReply.stage = "none" /\ NoRequest \notin inbox
       /\ Condition = ConditionAt(position)
  BY ConstantTypes DEF NoReply, Reply, Condition, TypeOK
<1>n2. \A d : ModeFor(d) \notin TrafficCommands
  BY DEF ModeFor, TrafficCommands
<1> USE DEF DropPointInv, MeasuredUnderItsDropPoint, Measuring, Abort,
            HangUp, LeaveLoops,
            runnerVars, callVars, trafficVars, Running, Cleaning, Off,
            Awaiting, Answered
<1>1. CASE BeginCondition
  <2>1. pc' = "condition" \/ (pc' = "configuring" /\ reply' = NoReply)
    BY <1>1 DEF BeginCondition, Send
  <2>2. Condition' = Condition /\ (Condition.dropPoint # "netfilter" => ~nft')
    BY <1>1 DEF BeginCondition, Condition
  <2> QED BY <2>1, <2>2, <1>n1
<1>2. CASE Configured
  <2>1. /\ pc = "configuring" /\ pc' = "settling" /\ Condition' = Condition
        /\ xdp' = xdp /\ Answered
    BY <1>2 DEF Configured, Condition
  <2>2. nft' = (Condition.dropPoint = "netfilter")
    <3>1. CASE Condition.dropPoint = "netfilter"
      BY <1>2, <3>1 DEF Configured
    <3>2. CASE Condition.dropPoint # "netfilter"
      <4>1. nft = FALSE
        BY <2>1, <3>2 DEF TypeOK
      <4>2. nft' = nft
        BY <1>2, <3>2 DEF Configured
      <4> QED BY <3>2, <4>1, <4>2
    <3> QED BY <3>1, <3>2
  <2> QED BY <2>1, <2>2
<1>3. CASE StartTraffic
  BY <1>3, <1>n1 DEF StartTraffic, Condition
<1>4. CASE Started
  BY <1>4, <1>n1 DEF Started, Condition
<1>5. CASE StopTraffic
  BY <1>5, <1>n1 DEF StopTraffic, Condition
<1>6. CASE Stopped
  BY <1>6, <1>n1 DEF Stopped, Condition
<1>7. CASE QueryStatus
  BY <1>7, <1>n1 DEF QueryStatus, Condition
<1>8. CASE StatusReceived
  BY <1>8, <1>n1 DEF StatusReceived, Condition
<1>9. CASE FinishCondition
  BY <1>9, <1>n1 DEF FinishCondition, Condition
<1>10. CASE Publish
  BY <1>10, <1>n1 DEF Publish, Condition
<1>11. CASE BeginConditionFails
  BY <1>11, <1>n1 DEF BeginConditionFails, Condition
<1>12. CASE EnableFails
  BY <1>12, <1>n1 DEF EnableFails, Condition
<1>13. CASE StartedAtAnotherRate
  BY <1>13, <1>n1 DEF StartedAtAnotherRate, Condition
<1>14. CASE RejectRun
  BY <1>14, <1>n1 DEF RejectRun, Condition
<1>15. CASE PublishFails
  BY <1>15, <1>n1 DEF PublishFails, Condition
<1>16. CASE CallFails
  BY <1>16, <1>n1 DEF CallFails, Condition
<1>17. CASE CountersUnreadable
  BY <1>17, <1>n1 DEF CountersUnreadable, Condition
<1>18. CASE CleanNft
  BY <1>18, <1>n1 DEF CleanNft, Condition
<1>19. CASE CleanXdp
  BY <1>19, <1>n1 DEF CleanXdp, Condition
<1>20. CASE Exit
  BY <1>20, <1>n1 DEF Exit, Condition
<1>21. CASE Launch
  BY <1>21, <1>n1 DEF Launch, Condition
<1>22. CASE Interrupt
  BY <1>22, <1>n1 DEF Interrupt, Condition
<1>23. CASE SignalUnavailable
  BY <1>23, <1>n1 DEF SignalUnavailable, Condition
<1>24. CASE Crash
  BY <1>24, <1>n1 DEF Crash, Condition
<1>25. CASE SinkFails
  BY <1>25, <1>n1 DEF SinkFails, Condition
<1>26. ASSUME NEW r \in inbox, SetMode(r) PROVE DropPointInv'
  <2>1. UNCHANGED <<pc, nft>> /\ Condition' = Condition
    BY <1>26 DEF SetMode, Condition
  <2>2. xdp' = [mode |-> r.cmd, by |-> WrittenFor(r)] /\ r.cmd \in Modes
    BY <1>26 DEF SetMode, XdpCommands
  <2>3. CASE r = call
    <3>1. CASE pc = "configuring"
      BY <2>1, <2>2, <2>3, <3>1 DEF CallInv, CommandAt
    <3>2. CASE pc # "configuring"
      <4>1. pc \notin Measuring
        BY <2>2, <2>3, <3>2, <1>n1 DEF CallInv, CommandAt, Modes
      <4> QED BY <2>1, <3>2, <4>1
    <3> QED BY <3>1, <3>2
  <2>4. CASE r # call
    BY <1>26, <2>1, <2>2, <2>4 DEF SetMode, WrittenFor
  <2> QED BY <2>3, <2>4
<1>27. ASSUME NEW r \in inbox, TrafficApply(r) PROVE DropPointInv'
  <2>1. UNCHANGED <<pc, nft, xdp>> /\ Condition' = Condition
    BY <1>27 DEF TrafficApply, Condition
  <2>2. Answered' => Answered
    BY <1>27 DEF TrafficApply, Reply
  <2> QED BY <2>1, <2>2
<1>28. CASE TrafficLoad
  <2>1. UNCHANGED <<pc, nft, xdp>> /\ Condition' = Condition
    BY <1>28 DEF TrafficLoad, Condition
  <2>2. ~Answered'
    BY <1>28 DEF TrafficLoad, Reply
  <2> QED BY <2>1, <2>2
<1>29. CASE TrafficAnswer
  <2>1. UNCHANGED <<pc, nft, xdp>> /\ Condition' = Condition
    BY <1>29 DEF TrafficAnswer, Condition
  <2>2. pc # "configuring"
    BY <1>29, <1>n2 DEF TrafficAnswer, CallInv, CommandAt
  <2> QED BY <2>1, <2>2
<1>30. CASE RecordProbe
  BY <1>30, <1>n1 DEF RecordProbe, Condition
<1>31. CASE XdpRestart
  BY <1>31, <1>n1 DEF XdpRestart, Fails, Condition
<1>32. CASE TrafficRestart
  BY <1>32, <1>n1 DEF TrafficRestart, Fails, Condition
<1> QED
  BY <1>1, <1>2, <1>3, <1>4, <1>5, <1>6, <1>7, <1>8, <1>9, <1>10, <1>11,
     <1>12, <1>13, <1>14, <1>15, <1>16, <1>17, <1>18, <1>19, <1>20, <1>21,
     <1>22, <1>23, <1>24, <1>25, <1>26, <1>27, <1>28, <1>29, <1>30, <1>31,
     <1>32
     DEF Next, RunnerStep, Measure, GiveUp, Cleanup, Operator, ServerStep,
         Fault

(* Each cleanup, once acknowledged, stays done through the ones after it.    *)
LEMMA CleanStep ==
    ASSUME TypeOK, LoopInv, CallInv, CleanInv, Next
    PROVE  CleanInv'
<1>n1. /\ NoReply.stage = "none" /\ NoRequest \notin inbox
       /\ xdp.mode \in Modes
  BY ConstantTypes DEF NoReply, Reply, TypeOK
<1> USE DEF CleanInv, Abort, HangUp, LeaveLoops, Cleanups,
            runnerVars, callVars, trafficVars, Running, Cleaning, Off,
            Awaiting, Answered
<1>1. CASE BeginCondition
  BY <1>1, <1>n1 DEF BeginCondition
<1>2. CASE Configured
  BY <1>2, <1>n1 DEF Configured
<1>3. CASE StartTraffic
  BY <1>3, <1>n1 DEF StartTraffic
<1>4. CASE Started
  BY <1>4, <1>n1 DEF Started
<1>5. CASE StopTraffic
  BY <1>5, <1>n1 DEF StopTraffic
<1>6. CASE Stopped
  BY <1>6, <1>n1 DEF Stopped
<1>7. CASE QueryStatus
  BY <1>7, <1>n1 DEF QueryStatus
<1>8. CASE StatusReceived
  BY <1>8, <1>n1 DEF StatusReceived
<1>9. CASE FinishCondition
  BY <1>9, <1>n1 DEF FinishCondition
<1>10. CASE Publish
  BY <1>10, <1>n1 DEF Publish
<1>11. CASE BeginConditionFails
  BY <1>11, <1>n1 DEF BeginConditionFails
<1>12. CASE EnableFails
  BY <1>12, <1>n1 DEF EnableFails
<1>13. CASE StartedAtAnotherRate
  BY <1>13, <1>n1 DEF StartedAtAnotherRate
<1>14. CASE RejectRun
  BY <1>14, <1>n1 DEF RejectRun
<1>15. CASE PublishFails
  BY <1>15, <1>n1 DEF PublishFails
<1>16. CASE CallFails
  BY <1>16, <1>n1 DEF CallFails
<1>17. CASE CountersUnreadable
  BY <1>17, <1>n1 DEF CountersUnreadable
<1>18. CASE CleanNft
  <2>1. /\ pc = "clean_nft" /\ pc' = "clean_xdp" /\ xdp' = xdp
        /\ position = EndPosition /\ launch' = launch /\ acked = {}
        /\ ("nft" \in acked' => ~nft') /\ acked' \subseteq {"nft"}
    BY <1>18 DEF CleanNft, LoopInv
  <2>2. /\ call' = LastCall("monitor") /\ reply' = NoReply
        /\ call' \in inbox' /\ LastCall("monitor")' = LastCall("monitor")
    BY <1>18, <2>1 DEF CleanNft, Send, LastCall
  <2> QED BY <2>1, <2>2, <1>n1
<1>19. CASE CleanXdp
  <2>1. /\ pc = "clean_xdp" /\ pc' = "clean_traffic"
        /\ position = EndPosition
        /\ UNCHANGED <<launch, nft, xdp, active, activeBy>>
        /\ ("xdp" \in acked' => Answered) /\ acked' \subseteq acked \cup {"xdp"}
    BY <1>19 DEF CleanXdp, LoopInv
  <2>2. /\ call' = LastCall("stop") /\ reply' = NoReply
        /\ inbox' = inbox \cup {call'}
        /\ \A cmd : LastCall(cmd)' = LastCall(cmd)
    BY <1>19, <2>1 DEF CleanXdp, Send, LastCall
  <2> QED BY <2>1, <2>2, <1>n1
<1>20. CASE Exit
  <2>1. /\ pc = "clean_traffic" /\ pc' = "exited"
        /\ UNCHANGED <<xdp, active, activeBy, inbox, launch>>
    BY <1>20 DEF Exit
  <2>2. "traffic" \in acked' => reply.stage # "none"
    BY <1>20 DEF Exit
  <2>3. {"nft", "xdp"} \cap acked' \subseteq acked
    BY <1>20 DEF Exit
  <2>4. ~nft => ~nft'
    BY <1>20 DEF Exit
  <2>5. \A cmd : LastCall(cmd)' = LastCall(cmd)
    BY <2>1 DEF LastCall
  <2> QED BY <2>1, <2>2, <2>3, <2>4, <2>5
<1>21. CASE Launch
  BY <1>21, <1>n1 DEF Launch
<1>22. CASE Interrupt
  BY <1>22, <1>n1 DEF Interrupt
<1>23. CASE SignalUnavailable
  BY <1>23, <1>n1 DEF SignalUnavailable
<1>24. CASE Crash
  BY <1>24, <1>n1 DEF Crash
<1>25. CASE SinkFails
  BY <1>25, <1>n1 DEF SinkFails, LastCall
<1>26. ASSUME NEW r \in inbox, SetMode(r) PROVE CleanInv'
  <2>1. /\ UNCHANGED <<pc, nft, acked, active, activeBy, call, launch>>
        /\ inbox' = inbox \ {r} /\ r.cmd \in XdpCommands
    BY <1>26 DEF SetMode
  <2>2. xdp' = [mode |-> r.cmd, by |-> WrittenFor(r)]
    BY <1>26 DEF SetMode
  <2>3. /\ \A cmd : LastCall(cmd)' = LastCall(cmd)
        /\ LastCall("stop") # r
    BY <2>1 DEF LastCall, XdpCommands, Modes
  <2>4. CASE r = call
    <3>1. pc = "clean_xdp" => xdp'.mode = "monitor"
      BY <2>2, <2>4 DEF CallInv, CommandAt
    <3>2. pc \notin {"clean_traffic", "exited"}
      BY <2>1, <2>4, <1>n1 DEF CallInv, CommandAt, XdpCommands, Modes
    <3> QED BY <2>1, <2>3, <3>1, <3>2
  <2>5. CASE r # call
    <3>1. xdp'.by = "late" /\ reply' = reply
      BY <1>26, <2>2, <2>5 DEF SetMode, WrittenFor
    <3> QED BY <2>1, <2>3, <3>1
  <2> QED BY <2>4, <2>5
<1>27. ASSUME NEW r \in inbox, TrafficApply(r) PROVE CleanInv'
  <2>1. /\ UNCHANGED <<pc, nft, acked, xdp, call, launch>>
        /\ Answered' => Answered
        /\ inbox' = inbox \ {r} /\ r.cmd \in TrafficCommands
    BY <1>27 DEF TrafficApply, Reply, ServeStart, ServeStop, ServeStatus,
                 TrafficCommands
  <2>2. /\ \A cmd : LastCall(cmd)' = LastCall(cmd)
        /\ LastCall("monitor") # r
    BY <2>1 DEF LastCall, TrafficCommands
  <2>3. CASE r = call
    <3>1. pc # "exited" /\ pc # "clean_xdp"
      BY <2>1, <2>3, <1>n1 DEF CallInv, CommandAt, TrafficCommands
    <3>2. pc = "clean_traffic" => ServeStop(r)
      BY <1>27, <2>3
         DEF TrafficApply, ServeStart, ServeStatus, CallInv, CommandAt
    <3>3. pc = "clean_traffic" => ~active'
      BY <3>2 DEF ServeStop
    <3> QED BY <2>1, <2>2, <3>1, <3>3
  <2>4. CASE r # call
    <3>1. reply' = reply
      BY <1>27, <2>4 DEF TrafficApply
    <3>2. \/ activeBy' = "late"
          \/ UNCHANGED <<active, activeBy>> /\ r # LastCall("stop")
      BY <1>27, <2>4
         DEF TrafficApply, ServeStart, ServeStop, ServeStatus, WrittenFor,
             LastCall
    <3> QED BY <2>1, <2>2, <3>1, <3>2
  <2> QED BY <2>3, <2>4
<1>28. CASE TrafficLoad
  <2>1. /\ UNCHANGED <<pc, nft, acked, xdp, active, activeBy, call, inbox,
                       launch>>
        /\ reply.stage # "none"
    BY <1>28 DEF TrafficLoad
  <2>2. ~Answered' /\ \A cmd : LastCall(cmd)' = LastCall(cmd)
    BY <1>28, <2>1 DEF TrafficLoad, Reply, LastCall
  <2> QED BY <2>1, <2>2
<1>29. CASE TrafficAnswer
  <2>1. /\ UNCHANGED <<pc, nft, acked, xdp, active, activeBy, call, inbox,
                       launch>>
        /\ reply.stage # "none"
    BY <1>29 DEF TrafficAnswer
  <2>2. pc # "clean_xdp" /\ \A cmd : LastCall(cmd)' = LastCall(cmd)
    BY <1>29, <2>1 DEF TrafficAnswer, CallInv, CommandAt, TrafficCommands,
                       LastCall
  <2> QED BY <2>1, <2>2
<1>30. CASE RecordProbe
  BY <1>30, <1>n1 DEF RecordProbe, LastCall
<1>31. CASE XdpRestart
  <2>1. /\ UNCHANGED <<pc, nft, acked, active, activeBy, call, launch, reply>>
        /\ xdp'.by = "startup"
        /\ inbox' = {r \in inbox : r.cmd \notin XdpCommands}
    BY <1>31 DEF XdpRestart, Fails
  <2>2. /\ \A cmd : LastCall(cmd)' = LastCall(cmd)
        /\ LastCall("stop").cmd \notin XdpCommands
    BY <2>1 DEF LastCall, XdpCommands, Modes
  <2> QED BY <2>1, <2>2
<1>32. CASE TrafficRestart
  <2>1. /\ UNCHANGED <<pc, nft, acked, xdp, call, launch>>
        /\ activeBy' = "startup" /\ (Answered' => Answered)
        /\ inbox' = {r \in inbox : r.cmd \notin TrafficCommands}
    BY <1>32, <1>n1 DEF TrafficRestart, Fails
  <2>2. /\ \A cmd : LastCall(cmd)' = LastCall(cmd)
        /\ LastCall("monitor").cmd \notin TrafficCommands
    BY <2>1 DEF LastCall, TrafficCommands
  <2> QED BY <2>1, <2>2
<1> QED
  BY <1>1, <1>2, <1>3, <1>4, <1>5, <1>6, <1>7, <1>8, <1>9, <1>10, <1>11,
     <1>12, <1>13, <1>14, <1>15, <1>16, <1>17, <1>18, <1>19, <1>20, <1>21,
     <1>22, <1>23, <1>24, <1>25, <1>26, <1>27, <1>28, <1>29, <1>30, <1>31,
     <1>32
     DEF Next, RunnerStep, Measure, GiveUp, Cleanup, Operator, ServerStep,
         Fault

(* From the effect of the stop to the next start call the load stays off.    *)
LEMMA LoadStep ==
    ASSUME TypeOK, LoopInv, CallInv, LoadInv, Next
    PROVE  LoadInv'
<1>n1. NoReply.stage = "none" /\ NoRequest \notin inbox
  BY ConstantTypes DEF NoReply, Reply, TypeOK
<1> USE DEF LoadInv, QuietWhileConfiguring, LoadIsItsOwn, Condition, Abort,
            HangUp, LeaveLoops, runnerVars, callVars, trafficVars, Running, Cleaning, Off,
            Awaiting, Answered
<1>1. CASE BeginCondition
  <2>1. UNCHANGED <<position, active, activeBy>>
    BY <1>1 DEF BeginCondition
  <2>2. pc = "condition" /\ pc' = "configuring"
    BY <1>1 DEF BeginCondition
  <2> QED BY <2>1, <2>2
<1>2. CASE Configured
  BY <1>2, <1>n1 DEF Configured
<1>3. CASE StartTraffic
  <2>1. /\ pc = "settling" /\ pc' = "starting" /\ position' = position
        /\ Send("start", Condition.pps)
    BY <1>3 DEF StartTraffic
  <2>2. call'.pps = Condition.pps /\ reply' = NoReply
    BY <2>1 DEF Send
  <2> QED BY <2>1, <2>2, <1>n1
<1>4. CASE Started
  BY <1>4, <1>n1 DEF Started
<1>5. CASE StopTraffic
  BY <1>5, <1>n1 DEF StopTraffic, Send
<1>6. CASE Stopped
  BY <1>6, <1>n1 DEF Stopped
<1>7. CASE QueryStatus
  BY <1>7, <1>n1 DEF QueryStatus, Send
<1>8. CASE StatusReceived
  BY <1>8, <1>n1 DEF StatusReceived
<1>9. CASE FinishCondition
  BY <1>9, <1>n1 DEF FinishCondition
<1>10. CASE Publish
  BY <1>10, <1>n1 DEF Publish
<1>11. CASE BeginConditionFails
  BY <1>11, <1>n1 DEF BeginConditionFails
<1>12. CASE EnableFails
  BY <1>12, <1>n1 DEF EnableFails
<1>13. CASE StartedAtAnotherRate
  BY <1>13, <1>n1 DEF StartedAtAnotherRate
<1>14. CASE RejectRun
  BY <1>14, <1>n1 DEF RejectRun
<1>15. CASE PublishFails
  BY <1>15, <1>n1 DEF PublishFails
<1>16. CASE CallFails
  BY <1>16, <1>n1 DEF CallFails
<1>17. CASE CountersUnreadable
  BY <1>17, <1>n1 DEF CountersUnreadable
<1>18. CASE CleanNft
  BY <1>18, <1>n1 DEF CleanNft
<1>19. CASE CleanXdp
  BY <1>19, <1>n1 DEF CleanXdp
<1>20. CASE Exit
  BY <1>20, <1>n1 DEF Exit
<1>21. CASE Launch
  BY <1>21, <1>n1 DEF Launch
<1>22. CASE Interrupt
  BY <1>22, <1>n1 DEF Interrupt
<1>23. CASE SignalUnavailable
  BY <1>23, <1>n1 DEF SignalUnavailable
<1>24. CASE Crash
  BY <1>24, <1>n1 DEF Crash
<1>25. CASE SinkFails
  BY <1>25, <1>n1 DEF SinkFails
<1>26. ASSUME NEW r \in inbox, SetMode(r) PROVE LoadInv'
  <2>1. UNCHANGED <<pc, position, call, active, activeBy, targetPps>>
    BY <1>26 DEF SetMode
  <2>2. pc \in {"starting", "stopping"} => reply' = reply
    BY <1>26 DEF SetMode, XdpCommands, Modes, CallInv, CommandAt
  <2> QED BY <2>1, <2>2
<1>27. ASSUME NEW r \in inbox, TrafficApply(r) PROVE LoadInv'
  <2>1. UNCHANGED <<pc, position, call>>
    BY <1>27 DEF TrafficApply
  <2>2. CASE r = call
    <3>1. pc = "stopping" => ServeStop(r)
      BY <1>27, <2>2
         DEF TrafficApply, ServeStart, ServeStatus, CallInv, CommandAt
    <3>2. pc = "querying" => ServeStatus(r)
      BY <1>27, <2>2
         DEF TrafficApply, ServeStart, ServeStop, CallInv, CommandAt
    <3>3. pc = "starting" => ServeStart(r)
      BY <1>27, <2>2
         DEF TrafficApply, ServeStop, ServeStatus, CallInv, CommandAt
    <3>4. /\ pc = "stopping" => ~active'
          /\ pc = "querying" => UNCHANGED <<active, activeBy>>
          /\ pc = "starting" => active' /\ targetPps' = Condition.pps
      BY <2>2, <3>1, <3>2, <3>3 DEF ServeStart, ServeStop, ServeStatus
    <3>5. pc \in Awaiting /\ pc # "configuring"
      BY <1>27, <2>2, <1>n1
         DEF TrafficApply, ServeStart, ServeStop, ServeStatus, CallInv,
             CommandAt, ModeFor
    <3> QED BY <2>1, <3>4, <3>5
  <2>3. CASE r # call
    <3>1. reply' = reply
      BY <1>27, <2>3 DEF TrafficApply
    <3>2. activeBy' = "late" \/ UNCHANGED <<active, activeBy, targetPps>>
      BY <1>27, <2>3
         DEF TrafficApply, ServeStart, ServeStop, ServeStatus, WrittenFor
    <3> QED BY <2>1, <3>1, <3>2
  <2> QED BY <2>2, <2>3
<1>28. CASE TrafficLoad
  BY <1>28, <1>n1 DEF TrafficLoad
<1>29. CASE TrafficAnswer
  BY <1>29, <1>n1 DEF TrafficAnswer
<1>30. CASE RecordProbe
  BY <1>30, <1>n1 DEF RecordProbe
<1>31. CASE XdpRestart
  BY <1>31, <1>n1 DEF XdpRestart, Fails
<1>32. CASE TrafficRestart
  BY <1>32, <1>n1 DEF TrafficRestart, Fails
<1> QED
  BY <1>1, <1>2, <1>3, <1>4, <1>5, <1>6, <1>7, <1>8, <1>9, <1>10, <1>11,
     <1>12, <1>13, <1>14, <1>15, <1>16, <1>17, <1>18, <1>19, <1>20, <1>21,
     <1>22, <1>23, <1>24, <1>25, <1>26, <1>27, <1>28, <1>29, <1>30, <1>31,
     <1>32
     DEF Next, RunnerStep, Measure, GiveUp, Cleanup, Operator, ServerStep,
         Fault

(* The one step that hands a run to the hub, whatever the runner makes of it *)
(* afterwards.                                                               *)
LEMMA HandOverStep ==
    ASSUME TypeOK, WindowInv, pc = "publishing", HandOver
    PROVE  PublishedWindowIsItsOwn'
<1>1. \A r \in published' : r \in published \/ r = Run
  BY DEF HandOver
<1>2. seen.owner # NoRequest
  BY DEF Valid, WindowInv, EmptyIfUnowned
<1>3. seen.owner.launch \in Nat \ {0} /\ launch \in Nat
  BY <1>2 DEF TypeOK, Windows, Requests
<1>4. seen.owner = startedBy \/ seen.owner.launch < launch
  BY <1>2 DEF WindowInv, NotForeign
<1>5. Run.window.owner # Run.startedBy
         => Run.window.owner.launch \in 1..(Run.launch - 1)
  BY <1>3, <1>4 DEF Run
<1> QED BY <1>1, <1>5 DEF PublishedWindowIsItsOwn, WindowInv

(* Between the effect of its start call and the publication of its run, no   *)
(* call of the same launch opens another window.                             *)
LEMMA WindowStep ==
    ASSUME TypeOK, CallInv, InboxInv, WindowInv, Next
    PROVE  WindowInv'
<1>n1. /\ NoReply.stage = "none" /\ NoReply.window = NoWindow
       /\ NoWindow.owner = NoRequest /\ NoWindow.checks = 0
       /\ NoRequest \notin inbox
  BY ConstantTypes DEF NoReply, Reply, NoWindow, TypeOK
<1>n2. ASSUME published' = published PROVE PublishedWindowIsItsOwn'
  BY <1>n2 DEF WindowInv, PublishedWindowIsItsOwn
<1> USE DEF WindowInv, EmptyIfUnowned, NotForeign, Valid, Abort, HangUp,
            LeaveLoops,
            runnerVars, callVars, trafficVars, Running, Cleaning, Off,
            Awaiting, Answered
<1>1. CASE BeginCondition
  <2>1. /\ pc = "condition" /\ pc' = "configuring"
        /\ UNCHANGED <<window, seen, published>>
    BY <1>1 DEF BeginCondition
  <2>2. reply' = NoReply
    BY <1>1 DEF BeginCondition, Send
  <2> QED BY <2>1, <2>2, <1>n1, <1>n2
<1>2. CASE Configured
  BY <1>2, <1>n1, <1>n2 DEF Configured
<1>3. CASE StartTraffic
  <2>1. /\ pc' = "starting" /\ startedBy' = call'
        /\ UNCHANGED <<window, seen, published>>
    BY <1>3 DEF StartTraffic
  <2>2. reply' = NoReply
    BY <1>3 DEF StartTraffic, Send
  <2> QED BY <2>1, <2>2, <1>n1, <1>n2
<1>4. CASE Started
  <2>1. /\ pc = "starting" /\ pc' = "measuring" /\ reply.stage # "none"
        /\ UNCHANGED <<window, seen, published, startedBy, launch>>
        /\ reply' = NoReply
    BY <1>4 DEF Started
  <2>2. startedBy \in Requests
    BY <2>1 DEF CallInv
  <2> QED BY <2>1, <2>2, <1>n1, <1>n2
<1>5. CASE StopTraffic
  BY <1>5, <1>n1, <1>n2 DEF StopTraffic, Send
<1>6. CASE Stopped
  BY <1>6, <1>n1, <1>n2 DEF Stopped
<1>7. CASE QueryStatus
  BY <1>7, <1>n1, <1>n2 DEF QueryStatus, Send
<1>8. CASE StatusReceived
  BY <1>8, <1>n1, <1>n2 DEF StatusReceived
<1>9. CASE FinishCondition
  BY <1>9, <1>n1, <1>n2 DEF FinishCondition
<1>10. CASE Publish
  <2>1. PublishedWindowIsItsOwn'
    BY <1>10, HandOverStep DEF Publish
  <2>2. /\ pc' \in {"clean_nft", "condition"} /\ seen' = NoWindow
        /\ UNCHANGED <<reply, window>>
    BY <1>10 DEF Publish
  <2> QED BY <2>1, <2>2, <1>n1
<1>11. CASE BeginConditionFails
  BY <1>11, <1>n1, <1>n2 DEF BeginConditionFails
<1>12. CASE EnableFails
  BY <1>12, <1>n1, <1>n2 DEF EnableFails
<1>13. CASE StartedAtAnotherRate
  BY <1>13, <1>n1, <1>n2 DEF StartedAtAnotherRate
<1>14. CASE RejectRun
  BY <1>14, <1>n1, <1>n2 DEF RejectRun
<1>15. CASE PublishFails
  <2>1. PublishedWindowIsItsOwn'
    BY <1>15, <1>n2, HandOverStep DEF PublishFails, AbandonRun
  <2>2. /\ pc' \notin Running /\ reply' = NoReply
        /\ seen' = NoWindow /\ window' = window
    BY <1>15 DEF PublishFails
  <2> QED BY <2>1, <2>2, <1>n1
<1>16. CASE CallFails
  BY <1>16, <1>n1, <1>n2 DEF CallFails
<1>17. CASE CountersUnreadable
  BY <1>17, <1>n1, <1>n2 DEF CountersUnreadable
<1>18. CASE CleanNft
  <2>1. /\ pc = "clean_nft" /\ pc' = "clean_xdp"
        /\ UNCHANGED <<window, seen, published>>
    BY <1>18 DEF CleanNft
  <2>2. reply' = NoReply
    BY <1>18 DEF CleanNft, Send
  <2> QED BY <2>1, <2>2, <1>n1, <1>n2
<1>19. CASE CleanXdp
  <2>1. /\ pc = "clean_xdp" /\ pc' = "clean_traffic"
        /\ UNCHANGED <<window, seen, published>>
    BY <1>19 DEF CleanXdp
  <2>2. reply' = NoReply
    BY <1>19 DEF CleanXdp, Send
  <2> QED BY <2>1, <2>2, <1>n1, <1>n2
<1>20. CASE Exit
  BY <1>20, <1>n1, <1>n2 DEF Exit
<1>21. CASE Launch
  BY <1>21, <1>n1, <1>n2 DEF Launch
<1>22. CASE Interrupt
  <2>1. PublishedWindowIsItsOwn'
    BY <1>22, <1>n2, HandOverStep DEF Interrupt, AbandonRun
  <2>2. /\ pc' \notin Running /\ reply' = NoReply
        /\ seen' = NoWindow /\ window' = window
    BY <1>22 DEF Interrupt
  <2> QED BY <2>1, <2>2, <1>n1
<1>23. CASE SignalUnavailable
  BY <1>23, <1>n1, <1>n2 DEF SignalUnavailable
<1>24. CASE Crash
  <2>1. PublishedWindowIsItsOwn'
    BY <1>24, <1>n2, HandOverStep DEF Crash, AbandonRun
  <2>2. /\ pc' \notin Running /\ reply' = NoReply
        /\ seen' = NoWindow /\ window' = window
    BY <1>24 DEF Crash
  <2> QED BY <2>1, <2>2, <1>n1
<1>25. CASE SinkFails
  BY <1>25, <1>n1, <1>n2 DEF SinkFails
<1>26. ASSUME NEW r \in inbox, SetMode(r) PROVE WindowInv'
  <2>1. UNCHANGED <<pc, launch, startedBy, seen, call, window, published>>
    BY <1>26 DEF SetMode
  <2>2. reply' = reply \/ reply'.window = NoWindow
    BY <1>26 DEF SetMode, Reply
  <2>3. pc \in {"starting", "querying"} => reply' = reply
    BY <1>26 DEF SetMode, XdpCommands, Modes, CallInv, CommandAt
  <2> QED BY <2>1, <2>2, <2>3, <1>n1, <1>n2
<1>27. ASSUME NEW r \in inbox, TrafficApply(r) PROVE WindowInv'
  <2>1. UNCHANGED <<pc, launch, startedBy, seen, call, published>>
    BY <1>27 DEF TrafficApply
  <2>2. \/ window' = window
        \/ window' = [owner |-> r, checks |-> 0] /\ r.cmd = "start"
    BY <1>27 DEF TrafficApply, ServeStart, ServeStop, ServeStatus
  <2>3. \/ reply' = reply
        \/ reply'.window = NoWindow /\ reply'.stage = "applied"
    BY <1>27 DEF TrafficApply, Reply
  <2>4. EmptyIfUnowned(window)' /\ EmptyIfUnowned(reply.window)'
    BY <2>2, <2>3, <1>n1
  <2>5. ASSUME pc \in Running, pc # "starting", NotForeign(window)
        PROVE  NotForeign(window)'
    <3>1. CASE r = call
      <4>1. r.cmd # "start"
        BY <2>5, <3>1, <1>n1 DEF CallInv, CommandAt, ModeFor
      <4> QED BY <2>1, <2>2, <2>5, <4>1
    <3>2. CASE r # call
      <4>1. r.launch < launch
        BY <2>5, <3>2 DEF InboxInv, TypeOK, Requests
      <4> QED BY <2>1, <2>2, <2>5, <4>1
    <3> QED BY <3>1, <3>2
  <2>6. ASSUME pc = "starting", reply'.stage # "none" PROVE NotForeign(window)'
    <3>1. CASE r = call
      <4>1. window' = [owner |-> r, checks |-> 0]
        BY <1>27, <2>6, <3>1
           DEF TrafficApply, ServeStart, ServeStop, ServeStatus,
                                CallInv, CommandAt
      <4> QED BY <2>1, <2>6, <3>1, <4>1
    <3>2. CASE r # call
      <4>1. reply' = reply
        BY <1>27, <3>2 DEF TrafficApply
      <4>2. NotForeign(window)
        BY <2>6, <4>1
      <4>3. r.launch < launch
        BY <2>6, <3>2 DEF InboxInv, TypeOK, Requests
      <4> QED BY <2>1, <2>2, <4>2, <4>3
    <3> QED BY <3>1, <3>2
  <2>7. pc = "querying" /\ Answered' => NotForeign(reply.window)'
    BY <2>1, <2>3, <1>n1
  <2> QED BY <2>1, <2>4, <2>5, <2>6, <2>7, <1>n2
<1>28. CASE TrafficLoad
  <2>1. UNCHANGED <<pc, launch, startedBy, seen, call, window, published>>
    BY <1>28 DEF TrafficLoad
  <2>2. reply.stage # "none" /\ reply'.window = NoWindow
    BY <1>28 DEF TrafficLoad, Reply
  <2> QED BY <2>1, <2>2, <1>n1, <1>n2
<1>29. CASE TrafficAnswer
  <2>1. UNCHANGED <<pc, launch, startedBy, seen, call, window, published>>
    BY <1>29 DEF TrafficAnswer
  <2>2. reply.stage # "none" /\ reply'.window = window
    BY <1>29 DEF TrafficAnswer, Reply
  <2> QED BY <2>1, <2>2, <1>n1, <1>n2
<1>30. CASE RecordProbe
  BY <1>30, <1>n1, <1>n2 DEF RecordProbe
<1>31. CASE XdpRestart
  BY <1>31, <1>n1, <1>n2 DEF XdpRestart, Fails
<1>32. CASE TrafficRestart
  BY <1>32, <1>n1, <1>n2 DEF TrafficRestart, Fails
<1> QED
  BY <1>1, <1>2, <1>3, <1>4, <1>5, <1>6, <1>7, <1>8, <1>9, <1>10, <1>11,
     <1>12, <1>13, <1>14, <1>15, <1>16, <1>17, <1>18, <1>19, <1>20, <1>21,
     <1>22, <1>23, <1>24, <1>25, <1>26, <1>27, <1>28, <1>29, <1>30, <1>31,
     <1>32
     DEF Next, RunnerStep, Measure, GiveUp, Cleanup, Operator, ServerStep,
         Fault

-----------------------------------------------------------------------------
(* The programs start within the invariant. *)
LEMMA InitInv == Init => Inv
<1> SUFFICES ASSUME Init PROVE Inv
  OBVIOUS
<1> USE ConstantTypes, EndIsNoPosition, ServerAssumption DEF Init
<1>1. TypeOK
  BY DEF TypeOK, Provenance, Off, Servers
<1>2. CallInv /\ InboxInv /\ LoopInv
  BY DEF CallInv, InboxInv, LoopInv, Awaiting, Running, NoReply, Reply
<1>3. DropPointInv /\ CleanInv /\ LoadInv
  BY DEF DropPointInv, MeasuredUnderItsDropPoint, Measuring, CleanInv, LoadInv,
         QuietWhileConfiguring, LoadIsItsOwn, Running
<1>4. WindowInv
  BY DEF WindowInv, EmptyIfUnowned, NoWindow, NoReply, Reply,
         PublishedWindowIsItsOwn
<1> QED BY <1>1, <1>2, <1>3, <1>4 DEF Inv

(* Every step of every program keeps the invariant. *)
LEMMA NextInv == Inv /\ [Next]_vars => Inv'
<1> SUFFICES ASSUME Inv, [Next]_vars PROVE Inv'
  OBVIOUS
<1>1. CASE Next
  <2>1. pc = "publishing" => startedBy \in Requests
    BY DEF Inv, WindowInv
  <2> QED BY <1>1, <2>1, TypeStep, CallStep, InboxStep, DropPointStep,
             CleanStep,
             LoadStep, WindowStep DEF Inv
<1>2. CASE UNCHANGED vars
  <2> USE <1>2 DEF vars, Inv
  <2>1. TypeOK' /\ InboxInv' /\ LoopInv'
    BY DEF TypeOK, InboxInv, LoopInv
  <2>2. /\ Condition' = Condition /\ CommandAt' = CommandAt
        /\ Answered' = Answered
    BY DEF Condition, CommandAt, Answered
  <2>3. CallInv' /\ DropPointInv' /\ CleanInv'
    BY <2>2 DEF CallInv, DropPointInv, MeasuredUnderItsDropPoint, CleanInv,
                LastCall
  <2>4. LoadInv' /\ WindowInv'
    BY <2>2
       DEF LoadInv, QuietWhileConfiguring, LoadIsItsOwn, WindowInv,
           EmptyIfUnowned, NotForeign, Valid, PublishedWindowIsItsOwn
  <2> QED BY <2>1, <2>3, <2>4
<1> QED BY <1>1, <1>2

(* Every behaviour of the runner, its servers and their faults stays within  *)
(* the inductive invariant.                                                  *)
THEOREM InvAlways == Spec => []Inv
<1>1. Init => Inv
  BY InitInv
<1>2. Inv /\ [Next]_vars => Inv'
  BY NextInv
<1> QED BY <1>1, <1>2, PTL DEF Spec

(* Every variable keeps its type: in particular the loops never index a rate *)
(* or a drop point out of range, and every run handed to the hub is one of   *)
(* the plan.                                                                 *)
THEOREM TypeCorrect == Spec => []TypeOK
<1>1. Inv => TypeOK
  BY DEF Inv
<1> QED BY <1>1, InvAlways, PTL

(* configure_drop_point and its callers, at every length of plan and under   *)
(* every interleaving of timeouts, restarts and relaunches: from the end of  *)
(* its configuration until it is published a measurement stands under its    *)
(* own drop point.                                                           *)
THEOREM DropPointHolds == Spec => []MeasuredUnderItsDropPoint
<1>1. Inv => MeasuredUnderItsDropPoint
  BY DEF Inv, DropPointInv
<1> QED BY <1>1, InvAlways, PTL

(* The cleanup of main(): what it reports as undone is undone when the       *)
(* runner has exited, and the call that undoes what is left was made, unless *)
(* a restart or a given-up call wrote last.                                  *)
THEOREM CleanupCorrect == Spec => []CleanupHolds
<1>1. Inv => CleanupHolds
  BY DEF Inv, CleanInv, CleanupHolds
<1> QED BY <1>1, InvAlways, PTL

(* Between two measurements of an experiment the load is off: run_condition  *)
(* never configures a drop point under the load of its predecessor.          *)
THEOREM QuietCorrect == Spec => []QuietWhileConfiguring
<1>1. Inv => QuietWhileConfiguring
  BY DEF Inv, LoadInv
<1> QED BY <1>1, InvAlways, PTL

(* start_traffic and its check of the rate: a measurement has the load its   *)
(* own start call asked for, whatever an earlier launch left running, unless *)
(* a restart or a given-up call wrote last.                                  *)
THEOREM LoadCorrect == Spec => []LoadIsItsOwn
<1>1. Inv => LoadIsItsOwn
  BY DEF Inv, LoadInv
<1> QED BY <1>1, InvAlways, PTL

(* A run handed to the hub carries the window of its own start call, or of   *)
(* one an earlier launch gave up: never that of another measurement of its   *)
(* launch.                                                                   *)
THEOREM WindowCorrect == Spec => []PublishedWindowIsItsOwn
<1>1. Inv => PublishedWindowIsItsOwn
  BY DEF Inv, WindowInv
<1> QED BY <1>1, InvAlways, PTL

(* Only a publishing runner hands a run over, with its load at rest. *)
LEMMA PublishStep ==
    Inv /\ [Next]_vars
        => [published' # published => (activeBy = "call" => ~active)]_vars
<1> SUFFICES ASSUME Inv, Next, published' # published
             PROVE  activeBy = "call" => ~active
  BY DEF vars
<1>1. pc = "publishing"
  <2> USE DEF Abort, runnerVars, callVars, trafficVars
  <2>1. CASE Measure
    BY <2>1
       DEF Measure, BeginCondition, Configured, StartTraffic, Started,
           StopTraffic,
                Stopped, QueryStatus, StatusReceived, FinishCondition, Publish
  <2>2. CASE GiveUp
    BY <2>2
       DEF GiveUp, BeginConditionFails, EnableFails, StartedAtAnotherRate,
           RejectRun,
                PublishFails, CallFails, CountersUnreadable
  <2>3. CASE Cleanup
    BY <2>3 DEF Cleanup, CleanNft, CleanXdp, Exit
  <2>4. CASE Operator
    BY <2>4
       DEF Operator, Launch, Interrupt, SignalUnavailable, Crash, SinkFails,
           AbandonRun
  <2>5. CASE ServerStep
    BY <2>5
       DEF ServerStep, SetMode, TrafficApply, TrafficLoad, TrafficAnswer,
           RecordProbe
  <2>6. CASE Fault
    BY <2>6 DEF Fault, XdpRestart, TrafficRestart, Fails
  <2> QED BY <2>1, <2>2, <2>3, <2>4, <2>5, <2>6 DEF Next, RunnerStep
<1> QED BY <1>1 DEF Inv, LoadInv

(* publish_run writes nothing before the stop of its measurement took effect: *)
(* what is handed to the hub was measured over a load that has ended, though  *)
(* the next one may be on when the hub reads it.                              *)
THEOREM RestCorrect == Spec => PublishesAtRest
<1>1. Inv /\ [Next]_vars
         => [published' # published => (activeBy = "call" => ~active)]_vars
  BY PublishStep
<1> QED BY <1>1, InvAlways, PTL DEF Spec, PublishesAtRest

-----------------------------------------------------------------------------
(* The measurements of an experiment: while the loops go on, exactly those   *)
(* they have passed are handed over, each once; when run_experiment has      *)
(* returned Ok, all of them are.                                             *)
RunsInv ==
    /\ \A r, s \in published :
          r.launch = s.launch /\ r.condition = s.condition => r = s
    /\ \A r \in published : r.launch <= launch
    /\ pc \in Running => Unreported = Remaining(position) /\ ~completed
    /\ pc \in Cleaning /\ completed => Unreported = {}

(* A run is added by publish_run alone. Its loops go on with Publish; else   *)
(* they are left.                                                            *)
LEMMA LoopSteps ==
    ASSUME Next
    PROVE  \/ Launch \/ Publish
           \/ /\ UNCHANGED <<published, launch>>
              /\ pc' \in Running => pc \in Running /\ UNCHANGED position
              /\ pc' \in Running \cup Cleaning =>
                    pc \in Running \cup Cleaning /\ UNCHANGED completed
           \/ /\ pc = "publishing" /\ HandOver /\ pc' \notin Running
              /\ UNCHANGED <<launch, completed>>
<1> USE DEF Abort, runnerVars, callVars, trafficVars, Running, Cleaning
<1>1. CASE Measure
  BY <1>1
     DEF Measure, BeginCondition, Configured, StartTraffic, Started,
         StopTraffic, Stopped, QueryStatus, StatusReceived, FinishCondition
<1>2. CASE GiveUp
  BY <1>2
     DEF GiveUp, BeginConditionFails, EnableFails, StartedAtAnotherRate,
         RejectRun, PublishFails, AbandonRun, CallFails, CountersUnreadable,
         Awaiting
<1>3. CASE Cleanup
  BY <1>3 DEF Cleanup, CleanNft, CleanXdp, Exit
<1>4. CASE Operator
  BY <1>4 DEF Operator, Interrupt, SignalUnavailable, Crash, SinkFails,
              AbandonRun
<1>5. CASE ServerStep
  BY <1>5
     DEF ServerStep, SetMode, TrafficApply, TrafficLoad, TrafficAnswer,
         RecordProbe
<1>6. CASE Fault
  BY <1>6 DEF Fault, XdpRestart, TrafficRestart, Fails
<1> QED BY <1>1, <1>2, <1>3, <1>4, <1>5, <1>6 DEF Next, RunnerStep

(* The run that is added is the first of its measurement, which is then the  *)
(* one that is no longer left.                                               *)
LEMMA HandOverRuns ==
    ASSUME TypeOK, LoopInv, RunsInv, pc = "publishing", HandOver,
           UNCHANGED launch
    PROVE  /\ \A r, s \in published' :
                 r.launch = s.launch /\ r.condition = s.condition => r = s
           /\ \A r \in published' : r.launch <= launch
           /\ Unreported' = Unreported \ {Condition}
           /\ Unreported' = Remaining(NextPosition(position))
           /\ Condition \in Unreported
<1>1. /\ position \in Positions /\ launch \in Nat /\ pc \in Running
      /\ published' = published \cup {Run}
      /\ Run.launch = launch /\ Run.condition = Condition
  BY DEF TypeOK, LoopInv, Running, HandOver, Run
<1>2. /\ Condition \in Remaining(position)
      /\ Remaining(NextPosition(position)) = Remaining(position) \ {Condition}
  BY <1>1, RemainingStep DEF Condition
<1>3. Unreported = Remaining(position) /\ Condition \in Unreported
  BY <1>1, <1>2 DEF RunsInv
<1>4. \A r \in published :
         ~(r.launch = Run.launch /\ r.condition = Run.condition)
  BY <1>1, <1>3 DEF Unreported
<1>5. /\ \A r, s \in published :
            r.launch = s.launch /\ r.condition = s.condition => r = s
      /\ \A r \in published : r.launch <= launch
  BY DEF RunsInv
<1>6. Unreported' = Unreported \ {Condition}
  BY <1>1 DEF Unreported
<1> QED BY <1>1, <1>2, <1>3, <1>4, <1>5, <1>6

LEMMA RunsNext == Inv /\ Inv' /\ RunsInv /\ [Next]_vars => RunsInv'
<1> SUFFICES ASSUME Inv, Inv', RunsInv, [Next]_vars PROVE RunsInv'
  OBVIOUS
<1>0. /\ TypeOK /\ LoopInv /\ LoopInv' /\ launch \in Nat
      /\ \A r \in published : r.launch \in Nat
  BY DEF Inv, TypeOK, Runs
<1>n2. ASSUME UNCHANGED <<published, launch>> PROVE Unreported' = Unreported
  BY <1>n2 DEF Unreported
<1>1. CASE Launch
  <2>1. /\ launch' = launch + 1 /\ published' = published
        /\ completed' = FALSE /\ position' = FirstPosition
    BY <1>1 DEF Launch
  <2>2. \A r \in published : r.launch <= launch' /\ r.launch # launch'
    BY <1>0, <2>1 DEF RunsInv
  <2>3. Unreported' = Plan
    BY <2>1, <2>2 DEF Unreported
  <2>4. Remaining(position)' = Plan
    BY <2>1, RemainingAtTheEnds
  <2> QED BY <2>1, <2>2, <2>3, <2>4 DEF RunsInv
<1>2. CASE Publish
  <2>1. /\ pc = "publishing" /\ launch' = launch /\ HandOver
        /\ position' = NextPosition(position)
        /\ completed' = (position' = EndPosition)
        /\ pc' = IF completed' THEN "clean_nft" ELSE "condition"
    BY <1>2 DEF Publish
  <2>2. Unreported' = Remaining(position)'
    BY <1>0, <2>1, HandOverRuns
  <2>3. completed' => Unreported' = {}
    BY <2>1, <2>2, RemainingAtTheEnds
  <2>4. pc' \in Running => ~completed'
    BY <2>1 DEF Running
  <2> QED BY <1>0, <2>1, <2>2, <2>3, <2>4, HandOverRuns DEF RunsInv
<1>3. CASE /\ UNCHANGED <<published, launch>>
           /\ pc' \in Running => pc \in Running /\ UNCHANGED position
           /\ pc' \in Running \cup Cleaning =>
                 pc \in Running \cup Cleaning /\ UNCHANGED completed
  <2>1. pc' \in Running => Unreported' = Remaining(position)' /\ ~completed'
    BY <1>3, <1>n2 DEF RunsInv
  <2>2. pc' \in Cleaning /\ completed' => Unreported' = {}
    BY <1>3, <1>n2 DEF RunsInv
  <2> QED BY <1>3, <2>1, <2>2 DEF RunsInv
<1>4. CASE /\ pc = "publishing" /\ HandOver /\ pc' \notin Running
           /\ UNCHANGED <<launch, completed>>
  <2>1. ~completed'
    BY <1>4 DEF RunsInv, Running
  <2> QED BY <1>0, <1>4, <2>1, HandOverRuns DEF RunsInv
<1>5. CASE UNCHANGED vars
  BY <1>5, <1>n2 DEF RunsInv, vars
<1> QED BY <1>1, <1>2, <1>3, <1>4, <1>5, LoopSteps

THEOREM RunsInvAlways == Spec => []RunsInv
<1>1. Init => RunsInv
  BY DEF Init, RunsInv, Running, Cleaning
<1> QED BY <1>1, RunsNext, InvAlways, PTL DEF Spec

(* run_experiment, publish_run: whatever fails or is interrupted, no second  *)
(* run of a measurement is handed to the hub, and while the loops go on they *)
(* have left none out that they passed.                                      *)
THEOREM OneRunCorrect == Spec => []OneRunPerCondition
<1>1. RunsInv => OneRunPerCondition
  BY DEF RunsInv, OneRunPerCondition
<1> QED BY <1>1, RunsInvAlways, PTL

-----------------------------------------------------------------------------
(* The runner as the experiment of SweepPromise                              *)

(* An experiment lasts while the loops run, and, after them, until the       *)
(* cleanup is over.                                                          *)
LEMMA PhaseIs ==
    /\ pc = "off" => phase = "idle"
    /\ pc \in Running => phase = "running"
    /\ pc \in Cleaning => phase = IF completed THEN "running" ELSE "failed"
    /\ pc = "exited" => phase = IF Success THEN "succeeded" ELSE "failed"
    /\ pc = "crashed" => phase = "failed"
BY DEF phase, Running, Cleaning

LEMMA PhaseWillBe ==
    /\ pc' = "off" => phase' = "idle"
    /\ pc' \in Running => phase' = "running"
    /\ pc' \in Cleaning => phase' = IF completed' THEN "running" ELSE "failed"
    /\ pc' = "exited" => phase' = IF Success' THEN "succeeded" ELSE "failed"
    /\ pc' = "crashed" => phase' = "failed"
BY DEF phase, Running, Cleaning

(* run_experiment gives up: an experiment under way fails.                   *)
LEMMA GivingUpFails ==
    ASSUME TypeOK', RunsInv, pc \in Running, UNCHANGED completed,
           pc' \in Cleaning \cup {"crashed"}
    PROVE  Promise!Fail
<1>1. phase = "running" /\ phase' = "failed"
  BY PhaseIs, PhaseWillBe DEF RunsInv
<1>2. nft' \in BOOLEAN
  BY DEF TypeOK
<1> QED BY <1>1, <1>2 DEF Promise!Fail

LEMMA NextIsPromised ==
    ASSUME Inv, Inv', RunsInv, RunsInv', Next
    PROVE  Promise!Next \/ UNCHANGED Promise!vars
<1>0. TypeOK /\ TypeOK' /\ LoopInv /\ LoopInv'
  BY DEF Inv
<1>1. nft \in BOOLEAN /\ nft' \in BOOLEAN
  BY <1>0 DEF TypeOK
<1> USE DEF Promise!Next, Promise!vars
<1>n. ASSUME UNCHANGED <<published, launch>> PROVE Unreported' = Unreported
  BY <1>n DEF Unreported
(* The loops go on, or the cleanup after them: the rule may change.          *)
<1>2. ASSUME phase' = phase, phase \in {"running", "failed"},
             UNCHANGED <<published, launch>>
      PROVE  Promise!ChangeRule
  BY <1>1, <1>2, <1>n DEF Promise!ChangeRule
<1>3. ASSUME UNCHANGED <<phase, published, launch, nft>>
      PROVE  UNCHANGED Promise!vars
  BY <1>3, <1>n
<1>4. CASE Launch
  <2>1. /\ pc \in Off /\ pc' = "condition" /\ position' = FirstPosition
        /\ nft' = nft
    BY <1>4 DEF Launch
  <2>2. phase # "running" /\ phase' = "running"
    <3>1. phase # "running"
      BY <2>1, PhaseIs DEF Off
    <3>2. phase' = "running"
      BY <2>1, PhaseWillBe DEF Running
    <3> QED BY <3>1, <3>2
  <2>3. Unreported' = Plan
    BY <2>1, RemainingAtTheEnds DEF RunsInv, Running
  <2>4. Promise!Begin
    BY <2>1, <2>2, <2>3 DEF Promise!Begin
  <2> QED BY <2>4
<1>5. CASE Publish
  <2>1. /\ pc = "publishing" /\ HandOver /\ UNCHANGED launch
        /\ pc' = (IF completed' THEN "clean_nft" ELSE "condition")
        /\ nft' = nft
    BY <1>5 DEF Publish
  <2>2. phase = "running" /\ phase' = "running"
    BY <2>1, PhaseIs, PhaseWillBe DEF Running, Cleaning
  <2>3. Condition \in Unreported /\ Unreported' = Unreported \ {Condition}
    BY <1>0, <2>1, HandOverRuns
  <2>4. Promise!Report
    BY <2>1, <2>2, <2>3 DEF Promise!Report
  <2> QED BY <2>4
<1>6. CASE Measure /\ ~Publish
  <2>1. pc \in Running /\ pc' \in Running /\ UNCHANGED <<published, launch>>
    BY <1>6 DEF Measure, BeginCondition, Configured, StartTraffic, Started,
                StopTraffic, Stopped, QueryStatus, StatusReceived,
                FinishCondition, Running
  <2>2. phase = "running" /\ phase' = "running"
    BY <2>1, PhaseIs, PhaseWillBe
  <2> QED BY <1>2, <2>1, <2>2
<1>7. CASE GiveUp \/ Interrupt
  <2>1. pc \in Running
    BY <1>7
       DEF GiveUp, BeginConditionFails, EnableFails, StartedAtAnotherRate,
           RejectRun, PublishFails, CallFails, CountersUnreadable, Interrupt,
           Running
  <2>2. Abort
    BY <1>7
       DEF GiveUp, BeginConditionFails, EnableFails, StartedAtAnotherRate,
           RejectRun, PublishFails, CallFails, CountersUnreadable, Interrupt
  <2> QED BY <1>0, <2>1, <2>2, GivingUpFails DEF Abort, Cleaning
<1>8. CASE CleanNft \/ CleanXdp
  <2>1. /\ pc \in Cleaning /\ pc' \in Cleaning /\ completed' = completed
        /\ UNCHANGED <<published, launch>>
    BY <1>8 DEF CleanNft, CleanXdp, Cleaning
  <2>2. phase' = phase /\ phase \in {"running", "failed"}
    BY <2>1, PhaseIs, PhaseWillBe
  <2> QED BY <1>2, <2>1, <2>2
<1>9. CASE Exit
  <2>1. /\ pc = "clean_traffic" /\ pc' = "exited" /\ completed' = completed
        /\ UNCHANGED <<published, launch>>
    BY <1>9 DEF Exit
  <2>2. /\ phase = IF completed THEN "running" ELSE "failed"
        /\ phase' = IF Success' THEN "succeeded" ELSE "failed"
    BY <2>1, PhaseIs, PhaseWillBe DEF Cleaning
  <2>3. completed => Unreported = {}
    BY <2>1 DEF RunsInv, Cleaning
  <2>4. Success' => completed /\ nft' = FALSE
    <3>1. Success' => completed' /\ "nft" \in acked'
      BY DEF Success, Cleanups
    <3>2. "nft" \in acked' => ~nft'
      BY <2>1 DEF Inv, CleanInv
    <3>3. "nft" \in acked' => nft' = FALSE
      BY <1>1, <3>2
    <3> QED BY <2>1, <3>1, <3>3
  <2>5. CASE Success'
    <3>1. Promise!Succeed
      BY <2>2, <2>3, <2>4, <2>5 DEF Promise!Succeed
    <3> QED BY <3>1
  <2>6. CASE ~Success' /\ completed
    <3>1. Promise!Fail
      BY <1>1, <2>2, <2>6 DEF Promise!Fail
    <3> QED BY <3>1
  <2>7. CASE ~Success' /\ ~completed
    <3>1. phase = "failed" /\ phase' = "failed"
      BY <2>2, <2>7
    <3> QED BY <1>2, <2>1, <3>1
  <2> QED BY <2>5, <2>6, <2>7
<1>10. CASE SignalUnavailable
  <2>1. /\ pc \in Running /\ pc' = "crashed" /\ completed' = completed
    BY <1>10 DEF SignalUnavailable, Running
  <2> QED BY <1>0, <2>1, GivingUpFails
<1>11. CASE Crash
  <2>1. /\ pc \in Running \cup Cleaning /\ pc' = "crashed"
        /\ UNCHANGED <<completed, nft>>
    BY <1>11 DEF Crash
  <2>2. phase' = "failed"
    BY <2>1, PhaseWillBe
  <2>3. CASE phase = "running"
    <3>1. Promise!Fail
      BY <1>1, <2>2, <2>3 DEF Promise!Fail
    <3> QED BY <3>1
  <2>4. CASE phase # "running"
    <3>1. pc \in Cleaning /\ pc \notin Running
      BY <2>1, <2>4, PhaseIs
    <3>2. phase = "failed" /\ UNCHANGED Promise!vars
      BY <2>1, <2>2, <2>4, <3>1, PhaseIs
    <3> QED BY <3>2
  <2> QED BY <2>3, <2>4
<1>12. CASE SinkFails \/ ServerStep \/ Fault
  <2>1. UNCHANGED <<pc, published, launch, completed, acked, nft>>
    BY <1>12
       DEF SinkFails, ServerStep, SetMode, TrafficApply, TrafficLoad,
           TrafficAnswer, RecordProbe, Fault, XdpRestart, TrafficRestart,
           Fails, runnerVars
  <2>2. phase' = phase
    BY <2>1 DEF phase, Success, Running, Cleaning
  <2> QED BY <1>3, <2>1, <2>2
<1> QED BY <1>4, <1>5, <1>6, <1>7, <1>8, <1>9, <1>10, <1>11, <1>12
        DEF Next, RunnerStep, Cleanup, Operator

(* The nested loops, the error paths and the cleanup of main() implement the *)
(* experiment of SweepPromise: no measurement of the plan is handed to the   *)
(* hub twice, an exit with success comes after every one of them was handed  *)
(* over, and leaves no drop rule.                                            *)
THEOREM SweepImplemented == Spec => SweepPromiseKept
<1>1. Init => Promise!Init
  <2> SUFFICES ASSUME Init PROVE Promise!Init
    OBVIOUS
  <2>1. phase = "idle" /\ nft = FALSE
    BY PhaseIs DEF Init
  <2> QED BY <2>1 DEF Promise!Init
<1>2. Inv /\ Inv' /\ RunsInv /\ RunsInv' /\ [Next]_vars
         => [Promise!Next]_(Promise!vars)
  <2> SUFFICES ASSUME Inv, Inv', RunsInv, RunsInv', [Next]_vars
               PROVE  Promise!Next \/ UNCHANGED Promise!vars
    OBVIOUS
  <2>1. CASE UNCHANGED vars
    <3>1. phase' = phase /\ Unreported' = Unreported
      BY <2>1 DEF phase, Success, Running, Cleaning, Unreported, vars
    <3> QED BY <2>1, <3>1 DEF vars, Promise!vars
  <2> QED BY <2>1, NextIsPromised
<1> QED BY <1>1, <1>2, InvAlways, RunsInvAlways, PTL
        DEF Spec, SweepPromiseKept, Promise!Spec
=============================================================================
