---------------------------- MODULE LoadReports ----------------------------
(* What the observation hub learns of traffic-node's load. The attack        *)
(* worker's report, every start and stop, and the console publish the same   *)
(* attack_state event, each over a TCP connection of its own                 *)
(* (publish_attack_state, publish_event), so that the hub may take them in   *)
(* another order than they were decided in, and loses those that find it     *)
(* away.                                                                     *)
EXTENDS TrafficNode

CONSTANT MaxOutages    \* bound: how often the hub goes away

ASSUME OutageAssumption == MaxOutages \in Nat

VARIABLES
    inFlight,     \* the `active' of the attack_state events on their way
    shown,        \* that of the last one the hub ingested
    hub,          \* does it accept, refuse or ignore connections?
    outages       \* how often it has gone away

hubVars == <<inFlight, shown, hub, outages>>
vars == <<nodeVars, inFlight, shown, hub, outages>>
-----------------------------------------------------------------------------
Init ==
    /\ InitNode
    /\ inFlight = {} /\ shown = FALSE /\ hub = "up" /\ outages = 0

(* publish_event: a connection, a line, no answer awaited and no timeout. It *)
(* fails at once when the hub refuses it; a hub that is silent, its machine  *)
(* off or out of reach, leaves the caller waiting.                           *)
Emit(value) ==
    /\ hub # "silent"
    /\ inFlight' = IF hub = "up" THEN inFlight \cup {value} ELSE inFlight
    /\ UNCHANGED <<shown, hub, outages>>

EmitReport == Report /\ Emit(attack.active)

EmitChange(c) == PublishChange(c) /\ Emit(conn[c].active)

EmitConsole == ConsolePublish /\ Emit(console = "attack")

(* The steps of traffic-node that publish nothing. *)
ServeSilently(c) ==
    \/ StoreRate(c) \/ RejectRate(c) \/ ResetWindow(c) \/ Activate(c)
    \/ Deactivate(c) \/ ReadActive(c) \/ LoadTotals(c) \/ Summarize(c)

Silent ==
    /\ \/ HealthStep
       \/ SendTick \/ SendTickIdle \/ SendPacket \/ CountPacket \/ SendFails
       \/ ReportTick
       \/ \E c \in Conns : ServeSilently(c) \/ ClientStep(c)
       \/ ConsoleAttack \/ ConsoleStop \/ Quit
    /\ UNCHANGED hubVars

(* The hub ingests one of the events that have reached it. *)
HubIngest(value) ==
    /\ hub = "up" /\ value \in inFlight
    /\ inFlight' = inFlight \ {value}
    /\ shown' = value
    /\ UNCHANGED <<nodeVars, hub, outages>>

(* The hub is stopped, with what it has not read, or out of reach; `shown'   *)
(* is what dashboards still display.                                         *)
HubGoes(how) ==
    /\ hub = "up" /\ outages < MaxOutages
    /\ outages' = outages + 1
    /\ hub' = how
    /\ inFlight' = IF how = "down" THEN {} ELSE inFlight
    /\ UNCHANGED <<nodeVars, shown>>

HubReturns ==
    /\ hub # "up"
    /\ hub' = "up"
    /\ UNCHANGED <<nodeVars, inFlight, shown, outages>>

Next ==
    \/ Silent \/ EmitReport \/ EmitConsole \/ HubReturns
    \/ \E how \in {"down", "silent"} : HubGoes(how)
    \/ \E c \in Conns : EmitChange(c)
    \/ \E value \in BOOLEAN : HubIngest(value)

(* Every task of traffic-node runs on. select! polls its two ticks in a      *)
(* random order and a tick that is due stays due, so the report tick is not  *)
(* passed over for ever: strong fairness. The hub reads what reached it, but *)
(* need not come back.                                                       *)
Fairness ==
    /\ WF_vars(SendPacket /\ UNCHANGED hubVars)
    /\ WF_vars(CountPacket /\ UNCHANGED hubVars)
    /\ SF_vars(ReportTick /\ UNCHANGED hubVars)
    /\ WF_vars(SendFails /\ UNCHANGED hubVars)
    /\ WF_vars(EmitReport) /\ WF_vars(EmitConsole)
    /\ \A c \in Conns :
          WF_vars((ServeSilently(c) /\ UNCHANGED hubVars) \/ EmitChange(c))
    /\ \A value \in BOOLEAN : WF_vars(HubIngest(value))

Spec == Init /\ [][Next]_vars /\ Fairness
-----------------------------------------------------------------------------
(* Properties *)

(* The hub learns what the load is, once it stays up: events overtake each   *)
(* other and are lost in outages, but the periodic report corrects in the    *)
(* end what they left, also if it was kept waiting by a silent hub.          *)
HubLearnsLoad ==
    \A value \in BOOLEAN :
        <>[](up /\ hub = "up" /\ active = value) => <>[](shown = value)

(* A hub that is away, or silent for ever, does not keep a stop from taking  *)
(* the load off, nor a status from being answered; only the answer to a      *)
(* start or a stop waits for it.                                             *)
HubIsNotNeeded ==
    \A c \in Conns :
        /\ conn[c].pc = "stop" ~> ~active \/ ~up
        /\ conn[c].pc = "status" ~> conn[c].pc = "answered" \/ ~up
=============================================================================
