----------------------------- MODULE TrafficNode -----------------------------
(* traffic-node (tools/traffic-node/src/main.rs): the tasks that share       *)
(* attack_active, attack_pps, packets_sent and the health window. They run   *)
(* on several threads, so that a step here is one access to one shared       *)
(* variable, or two loads with nothing decided between them: of the health   *)
(* worker between two probes, of the attack worker between two packets, of a *)
(* control connection within a command, and of the console. Where the events *)
(* they publish get to is in LoadReports.                                    *)
(*                                                                           *)
(* The atomics are Relaxed: this module takes the interleavings of their     *)
(* accesses, not the reorderings a weaker memory adds.                       *)
EXTENDS Integers, FiniteSets, FiniteSetsExt

CONSTANTS Conns,           \* connections to the control server
          Rates,           \* target_pps values that clients send
          DefaultPps,      \* --attack-pps, clamped
          TicksPerSecond,  \* TICKS_PER_SECOND
          U64Max,          \* where saturating_add stops counting checks
          MaxCommands,     \* bound: commands that clients send
          MaxConsole,      \* bound: lines typed at the console
          MaxEmitted       \* bound: packets the UDP socket accepts

MaxPps == 100000   \* the highest target_pps

ASSUME RateAssumption == /\ TicksPerSecond \in Nat \ {0}
                         /\ Rates \subseteq 0..MaxPps
                         /\ DefaultPps \in 1..MaxPps
ASSUME NodeBoundAssumption == /\ U64Max \in Nat \ {0} /\ MaxCommands \in Nat
                              /\ MaxConsole \in Nat /\ MaxEmitted \in Nat

VARIABLES
    up,           \* the process runs
    active,       \* attack_active
    attackPps,    \* attack_pps
    packetsSent,  \* packets_sent
    window,       \* HealthWindow; ghosts: its probes begun without its load
    health,       \* the locals of the health worker; ghost: begun
    attack,       \* the locals of the attack worker
    conn,         \* the locals of each control connection's task
    console,      \* what main() is about to publish for its console
    emitted,      \* ghost: packets handed to the UDP socket
    trailing,     \* ghost: those of them since the load was last switched off
    spent         \* how much of each bound is used

loadVars == <<active, attackPps, packetsSent, emitted, trailing>>
nodeVars == <<up, active, attackPps, packetsSent, window, health, attack, conn,
              console, emitted, trailing, spent>>

-----------------------------------------------------------------------------
(* A control command, and how far its task got with it. *)
Commands == [cmd : {"start"}, pps : Rates, reset : BOOLEAN]
            \cup [cmd : {"stop", "status"}, pps : {0}, reset : {FALSE}]
NoCommand == [cmd |-> "none", pps |-> 0, reset |-> FALSE]

Idle == [pc |-> "idle", req |-> NoCommand, total |-> 0, active |-> FALSE]

(* What a probe saw when it began: the generation of its window, and whether *)
(* the load of that window was not on yet, was on, or had been stopped.      *)
LoadPhase ==
    CASE active -> "under"
      [] ~active /\ window.stops = 0 -> "before"
      [] ~active /\ window.stops > 0 -> "after"

(* The health worker between two probes. *)
Resting == [pc |-> "tick", recording |-> FALSE, generation |-> 0,
            begun |-> [generation |-> 0, phase |-> "before"]]

NewWindow(generation) ==
    [generation |-> generation, checks |-> 0, stops |-> 0, early |-> 0,
     late |-> 0]

InitNode ==
    /\ up = TRUE
    /\ active = FALSE /\ attackPps = DefaultPps /\ packetsSent = 0
    /\ window = NewWindow(0)
    /\ health = Resting
    /\ attack = [pc |-> "select", left |-> 0, remainder |-> 0,
                  active |-> FALSE]
    /\ conn = [c \in Conns |-> Idle]
    /\ console = "prompt"
    /\ emitted = 0 /\ trailing = 0
    /\ spent = [commands |-> 0, console |-> 0]

-----------------------------------------------------------------------------
(* attack_active.store(..); the ghosts note that a load was stopped. *)
SwitchOn ==
    /\ active' = TRUE
    /\ trailing' = 0
    /\ UNCHANGED window

SwitchOff ==
    /\ active' = FALSE
    /\ trailing' = IF active THEN 0 ELSE trailing
    /\ window' = IF active THEN [window EXCEPT !.stops = @ + 1] ELSE window

-----------------------------------------------------------------------------
(* The health worker *)

(* Mutant of HealthTick: every probe is recorded, whatever attack_active is. *)
HealthTickRecordsAll ==
    /\ up /\ health.pc = "tick"
    /\ health' = [health EXCEPT !.pc = "flagged", !.recording = TRUE]
    /\ UNCHANGED <<up, loadVars, window, attack, conn, console, spent>>

HealthTick ==
    /\ up /\ health.pc = "tick"
    /\ health' = [health EXCEPT !.pc = "flagged", !.recording = active]
    /\ UNCHANGED <<up, loadVars, window, attack, conn, console, spent>>

HealthGeneration ==
    /\ up /\ health.pc = "flagged"
    /\ health' = [health EXCEPT !.pc = "ready",
                                 !.generation = window.generation]
    /\ UNCHANGED <<up, loadVars, window, attack, conn, console, spent>>

HealthProbe ==
    /\ up /\ health.pc = "ready"
    /\ health' = [health EXCEPT !.pc = "probing",
                      !.begun = [generation |-> window.generation,
                                 phase |-> LoadPhase]]
    /\ UNCHANGED <<up, loadVars, window, attack, conn, console, spent>>

(* HealthWindow::record; the ghosts count the probe by the phase it began in.*)
Saturating(n) == IF n < U64Max THEN n + 1 ELSE n

(* Mutant of Accepts: no generation check. *)
AcceptsAny(generation) == generation \in Nat

Accepts(generation) == window.generation = generation

Record ==
    window' = [window EXCEPT
                  !.checks = Saturating(@),
                  !.early = IF health.begun.phase = "before" THEN @ + 1 ELSE @,
                  !.late = IF health.begun.phase = "after" THEN @ + 1 ELSE @]

(* probe_http ended, in whatever way. The traffic_health event that follows  *)
(* only delays the next tick.                                                *)
HealthRecord ==
    /\ up /\ health.pc = "probing"
    /\ IF health.recording /\ Accepts(health.generation)
       THEN Record
       ELSE UNCHANGED window
    /\ health' = Resting
    /\ UNCHANGED <<up, loadVars, attack, conn, console, spent>>
-----------------------------------------------------------------------------
(* The attack worker: one select! of the send tick and the report tick.      *)

(* What attack_pps leaves over, divided by the ticks, the next tick sends.   *)
SendTick ==
    /\ up /\ attack.pc = "select"
    /\ active
    /\ LET due == attack.remainder + attackPps
       IN  attack' = [attack EXCEPT
                         !.pc = IF due < TicksPerSecond THEN "select"
                                                        ELSE "sending",
                         !.left = due \div TicksPerSecond,
                         !.remainder = due % TicksPerSecond]
    /\ UNCHANGED <<up, loadVars, window, health, conn, console, spent>>

SendTickIdle ==
    /\ up /\ attack.pc = "select"
    /\ ~active
    /\ attack' = [attack EXCEPT !.remainder = 0]
    /\ UNCHANGED <<up, loadVars, window, health, conn, console, spent>>

(* send_to hands the packet to the socket; fetch_add counts it afterwards. *)
SendPacket ==
    /\ up /\ attack.pc = "sending"
    /\ emitted < MaxEmitted
    /\ emitted' = emitted + 1
    /\ trailing' = IF active THEN 0 ELSE trailing + 1
    /\ attack' = [attack EXCEPT !.pc = "counting"]
    /\ UNCHANGED <<up, active, attackPps, packetsSent, window, health, conn,
                   console, spent>>

(* Mutant of CountPacket: the burst goes on for as long as the load is on.   *)
CountPacketEndless ==
    /\ up /\ attack.pc = "counting"
    /\ packetsSent' = packetsSent + 1
    /\ attack' = [attack EXCEPT !.pc = "sending"]
    /\ UNCHANGED <<up, active, attackPps, emitted, trailing, window, health,
                   conn, console, spent>>

CountPacket ==
    /\ up /\ attack.pc = "counting"
    /\ packetsSent' = packetsSent + 1
    /\ attack' = [attack EXCEPT
                     !.pc = IF attack.left = 1 THEN "select" ELSE "sending",
                     !.left = @ - 1]
    /\ UNCHANGED <<up, active, attackPps, emitted, trailing, window, health,
                   conn, console, spent>>

(* send_to fails: the rest of the burst is given up. *)
SendFails ==
    /\ up /\ attack.pc = "sending"
    /\ attack' = [attack EXCEPT !.pc = "select", !.left = 0]
    /\ UNCHANGED <<up, loadVars, window, health, conn, console, spent>>

(* Mutant of ReportTick: only a load that is on is reported. *)
ReportTickWhenActive ==
    /\ up /\ attack.pc = "select" /\ active
    /\ attack' = [attack EXCEPT !.pc = "reporting", !.active = active]
    /\ UNCHANGED <<up, loadVars, window, health, conn, console, spent>>

ReportTick ==
    /\ up /\ attack.pc = "select"
    /\ attack' = [attack EXCEPT !.pc = "reporting", !.active = active]
    /\ UNCHANGED <<up, loadVars, window, health, conn, console, spent>>

Report ==
    /\ up /\ attack.pc = "reporting"
    /\ attack' = [attack EXCEPT !.pc = "select", !.active = FALSE]
    /\ UNCHANGED <<up, loadVars, window, health, conn, console, spent>>

-----------------------------------------------------------------------------
(* The control server: a task per connection. A command runs to its response *)
(* even if its client is gone.                                               *)

Goto(c, pc) == conn' = [conn EXCEPT ![c].pc = pc]

Receive(c, req) ==
    /\ up /\ conn[c].pc = "idle"
    /\ spent.commands < MaxCommands
    /\ spent' = [spent EXCEPT !.commands = @ + 1]
    /\ conn' = [conn EXCEPT ![c] = [Idle EXCEPT !.pc = req.cmd, !.req = req]]
    /\ UNCHANGED <<up, loadVars, window, health, attack, console>>

(* Mutant of StoreRate: any rate is accepted. *)
StoreAnyRate(c) ==
    /\ up /\ conn[c].pc = "start"
    /\ attackPps' = conn[c].req.pps
    /\ Goto(c, "reset")
    /\ UNCHANGED <<up, active, packetsSent, emitted, trailing, window, health,
                   attack, console, spent>>

StoreRate(c) ==
    /\ up /\ conn[c].pc = "start"
    /\ conn[c].req.pps \in 1..MaxPps
    /\ attackPps' = conn[c].req.pps
    /\ Goto(c, "reset")
    /\ UNCHANGED <<up, active, packetsSent, emitted, trailing, window, health,
                   attack, console, spent>>

(* "target_pps must be between 1 and 100000" *)
RejectRate(c) ==
    /\ up /\ conn[c].pc = "start"
    /\ conn[c].req.pps \notin 1..MaxPps
    /\ conn' = [conn EXCEPT ![c] = Idle]
    /\ UNCHANGED <<up, loadVars, window, health, attack, console, spent>>

ResetWindow(c) ==
    /\ up /\ conn[c].pc = "reset"
    /\ window' = IF conn[c].req.reset
                 THEN NewWindow(window.generation + 1)
                 ELSE window
    /\ Goto(c, "activate")
    /\ UNCHANGED <<up, loadVars, health, attack, console, spent>>

Activate(c) ==
    /\ up /\ conn[c].pc = "activate"
    /\ SwitchOn
    /\ conn' = [conn EXCEPT ![c].pc = "load", ![c].active = TRUE]
    /\ UNCHANGED <<up, attackPps, packetsSent, emitted, health, attack,
                   console, spent>>

Deactivate(c) ==
    /\ up /\ conn[c].pc = "stop"
    /\ SwitchOff
    /\ conn' = [conn EXCEPT ![c].pc = "load", ![c].active = FALSE]
    /\ UNCHANGED <<up, attackPps, packetsSent, emitted, health, attack,
                   console, spent>>

ReadActive(c) ==
    /\ up /\ conn[c].pc = "status"
    /\ conn' = [conn EXCEPT ![c].pc = "load", ![c].active = active]
    /\ UNCHANGED <<up, loadVars, window, health, attack, console, spent>>

(* Mutant of LoadTotals: every command publishes. *)
LoadTotalsAndPublish(c) ==
    /\ up /\ conn[c].pc = "load"
    /\ conn' = [conn EXCEPT ![c].pc = "publish",
                            ![c].total = packetsSent]
    /\ UNCHANGED <<up, loadVars, window, health, attack, console, spent>>

(* Mutant of LoadTotals: the answer's active is read here, too.              *)
LoadTotalsAndActive(c) ==
    /\ up /\ conn[c].pc = "load"
    /\ conn' = [conn EXCEPT
                   ![c].pc = IF conn[c].req.cmd = "status" THEN "summarize"
                                                           ELSE "publish",
                   ![c].total = packetsSent, ![c].active = active]
    /\ UNCHANGED <<up, loadVars, window, health, attack, console, spent>>

(* The response's packets_sent (its target_pps, read here too, and the       *)
(* summary of the window are left out). status publishes nothing.            *)
LoadTotals(c) ==
    /\ up /\ conn[c].pc = "load"
    /\ conn' = [conn EXCEPT
                   ![c].pc = IF conn[c].req.cmd = "status" THEN "summarize"
                                                           ELSE "publish",
                   ![c].total = packetsSent]
    /\ UNCHANGED <<up, loadVars, window, health, attack, console, spent>>

PublishChange(c) ==
    /\ up /\ conn[c].pc = "publish"
    /\ Goto(c, "summarize")
    /\ UNCHANGED <<up, loadVars, window, health, attack, console, spent>>

(* The summary is taken and the response written. *)
Summarize(c) ==
    /\ up /\ conn[c].pc = "summarize"
    /\ Goto(c, "answered")
    /\ UNCHANGED <<up, loadVars, window, health, attack, console, spent>>

(* The client reads the response, or is gone. *)
Close(c) ==
    /\ conn[c].pc = "answered"
    /\ conn' = [conn EXCEPT ![c] = Idle]
    /\ UNCHANGED <<up, loadVars, window, health, attack, console, spent>>

Serve(c) ==
    \/ StoreRate(c) \/ RejectRate(c) \/ ResetWindow(c) \/ Activate(c)
    \/ Deactivate(c) \/ ReadActive(c) \/ LoadTotals(c)
    \/ PublishChange(c) \/ Summarize(c)

-----------------------------------------------------------------------------
(* The console of main(); "monitor" and "protect" go to xdp-hello, "status"  *)
(* prints, and neither touches the state of this module.                     *)

Type ==
    /\ up /\ console = "prompt"
    /\ spent.console < MaxConsole
    /\ spent' = [spent EXCEPT !.console = @ + 1]

ConsoleAttack ==
    /\ Type
    /\ SwitchOn
    /\ console' = "attack"
    /\ UNCHANGED <<up, attackPps, packetsSent, emitted, health, attack, conn>>

ConsoleStop ==
    /\ Type
    /\ SwitchOff
    /\ console' = "stop"
    /\ UNCHANGED <<up, attackPps, packetsSent, emitted, health, attack, conn>>

ConsolePublish ==
    /\ up /\ console # "prompt"
    /\ console' = "prompt"
    /\ UNCHANGED <<up, loadVars, window, health, attack, conn, spent>>

(* "quit", or the end of the input: the process ends, and its tasks with it. *)
Quit ==
    /\ Type
    /\ SwitchOff
    /\ up' = FALSE
    /\ UNCHANGED <<attackPps, packetsSent, emitted, health, attack, conn,
                   console>>

-----------------------------------------------------------------------------
HealthStep ==
    \/ HealthTick \/ HealthGeneration \/ HealthProbe \/ HealthRecord

AttackStep ==
    \/ SendTick \/ SendTickIdle \/ SendPacket \/ CountPacket \/ SendFails
    \/ ReportTick \/ Report

ConsoleStep == ConsoleAttack \/ ConsoleStop \/ ConsolePublish \/ Quit

ClientStep(c) == Close(c) \/ \E req \in Commands : Receive(c, req)

ServerStep == \E c \in Conns : Serve(c) \/ ClientStep(c)

NextNode == HealthStep \/ AttackStep \/ ServerStep \/ ConsoleStep

SpecNode == InitNode /\ [][NextNode]_nodeVars
-----------------------------------------------------------------------------
(* Properties *)

Windows == [generation : Nat, checks : 0..U64Max, stops : Nat, early : Nat,
            late : Nat]
HealthLocals == [pc : {"tick", "flagged", "ready", "probing"},
                 recording : BOOLEAN, generation : Nat,
                 begun : [generation : Nat,
                          phase : {"before", "under", "after"}]]
AttackLocals == [pc : {"select", "sending", "counting", "reporting"},
                 left : Nat, remainder : 0..(TicksPerSecond - 1),
                 active : BOOLEAN]
ConnLocals == [pc : {"idle", "start", "stop", "status", "reset", "activate",
                     "load", "publish", "summarize", "answered"},
               req : Commands \cup {NoCommand}, total : Nat,
               active : BOOLEAN]

(* Every variable has its type, and the counter runs at most one packet      *)
(* behind the socket.                                                        *)
TypeOKNode ==
    /\ up \in BOOLEAN /\ active \in BOOLEAN
    /\ attackPps \in 1..MaxPps
    /\ window \in Windows /\ health \in HealthLocals
    /\ attack \in AttackLocals /\ conn \in [Conns -> ConnLocals]
    /\ console \in {"prompt", "attack", "stop"}
    /\ trailing \in Nat
    /\ packetsSent \in Nat
    /\ emitted = packetsSent + (IF attack.pc = "counting" THEN 1 ELSE 0)
    /\ attack.pc \in {"sending", "counting"} => attack.left > 0
    /\ spent \in [commands : 0..MaxCommands, console : 0..MaxConsole]

(* EXPERIMENT_PROTOCOL.md: a probe that began before a reset is not mixed    *)
(* into the run that reset the window, however long it takes and whichever   *)
(* commands arrive meanwhile.                                                *)
OwnProbesOnly ==
    [][window'.checks > window.checks =>
          health.begun.generation = window.generation]_nodeVars

(* What reading attack_active ahead of the probe leaves open: a probe that   *)
(* begins just after the load was stopped, or just before it is on, may be   *)
(* recorded, but one per stop and one per window.                            *)
StrayProbesBounded == window.late <= window.stops /\ window.early <= 1

(* A stop does not reach into the burst in progress: at most that burst      *)
(* follows it, one tick's share of the highest rate rounded up, whatever     *)
(* rates clients ask for and whatever a slower rate left over.               *)
MaxBurst ==
    (Max(Rates \cup {DefaultPps}) + TicksPerSecond - 1) \div TicksPerSecond
AtMostOneBurstTrails == ~active => trailing <= MaxBurst

(* The control server, its shared atomics and the attack worker behind them  *)
(* implement the switch of LoadSwitch: a start or stop that is answered took *)
(* effect once, a refused one not at all, an answer's packets_sent was read  *)
(* after its own command took effect, and no burst begins after a stop.      *)
Owed == CASE attack.pc = "sending" -> attack.left
          [] attack.pc = "counting" -> attack.left - 1
          [] OTHER -> 0

StageAt(pc) ==
    CASE pc = "idle" -> "free"
      [] pc \in {"start", "stop", "status", "reset", "activate"} -> "asked"
      [] pc = "load" -> "taken"
      [] pc \in {"publish", "summarize", "answered"} -> "answered"

Switch == INSTANCE LoadSwitch WITH
    Clients <- Conns,
    Invalid <- {req \in Commands :
                   req.cmd = "start" /\ req.pps \notin 1..MaxPps},
    Burst <- MaxBurst,
    on <- active,
    burst <- Owed,
    sent <- emitted,
    client <- [c \in Conns |-> [stage |-> StageAt(conn[c].pc),
                                req |-> conn[c].req,
                                on |-> conn[c].active,
                                count |-> conn[c].total]]
LoadIsASwitch == Switch!Spec
=============================================================================
