------------------------------ MODULE XdpHello ------------------------------
(* xdp-hello: the control server (xdp-hello/src/main.rs), which changes the  *)
(* mode in the kernel's map and then current_mode; the eBPF program          *)
(* (xdp-hello-ebpf/src/main.rs), which decides and counts packets on every   *)
(* CPU; and the ticker, which sums the counters and publishes them with      *)
(* current_mode. Sampled flows and rate alerts are left out.                 *)
EXTENDS Integers, FiniteSets, FiniteSetsExt

CONSTANTS Conns,          \* connections to the control server
          Cpus,           \* CPUs of the kernel
          StartupMode,    \* --defense-mode
          MaxCommands,    \* bound: commands that clients send
          MaxPackets,     \* bound: packets that arrive
          MaxMisread      \* bound: lookups of a counter that fail

Modes == {"monitor", "protect"}
Words == Modes \cup {"other"}   \* what a client may ask for
Actions == {"pass", "drop"}
Kinds == {"load", "other"}   \* UDP to the blocked port, or anything else

ASSUME StartupAssumption == StartupMode \in Modes
ASSUME CpusAssumption == IsFiniteSet(Cpus)
ASSUME XdpBoundAssumption ==
    MaxCommands \in Nat /\ MaxPackets \in Nat /\ MaxMisread \in Nat

VARIABLES
    kernelMode,    \* DEFENSE_CONFIG[CONFIG_MODE_INDEX]
    currentMode,   \* current_mode
    announced,     \* the last defense_mode event, or what main() printed
    conn,          \* the locals of each control connection's task
    cpu,           \* the packet each CPU is at
    counters,      \* COUNTERS
    ticker,        \* the locals of the ticker
    stats,         \* the last stats event: its mode and its totals
    reported,      \* ghost: the sums of interval_pass and of interval_drop
    misread,       \* ghost: how often the lookup of each counter failed
    overlapped,    \* ghost: did the last command meet one half done?
    leaked,        \* ghost: load passed since the kernel has been in protect
    spent          \* how much of each bound is used

modeVars == <<kernelMode, currentMode, announced, conn, overlapped>>
packetVars == <<cpu, counters>>
statsVars == <<ticker, stats, reported, misread>>
vars == <<kernelMode, currentMode, announced, conn, overlapped, cpu, counters,
          ticker, stats, reported, misread, leaked, spent>>
-----------------------------------------------------------------------------
Zero == [a \in Actions |-> 0]

Counted(a) == MapThenSumSet(LAMBDA k : counters[k][a], Cpus)

Waiting == [pc |-> "tick", unread |-> {}, now |-> Zero, before |-> Zero]

NoCommand == [pc |-> "idle", mode |-> StartupMode]
NoPacket == [pc |-> "idle", kind |-> "other", action |-> "pass"]

Init ==
    /\ kernelMode = StartupMode /\ currentMode = StartupMode
    /\ announced = StartupMode
    /\ conn = [c \in Conns |-> NoCommand]
    /\ cpu = [k \in Cpus |-> NoPacket]
    /\ counters = [k \in Cpus |-> Zero]
    /\ ticker = Waiting
    /\ stats = [mode |-> StartupMode, total |-> Zero]
    /\ reported = Zero /\ misread = Zero
    /\ overlapped = FALSE /\ leaked = [k \in Cpus |-> 0]
    /\ spent = [commands |-> 0, packets |-> 0]

-----------------------------------------------------------------------------
(* The control server. The map is set under a mutex that covers nothing      *)
(* else; what follows is the task's own.                                     *)

Goto(c, pc) == conn' = [conn EXCEPT ![c].pc = pc]

(* Mutant of Receive: the word is not parsed. *)
ReceiveAnyWord(c, word) ==
    /\ conn[c].pc = "idle"
    /\ spent.commands < MaxCommands
    /\ spent' = [spent EXCEPT !.commands = @ + 1]
    /\ conn' = [conn EXCEPT ![c] = [pc |-> "set", mode |-> word]]
    /\ UNCHANGED <<kernelMode, currentMode, announced, overlapped, packetVars,
                   statsVars, leaked>>

(* DefenseMode::parse; any other word is answered with an error, and nothing *)
(* else happens.                                                             *)
Receive(c, word) ==
    /\ conn[c].pc = "idle"
    /\ word \in Modes
    /\ spent.commands < MaxCommands
    /\ spent' = [spent EXCEPT !.commands = @ + 1]
    /\ conn' = [conn EXCEPT ![c] = [pc |-> "set", mode |-> word]]
    /\ UNCHANGED <<kernelMode, currentMode, announced, overlapped, packetVars,
                   statsVars, leaked>>

HalfDone(c) ==
    \E d \in Conns \ {c} : conn[d].pc \in {"store", "announce"}

SetMap(c) ==
    /\ conn[c].pc = "set"
    /\ kernelMode' = conn[c].mode
    /\ overlapped' = HalfDone(c)
    /\ leaked' = IF kernelMode = "protect" THEN leaked
                                           ELSE [k \in Cpus |-> 0]
    /\ Goto(c, "store")
    /\ UNCHANGED <<currentMode, announced, packetVars, statsVars, spent>>

(* Mutant of SetMapFails: the error is not looked at. *)
SetMapFailsUnseen(c) ==
    /\ conn[c].pc = "set"
    /\ Goto(c, "store")
    /\ UNCHANGED <<kernelMode, currentMode, announced, overlapped, packetVars,
                   statsVars, leaked, spent>>

SetMapFails(c) ==
    /\ conn[c].pc = "set"
    /\ Goto(c, "error")
    /\ UNCHANGED <<kernelMode, currentMode, announced, overlapped, packetVars,
                   statsVars, leaked, spent>>

(* Mutant of StoreMode: current_mode is not stored. *)
StoreModeForgotten(c) ==
    /\ conn[c].pc = "store"
    /\ Goto(c, "announce")
    /\ UNCHANGED <<kernelMode, currentMode, announced, overlapped, packetVars,
                   statsVars, leaked, spent>>

StoreMode(c) ==
    /\ conn[c].pc = "store"
    /\ currentMode' = conn[c].mode
    /\ Goto(c, "announce")
    /\ UNCHANGED <<kernelMode, announced, overlapped, packetVars, statsVars,
                   leaked, spent>>

Announce(c) ==
    /\ conn[c].pc = "announce"
    /\ announced' = conn[c].mode
    /\ Goto(c, "ok")
    /\ UNCHANGED <<kernelMode, currentMode, overlapped, packetVars, statsVars,
                   leaked, spent>>

(* The answer has arrived, or its client is gone. *)
Close(c) ==
    /\ conn[c].pc \in {"ok", "error"}
    /\ conn' = [conn EXCEPT ![c] = NoCommand]
    /\ UNCHANGED <<kernelMode, currentMode, announced, overlapped, packetVars,
                   statsVars, leaked, spent>>

Serve(c) ==
    \/ SetMap(c) \/ SetMapFails(c) \/ StoreMode(c) \/ Announce(c) \/ Close(c)
-----------------------------------------------------------------------------
(* The eBPF program. Its decision reads the map; what is counted later is    *)
(* that decision. A counter belongs to its CPU, so that an increment is one  *)
(* step.                                                                     *)

(* Mutant of PacketAction: the mode is not asked. *)
PacketActionAlwaysPass(mode, kind) ==
    IF mode = "none" /\ kind = "load" THEN "drop" ELSE "pass"

PacketAction(mode, kind) ==
    IF mode = "protect" /\ kind = "load" THEN "drop" ELSE "pass"

Decide(k, kind) ==
    /\ cpu[k].pc = "idle"
    /\ spent.packets < MaxPackets
    /\ spent' = [spent EXCEPT !.packets = @ + 1]
    /\ cpu' = [cpu EXCEPT ![k] = [pc |-> "decided", kind |-> kind,
                                  action |-> PacketAction(kernelMode, kind)]]
    /\ UNCHANGED <<modeVars, counters, statsVars, leaked>>

Count(k) ==
    /\ cpu[k].pc = "decided"
    /\ counters' = [counters EXCEPT ![k][cpu[k].action] = @ + 1]
    /\ leaked' = IF /\ kernelMode = "protect"
                    /\ cpu[k].kind = "load" /\ cpu[k].action = "pass"
                 THEN [leaked EXCEPT ![k] = @ + 1]
                 ELSE leaked
    /\ cpu' = [cpu EXCEPT ![k] = NoPacket]
    /\ UNCHANGED <<modeVars, statsVars, spent>>

-----------------------------------------------------------------------------
(* The ticker. A lookup in a per-CPU map copies one CPU's value after the    *)
(* other, while packets are counted.                                         *)

Tick ==
    /\ ticker.pc = "tick"
    /\ ticker' = [ticker EXCEPT !.pc = "pass", !.unread = Cpus, !.now = Zero]
    /\ UNCHANGED <<modeVars, packetVars, stats, reported, misread, leaked,
                   spent>>

(* Pass is summed first, then drop. *)
AfterSum(a) == IF a = "pass" THEN "drop" ELSE "publish"

(* Mutant of SumCounter: one CPU's value is taken for the sum. *)
SumCounterOfOneCpu(k) ==
    /\ ticker.pc \in Actions
    /\ k = CHOOSE one \in Cpus : TRUE
    /\ ticker' = [ticker EXCEPT
                      !.now[ticker.pc] = counters[k][ticker.pc],
                      !.pc = AfterSum(ticker.pc)]
    /\ UNCHANGED <<modeVars, packetVars, stats, reported, misread, leaked,
                   spent>>

(* sum_counter, a CPU's value at a time. *)
SumCounter(k) ==
    /\ ticker.pc \in Actions
    /\ k \in ticker.unread
    /\ LET a == ticker.pc
           last == ticker.unread = {k}
       IN  ticker' = [ticker EXCEPT
                         !.now[a] = @ + counters[k][a],
                         !.unread = IF last /\ a = "pass" THEN Cpus
                                                          ELSE @ \ {k},
                         !.pc = IF last THEN AfterSum(a) ELSE a]
    /\ UNCHANGED <<modeVars, packetVars, stats, reported, misread, leaked,
                   spent>>

(* The lookup fails, and unwrap_or_default makes the sum 0. *)
SumFails ==
    /\ ticker.pc \in Actions
    /\ misread["pass"] + misread["drop"] < MaxMisread
    /\ LET a == ticker.pc
       IN  /\ misread' = [misread EXCEPT ![a] = @ + 1]
           /\ ticker' = [ticker EXCEPT
                             !.now[a] = 0,
                             !.unread = IF a = "pass" THEN Cpus ELSE {},
                             !.pc = AfterSum(a)]
    /\ UNCHANGED <<modeVars, packetVars, stats, reported, leaked, spent>>

Interval(a) ==
    IF ticker.now[a] >= ticker.before[a]
    THEN ticker.now[a] - ticker.before[a]
    ELSE 0

(* Mutant of PublishStats: previous_pass and previous_drop are not updated.  *)
PublishStatsKeepsPrevious ==
    /\ ticker.pc = "publish"
    /\ stats' = [mode |-> currentMode, total |-> ticker.now]
    /\ reported' = [a \in Actions |-> reported[a] + Interval(a)]
    /\ ticker' = [Waiting EXCEPT !.before = ticker.before]
    /\ UNCHANGED <<modeVars, packetVars, misread, leaked, spent>>

PublishStats ==
    /\ ticker.pc = "publish"
    /\ stats' = [mode |-> currentMode, total |-> ticker.now]
    /\ reported' = [a \in Actions |-> reported[a] + Interval(a)]
    /\ ticker' = [Waiting EXCEPT !.before = ticker.now]
    /\ UNCHANGED <<modeVars, packetVars, misread, leaked, spent>>

-----------------------------------------------------------------------------
Control == \E c \in Conns : Serve(c) \/ \E word \in Words : Receive(c, word)

Kernel == \E k \in Cpus : Count(k) \/ \E kind \in Kinds : Decide(k, kind)

Ticker == Tick \/ SumFails \/ PublishStats \/ \E k \in Cpus : SumCounter(k)

Next == Control \/ Kernel \/ Ticker

(* The ticker runs on. Nothing is needed of clients, their tasks or traffic. *)
Fairness == WF_vars(Ticker)

Spec == Init /\ [][Next]_vars /\ Fairness
-----------------------------------------------------------------------------
(* Properties *)

(* Every variable has its type: whatever clients ask for, the map holds one  *)
(* of the two modes.                                                         *)
TypeOK ==
    /\ kernelMode \in Modes /\ currentMode \in Modes /\ announced \in Modes
    /\ conn \in [Conns -> [pc : {"idle", "set", "store", "announce", "ok",
                                 "error"},
                           mode : Modes]]
    /\ cpu \in [Cpus -> [pc : {"idle", "decided"}, kind : Kinds,
                         action : Actions]]
    /\ counters \in [Cpus -> [Actions -> Nat]]
    /\ ticker \in [pc : {"tick", "publish"} \cup Actions,
                   unread : SUBSET Cpus, now : [Actions -> Nat],
                   before : [Actions -> Nat]]
    /\ stats \in [mode : Modes, total : [Actions -> Nat]]
    /\ reported \in [Actions -> Nat] /\ misread \in [Actions -> Nat]
    /\ overlapped \in BOOLEAN /\ leaked \in [Cpus -> Nat]
    /\ spent \in [commands : 0..MaxCommands, packets : 0..MaxPackets]

(* What ExperimentRunner takes the control server for: a register that a     *)
(* command sets at one moment, and that an error leaves alone.               *)
Register == INSTANCE ModeRegister WITH
    Clients <- Conns,
    mode <- kernelMode,
    pending <- [c \in Conns |->
                   IF conn[c].pc = "set" THEN conn[c].mode ELSE "none"],
    result <- [c \in Conns |->
                  CASE conn[c].pc \in {"store", "announce", "ok"} -> "ok"
                    [] conn[c].pc = "error" -> "error"
                    [] OTHER -> "none"]
ControlIsARegister == Register!Spec

(* Dashboards see the mode the kernel applies as soon as its command is      *)
(* through, in the event and in current_mode, however commands failed before *)
(* it; unless it was set while another one was half done: the two then reach *)
(* the map and current_mode in different orders.                             *)
Settled == \A c \in Conns : conn[c].pc \notin {"store", "announce"}
ShownModeIsApplied ==
    Settled /\ ~overlapped => currentMode = kernelMode /\ announced = kernelMode

(* From the moment the kernel is in protect, the load that still gets        *)
(* through is what the CPUs had decided on before: one packet each.          *)
ProtectStopsTheLoad == \A k \in Cpus : leaked[k] <= 1

(* A packet is in the interval of one stats event, although the CPUs count   *)
(* on while the ticker sums; and in one more at most for each time that its  *)
(* counter could not be read: the failure passes for a counter at 0, which   *)
(* becomes previous_pass or previous_drop, and what follows repeats all that *)
(* came before.                                                              *)
OnlyFailuresRepeat ==
    \A a \in Actions : reported[a] <= (1 + misread[a]) * Counted(a)

(* Nor is it in none, and a failed lookup does not stay visible: when        *)
(* traffic, commands and failures have ceased, the stats come to show every  *)
(* packet and the mode.                                                      *)
StatsCatchUp ==
    <>[](/\ \A a \in Actions : /\ reported[a] >= Counted(a)
                               /\ stats.total[a] = Counted(a)
         /\ stats.mode = currentMode)
=============================================================================
