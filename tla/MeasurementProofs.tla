-------------------------- MODULE MeasurementProofs --------------------------
(* Theorems about TrafficNode, for any number of connections, commands,      *)
(* console lines and packets, any rates and any number of ticks a second;    *)
(* and about Measurement, in which it takes part, for any number of rounds,  *)
(* any timeout of a probe and any length of the drain.                       *)
EXTENDS Measurement, NumberLemmas

-----------------------------------------------------------------------------
(* The highest rate there is, and what one tick sends of it.                 *)
AllRates == Rates \cup {DefaultPps}

LEMMA MaxPpsType == MaxPps \in Nat
  BY DEF MaxPps

LEMMA HighestRate ==
    /\ Max(AllRates) \in 1..MaxPps
    /\ \A r \in AllRates : r <= Max(AllRates)
<1>1. AllRates \in SUBSET (0..MaxPps) /\ AllRates # {}
  BY RateAssumption DEF AllRates
<1>2. PICK m \in AllRates : \A r \in AllRates : r <= m
  BY <1>1, MaxPpsType, GreatestElement
<1>3. \A r \in AllRates : m >= r
  BY <1>1, <1>2
<1>4. /\ Max(AllRates) \in AllRates
      /\ \A r \in AllRates : Max(AllRates) >= r
  BY <1>3 DEF Max
<1>5. DefaultPps <= Max(AllRates)
  BY <1>4, RateAssumption DEF AllRates
<1>6. \A r \in AllRates : r \in 0..MaxPps
  BY <1>1
<1> QED BY <1>4, <1>5, <1>6, MaxPpsType, RateAssumption

LEMMA MaxBurstType == MaxBurst \in Nat
<1>1. Max(AllRates) + TicksPerSecond - 1 \in Nat
  BY HighestRate, RateAssumption, MaxPpsType
<1> QED BY <1>1, RateAssumption, DivisionWithRest DEF MaxBurst, AllRates

(* A tick sends at most MaxBurst packets, whatever the ticks before it have  *)
(* left over, and carries less than one packet over itself.                  *)
LEMMA BurstBound ==
    ASSUME NEW carried \in 0..(TicksPerSecond - 1), NEW pps \in AllRates
    PROVE  LET due == carried + pps
           IN  /\ due \div TicksPerSecond \in 0..MaxBurst
               /\ due % TicksPerSecond \in 0..(TicksPerSecond - 1)
               /\ due >= TicksPerSecond => due \div TicksPerSecond >= 1
<1> DEFINE due == carried + pps
           top == Max(AllRates) + TicksPerSecond - 1
<1>1. TicksPerSecond \in Nat \ {0} /\ pps \in Nat /\ carried \in Nat
  BY RateAssumption DEF AllRates
<1>2. due \in Nat /\ top \in Nat /\ due <= top
  BY <1>1, HighestRate
<1>3. MaxBurst = top \div TicksPerSecond
  BY DEF MaxBurst, AllRates
<1>4. due \div TicksPerSecond <= MaxBurst
  BY <1>1, <1>2, <1>3, DivisionMonotone
<1>5. /\ due \div TicksPerSecond \in Nat /\ MaxBurst \in Nat
      /\ due % TicksPerSecond \in 0..(TicksPerSecond - 1)
      /\ due = (TicksPerSecond * (due \div TicksPerSecond))
                  + (due % TicksPerSecond)
  BY <1>1, <1>2, <1>3, DivisionWithRest
<1> HIDE DEF due, top
<1>6. due >= TicksPerSecond => due \div TicksPerSecond # 0
  BY <1>1, <1>2, <1>5
<1> QED BY <1>4, <1>5, <1>6 DEF due

-----------------------------------------------------------------------------
(* The inductive invariant *)

(* A recording health worker has read attack_active while it was set. If it  *)
(* is clear again by now, either the window has counted that stop, or the    *)
(* window is a new one without a stray probe.                                *)
Recording(pcs) == health.recording /\ health.pc \in pcs

StrayInv ==
    /\ window.late <= window.stops /\ window.early <= 1
    /\ Recording({"flagged", "ready"}) /\ ~active =>
          \/ window.late < window.stops
          \/ window.stops = 0 /\ window.early = 0
    /\ Recording({"probing"}) /\ health.generation = window.generation =>
          /\ health.begun.phase = "after" => window.late < window.stops
          /\ health.begun.phase = "before" => window.early = 0

(* The generation a probe was announced with is never ahead of the window's, *)
(* nor of the one it began in.                                               *)
GenerationInv ==
    /\ health.pc \in {"ready", "probing"} =>
          health.generation <= window.generation
    /\ health.pc = "probing" =>
          /\ health.generation <= health.begun.generation
          /\ health.begun.generation <= window.generation

(* What is left of a burst fits into MaxBurst together with what trails; a   *)
(* command that got past the check of its rate is a start at a valid rate.   *)
RateInv ==
    /\ attackPps \in AllRates
    /\ \A c \in Conns : conn[c].pc = "start" => conn[c].req.pps \in Rates

BurstInv ==
    /\ attack.pc \in {"sending", "counting"} => attack.left <= MaxBurst
    /\ active => trailing = 0
    /\ trailing + Owed <= MaxBurst

NodeInv == TypeOKNode /\ StrayInv /\ GenerationInv /\ RateInv /\ BurstInv
-----------------------------------------------------------------------------
(* Type correctness *)

(* A command, and a client's place before it, are of their types.            *)
LEMMA CommandTypes ==
    /\ NoCommand \in Commands \cup {NoCommand}
    /\ \A req \in Commands :
          /\ req.cmd \in {"start", "stop", "status"}
          /\ req.pps \in Rates \cup {0} /\ req.reset \in BOOLEAN
          /\ req.cmd = "start" => req.pps \in Rates
  BY DEF Commands

LEMMA InitNodeType == InitNode => TypeOKNode
<1> SUFFICES ASSUME InitNode PROVE TypeOKNode
  OBVIOUS
<1>1. 0 \in 0..U64Max /\ 0 \in 0..(TicksPerSecond - 1)
      /\ 0 \in 0..MaxCommands /\ 0 \in 0..MaxConsole
  BY RateAssumption, NodeBoundAssumption
<1>2. /\ window \in Windows /\ health \in HealthLocals
      /\ spent \in [commands : 0..MaxCommands, console : 0..MaxConsole]
  BY <1>1 DEF InitNode, Windows, HealthLocals, NewWindow, Resting
<1>3. attack \in AttackLocals
  BY <1>1 DEF InitNode, AttackLocals
<1>4. conn \in [Conns -> ConnLocals]
  BY DEF InitNode, ConnLocals, Idle
<1>5. up \in BOOLEAN /\ active \in BOOLEAN
  BY DEF InitNode
<1>6. /\ attackPps \in 1..MaxPps
      /\ console \in {"prompt", "attack", "stop"}
      /\ trailing \in Nat /\ packetsSent \in Nat
      /\ emitted = packetsSent + (IF attack.pc = "counting" THEN 1 ELSE 0)
      /\ attack.pc \in {"sending", "counting"} => attack.left > 0
  BY RateAssumption DEF InitNode
<1> QED BY <1>2, <1>3, <1>4, <1>5, <1>6 DEF TypeOKNode

(* The health worker writes its own locals, and the window when it records.  *)
LEMMA HealthStepType == TypeOKNode /\ HealthStep => TypeOKNode'
<1> SUFFICES ASSUME TypeOKNode, HealthStep PROVE TypeOKNode'
  OBVIOUS
<1>1. UNCHANGED <<up, loadVars, attack, conn, console, spent>>
  BY DEF HealthStep, HealthTick, HealthGeneration, HealthProbe, HealthRecord
<1>2. window \in Windows /\ health \in HealthLocals /\ active \in BOOLEAN
  BY DEF TypeOKNode
<1>3. CASE HealthTick
  <2>1. health' \in HealthLocals
    BY <1>2, <1>3 DEF HealthTick, HealthLocals
  <2>2. window' = window
    BY <1>3 DEF HealthTick
  <2> QED BY <1>1, <2>1, <2>2 DEF TypeOKNode, loadVars
<1>4. CASE HealthGeneration
  <2>1. health' \in HealthLocals
    BY <1>2, <1>4 DEF HealthGeneration, HealthLocals, Windows
  <2>2. window' = window
    BY <1>4 DEF HealthGeneration
  <2> QED BY <1>1, <2>1, <2>2 DEF TypeOKNode, loadVars
<1>5. CASE HealthProbe
  <2>1. LoadPhase \in {"before", "under", "after"}
    BY <1>2 DEF LoadPhase, Windows
  <2>2. health' \in HealthLocals
    BY <1>2, <1>5, <2>1 DEF HealthProbe, HealthLocals, Windows
  <2>3. window' = window
    BY <1>5 DEF HealthProbe
  <2> QED BY <1>1, <2>2, <2>3 DEF TypeOKNode, loadVars
<1>6. CASE HealthRecord
  <2>1. Saturating(window.checks) \in 0..U64Max
    BY <1>2, NodeBoundAssumption DEF Saturating, Windows
  <2>2. window' \in Windows
    <3>1. Record \/ UNCHANGED window
      BY <1>6 DEF HealthRecord
    <3>2. ASSUME Record PROVE window' \in Windows
      <4> DEFINE early == IF health.begun.phase = "before"
                          THEN window.early + 1 ELSE window.early
                 late == IF health.begun.phase = "after"
                         THEN window.late + 1 ELSE window.late
      <4>1. early \in Nat /\ late \in Nat
        BY <1>2 DEF Windows
      <4>2. window' = [window EXCEPT !.checks = Saturating(window.checks),
                                     !.early = early, !.late = late]
        BY <3>2 DEF Record
      <4> HIDE DEF early, late
      <4> QED BY <1>2, <2>1, <4>1, <4>2 DEF Windows
    <3> QED BY <1>2, <3>1, <3>2
  <2>3. health' \in HealthLocals
    BY <1>6 DEF HealthRecord, Resting, HealthLocals
  <2> QED BY <1>1, <2>2, <2>3 DEF TypeOKNode, loadVars
<1> QED BY <1>3, <1>4, <1>5, <1>6 DEF HealthStep

LEMMA AttackStepType ==
    TypeOKNode /\ attackPps \in AllRates /\ AttackStep => TypeOKNode'
<1> SUFFICES ASSUME TypeOKNode, attackPps \in AllRates, AttackStep
             PROVE  TypeOKNode'
  OBVIOUS
<1>1. CASE SendTick
  <2> DEFINE due == attack.remainder + attackPps
  <2>1. /\ due \div TicksPerSecond \in Nat
        /\ due % TicksPerSecond \in 0..(TicksPerSecond - 1)
        /\ due >= TicksPerSecond => due \div TicksPerSecond >= 1
    BY BurstBound DEF TypeOKNode, AttackLocals
  <2>2. due \in Nat
    BY RateAssumption DEF TypeOKNode, AttackLocals
  <2>3. attack' = [attack EXCEPT
                      !.pc = IF due < TicksPerSecond THEN "select"
                                                     ELSE "sending",
                      !.left = due \div TicksPerSecond,
                      !.remainder = due % TicksPerSecond]
    BY <1>1 DEF SendTick
  <2> HIDE DEF due
  <2>4. attack' \in AttackLocals
    BY <2>1, <2>3 DEF TypeOKNode, AttackLocals
  <2>5. /\ attack'.pc \in {"select", "sending"}
        /\ attack'.pc = "sending" => attack'.left > 0
    BY <2>1, <2>2, <2>3, RateAssumption DEF TypeOKNode, AttackLocals
  <2>6. attack.pc = "select"
        /\ UNCHANGED <<up, loadVars, window, health, conn, console, spent>>
    BY <1>1 DEF SendTick
  <2> QED BY <2>4, <2>5, <2>6 DEF TypeOKNode, loadVars
<1>2. CASE SendTickIdle
  BY <1>2, RateAssumption DEF SendTickIdle, TypeOKNode, AttackLocals, loadVars
<1>3. CASE SendPacket
  BY <1>3 DEF SendPacket, TypeOKNode, AttackLocals
<1>4. CASE CountPacket
  <2>1. /\ attack' \in AttackLocals /\ attack'.pc # "counting"
        /\ attack'.pc = "sending" => attack'.left > 0
    <3> DEFINE next == IF attack.left = 1 THEN "select" ELSE "sending"
               left == attack.left - 1
    <3>1. attack' = [attack EXCEPT !.pc = next, !.left = left]
      BY <1>4 DEF CountPacket
    <3>2. attack.left \in Nat \ {0} /\ attack \in AttackLocals
      BY <1>4 DEF CountPacket, TypeOKNode, AttackLocals
    <3>3. left \in Nat /\ next \in {"select", "sending"}
          /\ (next = "sending" => left > 0)
      BY <3>2
    <3> HIDE DEF left, next
    <3> QED BY <3>1, <3>2, <3>3 DEF AttackLocals
  <2>2. packetsSent' \in Nat /\ emitted' = packetsSent'
    BY <1>4 DEF CountPacket, TypeOKNode
  <2> QED BY <1>4, <2>1, <2>2 DEF CountPacket, TypeOKNode
<1>5. CASE SendFails
  BY <1>5 DEF SendFails, TypeOKNode, AttackLocals, loadVars
<1>6. CASE ReportTick \/ Report
  <2>1. attack' \in AttackLocals
    BY <1>6 DEF ReportTick, Report, TypeOKNode, AttackLocals
  <2>2. /\ attack'.pc \in {"select", "reporting"} /\ attack.pc # "counting"
        /\ UNCHANGED <<up, loadVars, window, health, conn, console, spent>>
    BY <1>6 DEF ReportTick, Report, TypeOKNode, AttackLocals
  <2> QED BY <2>1, <2>2 DEF TypeOKNode, loadVars
<1> QED BY <1>1, <1>2, <1>3, <1>4, <1>5, <1>6 DEF AttackStep

(* attack_active is cleared, and a window that was under load notes it.      *)
LEMMA SwitchOffType ==
    TypeOKNode /\ SwitchOff =>
       active' \in BOOLEAN /\ trailing' \in Nat /\ window' \in Windows
<1> SUFFICES ASSUME TypeOKNode, SwitchOff
             PROVE  active' \in BOOLEAN /\ trailing' \in Nat
                    /\ window' \in Windows
  OBVIOUS
<1>1. active' \in BOOLEAN
  BY DEF SwitchOff
<1>2. trailing' \in Nat
  BY DEF SwitchOff, TypeOKNode
<1>3. window' \in Windows
  BY DEF SwitchOff, TypeOKNode, Windows
<1> QED BY <1>1, <1>2, <1>3

(* A command takes its task from place to place, and no rate but one between *)
(* 1 and MaxPps gets into attack_pps.                                        *)
LEMMA ServeType ==
    ASSUME TypeOKNode, NEW c \in Conns, Serve(c) \/ ClientStep(c)
    PROVE  TypeOKNode'
<1>1. /\ conn \in [Conns -> ConnLocals] /\ packetsSent \in Nat
      /\ active \in BOOLEAN /\ window \in Windows
  BY DEF TypeOKNode
<1>2. conn' \in [Conns -> ConnLocals]
  <2>1. Idle \in ConnLocals
    BY DEF Idle, ConnLocals
  <2>2. ASSUME NEW req \in Commands, Receive(c, req)
        PROVE  conn' \in [Conns -> ConnLocals]
    <3>1. [Idle EXCEPT !.pc = req.cmd, !.req = req] \in ConnLocals
      BY <2>1, CommandTypes DEF ConnLocals
    <3> QED BY <1>1, <2>2, <3>1 DEF Receive
  <2>3. CASE RejectRate(c) \/ Close(c)
    BY <1>1, <2>1, <2>3 DEF RejectRate, Close
  <2>4. CASE StoreRate(c) \/ ResetWindow(c) \/ PublishChange(c) \/ Summarize(c)
    BY <1>1, <2>4 DEF StoreRate, ResetWindow, PublishChange, Summarize, Goto,
                      ConnLocals
  <2>5. CASE Activate(c) \/ Deactivate(c)
    BY <1>1, <2>5 DEF Activate, Deactivate, ConnLocals
  <2>6. CASE ReadActive(c)
    <3> DEFINE read == [conn[c] EXCEPT !.pc = "load", !.active = active]
    <3>1. conn' = [conn EXCEPT ![c] = read]
      BY <1>1, <2>6 DEF ReadActive
    <3>2. read \in ConnLocals
      BY <1>1 DEF ConnLocals
    <3> HIDE DEF read
    <3> QED BY <1>1, <3>1, <3>2
  <2>7. CASE LoadTotals(c)
    <3> DEFINE pc == IF conn[c].req.cmd = "status" THEN "summarize"
                                                   ELSE "publish"
               loaded == [conn[c] EXCEPT !.pc = pc, !.total = packetsSent]
    <3>1. conn' = [conn EXCEPT ![c] = loaded]
      BY <1>1, <2>7 DEF LoadTotals
    <3>2. loaded \in ConnLocals
      BY <1>1 DEF ConnLocals
    <3> HIDE DEF loaded
    <3> QED BY <1>1, <3>1, <3>2
  <2> QED BY <2>2, <2>3, <2>4, <2>5, <2>6, <2>7 DEF Serve, ClientStep
<1>3. attackPps' \in 1..MaxPps
  BY DEF Serve, ClientStep, StoreRate, RejectRate, ResetWindow, Activate,
         Deactivate, ReadActive, LoadTotals, PublishChange, Summarize,
         Receive, Close, TypeOKNode, loadVars
<1>4. UNCHANGED <<up, packetsSent, emitted, health, attack, console>>
  BY DEF Serve, ClientStep, StoreRate, RejectRate, ResetWindow, Activate,
         Deactivate, ReadActive, LoadTotals, PublishChange, Summarize,
         Receive, Close, loadVars
<1>5. spent' \in [commands : 0..MaxCommands, console : 0..MaxConsole]
  <2>1. CASE \E req \in Commands : Receive(c, req)
    BY <2>1, NodeBoundAssumption DEF Receive, TypeOKNode
  <2>2. CASE UNCHANGED spent
    BY <2>2 DEF TypeOKNode
  <2> QED BY <2>1, <2>2
          DEF Serve, ClientStep, StoreRate, RejectRate, ResetWindow, Activate,
              Deactivate, ReadActive, LoadTotals, PublishChange, Summarize,
              Close
<1>6. active' \in BOOLEAN /\ trailing' \in Nat /\ window' \in Windows
  <2>1. CASE Activate(c)
    BY <1>1, <2>1 DEF Activate, SwitchOn
  <2>2. CASE Deactivate(c)
    BY <2>2, SwitchOffType DEF Deactivate
  <2>3. CASE ResetWindow(c)
    <3>1. NewWindow(window.generation + 1) \in Windows
      BY <1>1, NodeBoundAssumption DEF NewWindow, Windows
    <3> QED BY <1>1, <2>3, <3>1 DEF ResetWindow, TypeOKNode, loadVars
  <2>4. CASE UNCHANGED <<active, trailing, window>>
    BY <1>1, <2>4 DEF TypeOKNode
  <2> QED BY <2>1, <2>2, <2>3, <2>4
          DEF Serve, ClientStep, StoreRate, RejectRate, ReadActive, LoadTotals,
              PublishChange, Summarize, Receive, Close, loadVars
<1> QED BY <1>2, <1>3, <1>4, <1>5, <1>6 DEF TypeOKNode

LEMMA ConsoleStepType == TypeOKNode /\ ConsoleStep => TypeOKNode'
<1> SUFFICES ASSUME TypeOKNode, ConsoleStep PROVE TypeOKNode'
  OBVIOUS
<1>1. /\ active' \in BOOLEAN /\ trailing' \in Nat /\ window' \in Windows
  <2>1. CASE SwitchOff
    BY <2>1, SwitchOffType
  <2>2. CASE SwitchOn
    BY <2>2 DEF SwitchOn, TypeOKNode
  <2>3. CASE ConsolePublish
    BY <2>3 DEF ConsolePublish, TypeOKNode, loadVars
  <2> QED BY <2>1, <2>2, <2>3
          DEF ConsoleStep, ConsoleAttack, ConsoleStop, Quit
<1>2. up' \in BOOLEAN /\ console' \in {"prompt", "attack", "stop"}
  BY DEF ConsoleStep, ConsoleAttack, ConsoleStop, ConsolePublish, Quit,
         TypeOKNode
<1>3. spent' \in [commands : 0..MaxCommands, console : 0..MaxConsole]
  BY NodeBoundAssumption
     DEF ConsoleStep, ConsoleAttack, ConsoleStop, ConsolePublish, Quit, Type,
         TypeOKNode
<1>4. UNCHANGED <<attackPps, packetsSent, emitted, health, attack, conn>>
  BY DEF ConsoleStep, ConsoleAttack, ConsoleStop, ConsolePublish, Quit,
         loadVars
<1> QED BY <1>1, <1>2, <1>3, <1>4 DEF TypeOKNode

LEMMA NodeTypeNext ==
    TypeOKNode /\ attackPps \in AllRates /\ [NextNode]_nodeVars => TypeOKNode'
<1> SUFFICES ASSUME TypeOKNode, attackPps \in AllRates, [NextNode]_nodeVars
             PROVE  TypeOKNode'
  OBVIOUS
<1>1. CASE UNCHANGED nodeVars
  BY <1>1 DEF nodeVars, TypeOKNode
<1> QED BY <1>1, HealthStepType, AttackStepType, ServeType, ConsoleStepType
        DEF NextNode, ServerStep
-----------------------------------------------------------------------------
(* Stray probes, and probes of other windows *)

LEMMA InitNodeInv == InitNode => NodeInv
<1> SUFFICES ASSUME InitNode PROVE NodeInv
  OBVIOUS
<1>1. /\ window.late = 0 /\ window.stops = 0 /\ window.early = 0
      /\ health.pc = "tick" /\ attack.pc = "select"
      /\ trailing = 0 /\ attackPps = DefaultPps
  BY DEF InitNode, NewWindow, Resting
<1>2. StrayInv /\ GenerationInv
  BY <1>1 DEF StrayInv, GenerationInv, Recording
<1>4. BurstInv
  BY <1>1, MaxBurstType DEF BurstInv, Owed
<1>5. RateInv
  <2>1. \A c \in Conns : conn[c].pc = "idle"
    BY DEF InitNode, Idle
  <2> QED BY <1>1, <2>1 DEF RateInv, AllRates
<1> QED BY <1>2, <1>4, <1>5, InitNodeType DEF NodeInv

(* What a step may do to the load, the window and the health worker.         *)
LEMMA LoadSteps ==
    ASSUME [NextNode]_nodeVars
    PROVE  \/ AttackStep /\ UNCHANGED <<active, window, health>>
           \/ /\ UNCHANGED attack
              /\ \/ HealthStep /\ UNCHANGED <<active, trailing>>
                 \/ UNCHANGED health /\ (SwitchOff \/ SwitchOn)
                 \/ /\ UNCHANGED <<active, trailing, health>>
                    /\ \/ UNCHANGED window
                       \/ window' = NewWindow(window.generation + 1)
<1>1. CASE AttackStep
  BY <1>1 DEF AttackStep, SendTick, SendTickIdle, SendPacket, CountPacket,
              SendFails, ReportTick, Report, loadVars
<1>2. CASE ServerStep
  BY ZenonT(40), <1>2 DEF ServerStep, Serve, ClientStep, StoreRate, RejectRate,
              ResetWindow, Activate, Deactivate, ReadActive, LoadTotals,
              PublishChange, Summarize, Receive, Close, loadVars
<1>3. CASE ConsoleStep
  BY <1>3 DEF ConsoleStep, ConsoleAttack, ConsoleStop, ConsolePublish, Quit,
              loadVars
<1>4. CASE HealthStep
  BY <1>4 DEF HealthStep, HealthTick, HealthGeneration, HealthProbe,
              HealthRecord, loadVars
<1>5. CASE UNCHANGED nodeVars
  BY <1>5 DEF nodeVars
<1> QED BY <1>1, <1>2, <1>3, <1>4, <1>5 DEF NextNode

(* What a step may do to the window: record a probe, count a stop, begin     *)
(* anew, or nothing.                                                         *)
LEMMA StrayNext ==
    ASSUME TypeOKNode, GenerationInv, StrayInv, [NextNode]_nodeVars
    PROVE  StrayInv' /\ GenerationInv'
<1>1. window \in Windows /\ health \in HealthLocals /\ active \in BOOLEAN
  BY DEF TypeOKNode
<1> USE DEF StrayInv, GenerationInv, Recording
<1>2. CASE UNCHANGED <<active, window, health>>
  BY <1>2
<1>3. CASE HealthTick
  BY <1>1, <1>3 DEF HealthTick, loadVars, HealthLocals
<1>4. CASE HealthGeneration
  BY <1>1, <1>4 DEF HealthGeneration, loadVars, HealthLocals, Windows
<1>5. CASE HealthProbe
  BY <1>1, <1>5 DEF HealthProbe, LoadPhase, loadVars, HealthLocals, Windows
<1>6. CASE HealthRecord
  <2>1. health'.pc = "tick" /\ UNCHANGED active
    BY <1>6 DEF HealthRecord, Resting, loadVars
  <2>2. CASE UNCHANGED window
    BY <2>1, <2>2
  <2>3. CASE Record /\ health.recording /\ Accepts(health.generation)
    <3>1. health.pc = "probing" /\ health.generation = window.generation
      BY <1>6, <2>3 DEF HealthRecord, Accepts
    <3>2. CASE health.begun.phase = "before"
      BY <1>1, <2>1, <2>3, <3>1, <3>2 DEF Record, Windows
    <3>3. CASE health.begun.phase = "after"
      BY <1>1, <2>1, <2>3, <3>1, <3>3 DEF Record, Windows
    <3>4. CASE health.begun.phase = "under"
      BY <1>1, <2>1, <2>3, <3>4 DEF Record, Windows
    <3> QED BY <1>1, <3>2, <3>3, <3>4 DEF HealthLocals
  <2> QED BY <1>6, <2>2, <2>3 DEF HealthRecord
<1>7. CASE SwitchOff /\ UNCHANGED health
  BY <1>1, <1>7 DEF SwitchOff, HealthLocals, Windows
<1>8. CASE SwitchOn /\ UNCHANGED health
  BY <1>1, <1>8 DEF SwitchOn
<1>9. CASE UNCHANGED <<active, health>>
           /\ window' = NewWindow(window.generation + 1)
  BY <1>1, <1>9 DEF NewWindow, HealthLocals, Windows
<1> HIDE DEF StrayInv, GenerationInv, Recording
<1> QED BY <1>2, <1>3, <1>4, <1>5, <1>6, <1>7, <1>8, <1>9, LoadSteps
        DEF HealthStep

-----------------------------------------------------------------------------
(* The burst *)

(* Only a command with one of the rates changes the rate.                    *)
LEMMA RateNext ==
    ASSUME TypeOKNode, RateInv, [NextNode]_nodeVars
    PROVE  RateInv'
<1> USE DEF RateInv
<1>1. conn \in [Conns -> ConnLocals]
  BY DEF TypeOKNode
<1>2. CASE UNCHANGED <<attackPps, conn>>
  BY <1>2
<1>3. ASSUME NEW c \in Conns, NEW req \in Commands, Receive(c, req)
      PROVE  RateInv'
  BY <1>1, <1>3, CommandTypes DEF Receive, Idle, loadVars
<1>4. ASSUME NEW c \in Conns, StoreRate(c)
      PROVE  RateInv'
  BY <1>1, <1>4 DEF StoreRate, Goto, ConnLocals, AllRates
<1>5. ASSUME NEW c \in Conns, Serve(c) \/ Close(c), ~StoreRate(c)
      PROVE  RateInv'
  <2>1. UNCHANGED attackPps
    BY <1>5 DEF Serve, RejectRate, ResetWindow, Activate, Deactivate,
                ReadActive, LoadTotals, PublishChange, Summarize, Close,
                loadVars
  <2>2. \A d \in Conns : conn'[d].pc = "start" => conn'[d] = conn[d]
    BY <1>1, <1>5
       DEF Serve, RejectRate, ResetWindow, Activate, Deactivate, ReadActive,
           LoadTotals, PublishChange, Summarize, Close, Goto, Idle, ConnLocals
  <2> QED BY <2>1, <2>2
<1>6. CASE HealthStep \/ AttackStep \/ ConsoleStep \/ UNCHANGED nodeVars
  BY <1>2, <1>6
     DEF HealthStep, HealthTick, HealthGeneration, HealthProbe, HealthRecord,
         AttackStep, SendTick, SendTickIdle, SendPacket, CountPacket,
         SendFails, ReportTick, Report, ConsoleStep, ConsoleAttack,
         ConsoleStop, ConsolePublish, Quit, loadVars, nodeVars
<1> HIDE DEF RateInv
<1> QED BY <1>3, <1>4, <1>5, <1>6 DEF NextNode, ServerStep, ClientStep

(* A burst begins under a load that nothing trails, with at most MaxBurst    *)
(* packets; from there on every packet that may trail is taken from it.      *)
LEMMA BurstNext ==
    ASSUME TypeOKNode, RateInv, BurstInv, [NextNode]_nodeVars
    PROVE  BurstInv'
<1> USE DEF BurstInv, Owed
<1>1. /\ attack \in AttackLocals /\ trailing \in Nat /\ active \in BOOLEAN
      /\ attack.pc \in {"sending", "counting"} => attack.left > 0
  BY DEF TypeOKNode
<1>2. MaxBurst \in Nat
  BY MaxBurstType
<1>3. CASE UNCHANGED <<active, trailing, attack>>
  BY <1>3
<1>4. CASE (SwitchOff \/ SwitchOn) /\ UNCHANGED attack
  BY <1>1, <1>2, <1>4 DEF SwitchOff, SwitchOn, AttackLocals
<1>5. CASE SendTick
  <2> DEFINE due == attack.remainder + attackPps
  <2>1. due \div TicksPerSecond \in 0..MaxBurst
    BY <1>1, BurstBound DEF AttackLocals, RateInv
  <2>2. attack'.pc \in {"select", "sending"}
        /\ attack'.left = due \div TicksPerSecond
    BY <1>1, <1>5 DEF SendTick, AttackLocals
  <2>3. trailing' = 0 /\ UNCHANGED active
    BY <1>5 DEF SendTick, loadVars
  <2> HIDE DEF due
  <2> QED BY <1>2, <2>1, <2>2, <2>3
<1>6. CASE SendPacket
  BY <1>1, <1>2, <1>6 DEF SendPacket, AttackLocals
<1>7. CASE CountPacket
  <2>1. CASE attack.left = 1
    BY <1>1, <1>2, <1>7, <2>1 DEF CountPacket, AttackLocals
  <2>2. CASE attack.left # 1
    BY <1>1, <1>2, <1>7, <2>2 DEF CountPacket, AttackLocals
  <2> QED BY <2>1, <2>2
<1>8. CASE SendTickIdle \/ SendFails \/ ReportTick \/ Report
  <2>1. attack'.pc \in {"select", "reporting"}
    BY <1>1, <1>8 DEF SendTickIdle, SendFails, ReportTick, Report,
                      AttackLocals
  <2>2. UNCHANGED <<active, trailing>>
    BY <1>8 DEF SendTickIdle, SendFails, ReportTick, Report, loadVars
  <2>3. Owed \in Nat
    BY <1>1 DEF AttackLocals
  <2>4. Owed' = 0
    BY <2>1
  <2>5. trailing <= MaxBurst
    BY <1>1, <1>2, <2>3
  <2> QED BY <1>1, <2>1, <2>2, <2>4, <2>5
<1> HIDE DEF BurstInv, Owed
<1> QED BY <1>3, <1>4, <1>5, <1>6, <1>7, <1>8, LoadSteps DEF AttackStep

LEMMA NodeInvNext == NodeInv /\ [NextNode]_nodeVars => NodeInv'
<1> SUFFICES ASSUME NodeInv, [NextNode]_nodeVars PROVE NodeInv'
  OBVIOUS
<1>1. TypeOKNode'
  BY NodeTypeNext DEF NodeInv, RateInv
<1> QED BY <1>1, StrayNext, RateNext, BurstNext DEF NodeInv

(* The inductive invariant holds throughout.                                 *)
THEOREM NodeInvAlways == SpecNode => []NodeInv
  BY InitNodeInv, NodeInvNext, PTL DEF SpecNode

(* main, spawn_health_worker, spawn_attack_worker, spawn_control_server:     *)
(* every variable keeps its type, and packets_sent runs at most one packet   *)
(* behind the socket.                                                        *)
THEOREM NodeTypeCorrect == SpecNode => []TypeOKNode
  BY NodeInvAlways, PTL DEF NodeInv

(* HealthWindow::record: at most one probe for every stop is recorded that   *)
(* began after it, and one before the load, however commands interleave.     *)
THEOREM StrayProbesCorrect == SpecNode => []StrayProbesBounded
<1>1. NodeInv => StrayProbesBounded
  BY DEF NodeInv, StrayInv, StrayProbesBounded
<1> QED BY <1>1, NodeInvAlways, PTL

(* spawn_attack_worker: what follows a stop is the rest of one tick's burst. *)
THEOREM BurstCorrect == SpecNode => []AtMostOneBurstTrails
<1>1. ASSUME NodeInv PROVE AtMostOneBurstTrails
  <2>1. Owed \in Nat /\ trailing \in Nat /\ trailing + Owed <= MaxBurst
    <3>1. attack.pc \in {"sending", "counting"} => attack.left \in Nat \ {0}
      BY <1>1 DEF NodeInv, TypeOKNode, AttackLocals
    <3> QED BY <1>1, <3>1 DEF NodeInv, BurstInv, Owed, TypeOKNode
  <2> QED BY <2>1, MaxBurstType DEF AtMostOneBurstTrails
<1> QED BY <1>1, NodeInvAlways, PTL

-----------------------------------------------------------------------------
(* The refinement of LoadSwitch *)

(* A task is at the place of its command, and one that got past the check of *)
(* the rate has a start at a valid rate.                                     *)
CommandInv ==
    \A c \in Conns :
       /\ conn[c].pc \in {"start", "stop", "status"} =>
             conn[c].req \in Commands /\ conn[c].req.cmd = conn[c].pc
       /\ conn[c].pc \in {"reset", "activate"} =>
             /\ conn[c].req \in Commands /\ conn[c].req.cmd = "start"
             /\ conn[c].req.pps \in 1..MaxPps

LEMMA CommandInvNext ==
    ASSUME TypeOKNode, CommandInv, [NextNode]_nodeVars
    PROVE  CommandInv'
<1> USE DEF CommandInv
<1>1. conn \in [Conns -> ConnLocals]
  BY DEF TypeOKNode
<1>2. CASE UNCHANGED conn
  BY <1>2
<1>3. ASSUME NEW c \in Conns, NEW req \in Commands, Receive(c, req)
      PROVE  CommandInv'
  BY <1>1, <1>3, CommandTypes DEF Receive, Idle
<1>4. ASSUME NEW c \in Conns, StoreRate(c) \/ ResetWindow(c)
      PROVE  CommandInv'
  BY <1>1, <1>4 DEF StoreRate, ResetWindow, Goto, ConnLocals
<1>5. ASSUME NEW c \in Conns,
             \/ Close(c) \/ RejectRate(c) \/ Activate(c) \/ Deactivate(c)
             \/ ReadActive(c) \/ LoadTotals(c) \/ PublishChange(c)
             \/ Summarize(c)
      PROVE  CommandInv'
  <2>1. /\ conn'[c].pc \notin {"start", "stop", "status", "reset", "activate"}
        /\ \A d \in Conns \ {c} : conn'[d] = conn[d]
    BY <1>1, <1>5
       DEF Close, RejectRate, Activate, Deactivate, ReadActive, LoadTotals,
           PublishChange, Summarize, Goto, Idle, ConnLocals
  <2> QED BY <2>1
<1>6. CASE HealthStep \/ AttackStep \/ ConsoleStep \/ UNCHANGED nodeVars
  BY <1>2, <1>6
     DEF HealthStep, HealthTick, HealthGeneration, HealthProbe, HealthRecord,
         AttackStep, SendTick, SendTickIdle, SendPacket, CountPacket,
         SendFails, ReportTick, Report, ConsoleStep, ConsoleAttack,
         ConsoleStop, ConsolePublish, Quit, nodeVars
<1> HIDE DEF CommandInv
<1> QED BY <1>3, <1>4, <1>5, <1>6 DEF NextNode, ServerStep, ClientStep, Serve

(* The clients of LoadSwitch, in terms of this module.                       *)
ClientAt(local) == [stage |-> StageAt(local.pc), req |-> local.req,
                    on |-> local.active, count |-> local.total]
Client == [c \in Conns |-> ClientAt(conn[c])]

LEMMA ClientChanges ==
    ASSUME conn \in [Conns -> ConnLocals], NEW c \in Conns, NEW local,
           conn' = [conn EXCEPT ![c] = local]
    PROVE  Client' = [Client EXCEPT ![c] = ClientAt(local)]
  BY DEF Client

(* A step of a control connection is a step of its client, or none.          *)
LEMMA ServerSwitches ==
    ASSUME TypeOKNode, CommandInv, ServerStep
    PROVE  Switch!Next \/ UNCHANGED <<active, Owed, emitted, Client>>
<1>1. /\ conn \in [Conns -> ConnLocals] /\ packetsSent \in Nat
      /\ packetsSent \in {emitted, emitted - 1}
  BY DEF TypeOKNode
<1>2. ASSUME NEW c \in Conns, NEW req \in Commands, Receive(c, req)
      PROVE  Switch!Call(c)
  <2> DEFINE local == [Idle EXCEPT !.pc = req.cmd, !.req = req]
  <2>1. conn' = [conn EXCEPT ![c] = local] /\ conn[c].pc = "idle"
    BY <1>2 DEF Receive
  <2>2. Client' = [Client EXCEPT ![c] = ClientAt(local)]
    BY <1>1, <2>1, ClientChanges
  <2>3. ClientAt(local) = Switch!At("asked", req, FALSE, 0)
    <3>1. /\ local.pc = req.cmd /\ local.req = req
          /\ local.active = FALSE /\ local.total = 0
      BY DEF Idle
    <3>2. StageAt(req.cmd) = "asked"
      BY CommandTypes DEF StageAt
    <3> HIDE DEF local
    <3> QED BY <3>1, <3>2 DEF ClientAt, Switch!At
  <2>4. Client[c].stage = "free"
    BY <2>1 DEF Client, ClientAt, StageAt
  <2>5. UNCHANGED <<active, Owed, emitted>>
    BY <1>2 DEF Receive, loadVars, Owed
  <2> QED BY <2>2, <2>3, <2>4, <2>5 DEF Switch!Call, Client, ClientAt
<1>3. ASSUME NEW c \in Conns, Activate(c) \/ Deactivate(c) \/ ReadActive(c)
      PROVE  Switch!Take(c)
  <2> DEFINE local == [conn[c] EXCEPT !.pc = "load", !.active = active']
  <2>1. /\ conn' = [conn EXCEPT ![c] = local]
        /\ conn[c].pc \in {"activate", "stop", "status"}
        /\ active' = Switch!After(conn[c].req.cmd)
    <3>1. CASE Activate(c)
      BY <1>1, <3>1 DEF Activate, SwitchOn, CommandInv, Switch!After
    <3>2. CASE Deactivate(c)
      BY <1>1, <3>2 DEF Deactivate, SwitchOff, CommandInv, Switch!After
    <3>3. CASE ReadActive(c)
      BY <1>1, <3>3 DEF ReadActive, loadVars, CommandInv, Switch!After
    <3> QED BY <1>3, <3>1, <3>2, <3>3
  <2>2. Client' = [Client EXCEPT ![c] = ClientAt(local)]
    BY <1>1, <2>1, ClientChanges
  <2>3. ClientAt(local) =
           Switch!At("taken", Client[c].req, active', Client[c].count)
    <3>1. /\ local.pc = "load" /\ local.req = conn[c].req
          /\ local.active = active' /\ local.total = conn[c].total
      BY <1>1 DEF ConnLocals
    <3>2. StageAt("load") = "taken"
      BY DEF StageAt
    <3>3. Client[c].req = conn[c].req /\ Client[c].count = conn[c].total
      BY DEF Client, ClientAt
    <3> HIDE DEF local
    <3> QED BY <3>1, <3>2, <3>3 DEF ClientAt, Switch!At
  <2>4. Client[c].stage = "asked" /\ Client[c].req = conn[c].req
    BY <2>1 DEF Client, ClientAt, StageAt
  <2>5. conn[c].req \notin {req \in Commands : req.cmd = "start"
                                               /\ req.pps \notin 1..MaxPps}
    BY <2>1 DEF CommandInv
  <2>6. UNCHANGED <<Owed, emitted>>
    BY <1>3 DEF Activate, Deactivate, ReadActive, loadVars, Owed
  <2> HIDE DEF local
  <2> QED BY <2>1, <2>2, <2>3, <2>4, <2>5, <2>6
          DEF Switch!Take, Client, ClientAt
<1>4. ASSUME NEW c \in Conns, LoadTotals(c) PROVE Switch!Answer(c)
  <2> DEFINE pc == IF conn[c].req.cmd = "status" THEN "summarize"
                                                 ELSE "publish"
             local == [conn[c] EXCEPT !.pc = pc, !.total = packetsSent]
  <2>1. conn' = [conn EXCEPT ![c] = local] /\ conn[c].pc = "load"
    BY <1>1, <1>4 DEF LoadTotals
  <2>2. Client' = [Client EXCEPT ![c] = ClientAt(local)]
    BY <1>1, <2>1, ClientChanges
  <2>3. ClientAt(local) =
           Switch!At("answered", Client[c].req, Client[c].on, packetsSent)
    <3>1. /\ local.pc = pc /\ local.req = conn[c].req
          /\ local.active = conn[c].active /\ local.total = packetsSent
      BY <1>1 DEF ConnLocals
    <3>2. StageAt(pc) = "answered"
      BY DEF StageAt
    <3>3. Client[c].req = conn[c].req /\ Client[c].on = conn[c].active
      BY DEF Client, ClientAt
    <3> HIDE DEF local, pc
    <3> QED BY <3>1, <3>2, <3>3 DEF ClientAt, Switch!At
  <2>4. Client[c].stage = "taken"
    BY <2>1 DEF Client, ClientAt, StageAt
  <2>5. UNCHANGED <<active, Owed, emitted>>
    BY <1>4 DEF LoadTotals, loadVars, Owed
  <2> HIDE DEF local
  <2> QED BY <1>1, <2>2, <2>3, <2>4, <2>5 DEF Switch!Answer, Client, ClientAt
<1>5. ASSUME NEW c \in Conns, RejectRate(c) \/ Close(c)
      PROVE  Switch!Refuse(c) \/ Switch!Return(c)
  <2>1. conn' = [conn EXCEPT ![c] = Idle]
    BY <1>5 DEF RejectRate, Close
  <2>2. Client' = [Client EXCEPT ![c] = ClientAt(Idle)]
    BY <1>1, <2>1, ClientChanges
  <2>3. ClientAt(Idle) = Switch!Free
    BY DEF ClientAt, StageAt, Idle, Switch!Free, Switch!At
  <2>4. UNCHANGED <<active, Owed, emitted>>
    BY <1>5 DEF RejectRate, Close, loadVars, Owed
  <2>5. Switch!Leaves(c)
    BY <2>2, <2>3, <2>4 DEF Switch!Leaves, Client, ClientAt
  <2>6. \/ Client[c].stage = "answered"
        \/ /\ Client[c].stage = "asked"
           /\ conn[c].req \in {req \in Commands : req.cmd = "start"
                                               /\ req.pps \notin 1..MaxPps}
    BY <1>5 DEF RejectRate, Close, CommandInv, Client, ClientAt, StageAt
  <2> QED BY <2>5, <2>6 DEF Switch!Refuse, Switch!Return, Client, ClientAt
<1>6. ASSUME NEW c \in Conns,
             \/ StoreRate(c) \/ ResetWindow(c)
             \/ PublishChange(c) \/ Summarize(c)
      PROVE  UNCHANGED <<active, Owed, emitted, Client>>
  <2>1. PICK pc : conn' = [conn EXCEPT ![c].pc = pc]
                  /\ StageAt(pc) = StageAt(conn[c].pc)
    BY <1>6 DEF StoreRate, ResetWindow, PublishChange, Summarize, Goto, StageAt
  <2> DEFINE local == [conn[c] EXCEPT !.pc = pc]
  <2>2. conn' = [conn EXCEPT ![c] = local]
    BY <2>1
  <2>3. Client' = [Client EXCEPT ![c] = ClientAt(local)]
    BY <1>1, <2>2, ClientChanges
  <2>4. ClientAt(local) = Client[c]
    BY <1>1, <2>1 DEF Client, ClientAt, ConnLocals
  <2>5. UNCHANGED Client
    BY <2>3, <2>4 DEF Client
  <2> QED BY <1>6, <2>5 DEF StoreRate, ResetWindow, PublishChange, Summarize,
                            loadVars, Owed
<1> QED BY <1>2, <1>3, <1>4, <1>5, <1>6
        DEF ServerStep, ClientStep, Serve, Switch!Next

(* A step of the attack worker: a burst begins, a packet leaves, the burst   *)
(* is given up, or nothing that LoadSwitch speaks of.                        *)
LEMMA AttackSwitches ==
    ASSUME TypeOKNode, RateInv, AttackStep
    PROVE  Switch!Next \/ UNCHANGED <<active, Owed, emitted, Client>>
<1>1. /\ attack \in AttackLocals /\ attackPps \in AllRates
      /\ attack.pc \in {"sending", "counting"} => attack.left > 0
  BY DEF TypeOKNode, RateInv
<1>2. UNCHANGED <<active, Client>>
  BY DEF AttackStep, SendTick, SendTickIdle, SendPacket, CountPacket,
         SendFails, ReportTick, Report, loadVars, Client
<1>3. CASE SendTick
  <2> DEFINE due == attack.remainder + attackPps
  <2>1. /\ due \div TicksPerSecond \in 0..MaxBurst /\ MaxBurst \in Nat
        /\ due >= TicksPerSecond => due \div TicksPerSecond >= 1
        /\ due \in Nat /\ TicksPerSecond \in Nat
    <3>1. TicksPerSecond \in Nat /\ attackPps \in Nat
      BY <1>1, RateAssumption DEF AllRates
    <3>2. attack.remainder \in 0..(TicksPerSecond - 1)
      BY <1>1 DEF AttackLocals
    <3>3. due \in Nat
      BY <3>1, <3>2
    <3> HIDE DEF due
    <3>4. /\ due \div TicksPerSecond \in 0..MaxBurst
          /\ due >= TicksPerSecond => due \div TicksPerSecond >= 1
      BY <1>1, <3>2, BurstBound DEF due
    <3> QED BY <3>1, <3>3, <3>4, MaxBurstType
  <2>2. /\ attack'.pc = IF due < TicksPerSecond THEN "select" ELSE "sending"
        /\ attack'.left = due \div TicksPerSecond
        /\ attack.pc = "select" /\ active /\ UNCHANGED emitted
    BY <1>1, <1>3 DEF SendTick, AttackLocals, loadVars
  <2> HIDE DEF due
  <2>3. CASE due < TicksPerSecond
    BY <1>2, <2>2, <2>3 DEF Owed
  <2>4. CASE due >= TicksPerSecond
    <3>1. Owed' \in 1..MaxBurst /\ Owed = 0
      BY <2>1, <2>2, <2>4 DEF Owed
    <3>2. Switch!Tick
      BY <1>2, <2>2, <3>1 DEF Switch!Tick, Client, ClientAt
    <3> QED BY <3>2 DEF Switch!Next
  <2> QED BY <2>1, <2>3, <2>4
<1>4. CASE SendPacket
  <2>1. /\ attack.pc = "sending" /\ attack'.pc = "counting"
        /\ attack'.left = attack.left /\ emitted' = emitted + 1
    BY <1>1, <1>4 DEF SendPacket, AttackLocals
  <2>2. Owed > 0 /\ Owed' = Owed - 1
    BY <1>1, <2>1 DEF Owed
  <2>3. Switch!Depart
    BY <1>2, <2>1, <2>2 DEF Switch!Depart, Client, ClientAt
  <2> QED BY <2>3 DEF Switch!Next
<1>5. CASE CountPacket
  <2>1. /\ attack.pc = "counting" /\ UNCHANGED emitted
        /\ attack'.pc = IF attack.left = 1 THEN "select" ELSE "sending"
        /\ attack'.left = attack.left - 1
    BY <1>1, <1>5 DEF CountPacket, AttackLocals
  <2>2. Owed' = Owed
    BY <1>1, <2>1 DEF Owed, AttackLocals
  <2> QED BY <1>2, <2>1, <2>2
<1>6. CASE SendFails
  <2>1. attack.pc = "sending" /\ attack'.pc = "select" /\ UNCHANGED emitted
    BY <1>1, <1>6 DEF SendFails, loadVars, AttackLocals
  <2>2. Owed > 0 /\ Owed' = 0
    BY <1>1, <2>1 DEF Owed
  <2>3. Switch!GiveUp
    BY <1>2, <2>1, <2>2 DEF Switch!GiveUp, Client, ClientAt
  <2> QED BY <2>3 DEF Switch!Next
<1>7. CASE SendTickIdle \/ ReportTick \/ Report
  <2>1. /\ attack.pc \in {"select", "reporting"} /\ UNCHANGED emitted
        /\ attack'.pc \in {"select", "reporting"}
    BY <1>1, <1>7 DEF SendTickIdle, ReportTick, Report, loadVars, AttackLocals
  <2> QED BY <1>2, <2>1 DEF Owed
<1> QED BY <1>3, <1>4, <1>5, <1>6, <1>7 DEF AttackStep

(* spawn_control_server and spawn_attack_worker, for any number of           *)
(* connections whose commands overlap: the load is a switch, which the       *)
(* clients and the console set one after the other, and a burst begins only  *)
(* while it is on.                                                           *)
THEOREM SwitchImplemented == SpecNode => LoadIsASwitch
<1>1. InitNode => Switch!Init
  BY DEF InitNode, Switch!Init, Switch!Free, Switch!At, Owed, StageAt, Idle
<1>2. ASSUME NodeInv, CommandInv, [NextNode]_nodeVars
      PROVE  [Switch!Next]_(Switch!vars)
  <2> SUFFICES Switch!Next \/ UNCHANGED <<active, Owed, emitted, Client>>
    BY DEF Switch!vars, Client, ClientAt
  <2>1. CASE ServerStep
    BY <1>2, <2>1, ServerSwitches DEF NodeInv
  <2>2. CASE AttackStep
    BY <1>2, <2>2, AttackSwitches DEF NodeInv
  <2>3. CASE ConsoleStep
    <3>1. active' \in BOOLEAN /\ UNCHANGED <<Owed, emitted, Client>>
      BY <1>2, <2>3 DEF ConsoleStep, ConsoleAttack, ConsoleStop,
            ConsolePublish, Quit, SwitchOn, SwitchOff, loadVars, Owed, Client,
            NodeInv, TypeOKNode
    <3>2. Switch!Operate
      BY <3>1 DEF Switch!Operate, Client, ClientAt
    <3> QED BY <3>2 DEF Switch!Next
  <2>4. CASE HealthStep \/ UNCHANGED nodeVars
    BY <2>4 DEF HealthStep, HealthTick, HealthGeneration, HealthProbe,
                HealthRecord, loadVars, nodeVars, Owed, Client
  <2> QED BY <1>2, <2>1, <2>2, <2>3, <2>4 DEF NextNode
<1>3. InitNode => CommandInv
  BY DEF InitNode, CommandInv, Idle
<1>4. NodeInv /\ CommandInv /\ [NextNode]_nodeVars => CommandInv'
  BY CommandInvNext DEF NodeInv
<1> QED BY <1>1, <1>2, <1>3, <1>4, NodeInvAlways, PTL
        DEF SpecNode, LoadIsASwitch, Switch!Spec

(* HealthWindow::record: no probe is recorded that began before the reset.   *)
THEOREM OwnProbesCorrect == SpecNode => OwnProbesOnly
<1> DEFINE Kept == window'.checks > window.checks =>
                      health.begun.generation = window.generation
<1>1. ASSUME NodeInv, [NextNode]_nodeVars PROVE [Kept]_nodeVars
  <2>1. window \in Windows /\ health \in HealthLocals
    BY <1>1 DEF NodeInv, TypeOKNode
  <2>2. CASE HealthStep
    <3>1. UNCHANGED window \/ (HealthRecord /\ Accepts(health.generation))
      BY <2>2 DEF HealthStep, HealthTick, HealthGeneration, HealthProbe,
                  HealthRecord
    <3>2. HealthRecord =>
             health.begun.generation \in health.generation..window.generation
      BY <1>1, <2>1 DEF NodeInv, GenerationInv, HealthRecord, HealthLocals,
                        Windows
    <3> QED BY <2>1, <3>1, <3>2 DEF Accepts, HealthLocals, Windows
  <2>3. CASE ~HealthStep
    <3>1. window' = NewWindow(window.generation + 1)
          \/ window'.checks = window.checks
      BY <1>1, <2>1, <2>3, LoadSteps DEF SwitchOn, SwitchOff, Windows
    <3>2. window'.checks \in {0, window.checks}
      BY <3>1 DEF NewWindow
    <3> QED BY <2>1, <3>2 DEF Windows
  <2> QED BY <2>2, <2>3
<1> QED BY <1>1, NodeInvAlways, PTL DEF SpecNode, OwnProbesOnly

-----------------------------------------------------------------------------
(* Measurement: the inductive invariant *)

Phases == {"ready", "starting", "measuring", "stopping", "draining",
           "querying", "udp_drain", "complete"}

RunType ==
    /\ phase \in Phases
    /\ received \in Nat /\ appBefore \in Nat /\ inNetwork \in Nat
    /\ emittedBefore \in Nat /\ waited \in Nat /\ age \in Nat

(* Where traffic-node may be with the call that the runner waits for.        *)
CallPlaces ==
    CASE phase = "starting" -> {"start", "reset", "activate", "load",
                                "publish", "summarize", "answered"}
      [] phase = "stopping" -> {"stop", "load", "publish", "summarize",
                                "answered"}
      [] phase = "querying" -> {"status", "load", "summarize", "answered"}
      [] OTHER -> {"idle"}

CallInv ==
    /\ \A c \in Conns \ {Runner} : conn[c].pc = "idle"
    /\ conn[Runner].pc \in CallPlaces
    /\ phase = "starting" => /\ conn[Runner].req.cmd = "start"
                             /\ conn[Runner].req.pps = TargetPps
    /\ phase = "stopping" => conn[Runner].req.cmd = "stop"
    /\ phase = "querying" => conn[Runner].req.cmd = "status"

(* The load is off from the effect of the stop to the next start, and the    *)
(* burst the stop came into is over when the first unit of the drain is.     *)
Quiet == ~active /\ attack.pc \in {"select", "reporting"}

QuietInv ==
    /\ phase = "stopping" /\ conn[Runner].pc # "stop" => ~active
    /\ phase = "draining" => ~active /\ (waited > 0 => Quiet)
    /\ phase \in {"querying", "udp_drain", "complete", "ready"} => Quiet

(* No packet is received twice, and none of the measurement before.          *)
CountInv ==
    /\ phase \in {"complete", "ready"} => inNetwork = 0
    /\ phase # "ready" =>
          (received - appBefore) + inNetwork <= emitted - emittedBefore
    /\ phase = "querying" /\ conn[Runner].pc \in {"summarize", "answered"} =>
          conn[Runner].total = emitted
    /\ phase \in {"udp_drain", "complete"} => after = emitted

(* A probe that began under the load is as old as the drain.                 *)
DrainInv ==
    /\ age <= HttpTimeout
    /\ phase = "draining" /\ BegunUnderLoad => waited <= age
    /\ /\ HttpTimeout < HealthDrain
       /\ phase \in {"querying", "udp_drain", "complete"}
       => ~BegunUnderLoad

RunInv ==
    NodeInv /\ RunType /\ CallInv /\ QuietInv /\ CountInv /\ DrainInv

-----------------------------------------------------------------------------
(* What the steps do *)

LEMMA NodeType ==
    ASSUME NodeInv
    PROVE  /\ Runner \in Conns /\ conn \in [Conns -> ConnLocals]
           /\ conn[Runner] \in ConnLocals
           /\ window \in Windows /\ health \in HealthLocals
           /\ attack \in AttackLocals /\ active \in BOOLEAN
           /\ packetsSent \in Nat /\ emitted \in Nat
           /\ attack.pc # "counting" => emitted = packetsSent
  BY MeasurementAssumption DEF NodeInv, TypeOKNode

(* The runner writes a command, on the only connection that is in use.       *)
LEMMA CallStep ==
    ASSUME NodeInv, CallInv, NEW cmd, Call(cmd)
    PROVE  /\ conn'[Runner].pc = cmd /\ conn'[Runner].req.cmd = cmd
           /\ cmd = "start" => conn'[Runner].req.pps = TargetPps
           /\ \A c \in Conns \ {Runner} : conn'[c].pc = "idle"
           /\ UNCHANGED <<active, packetsSent, emitted, window, health,
                          attack>>
           /\ NextNode
<1>1. ASSUME NEW req \in Commands, Receive(Runner, req)
      PROVE  /\ conn'[Runner].pc = req.cmd /\ conn'[Runner].req = req
             /\ \A c \in Conns \ {Runner} : conn'[c].pc = "idle"
             /\ UNCHANGED <<active, packetsSent, emitted, window, health,
                            attack>>
             /\ NextNode
  <2> DEFINE called == [Idle EXCEPT !.pc = req.cmd, !.req = req]
  <2>1. conn' = [conn EXCEPT ![Runner] = called]
    BY <1>1 DEF Receive
  <2>2. called.pc = req.cmd /\ called.req = req
    BY DEF Idle
  <2> HIDE DEF called
  <2>3. conn'[Runner] = called
    BY <2>1, NodeType
  <2>4. \A c \in Conns \ {Runner} : conn'[c].pc = "idle"
    BY <2>1, NodeType DEF CallInv
  <2>5. UNCHANGED <<active, packetsSent, emitted, window, health, attack>>
    BY <1>1 DEF Receive, loadVars
  <2>6. NextNode
    BY <1>1, NodeType DEF NextNode, ServerStep, ClientStep
  <2> QED BY <2>2, <2>3, <2>4, <2>5, <2>6
<1>2. PICK req \in Commands :
              /\ req.cmd = cmd
              /\ cmd = "start" => req.pps = TargetPps /\ req.reset
              /\ Receive(Runner, req)
  BY DEF Call
<1> QED BY <1>1, <1>2

(* It reads the response.                                                    *)
LEMMA CloseStep ==
    ASSUME NodeInv, CallInv, Close(Runner)
    PROVE  /\ \A c \in Conns : conn'[c].pc = "idle"
           /\ UNCHANGED <<active, packetsSent, emitted, window, health,
                          attack>>
           /\ NextNode
<1>1. conn' = [conn EXCEPT ![Runner] = Idle]
      /\ UNCHANGED <<active, packetsSent, emitted, window, health, attack>>
  BY DEF Close, loadVars
<1>2. \A c \in Conns : conn'[c].pc = "idle"
  BY <1>1, NodeType DEF CallInv, Idle
<1>3. NextNode
  BY NodeType DEF NextNode, ServerStep, ClientStep
<1> QED BY <1>1, <1>2, <1>3

(* traffic-node goes on with the call of the runner.                         *)
LEMMA ServeStep ==
    ASSUME NodeInv, CallInv, NEW c \in Conns, Serve(c)
    PROVE  /\ c = Runner
           /\ \A d \in Conns \ {Runner} : conn'[d].pc = "idle"
           /\ conn'[Runner].req = conn[Runner].req
           /\ UNCHANGED <<packetsSent, emitted, health, attack>>
           /\ \/ /\ conn[Runner].pc = "start" /\ conn'[Runner].pc = "reset"
                 /\ UNCHANGED <<active, window>>
              \/ /\ conn[Runner].pc = "reset" /\ conn'[Runner].pc = "activate"
                 /\ UNCHANGED active
              \/ conn[Runner].pc = "activate" /\ conn'[Runner].pc = "load"
              \/ /\ conn[Runner].pc = "stop" /\ conn'[Runner].pc = "load"
                 /\ SwitchOff
              \/ /\ conn[Runner].pc = "status" /\ conn'[Runner].pc = "load"
                 /\ UNCHANGED <<active, window>>
              \/ /\ conn[Runner].pc = "load"
                 /\ conn'[Runner].pc = (IF conn[Runner].req.cmd = "status"
                                        THEN "summarize" ELSE "publish")
                 /\ conn'[Runner].total = packetsSent
                 /\ UNCHANGED <<active, window>>
              \/ /\ conn[Runner].pc = "publish"
                 /\ conn'[Runner].pc = "summarize"
                 /\ UNCHANGED <<active, window>>
              \/ /\ conn[Runner].pc = "summarize"
                 /\ conn'[Runner].pc = "answered"
                 /\ conn'[Runner].total = conn[Runner].total
                 /\ UNCHANGED <<active, window>>
<1>1. c = Runner
  BY NodeType
     DEF CallInv, Serve, StoreRate, RejectRate, ResetWindow, Activate,
         Deactivate, ReadActive, LoadTotals, PublishChange, Summarize
<1>2. /\ conn \in [Conns -> ConnLocals] /\ conn[Runner] \in ConnLocals
      /\ Runner \in Conns
  BY NodeType
<1>3. ~RejectRate(Runner)
  <2>1. conn[Runner].pc = "start" => phase = "starting"
    BY DEF CallInv, CallPlaces
  <2> QED BY <2>1, MeasurementAssumption DEF CallInv, RejectRate
<1>4. \A d \in Conns \ {Runner} : conn'[d] = conn[d]
  BY <1>1, <1>2
     DEF Serve, StoreRate, RejectRate, ResetWindow, Activate, Deactivate,
         ReadActive, LoadTotals, PublishChange, Summarize, Goto
<1>5. UNCHANGED <<packetsSent, emitted, health, attack>>
  BY DEF Serve, StoreRate, RejectRate, ResetWindow, Activate, Deactivate,
         ReadActive, LoadTotals, PublishChange, Summarize, loadVars
<1>6. CASE StoreRate(Runner)
  BY <1>1, <1>2, <1>4, <1>5, <1>6 DEF StoreRate, Goto, ConnLocals, CallInv
<1>7. CASE ResetWindow(Runner)
  BY <1>1, <1>2, <1>4, <1>5, <1>7
     DEF ResetWindow, Goto, ConnLocals, CallInv, loadVars
<1>8. CASE Activate(Runner)
  BY <1>1, <1>2, <1>4, <1>5, <1>8 DEF Activate, ConnLocals, CallInv
<1>9. CASE Deactivate(Runner)
  BY <1>1, <1>2, <1>4, <1>5, <1>9 DEF Deactivate, ConnLocals, CallInv
<1>10. CASE ReadActive(Runner)
  BY <1>1, <1>2, <1>4, <1>5, <1>10
     DEF ReadActive, ConnLocals, CallInv, loadVars
<1>11. CASE LoadTotals(Runner)
  <2> DEFINE next == IF conn[Runner].req.cmd = "status" THEN "summarize"
                                                       ELSE "publish"
  <2>1. /\ conn' = [conn EXCEPT ![Runner].pc = next,
                                ![Runner].total = packetsSent]
        /\ conn[Runner].pc = "load" /\ UNCHANGED <<active, window>>
    BY <1>11 DEF LoadTotals, loadVars
  <2> HIDE DEF next
  <2>2. /\ conn'[Runner].pc = next /\ conn'[Runner].total = packetsSent
        /\ conn'[Runner].req = conn[Runner].req
    BY <1>2, <2>1 DEF ConnLocals
  <2> QED BY <1>1, <1>4, <1>5, <2>1, <2>2 DEF next, CallInv
<1>12. CASE PublishChange(Runner)
  BY <1>1, <1>2, <1>4, <1>5, <1>12
     DEF PublishChange, Goto, ConnLocals, CallInv, loadVars
<1>13. CASE Summarize(Runner)
  BY <1>1, <1>2, <1>4, <1>5, <1>13
     DEF Summarize, Goto, ConnLocals, CallInv, loadVars
<1> QED BY <1>1, <1>3, <1>6, <1>7, <1>8, <1>9, <1>10, <1>11, <1>12, <1>13
        DEF Serve

(* Every step here is one of traffic-node, or leaves it alone.               *)
LEMMA NodeSteps ==
    ASSUME NodeInv, CallInv, [Next]_vars
    PROVE  [NextNode]_nodeVars
<1>1. CASE StartLoad \/ StopLoad \/ QueryStatus
  BY <1>1, CallStep DEF StartLoad, StopLoad, QueryStatus
<1>2. CASE LoadStarted \/ LoadStopped \/ StatusReceived
  BY <1>2, CloseStep DEF LoadStarted, LoadStopped, StatusReceived
<1>3. CASE Complete \/ NextRound \/ Deliver \/ Drop \/ Clock
  BY <1>3 DEF Complete, NextRound, Deliver, Drop, Clock
<1>4. CASE Probe \/ Send \/ OtherNodeStep
  BY <1>4 DEF Probe, Send, OtherNodeStep, NextNode, HealthStep, AttackStep,
              ServerStep
<1>5. CASE UNCHANGED vars
  BY <1>5 DEF vars
<1> QED BY <1>1, <1>2, <1>3, <1>4, <1>5 DEF Next, RunStep

(* What the runner, the network and the clock leave alone.                   *)
LEMMA RunFrame ==
    ASSUME [Next]_vars
    PROVE  \/ RunStep
           \/ UNCHANGED <<phase, after, appBefore, emittedBefore>>
<1> QED BY DEF Next, Deliver, Drop, Probe, Send, OtherNodeStep, Clock,
               runVars, vars

LEMMA RunTypeNext ==
    ASSUME NodeInv, RunType, [Next]_vars
    PROVE  RunType'
<1>1. emitted \in Nat /\ HealthDrain \in Nat
  BY NodeType, MeasurementAssumption
<1> USE DEF RunType, Phases
<1>2. CASE StartLoad \/ StopLoad \/ QueryStatus
  BY <1>1, <1>2 DEF StartLoad, StopLoad, QueryStatus, timeVars
<1>3. CASE LoadStarted \/ LoadStopped \/ StatusReceived
  BY <1>3 DEF LoadStarted, LoadStopped, StatusReceived, timeVars
<1>4. CASE Complete \/ NextRound
  BY <1>4 DEF Complete, NextRound, timeVars
<1>5. CASE Deliver \/ Drop
  BY <1>5 DEF Deliver, Drop, runVars, timeVars
<1>6. CASE Probe \/ Send \/ OtherNodeStep
  BY <1>6 DEF Probe, Send, OtherNodeStep, runVars, timeVars
<1>7. CASE Clock
  BY <1>1, <1>7 DEF Clock, runVars
<1>8. CASE UNCHANGED vars
  BY <1>8 DEF vars
<1> QED BY <1>2, <1>3, <1>4, <1>5, <1>6, <1>7, <1>8 DEF Next, RunStep


(* The attack worker: it begins no burst while the load is off.              *)
LEMMA AttackEffect ==
    ASSUME NodeInv, AttackStep
    PROVE  /\ UNCHANGED <<active, window, health, conn>>
           /\ SendPacket \/ UNCHANGED emitted
           /\ Quiet => Quiet' /\ UNCHANGED emitted /\ ~SendPacket
<1>1. attack \in AttackLocals
  BY NodeType
<1>2. UNCHANGED <<active, window, health, conn>>
  BY DEF AttackStep, SendTick, SendTickIdle, SendPacket, CountPacket,
         SendFails, ReportTick, Report, loadVars
<1>3. SendPacket \/ UNCHANGED emitted
  BY DEF AttackStep, SendTick, SendTickIdle, SendPacket, CountPacket,
         SendFails, ReportTick, Report, loadVars
<1>4. ASSUME Quiet PROVE Quiet' /\ ~SendPacket
  <2>1. SendTickIdle \/ ReportTick \/ Report
    BY <1>4 DEF Quiet, AttackStep, SendTick, SendPacket, CountPacket, SendFails
  <2>2. attack'.pc \in {"select", "reporting"}
    BY <1>1, <1>4, <2>1 DEF Quiet, SendTickIdle, ReportTick, Report,
                            AttackLocals
  <2>3. ~SendPacket
    BY <1>4 DEF Quiet, SendPacket
  <2> QED BY <1>2, <1>4, <2>2, <2>3 DEF Quiet
<1> QED BY <1>2, <1>3, <1>4

(* The health worker: a probe that it begins while the load is off has not   *)
(* begun under it.                                                           *)
LEMMA HealthEffect ==
    ASSUME NodeInv, HealthStep
    PROVE  /\ UNCHANGED <<active, packetsSent, emitted, attack, conn>>
           /\ HealthProbe \/ ~BegunUnderLoad'
           /\ HealthProbe /\ ~active => ~BegunUnderLoad'
<1>1. health \in HealthLocals /\ window \in Windows /\ active \in BOOLEAN
  BY NodeType
<1>2. UNCHANGED <<active, packetsSent, emitted, attack, conn>>
  BY DEF HealthStep, HealthTick, HealthGeneration, HealthProbe, HealthRecord,
         loadVars
<1>3. HealthProbe \/ ~BegunUnderLoad'
  <2>1. HealthTick => health'.pc # "probing"
    BY <1>1 DEF HealthTick, HealthLocals
  <2>2. HealthGeneration => health'.pc # "probing"
    BY <1>1 DEF HealthGeneration, HealthLocals
  <2>3. HealthRecord => health'.pc # "probing"
    BY DEF HealthRecord, Resting
  <2> QED BY <2>1, <2>2, <2>3 DEF HealthStep, BegunUnderLoad
<1>4. ASSUME HealthProbe, ~active PROVE ~BegunUnderLoad'
  <2>1. LoadPhase \in {"before", "after"}
    BY <1>1, <1>4 DEF LoadPhase, Windows
  <2>2. health'.begun.phase = LoadPhase
    BY <1>1, <1>4 DEF HealthProbe, HealthLocals
  <2> QED BY <2>1, <2>2 DEF BegunUnderLoad
<1> QED BY <1>2, <1>3, <1>4

(* Whatever traffic-node does is one of these.                               *)
LEMMA NodeStepKinds ==
    ASSUME NodeInv, Probe \/ Send \/ OtherNodeStep
    PROVE  /\ UNCHANGED <<runVars, received, waited>>
           /\ \/ /\ Send /\ SendPacket /\ inNetwork' = inNetwork + 1
                 /\ UNCHANGED age
              \/ /\ AttackStep /\ ~SendPacket /\ UNCHANGED <<inNetwork, age>>
              \/ /\ HealthProbe /\ age' = 0 /\ UNCHANGED inNetwork
              \/ /\ HealthStep /\ ~HealthProbe /\ UNCHANGED <<inNetwork, age>>
              \/ /\ \E c \in Conns : Serve(c)
                 /\ UNCHANGED <<inNetwork, age>>
<1>1. CASE Probe
  BY <1>1 DEF Probe
<1>2. CASE Send
  BY <1>2 DEF Send, timeVars
<1>3. CASE OtherNodeStep
  <2>1. UNCHANGED <<runVars, received, inNetwork, waited, age>>
    BY <1>3 DEF OtherNodeStep, timeVars
  <2>2. CASE HealthTick \/ HealthGeneration \/ HealthRecord
    <3>1. health.pc # "ready"
      BY <2>2 DEF HealthTick, HealthGeneration, HealthRecord
    <3> QED BY <2>1, <2>2, <3>1 DEF HealthStep, HealthProbe
  <2>3. CASE \/ SendTick \/ SendTickIdle \/ CountPacket \/ SendFails
             \/ ReportTick \/ Report
    <3>1. ~SendPacket
      <4>1. CASE SendFails
        <5>1. attack \in AttackLocals
          BY NodeType
        <5>2. attack' = [attack EXCEPT !.pc = "select", !.left = 0]
          BY <4>1 DEF SendFails
        <5>3. attack'.pc = "select"
          BY <5>1, <5>2 DEF AttackLocals
        <5>4. SendPacket => attack'.pc = "counting"
          BY <5>1 DEF SendPacket, AttackLocals
        <5> QED BY <5>3, <5>4
      <4>2. CASE \/ SendTick \/ SendTickIdle \/ CountPacket \/ ReportTick
                 \/ Report
        BY <4>2 DEF SendTick, SendTickIdle, CountPacket, ReportTick, Report,
                    SendPacket
      <4> QED BY <2>3, <4>1, <4>2
    <3> QED BY <2>1, <2>3, <3>1 DEF AttackStep
  <2>4. CASE \E c \in Conns : Serve(c)
    BY <2>1, <2>4
  <2> QED BY <1>3, <2>2, <2>3, <2>4 DEF OtherNodeStep
<1> QED BY <1>1, <1>2, <1>3

-----------------------------------------------------------------------------
(* One lemma per part of the invariant *)

LEMMA CallNext ==
    ASSUME NodeInv, CallInv, RunType, [Next]_vars
    PROVE  CallInv'
<1>0. Runner \in Conns
  BY MeasurementAssumption
<1>1. CASE StartLoad
  BY <1>1, CallStep DEF StartLoad, CallInv, CallPlaces
<1>2. CASE StopLoad
  BY <1>2, CallStep DEF StopLoad, CallInv, CallPlaces
<1>3. CASE QueryStatus
  BY <1>3, CallStep DEF QueryStatus, CallInv, CallPlaces
<1>4. CASE LoadStarted \/ LoadStopped \/ StatusReceived
  BY <1>0, <1>4, CloseStep
     DEF LoadStarted, LoadStopped, StatusReceived, CallInv, CallPlaces
<1>5. CASE Complete \/ NextRound
  BY <1>5 DEF Complete, NextRound, nodeVars, CallInv, CallPlaces
<1>6. CASE UNCHANGED <<phase, conn>>
  BY <1>6 DEF CallInv, CallPlaces
<1>7. ASSUME NEW c \in Conns, Serve(c), UNCHANGED phase
      PROVE  CallInv'
  <2>1. /\ \A d \in Conns \ {Runner} : conn'[d].pc = "idle"
        /\ conn'[Runner].req = conn[Runner].req
    BY <1>7, ServeStep
  <2>2. conn[Runner].pc # "idle" /\ conn[Runner].pc \in CallPlaces
    BY <1>7, ServeStep DEF CallInv
  <2>3. conn'[Runner].pc \in CallPlaces
    <3>1. CASE phase = "starting"
      BY <1>7, <2>2, <3>1, ServeStep DEF CallInv, CallPlaces
    <3>2. CASE phase = "stopping"
      BY <1>7, <2>2, <3>2, ServeStep DEF CallInv, CallPlaces
    <3>3. CASE phase = "querying"
      BY <1>7, <2>2, <3>3, ServeStep DEF CallInv, CallPlaces
    <3> QED BY <2>2, <3>1, <3>2, <3>3 DEF CallPlaces
  <2> QED BY <1>7, <2>1, <2>3 DEF CallInv, CallPlaces
<1>8. CASE Probe \/ Send \/ OtherNodeStep
  <2>1. UNCHANGED phase
    BY <1>8, NodeStepKinds DEF runVars
  <2>2. (\E c \in Conns : Serve(c)) \/ UNCHANGED conn
    BY <1>8, NodeStepKinds, AttackEffect, HealthEffect
       DEF AttackStep, HealthStep
  <2> QED BY <1>6, <1>7, <2>1, <2>2
<1>9. CASE Deliver \/ Drop \/ Clock \/ UNCHANGED vars
  BY <1>6, <1>9 DEF Deliver, Drop, Clock, runVars, nodeVars, vars
<1> QED BY <1>1, <1>2, <1>3, <1>4, <1>5, <1>8, <1>9 DEF Next, RunStep

LEMMA QuietNext ==
    ASSUME NodeInv, CallInv, RunType, QuietInv, [Next]_vars
    PROVE  QuietInv'
<1>0. /\ active \in BOOLEAN /\ waited \in Nat
      /\ HealthDrain \in Nat \ {0}
  BY NodeType, MeasurementAssumption DEF RunType
<1>1. CASE StartLoad
  BY <1>1 DEF StartLoad, QuietInv
<1>2. CASE StopLoad
  BY <1>2, CallStep DEF StopLoad, QuietInv
<1>3. CASE QueryStatus
  <2>1. Quiet
    BY <1>0, <1>3 DEF QueryStatus, QuietInv
  <2> QED BY <1>3, <2>1, CallStep DEF QueryStatus, QuietInv, Quiet
<1>4. CASE LoadStarted
  BY <1>4 DEF LoadStarted, QuietInv
<1>5. CASE LoadStopped
  <2>1. ~active
    BY <1>5 DEF LoadStopped, QuietInv, Answered
  <2> QED BY <1>5, <2>1, CloseStep DEF LoadStopped, QuietInv
<1>6. CASE StatusReceived
  BY <1>6, CloseStep DEF StatusReceived, QuietInv, Quiet
<1>7. CASE Complete \/ NextRound
  BY <1>7 DEF Complete, NextRound, nodeVars, QuietInv, Quiet
<1>8. ASSUME NEW c \in Conns, Serve(c), UNCHANGED <<phase, waited>>
      PROVE  QuietInv'
  <2>1. UNCHANGED attack /\ conn[Runner].pc \in CallPlaces
        /\ conn[Runner].pc # "idle"
    BY <1>8, ServeStep DEF CallInv
  <2>2. CASE phase = "starting"
    BY <1>8, <2>2 DEF QuietInv
  <2>3. CASE phase = "stopping"
    BY <1>8, <2>1, <2>3, ServeStep DEF QuietInv, CallPlaces, SwitchOff
  <2>4. CASE phase = "querying"
    BY <1>8, <2>1, <2>4, ServeStep DEF QuietInv, Quiet, CallPlaces
  <2> QED BY <2>1, <2>2, <2>3, <2>4 DEF CallPlaces
<1>9. ASSUME UNCHANGED <<phase, waited, active, conn>>, Quiet => Quiet'
      PROVE  QuietInv'
  BY <1>9 DEF QuietInv
<1>10. CASE Probe \/ Send \/ OtherNodeStep
  <2>1. UNCHANGED <<phase, waited>>
    BY <1>10, NodeStepKinds DEF runVars
  <2>2. \/ \E c \in Conns : Serve(c)
        \/ UNCHANGED <<active, conn>> /\ (Quiet => Quiet')
    <3>1. AttackStep => UNCHANGED <<active, conn>> /\ (Quiet => Quiet')
      BY AttackEffect
    <3>2. HealthStep => UNCHANGED <<active, conn>> /\ (Quiet => Quiet')
      BY HealthEffect DEF Quiet
    <3> QED BY <1>10, <3>1, <3>2, NodeStepKinds DEF AttackStep, HealthStep
  <2> QED BY <1>8, <1>9, <2>1, <2>2
<1>11. CASE Clock
  <2>1. attack.pc \in {"select", "reporting"} /\ UNCHANGED <<phase, nodeVars>>
    BY <1>11 DEF Clock, runVars
  <2> QED BY <2>1 DEF QuietInv, Quiet, nodeVars
<1>12. CASE Deliver \/ Drop \/ UNCHANGED vars
  BY <1>12 DEF Deliver, Drop, runVars, timeVars, nodeVars, vars, QuietInv,
               Quiet
<1> QED BY <1>1, <1>2, <1>3, <1>4, <1>5, <1>6, <1>7, <1>10, <1>11, <1>12
        DEF Next, RunStep

LEMMA CountNext ==
    ASSUME NodeInv, CallInv, RunType, QuietInv, CountInv, [Next]_vars
    PROVE  CountInv'
<1>0. /\ received \in Nat /\ appBefore \in Nat /\ inNetwork \in Nat
      /\ emittedBefore \in Nat /\ emitted \in Nat
  BY NodeType DEF RunType
<1>1. CASE StartLoad
  BY <1>0, <1>1, CallStep DEF StartLoad, CountInv
<1>2. CASE StopLoad
  BY <1>2, CallStep DEF StopLoad, CountInv
<1>3. CASE QueryStatus
  BY <1>3, CallStep DEF QueryStatus, CountInv
<1>4. CASE LoadStarted \/ LoadStopped
  BY <1>4, CloseStep DEF LoadStarted, LoadStopped, CountInv
<1>5. CASE StatusReceived
  BY <1>5, CloseStep DEF StatusReceived, CountInv, Answered
<1>6. CASE Complete \/ NextRound
  BY <1>6 DEF Complete, NextRound, nodeVars, CountInv
<1>7. CASE Deliver \/ Drop
  <2>1. /\ inNetwork > 0 /\ inNetwork' = inNetwork - 1
        /\ received' = received + 1 \/ received' = received
        /\ UNCHANGED <<phase, after, appBefore, emittedBefore, emitted, conn>>
    BY <1>7 DEF Deliver, Drop, runVars, nodeVars
  <2> QED BY <1>0, <2>1 DEF CountInv
<1>8. ASSUME NEW c \in Conns, Serve(c),
             UNCHANGED <<phase, after, appBefore, emittedBefore, received,
                         inNetwork>>
      PROVE  CountInv'
  <2>1. UNCHANGED emitted
    BY <1>8, ServeStep
  <2>2. ASSUME phase = "querying", conn'[Runner].pc \in {"summarize", "answered"}
        PROVE  conn'[Runner].total = emitted
    <3>1. conn[Runner].pc \in {"load", "summarize"}
      BY <1>8, <2>2, ServeStep DEF CallInv, CallPlaces
    <3>2. CASE conn[Runner].pc = "load"
      <4>1. conn'[Runner].total = packetsSent
        BY <1>8, <3>2, ServeStep
      <4>2. emitted = packetsSent
        BY <2>2, NodeType DEF QuietInv, Quiet
      <4> QED BY <4>1, <4>2
    <3>3. CASE conn[Runner].pc = "summarize"
      <4>1. conn'[Runner].total = conn[Runner].total
        BY <1>8, <3>3, ServeStep
      <4> QED BY <2>2, <3>3, <4>1 DEF CountInv
    <3> QED BY <3>1, <3>2, <3>3
  <2> QED BY <1>8, <2>1, <2>2 DEF CountInv
<1>9. ASSUME UNCHANGED <<phase, after, appBefore, emittedBefore, received,
                         inNetwork, conn, emitted>>
      PROVE  CountInv'
  BY <1>9 DEF CountInv
<1>10. CASE Probe \/ Send \/ OtherNodeStep
  <2>1. UNCHANGED <<phase, after, appBefore, emittedBefore, received>>
    BY <1>10, NodeStepKinds DEF runVars
  <2>2. CASE Send
    <3>1. /\ SendPacket /\ inNetwork' = inNetwork + 1
          /\ emitted' = emitted + 1 /\ conn' = conn
      BY <2>2 DEF Send, SendPacket
    <3>2. phase \notin {"querying", "udp_drain", "complete", "ready"}
      BY <3>1, AttackEffect DEF AttackStep, QuietInv
    <3> QED BY <1>0, <2>1, <3>1, <3>2 DEF CountInv
  <2>3. CASE /\ AttackStep /\ ~SendPacket /\ UNCHANGED inNetwork
    BY <1>9, <2>1, <2>3, AttackEffect
  <2>4. CASE HealthStep /\ UNCHANGED inNetwork
    BY <1>9, <2>1, <2>4, HealthEffect
  <2>5. CASE (\E c \in Conns : Serve(c)) /\ UNCHANGED inNetwork
    BY <1>8, <2>1, <2>5
  <2> QED BY <1>10, <2>2, <2>3, <2>4, <2>5, NodeStepKinds DEF HealthStep
<1>11. CASE Clock \/ UNCHANGED vars
  BY <1>9, <1>11 DEF Clock, runVars, nodeVars, vars
<1> QED BY <1>1, <1>2, <1>3, <1>4, <1>5, <1>6, <1>7, <1>10, <1>11
        DEF Next, RunStep

LEMMA DrainNext ==
    ASSUME NodeInv, CallInv, RunType, QuietInv, DrainInv, [Next]_vars
    PROVE  DrainInv'
<1>0. /\ age \in Nat /\ waited \in Nat /\ age <= HttpTimeout
      /\ HttpTimeout \in Nat \ {0} /\ HealthDrain \in Nat \ {0}
  BY MeasurementAssumption DEF RunType, DrainInv
<1>1. ASSUME UNCHANGED <<health, window>>
      PROVE  BegunUnderLoad' => BegunUnderLoad
  BY <1>1 DEF BegunUnderLoad
<1>2. CASE StartLoad \/ StopLoad
  <2>1. age' = age /\ phase' \in {"starting", "stopping"}
    BY <1>2 DEF StartLoad, StopLoad, timeVars
  <2> QED BY <1>0, <2>1 DEF DrainInv
<1>3. CASE QueryStatus
  <2>1. /\ phase = "draining" /\ waited >= HealthDrain /\ age' = age
        /\ phase' = "querying"
    BY <1>3 DEF QueryStatus, timeVars
  <2>2. HttpTimeout < HealthDrain => ~BegunUnderLoad
    BY <1>0, <2>1 DEF DrainInv
  <2>3. BegunUnderLoad' => BegunUnderLoad
    BY <1>1, <1>3, CallStep DEF QueryStatus
  <2> QED BY <1>0, <2>1, <2>2, <2>3 DEF DrainInv
<1>4. CASE LoadStarted \/ LoadStopped
  <2>1. age' = age /\ waited' = 0 /\ phase' \in {"measuring", "draining"}
    BY <1>4 DEF LoadStarted, LoadStopped
  <2> QED BY <1>0, <2>1 DEF DrainInv
<1>5. CASE StatusReceived
  <2>1. age' = age /\ phase = "querying" /\ phase' = "udp_drain"
    BY <1>5 DEF StatusReceived, timeVars
  <2>2. BegunUnderLoad' => BegunUnderLoad
    BY <1>1, <1>5, CloseStep DEF StatusReceived
  <2> QED BY <1>0, <2>1, <2>2 DEF DrainInv
<1>6. CASE Complete \/ NextRound
  <2>1. /\ age' = age /\ UNCHANGED nodeVars
        /\ phase' = "ready" \/ (phase = "udp_drain" /\ phase' = "complete")
    BY <1>6 DEF Complete, NextRound, timeVars
  <2>2. BegunUnderLoad' => BegunUnderLoad
    BY <1>1, <2>1 DEF nodeVars
  <2> QED BY <1>0, <2>1, <2>2 DEF DrainInv
<1>7. ASSUME UNCHANGED <<phase, waited, age>>, BegunUnderLoad' => BegunUnderLoad
      PROVE  DrainInv'
  BY <1>7 DEF DrainInv
<1>8. CASE Deliver \/ Drop \/ UNCHANGED vars
  BY <1>1, <1>7, <1>8 DEF Deliver, Drop, runVars, timeVars, nodeVars, vars
<1>9. CASE Clock
  <2>1. /\ UNCHANGED phase /\ UNCHANGED <<health, window>>
        /\ health.pc = "probing" => age < HttpTimeout
        /\ waited' <= waited + 1
        /\ age' = IF health.pc = "probing" THEN age + 1 ELSE 0
    BY <1>0, <1>9 DEF Clock, runVars, nodeVars
  <2>2. age' <= HttpTimeout
    BY <1>0, <2>1
  <2>3. waited' \in Nat /\ age' \in Nat
    BY <1>9, <1>0 DEF Clock
  <2>4. phase = "draining" /\ BegunUnderLoad => waited' <= age'
    BY <1>0, <2>1, <2>3 DEF DrainInv, BegunUnderLoad
  <2>5. BegunUnderLoad' => BegunUnderLoad
    BY <1>1, <2>1
  <2> QED BY <2>1, <2>2, <2>4, <2>5 DEF DrainInv
<1>10. ASSUME NEW c \in Conns, Serve(c), UNCHANGED <<phase, waited, age>>
      PROVE  DrainInv'
  <2>1. UNCHANGED health
    BY <1>10, ServeStep
  <2>2. CASE phase = "querying"
    <3>1. UNCHANGED window
      BY <1>10, <2>2, ServeStep DEF CallInv, CallPlaces
    <3> QED BY <1>1, <1>7, <1>10, <2>1, <3>1
  <2>3. CASE phase \in {"starting", "stopping"}
    BY <1>0, <1>10, <2>3 DEF DrainInv
  <2>4. conn[Runner].pc \in CallPlaces /\ conn[Runner].pc # "idle"
    BY <1>10, ServeStep DEF CallInv
  <2> QED BY <2>2, <2>3, <2>4 DEF CallPlaces
<1>11. CASE Probe \/ Send \/ OtherNodeStep
  <2>1. UNCHANGED <<phase, waited>>
    BY <1>11, NodeStepKinds DEF runVars
  <2>2. CASE AttackStep /\ UNCHANGED age
    BY <1>1, <1>7, <2>1, <2>2, AttackEffect
  <2>3. CASE HealthProbe /\ age' = 0
    <3>1. phase \in {"draining", "querying", "udp_drain", "complete"} => ~active
      BY DEF QuietInv, Quiet
    <3>2. ~active => ~BegunUnderLoad'
      BY <2>3, HealthEffect DEF HealthStep
    <3> QED BY <1>0, <2>1, <2>3, <3>1, <3>2 DEF DrainInv
  <2>4. CASE HealthStep /\ ~HealthProbe /\ UNCHANGED age
    BY <1>7, <2>1, <2>4, HealthEffect
  <2>5. CASE (\E c \in Conns : Serve(c)) /\ UNCHANGED age
    BY <1>10, <2>1, <2>5
  <2> QED BY <1>11, <2>2, <2>3, <2>4, <2>5, NodeStepKinds DEF AttackStep
<1> QED BY <1>2, <1>3, <1>4, <1>5, <1>6, <1>8, <1>9, <1>11 DEF Next, RunStep

-----------------------------------------------------------------------------
(* Theorems *)

LEMMA RunInvInit == Init => RunInv
<1> SUFFICES ASSUME Init PROVE RunInv
  OBVIOUS
<1>1. InitNode /\ NodeInv /\ Runner \in Conns /\ HttpTimeout \in Nat
  BY InitNodeInv, MeasurementAssumption DEF Init
<1>2. RunType
  BY DEF Init, RunType, Phases
<1>3. (\A c \in Conns : conn[c].pc = "idle") /\ Quiet
  BY <1>1 DEF InitNode, Idle, Quiet
<1>4. CallInv /\ QuietInv
  BY <1>1, <1>3 DEF Init, CallInv, CallPlaces, QuietInv
<1>5. CountInv /\ DrainInv
  BY <1>1 DEF Init, CountInv, DrainInv
<1> QED BY <1>1, <1>2, <1>4, <1>5 DEF RunInv

LEMMA RunInvNext == RunInv /\ [Next]_vars => RunInv'
<1> SUFFICES ASSUME RunInv, [Next]_vars PROVE RunInv'
  OBVIOUS
<1>1. NodeInv'
  BY NodeSteps, NodeInvNext DEF RunInv
<1> QED BY <1>1, RunTypeNext, CallNext, QuietNext, CountNext, DrainNext
        DEF RunInv

(* The inductive invariant holds throughout.                                 *)
THEOREM RunInvAlways == Spec => []RunInv
  BY RunInvInit, RunInvNext, PTL DEF Spec

(* run_condition: at any rate, through any number of measurements in a row,  *)
(* the final count is that of every packet of the measurement, and what the  *)
(* sink received in it is no more than was sent.                             *)
THEOREM RunAddsUpCorrect == Spec => []RunAddsUp
<1>1. ASSUME RunInv PROVE RunAddsUp
  <2>1. /\ received \in Nat /\ appBefore \in Nat /\ inNetwork \in Nat
        /\ emittedBefore \in Nat /\ emitted \in Nat
    BY <1>1, NodeType DEF RunInv, RunType
  <2> QED BY <1>1, <2>1 DEF RunInv, CountInv, RunAddsUp
<1> QED BY <1>1, RunInvAlways, PTL

(* HEALTH_DRAIN_TIME: where it is longer than a probe may take, no probe     *)
(* that began under the load is still missing when the window is read.       *)
THEOREM DrainCorrect ==
    ASSUME HttpTimeout < HealthDrain
    PROVE  Spec => []DrainCollectsProbes
<1>1. RunInv => DrainCollectsProbes
  BY DEF RunInv, DrainInv, DrainCollectsProbes
<1> QED BY <1>1, RunInvAlways, PTL
=============================================================================
