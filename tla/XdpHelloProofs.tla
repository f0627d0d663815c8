--------------------------- MODULE XdpHelloProofs ---------------------------
(* Theorems about XdpHello, for any number of connections, CPUs, commands    *)
(* and packets.                                                              *)
EXTENDS XdpHello, NumberLemmas, TLAPS

(* What the proofs need to know of the connections' types. *)
ConnType ==
    /\ kernelMode \in Modes
    /\ overlapped \in BOOLEAN
    /\ conn \in [Conns -> [pc : {"idle", "set", "store", "announce", "ok",
                                 "error"},
                           mode : Modes]]

(* While commands do not overlap, at most one is between the map and its     *)
(* answer; it is the one that wrote the map, and what it has done so far is  *)
(* done.                                                                     *)
Half(c) == conn[c].pc \in {"store", "announce"}

SerialInv ==
    ~overlapped =>
        /\ \A c, d \in Conns : Half(c) /\ Half(d) => c = d
        /\ \A c \in Conns : Half(c) => conn[c].mode = kernelMode
        /\ \A c \in Conns : conn[c].pc = "announce" => currentMode = kernelMode
        /\ (\A c \in Conns : ~Half(c)) =>
              currentMode = kernelMode /\ announced = kernelMode

Inv == ConnType /\ SerialInv
-----------------------------------------------------------------------------
(* main() sets the map and current_mode to the same mode.                    *)
LEMMA InvInit == Init => Inv
<1> SUFFICES ASSUME Init PROVE Inv
  OBVIOUS
<1>1. ConnType
  BY StartupAssumption DEF Init, ConnType, NoCommand
<1>2. /\ \A c \in Conns : conn[c].pc = "idle"
      /\ currentMode = kernelMode /\ announced = kernelMode
  BY DEF Init, NoCommand
<1>3. SerialInv
  BY <1>2 DEF SerialInv, Half
<1> QED BY <1>1, <1>3 DEF Inv

(* Steps of the kernel and of the ticker leave the modes alone.              *)
LEMMA OthersKeepModes ==
    Kernel \/ Ticker \/ UNCHANGED vars => UNCHANGED modeVars
  BY DEF Kernel, Ticker, Decide, Count, Tick, PublishStats, SumCounter,
         SumFails, modeVars, vars

(* Every step of the control server keeps the types.                         *)
LEMMA ConnTypeKept ==
    ASSUME ConnType, Control
    PROVE  ConnType'
<1>1. ASSUME NEW c \in Conns, NEW word \in Words, Receive(c, word)
      PROVE  ConnType'
  BY <1>1 DEF ConnType, Receive
<1>2. ASSUME NEW c \in Conns, SetMap(c) PROVE ConnType'
  <2>1. kernelMode' \in Modes /\ overlapped' \in BOOLEAN
    BY <1>2 DEF ConnType, SetMap, HalfDone
  <2> QED BY <1>2, <2>1 DEF ConnType, SetMap, Goto
<1>3. ASSUME NEW c \in Conns,
             SetMapFails(c) \/ StoreMode(c) \/ Announce(c) \/ Close(c)
      PROVE  ConnType'
  BY <1>3, StartupAssumption
     DEF ConnType, SetMapFails, StoreMode, Announce, Close, Goto, NoCommand
<1> QED BY <1>1, <1>2, <1>3 DEF Control, Serve

(* Every step of the control server keeps SerialInv. A command that sets the *)
(* map while another is half done gives up the claim; one that meets none    *)
(* starts anew.                                                              *)
LEMMA SerialInvKept ==
    ASSUME ConnType, SerialInv, Control
    PROVE  SerialInv'
<1> USE DEF ConnType, SerialInv, Half
<1>1. ASSUME NEW c \in Conns, NEW word \in Words, Receive(c, word)
      PROVE  SerialInv'
  BY <1>1 DEF Receive
<1>2. ASSUME NEW c \in Conns, SetMap(c) PROVE SerialInv'
  <2>1. CASE HalfDone(c)
    BY <1>2, <2>1 DEF SetMap
  <2>2. CASE ~HalfDone(c)
    <3>1. \A d \in Conns : Half(d)' => d = c
      BY <1>2, <2>2 DEF SetMap, HalfDone, Goto
    <3>2. /\ conn'[c].pc = "store" /\ conn'[c].mode = kernelMode'
      BY <1>2 DEF SetMap, Goto
    <3> QED BY <3>1, <3>2
  <2> QED BY <2>1, <2>2
<1>3. ASSUME NEW c \in Conns, SetMapFails(c) \/ Close(c) PROVE SerialInv'
  BY <1>3 DEF SetMapFails, Close, Goto, NoCommand
<1>4. ASSUME NEW c \in Conns, StoreMode(c) PROVE SerialInv'
  BY <1>4 DEF StoreMode, Goto
<1>5. ASSUME NEW c \in Conns, Announce(c) PROVE SerialInv'
  BY <1>5 DEF Announce, Goto
<1> QED BY <1>1, <1>2, <1>3, <1>4, <1>5 DEF Control, Serve

LEMMA InvNext == Inv /\ [Next]_vars => Inv'
<1> SUFFICES ASSUME Inv, [Next]_vars PROVE Inv'
  OBVIOUS
<1>1. CASE Control
  BY <1>1, ConnTypeKept, SerialInvKept DEF Inv
<1>2. CASE UNCHANGED modeVars
  BY <1>2 DEF Inv, ConnType, SerialInv, Half, modeVars
<1> QED BY <1>1, <1>2, OthersKeepModes DEF Next

(* The inductive invariant holds throughout.                                 *)
THEOREM InvAlways == Spec => []Inv
  BY InvInit, InvNext, PTL DEF Spec

(* spawn_control_server: once commands that did not overlap are through,     *)
(* current_mode and the last event are what the kernel applies.              *)
THEOREM ShownModeCorrect == Spec => []ShownModeIsApplied
<1>1. Inv => ShownModeIsApplied
  BY DEF Inv, SerialInv, Half, ShownModeIsApplied, Settled
<1> QED BY <1>1, InvAlways, PTL

-----------------------------------------------------------------------------
(* The load a CPU may still let through: what it had decided on when the     *)
(* kernel went into protect.                                                 *)
Leaking(k) ==
    /\ cpu[k].pc = "decided"
    /\ cpu[k].kind = "load" /\ cpu[k].action = "pass"

(* A CPU that has let a packet through under protect is not at another one.  *)
LeakInv ==
    /\ kernelMode \in Modes
    /\ \A c \in Conns : conn[c].pc = "set" => conn[c].mode \in Modes
    /\ cpu \in [Cpus -> [pc : {"idle", "decided"}, kind : Kinds,
                         action : Actions]]
    /\ leaked \in [Cpus -> 0..1]
    /\ \A k \in Cpus :
          kernelMode = "protect" /\ leaked[k] = 1 => ~Leaking(k)

LEMMA LeakInvInit == Init => LeakInv
  BY StartupAssumption
     DEF Init, NoCommand, NoPacket, LeakInv, Leaking, Kinds, Actions

(* A packet decided on under protect is no load that passes, and a change to *)
(* protect finds nothing counted; so that only Count can count a leak, once. *)
LEMMA LeakInvNext ==
    ASSUME ConnType, LeakInv, [Next]_vars
    PROVE  LeakInv'
<1> USE DEF LeakInv, Leaking
<1>1. CASE Ticker \/ UNCHANGED vars
  BY <1>1 DEF Ticker, Tick, PublishStats, SumCounter, SumFails, modeVars,
              packetVars, vars
<1>2. ASSUME NEW c \in Conns, SetMap(c) PROVE LeakInv'
  <2>1. kernelMode' \in Modes /\ UNCHANGED cpu
    BY <1>2 DEF SetMap, packetVars
  <2>2. CASE kernelMode = "protect"
    BY <1>2, <2>1, <2>2 DEF SetMap, Goto, ConnType
  <2>3. CASE kernelMode # "protect"
    BY <1>2, <2>1, <2>3 DEF SetMap, Goto, ConnType
  <2> QED BY <2>2, <2>3
<1>3. ASSUME NEW c \in Conns, NEW word \in Words,
             \/ Receive(c, word) \/ SetMapFails(c) \/ StoreMode(c)
             \/ Announce(c) \/ Close(c)
      PROVE  LeakInv'
  <2>1. UNCHANGED <<kernelMode, cpu, leaked>>
    BY <1>3 DEF Receive, SetMapFails, StoreMode, Announce, Close, packetVars
  <2>2. \A d \in Conns : conn'[d].pc = "set" => conn'[d].mode \in Modes
    BY <1>3, StartupAssumption DEF ConnType, Receive, SetMapFails, StoreMode,
           Announce, Close, Goto, NoCommand
  <2> QED BY <2>1, <2>2
<1>4. ASSUME NEW k \in Cpus, NEW kind \in Kinds, Decide(k, kind)
      PROVE  LeakInv'
  <2>1. PacketAction(kernelMode, kind) \in Actions
    BY DEF PacketAction, Actions
  <2>2. UNCHANGED <<kernelMode, conn, leaked>>
    BY <1>4 DEF Decide, modeVars
  <2> QED BY <1>4, <2>1, <2>2 DEF Decide, PacketAction
<1>5. ASSUME NEW k \in Cpus, Count(k) PROVE LeakInv'
  <2>1. UNCHANGED <<kernelMode, conn>>
    BY <1>5 DEF Count, modeVars
  <2>2. cpu' = [cpu EXCEPT ![k] = NoPacket]
    BY <1>5 DEF Count
  <2>3. CASE kernelMode = "protect" /\ Leaking(k)
    <3>1. leaked[k] = 0
      BY <2>3
    <3>2. leaked' = [leaked EXCEPT ![k] = leaked[k] + 1]
      BY <1>5, <2>3 DEF Count
    <3>3. leaked' = [leaked EXCEPT ![k] = 1]
      BY <3>1, <3>2
    <3> QED BY <2>1, <2>2, <3>3 DEF NoPacket, Kinds, Actions
  <2>4. CASE ~(kernelMode = "protect" /\ Leaking(k))
    <3>1. leaked' = leaked
      BY <1>5, <2>4 DEF Count
    <3> QED BY <2>1, <2>2, <3>1 DEF NoPacket, Kinds, Actions
  <2> QED BY <2>3, <2>4
<1> HIDE DEF LeakInv, Leaking
<1>6. CASE Control
  <2>1. PICK c \in Conns :
                Serve(c) \/ \E word \in Words : Receive(c, word)
    BY <1>6 DEF Control
  <2>2. CASE \E word \in Words : Receive(c, word)
    BY <1>3, <2>2
  <2>3. CASE SetMap(c)
    BY <1>2, <2>3
  <2>4. CASE SetMapFails(c) \/ StoreMode(c) \/ Announce(c) \/ Close(c)
    <3>1. "other" \in Words
      BY DEF Words
    <3> QED BY <1>3, <2>4, <3>1
  <2> QED BY <2>1, <2>2, <2>3, <2>4 DEF Serve
<1>7. CASE Kernel
  BY <1>4, <1>5, <1>7 DEF Kernel
<1> QED BY <1>1, <1>6, <1>7 DEF Next

(* udp_action, increment_counter: on any number of CPUs, protect lets at     *)
(* most the one packet through that a CPU had decided on.                    *)
THEOREM ProtectCorrect == Spec => []ProtectStopsTheLoad
<1>1. Inv /\ LeakInv /\ [Next]_vars => LeakInv'
  BY LeakInvNext DEF Inv
<1>2. LeakInv => ProtectStopsTheLoad
  BY DEF LeakInv, ProtectStopsTheLoad
<1> QED BY <1>1, <1>2, LeakInvInit, InvAlways, PTL DEF Spec

-----------------------------------------------------------------------------
(* The types that Inv and LeakInv leave out. *)
RestType ==
    /\ currentMode \in Modes /\ announced \in Modes
    /\ counters \in [Cpus -> [Actions -> Nat]]
    /\ ticker \in [pc : {"tick", "publish"} \cup Actions,
                   unread : SUBSET Cpus, now : [Actions -> Nat],
                   before : [Actions -> Nat]]
    /\ stats \in [mode : Modes, total : [Actions -> Nat]]
    /\ reported \in [Actions -> Nat] /\ misread \in [Actions -> Nat]
    /\ spent \in [commands : 0..MaxCommands, packets : 0..MaxPackets]

(* main() starts every counter and total at 0.                               *)
LEMMA RestTypeInit == Init => RestType
  BY StartupAssumption, XdpBoundAssumption
     DEF Init, RestType, Zero, Waiting, Actions

(* Every step of clients, CPUs and the ticker keeps these types.             *)
LEMMA RestTypeNext ==
    ASSUME ConnType, LeakInv, RestType, [Next]_vars
    PROVE  RestType'
<1> USE DEF RestType
<1>1. CASE UNCHANGED vars
  BY <1>1 DEF vars, modeVars, packetVars, statsVars
<1>2. ASSUME NEW c \in Conns, NEW word \in Words, Receive(c, word)
      PROVE  RestType'
  BY <1>2, XdpBoundAssumption DEF Receive, packetVars, statsVars
<1>3. ASSUME NEW c \in Conns, Serve(c) PROVE RestType'
  <2>1. conn[c].mode \in Modes
    BY DEF ConnType
  <2> QED BY <1>3, <2>1 DEF Serve, SetMap, SetMapFails, StoreMode, Announce,
                            Close, packetVars, statsVars
<1>4. ASSUME NEW k \in Cpus, NEW kind \in Kinds, Decide(k, kind)
      PROVE  RestType'
  BY <1>4, XdpBoundAssumption DEF Decide, modeVars, statsVars
<1>5. ASSUME NEW k \in Cpus, Count(k) PROVE RestType'
  <2>1. cpu[k].action \in Actions
    BY DEF LeakInv
  <2> DEFINE a == cpu[k].action
  <2>2. counters' = [counters EXCEPT
                        ![k] = [counters[k] EXCEPT ![a] = counters[k][a] + 1]]
    BY <1>5 DEF Count
  <2>3. counters[k][a] + 1 \in Nat
    BY <2>1
  <2>4. counters' \in [Cpus -> [Actions -> Nat]]
    BY <2>1, <2>2, <2>3
  <2> QED BY <1>5, <2>4 DEF Count, modeVars, statsVars
<1>6. CASE Tick
  <2>1. Zero \in [Actions -> Nat]
    BY DEF Zero
  <2>2. ticker' = [pc |-> "pass", unread |-> Cpus, now |-> Zero,
                   before |-> ticker.before]
    BY <1>6 DEF Tick
  <2> QED BY <1>6, <2>1, <2>2 DEF Tick, Actions, modeVars, packetVars
<1>7. ASSUME NEW k \in Cpus, SumCounter(k) PROVE RestType'
  <2> DEFINE a == ticker.pc
             now == [ticker.now EXCEPT ![a] = ticker.now[a] + counters[k][a]]
             last == ticker.unread = {k}
             unread == IF last /\ a = "pass" THEN Cpus ELSE ticker.unread \ {k}
             pc == IF last THEN AfterSum(a) ELSE a
  <2>1. a \in Actions
    BY <1>7 DEF SumCounter
  <2>2. now \in [Actions -> Nat]
    <3>1. ticker.now[a] + counters[k][a] \in Nat
      BY <2>1
    <3>2. ticker.now \in [Actions -> Nat]
      OBVIOUS
    <3> HIDE DEF a
    <3> QED BY <2>1, <3>1, <3>2
  <2>3. /\ unread \in SUBSET Cpus
        /\ pc \in {"tick", "publish"} \cup Actions
    BY <2>1 DEF Actions, AfterSum
  <2>4. ticker' = [pc |-> pc, unread |-> unread, now |-> now,
                   before |-> ticker.before]
    BY <1>7 DEF SumCounter
  <2>5. UNCHANGED <<modeVars, packetVars, stats, reported, misread, spent>>
    BY <1>7 DEF SumCounter
  <2> HIDE DEF pc, unread, now
  <2> QED BY <2>2, <2>3, <2>4, <2>5 DEF modeVars, packetVars
<1>8. CASE PublishStats
  <2>1. \A a \in Actions : reported[a] + Interval(a) \in Nat
    BY DEF Interval
  <2>2. ticker' = [pc |-> "tick", unread |-> {}, now |-> Zero,
                   before |-> ticker.now]
    BY <1>8 DEF PublishStats, Waiting
  <2>3. Zero \in [Actions -> Nat]
    BY DEF Zero
  <2>4. reported' \in [Actions -> Nat]
    BY <1>8, <2>1 DEF PublishStats
  <2>5. stats' \in [mode : Modes, total : [Actions -> Nat]]
    BY <1>8 DEF PublishStats
  <2>6. UNCHANGED <<currentMode, announced, counters, misread, spent>>
    BY <1>8 DEF PublishStats, modeVars, packetVars
  <2>7. ticker' \in [pc : {"tick", "publish"} \cup Actions,
                     unread : SUBSET Cpus, now : [Actions -> Nat],
                     before : [Actions -> Nat]]
    BY <2>2, <2>3
  <2> QED BY <2>4, <2>5, <2>6, <2>7
<1>9. CASE SumFails
  <2> DEFINE a == ticker.pc
             now == [ticker.now EXCEPT ![a] = 0]
             unread == IF a = "pass" THEN Cpus ELSE {}
  <2>1. a \in Actions /\ AfterSum(a) \in {"publish"} \cup Actions
    BY <1>9 DEF SumFails, AfterSum, Actions
  <2>2. now \in [Actions -> Nat] /\ unread \in SUBSET Cpus
    OBVIOUS
  <2>3. ticker' = [pc |-> AfterSum(a), unread |-> unread, now |-> now,
                   before |-> ticker.before]
    BY <1>9 DEF SumFails
  <2>4. misread' \in [Actions -> Nat]
    <3>1. misread' = [misread EXCEPT ![a] = misread[a] + 1]
      BY <1>9 DEF SumFails
    <3>2. misread[a] + 1 \in Nat
      BY <2>1
    <3> QED BY <3>1, <3>2
  <2>5. UNCHANGED <<modeVars, packetVars, stats, reported, spent>>
    BY <1>9 DEF SumFails
  <2> HIDE DEF now, unread
  <2> QED BY <2>1, <2>2, <2>3, <2>4, <2>5 DEF modeVars, packetVars
<1> HIDE DEF RestType
<1> QED BY <1>1, <1>2, <1>3, <1>4, <1>5, <1>6, <1>7, <1>8, <1>9
        DEF Next, Control, Kernel, Ticker

(* What is inductive when all is taken together. *)
FullInv == Inv /\ LeakInv /\ RestType

(* All three hold throughout.                                                *)
LEMMA FullInvAlways == Spec => []FullInv
<1>1. Init => FullInv
  BY InvInit, LeakInvInit, RestTypeInit DEF FullInv
<1>2. FullInv /\ [Next]_vars => FullInv'
  <2> SUFFICES ASSUME FullInv, [Next]_vars PROVE FullInv'
    OBVIOUS
  <2>1. Inv'
    BY InvNext DEF FullInv
  <2>2. LeakInv' /\ RestType'
    BY LeakInvNext, RestTypeNext DEF FullInv, Inv
  <2> QED BY <2>1, <2>2 DEF FullInv
<1> QED BY <1>1, <1>2, PTL DEF Spec

(* DefenseMode::parse lets only the two modes through to the map: each       *)
(* variable keeps its type, whatever clients ask for.                        *)
THEOREM TypeCorrect == Spec => []TypeOK
<1>1. FullInv => TypeOK
  <2> SUFFICES ASSUME FullInv PROVE TypeOK
    OBVIOUS
  <2>1. leaked \in [Cpus -> Nat]
    BY DEF FullInv, LeakInv
  <2> QED BY <2>1 DEF FullInv, Inv, ConnType, LeakInv, RestType, TypeOK
<1> QED BY <1>1, FullInvAlways, PTL

-----------------------------------------------------------------------------
(* Counted is a sum as above.                                                *)
Column(a) == [k \in Cpus |-> counters[k][a]]

LEMMA CountedIs ==
    ASSUME NEW a \in Actions, RestType
    PROVE  Counted(a) = Sum(Column(a), Cpus)
<1> DEFINE Solution(it) ==
               it = [s \in SUBSET Cpus |->
                        IF s = {} THEN 0
                        ELSE counters[Pick(s)][a] + it[s \ {Pick(s)}]]
<1>1. \A it : Solution(it) <=> IsSum(it, Column(a), Cpus)
  <2>1. \A s \in SUBSET Cpus :
           s # {} => Column(a)[Pick(s)] = counters[Pick(s)][a]
    BY PickIs DEF Column
  <2>2. ASSUME NEW it
        PROVE  [s \in SUBSET Cpus |->
                   IF s = {} THEN 0
                   ELSE counters[Pick(s)][a] + it[s \ {Pick(s)}]]
               = [s \in SUBSET Cpus |->
                     IF s = {} THEN 0
                     ELSE Column(a)[Pick(s)] + it[s \ {Pick(s)}]]
    BY <2>1
  <2> QED BY <2>2 DEF IsSum
<1>2. Counted(a) = (CHOOSE it : Solution(it))[Cpus]
  BY DEF Counted, MapThenSumSet, MapThenFoldSet, Pick
<1>3. \E it : Solution(it)
  BY <1>1, SumIs, CpusAssumption
<1> DEFINE i == CHOOSE it : Solution(it)
<1>4. IsSum(i, Column(a), Cpus)
  <2>1. Solution(i)
    BY <1>3
  <2> HIDE DEF i, Solution
  <2> QED BY <1>1, <2>1
<1>5. PICK j : IsSum(j, Column(a), Cpus) /\ Sum(Column(a), Cpus) = j[Cpus]
  BY SumIs, CpusAssumption
<1>6. Column(a) \in [Cpus -> Nat]
  BY DEF RestType, Column
<1> HIDE DEF i
<1>7. i[Cpus] <= j[Cpus] /\ j[Cpus] <= i[Cpus]
  BY <1>4, <1>5, <1>6, SumsGrow, CpusAssumption
<1>8. i[Cpus] \in Nat /\ j[Cpus] \in Nat
  BY <1>4, <1>5, <1>6, SumSolved, CpusAssumption DEF Solved
<1>9. Counted(a) = i[Cpus]
  BY <1>2 DEF i
<1> QED BY <1>5, <1>7, <1>8, <1>9

(* The CPUs whose counter of a the ticker has yet to read in this round.     *)
Unread(a) ==
    IF ticker.pc = a THEN ticker.unread
    ELSE IF ticker.pc = "publish" \/ (ticker.pc = "drop" /\ a = "pass")
         THEN {}
         ELSE Cpus

(* before is the sum of the values old that an earlier round read, now that  *)
(* of the values seen in this one. Counters only grow, so that a CPU's new   *)
(* value is no less than its old one and no more than what it has by now;    *)
(* unless the lookup of this round failed, and then a repetition more is     *)
(* granted than has been used up.                                            *)
ReadSoFar(a, old, seen) ==
    /\ reported[a] <= ticker.before[a] + misread[a] * Counted(a)
    /\ ticker.before[a] = Sum(old, Cpus) /\ ticker.now[a] = Sum(seen, Cpus)
    /\ \A k \in Cpus :
          /\ old[k] <= counters[k][a] /\ seen[k] <= counters[k][a]
          /\ k \in Unread(a) => seen[k] = 0
    /\ \/ reported[a] <= misread[a] * Counted(a)
       \/ \A k \in Cpus \ Unread(a) : old[k] <= seen[k]

ReportInv ==
    \A a \in Actions : \E old, seen \in [Cpus -> Nat] : ReadSoFar(a, old, seen)

Zeros == [k \in Cpus |-> 0]

LEMMA ZerosAre ==
    /\ Zeros \in [Cpus -> Nat] /\ Sum(Zeros, Cpus) = 0
    /\ \A k \in Cpus : Zeros[k] = 0
  BY SumOfZeros, CpusAssumption DEF Zeros

(* The same of the next state; and what leaves the counters alone leaves     *)
(* their sum alone.                                                          *)
CountedSums == \A b \in Actions : Counted(b) = Sum(Column(b), Cpus)

LEMMA CountedIsSum == RestType => CountedSums
  BY CountedIs DEF CountedSums

LEMMA CountedSumsNext == RestType' => CountedSums'
<1>1. RestType => CountedSums
  BY CountedIsSum
<1> QED BY <1>1, PTL

LEMMA CountedNext ==
    ASSUME NEW a \in Actions, RestType'
    PROVE  Counted(a)' = Sum(Column(a)', Cpus)
  BY CountedSumsNext DEF CountedSums

LEMMA CountedKept ==
    ASSUME NEW a \in Actions, RestType, RestType', UNCHANGED counters
    PROVE  Counted(a)' = Counted(a)
<1>1. Column(a)' = Column(a)
  BY DEF Column
<1> QED BY <1>1, CountedIs, CountedNext

(* What was counted is a number, and at least what has been read of it.      *)
LEMMA CountedCovers ==
    ASSUME RestType, NEW a \in Actions, NEW f \in [Cpus -> Nat],
           \A k \in Cpus : f[k] <= counters[k][a]
    PROVE  Counted(a) \in Nat /\ Sum(f, Cpus) <= Counted(a)
<1>1. Column(a) \in [Cpus -> Nat] /\ \A k \in Cpus : f[k] <= Column(a)[k]
  BY DEF RestType, Column
<1>2. Sum(f, Cpus) <= Sum(Column(a), Cpus)
  BY <1>1, SumGrows, CpusAssumption
<1>3. Sum(Column(a), Cpus) \in Nat
  BY <1>1, SumType, CpusAssumption
<1> QED BY <1>2, <1>3, CountedIs

(* More repetitions of more packets are more.                                *)
LEMMA RepeatsGrow ==
    ASSUME NEW m \in Nat, NEW c \in Nat, NEW d \in Nat, c <= d
    PROVE  m * c <= m * d
  OBVIOUS

LEMMA OneRepeatMore ==
    ASSUME NEW m \in Nat, NEW c \in Nat
    PROVE  m * c \in Nat /\ (m + 1) * c = m * c + c
  OBVIOUS

(* Nothing is counted, read or reported yet.                                 *)
LEMMA ReportInvInit == Init => ReportInv
<1> SUFFICES ASSUME Init, NEW a \in Actions
             PROVE  \E old, seen \in [Cpus -> Nat] : ReadSoFar(a, old, seen)
  BY DEF ReportInv
<1>1. /\ reported[a] = 0 /\ ticker.before[a] = 0 /\ ticker.now[a] = 0
      /\ misread[a] = 0
  BY DEF Init, Waiting, Zero
<1>2. Unread(a) = Cpus
  BY DEF Init, Waiting, Unread, Actions
<1>3. \A k \in Cpus : counters[k][a] = 0
  BY DEF Init, Zero
<1>4. Counted(a) \in Nat
  BY <1>3, ZerosAre, RestTypeInit, CountedCovers
<1>5. 0 * Counted(a) = 0
  BY <1>4
<1>6. ReadSoFar(a, Zeros, Zeros)
  BY <1>1, <1>2, <1>3, <1>5, ZerosAre DEF ReadSoFar
<1> QED BY <1>6, ZerosAre

(* A packet is counted: what was counted grows.                              *)
LEMMA CountReads ==
    ASSUME LeakInv, RestType, RestType', NEW k \in Cpus, Count(k),
           NEW a \in Actions, NEW old \in [Cpus -> Nat],
           NEW seen \in [Cpus -> Nat], ReadSoFar(a, old, seen)
    PROVE  ReadSoFar(a, old, seen)'
<1>1. UNCHANGED <<ticker, reported, misread>>
  BY DEF Count, statsVars
<1>2. \A l \in Cpus : counters'[l][a] >= counters[l][a]
  <2> DEFINE b == cpu[k].action
  <2>1. counters' = [counters EXCEPT
                        ![k] = [counters[k] EXCEPT ![b] = counters[k][b] + 1]]
    BY DEF Count
  <2>2. b \in Actions
    BY DEF LeakInv
  <2>3. \A l \in Cpus : /\ counters[l][a] \in Nat /\ counters[l][b] \in Nat
                        /\ counters[l] \in [Actions -> Nat]
    BY <2>2 DEF RestType
  <2>4. counters \in [Cpus -> [Actions -> Nat]]
    BY DEF RestType
  <2> HIDE DEF b
  <2> QED BY <2>1, <2>2, <2>3, <2>4
<1>3. \A l \in Cpus : /\ counters[l][a] \in Nat /\ counters'[l][a] \in Nat
                      /\ old[l] \in Nat /\ seen[l] \in Nat
  BY DEF RestType
<1>4. Counted(a) \in Nat /\ Counted(a)' \in Nat /\ Counted(a) <= Counted(a)'
  <2>1. /\ Column(a) \in [Cpus -> Nat] /\ Column(a)' \in [Cpus -> Nat]
        /\ \A l \in Cpus : Column(a)[l] <= Column(a)'[l]
    BY <1>2, <1>3 DEF Column
  <2>2. Sum(Column(a), Cpus) <= Sum(Column(a)', Cpus)
    BY <2>1, SumGrows, CpusAssumption
  <2>3. Sum(Column(a), Cpus) \in Nat /\ Sum(Column(a)', Cpus) \in Nat
    BY <2>1, SumType, CpusAssumption
  <2> QED BY <2>2, <2>3, CountedIs, CountedNext
<1>5. misread[a] * Counted(a) <= misread[a] * Counted(a)'
  BY <1>4, RepeatsGrow DEF RestType
<1>6. /\ misread[a] * Counted(a) \in Nat /\ misread[a] * Counted(a)' \in Nat
      /\ reported[a] \in Nat /\ ticker.before[a] \in Nat
  BY <1>4, OneRepeatMore DEF RestType
<1>7. Unread(a)' = Unread(a)
  BY <1>1 DEF Unread
<1>8. /\ reported'[a] <= ticker'.before[a] + misread'[a] * Counted(a)'
      /\ reported[a] <= misread[a] * Counted(a)
         => reported'[a] <= misread'[a] * Counted(a)'
  BY <1>1, <1>5, <1>6 DEF ReadSoFar
<1> QED BY <1>1, <1>2, <1>3, <1>7, <1>8 DEF ReadSoFar

(* The ticker reads the value of one CPU.                                    *)
LEMMA SumReads ==
    ASSUME RestType, RestType', NEW k \in Cpus, SumCounter(k), NEW a \in Actions,
           NEW old \in [Cpus -> Nat], NEW seen \in [Cpus -> Nat],
           ReadSoFar(a, old, seen)
    PROVE  \E o, s \in [Cpus -> Nat] : ReadSoFar(a, o, s)'
<1> DEFINE b == ticker.pc
<1>1. /\ b \in Actions /\ k \in ticker.unread
      /\ UNCHANGED <<counters, reported, misread>>
      /\ ticker'.before = ticker.before
  BY DEF SumCounter, packetVars, RestType
<1>2. \A l \in Cpus : counters[l][a] \in Nat
  BY DEF RestType
<1>3. Counted(a)' = Counted(a)
  BY <1>1, CountedKept
<1>4. CASE a = b
  <2>1. ticker'.now[a] = ticker.now[a] + counters[k][a]
    BY <1>4 DEF SumCounter, RestType
  <2>2. Unread(a) = ticker.unread /\ Unread(a)' = ticker.unread \ {k}
    BY <1>1, <1>4 DEF SumCounter, AfterSum, Unread, Actions, RestType
  <2>3. seen[k] = 0
    BY <1>1, <2>2 DEF ReadSoFar
  <2>4. PICK next \in [Cpus -> Nat] :
           /\ next[k] = seen[k] + counters[k][a]
           /\ \A l \in Cpus : l # k => next[l] = seen[l]
    <3>1. [seen EXCEPT ![k] = counters[k][a]] \in [Cpus -> Nat]
      BY <1>2
    <3> DEFINE more == [seen EXCEPT ![k] = counters[k][a]]
    <3>2. more[k] = seen[k] + counters[k][a]
      BY <1>2, <2>3
    <3>3. \A l \in Cpus : l # k => more[l] = seen[l]
      OBVIOUS
    <3> HIDE DEF more
    <3>4. more \in [Cpus -> Nat]
      BY <3>1 DEF more
    <3> QED BY <3>2, <3>3, <3>4
  <2>5. Sum(next, Cpus) = Sum(seen, Cpus) + counters[k][a]
    BY <1>2, <2>4, SumGains, CpusAssumption
  <2>6. /\ ticker'.before[a] = Sum(old, Cpus)
        /\ ticker'.now[a] = Sum(next, Cpus)
    BY <1>1, <2>1, <2>5 DEF ReadSoFar
  <2>7. ASSUME NEW l \in Cpus
        PROVE  /\ old[l] <= counters'[l][a] /\ next[l] <= counters'[l][a]
               /\ l \in Unread(a)' => next[l] = 0
    <3>1. /\ old[l] <= counters[l][a] /\ seen[l] <= counters[l][a]
          /\ l \in Unread(a) => seen[l] = 0
      BY DEF ReadSoFar
    <3>2. counters[l][a] \in Nat /\ counters' = counters
      BY <1>1, <1>2
    <3>3. CASE l = k
      BY <1>2, <2>2, <2>3, <2>4, <3>1, <3>2, <3>3
    <3>4. CASE l # k
      BY <2>2, <2>4, <3>1, <3>2, <3>4
    <3> QED BY <3>3, <3>4
  <2>8. ASSUME \A l \in Cpus \ Unread(a) : old[l] <= seen[l]
        PROVE  \A l \in Cpus \ Unread(a)' : old[l] <= next[l]
    <3> SUFFICES ASSUME NEW l \in Cpus \ Unread(a)' PROVE old[l] <= next[l]
      OBVIOUS
    <3>1. CASE l = k
      <4>1. old[k] <= counters[k][a]
        BY DEF ReadSoFar
      <4> QED BY <1>2, <2>3, <2>4, <3>1, <4>1
    <3>2. CASE l # k
      BY <2>2, <2>4, <2>8, <3>2
    <3> QED BY <3>1, <3>2
  <2>9. ReadSoFar(a, old, next)'
    BY <1>1, <1>3, <2>6, <2>7, <2>8 DEF ReadSoFar
  <2> QED BY <2>4, <2>9
<1>5. CASE a # b
  <2>1. ticker'.now[a] = ticker.now[a]
    BY <1>1, <1>5 DEF SumCounter, RestType
  <2>2. Unread(a)' = Unread(a)
    <3>1. /\ ticker'.pc = IF ticker.unread = {k} THEN AfterSum(b) ELSE b
          /\ ticker'.unread = IF ticker.unread = {k} /\ b = "pass"
                              THEN Cpus ELSE ticker.unread \ {k}
      BY DEF SumCounter, RestType
    <3>2. CASE b = "pass" /\ a = "drop"
      BY <3>1, <3>2 DEF Unread, AfterSum
    <3>3. CASE b = "drop" /\ a = "pass"
      BY <3>1, <3>3 DEF Unread, AfterSum
    <3> QED BY <1>1, <1>5, <3>2, <3>3 DEF Actions
  <2>3. ReadSoFar(a, old, seen)'
    BY <1>1, <1>3, <2>1, <2>2 DEF ReadSoFar
  <2> QED BY <2>3
<1> QED BY <1>4, <1>5

(* A lookup fails: one more repetition is granted, and what was reported is  *)
(* no more than it allows without the total before.                          *)
LEMMA FailureReads ==
    ASSUME RestType, RestType', SumFails, NEW a \in Actions,
           NEW old \in [Cpus -> Nat], NEW seen \in [Cpus -> Nat],
           ReadSoFar(a, old, seen)
    PROVE  \E o, s \in [Cpus -> Nat] : ReadSoFar(a, o, s)'
<1> DEFINE b == ticker.pc
<1>1. /\ b \in Actions /\ UNCHANGED <<counters, reported>>
      /\ ticker'.before = ticker.before /\ ticker'.pc = AfterSum(b)
      /\ ticker'.unread = IF b = "pass" THEN Cpus ELSE {}
      /\ ticker'.now = [ticker.now EXCEPT ![b] = 0]
      /\ misread' = [misread EXCEPT ![b] = misread[b] + 1]
  BY DEF SumFails, packetVars, RestType
<1>2. Counted(a)' = Counted(a)
  BY <1>1, CountedKept
<1>3. CASE a = b
  <2>1. Unread(a)' = {}
    BY <1>1, <1>3 DEF Unread, AfterSum, Actions
  <2>2. ticker'.now[a] = 0 /\ misread'[a] = misread[a] + 1
    BY <1>1, <1>3 DEF RestType
  <2>3. Counted(a) \in Nat /\ ticker.before[a] <= Counted(a)
    BY CountedCovers DEF ReadSoFar
  <2>4. /\ reported[a] \in Nat /\ misread[a] \in Nat /\ ticker.before[a] \in Nat
        /\ \A k \in Cpus : counters[k][a] \in Nat
    BY DEF RestType
  <2>5. /\ misread[a] * Counted(a) \in Nat
        /\ (misread[a] + 1) * Counted(a)
           = misread[a] * Counted(a) + Counted(a)
    BY <2>3, <2>4, OneRepeatMore
  <2>6. reported[a] <= ticker.before[a] + misread[a] * Counted(a)
    BY DEF ReadSoFar
  <2>7. /\ reported'[a] <= misread'[a] * Counted(a)'
        /\ reported'[a] <= ticker'.before[a] + misread'[a] * Counted(a)'
    BY <1>1, <1>2, <2>2, <2>3, <2>4, <2>5, <2>6
  <2>8. ReadSoFar(a, old, Zeros)'
    BY <1>1, <2>1, <2>2, <2>4, <2>7, ZerosAre DEF ReadSoFar
  <2> QED BY <2>8, ZerosAre
<1>4. CASE a # b
  <2>1. ticker'.now[a] = ticker.now[a] /\ misread'[a] = misread[a]
    BY <1>1, <1>4 DEF RestType
  <2>2. Unread(a)' = Unread(a)
    <3>1. CASE b = "pass" /\ a = "drop"
      BY <1>1, <3>1 DEF Unread, AfterSum
    <3>2. CASE b = "drop" /\ a = "pass"
      BY <1>1, <3>2 DEF Unread, AfterSum
    <3> QED BY <1>1, <1>4, <3>1, <3>2 DEF Actions
  <2>3. ReadSoFar(a, old, seen)'
    BY <1>1, <1>2, <2>1, <2>2 DEF ReadSoFar
  <2> QED BY <2>3
<1> QED BY <1>3, <1>4

(* The stats are published: what was seen becomes what is old.               *)
LEMMA PublishReads ==
    ASSUME RestType, RestType', PublishStats, NEW a \in Actions,
           NEW old \in [Cpus -> Nat], NEW seen \in [Cpus -> Nat],
           ReadSoFar(a, old, seen)
    PROVE  ReadSoFar(a, seen, Zeros)'
<1>1. /\ ticker.pc = "publish" /\ ticker'.pc = "tick"
      /\ ticker'.before = ticker.now /\ ticker'.now = Zero
  BY DEF PublishStats, Waiting
<1>2. UNCHANGED <<counters, misread>>
  BY DEF PublishStats, packetVars
<1>3. Counted(a)' = Counted(a)
  BY <1>2, CountedKept
<1>4. Unread(a) = {} /\ Unread(a)' = Cpus
  BY <1>1 DEF Unread, Actions
<1>5. /\ ticker.now[a] \in Nat /\ ticker.before[a] \in Nat
      /\ reported[a] \in Nat /\ misread[a] \in Nat
      /\ \A k \in Cpus : counters[k][a] \in Nat
  BY DEF RestType
<1>6. Counted(a) \in Nat
  BY CountedCovers DEF ReadSoFar
<1>7. misread[a] * Counted(a) \in Nat
  BY <1>5, <1>6, OneRepeatMore
<1>8. reported'[a] <= ticker.now[a] + misread[a] * Counted(a)
  <2>1. /\ reported'[a] = reported[a] + Interval(a)
        /\ reported[a] <= ticker.before[a] + misread[a] * Counted(a)
    BY DEF PublishStats, ReadSoFar
  <2>2. CASE reported[a] <= misread[a] * Counted(a)
    BY <1>5, <1>7, <2>1, <2>2 DEF Interval
  <2>3. CASE \A k \in Cpus \ Unread(a) : old[k] <= seen[k]
    <3>1. Sum(old, Cpus) <= Sum(seen, Cpus)
      BY <1>4, <2>3, SumGrows, CpusAssumption
    <3>2. ticker.before[a] <= ticker.now[a]
      BY <3>1 DEF ReadSoFar
    <3> QED BY <1>5, <1>7, <2>1, <3>2 DEF Interval
  <2> QED BY <2>2, <2>3 DEF ReadSoFar
<1>9. Zero[a] = 0
  BY DEF Zero
<1> QED BY <1>1, <1>2, <1>3, <1>4, <1>5, <1>8, <1>9, ZerosAre DEF ReadSoFar

(* Count lets a counter grow, Tick starts a round, SumCounter adds one value *)
(* to it or fails, and PublishStats makes what was seen what is old.         *)
LEMMA ReportInvNext ==
    ASSUME LeakInv, RestType, RestType', ReportInv, [Next]_vars
    PROVE  ReportInv'
<1> SUFFICES ASSUME NEW a \in Actions
             PROVE  \E old, seen \in [Cpus -> Nat] : ReadSoFar(a, old, seen)'
  BY DEF ReportInv
<1>1. PICK old \in [Cpus -> Nat], seen \in [Cpus -> Nat] :
         ReadSoFar(a, old, seen)
  BY DEF ReportInv
<1>2. CASE UNCHANGED <<counters, ticker, reported, misread>>
  <2>1. Counted(a)' = Counted(a) /\ Unread(a)' = Unread(a)
    BY <1>2, CountedKept DEF Unread
  <2>2. ReadSoFar(a, old, seen)'
    BY <1>1, <1>2, <2>1 DEF ReadSoFar
  <2> QED BY <2>2
<1>3. ASSUME NEW k \in Cpus, Count(k)
      PROVE  ReadSoFar(a, old, seen)'
  BY <1>1, <1>3, CountReads
<1>4. CASE Tick
  <2>1. /\ Unread(a)' = Cpus
        /\ ticker'.now[a] = 0 /\ ticker'.before = ticker.before
    BY <1>4 DEF Tick, Unread, Zero, Actions, RestType
  <2>2. UNCHANGED <<counters, reported, misread>>
    BY <1>4 DEF Tick, packetVars
  <2>3. Counted(a)' = Counted(a)
    BY <2>2, CountedKept
  <2>4. \A k \in Cpus : counters[k][a] \in Nat
    BY DEF RestType
  <2>5. ReadSoFar(a, old, Zeros)'
    BY <1>1, <2>1, <2>2, <2>3, <2>4, ZerosAre DEF ReadSoFar
  <2> QED BY <2>5, ZerosAre
<1>5. CASE \E k \in Cpus : SumCounter(k)
  BY <1>1, <1>5, SumReads
<1>6. CASE SumFails
  BY <1>1, <1>6, FailureReads
<1>7. CASE PublishStats
  BY <1>1, <1>7, PublishReads, ZerosAre
<1>8. CASE Control \/ UNCHANGED vars
  BY <1>2, <1>8 DEF Control, Serve, Receive, SetMap, SetMapFails, StoreMode,
         Announce, Close, vars, packetVars, statsVars
<1>9. CASE Kernel
  <2>1. PICK k \in Cpus : Count(k) \/ \E kind \in Kinds : Decide(k, kind)
    BY <1>9 DEF Kernel
  <2>2. CASE Count(k)
    BY <1>3, <2>2
  <2>3. CASE \E kind \in Kinds : Decide(k, kind)
    BY <1>2, <2>3 DEF Decide, statsVars
  <2> QED BY <2>1, <2>2, <2>3
<1> QED BY <1>4, <1>5, <1>6, <1>7, <1>8, <1>9 DEF Next, Ticker

(* spawn_stats_ticker, sum_counter: on any number of CPUs that count on      *)
(* while they are summed, whatever lookups fail: the intervals report each   *)
(* packet once, and once more at most for each failed lookup.                *)
THEOREM IntervalsCorrect == Spec => []OnlyFailuresRepeat
<1>1. Init => ReportInv
  BY ReportInvInit
<1>2. FullInv /\ FullInv' /\ ReportInv /\ [Next]_vars => ReportInv'
  BY ReportInvNext DEF FullInv
<1>3. FullInv /\ ReportInv => OnlyFailuresRepeat
  <2> SUFFICES ASSUME RestType, ReportInv, NEW a \in Actions
               PROVE  reported[a] <= (1 + misread[a]) * Counted(a)
    BY DEF FullInv, OnlyFailuresRepeat
  <2>1. PICK old \in [Cpus -> Nat], seen \in [Cpus -> Nat] :
           ReadSoFar(a, old, seen)
    BY DEF ReportInv
  <2>2. Counted(a) \in Nat /\ ticker.before[a] <= Counted(a)
    BY <2>1, CountedCovers DEF ReadSoFar
  <2>3. /\ reported[a] \in Nat /\ misread[a] \in Nat
        /\ ticker.before[a] \in Nat
    BY DEF RestType
  <2>4. /\ misread[a] * Counted(a) \in Nat
        /\ (misread[a] + 1) * Counted(a)
           = misread[a] * Counted(a) + Counted(a)
    BY <2>2, <2>3, OneRepeatMore
  <2>5. reported[a] <= ticker.before[a] + misread[a] * Counted(a)
    BY <2>1 DEF ReadSoFar
  <2>6. 1 + misread[a] = misread[a] + 1
    BY <2>3
  <2> QED BY <2>2, <2>3, <2>4, <2>5, <2>6
<1> QED BY <1>1, <1>2, <1>3, FullInvAlways, PTL DEF Spec

-----------------------------------------------------------------------------
(* The register of ModeRegister, in terms of this module. *)
Pending == [c \in Conns |-> IF conn[c].pc = "set" THEN conn[c].mode
                                                  ELSE "none"]
Result == [c \in Conns |->
              CASE conn[c].pc \in {"store", "announce", "ok"} -> "ok"
                [] conn[c].pc = "error" -> "error"
                [] OTHER -> "none"]

(* A step of the control server is a step of the register, or none.          *)
LEMMA ControlStep ==
    ASSUME ConnType, Control
    PROVE  Register!Next \/ UNCHANGED <<kernelMode, Pending, Result>>
<1> USE DEF ConnType, Pending, Result
<1>0. "none" \notin Modes
  BY DEF Modes
<1>1. ASSUME NEW c \in Conns, NEW word \in Words, Receive(c, word)
      PROVE  word \in Modes /\ Register!Call(c, word)
  BY <1>0, <1>1 DEF Receive, Register!Call, Register!NotAsked
<1>2. ASSUME NEW c \in Conns, SetMap(c) PROVE Register!Take(c)
  BY <1>0, <1>2 DEF SetMap, Goto, Register!Take, Register!Answer,
                    Register!NotAsked
<1>3. ASSUME NEW c \in Conns, SetMapFails(c) PROVE Register!Refuse(c)
  BY <1>0, <1>3 DEF SetMapFails, Goto, Register!Refuse, Register!Answer,
                    Register!NotAsked
<1>4. ASSUME NEW c \in Conns, StoreMode(c) \/ Announce(c)
      PROVE  UNCHANGED <<kernelMode, Pending, Result>>
  BY <1>4 DEF StoreMode, Announce, Goto
<1>5. ASSUME NEW c \in Conns, Close(c) PROVE Register!Return(c)
  BY <1>5 DEF Close, NoCommand, Register!Return
<1> QED BY <1>1, <1>2, <1>3, <1>4, <1>5 DEF Control, Serve, Register!Next

(* spawn_control_server implements the register that its clients, the        *)
(* experiment runner and the console of traffic-node, take it for.           *)
THEOREM RegisterImplemented == Spec => ControlIsARegister
<1>1. Init => Register!Init
  BY StartupAssumption DEF Init, NoCommand, Register!Init, Register!NotAsked
<1>2. Inv /\ [Next]_vars => [Register!Next]_(Register!vars)
  <2> SUFFICES ASSUME Inv, [Next]_vars
               PROVE  Register!Next \/ UNCHANGED Register!vars
    OBVIOUS
  <2>1. CASE Control
    BY <2>1, ControlStep DEF Inv, Register!vars, Pending, Result
  <2>2. CASE UNCHANGED modeVars
    BY <2>2 DEF modeVars, Register!vars
  <2> QED BY <2>1, <2>2, OthersKeepModes DEF Next
<1> QED BY <1>1, <1>2, InvAlways, PTL DEF Spec, ControlIsARegister,
                                          Register!Spec
=============================================================================
