-------------------------- MODULE XdpProgramProofs --------------------------
(* Theorems about XdpProgram, for any number of CPUs, destinations and map   *)
(* entries, and any window, threshold and sampling interval.                 *)
EXTENDS XdpProgram, NumberLemmas

-----------------------------------------------------------------------------
(* What a step does to the CPU that takes it *)

(* The steps at which a CPU holds a pointer to a window.                     *)
Holding == {"age", "restart", "clear", "load", "store", "compare", "warned",
            "warn", "rate"}

(* Those at which its packet is in the window.                               *)
Stored == {"compare", "warned", "warn", "rate"}

Leaves(k) == cpu' = [cpu EXCEPT ![k] = Idle]

(* The steps that a packet goes through, by what they do to its CPU: those   *)
(* that touch no window, those that go on, and those that finish it.         *)
LEMMA CpuSteps ==
    ASSUME NEW k \in Cpus
    PROVE  /\ Insert(k) \/ InsertFails(k) \/ Clear(k) \/ Alert(k) => Leaves(k)
           /\ Age(k) => Goto(k, "restart") \/ Goto(k, "load")
           /\ Restart(k) => Goto(k, "clear")
           /\ StoreCount(k) => Goto(k, "compare")
           /\ CheckWarned(k) => Leaves(k) \/ Goto(k, "warn")
           /\ Warn(k) => Goto(k, "rate")
<1>1. Finish(k) => Leaves(k)
  BY DEF Finish, Leaves
<1>2. Insert(k) \/ InsertFails(k) \/ Clear(k) \/ Alert(k) => Leaves(k)
  BY <1>1 DEF Insert, InsertFails, Clear, Alert
<1>3. Age(k) => Goto(k, "restart") \/ Goto(k, "load")
  BY DEF Age
<1>4. Restart(k) => Goto(k, "clear")
  BY DEF Restart
<1>5. StoreCount(k) => Goto(k, "compare")
  BY DEF StoreCount
<1>6. CheckWarned(k) => Leaves(k) \/ Goto(k, "warn")
  BY <1>1 DEF CheckWarned, Proceed
<1>7. Warn(k) => Goto(k, "rate")
  BY DEF Warn
<1> QED BY <1>2, <1>3, <1>4, <1>5, <1>6, <1>7

(* A comparison goes on with the count it read if that reaches the           *)
(* threshold.                                                                *)
Reaches(k, n) ==
    /\ n >= Threshold
    /\ cpu' = [cpu EXCEPT ![k] = [@ EXCEPT !.pc = "warned", !.count = n]]

LEMMA CompareSteps ==
    ASSUME NEW k \in Cpus, Compare(k)
    PROVE  /\ cpu[k].pc = "compare"
           /\ UNCHANGED <<mode, now, windowVars, alerts, ghostVars>>
           /\ \E n \in Readings(k) :
                 \/ Reaches(k, n) /\ UNCHANGED sampleVars
                 \/ ~(n >= Threshold) /\ Finish(k) /\ Leaves(k)
<1>1. Finish(k) => Leaves(k)
  BY DEF Finish, Leaves
<1> QED BY <1>1 DEF Compare, Reaches

(* ... and what they leave alone.                                            *)
LEMMA DetectFrame ==
    ASSUME NEW k \in Cpus, Detect(k)
    PROVE  UNCHANGED <<mode, now, ghostVars>>
  BY DEF Detect, Lookup, Insert, InsertFails, Age, Restart, Clear, LoadCount,
         StoreCount, Compare, CheckWarned, Warn, Alert

-----------------------------------------------------------------------------
(* Type correctness *)

TypeInv == TypeOK /\ IsFiniteSet(DOMAIN entries)

LEMMA ElementType ==
    /\ Cardinality(Cpus) \in Nat
    /\ 1 \in Elements
    /\ Begun(0) \in Windows
    /\ \A t \in 0..MaxTime : Begun(t) \in Windows
    /\ \A w \in Windows, t \in 0..MaxTime : Detected(w, t) \in Windows
<1>1. Cardinality(Cpus) \in Nat
  BY ProgramAssumption, FS_CardinalityType
<1>2. 1 \in Elements
  BY <1>1, ProgramAssumption DEF Elements
<1>3. \A t \in 0..MaxTime : Begun(t) \in Windows
  BY DEF Begun, Windows
<1>4. ASSUME NEW w \in Windows, NEW t \in 0..MaxTime
      PROVE  Detected(w, t) \in Windows
  <2> DEFINE warned == w.warned \/ w.count + 1 >= Threshold
  <2>1. w.count + 1 \in Nat /\ warned \in BOOLEAN
    <3>1. w.count \in Nat
      BY DEF Windows
    <3> QED BY <3>1
  <2>2. [w EXCEPT !.count = w.count + 1, !.warned = warned] \in Windows
    <3> HIDE DEF warned
    <3> QED BY <2>1 DEF Windows
  <2>3. CASE Expired(t, w.start)
    BY <1>3, <2>3 DEF Detected
  <2>4. CASE ~Expired(t, w.start)
    BY <2>2, <2>4 DEF Detected
  <2> QED BY <2>3, <2>4
<1>5. 0 \in 0..MaxTime
  BY ProgramAssumption
<1> QED BY <1>1, <1>2, <1>3, <1>4, <1>5

LEMMA IdleType == Idle \in CpuLocals
<1>1. 0 \in 0..MaxTime
  BY ProgramAssumption
<1> QED BY <1>1, ElementType DEF Idle, CpuLocals, Kinds

LEMMA InitType == Init => TypeInv
<1> SUFFICES ASSUME Init PROVE TypeInv
  OBVIOUS
<1>1. 0 \in 0..MaxTime
  BY ProgramAssumption
<1>2. cpu \in [Cpus -> CpuLocals]
  BY IdleType DEF Init
<1>3. DOMAIN entries = {}
  BY DEF Init
<1>4. /\ DOMAIN entries \subseteq Hosts
      /\ Cardinality(DOMAIN entries) <= MaxDestinations
      /\ entries \in [DOMAIN entries -> Elements] /\ IsInjective(entries)
      /\ IsFiniteSet(DOMAIN entries)
  <2>1. entries \in [DOMAIN entries -> Elements]
    BY <1>3 DEF Init
  <2>2. IsInjective(entries)
    BY <1>3 DEF IsInjective
  <2> QED BY <1>3, <2>1, <2>2, FS_EmptySet, ProgramAssumption
<1>5. elements \in [Elements -> Windows]
  BY <1>1 DEF Init, Windows
<1>6. /\ counters \in [Cpus -> [Actions -> Nat]]
      /\ sampled \in [Cpus -> Nat] /\ alerts \in [Cpus -> Nat]
      /\ clears \in Nat /\ observed \in [Hosts -> Nat]
      /\ raced \subseteq Hosts
  BY DEF Init
<1>7. replaced \in BOOLEAN /\ mode \in {"monitor", "protect"}
  BY DEF Init
<1>8. exact \in [Hosts -> Windows]
  BY ElementType DEF Init
<1>9. now \in 0..MaxTime
  BY <1>1 DEF Init
<1> QED BY <1>2, <1>4, <1>5, <1>6, <1>7, <1>8, <1>9 DEF TypeInv, TypeOK

LEMMA CpuType ==
    ASSUME TypeInv, NEW k \in Cpus, Detect(k)
    PROVE  /\ cpu' \in [Cpus -> CpuLocals]
           /\ \A j \in Cpus \ {k} : cpu'[j] = cpu[j]
<1>1. /\ cpu \in [Cpus -> CpuLocals] /\ now \in 0..MaxTime
      /\ entries \in [DOMAIN entries -> Elements]
      /\ elements \in [Elements -> Windows]
  BY DEF TypeInv, TypeOK
<1>2. CASE Lookup(k)
  <2>1. CASE cpu[k].dst \in DOMAIN entries
    <3> DEFINE e == entries[cpu[k].dst]
    <3>1. e \in Elements
      BY <1>1, <2>1
    <3>2. cpu' = [cpu EXCEPT ![k] = [cpu[k] EXCEPT !.pc = "age",
                                                !.element = e]]
      BY <1>1, <1>2, <2>1 DEF Lookup
    <3> HIDE DEF e
    <3>3. [cpu[k] EXCEPT !.pc = "age", !.element = e] \in CpuLocals
      BY <1>1, <3>1 DEF CpuLocals
    <3> QED BY <1>1, <3>2, <3>3
  <2>2. CASE cpu[k].dst \notin DOMAIN entries
    BY <1>1, <1>2, <2>2 DEF Lookup, CpuLocals
  <2> QED BY <2>1, <2>2
<1>3. CASE LoadCount(k)
  <2> DEFINE n == elements[cpu[k].element].count + 1
  <2>1. n \in Nat
    BY <1>1 DEF Windows, CpuLocals
  <2>2. cpu' = [cpu EXCEPT ![k] = [cpu[k] EXCEPT !.pc = "store",
                                                !.count = n]]
    BY <1>1, <1>3 DEF LoadCount
  <2> HIDE DEF n
  <2>3. [cpu[k] EXCEPT !.pc = "store", !.count = n] \in CpuLocals
    BY <1>1, <2>1 DEF CpuLocals
  <2> QED BY <1>1, <2>2, <2>3
<1>4. CASE Leaves(k)
  BY <1>1, <1>4, IdleType DEF Leaves
<1>5. CASE \E pc \in {"restart", "load", "clear", "compare", "warn", "rate"} :
              Goto(k, pc)
  BY <1>1, <1>5 DEF Goto, CpuLocals
<1>6. CASE \E n \in Readings(k) : Reaches(k, n)
  <2>1. PICK n \in Readings(k) : Reaches(k, n)
    BY <1>6
  <2>2. n \in Nat
    BY <1>1 DEF Readings, Windows, CpuLocals
  <2>3. [cpu[k] EXCEPT !.pc = "warned", !.count = n] \in CpuLocals
    BY <1>1, <2>2 DEF CpuLocals
  <2> QED BY <1>1, <2>1, <2>3 DEF Reaches
<1> QED BY <1>2, <1>3, <1>4, <1>5, <1>6, CpuSteps, CompareSteps DEF Detect

(* The map grows by one destination, or one of its elements is replaced, and *)
(* a window of its own elements or of a freed one is written.                *)
LEMMA InsertType ==
    ASSUME TypeInv, NEW k \in Cpus, Insert(k), cpu[k].dst \in Hosts
    PROVE  /\ DOMAIN entries' = DOMAIN entries \cup {cpu[k].dst}
           /\ DOMAIN entries' \subseteq Hosts
           /\ IsFiniteSet(DOMAIN entries')
           /\ Cardinality(DOMAIN entries') <= MaxDestinations
           /\ entries' \in [DOMAIN entries' -> Elements]
           /\ IsInjective(entries')
           /\ elements' \in [Elements -> Windows]
<1> DEFINE d == cpu[k].dst
<1>1. PICK e \in Unmapped :
         /\ elements' = [elements EXCEPT ![e] = Begun(cpu[k].now)]
         /\ entries' = [x \in DOMAIN entries \cup {d} |->
                           IF x = d THEN e ELSE entries[x]]
  BY DEF Insert, Free
<1>2. /\ e \in Elements /\ \A x \in DOMAIN entries : entries[x] # e
      /\ entries \in [DOMAIN entries -> Elements] /\ IsInjective(entries)
      /\ DOMAIN entries \subseteq Hosts
  BY DEF Unmapped, TypeInv, TypeOK
<1>3. DOMAIN entries' = DOMAIN entries \cup {d}
  BY <1>1
<1>4. /\ IsFiniteSet(DOMAIN entries')
      /\ Cardinality(DOMAIN entries') <= MaxDestinations
  <2>1. /\ IsFiniteSet(DOMAIN entries) /\ Cardinality(DOMAIN entries) \in Nat
        /\ Cardinality(DOMAIN entries) <= MaxDestinations
    BY FS_CardinalityType DEF TypeInv, TypeOK
  <2>2. d \notin DOMAIN entries =>
           Cardinality(DOMAIN entries) + 1 <= MaxDestinations
    BY <2>1, ProgramAssumption DEF Insert, Full
  <2>3. /\ IsFiniteSet(DOMAIN entries \cup {d})
        /\ Cardinality(DOMAIN entries \cup {d}) =
              IF d \in DOMAIN entries THEN Cardinality(DOMAIN entries)
                                     ELSE Cardinality(DOMAIN entries) + 1
    BY <2>1, FS_AddElement
  <2> QED BY <1>3, <2>1, <2>2, <2>3
<1>5. entries' \in [DOMAIN entries' -> Elements]
  BY <1>1, <1>2
<1>6. IsInjective(entries')
  BY <1>1, <1>2 DEF IsInjective
<1>7. elements' \in [Elements -> Windows]
  <2>1. cpu[k].now \in 0..MaxTime /\ elements \in [Elements -> Windows]
    BY DEF TypeInv, TypeOK, CpuLocals
  <2> QED BY <1>1, <1>2, <2>1, ElementType
<1> QED BY <1>2, <1>3, <1>4, <1>5, <1>6, <1>7

(* A write to a window that a CPU holds.                                     *)
LEMMA WriteType ==
    ASSUME TypeInv, NEW k \in Cpus,
           Restart(k) \/ Clear(k) \/ StoreCount(k) \/ Warn(k)
    PROVE  /\ elements' \in [Elements -> Windows]
           /\ \E w \in Windows :
                 elements' = [elements EXCEPT ![cpu[k].element] = w]
<1> DEFINE e == cpu[k].element
<1>1. /\ e \in Elements /\ elements \in [Elements -> Windows]
      /\ elements[e] \in Windows
      /\ cpu[k].now \in 0..MaxTime /\ cpu[k].count \in Nat
  BY DEF TypeInv, TypeOK, CpuLocals
<1>2. \E w \in Windows : elements' = [elements EXCEPT ![e] = w]
  <2>1. CASE Restart(k)
    <3>1. [elements[e] EXCEPT !.start = cpu[k].now] \in Windows
      BY <1>1 DEF Windows
    <3> QED BY <1>1, <2>1, <3>1 DEF Restart
  <2>2. CASE Clear(k)
    <3>1. [elements[e] EXCEPT !.count = 1, !.warned = FALSE] \in Windows
      BY <1>1 DEF Windows
    <3> QED BY <1>1, <2>2, <3>1 DEF Clear
  <2>3. CASE StoreCount(k)
    <3>1. [elements[e] EXCEPT !.count = cpu[k].count] \in Windows
      BY <1>1 DEF Windows
    <3> QED BY <1>1, <2>3, <3>1 DEF StoreCount
  <2>4. CASE Warn(k)
    <3>1. [elements[e] EXCEPT !.warned = TRUE] \in Windows
      BY <1>1 DEF Windows
    <3> QED BY <1>1, <2>4, <3>1 DEF Warn
  <2> QED BY <2>1, <2>2, <2>3, <2>4
<1> QED BY <1>1, <1>2

(* Counters, samples and alerts only go up.                                  *)
LEMMA CountersType ==
    ASSUME TypeInv, NEW k \in Cpus, Detect(k)
    PROVE  /\ counters' \in [Cpus -> [Actions -> Nat]]
           /\ sampled' \in [Cpus -> Nat] /\ alerts' \in [Cpus -> Nat]
           /\ clears' \in Nat
<1>1. /\ counters \in [Cpus -> [Actions -> Nat]]
      /\ sampled \in [Cpus -> Nat] /\ alerts \in [Cpus -> Nat]
      /\ clears \in Nat
  BY DEF TypeInv, TypeOK
<1>2. /\ counters' \in [Cpus -> [Actions -> Nat]]
      /\ sampled' \in [Cpus -> Nat]
  <2>1. CASE Finish(k)
    <3> DEFINE a == PacketAction(cpu[k].kind)
               n == counters[k][a] + 1
    <3>1. a \in Actions
      BY DEF PacketAction, Actions
    <3>2. n \in Nat
      BY <1>1, <3>1
    <3>3. counters' = [counters EXCEPT ![k][a] = n]
      BY <2>1 DEF Finish
    <3>4. sampled' = [sampled EXCEPT ![k] = @ + 1] \/ sampled' = sampled
      BY <2>1 DEF Finish
    <3> HIDE DEF a, n
    <3> QED BY <1>1, <3>1, <3>2, <3>3, <3>4
  <2>2. CASE UNCHANGED sampleVars
    BY <1>1, <2>2 DEF sampleVars
  <2> QED BY <2>1, <2>2
          DEF Detect, Lookup, Insert, InsertFails, Age, Restart, Clear,
              LoadCount, StoreCount, Compare, CheckWarned, Warn, Alert, Proceed
<1>3. alerts' \in [Cpus -> Nat]
  <2>1. CASE Compare(k)
    BY <1>1, <2>1, CompareSteps
  <2> QED BY <1>1, <2>1
          DEF Detect, Lookup, Insert, InsertFails, Age, Restart, Clear,
              LoadCount, StoreCount, CheckWarned, Warn, Alert
<1>4. clears' \in Nat
  <2>1. CASE Compare(k)
    BY <1>1, <2>1, CompareSteps DEF windowVars
  <2> QED BY <1>1, <2>1
          DEF Detect, Lookup, Insert, InsertFails, Age, Restart, Clear,
              LoadCount, StoreCount, CheckWarned, Warn, Alert, windowVars
<1> QED BY <1>2, <1>3, <1>4

LEMMA DetectType ==
    ASSUME TypeInv, NEW k \in Cpus, Detect(k),
           cpu[k].pc # "idle" => cpu[k].dst \in Hosts
    PROVE  TypeInv'
<1>1. cpu' \in [Cpus -> CpuLocals]
  BY CpuType
<1>2. /\ counters' \in [Cpus -> [Actions -> Nat]]
      /\ sampled' \in [Cpus -> Nat] /\ alerts' \in [Cpus -> Nat]
      /\ clears' \in Nat
  BY CountersType
<1>3. /\ mode' \in {"monitor", "protect"} /\ now' \in 0..MaxTime
      /\ observed' \in [Hosts -> Nat] /\ exact' \in [Hosts -> Windows]
      /\ raced' \subseteq Hosts
  BY DetectFrame DEF TypeInv, TypeOK, ghostVars
<1>4. /\ DOMAIN entries' \subseteq Hosts
      /\ IsFiniteSet(DOMAIN entries')
      /\ Cardinality(DOMAIN entries') <= MaxDestinations
      /\ entries' \in [DOMAIN entries' -> Elements]
      /\ IsInjective(entries')
      /\ elements' \in [Elements -> Windows]
  <2>1. CASE Insert(k)
    <3>1. cpu[k].dst \in Hosts
      BY <2>1 DEF Insert
    <3> QED BY <2>1, <3>1, InsertType
  <2>2. CASE Restart(k) \/ Clear(k) \/ StoreCount(k) \/ Warn(k)
    <3>1. entries' = entries
      BY <2>2 DEF Restart, Clear, StoreCount, Warn
    <3>2. elements' \in [Elements -> Windows]
      BY <2>2, WriteType
    <3> QED BY <3>1, <3>2 DEF TypeInv, TypeOK
  <2>3. CASE UNCHANGED <<entries, elements>>
    BY <2>3 DEF TypeInv, TypeOK
  <2> QED BY <2>1, <2>2, <2>3
          DEF Detect, Lookup, InsertFails, Age, LoadCount, Compare,
              CheckWarned, Alert, windowVars
<1>5. replaced' \in BOOLEAN
  <2>1. CASE Insert(k)
    BY <2>1 DEF Insert
  <2>2. CASE replaced' = replaced
    BY <2>2 DEF TypeInv, TypeOK
  <2> QED BY <2>1, <2>2
          DEF Detect, Lookup, InsertFails, Age, Restart, Clear, LoadCount,
              StoreCount, Compare, CheckWarned, Warn, Alert, windowVars
<1> QED BY <1>1, <1>2, <1>3, <1>4, <1>5 DEF TypeInv, TypeOK

LEMMA ArriveType ==
    ASSUME TypeInv, NEW k \in Cpus, NEW kind \in Kinds, NEW d \in Hosts,
           Arrive(k, kind, d)
    PROVE  TypeInv'
<1>1. cpu' \in [Cpus -> CpuLocals]
  <2>1. [Idle EXCEPT !.pc = "lookup", !.kind = kind, !.dst = d, !.now = now]
           \in CpuLocals
    BY IdleType DEF CpuLocals, TypeInv, TypeOK
  <2> QED BY <2>1 DEF Arrive, TypeInv, TypeOK
<1>2. observed' \in [Hosts -> Nat] /\ raced' \subseteq Hosts
  BY DEF Arrive, TypeInv, TypeOK
<1>3. exact' \in [Hosts -> Windows]
  <2>1. now \in 0..MaxTime /\ exact \in [Hosts -> Windows]
    BY DEF TypeInv, TypeOK
  <2>2. Begun(now) \in Windows /\ Detected(exact[d], now) \in Windows
    BY <2>1, ElementType
  <2> QED BY <2>1, <2>2 DEF Arrive
<1>4. UNCHANGED <<mode, now, windowVars, sampleVars, alerts>>
  BY DEF Arrive
<1> QED BY <1>1, <1>2, <1>3, <1>4
        DEF TypeInv, TypeOK, windowVars, sampleVars

LEMMA TickType == TypeInv /\ Tick => TypeInv'
<1> SUFFICES ASSUME TypeInv, Tick PROVE TypeInv'
  OBVIOUS
<1>1. now' \in 0..MaxTime
  BY ProgramAssumption DEF Tick, TypeInv, TypeOK
<1>2. UNCHANGED <<mode, cpu, windowVars, sampleVars, alerts, ghostVars>>
  BY DEF Tick
<1> QED BY <1>1, <1>2
        DEF TypeInv, TypeOK, windowVars, sampleVars, ghostVars
-----------------------------------------------------------------------------
(* Pointers and elements *)

(* A packet under way is for a host, and one that holds a window holds the   *)
(* one of its destination, which is in the map; a window that was begun has  *)
(* a count, whoever writes to it.                                            *)
HoldInv ==
    /\ \A k \in Cpus :
          /\ cpu[k].pc = "idle" => cpu[k].dst = "none"
          /\ cpu[k].pc # "idle" => cpu[k].dst \in Hosts
          /\ cpu[k].pc = "store" => cpu[k].count > 0
          /\ cpu[k].pc \in Holding =>
                /\ cpu[k].dst \in DOMAIN entries
                /\ elements[cpu[k].element].count > 0
                /\ ~replaced => cpu[k].element = entries[cpu[k].dst]
    /\ \A d \in DOMAIN entries : elements[entries[d]].count > 0

LEMMA CountsStay ==
    ASSUME TypeInv, HoldInv, NEW k \in Cpus, Detect(k), NEW e \in Elements,
           elements[e].count > 0
    PROVE  elements'[e].count > 0
<1>1. elements \in [Elements -> Windows] /\ cpu[k].element \in Elements
  BY DEF TypeInv, TypeOK, CpuLocals
<1>2. elements[e] \in Windows /\ elements[cpu[k].element] \in Windows
  BY <1>1
<1>3. CASE Insert(k)
  BY <1>1, <1>2, <1>3 DEF Insert, Begun
<1>4. CASE Restart(k)
  BY <1>1, <1>2, <1>4 DEF Restart, Windows
<1>5. CASE Clear(k)
  BY <1>1, <1>2, <1>5 DEF Clear, Windows
<1>6. CASE StoreCount(k)
  <2>1. cpu[k].count > 0
    BY <1>6 DEF StoreCount, HoldInv
  <2> QED BY <1>1, <1>2, <1>6, <2>1 DEF StoreCount, Windows
<1>7. CASE Warn(k)
  BY <1>1, <1>2, <1>7 DEF Warn, Windows
<1>8. CASE UNCHANGED elements
  BY <1>8
<1> QED BY <1>3, <1>4, <1>5, <1>6, <1>7, <1>8
        DEF Detect, Lookup, InsertFails, Age, LoadCount, Compare, CheckWarned,
            Alert, windowVars

(* The map keeps its destinations, and unless one is replaced, each keeps    *)
(* its element.                                                              *)
LEMMA EntriesStay ==
    ASSUME TypeInv, NEW k \in Cpus, Detect(k)
    PROVE  /\ DOMAIN entries \subseteq DOMAIN entries'
           /\ replaced => replaced'
           /\ ~replaced' => \A d \in DOMAIN entries : entries'[d] = entries[d]
<1>1. CASE Insert(k)
  <2>1. PICK e \in Unmapped :
           entries' = [x \in DOMAIN entries \cup {cpu[k].dst} |->
                         IF x = cpu[k].dst THEN e ELSE entries[x]]
    BY <1>1 DEF Insert, Free
  <2>2. replaced' = (replaced \/ cpu[k].dst \in DOMAIN entries)
    BY <1>1 DEF Insert
  <2> QED BY <2>1, <2>2
<1>2. CASE UNCHANGED <<entries, replaced>>
  BY <1>2
<1> QED BY <1>1, <1>2
        DEF Detect, Lookup, InsertFails, Age, Restart, Clear, LoadCount,
            StoreCount, Compare, CheckWarned, Warn, Alert, windowVars

LEMMA HoldNext ==
    ASSUME TypeInv, HoldInv, NEW k \in Cpus, Detect(k)
    PROVE  HoldInv'
<1>1. /\ cpu \in [Cpus -> CpuLocals] /\ elements \in [Elements -> Windows]
      /\ entries \in [DOMAIN entries -> Elements]
      /\ \A j \in Cpus : cpu[j].element \in Elements
  BY DEF TypeInv, TypeOK, CpuLocals
<1>2. ASSUME NEW d \in DOMAIN entries' PROVE elements'[entries'[d]].count > 0
  <2>1. CASE Insert(k)
    <3>1. PICK e \in Unmapped :
             /\ elements' = [elements EXCEPT ![e] = Begun(cpu[k].now)]
             /\ entries' = [x \in DOMAIN entries \cup {cpu[k].dst} |->
                               IF x = cpu[k].dst THEN e ELSE entries[x]]
      BY <2>1 DEF Insert, Free
    <3>2. e \in Elements
      BY DEF Unmapped
    <3>3. CASE d = cpu[k].dst
      BY <1>1, <3>1, <3>2, <3>3 DEF Begun
    <3>4. CASE d # cpu[k].dst
      <4>1. d \in DOMAIN entries /\ entries'[d] = entries[d]
        BY <3>1, <3>4
      <4> QED BY <1>1, <4>1, CountsStay DEF HoldInv
    <3> QED BY <3>3, <3>4
  <2>2. CASE UNCHANGED entries
    BY <1>1, <1>2, <2>2, CountsStay DEF HoldInv
  <2> QED BY <2>1, <2>2
          DEF Detect, Lookup, InsertFails, Age, Restart, Clear, LoadCount,
              StoreCount, Compare, CheckWarned, Warn, Alert, windowVars
<1>3. ASSUME NEW j \in Cpus, cpu'[j] = cpu[j]
      PROVE  /\ cpu'[j].pc = "idle" => cpu'[j].dst = "none"
             /\ cpu'[j].pc # "idle" => cpu'[j].dst \in Hosts
             /\ cpu'[j].pc = "store" => cpu'[j].count > 0
             /\ cpu'[j].pc \in Holding =>
                   /\ cpu'[j].dst \in DOMAIN entries'
                   /\ elements'[cpu'[j].element].count > 0
                   /\ ~replaced' => cpu'[j].element = entries'[cpu'[j].dst]
  BY <1>1, <1>3, CountsStay, EntriesStay DEF HoldInv
<1>4. /\ cpu'[k].pc = "idle" => cpu'[k].dst = "none"
      /\ cpu'[k].pc # "idle" => cpu'[k].dst \in Hosts
      /\ cpu'[k].pc = "store" => cpu'[k].count > 0
      /\ cpu'[k].pc \in Holding =>
            /\ cpu'[k].dst \in DOMAIN entries'
            /\ elements'[cpu'[k].element].count > 0
            /\ ~replaced' => cpu'[k].element = entries'[cpu'[k].dst]
  <2>1. CASE Leaves(k)
    BY <1>1, <2>1 DEF Leaves, Idle, Holding
  <2>2. CASE Lookup(k)
    <3> DEFINE d == cpu[k].dst
    <3>1. d \in Hosts /\ UNCHANGED <<entries, elements, replaced>>
      BY <2>2 DEF Lookup, HoldInv, windowVars
    <3>2. CASE d \in DOMAIN entries
      <4>1. cpu'[k] = [cpu[k] EXCEPT !.pc = "age", !.element = entries[d]]
        BY <1>1, <2>2, <3>2 DEF Lookup
      <4>2. /\ cpu'[k].pc = "age" /\ cpu'[k].dst = d
            /\ cpu'[k].element = entries[d]
        BY <1>1, <4>1 DEF CpuLocals
      <4> QED BY <3>1, <3>2, <4>2 DEF HoldInv
    <3>3. CASE d \notin DOMAIN entries
      <4>1. cpu'[k].pc = "insert" /\ cpu'[k].dst = d
        BY <1>1, <2>2, <3>3 DEF Lookup, CpuLocals
      <4> QED BY <3>1, <4>1 DEF Holding
    <3> QED BY <3>2, <3>3
  <2>3. CASE LoadCount(k)
    <3> DEFINE n == elements[cpu[k].element].count + 1
    <3>1. cpu'[k] = [cpu[k] EXCEPT !.pc = "store", !.count = n]
      BY <1>1, <2>3 DEF LoadCount
    <3>2. n > 0
      BY <1>1 DEF Windows
    <3>3. /\ cpu'[k].pc = "store" /\ cpu'[k].count = n
          /\ cpu'[k].dst = cpu[k].dst /\ cpu'[k].element = cpu[k].element
      BY <1>1, <3>1 DEF CpuLocals
    <3>4. cpu[k].pc = "load" /\ UNCHANGED <<entries, elements, replaced>>
      BY <2>3 DEF LoadCount, windowVars
    <3> QED BY <3>2, <3>3, <3>4 DEF HoldInv, Holding
  <2>4. ASSUME NEW pc \in {"restart", "load", "clear", "compare", "warn",
                           "rate"},
               Goto(k, pc), cpu[k].pc \in Holding
        PROVE  /\ cpu'[k].pc # "idle" /\ cpu'[k].pc # "store"
               /\ cpu'[k].dst \in Hosts
               /\ cpu'[k].dst \in DOMAIN entries'
               /\ elements'[cpu'[k].element].count > 0
               /\ ~replaced' => cpu'[k].element = entries'[cpu'[k].dst]
    <3>1. /\ cpu'[k].pc = pc /\ cpu'[k].dst = cpu[k].dst
          /\ cpu'[k].element = cpu[k].element
      BY <1>1, <2>4 DEF Goto, CpuLocals
    <3>2. cpu[k].pc # "idle" /\ cpu[k].dst \in DOMAIN entries
      BY <2>4 DEF Holding, HoldInv
    <3> QED BY <1>1, <2>4, <3>1, <3>2, CountsStay, EntriesStay DEF HoldInv
  <2>5. Age(k) \/ Restart(k) \/ StoreCount(k) \/ CheckWarned(k) \/ Warn(k) =>
           cpu[k].pc \in Holding
    BY DEF Age, Restart, StoreCount, CheckWarned, Warn, Holding
  <2>6. CASE Compare(k) /\ ~Leaves(k)
    <3>1. PICK n \in Readings(k) : Reaches(k, n)
      BY <2>6, CompareSteps
    <3>2. cpu[k].pc = "compare" /\ UNCHANGED <<entries, elements, replaced>>
      BY <2>6, CompareSteps DEF windowVars
    <3>3. /\ cpu'[k].pc = "warned" /\ cpu'[k].dst = cpu[k].dst
          /\ cpu'[k].element = cpu[k].element
      BY <1>1, <3>1 DEF Reaches, CpuLocals
    <3> QED BY <3>2, <3>3 DEF HoldInv, Holding
  <2> QED BY <2>1, <2>2, <2>3, <2>4, <2>5, <2>6, CpuSteps DEF Detect
<1>5. \A j \in Cpus \ {k} : cpu'[j] = cpu[j]
  BY CpuType
<1> QED BY <1>2, <1>3, <1>4, <1>5 DEF HoldInv

(* A packet comes to an idle CPU, which holds nothing yet.                   *)
LEMMA ArriveCpu ==
    ASSUME TypeInv, NEW k \in Cpus, NEW kind \in Kinds, NEW d \in Hosts,
           Arrive(k, kind, d)
    PROVE  /\ cpu[k].pc = "idle"
           /\ cpu'[k].pc = "lookup" /\ cpu'[k].dst = d /\ cpu'[k].now = now
           /\ \A j \in Cpus \ {k} : cpu'[j] = cpu[j]
           /\ UNCHANGED <<mode, now, entries, elements, clears, replaced,
                          counters, sampled, alerts>>
  BY DEF Arrive, TypeInv, TypeOK, CpuLocals, Idle, windowVars, sampleVars

LEMMA HoldArrive ==
    ASSUME TypeInv, HoldInv, NEW k \in Cpus, NEW kind \in Kinds,
           NEW d \in Hosts, Arrive(k, kind, d)
    PROVE  HoldInv'
  BY ArriveCpu DEF HoldInv, Holding

-----------------------------------------------------------------------------
(* Every packet is counted *)

TotalsAgree == Sum(observed, Hosts) = Sum(Handled, Cpus)

LEMMA TotalsAre == EveryPacketIsCounted <=> TotalsAgree
  BY DEF EveryPacketIsCounted, MapThenSumSet, MapThenFoldSet, Sum, IsSum, Pick,
         TotalsAgree

LEMMA TotalsNext == EveryPacketIsCounted' <=> TotalsAgree'
<1>1. EveryPacketIsCounted <=> TotalsAgree
  BY TotalsAre
<1> QED BY <1>1, PTL

LEMMA HandledType ==
    ASSUME TypeInv
    PROVE  Handled \in [Cpus -> Nat] /\ observed \in [Hosts -> Nat]
  BY DEF TypeInv, TypeOK, Handled, Actions

(* A packet is in progress until it is counted.                              *)
LEMMA HandledStays ==
    ASSUME TypeInv, NEW k \in Cpus, Detect(k)
    PROVE  Handled' = Handled
<1>1. /\ cpu \in [Cpus -> CpuLocals]
      /\ counters \in [Cpus -> [Actions -> Nat]]
      /\ \A j \in Cpus \ {k} : cpu'[j] = cpu[j]
  BY CpuType DEF TypeInv, TypeOK
<1>2. cpu[k].pc # "idle"
  BY CompareSteps DEF Detect, Lookup, Insert, InsertFails, Age, Restart, Clear,
         LoadCount, StoreCount, CheckWarned, Warn, Alert
<1>3. CASE Finish(k)
  <2> DEFINE a == PacketAction(cpu[k].kind)
  <2>1. a \in {"pass", "drop"}
    BY DEF PacketAction
  <2>2. /\ counters' = [counters EXCEPT ![k][a] = counters[k][a] + 1]
        /\ cpu'[k].pc = "idle"
    BY <1>1, <1>3 DEF Finish, Idle
  <2> HIDE DEF a
  <2>3. /\ \A j \in Cpus \ {k} : counters'[j] = counters[j]
        /\ \A b \in Actions : counters'[k][b] =
              IF b = a THEN counters[k][b] + 1 ELSE counters[k][b]
        /\ \A b \in Actions : counters[k][b] \in Nat
    BY <1>1, <2>1, <2>2 DEF Actions
  <2>4. counters'[k]["pass"] + counters'[k]["drop"] + 0
           = counters[k]["pass"] + counters[k]["drop"] + 1
    BY <2>1, <2>3 DEF Actions
  <2> QED BY <1>1, <1>2, <2>2, <2>3, <2>4 DEF Handled
<1>4. CASE UNCHANGED sampleVars /\ cpu'[k].pc # "idle"
  <2>1. \A j \in Cpus : cpu'[j].pc = "idle" <=> cpu[j].pc = "idle"
    BY <1>1, <1>2, <1>4
  <2> QED BY <1>4, <2>1 DEF Handled, sampleVars
<1>5. Finish(k) \/ (UNCHANGED sampleVars /\ cpu'[k].pc # "idle")
  <2>1. ASSUME NEW pc \in {"restart", "load", "clear", "compare", "warn",
                           "rate"},
               Goto(k, pc)
        PROVE  cpu'[k].pc # "idle"
    BY <1>1, <2>1 DEF Goto, CpuLocals
  <2>2. CASE Lookup(k)
    BY <1>1, <2>2 DEF Lookup, CpuLocals
  <2>3. CASE LoadCount(k)
    BY <1>1, <2>3 DEF LoadCount, CpuLocals
  <2>4. CASE Compare(k)
    BY <1>1, <2>4, CompareSteps DEF Reaches, CpuLocals
  <2>5. CASE Age(k) \/ Restart(k) \/ StoreCount(k) \/ Warn(k)
    BY <2>1, <2>5, CpuSteps DEF Age, Restart, StoreCount, Warn
  <2>6. CASE CheckWarned(k)
    BY <2>1, <2>6 DEF CheckWarned, Proceed
  <2>7. CASE Insert(k) \/ InsertFails(k) \/ Clear(k) \/ Alert(k)
    BY <2>7 DEF Insert, InsertFails, Clear, Alert
  <2> QED BY <2>2, <2>3, <2>4, <2>5, <2>6, <2>7 DEF Detect
<1> QED BY <1>3, <1>4, <1>5

LEMMA HandledNext ==
    ASSUME TypeInv, EveryPacketIsCounted, NEW k \in Cpus, Detect(k)
    PROVE  EveryPacketIsCounted'
<1>1. Handled' = Handled /\ observed' = observed
  BY HandledStays, DetectFrame DEF ghostVars
<1> QED BY <1>1, TotalsAre, TotalsNext DEF TotalsAgree

LEMMA HandledArrive ==
    ASSUME TypeInv, TypeInv', EveryPacketIsCounted, NEW k \in Cpus,
           NEW kind \in Kinds, NEW d \in Hosts, Arrive(k, kind, d)
    PROVE  EveryPacketIsCounted'
<1>1. /\ Handled \in [Cpus -> Nat] /\ observed \in [Hosts -> Nat]
      /\ counters \in [Cpus -> [Actions -> Nat]]
  BY HandledType DEF TypeInv, TypeOK
<1>2. Sum(observed', Hosts) = Sum(observed, Hosts) + 1
  <2>1. /\ observed'[d] = observed[d] + 1
        /\ \A h \in Hosts : h # d => observed'[h] = observed[h]
        /\ \A h \in Hosts : observed'[h] \in Nat
    BY <1>1 DEF Arrive
  <2>2. PICK g, h : g = observed /\ h = observed'
    OBVIOUS
  <2>3. /\ \A l \in Hosts : g[l] \in Nat /\ h[l] \in Nat
        /\ h[d] = g[d] + 1 /\ \A l \in Hosts : l # d => h[l] = g[l]
        /\ IsFiniteSet(Hosts) /\ 1 \in Nat
    BY <1>1, <2>1, <2>2, ProgramAssumption
  <2>4. Sum(h, Hosts) = Sum(g, Hosts) + 1
    BY ONLY <2>3, d \in Hosts, SumGains
  <2> QED BY <2>2, <2>4
<1>3. Sum(Handled', Cpus) = Sum(Handled, Cpus) + 1
  <2>1. /\ counters' = counters /\ cpu[k].pc = "idle"
        /\ cpu'[k].pc = "lookup"
        /\ \A j \in Cpus : j # k => cpu'[j] = cpu[j]
    BY ArriveCpu
  <2>2. /\ Handled'[k] = Handled[k] + 1
        /\ \A j \in Cpus : j # k => Handled'[j] = Handled[j]
    BY <1>1, <2>1 DEF Handled, Actions
  <2>3. \A j \in Cpus : Handled'[j] \in Nat
    BY <1>1, <2>2
  <2>4. PICK g, h : g = Handled /\ h = Handled'
    OBVIOUS
  <2>5. /\ \A l \in Cpus : g[l] \in Nat /\ h[l] \in Nat
        /\ h[k] = g[k] + 1 /\ \A l \in Cpus : l # k => h[l] = g[l]
        /\ IsFiniteSet(Cpus) /\ 1 \in Nat
    BY <1>1, <2>2, <2>3, <2>4, ProgramAssumption
  <2>6. Sum(h, Cpus) = Sum(g, Cpus) + 1
    BY ONLY <2>5, k \in Cpus, SumGains
  <2> QED BY <2>4, <2>6
<1> QED BY <1>2, <1>3, TotalsAre, TotalsNext DEF TotalsAgree

-----------------------------------------------------------------------------
(* Alerts *)

(* A window is armed for a CPU while it has been begun and is not marked, or *)
(* while the CPU is about to mark it: each alert uses one arming up, when    *)
(* its window is marked, and only the beginning of a window makes one.       *)
Armed(k, e) ==
    \/ elements[e].count > 0 /\ ~elements[e].warned
    \/ cpu[k].pc = "warn" /\ cpu[k].element = e
ArmedFor(k) == {e \in Elements : Armed(k, e)}

(* The alerts of a CPU, with the one it is about to raise.                   *)
Raised(k) == alerts[k] + (IF cpu[k].pc = "rate" THEN 1 ELSE 0)

AlertInv == \A k \in Cpus : Raised(k) + Cardinality(ArmedFor(k)) <= clears

LEMMA RaisedType ==
    ASSUME TypeInv, NEW k \in Cpus
    PROVE  Raised(k) \in Nat
  BY DEF Raised, TypeInv, TypeOK

LEMMA ArmedFinite ==
    /\ IsFiniteSet(Elements)
    /\ \A k \in Cpus : /\ IsFiniteSet(ArmedFor(k))
                       /\ Cardinality(ArmedFor(k)) \in Nat
<1>1. IsFiniteSet(Elements)
  <2>1. MaxDestinations + Cardinality(Cpus) \in Int
    BY ElementType, ProgramAssumption
  <2> QED BY <2>1, FS_Interval DEF Elements
<1>2. ASSUME NEW k \in Cpus PROVE IsFiniteSet(ArmedFor(k))
  BY <1>1, FS_Subset DEF ArmedFor
<1> QED BY <1>1, <1>2, FS_CardinalityType

(* Sets that keep their elements, or lose some.                              *)
LEMMA ArmedStay ==
    ASSUME TypeInv, NEW k \in Cpus, ArmedFor(k)' \subseteq ArmedFor(k),
           Raised(k)' = Raised(k), clears' \in Nat, clears' >= clears,
           Raised(k) + Cardinality(ArmedFor(k)) <= clears
    PROVE  Raised(k)' + Cardinality(ArmedFor(k)') <= clears'
<1>1. /\ Cardinality(ArmedFor(k)') \in Nat /\ Cardinality(ArmedFor(k)) \in Nat
      /\ Cardinality(ArmedFor(k)') <= Cardinality(ArmedFor(k))
  BY ArmedFinite, FS_Subset, FS_CardinalityType
<1>2. Raised(k) \in Nat /\ clears \in Nat
  BY RaisedType DEF TypeInv, TypeOK
<1> QED BY <1>1, <1>2

(* A window is begun: it is armed for every CPU.                             *)
LEMMA BeginArms ==
    ASSUME TypeInv, AlertInv, NEW k \in Cpus, Detect(k), Leaves(k),
           cpu[k].pc # "rate",
           NEW e \in Elements, NEW w, elements' = [elements EXCEPT ![e] = w],
           clears' = clears + 1, alerts' = alerts
    PROVE  AlertInv'
<1> SUFFICES ASSUME NEW j \in Cpus
             PROVE  Raised(j)' + Cardinality(ArmedFor(j)') <= clears'
  BY DEF AlertInv
<1>1. ASSUME NEW f \in Elements, f # e, Armed(j, f)' PROVE Armed(j, f)
  <2>1. elements'[f] = elements[f]
    BY <1>1 DEF TypeInv, TypeOK
  <2>2. cpu'[j].pc = "warn" => cpu'[j] = cpu[j]
    BY CpuType DEF Leaves, Idle, TypeInv, TypeOK
  <2> QED BY <1>1, <2>1, <2>2 DEF Armed
<1>2. ArmedFor(j)' \subseteq ArmedFor(j) \cup {e}
  BY <1>1 DEF ArmedFor, Elements
<1>3. /\ Cardinality(ArmedFor(j)') \in Nat /\ Cardinality(ArmedFor(j)) \in Nat
      /\ Cardinality(ArmedFor(j)') <= Cardinality(ArmedFor(j)) + 1
  BY <1>2, ArmedFinite, GainsOne
<1>4. Raised(j) \in Nat /\ clears \in Nat
  BY RaisedType DEF TypeInv, TypeOK
<1>5. Raised(j)' = Raised(j)
  BY CpuType DEF Leaves, Idle, TypeInv, TypeOK, Raised
<1> QED BY <1>3, <1>4, <1>5 DEF AlertInv

LEMMA AlertNext ==
    ASSUME TypeInv, HoldInv, AlertInv, NEW k \in Cpus, Detect(k)
    PROVE  AlertInv'
<1>1. /\ cpu \in [Cpus -> CpuLocals] /\ elements \in [Elements -> Windows]
      /\ clears \in Nat /\ alerts \in [Cpus -> Nat]
      /\ cpu[k].element \in Elements
  BY DEF TypeInv, TypeOK, CpuLocals
<1>2. \A j \in Cpus \ {k} : cpu'[j] = cpu[j]
  BY CpuType
<1>3. CASE Insert(k)
  <2>1. PICK e \in Unmapped :
           elements' = [elements EXCEPT ![e] = Begun(cpu[k].now)]
    BY <1>3 DEF Insert, Free
  <2>2. /\ e \in Elements /\ clears' = clears + 1 /\ alerts' = alerts
        /\ cpu[k].pc # "rate"
    BY <1>3 DEF Insert, Unmapped
  <2> QED BY <1>3, <2>1, <2>2, BeginArms, CpuSteps
<1>4. CASE Clear(k)
  <2>1. PICK w \in Windows :
           elements' = [elements EXCEPT ![cpu[k].element] = w]
    BY <1>4, WriteType
  <2>2. clears' = clears + 1 /\ alerts' = alerts /\ cpu[k].pc # "rate"
    BY <1>4 DEF Clear
  <2> QED BY <1>1, <1>4, <2>1, <2>2, BeginArms, CpuSteps
<1>5. CASE Warn(k)
  <2> DEFINE e == cpu[k].element
  <2>1. /\ elements' = [elements EXCEPT ![e].warned = TRUE]
        /\ UNCHANGED <<alerts, clears>>
        /\ cpu[k].pc = "warn" /\ cpu'[k].pc = "rate"
    BY <1>1, <1>5, CpuSteps DEF Warn, Goto, CpuLocals
  <2>2. ASSUME NEW j \in Cpus PROVE ArmedFor(j)' \subseteq ArmedFor(j)
    <3> SUFFICES ASSUME NEW f \in Elements, Armed(j, f)' PROVE Armed(j, f)
      BY DEF ArmedFor, Elements
    <3>1. cpu'[j].pc = "warn" => cpu'[j] = cpu[j]
      BY <1>2, <2>1
    <3>2. elements'[f] = elements[f] \/ (f = e /\ elements'[f].warned)
      BY <1>1, <2>1 DEF Windows
    <3> QED BY <3>1, <3>2 DEF Armed
  <2>3. e \in ArmedFor(k)
    BY <1>1, <2>1 DEF ArmedFor, Armed
  <2>4. e \notin ArmedFor(k)'
    <3>1. cpu'[k].pc = "rate" /\ elements'[e].warned
      BY <1>1, <2>1 DEF Windows
    <3> QED BY <3>1 DEF ArmedFor, Armed
  <2>5. ArmedFor(k)' \subseteq ArmedFor(k) \ {e}
    BY <2>2, <2>4
  <2>6. /\ Cardinality(ArmedFor(k)') \in Nat /\ Cardinality(ArmedFor(k)) \in Nat
        /\ Cardinality(ArmedFor(k)') <= Cardinality(ArmedFor(k)) - 1
    BY <2>3, <2>5, ArmedFinite, LosesOne
  <2>7. Raised(k)' + Cardinality(ArmedFor(k)') <= clears'
    <3>1. Raised(k)' = Raised(k) + 1 /\ Raised(k) \in Nat
      BY <1>1, <2>1 DEF Raised
    <3>2. Raised(k) + Cardinality(ArmedFor(k)) <= clears
      BY DEF AlertInv
    <3> QED BY <1>1, <2>1, <2>6, <3>1, <3>2
  <2>8. ASSUME NEW j \in Cpus \ {k}
        PROVE  Raised(j)' + Cardinality(ArmedFor(j)') <= clears'
    <3>1. Raised(j)' = Raised(j) /\ clears' \in Nat /\ clears' >= clears
      BY <1>1, <1>2, <2>1 DEF Raised
    <3> QED BY <2>2, <3>1, ArmedStay DEF AlertInv
  <2> QED BY <2>7, <2>8 DEF AlertInv
<1>6. CASE Alert(k)
  <2>1. /\ cpu[k].pc = "rate" /\ cpu' = [cpu EXCEPT ![k] = Idle]
        /\ alerts' = [alerts EXCEPT ![k] = @ + 1]
        /\ UNCHANGED <<elements, clears>>
    BY <1>6, CpuSteps DEF Alert, Leaves, windowVars
  <2>2. ASSUME NEW j \in Cpus PROVE ArmedFor(j)' \subseteq ArmedFor(j)
    BY <1>1, <2>1 DEF ArmedFor, Armed, Elements, Idle
  <2>3. ASSUME NEW j \in Cpus PROVE Raised(j)' = Raised(j)
    BY <1>1, <2>1 DEF Raised, Idle
  <2> QED BY <1>1, <2>1, <2>2, <2>3, ArmedStay DEF AlertInv
<1>7. CASE \/ Lookup(k) \/ InsertFails(k) \/ Age(k) \/ Restart(k)
           \/ LoadCount(k) \/ StoreCount(k) \/ Compare(k) \/ CheckWarned(k)
  <2>1. UNCHANGED <<clears, alerts>> /\ cpu[k].pc # "rate"
    BY <1>7, CompareSteps
       DEF Lookup, InsertFails, Age, Restart, LoadCount, StoreCount,
           CheckWarned, windowVars
  <2>2. ASSUME NEW f \in Elements
        PROVE  /\ elements'[f].warned = elements[f].warned
               /\ elements'[f].count > 0 => elements[f].count > 0
    <3>1. CASE Restart(k)
      BY <1>1, <3>1 DEF Restart, Windows
    <3>2. CASE StoreCount(k)
      <4>1. elements[cpu[k].element].count > 0
        BY <3>2 DEF StoreCount, HoldInv, Holding
      <4> QED BY <1>1, <3>2, <4>1 DEF StoreCount, Windows
    <3>3. CASE UNCHANGED elements
      BY <3>3
    <3> QED BY <1>7, <3>1, <3>2, <3>3, CompareSteps
            DEF Lookup, InsertFails, Age, LoadCount, CheckWarned, windowVars
  <2>3. /\ cpu'[k].pc # "rate"
        /\ cpu'[k].pc = "warn" =>
              /\ cpu'[k].element = cpu[k].element
              /\ elements[cpu[k].element].count > 0
              /\ ~elements[cpu[k].element].warned
    <3>1. CASE Leaves(k)
      BY <1>1, <3>1 DEF Leaves, Idle
    <3>2. CASE Lookup(k)
      BY <1>1, <3>2 DEF Lookup, CpuLocals
    <3>3. CASE LoadCount(k)
      BY <1>1, <3>3 DEF LoadCount, CpuLocals
    <3>4. CASE Goto(k, "restart") \/ Goto(k, "load") \/ Goto(k, "clear")
               \/ Goto(k, "compare")
      BY <1>1, <3>4 DEF Goto, CpuLocals
    <3>5. CASE Compare(k) /\ ~Leaves(k)
      <4>1. PICK n \in Readings(k) : Reaches(k, n)
        BY <3>5, CompareSteps
      <4>2. cpu'[k].pc = "warned"
        BY <1>1, <4>1 DEF Reaches, CpuLocals
      <4> QED BY <4>2
    <3>6. CASE CheckWarned(k) /\ ~Leaves(k)
      <4>1. Goto(k, "warn") /\ ~elements[cpu[k].element].warned
        BY <3>6 DEF CheckWarned, Proceed, Finish, Leaves
      <4>2. elements[cpu[k].element].count > 0
        BY <3>6 DEF CheckWarned, HoldInv, Holding
      <4> QED BY <1>1, <4>1, <4>2 DEF Goto, CpuLocals
    <3> QED BY <1>7, <3>1, <3>2, <3>3, <3>4, <3>5, <3>6, CpuSteps
  <2>4. ASSUME NEW j \in Cpus PROVE ArmedFor(j)' \subseteq ArmedFor(j)
    <3> SUFFICES ASSUME NEW f \in Elements, Armed(j, f)' PROVE Armed(j, f)
      BY DEF ArmedFor, Elements
    <3> QED BY <1>2, <2>2, <2>3 DEF Armed
  <2>5. ASSUME NEW j \in Cpus PROVE Raised(j)' = Raised(j)
    BY <1>2, <2>1, <2>3 DEF Raised
  <2> QED BY <1>1, <2>1, <2>4, <2>5, ArmedStay DEF AlertInv
<1> QED BY <1>3, <1>4, <1>5, <1>6, <1>7 DEF Detect

LEMMA AlertArrive ==
    ASSUME TypeInv, AlertInv, NEW k \in Cpus, NEW kind \in Kinds,
           NEW d \in Hosts, Arrive(k, kind, d)
    PROVE  AlertInv'
<1> SUFFICES ASSUME NEW j \in Cpus
             PROVE  Raised(j)' + Cardinality(ArmedFor(j)') <= clears'
  BY DEF AlertInv
<1>1. ArmedFor(j)' \subseteq ArmedFor(j)
  BY ArriveCpu DEF ArmedFor, Armed, Elements
<1>2. Raised(j)' = Raised(j) /\ clears' = clears /\ clears \in Nat
  BY ArriveCpu DEF TypeInv, TypeOK, Raised
<1> QED BY <1>1, <1>2, ArmedStay DEF AlertInv

-----------------------------------------------------------------------------
(* Samples *)

(* The packets that begin a new SampleEvery of them are the sampled ones.    *)
LEMMA CeilDivStep ==
    ASSUME NEW n \in Nat, NEW d \in Nat \ 0..1
    PROVE  /\ CeilDiv(n, d) \in Nat
           /\ CeilDiv(n + 1, d) =
                 IF (n + 1) % d = 1 THEN CeilDiv(n, d) + 1 ELSE CeilDiv(n, d)
<1>1. d \in Nat \ {0} /\ d - 1 \in 0..(d - 1) /\ d >= 2
  OBVIOUS
<1>2. PICK q \in Nat, r \in 0..(d - 1) : n = (d * q) + r
  BY ZenonT(30), <1>1, DivisionWithRest
<1> DEFINE m == d * q
<1>3. m \in Nat /\ d * (q + 1) = m + d /\ q + 1 \in Nat
  BY <1>1
<1>4. CeilDiv(n, d) = IF r = 0 THEN q ELSE q + 1
  <2>1. CASE r = 0
    <3>1. (n + d) - 1 = m + (d - 1)
      BY <1>1, <1>2, <1>3, <2>1
    <3> QED BY <1>1, <2>1, <3>1, DivisionUnique DEF CeilDiv
  <2>2. CASE r # 0
    <3>1. r - 1 \in 0..(d - 1)
      BY <1>1, <2>2
    <3>2. (n + d) - 1 = (d * (q + 1)) + (r - 1)
      BY <1>1, <1>2, <1>3
    <3> QED BY <1>1, <1>3, <2>2, <3>1, <3>2, DivisionUnique DEF CeilDiv
  <2> QED BY <2>1, <2>2
<1>5. CeilDiv(n + 1, d) = q + 1
  <2>1. (n + 1 + d) - 1 = (d * (q + 1)) + r
    BY <1>1, <1>2, <1>3
  <2> QED BY <1>1, <1>3, <2>1, DivisionUnique DEF CeilDiv
<1>6. (n + 1) % d = 1 <=> r = 0
  <2>1. CASE r = d - 1
    <3>1. n + 1 = (d * (q + 1)) + 0
      BY <1>1, <1>2, <1>3, <2>1
    <3>2. 0 \in 0..(d - 1)
      BY <1>1
    <3>3. ((d * (q + 1)) + 0) % d = 0
      BY <1>1, <1>3, <3>2, DivisionUnique
    <3> QED BY <1>1, <2>1, <3>1, <3>3
  <2>2. CASE r # d - 1
    <3>1. n + 1 = m + (r + 1) /\ r + 1 \in 0..(d - 1)
      BY <1>1, <1>2, <1>3, <2>2
    <3>2. (m + (r + 1)) % d = r + 1
      BY <1>1, <3>1, DivisionUnique
    <3> QED BY <3>1, <3>2
  <2> QED BY <2>1, <2>2
<1> HIDE DEF m
<1> QED BY <1>2, <1>4, <1>5, <1>6

LEMMA SampledFinish ==
    ASSUME TypeInv, LoadIsSampled, NEW k \in Cpus, Finish(k), UNCHANGED mode
    PROVE  LoadIsSampled'
<1> DEFINE kind == cpu[k].kind
           a == PacketAction(kind)
           n == counters[k][a]
<1>1. /\ kind \in Kinds /\ a \in Actions /\ n \in Nat
      /\ counters \in [Cpus -> [Actions -> Nat]] /\ sampled \in [Cpus -> Nat]
      /\ mode \in {"monitor", "protect"}
  BY DEF TypeInv, TypeOK, CpuLocals, PacketAction, Actions
<1>2. counters' = [counters EXCEPT ![k][a] = n + 1]
  BY DEF Finish
<1>3. sampled' = IF kind = "load" /\ (n + 1) % SampleEvery = 1
                 THEN [sampled EXCEPT ![k] = @ + 1] ELSE sampled
  BY <1>1 DEF Finish, ShouldEmit
<1>4. /\ CeilDiv(n, SampleEvery) \in Nat
      /\ CeilDiv(n + 1, SampleEvery) =
            IF (n + 1) % SampleEvery = 1 THEN CeilDiv(n, SampleEvery) + 1
                                         ELSE CeilDiv(n, SampleEvery)
  BY <1>1, CeilDivStep, ProgramAssumption
<1>5. /\ mode = "protect" => (kind = "load" <=> a = "drop")
      /\ mode = "monitor" => a = "pass"
      /\ a \in {"drop", "pass"}
  BY DEF PacketAction
<1> HIDE DEF kind, a, n
<1>6. /\ counters'[k][a] = n + 1
      /\ \A b \in Actions \ {a} : counters'[k][b] = counters[k][b]
      /\ \A j \in Cpus \ {k} : /\ counters'[j] = counters[j]
                               /\ sampled'[j] = sampled[j]
      /\ sampled'[k] = IF kind = "load" /\ (n + 1) % SampleEvery = 1
                       THEN sampled[k] + 1 ELSE sampled[k]
      /\ sampled[k] \in Nat
  BY <1>1, <1>2, <1>3
<1>7. n = counters[k][a] /\ "drop" \in Actions /\ "pass" \in Actions
  BY DEF n, Actions
<1>8. CASE mode = "protect"
  <2>1. \A j \in Cpus :
           sampled[j] = CeilDiv(counters[j]["drop"], SampleEvery)
    BY <1>8 DEF LoadIsSampled
  <2>2. sampled'[k] = CeilDiv(counters'[k]["drop"], SampleEvery)
    <3>1. CASE a = "drop"
      BY <1>4, <1>5, <1>6, <1>7, <1>8, <2>1, <3>1
    <3>2. CASE a = "pass"
      BY <1>5, <1>6, <1>7, <1>8, <2>1, <3>2
    <3> QED BY <1>5, <3>1, <3>2
  <2>3. \A j \in Cpus \ {k} :
           sampled'[j] = CeilDiv(counters'[j]["drop"], SampleEvery)
    BY <1>6, <2>1
  <2> QED BY <1>8, <2>2, <2>3 DEF LoadIsSampled
<1>9. CASE mode = "monitor"
  <2>1. \A j \in Cpus :
           sampled[j] <= CeilDiv(counters[j]["pass"], SampleEvery)
    BY <1>9 DEF LoadIsSampled
  <2>2. sampled'[k] <= CeilDiv(counters'[k]["pass"], SampleEvery)
    <3>1. a = "pass" /\ sampled[k] <= CeilDiv(n, SampleEvery)
      BY <1>5, <1>7, <1>9, <2>1
    <3> QED BY <1>4, <1>6, <3>1
  <2>3. \A j \in Cpus \ {k} :
           sampled'[j] <= CeilDiv(counters'[j]["pass"], SampleEvery)
    BY <1>6, <2>1
  <2>4. mode' # "protect"
    BY <1>9
  <2> QED BY <2>2, <2>3, <2>4 DEF LoadIsSampled
<1> QED BY <1>1, <1>8, <1>9

LEMMA SampledNext ==
    ASSUME TypeInv, LoadIsSampled, [Next]_vars
    PROVE  LoadIsSampled'
<1>1. CASE \E k \in Cpus : Finish(k) /\ UNCHANGED mode
  BY <1>1, SampledFinish
<1>2. CASE UNCHANGED <<mode, counters, sampled>>
  BY <1>2 DEF LoadIsSampled
<1> QED BY <1>1, <1>2
        DEF Next, Tick, Detect, Arrive, Lookup, Insert, InsertFails, Age,
            Restart, Clear, LoadCount, StoreCount, Compare, CheckWarned, Warn,
            Alert, Proceed, sampleVars, vars

-----------------------------------------------------------------------------
(* Counts *)

(* The packets of a host that are under way and not in its window yet. With  *)
(* those in the window they are no more than came, whatever is lost; and so  *)
(* is the count that a CPU is about to store, its own packet being one of    *)
(* those under way. What a CPU has stored, or reads again, is therefore no   *)
(* more than came, and once it has compared, that is the threshold at least. *)
Uncounted(d) == {k \in Cpus : cpu[k].dst = d /\ cpu[k].pc \notin Stored}
Pending(d) == Cardinality(Uncounted(d))

CountInv ==
    ~replaced =>
       /\ \A d \in Hosts : Pending(d) <= observed[d]
       /\ \A d \in DOMAIN entries :
             Pending(d) + elements[entries[d]].count <= observed[d]
       /\ \A k \in Cpus :
             /\ cpu[k].pc = "store" =>
                   Pending(cpu[k].dst) + cpu[k].count
                      <= observed[cpu[k].dst] + 1
             /\ cpu[k].pc \in Stored =>
                   cpu[k].count \in 1..observed[cpu[k].dst]
             /\ cpu[k].pc \in Stored \ {"compare"} =>
                   observed[cpu[k].dst] >= Threshold

LEMMA PendingType ==
    /\ \A d : IsFiniteSet(Uncounted(d)) /\ Pending(d) \in Nat
    /\ \A d : IsFiniteSet(Uncounted(d)') /\ Pending(d)' \in Nat
<1>1. ASSUME NEW d PROVE IsFiniteSet(Uncounted(d)) /\ IsFiniteSet(Uncounted(d)')
  BY ProgramAssumption, FS_Subset DEF Uncounted
<1> QED BY <1>1, FS_CardinalityType DEF Pending

(* A CPU stays with its packet until it is idle.                             *)
LEMMA SamePacket ==
    ASSUME TypeInv, NEW k \in Cpus, Detect(k)
    PROVE  \/ /\ cpu'[k].dst = cpu[k].dst /\ cpu'[k].now = cpu[k].now
              /\ cpu[k].pc \in Stored => cpu'[k].pc \in Stored
           \/ cpu'[k].pc = "idle" /\ cpu'[k].dst = "none"
<1>1. cpu \in [Cpus -> CpuLocals]
  BY DEF TypeInv, TypeOK
<1>2. CASE Leaves(k)
  BY <1>1, <1>2 DEF Leaves, Idle
<1>3. CASE Lookup(k)
  BY <1>1, <1>3 DEF Lookup, CpuLocals, Stored
<1>4. CASE LoadCount(k)
  BY <1>1, <1>4 DEF LoadCount, CpuLocals, Stored
<1>5. CASE Age(k) \/ Restart(k)
  <2>1. PICK pc \in {"restart", "load", "clear"} : Goto(k, pc)
    BY <1>5, CpuSteps
  <2>2. cpu[k].pc \notin Stored
    BY <1>5 DEF Age, Restart, Stored
  <2> QED BY <1>1, <2>1, <2>2 DEF Goto, CpuLocals
<1>6. CASE Goto(k, "compare") \/ Goto(k, "warn") \/ Goto(k, "rate")
  BY <1>1, <1>6 DEF Goto, CpuLocals, Stored
<1>7. CASE \E n \in Readings(k) : Reaches(k, n)
  BY <1>1, <1>7 DEF Reaches, CpuLocals, Stored
<1> QED BY <1>2, <1>3, <1>4, <1>5, <1>6, <1>7, CpuSteps, CompareSteps DEF Detect

LEMMA PendingSteps ==
    ASSUME TypeInv, HoldInv, NEW k \in Cpus, Detect(k)
    PROVE  /\ \A d \in Hosts : Pending(d)' <= Pending(d)
           /\ /\ cpu[k].pc # "idle" /\ cpu[k].pc \notin Stored
              /\ Leaves(k) \/ Goto(k, "compare")
              => \A d \in {cpu[k].dst} : Pending(d)' <= Pending(d) - 1
           /\ cpu[k].pc = "store" => Pending(cpu[k].dst) >= 1
<1>1. cpu \in [Cpus -> CpuLocals]
  BY DEF TypeInv, TypeOK
<1>2. \A j \in Cpus \ {k} : cpu'[j] = cpu[j]
  BY CpuType
<1>3. ASSUME NEW d \in Hosts PROVE Uncounted(d)' \subseteq Uncounted(d)
  <2>1. d # "none"
    BY ProgramAssumption
  <2> QED BY <1>2, <2>1, SamePacket DEF Uncounted
<1>4. ASSUME NEW d \in Hosts PROVE Pending(d)' <= Pending(d)
  BY <1>3, PendingType, FS_Subset DEF Pending
<1>5. ASSUME cpu[k].pc # "idle", cpu[k].pc \notin Stored,
             Leaves(k) \/ Goto(k, "compare"), NEW d, d = cpu[k].dst
      PROVE  Pending(d)' <= Pending(d) - 1
  <2>1. d \in Hosts /\ d # "none"
    BY <1>5, ProgramAssumption DEF HoldInv
  <2>2. k \in Uncounted(d)
    BY <1>5 DEF Uncounted
  <2>3. cpu'[k].dst = "none" \/ cpu'[k].pc = "compare"
    <3>1. CASE Leaves(k)
      BY <1>1, <3>1 DEF Leaves, Idle
    <3>2. CASE Goto(k, "compare")
      BY <1>1, <3>2 DEF Goto, CpuLocals
    <3> QED BY <1>5, <3>1, <3>2
  <2>4. k \notin Uncounted(d)'
    BY <2>1, <2>3 DEF Uncounted, Stored
  <2>5. Uncounted(d)' \subseteq Uncounted(d) \ {k}
    BY <1>3, <2>1, <2>4
  <2>6. Cardinality(Uncounted(d)') <= Cardinality(Uncounted(d)) - 1
    BY <2>2, <2>5, PendingType, LosesOne
  <2> QED BY <2>6 DEF Pending
<1>6. ASSUME cpu[k].pc = "store" PROVE Pending(cpu[k].dst) >= 1
  <2>1. k \in Uncounted(cpu[k].dst)
    BY <1>6 DEF Uncounted, Stored
  <2>2. Pending(cpu[k].dst) # 0
    BY <2>1, PendingType, FS_EmptySet DEF Pending
  <2> QED BY <2>2, PendingType
<1> QED BY <1>4, <1>5, <1>6

(* Unless an element was replaced, a CPU writes to the window of its own     *)
(* destination only: a pointer is into that one, and no two destinations     *)
(* share an element.                                                         *)
LEMMA OtherWindows ==
    ASSUME TypeInv, HoldInv, NEW k \in Cpus, Detect(k), ~replaced',
           NEW d \in DOMAIN entries, cpu[k].dst # d
    PROVE  entries'[d] = entries[d] /\ elements'[entries[d]] = elements[entries[d]]
<1>1. /\ ~replaced /\ entries'[d] = entries[d]
  BY EntriesStay DEF TypeInv, TypeOK
<1>2. /\ elements \in [Elements -> Windows] /\ entries[d] \in Elements
      /\ IsInjective(entries)
  BY DEF TypeInv, TypeOK
<1>3. CASE Insert(k)
  <2>1. PICK e \in Unmapped :
           elements' = [elements EXCEPT ![e] = Begun(cpu[k].now)]
    BY <1>3 DEF Insert, Free
  <2>2. e # entries[d]
    BY DEF Unmapped
  <2> QED BY <1>1, <1>2, <2>1, <2>2
<1>4. CASE Restart(k) \/ Clear(k) \/ StoreCount(k) \/ Warn(k)
  <2>1. PICK w \in Windows :
           elements' = [elements EXCEPT ![cpu[k].element] = w]
    BY <1>4, WriteType
  <2>2. cpu[k].dst \in DOMAIN entries /\ cpu[k].element = entries[cpu[k].dst]
    BY <1>1, <1>4 DEF HoldInv, Holding, Restart, Clear, StoreCount, Warn
  <2>3. cpu[k].element # entries[d]
    BY <1>2, <2>2 DEF IsInjective
  <2> QED BY <1>1, <1>2, <2>1, <2>3
<1>5. CASE UNCHANGED elements
  BY <1>1, <1>5
<1> QED BY <1>3, <1>4, <1>5
        DEF Detect, Lookup, InsertFails, Age, LoadCount, Compare, CheckWarned,
            Alert, windowVars

LEMMA CountNext ==
    ASSUME TypeInv, HoldInv, CountInv, NEW k \in Cpus, Detect(k)
    PROVE  CountInv'
<1> SUFFICES ASSUME ~replaced' PROVE CountInv'
  BY DEF CountInv
<1>1. ~replaced
  BY EntriesStay DEF TypeInv, TypeOK
<1>2. /\ cpu \in [Cpus -> CpuLocals] /\ elements \in [Elements -> Windows]
      /\ entries \in [DOMAIN entries -> Elements] /\ IsInjective(entries)
      /\ DOMAIN entries \subseteq Hosts
      /\ observed \in [Hosts -> Nat] /\ observed' = observed
  BY DetectFrame DEF TypeInv, TypeOK, ghostVars
<1>3. \A h \in Hosts : /\ Pending(h) \in Nat /\ Pending(h)' \in Nat
                       /\ observed[h] \in Nat /\ Pending(h)' <= Pending(h)
                       /\ Pending(h) <= observed[h]
  BY <1>1, <1>2, PendingType, PendingSteps DEF CountInv
<1>4. \A h \in Hosts : Pending(h)' <= observed'[h]
  BY <1>2, <1>3
<1>5. PICK d : d = cpu[k].dst
  OBVIOUS
<1>6. d \in Hosts /\ cpu[k].pc # "idle"
  <2>1. cpu[k].pc # "idle"
    BY DEF Detect, Lookup, Insert, InsertFails, Age, Restart, Clear, LoadCount,
           StoreCount, Compare, CheckWarned, Warn, Alert
  <2> QED BY <1>5, <2>1 DEF HoldInv
<1>7. cpu[k].pc \in Holding =>
         d \in DOMAIN entries /\ cpu[k].element = entries[d]
  BY <1>1, <1>5 DEF HoldInv
<1>8. ASSUME NEW h \in DOMAIN entries'
      PROVE  Pending(h)' + elements'[entries'[h]].count <= observed'[h]
  <2>1. CASE h # d
    <3>1. h \in DOMAIN entries
      <4>1. DOMAIN entries' \subseteq DOMAIN entries \cup {d}
        BY <1>5 DEF Detect, Lookup, Insert, InsertFails, Age, Restart, Clear,
                    LoadCount, StoreCount, Compare, CheckWarned, Warn, Alert,
                    windowVars
      <4> QED BY <2>1, <4>1
    <3>2. elements'[entries'[h]] = elements[entries[h]]
      BY <1>5, <2>1, <3>1, OtherWindows
    <3>3. Pending(h) + elements[entries[h]].count <= observed[h]
      BY <1>1, <3>1 DEF CountInv
    <3>4. elements[entries[h]].count \in Nat
      BY <1>2, <3>1 DEF Windows
    <3> QED BY <1>2, <1>3, <3>1, <3>2, <3>3, <3>4
  <2>2. CASE h = d /\ Insert(k)
    <3>1. PICK e \in Unmapped :
             /\ elements' = [elements EXCEPT ![e] = Begun(cpu[k].now)]
             /\ entries' = [x \in DOMAIN entries \cup {cpu[k].dst} |->
                               IF x = cpu[k].dst THEN e ELSE entries[x]]
      BY <2>2 DEF Insert, Free
    <3>2. entries'[d] = e /\ e \in Elements
      BY <1>5, <3>1 DEF Unmapped
    <3>3. elements'[entries'[d]].count = 1
      BY <1>2, <3>1, <3>2 DEF Begun
    <3>4. cpu[k].pc = "insert"
      BY <2>2 DEF Insert
    <3>5. Pending(d)' <= Pending(d) - 1
      BY <1>5, <1>6, <2>2, <3>4, PendingSteps, CpuSteps DEF Stored
    <3> QED BY <1>2, <1>3, <1>6, <2>2, <3>3, <3>5
  <2>3. CASE h = d /\ ~Insert(k)
    <3>1. UNCHANGED entries /\ d \in DOMAIN entries
      BY <2>3 DEF Detect, Lookup, InsertFails, Age, Restart, Clear, LoadCount,
                  StoreCount, Compare, CheckWarned, Warn, Alert, windowVars
    <3> DEFINE w == elements[entries[d]]
    <3>2. /\ w \in Windows /\ w.count \in Nat /\ entries[d] \in Elements
          /\ Pending(d) + w.count <= observed[d]
      BY <1>1, <1>2, <3>1 DEF CountInv, Windows
    <3>3. CASE Clear(k)
      <4>1. cpu[k].pc = "clear"
        BY <3>3 DEF Clear
      <4>2. elements'[entries[d]].count = 1
        BY <1>2, <1>7, <3>2, <3>3, <4>1 DEF Clear, Holding, Windows
      <4>3. Pending(d)' <= Pending(d) - 1
        BY <1>5, <1>6, <3>3, <4>1, PendingSteps, CpuSteps DEF Stored
      <4> QED BY <1>2, <1>3, <1>6, <2>3, <3>1, <4>2, <4>3
    <3>4. CASE StoreCount(k)
      <4>1. cpu[k].pc = "store"
        BY <3>4 DEF StoreCount
      <4>2. elements'[entries[d]].count = cpu[k].count
        BY <1>2, <1>7, <3>2, <3>4, <4>1 DEF StoreCount, Holding, Windows
      <4>3. Pending(d)' <= Pending(d) - 1
        BY <1>5, <1>6, <3>4, <4>1, PendingSteps, CpuSteps DEF Stored
      <4>4. Pending(d) + cpu[k].count <= observed[d] + 1 /\ cpu[k].count \in Nat
        BY <1>1, <1>2, <1>5, <4>1 DEF CountInv, CpuLocals
      <4> QED BY <1>2, <1>3, <1>6, <2>3, <3>1, <4>2, <4>3, <4>4
    <3>5. CASE ~Clear(k) /\ ~StoreCount(k)
      <4>1. elements'[entries[d]].count = w.count
        <5>1. CASE Restart(k)
          BY <1>2, <3>2, <5>1 DEF Restart, Windows
        <5>2. CASE Warn(k)
          BY <1>2, <3>2, <5>2 DEF Warn, Windows
        <5>3. CASE UNCHANGED elements
          BY <5>3
        <5> QED BY <2>3, <3>5, <5>1, <5>2, <5>3
                DEF Detect, Lookup, InsertFails, Age, LoadCount, Compare,
                    CheckWarned, Alert, windowVars
      <4> QED BY <1>2, <1>3, <1>6, <2>3, <3>1, <3>2, <4>1
    <3> QED BY <3>3, <3>4, <3>5
  <2> QED BY <2>1, <2>2, <2>3
<1>9. ASSUME NEW n \in Readings(k), cpu[k].pc \in Stored
      PROVE  n \in 1..observed[d]
  <2>1. cpu[k].count \in 1..observed[d]
    BY <1>1, <1>5, <1>9 DEF CountInv
  <2>2. d \in DOMAIN entries /\ cpu[k].element = entries[d]
    BY <1>7, <1>9 DEF Stored, Holding
  <2>3. /\ elements[entries[d]].count \in Nat
        /\ elements[entries[d]].count > 0
        /\ Pending(d) + elements[entries[d]].count <= observed[d]
    BY <1>1, <1>2, <2>2 DEF CountInv, HoldInv, Windows
  <2>4. elements[entries[d]].count \in 1..observed[d]
    BY <1>2, <1>3, <1>6, <2>3
  <2> QED BY <1>9, <2>1, <2>2, <2>4 DEF Readings
<1>10. ASSUME NEW j \in Cpus, NEW h, h = cpu'[j].dst
      PROVE  /\ cpu'[j].pc = "store" =>
                   Pending(h)' + cpu'[j].count <= observed'[h] + 1
             /\ cpu'[j].pc \in Stored => cpu'[j].count \in 1..observed'[h]
             /\ cpu'[j].pc \in Stored \ {"compare"} =>
                   observed'[h] >= Threshold
  <2>1. CASE cpu'[j] = cpu[j]
    <3>1. cpu[j].pc # "idle" => h \in Hosts
      BY <1>10, <2>1 DEF HoldInv
    <3>2. cpu[j].count \in Nat
      BY <1>2 DEF CpuLocals
    <3>3. cpu[j].pc \in Stored => cpu[j].pc # "idle"
      BY DEF Stored
    <3>4. CASE cpu[j].pc = "store"
      <4>1. Pending(h) + cpu[j].count <= observed[h] + 1
        BY <1>1, <1>10, <2>1, <3>4 DEF CountInv
      <4>2. cpu[j].pc \notin Stored
        BY <3>4 DEF Stored
      <4> QED BY <1>2, <1>3, <2>1, <3>1, <3>2, <3>4, <4>1, <4>2
    <3>5. CASE cpu[j].pc # "store"
      BY <1>1, <1>2, <1>10, <2>1, <3>5 DEF CountInv
    <3> QED BY <3>4, <3>5
  <2>2. CASE j = k /\ (Leaves(k) \/ Lookup(k) \/ Age(k) \/ Restart(k))
    <3>1. cpu'[k].pc # "store" /\ cpu'[k].pc \notin Stored
      <4>1. CASE Leaves(k)
        BY <1>2, <4>1 DEF Leaves, Idle, Stored
      <4>2. CASE Lookup(k)
        BY <1>2, <4>2 DEF Lookup, CpuLocals, Stored
      <4>3. CASE Age(k) \/ Restart(k)
        BY <1>2, <4>3, CpuSteps DEF Goto, CpuLocals, Stored
      <4> QED BY <2>2, <4>1, <4>2, <4>3
    <3> QED BY <2>2, <3>1
  <2>3. CASE j = k /\ LoadCount(k)
    <3> DEFINE n == elements[cpu[k].element].count + 1
    <3>1. cpu[k].pc = "load" /\ cpu' = [cpu EXCEPT ![k] =
                                         [@ EXCEPT !.pc = "store", !.count = n]]
      BY <2>3 DEF LoadCount
    <3>2. /\ cpu'[k].pc = "store" /\ cpu'[k].count = n
          /\ cpu'[k].dst = d
      BY <1>2, <1>5, <3>1 DEF CpuLocals
    <3>3. d \in DOMAIN entries /\ n = elements[entries[d]].count + 1
      BY <1>7, <3>1 DEF Holding
    <3>4. /\ elements[entries[d]].count \in Nat
          /\ Pending(d) + elements[entries[d]].count <= observed[d]
      BY <1>1, <1>2, <3>3 DEF CountInv, Windows
    <3>5. h = d
      BY <1>10, <2>3, <3>2
    <3>6. Pending(h)' + cpu'[k].count <= observed'[h] + 1
      BY <1>2, <1>3, <1>6, <3>2, <3>3, <3>4, <3>5
    <3>7. cpu'[k].pc \notin Stored
      BY <3>2 DEF Stored
    <3> QED BY <2>3, <3>6, <3>7
  <2>4. CASE j = k /\ StoreCount(k)
    <3>1. cpu[k].pc = "store" /\ Goto(k, "compare")
      BY <2>4, CpuSteps DEF StoreCount
    <3>2. /\ cpu'[k].pc = "compare" /\ cpu'[k].count = cpu[k].count
          /\ cpu'[k].dst = d
      BY <1>2, <1>5, <3>1 DEF Goto, CpuLocals
    <3>3. /\ Pending(d) + cpu[k].count <= observed[d] + 1
          /\ cpu[k].count \in Nat /\ cpu[k].count > 0
      BY <1>1, <1>2, <1>5, <3>1 DEF CountInv, HoldInv, CpuLocals
    <3>4. Pending(d) >= 1
      BY <1>5, <3>1, PendingSteps
    <3>5. h = d
      BY <1>10, <2>4, <3>2
    <3>6. cpu'[k].count \in 1..observed'[h]
      BY <1>2, <1>3, <1>6, <3>2, <3>3, <3>4, <3>5
    <3> QED BY <2>4, <3>2, <3>6
  <2>5. CASE j = k /\ Compare(k) /\ ~Leaves(k)
    <3>1. PICK n \in Readings(k) : Reaches(k, n)
      BY <2>5, CompareSteps
    <3>2. n \in 1..observed[d]
      BY <1>9, <2>5, CompareSteps DEF Stored
    <3>3. /\ cpu'[k].pc = "warned" /\ cpu'[k].count = n
          /\ cpu'[k].dst = d /\ n >= Threshold
      BY <1>2, <1>5, <3>1 DEF Reaches, CpuLocals
    <3>4. h = d
      BY <1>10, <2>5, <3>3
    <3>5. observed'[h] >= Threshold
      BY <1>2, <1>3, <1>6, <3>2, <3>3, <3>4, ProgramAssumption
    <3> QED BY <1>2, <2>5, <3>2, <3>3, <3>4, <3>5
  <2>6. CASE j = k /\ (Goto(k, "warn") \/ Goto(k, "rate"))
                  /\ cpu[k].pc \in Stored \ {"compare"}
    <3>1. /\ cpu'[k].pc \in {"warn", "rate"} /\ cpu'[k].count = cpu[k].count
          /\ cpu'[k].dst = d
      BY <1>2, <1>5, <2>6 DEF Goto, CpuLocals
    <3>2. cpu[k].count \in 1..observed[d] /\ observed[d] >= Threshold
      BY <1>1, <1>5, <2>6 DEF CountInv
    <3>3. h = d
      BY <1>10, <2>6, <3>1
    <3> QED BY <1>2, <2>6, <3>1, <3>2, <3>3
  <2>7. j # k => cpu'[j] = cpu[j]
    BY CpuType
  <2>8. (CheckWarned(k) \/ Warn(k)) => cpu[k].pc \in Stored \ {"compare"}
    BY DEF CheckWarned, Warn, Stored
  <2> QED BY <2>1, <2>2, <2>3, <2>4, <2>5, <2>6, <2>7, <2>8, CpuSteps DEF Detect
<1> QED BY <1>4, <1>8, <1>10 DEF CountInv

LEMMA CountArrive ==
    ASSUME TypeInv, HoldInv, CountInv, NEW k \in Cpus, NEW kind \in Kinds,
           NEW d \in Hosts, Arrive(k, kind, d)
    PROVE  CountInv'
<1> SUFFICES ASSUME ~replaced' PROVE CountInv'
  BY DEF CountInv
<1>1. /\ cpu[k].pc = "idle" /\ cpu'[k].pc = "lookup" /\ cpu'[k].dst = d
      /\ \A j \in Cpus \ {k} : cpu'[j] = cpu[j]
      /\ UNCHANGED <<entries, elements, replaced>>
  BY ArriveCpu
<1>2. /\ observed \in [Hosts -> Nat]
      /\ observed' = [observed EXCEPT ![d] = @ + 1]
      /\ \A h \in DOMAIN entries : /\ h \in Hosts
                                   /\ elements[entries[h]].count \in Nat
      /\ \A j \in Cpus : cpu[j].count \in Nat
  BY DEF Arrive, TypeInv, TypeOK, Windows, CpuLocals
<1>3. \A h \in Hosts : /\ Pending(h) \in Nat /\ Pending(h)' \in Nat
                       /\ observed[h] \in Nat /\ observed'[h] \in Nat
                       /\ observed[h] <= observed'[h]
  BY <1>2, PendingType
<1>4. ASSUME NEW h \in Hosts
      PROVE  Pending(h)' - Pending(h) <= observed'[h] - observed[h]
  <2>1. CASE h = d
    <3>1. Uncounted(d)' \subseteq Uncounted(d) \cup {k}
      BY <1>1 DEF Uncounted
    <3>2. Pending(d)' <= Pending(d) + 1
      BY <3>1, PendingType, GainsOne DEF Pending
    <3>3. observed'[d] = observed[d] + 1
      BY <1>2
    <3> QED BY <1>3, <2>1, <3>2, <3>3
  <2>2. CASE h # d
    <3>1. Uncounted(h)' \subseteq Uncounted(h)
      BY <1>1, <2>2 DEF Uncounted
    <3>2. Pending(h)' <= Pending(h)
      BY <3>1, PendingType, FS_Subset DEF Pending
    <3> QED BY <1>3, <3>2
  <2> QED BY <2>1, <2>2
<1>5. \A h \in Hosts : Pending(h)' <= observed'[h]
  BY <1>1, <1>3, <1>4 DEF CountInv
<1>6. \A h \in DOMAIN entries' :
         Pending(h)' + elements'[entries'[h]].count <= observed'[h]
  BY <1>1, <1>2, <1>3, <1>4 DEF CountInv
<1>7. ASSUME NEW j \in Cpus, NEW h, h = cpu'[j].dst
      PROVE  /\ cpu'[j].pc = "store" =>
                   Pending(h)' + cpu'[j].count <= observed'[h] + 1
             /\ cpu'[j].pc \in Stored => cpu'[j].count \in 1..observed'[h]
             /\ cpu'[j].pc \in Stored \ {"compare"} =>
                   observed'[h] >= Threshold
  <2>1. CASE j = k
    BY <1>1, <2>1 DEF Stored
  <2>2. CASE j # k
    <3>1. cpu'[j] = cpu[j] /\ (cpu[j].pc # "idle" => h \in Hosts)
      BY <1>1, <1>7, <2>2 DEF HoldInv
    <3>2. CASE cpu[j].pc = "store"
      <4>1. Pending(h) + cpu[j].count <= observed[h] + 1
        BY <1>1, <1>7, <3>1, <3>2 DEF CountInv
      <4>2. cpu[j].pc \notin Stored
        BY <3>2 DEF Stored
      <4> QED BY <1>2, <1>3, <1>4, <3>1, <3>2, <4>1, <4>2
    <3>3. CASE cpu[j].pc \in Stored
      <4>1. /\ cpu[j].count \in 1..observed[h]
            /\ cpu[j].pc # "compare" => observed[h] >= Threshold
        BY <1>1, <1>7, <3>1, <3>3 DEF CountInv
      <4>2. cpu[j].pc # "store" /\ h \in Hosts
        BY <3>1, <3>3 DEF Stored
      <4>3. cpu[j].count \in 1..observed'[h]
        BY <1>2, <1>3, <4>1, <4>2
      <4>4. cpu[j].pc # "compare" => observed'[h] >= Threshold
        BY <1>3, <4>1, <4>2, ProgramAssumption
      <4> QED BY <3>1, <4>2, <4>3, <4>4
    <3> QED BY <3>1, <3>2, <3>3
  <2> QED BY <2>1, <2>2
<1> QED BY <1>5, <1>6, <1>7 DEF CountInv

-----------------------------------------------------------------------------
(* What one CPU alone makes of a window *)

Counted(w) ==
    [w EXCEPT !.count = @ + 1, !.warned = @ \/ w.count + 1 >= Threshold]

Marked(w) == [w EXCEPT !.warned = TRUE]

LEMMA SameWindow ==
    ASSUME NEW v \in Windows, NEW w \in Windows, v.start = w.start,
           v.count = w.count, v.warned = w.warned
    PROVE  v = w
  BY DEF Windows

(* The accesses of a packet, one after the other, make Detected of a window. *)
LEMMA Accesses ==
    ASSUME NEW w \in Windows, NEW t \in 0..MaxTime
    PROVE  /\ Detected(w, t) = IF Expired(t, w.start) THEN Begun(t)
                                                      ELSE Counted(w)
           /\ [w EXCEPT !.start = t].start = t
           /\ w.start = t => [w EXCEPT !.count = 1, !.warned = FALSE] = Begun(t)
           /\ w.count + 1 < Threshold =>
                 [w EXCEPT !.count = w.count + 1] = Counted(w)
           /\ w.count + 1 >= Threshold =>
                 Marked([w EXCEPT !.count = w.count + 1]) = Counted(w)
           /\ w.warned => Marked(w) = w
<1>1. /\ w.start \in 0..MaxTime /\ w.count \in Nat /\ w.warned \in BOOLEAN
      /\ w = [start |-> w.start, count |-> w.count, warned |-> w.warned]
  BY DEF Windows
<1>2. Detected(w, t) = IF Expired(t, w.start) THEN Begun(t) ELSE Counted(w)
  BY DEF Detected, Counted
<1>3. [w EXCEPT !.start = t].start = t
  BY DEF Windows
<1>4. w.start = t => [w EXCEPT !.count = 1, !.warned = FALSE] = Begun(t)
  <2> DEFINE v == [w EXCEPT !.count = 1, !.warned = FALSE]
  <2> SUFFICES ASSUME w.start = t PROVE v = Begun(t)
    OBVIOUS
  <2>1. v \in Windows /\ v.start = t /\ v.count = 1 /\ ~v.warned
    BY DEF Windows
  <2>2. /\ Begun(t) \in Windows /\ Begun(t).start = t /\ Begun(t).count = 1
        /\ ~Begun(t).warned
    BY ElementType DEF Begun
  <2>3. v.warned = Begun(t).warned
    BY <2>1, <2>2 DEF Windows
  <2> HIDE DEF v
  <2> QED BY <2>1, <2>2, <2>3, SameWindow
<1>5. w.count + 1 < Threshold => [w EXCEPT !.count = w.count + 1] = Counted(w)
  <2> SUFFICES ASSUME w.count + 1 < Threshold
               PROVE  [w EXCEPT !.count = w.count + 1] = Counted(w)
    OBVIOUS
  <2>1. ~(w.count + 1 >= Threshold)
    BY <1>1, ProgramAssumption
  <2>2. (w.warned \/ w.count + 1 >= Threshold) = w.warned
    BY <1>1, <2>1
  <2>3. Counted(w) = [w EXCEPT !.count = w.count + 1, !.warned = w.warned]
    BY <2>2 DEF Counted
  <2> DEFINE n == w.count + 1
  <2> HIDE DEF n
  <2>4. [w EXCEPT !.count = n, !.warned = w.warned] = [w EXCEPT !.count = n]
    BY <1>1
  <2> QED BY <2>3, <2>4 DEF n
<1>6. w.count + 1 >= Threshold =>
         Marked([w EXCEPT !.count = w.count + 1]) = Counted(w)
  <2> SUFFICES ASSUME w.count + 1 >= Threshold
               PROVE  Marked([w EXCEPT !.count = w.count + 1]) = Counted(w)
    OBVIOUS
  <2>1. (w.warned \/ w.count + 1 >= Threshold) = TRUE
    OBVIOUS
  <2>2. Counted(w) = [w EXCEPT !.count = w.count + 1, !.warned = TRUE]
    BY <2>1 DEF Counted
  <2> QED BY <2>2 DEF Marked
<1>7. w.warned => Marked(w) = w
  BY <1>1 DEF Marked
<1> QED BY <1>2, <1>3, <1>4, <1>5, <1>6, <1>7

-----------------------------------------------------------------------------
(* Windows without races *)

(* How far a CPU alone has brought the window of d, when `exact' has already *)
(* counted its packet.                                                       *)
OnTheWay(k, d) ==
    LET t == cpu[k].now
        w == elements[entries[d]]
        at(pc) == cpu[k].pc = pc
    IN  /\ at("lookup") =>
              exact[d] = IF d \in DOMAIN entries THEN Detected(w, t) ELSE Begun(t)
        /\ at("insert") => d \notin DOMAIN entries /\ exact[d] = Begun(t)
        /\ at("age") => exact[d] = Detected(w, t)
        /\ at("restart") => exact[d] = Begun(t)
        /\ at("clear") => w.start = t /\ exact[d] = Begun(t)
        /\ at("load") => exact[d] = Counted(w)
        /\ at("store") => exact[d] = Counted(w) /\ cpu[k].count = w.count + 1
        /\ at("compare") =>
              /\ exact[d] = IF w.count >= Threshold THEN Marked(w) ELSE w
              /\ cpu[k].count = w.count
        /\ at("warned") \/ at("warn") \/ at("rate") =>
              /\ exact[d] = IF at("rate") THEN w ELSE Marked(w)
              /\ cpu[k].count = w.count /\ w.count >= Threshold

ExactInv ==
    ~replaced =>
       \A d \in Hosts \ raced :
          /\ \A j, k \in Detecting(d) : j = k
          /\ \A k \in Detecting(d) : OnTheWay(k, d)
          /\ d \in DOMAIN entries /\ Detecting(d) = {} =>
                elements[entries[d]] = exact[d]

(* The one CPU that is at a packet of d goes one step.                       *)
LEMMA OnTheWayNext ==
    ASSUME TypeInv, HoldInv, ~replaced', NEW k \in Cpus, Detect(k),
           NEW d \in Hosts, d = cpu[k].dst, OnTheWay(k, d)
    PROVE  /\ cpu'[k].dst = d => OnTheWay(k, d)'
           /\ cpu'[k].dst # d /\ d \in DOMAIN entries' =>
                 elements'[entries'[d]] = exact'[d]
<1> DEFINE w == elements[entries[d]]
           t == cpu[k].now
<1>1. /\ cpu \in [Cpus -> CpuLocals] /\ elements \in [Elements -> Windows]
      /\ entries \in [DOMAIN entries -> Elements]
      /\ cpu[k] \in CpuLocals /\ t \in 0..MaxTime /\ exact' = exact
      /\ d # "none"
  BY DetectFrame, ProgramAssumption DEF TypeInv, TypeOK, ghostVars, CpuLocals
<1>2. cpu[k].pc \in Holding =>
         /\ d \in DOMAIN entries /\ cpu[k].element = entries[d]
         /\ entries[d] \in Elements /\ w \in Windows
  BY <1>1, EntriesStay DEF HoldInv, TypeInv, TypeOK
<1>3. CASE Lookup(k)
  <2>1. UNCHANGED <<entries, elements>> /\ cpu[k].pc = "lookup"
    BY <1>3 DEF Lookup, windowVars
  <2>2. CASE d \in DOMAIN entries
    <3>1. /\ cpu'[k].pc = "age" /\ cpu'[k].now = t /\ cpu'[k].dst = d
      BY <1>1, <1>3, <2>2 DEF Lookup, CpuLocals
    <3>2. exact[d] = Detected(w, t)
      BY <2>1, <2>2 DEF OnTheWay
    <3> QED BY <1>1, <2>1, <3>1, <3>2 DEF OnTheWay
  <2>3. CASE d \notin DOMAIN entries
    <3>1. /\ cpu'[k].pc = "insert" /\ cpu'[k].now = t /\ cpu'[k].dst = d
      BY <1>1, <1>3, <2>3 DEF Lookup, CpuLocals
    <3>2. exact[d] = Begun(t)
      BY <2>1, <2>3 DEF OnTheWay
    <3> QED BY <1>1, <2>1, <2>3, <3>1, <3>2 DEF OnTheWay
  <2> QED BY <2>2, <2>3
<1>4. CASE Insert(k)
  <2>1. PICK e \in Unmapped :
           /\ elements' = [elements EXCEPT ![e] = Begun(cpu[k].now)]
           /\ entries' = [x \in DOMAIN entries \cup {cpu[k].dst} |->
                             IF x = cpu[k].dst THEN e ELSE entries[x]]
    BY <1>4 DEF Insert, Free
  <2>2. entries'[d] = e /\ e \in Elements
    BY <2>1 DEF Unmapped
  <2>3. elements'[entries'[d]] = Begun(t)
    BY <1>1, <2>1, <2>2
  <2>4. exact[d] = Begun(t)
    BY <1>4 DEF Insert, OnTheWay
  <2>5. cpu'[k].dst # d
    BY <1>1, <1>4, CpuSteps DEF Leaves, Idle
  <2> QED BY <1>1, <2>3, <2>4, <2>5
<1>5. CASE InsertFails(k)
  <2>1. d \notin DOMAIN entries'
    BY <1>5 DEF InsertFails, OnTheWay, windowVars
  <2>2. cpu'[k].dst # d
    BY <1>1, <1>5, CpuSteps DEF Leaves, Idle
  <2> QED BY <2>1, <2>2
<1>6. CASE Age(k)
  <2>1. UNCHANGED <<entries, elements>> /\ cpu[k].pc = "age"
    BY <1>6 DEF Age, windowVars
  <2>2. exact[d] = Detected(w, t) /\ w \in Windows /\ cpu[k].element = entries[d]
    BY <1>2, <2>1 DEF OnTheWay, Holding
  <2>3. exact[d] = IF Expired(t, w.start) THEN Begun(t) ELSE Counted(w)
    BY <1>1, <2>2, Accesses
  <2>4. Goto(k, IF Expired(t, w.start) THEN "restart" ELSE "load")
    BY <1>6, <2>2 DEF Age
  <2>5. /\ cpu'[k].pc = (IF Expired(t, w.start) THEN "restart" ELSE "load")
        /\ cpu'[k].now = t /\ cpu'[k].dst = d
    BY <1>1, <2>4 DEF Goto, CpuLocals
  <2> QED BY <1>1, <2>1, <2>3, <2>5 DEF OnTheWay
<1>7. CASE Restart(k)
  <2>1. UNCHANGED entries /\ cpu[k].pc = "restart"
    BY <1>7 DEF Restart
  <2>2. exact[d] = Begun(t) /\ w \in Windows /\ cpu[k].element = entries[d]
        /\ entries[d] \in Elements
    BY <1>2, <2>1 DEF OnTheWay, Holding
  <2>3. elements'[entries[d]].start = t
    BY <1>1, <1>7, <2>2 DEF Restart, Windows
  <2>4. cpu'[k].pc = "clear" /\ cpu'[k].now = t /\ cpu'[k].dst = d
    BY <1>1, <1>7, CpuSteps DEF Goto, CpuLocals
  <2> QED BY <1>1, <2>1, <2>2, <2>3, <2>4 DEF OnTheWay
<1>8. CASE Clear(k)
  <2>1. UNCHANGED entries /\ cpu[k].pc = "clear"
    BY <1>8 DEF Clear
  <2>2. /\ exact[d] = Begun(t) /\ w.start = t /\ w \in Windows
        /\ cpu[k].element = entries[d] /\ entries[d] \in Elements
    BY <1>2, <2>1 DEF OnTheWay, Holding
  <2>3. elements'[entries[d]] = [w EXCEPT !.count = 1, !.warned = FALSE]
    BY <1>1, <1>8, <2>2 DEF Clear
  <2>4. cpu'[k].dst # d
    BY <1>1, <1>8, CpuSteps DEF Leaves, Idle
  <2>5. [w EXCEPT !.count = 1, !.warned = FALSE] = Begun(t)
    BY <1>1, <2>2, Accesses
  <2> QED BY <1>1, <2>1, <2>2, <2>3, <2>4, <2>5
<1>9. CASE LoadCount(k)
  <2>1. UNCHANGED <<entries, elements>> /\ cpu[k].pc = "load"
    BY <1>9 DEF LoadCount, windowVars
  <2>2. exact[d] = Counted(w) /\ w \in Windows /\ cpu[k].element = entries[d]
    BY <1>2, <2>1 DEF OnTheWay, Holding
  <2>3. /\ cpu'[k].pc = "store" /\ cpu'[k].now = t /\ cpu'[k].dst = d
        /\ cpu'[k].count = w.count + 1
    BY <1>1, <1>9, <2>2 DEF LoadCount, CpuLocals
  <2> QED BY <1>1, <2>1, <2>2, <2>3 DEF OnTheWay
<1>10. CASE StoreCount(k)
  <2>1. UNCHANGED entries /\ cpu[k].pc = "store"
    BY <1>10 DEF StoreCount
  <2>2. /\ exact[d] = Counted(w) /\ cpu[k].count = w.count + 1 /\ w \in Windows
        /\ cpu[k].element = entries[d] /\ entries[d] \in Elements
        /\ w.count \in Nat
    BY <1>2, <2>1 DEF OnTheWay, Holding, Windows
  <2> DEFINE v == [w EXCEPT !.count = w.count + 1]
  <2>3. elements'[entries[d]] = v
    BY <1>1, <1>10, <2>2 DEF StoreCount
  <2>4. /\ cpu'[k].pc = "compare" /\ cpu'[k].now = t /\ cpu'[k].dst = d
        /\ cpu'[k].count = cpu[k].count
    BY <1>1, <1>10, CpuSteps DEF Goto, CpuLocals
  <2>5. v.count = cpu[k].count
    BY <2>2 DEF Windows
  <2>6. CASE w.count + 1 >= Threshold
    <3>1. exact[d] = Marked(v) /\ v.count >= Threshold
      BY ZenonT(40), <1>1, <2>2, <2>5, <2>6, Accesses
    <3> HIDE DEF v
    <3> QED BY <1>1, <2>1, <2>3, <2>4, <2>5, <3>1 DEF OnTheWay
  <2>7. CASE ~(w.count + 1 >= Threshold)
    <3>1. w.count + 1 < Threshold
      BY <2>2, <2>7, ProgramAssumption
    <3>2. exact[d] = v /\ ~(v.count >= Threshold)
      BY <1>1, <2>2, <2>5, <2>7, <3>1, Accesses
    <3> HIDE DEF v
    <3> QED BY <1>1, <2>1, <2>3, <2>4, <2>5, <3>2 DEF OnTheWay
  <2> QED BY <2>6, <2>7
<1>11. CASE Compare(k)
  <2>1. UNCHANGED <<entries, elements>> /\ cpu[k].pc = "compare"
    BY <1>11, CompareSteps DEF windowVars
  <2>2. /\ exact[d] = IF w.count >= Threshold THEN Marked(w) ELSE w
        /\ cpu[k].count = w.count /\ cpu[k].element = entries[d]
    BY <1>2, <2>1 DEF OnTheWay, Holding
  <2>3. Readings(k) = {w.count}
    BY <2>2 DEF Readings
  <2>4. CASE w.count >= Threshold
    <3>1. Reaches(k, w.count)
      BY <1>11, <2>3, <2>4, CompareSteps
    <3>2. /\ cpu'[k].pc = "warned" /\ cpu'[k].now = t /\ cpu'[k].dst = d
          /\ cpu'[k].count = w.count
      BY <1>1, <3>1 DEF Reaches, CpuLocals
    <3> QED BY <1>1, <2>1, <2>2, <2>4, <3>2 DEF OnTheWay
  <2>5. CASE ~(w.count >= Threshold)
    <3>1. Leaves(k)
      BY <1>11, <2>3, <2>5, CompareSteps DEF Reaches
    <3>2. cpu'[k].dst # d
      BY <1>1, <3>1 DEF Leaves, Idle
    <3> QED BY <1>1, <2>1, <2>2, <2>5, <3>2
  <2> QED BY <2>4, <2>5
<1>12. CASE CheckWarned(k)
  <2>1. UNCHANGED <<entries, elements>> /\ cpu[k].pc = "warned"
    BY <1>12 DEF CheckWarned, windowVars
  <2>2. /\ exact[d] = Marked(w) /\ w \in Windows /\ cpu[k].element = entries[d]
        /\ cpu[k].count = w.count /\ w.count >= Threshold
    BY <1>2, <2>1 DEF OnTheWay, Holding
  <2>3. CASE w.warned
    <3>1. Finish(k)
      BY <1>12, <2>2, <2>3 DEF CheckWarned
    <3>2. cpu'[k].dst # d
      BY <1>1, <3>1 DEF Finish, Idle
    <3>3. exact[d] = w
      BY <1>1, <2>2, <2>3, Accesses
    <3> QED BY <1>1, <2>1, <3>2, <3>3
  <2>4. CASE ~w.warned
    <3>1. Goto(k, "warn")
      BY <1>12, <2>2, <2>4 DEF CheckWarned, Proceed
    <3>2. /\ cpu'[k].pc = "warn" /\ cpu'[k].now = t /\ cpu'[k].dst = d
          /\ cpu'[k].count = cpu[k].count
      BY <1>1, <3>1 DEF Goto, CpuLocals
    <3> QED BY <1>1, <2>1, <2>2, <3>2 DEF OnTheWay
  <2> QED BY <2>3, <2>4
<1>13. CASE Warn(k)
  <2>1. UNCHANGED entries /\ cpu[k].pc = "warn"
    BY <1>13 DEF Warn
  <2>2. /\ exact[d] = Marked(w) /\ cpu[k].element = entries[d]
        /\ entries[d] \in Elements /\ w \in Windows
        /\ cpu[k].count = w.count /\ w.count >= Threshold
    BY <1>2, <2>1 DEF OnTheWay, Holding
  <2>3. elements'[entries[d]] = Marked(w)
    BY <1>1, <1>13, <2>2 DEF Warn, Marked
  <2>4. Marked(w).count = w.count
    BY <2>2 DEF Marked, Windows
  <2>5. /\ cpu'[k].pc = "rate" /\ cpu'[k].now = t /\ cpu'[k].dst = d
        /\ cpu'[k].count = cpu[k].count
    BY <1>1, <1>13, CpuSteps DEF Goto, CpuLocals
  <2> QED BY <1>1, <2>1, <2>2, <2>3, <2>4, <2>5 DEF OnTheWay
<1>14. CASE Alert(k)
  <2>1. UNCHANGED <<entries, elements>> /\ cpu[k].pc = "rate"
    BY <1>14 DEF Alert, windowVars
  <2>2. exact[d] = w
    BY <2>1 DEF OnTheWay
  <2>3. cpu'[k].dst # d
    BY <1>1, <1>14, CpuSteps DEF Leaves, Idle
  <2> QED BY <1>1, <2>1, <2>2, <2>3
<1> QED BY <1>3, <1>4, <1>5, <1>6, <1>7, <1>8, <1>9, <1>10, <1>11, <1>12,
           <1>13, <1>14 DEF Detect

LEMMA ExactNext ==
    ASSUME TypeInv, HoldInv, ExactInv, NEW k \in Cpus, Detect(k)
    PROVE  ExactInv'
<1> SUFFICES ASSUME ~replaced', NEW d \in Hosts \ raced'
             PROVE  /\ \A i, j \in Detecting(d)' : i = j
                    /\ \A j \in Detecting(d)' : OnTheWay(j, d)'
                    /\ d \in DOMAIN entries' /\ Detecting(d)' = {} =>
                          elements'[entries'[d]] = exact'[d]
  BY DEF ExactInv
<1>1. /\ ~replaced /\ d \notin raced /\ d # "none" /\ exact' = exact
      /\ \A j \in Cpus \ {k} : cpu'[j] = cpu[j]
  BY EntriesStay, DetectFrame, CpuType, ProgramAssumption
     DEF TypeInv, TypeOK, ghostVars
<1>2. /\ \A i, j \in Detecting(d) : i = j
      /\ \A j \in Detecting(d) : OnTheWay(j, d)
      /\ d \in DOMAIN entries /\ Detecting(d) = {} =>
            elements[entries[d]] = exact[d]
  BY <1>1 DEF ExactInv
<1>3. cpu'[k].dst \in {cpu[k].dst, "none"}
  BY SamePacket
<1>4. CASE cpu[k].dst = d
  <2>1. k \in Detecting(d) /\ OnTheWay(k, d)
    BY <1>2, <1>4 DEF Detecting
  <2>2. Detecting(d)' \subseteq {k}
    BY <1>1, <1>2, <2>1 DEF Detecting
  <2>3. k \in Detecting(d)' <=> cpu'[k].dst = d
    BY DEF Detecting
  <2> QED BY <1>4, <2>1, <2>2, <2>3, OnTheWayNext
<1>5. CASE cpu[k].dst # d
  <2>1. Detecting(d)' = Detecting(d) /\ k \notin Detecting(d)
    BY <1>1, <1>3, <1>5 DEF Detecting
  <2>2. d \in DOMAIN entries =>
           /\ entries'[d] = entries[d]
           /\ elements'[entries'[d]] = elements[entries[d]]
    BY <1>5, OtherWindows
  <2>3. d \in DOMAIN entries' <=> d \in DOMAIN entries
    BY <1>5 DEF Detect, Lookup, Insert, InsertFails, Age, Restart, Clear,
                LoadCount, StoreCount, Compare, CheckWarned, Warn, Alert,
                windowVars
  <2>4. ASSUME NEW j \in Detecting(d) PROVE OnTheWay(j, d)'
    <3>1. /\ cpu'[j] = cpu[j] /\ OnTheWay(j, d) /\ exact'[d] = exact[d]
          /\ cpu[j].pc \in Holding => d \in DOMAIN entries
      BY <1>1, <1>2, <2>1 DEF Detecting, HoldInv
    <3>2. CASE d \in DOMAIN entries
      BY <2>2, <2>3, <3>1, <3>2 DEF OnTheWay
    <3>3. CASE d \notin DOMAIN entries
      BY <2>3, <3>1, <3>3 DEF OnTheWay, Holding
    <3> QED BY <3>2, <3>3
  <2> QED BY <1>1, <1>2, <2>1, <2>2, <2>3, <2>4
<1> QED BY <1>4, <1>5

LEMMA ExactArrive ==
    ASSUME TypeInv, HoldInv, ExactInv, NEW k \in Cpus, NEW kind \in Kinds,
           NEW h \in Hosts, Arrive(k, kind, h)
    PROVE  ExactInv'
<1> SUFFICES ASSUME ~replaced', NEW d \in Hosts \ raced'
             PROVE  /\ \A i, j \in Detecting(d)' : i = j
                    /\ \A j \in Detecting(d)' : OnTheWay(j, d)'
                    /\ d \in DOMAIN entries' /\ Detecting(d)' = {} =>
                          elements'[entries'[d]] = exact'[d]
  BY DEF ExactInv
<1>1. /\ cpu[k].pc = "idle" /\ cpu'[k].pc = "lookup" /\ cpu'[k].dst = h
      /\ cpu'[k].now = now /\ \A j \in Cpus \ {k} : cpu'[j] = cpu[j]
      /\ UNCHANGED <<entries, elements, replaced>>
  BY ArriveCpu
<1>2. /\ exact \in [Hosts -> Windows]
      /\ exact' = [exact EXCEPT ![h] = IF h \in DOMAIN entries
                                       THEN Detected(@, now) ELSE Begun(now)]
      /\ raced' = IF Detecting(h) = {} THEN raced ELSE raced \cup {h}
  BY DEF Arrive, TypeInv, TypeOK
<1>3. /\ \A i, j \in Detecting(d) : i = j
      /\ \A j \in Detecting(d) : OnTheWay(j, d)
      /\ d \in DOMAIN entries /\ Detecting(d) = {} =>
            elements[entries[d]] = exact[d]
  BY <1>1, <1>2 DEF ExactInv
<1>4. cpu[k].dst = "none" /\ d # "none"
  BY <1>1, ProgramAssumption DEF HoldInv
<1>5. CASE h = d
  <2>1. Detecting(d) = {}
    BY <1>2, <1>5
  <2>2. Detecting(d)' = {k}
    BY <1>1, <1>5, <2>1 DEF Detecting
  <2>3. exact'[d] = IF d \in DOMAIN entries
                    THEN Detected(elements[entries[d]], now) ELSE Begun(now)
    BY <1>2, <1>3, <1>5, <2>1
  <2>4. OnTheWay(k, d)'
    BY <1>1, <2>3 DEF OnTheWay
  <2> QED BY <2>2, <2>4
<1>6. CASE h # d
  <2>1. Detecting(d)' = Detecting(d) /\ k \notin Detecting(d)
    BY <1>1, <1>4, <1>6 DEF Detecting
  <2>2. exact'[d] = exact[d]
    BY <1>2, <1>6
  <2>3. ASSUME NEW j \in Detecting(d) PROVE OnTheWay(j, d)'
    <3>1. cpu'[j] = cpu[j] /\ OnTheWay(j, d)
      BY <1>1, <1>3, <2>1 DEF Detecting
    <3> QED BY <1>1, <2>2, <3>1 DEF OnTheWay
  <2> QED BY <1>1, <1>3, <2>1, <2>2, <2>3
<1> QED BY <1>5, <1>6

-----------------------------------------------------------------------------
(* The inductive invariant and its consequences *)

ProgramInv == /\ TypeInv /\ HoldInv /\ EveryPacketIsCounted /\ AlertInv
              /\ LoadIsSampled /\ CountInv /\ ExactInv

LEMMA ProgramInvInit == Init => ProgramInv
<1> SUFFICES ASSUME Init PROVE ProgramInv
  OBVIOUS
<1>1. TypeInv
  BY InitType
<1>2. /\ \A k \in Cpus : cpu[k].pc = "idle" /\ cpu[k].dst = "none"
      /\ \A e \in Elements : elements[e].count = 0
      /\ DOMAIN entries = {}
      /\ \A d \in Hosts : observed[d] = 0
      /\ clears = 0 /\ \A k \in Cpus : alerts[k] = 0
  BY DEF Init, Idle
<1>3. HoldInv
  BY <1>2 DEF HoldInv, Holding
<1>4. EveryPacketIsCounted
  <2>1. /\ Handled = [k \in Cpus |-> 0] /\ observed = [d \in Hosts |-> 0]
    BY <1>2 DEF Init, Handled, Actions
  <2>2. Sum(Handled, Cpus) = 0 /\ Sum(observed, Hosts) = 0
    BY <2>1, SumOfZeros, ProgramAssumption
  <2> QED BY <2>2, TotalsAre DEF TotalsAgree
<1>5. AlertInv
  <2>1. ASSUME NEW k \in Cpus PROVE ArmedFor(k) = {}
    BY <1>2 DEF ArmedFor, Armed
  <2>2. ASSUME NEW k \in Cpus PROVE Cardinality(ArmedFor(k)) = 0
    BY <2>1, FS_EmptySet
  <2> QED BY <1>2, <2>2 DEF AlertInv, Raised
<1>6. LoadIsSampled
  <2>1. /\ \A k \in Cpus : sampled[k] = 0
        /\ \A k \in Cpus : counters[k]["drop"] = 0 /\ counters[k]["pass"] = 0
    BY DEF Init, Actions
  <2>2. CeilDiv(0, SampleEvery) = 0
    <3>1. /\ SampleEvery \in Nat \ {0}
          /\ SampleEvery - 1 \in 0..(SampleEvery - 1)
          /\ (0 + SampleEvery) - 1 = (SampleEvery * 0) + (SampleEvery - 1)
      BY ProgramAssumption
    <3>2. ((SampleEvery * 0) + (SampleEvery - 1)) \div SampleEvery = 0
      BY <3>1, DivisionUnique
    <3> QED BY <3>1, <3>2 DEF CeilDiv
  <2> QED BY <2>1, <2>2 DEF LoadIsSampled
<1>7. CountInv
  <2>1. ASSUME NEW d \in Hosts PROVE Pending(d) = 0
    <3>1. Uncounted(d) = {}
      BY <1>2, ProgramAssumption DEF Uncounted
    <3> QED BY <3>1, FS_EmptySet DEF Pending
  <2> QED BY <1>2, <2>1 DEF CountInv, Stored
<1>8. ExactInv
  <2>1. \A d \in Hosts : Detecting(d) = {}
    BY <1>2, ProgramAssumption DEF Detecting
  <2> QED BY <1>2, <2>1 DEF ExactInv
<1> QED BY <1>1, <1>3, <1>4, <1>5, <1>6, <1>7, <1>8 DEF ProgramInv

LEMMA ProgramInvNext == ProgramInv /\ [Next]_vars => ProgramInv'
<1> SUFFICES ASSUME TypeInv, HoldInv, EveryPacketIsCounted, AlertInv,
                    LoadIsSampled, CountInv, ExactInv, [Next]_vars
             PROVE  ProgramInv'
  BY DEF ProgramInv
<1>1. LoadIsSampled'
  BY SampledNext
<1>2. ASSUME NEW k \in Cpus, Detect(k) PROVE ProgramInv'
  <2>1. TypeInv'
    BY <1>2, DetectType DEF HoldInv
  <2> QED BY <1>1, <1>2, <2>1, HoldNext, HandledNext, AlertNext, CountNext,
             ExactNext DEF ProgramInv
<1>3. ASSUME NEW k \in Cpus, NEW kind \in Kinds, NEW d \in Hosts,
             Arrive(k, kind, d)
      PROVE  ProgramInv'
  BY <1>1, <1>3, ArriveType, HoldArrive, HandledArrive, AlertArrive,
     CountArrive, ExactArrive DEF ProgramInv
<1>4. CASE Tick \/ UNCHANGED vars
  <2>1. UNCHANGED <<cpu, entries, elements, alerts, clears, observed, exact,
                    raced, replaced>>
    BY <1>4 DEF Tick, vars, windowVars, ghostVars
  <2>2. TypeInv'
    <3>1. CASE UNCHANGED vars
      BY <3>1 DEF vars, TypeInv, TypeOK
    <3> QED BY <1>4, <3>1, TickType
  <2>3. HoldInv'
    BY <2>1 DEF HoldInv
  <2>4. EveryPacketIsCounted'
    <3>1. counters' = counters
      BY <1>4 DEF Tick, vars, sampleVars
    <3>2. Handled' = Handled /\ observed' = observed
      BY <2>1, <3>1 DEF Handled
    <3> QED BY <3>2, TotalsAre, TotalsNext DEF TotalsAgree
  <2>5. AlertInv'
    BY <2>1 DEF AlertInv, Raised, ArmedFor, Armed, Elements
  <2>6. CountInv'
    BY <2>1 DEF CountInv, Pending, Uncounted
  <2>7. ExactInv'
    BY <2>1 DEF ExactInv, OnTheWay, Detecting
  <2> QED BY <1>1, <2>2, <2>3, <2>4, <2>5, <2>6, <2>7 DEF ProgramInv
<1> QED BY <1>2, <1>3, <1>4 DEF Next

(* The invariant holds always; what follows is read off it.                  *)
THEOREM ProgramInvAlways == Spec => []ProgramInv
<1> QED BY ProgramInvInit, ProgramInvNext, PTL DEF Spec

(* PACKET_WINDOWS keeps to its size, no element is in two of its entries,    *)
(* and every local and every word of a window has its type.                  *)
THEOREM ProgramTypeCorrect == Spec => []TypeOK
<1>1. ProgramInv => TypeOK
  BY DEF ProgramInv, TypeInv
<1> QED BY <1>1, ProgramInvAlways, PTL

(* detect_packet_rate: an alert is for a host that the threshold of packets  *)
(* went to, and names a rate that many packets gave it, on any number of     *)
(* CPUs that lose each other's increments and restart each other's windows,  *)
(* until an element of the map is replaced; a rate below the threshold takes *)
(* two CPUs at the same host.                                                *)
THEOREM AlertsBacked == Spec => []AlertsAreBacked
<1>1. ProgramInv => AlertsAreBacked
  <2> SUFFICES ASSUME ProgramInv, ~replaced, NEW k \in Cpus,
                      cpu[k].pc = "rate", NEW rate \in Readings(k)
               PROVE  /\ observed[cpu[k].dst] >= Threshold
                      /\ rate \in 1..observed[cpu[k].dst]
                      /\ rate < Threshold => cpu[k].dst \in raced
    BY DEF AlertsAreBacked, Readings
  <2> DEFINE d == cpu[k].dst
             w == elements[entries[d]]
  <2>1. /\ d \in Hosts /\ d \in DOMAIN entries /\ cpu[k].element = entries[d]
        /\ w.count > 0
    BY DEF ProgramInv, HoldInv, Holding
  <2>2. /\ cpu[k].count \in 1..observed[d] /\ observed[d] >= Threshold
        /\ Pending(d) + w.count <= observed[d]
    BY <2>1 DEF ProgramInv, CountInv, Stored
  <2>3. w.count \in Nat /\ observed[d] \in Nat /\ Pending(d) \in Nat
    BY <2>1, PendingType DEF ProgramInv, TypeInv, TypeOK, Windows
  <2>4. rate = cpu[k].count \/ rate = w.count
    BY <2>1 DEF Readings
  <2>5. rate \in 1..observed[d]
    BY <2>1, <2>2, <2>3, <2>4
  <2>6. d \notin raced => cpu[k].count = w.count /\ w.count >= Threshold
    BY <2>1 DEF ProgramInv, ExactInv, Detecting, OnTheWay
  <2>7. rate < Threshold => d \in raced
    BY <2>3, <2>4, <2>6, ProgramAssumption
  <2> QED BY <2>2, <2>5, <2>7
<1> QED BY <1>1, ProgramInvAlways, PTL

(* detect_packet_rate: a CPU alerts at most once for every window that was   *)
(* begun, on whichever CPU.                                                  *)
THEOREM OneAlertEach == Spec => []OneAlertPerWindow
<1>1. ProgramInv => OneAlertPerWindow
  <2> SUFFICES ASSUME ProgramInv, NEW k \in Cpus PROVE alerts[k] <= clears
    BY DEF OneAlertPerWindow
  <2>1. /\ Raised(k) + Cardinality(ArmedFor(k)) <= clears
        /\ alerts[k] \in Nat /\ clears \in Nat /\ alerts[k] <= Raised(k)
        /\ Raised(k) \in Nat /\ Cardinality(ArmedFor(k)) \in Nat
    BY ArmedFinite DEF ProgramInv, AlertInv, Raised, TypeInv, TypeOK
  <2> QED BY <2>1
<1> QED BY <1>1, ProgramInvAlways, PTL

(* detect_packet_rate: the window of a host that two CPUs never detected at  *)
(* once is exactly what one CPU makes of its packets.                        *)
THEOREM ExactCorrect == Spec => []ExactWithoutRaces
<1>1. ProgramInv => ExactWithoutRaces
  <2> SUFFICES ASSUME ProgramInv, NEW d \in DOMAIN entries \ raced, ~replaced,
                      Detecting(d) = {}
               PROVE  elements[entries[d]] = exact[d]
    BY DEF ExactWithoutRaces
  <2>1. d \in Hosts \ raced
    BY DEF ProgramInv, TypeInv, TypeOK
  <2> QED BY <2>1 DEF ProgramInv, ExactInv
<1> QED BY <1>1, ProgramInvAlways, PTL

(* Every packet that reaches detect_packet_rate is counted once, whatever    *)
(* becomes of its window.                                                    *)
THEOREM PacketsCounted == Spec => []EveryPacketIsCounted
<1>1. ProgramInv => EveryPacketIsCounted
  BY DEF ProgramInv
<1> QED BY <1>1, ProgramInvAlways, PTL

(* should_emit_flow_sample: one load packet in SampleEvery of its CPU is     *)
(* sampled in protect, and not more in monitor.                              *)
THEOREM SampledCorrect == Spec => []LoadIsSampled
<1>1. ProgramInv => LoadIsSampled
  BY DEF ProgramInv
<1> QED BY <1>1, ProgramInvAlways, PTL
=============================================================================
