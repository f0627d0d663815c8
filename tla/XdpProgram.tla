----------------------------- MODULE XdpProgram -----------------------------
(* The eBPF program (xdp-hello-ebpf/src/main.rs) on several CPUs: which      *)
(* packets it observes, the rate window of each destination, and what of the *)
(* packets goes to the ring buffer. The windows are shared by the CPUs and   *)
(* changed without atomics or a lock: a step here is one access to a window  *)
(* or to the map that holds them. Where the source uses the count of a       *)
(* window again, a build may load it again or go on with the value it has;   *)
(* here each use chooses. The mode is fixed; its changes, and how the        *)
(* counters are summed, are in XdpHello.                                     *)
EXTENDS Integers, FiniteSets, FiniteSetsExt, Functions

CONSTANTS Cpus,              \* CPUs that receive packets
          Hosts,             \* destination addresses
          MaxDestinations,   \* max_entries of PACKET_WINDOWS
          Window,            \* PACKET_RATE_WINDOW_NS
          Threshold,         \* PACKET_RATE_THRESHOLD
          SampleEvery,       \* ATTACK_FLOW_SAMPLE_EVERY
          U64,               \* 2^64, where a difference of times wraps
          MaxTime,           \* bound: how far the clock runs
          MaxPackets         \* bound: packets that are observed

ASSUME ProgramAssumption ==
    /\ MaxDestinations \in Nat \ {0} /\ Window \in Nat \ {0}
    /\ Threshold \in Nat \ {0} /\ SampleEvery \in Nat \ 0..1
    /\ U64 \in Nat \ {0} /\ MaxTime \in Nat /\ MaxPackets \in Nat
    /\ MaxTime + Window < U64
    /\ IsFiniteSet(Cpus) /\ IsFiniteSet(Hosts) /\ "none" \notin Hosts

VARIABLES
    mode,       \* DEFENSE_CONFIG[CONFIG_MODE_INDEX]
    now,        \* bpf_ktime_get_ns
    cpu,        \* the packet each CPU is at, and its locals
    entries,    \* PACKET_WINDOWS: the element of each destination in the map
    elements,   \* its elements, those outside the map included
    counters,   \* COUNTERS
    sampled,    \* load packets of each CPU chosen for EVENTS
    alerts,     \* rate alerts of each CPU for EVENTS
    clears,     \* ghost: how often a window was begun
    observed,   \* ghost: packets that reached detect_packet_rate
    exact,      \* ghost: the window an undisturbed detector would keep
    raced,      \* ghost: hosts that two CPUs were detecting at once
    replaced    \* ghost: has an element of the map been replaced?

windowVars == <<entries, elements, clears, replaced>>
sampleVars == <<counters, sampled>>
ghostVars == <<observed, exact, raced>>
vars == <<mode, now, cpu, entries, elements, counters, sampled, alerts,
          clears, observed, exact, raced, replaced>>
-----------------------------------------------------------------------------
(* Packets. Load is UDP to the blocked port; a flow is ICMP, other UDP, or   *)
(* TCP to a port that is not one of the project's own servers. Every other   *)
(* packet is passed on, or aborted when it ends inside its headers, before   *)
(* anything below is touched.                                                *)
Kinds == {"load", "flow"}
Actions == {"pass", "drop"}

PacketAction(kind) ==
    IF mode = "protect" /\ kind = "load" THEN "drop" ELSE "pass"

(* should_emit_flow_sample of the packet a CPU counted as its n-th. *)
ShouldEmit(kind, n) == kind = "flow" \/ n % SampleEvery = 1

(* Preallocated elements: max_entries, and one more of each CPU for the      *)
(* update of an entry that is there already.                                 *)
Elements == 1..(MaxDestinations + Cardinality(Cpus))
Unmapped == Elements \ {entries[d] : d \in DOMAIN entries}

(* The next insertion may take any of them; those that were never used are   *)
(* alike, and the first one stands for them.                                 *)
Unused == {e \in Unmapped : elements[e].count = 0}
Free == {e \in Unmapped : e \in Unused => \A f \in Unused : e <= f}

Begun(t) == [start |-> t, count |-> 1, warned |-> FALSE]

(* now_ns - window_start_ns, which wraps when another CPU has begun the      *)
(* window at a time later than now_ns.                                       *)
Expired(t, start) == (t - start) % U64 >= Window

(* detect_packet_rate on a window that nobody else touches. *)
Detected(w, t) ==
    IF Expired(t, w.start) THEN Begun(t)
    ELSE [w EXCEPT !.count = @ + 1,
                   !.warned = @ \/ w.count + 1 >= Threshold]

Idle == [pc |-> "idle", kind |-> "flow", dst |-> "none", now |-> 0,
         element |-> 1, count |-> 0]

Init ==
    /\ mode \in {"monitor", "protect"} /\ now = 0
    /\ cpu = [k \in Cpus |-> Idle]
    /\ entries = [d \in {} |-> 1]
    /\ elements = [e \in Elements |->
                      [start |-> 0, count |-> 0, warned |-> FALSE]]
    /\ counters = [k \in Cpus |-> [a \in Actions |-> 0]]
    /\ sampled = [k \in Cpus |-> 0] /\ alerts = [k \in Cpus |-> 0]
    /\ clears = 0
    /\ observed = [d \in Hosts |-> 0]
    /\ exact = [d \in Hosts |-> Begun(0)]
    /\ raced = {} /\ replaced = FALSE
-----------------------------------------------------------------------------
(* One packet on one CPU *)

Detecting(d) == {k \in Cpus : cpu[k].dst = d}

Goto(k, pc) == cpu' = [cpu EXCEPT ![k].pc = pc]

Proceed(k, pc) == Goto(k, pc) /\ UNCHANGED sampleVars

(* Mutant of Finish: the samples are taken by the counter of passed packets. *)
FinishByPassCounter(k) ==
    LET kind == cpu[k].kind
        n == counters[k][PacketAction(kind)] + 1
    IN  /\ counters' = [counters EXCEPT ![k][PacketAction(kind)] = n]
        /\ sampled' = IF kind = "load"
                          /\ ShouldEmit(kind, counters[k]["pass"] + 1)
                       THEN [sampled EXCEPT ![k] = @ + 1] ELSE sampled
        /\ cpu' = [cpu EXCEPT ![k] = Idle]

(* record_packet, and the verdict: they touch nothing that another CPU       *)
(* reads, and are part of the last step of detect_packet_rate. EVENTS may be *)
(* full, and then drops the sample.                                          *)
Finish(k) ==
    LET kind == cpu[k].kind
        n == counters[k][PacketAction(kind)] + 1
    IN  /\ counters' = [counters EXCEPT ![k][PacketAction(kind)] = n]
        /\ sampled' = IF kind = "load" /\ ShouldEmit(kind, n)
                       THEN [sampled EXCEPT ![k] = @ + 1] ELSE sampled
        /\ cpu' = [cpu EXCEPT ![k] = Idle]

(* The packet is parsed and decided on, and detect_packet_rate begins. *)
Arrive(k, kind, d) ==
    /\ cpu[k].pc = "idle"
    /\ MapThenSumSet(LAMBDA h : observed[h], Hosts) < MaxPackets
    /\ cpu' = [cpu EXCEPT ![k] = [Idle EXCEPT !.pc = "lookup", !.kind = kind,
                                              !.dst = d, !.now = now]]
    /\ observed' = [observed EXCEPT ![d] = @ + 1]
    /\ exact' = [exact EXCEPT ![d] = IF d \in DOMAIN entries
                                     THEN Detected(@, now) ELSE Begun(now)]
    /\ raced' = IF Detecting(d) = {} THEN raced ELSE raced \cup {d}
    /\ UNCHANGED <<mode, now, windowVars, sampleVars, alerts>>

(* The pointer stays good for access after its entry is replaced. *)
Lookup(k) ==
    /\ cpu[k].pc = "lookup"
    /\ cpu' = IF cpu[k].dst \in DOMAIN entries
              THEN [cpu EXCEPT ![k] =
                       [@ EXCEPT !.pc = "age",
                                 !.element = entries[cpu[k].dst]]]
              ELSE [cpu EXCEPT ![k].pc = "insert"]
    /\ UNCHANGED <<mode, now, windowVars, sampleVars, alerts, ghostVars>>

Full(d) ==
    d \notin DOMAIN entries /\ Cardinality(DOMAIN entries) = MaxDestinations

(* BPF_ANY: an entry another CPU has inserted since the lookup is replaced   *)
(* by a new element, and its old one is free for the next insertion.         *)
Insert(k) ==
    /\ cpu[k].pc = "insert"
    /\ ~Full(cpu[k].dst)
    /\ \E e \in Free :
          /\ elements' = [elements EXCEPT ![e] = Begun(cpu[k].now)]
          /\ entries' = [d \in DOMAIN entries \cup {cpu[k].dst} |->
                            IF d = cpu[k].dst THEN e ELSE entries[d]]
    /\ clears' = clears + 1
    /\ replaced' = (replaced \/ cpu[k].dst \in DOMAIN entries)
    /\ Finish(k)
    /\ UNCHANGED <<mode, now, alerts, ghostVars>>

(* Mutant of InsertFails: the error aborts the packet. *)
InsertFailsAborting(k) ==
    /\ cpu[k].pc = "insert"
    /\ cpu' = [cpu EXCEPT ![k] = Idle]
    /\ UNCHANGED <<mode, now, windowVars, sampleVars, alerts, ghostVars>>

(* The map is full, or the kernel refuses for another reason: every error is *)
(* dropped, and the destination goes unwatched.                              *)
InsertFails(k) ==
    /\ cpu[k].pc = "insert"
    /\ Finish(k)
    /\ UNCHANGED <<mode, now, windowVars, alerts, ghostVars>>

Age(k) ==
    /\ cpu[k].pc = "age"
    /\ Goto(k, IF Expired(cpu[k].now, elements[cpu[k].element].start)
               THEN "restart" ELSE "load")
    /\ UNCHANGED <<mode, now, windowVars, sampleVars, alerts, ghostVars>>

(* Mutant of Restart: the age of the window is stored for its start. *)
RestartAtAge(k) ==
    /\ cpu[k].pc = "restart"
    /\ elements' = [elements EXCEPT ![cpu[k].element].start =
                       (cpu[k].now - @) % U64]
    /\ Goto(k, "clear")
    /\ UNCHANGED <<mode, now, entries, clears, replaced, sampleVars, alerts,
                   ghostVars>>

Restart(k) ==
    /\ cpu[k].pc = "restart"
    /\ elements' = [elements EXCEPT ![cpu[k].element].start = cpu[k].now]
    /\ Goto(k, "clear")
    /\ UNCHANGED <<mode, now, entries, clears, replaced, sampleVars, alerts,
                   ghostVars>>

(* Mutant of Clear: `warned' stays. *)
ClearCountOnly(k) ==
    /\ cpu[k].pc = "clear"
    /\ elements' = [elements EXCEPT ![cpu[k].element].count = 1]
    /\ clears' = clears + 1
    /\ Finish(k)
    /\ UNCHANGED <<mode, now, entries, replaced, alerts, ghostVars>>

(* count and warned, two neighbouring words. *)
Clear(k) ==
    /\ cpu[k].pc = "clear"
    /\ elements' = [elements EXCEPT ![cpu[k].element] =
                       [@ EXCEPT !.count = 1, !.warned = FALSE]]
    /\ clears' = clears + 1
    /\ Finish(k)
    /\ UNCHANGED <<mode, now, entries, replaced, alerts, ghostVars>>

LoadCount(k) ==
    /\ cpu[k].pc = "load"
    /\ cpu' = [cpu EXCEPT ![k] =
                  [@ EXCEPT !.pc = "store",
                            !.count = elements[cpu[k].element].count + 1]]
    /\ UNCHANGED <<mode, now, windowVars, sampleVars, alerts, ghostVars>>

StoreCount(k) ==
    /\ cpu[k].pc = "store"
    /\ elements' = [elements EXCEPT ![cpu[k].element].count = cpu[k].count]
    /\ Goto(k, "compare")
    /\ UNCHANGED <<mode, now, entries, clears, replaced, sampleVars, alerts,
                   ghostVars>>

(* What the next use of count sees: the value that the CPU has, or what is   *)
(* in the window by now.                                                     *)
Readings(k) == {cpu[k].count, elements[cpu[k].element].count}

(* Mutant of Compare: one packet early. *)
CompareEarly(k) ==
    /\ cpu[k].pc = "compare"
    /\ \E n \in Readings(k) :
          IF n + 1 >= Threshold
          THEN /\ cpu' = [cpu EXCEPT ![k] = [@ EXCEPT !.pc = "warned",
                                                     !.count = n]]
               /\ UNCHANGED sampleVars
          ELSE Finish(k)
    /\ UNCHANGED <<mode, now, windowVars, alerts, ghostVars>>

Compare(k) ==
    /\ cpu[k].pc = "compare"
    /\ \E n \in Readings(k) :
          IF n >= Threshold
          THEN /\ cpu' = [cpu EXCEPT ![k] = [@ EXCEPT !.pc = "warned",
                                                     !.count = n]]
               /\ UNCHANGED sampleVars
          ELSE Finish(k)
    /\ UNCHANGED <<mode, now, windowVars, alerts, ghostVars>>

CheckWarned(k) ==
    /\ cpu[k].pc = "warned"
    /\ IF elements[cpu[k].element].warned
       THEN Finish(k) ELSE Proceed(k, "warn")
    /\ UNCHANGED <<mode, now, windowVars, alerts, ghostVars>>

(* Mutant of Warn: `warned' is not set. *)
WarnUnmarked(k) ==
    /\ cpu[k].pc = "warn"
    /\ Goto(k, "rate")
    /\ UNCHANGED <<mode, now, windowVars, sampleVars, alerts, ghostVars>>

Warn(k) ==
    /\ cpu[k].pc = "warn"
    /\ elements' = [elements EXCEPT ![cpu[k].element].warned = TRUE]
    /\ Goto(k, "rate")
    /\ UNCHANGED <<mode, now, entries, clears, replaced, sampleVars, alerts,
                   ghostVars>>

(* The alert carries one of Readings(k); it is dropped when EVENTS is full.  *)
Alert(k) ==
    /\ cpu[k].pc = "rate"
    /\ alerts' = [alerts EXCEPT ![k] = @ + 1]
    /\ Finish(k)
    /\ UNCHANGED <<mode, now, windowVars, ghostVars>>

Tick ==
    /\ now < MaxTime
    /\ now' = now + 1
    /\ UNCHANGED <<mode, cpu, windowVars, sampleVars, alerts, ghostVars>>

Detect(k) ==
    \/ Lookup(k) \/ Insert(k) \/ InsertFails(k) \/ Age(k) \/ Restart(k)
    \/ Clear(k) \/ LoadCount(k) \/ StoreCount(k) \/ Compare(k)
    \/ CheckWarned(k) \/ Warn(k) \/ Alert(k)

Next ==
    \/ Tick
    \/ \E k \in Cpus :
          \/ Detect(k)
          \/ \E kind \in Kinds, d \in Hosts : Arrive(k, kind, d)

Spec == Init /\ [][Next]_vars
-----------------------------------------------------------------------------
(* Properties *)

CpuLocals == [pc : {"idle", "lookup", "insert", "age", "restart", "clear",
                    "load", "store", "compare", "warned", "warn", "rate"},
              kind : Kinds, dst : Hosts \cup {"none"}, now : 0..MaxTime,
              element : Elements, count : Nat]
Windows == [start : 0..MaxTime, count : Nat, warned : BOOLEAN]

(* Every variable has its type, an element is in one entry at most, and the  *)
(* map keeps to its size.                                                    *)
TypeOK ==
    /\ mode \in {"monitor", "protect"} /\ now \in 0..MaxTime
    /\ cpu \in [Cpus -> CpuLocals]
    /\ DOMAIN entries \subseteq Hosts
    /\ Cardinality(DOMAIN entries) <= MaxDestinations
    /\ entries \in [DOMAIN entries -> Elements] /\ IsInjective(entries)
    /\ elements \in [Elements -> Windows]
    /\ counters \in [Cpus -> [Actions -> Nat]]
    /\ sampled \in [Cpus -> Nat] /\ alerts \in [Cpus -> Nat]
    /\ clears \in Nat
    /\ observed \in [Hosts -> Nat] /\ exact \in [Hosts -> Windows]
    /\ raced \subseteq Hosts /\ replaced \in BOOLEAN

(* Whatever increments and restarts of a window are lost, an alert is raised *)
(* only for a host that as many packets as the threshold went to, and the    *)
(* rate it carries is one of 1 to that many packets. It is no less than the  *)
(* threshold either if no two CPUs were at this host at once; another CPU    *)
(* may begin the window again before the rate is read. All this unless an    *)
(* element was replaced, which takes two CPUs that insert the same host at   *)
(* once: a CPU that still holds the old one then counts into the window of   *)
(* whichever host has it next.                                               *)
AlertsAreBacked ==
    ~replaced =>
       \A k \in Cpus : cpu[k].pc = "rate" =>
           /\ observed[cpu[k].dst] >= Threshold
           /\ \A rate \in Readings(k) :
                 /\ rate \in 1..observed[cpu[k].dst]
                 /\ rate < Threshold => cpu[k].dst \in raced

(* Nor does a race make a CPU repeat itself: it alerts at most once for      *)
(* every window that is begun.                                               *)
OneAlertPerWindow == \A k \in Cpus : alerts[k] <= clears

(* The window of a host that no two CPUs were detecting at once is what one  *)
(* CPU alone would have made of it: no packet is missed or counted twice,    *)
(* and it is marked exactly when it reached the threshold.                   *)
ExactWithoutRaces ==
    \A d \in DOMAIN entries \ raced :
        ~replaced /\ Detecting(d) = {} => elements[entries[d]] = exact[d]

(* Whatever becomes of its destination's window, in a full map, between two  *)
(* CPUs or beside an alert, each packet that is observed is counted once:    *)
(* the counters are those of all packets, but for the ones in progress.      *)
Handled == [k \in Cpus |-> counters[k]["pass"] + counters[k]["drop"]
                           + (IF cpu[k].pc = "idle" THEN 0 ELSE 1)]
EveryPacketIsCounted ==
    MapThenSumSet(LAMBDA h : observed[h], Hosts)
      = MapThenSumSet(LAMBDA k : Handled[k], Cpus)

(* Load is sampled once in SampleEvery packets of its CPU: in protect, where *)
(* its counter counts nothing else, exactly, but for a full EVENTS; in       *)
(* monitor, where flows share its counter, at most so often as the counter   *)
(* comes round.                                                              *)
CeilDiv(n, d) == (n + d - 1) \div d
LoadIsSampled ==
    \A k \in Cpus :
        IF mode = "protect"
        THEN sampled[k] = CeilDiv(counters[k]["drop"], SampleEvery)
        ELSE sampled[k] <= CeilDiv(counters[k]["pass"], SampleEvery)
=============================================================================
