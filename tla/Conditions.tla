----------------------------- MODULE Conditions -----------------------------
(* The plan of a service-limit sweep: which measurements an experiment       *)
(* consists of, and the counterbalanced order in which                       *)
(* tools/experiment-runner/src/main.rs visits them.                          *)
EXTENDS Integers, Sequences

CONSTANTS PpsSteps,     \* Opt::pps_steps as parse_pps_steps accepts it
          Repetitions   \* Opt::repetitions, a u16 that main() wants nonzero

MaxPps == 100000

(* parse_pps_steps: at least one step, each in 1..100000, strictly           *)
(* increasing (the code compares neighbours).                                *)
ValidPpsSteps(steps) ==
    /\ steps \in Seq(1..MaxPps)
    /\ steps # <<>>
    /\ \A i \in 1..(Len(steps) - 1) : steps[i] < steps[i + 1]

ASSUME PpsStepsAssumption == ValidPpsSteps(PpsSteps)
ASSUME RepetitionsAssumption == Repetitions \in 1..65535

DropPoints == {"application", "netfilter", "xdp"}

(* DropPoint::ALL *)
AllDropPoints == <<"application", "netfilter", "xdp">>

(* order.rotate_left((repetition - 1) % 3) *)
ConditionOrder(repetition) ==
    [j \in 1..3 |-> AllDropPoints[(((j - 1) + (repetition - 1)) % 3) + 1]]

(* even repetitions walk the rates downwards *)
RateOrder(repetition) ==
    IF repetition % 2 = 0
    THEN [i \in 1..Len(PpsSteps) |-> PpsSteps[Len(PpsSteps) - i + 1]]
    ELSE PpsSteps

(* A position of the three nested loops of run_experiment: the repetition,   *)
(* and the indices into rate_order and condition_order. EndPosition is where *)
(* the outermost loop ends.                                                  *)
Positions == [rep : 1..Repetitions, rate : 1..Len(PpsSteps), cond : 1..3]
FirstPosition == [rep |-> 1, rate |-> 1, cond |-> 1]
EndPosition == [rep |-> Repetitions + 1, rate |-> 1, cond |-> 1]

(* The measurement a position stands for. *)
ConditionAt(p) ==
    [repetition |-> p.rep, pps |-> RateOrder(p.rep)[p.rate],
     dropPoint |-> ConditionOrder(p.rep)[p.cond]]

(* Mutant of NextPosition: the drop point loop runs once too often.          *)
NextPositionOverruns(p) ==
    IF p.cond <= 3 THEN [rep |-> p.rep, rate |-> p.rate, cond |-> p.cond + 1]
    ELSE IF p.rate < Len(PpsSteps)
    THEN [rep |-> p.rep, rate |-> p.rate + 1, cond |-> 1]
    ELSE [rep |-> p.rep + 1, rate |-> 1, cond |-> 1]

(* The order of the loops: innermost drop point, then rate, then repetition. *)
NextPosition(p) ==
    IF p.cond < 3 THEN [rep |-> p.rep, rate |-> p.rate, cond |-> p.cond + 1]
    ELSE IF p.rate < Len(PpsSteps)
    THEN [rep |-> p.rep, rate |-> p.rate + 1, cond |-> 1]
    ELSE [rep |-> p.rep + 1, rate |-> 1, cond |-> 1]

(* Everything a complete experiment has to measure, whatever the order. *)
Plan == [repetition : 1..Repetitions,
         pps : {PpsSteps[i] : i \in 1..Len(PpsSteps)},
         dropPoint : DropPoints]

NotBefore(p, q) ==
    \/ q.rep > p.rep
    \/ q.rep = p.rep /\ q.rate > p.rate
    \/ q.rep = p.rep /\ q.rate = p.rate /\ q.cond >= p.cond

(* The measurements of the loop iterations that start at position p or later. *)
Remaining(p) == {ConditionAt(q) : q \in {s \in Positions : NotBefore(p, s)}}
=============================================================================
