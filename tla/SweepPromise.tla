---------------------------- MODULE SweepPromise ----------------------------
(* What an experiment promises, with no word on how it is conducted: every   *)
(* measurement of the plan is reported (handed to the hub) at most once, an  *)
(* experiment that ends well has reported all of them, and it leaves no drop *)
(* rule behind in the kernel. An experiment may fail at any time, and may    *)
(* vanish: what it had not reported then is never reported.                  *)
CONSTANT Plan   \* the set of measurements of one experiment

VARIABLES phase,   \* "idle", "running", "succeeded" or "failed"
          todo,    \* the measurements not reported yet
          rule     \* is the netfilter drop rule installed?

vars == <<phase, todo, rule>>

Init == phase = "idle" /\ todo = {} /\ rule = FALSE

Begin == /\ phase # "running"
         /\ phase' = "running"
         /\ todo' = Plan
         /\ UNCHANGED rule

Report == /\ phase = "running"
          /\ \E m \in todo : todo' = todo \ {m}
          /\ UNCHANGED <<phase, rule>>

ChangeRule == /\ phase \in {"running", "failed"}
              /\ rule' \in BOOLEAN
              /\ UNCHANGED <<phase, todo>>

Succeed == /\ phase = "running"
           /\ todo = {}
           /\ phase' = "succeeded"
           /\ rule' = FALSE
           /\ UNCHANGED todo

Fail == /\ phase = "running"
        /\ phase' = "failed"
        /\ rule' \in BOOLEAN
        /\ todo' = {}

Next == Begin \/ Report \/ ChangeRule \/ Succeed \/ Fail

Spec == Init /\ [][Next]_vars
=============================================================================
