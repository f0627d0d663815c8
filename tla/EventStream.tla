---------------------------- MODULE EventStream ----------------------------
(* What a dashboard may expect of the observation hub: the lines it shows    *)
(* are events, each at most once and in the order they were published, and   *)
(* it misses none but those it had fallen Capacity lines behind, and those   *)
(* published while it was not connected.                                     *)
EXTENDS Naturals, Sequences

CONSTANTS Dashboards,
          Capacity,        \* lines the hub keeps for those who are behind
          IsEvent(_)       \* is this a line that a dashboard can take?

VARIABLES published,       \* every line, in order
          at               \* how far each dashboard has come in them

vars == <<published, at>>

Init == published = <<>> /\ at = [d \in Dashboards |-> 0]

Publish == /\ Len(published') = Len(published) + 1
           /\ SubSeq(published', 1, Len(published)) = published
           /\ IsEvent(published'[Len(published')])
           /\ UNCHANGED at

Join(d) == /\ at' = [at EXCEPT ![d] = Len(published)]
           /\ UNCHANGED published

Show(d, n) == /\ \A m \in (at[d] + 1)..(n - 1) : m + Capacity <= Len(published)
              /\ at' = [at EXCEPT ![d] = n]
              /\ UNCHANGED published

Next == \/ Publish
        \/ \E d \in Dashboards :
              Join(d) \/ \E n \in (at[d] + 1)..Len(published) : Show(d, n)

Spec == Init /\ [][Next]_vars
=============================================================================
