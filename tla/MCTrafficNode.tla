---------------------------- MODULE MCTrafficNode ----------------------------
(* TrafficNode for TLC.                                                      *)
EXTENDS TrafficNode, TLC

CONSTANTS c1, c2

TwoConns == {c1, c2}
ConnSymmetry == Permutations(TwoConns)
=============================================================================
