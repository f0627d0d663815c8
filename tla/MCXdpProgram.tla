---------------------------- MODULE MCXdpProgram ----------------------------
(* XdpProgram for TLC. CPUs, and hosts, are alike. *)
EXTENDS XdpProgram, TLC

CONSTANTS k1, k2, h1, h2, h3

TwoCpus == {k1, k2}
ThreeHosts == {h1, h2, h3}
Alike == Permutations(TwoCpus) \cup Permutations(ThreeHosts)
=============================================================================
