----------------------------- MODULE MCXdpHello -----------------------------
(* XdpHello for TLC.                                                         *)
EXTENDS XdpHello

CONSTANTS c1, c2, k1, k2

TwoConns == {c1, c2}
TwoCpus == {k1, k2}

(* Two commands, or a command and a failed lookup, or two of these. *)
TwoIncidents ==
    spent.commands + misread["pass"] + misread["drop"] <= MaxCommands
=============================================================================
