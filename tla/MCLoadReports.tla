---------------------------- MODULE MCLoadReports ----------------------------
(* LoadReports for TLC.                                                      *)
EXTENDS LoadReports

CONSTANT c1
=============================================================================
