---------------------------- MODULE MCLogRotation ----------------------------
(* LogRotation for TLC: the fault sets of the runs.                         *)
EXTENDS LogRotation

NoFaults == {}
EveryFault == AllFaults
=============================================================================
