----------------------------- MODULE MCGroupSpool -----------------------------
(* GroupSpool for TLC: the fault sets of the runs, and symmetry.            *)
EXTENDS GroupSpool, TLC

TornInfo == {"crash", "tornInfo", "infoError", "expire"}
WholeInfo == {"crash", "infoError", "expire", "rebuild"}
Crashes == {"crash"}
NoFaults == {}

Symmetry == Permutations(Poster) \cup Permutations(Msg)
=============================================================================
