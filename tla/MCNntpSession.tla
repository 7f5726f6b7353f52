---------------------------- MODULE MCNntpSession ----------------------------
(* NntpSession for TLC.                                                     *)
EXTENDS NntpSession

CONSTANTS g1, g2

\* The limit of one group is lower than that of the other; or is not given.
LimitsMissing == [g \in Group |-> IF g = g1 THEN 1 ELSE Missing]
Both == {"read", "post"}
=============================================================================
