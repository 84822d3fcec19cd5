---------------------------- MODULE MCNodePolicy ----------------------------
(* Model values for the run of NodePolicy.                                 *)
EXTENDS NodePolicy

CONSTANTS a1, a2

TwoAdmins == {a1, a2}
=============================================================================
