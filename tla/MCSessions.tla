----------------------------- MODULE MCSessions -----------------------------
(* Model values for the run of Sessions.                                   *)
EXTENDS Sessions

CONSTANTS k1, k2, t1, t2

TwoKeys == {k1, k2}
FirstOnly == {k1}
Owner == [k \in TwoKeys |-> IF k = k1 THEN t1 ELSE t2]
=============================================================================
