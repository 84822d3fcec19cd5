----------------------------- MODULE MCJobSystem -----------------------------
(* Model values and symmetries for the runs of JobSystem.                  *)
EXTENDS JobSystem, TLC

CONSTANTS j1, j2, j3, j4, w1, w2, t1, t2

NoJobs == {}
OneJob == {j1}
Second == {j2}
Third == {j3}
Fourth == {j4}
FourJobs == {j1, j2, j3, j4}
OneWorker == {w1}
TwoWorkers == {w1, w2}
OneTime == {t1}
TwoTimes == {t1, t2}

Symmetry == Permutations({w1, w2}) \cup Permutations({t1, t2})
=============================================================================
