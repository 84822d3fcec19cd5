------------------------------ MODULE MCJobReads ------------------------------
(* Model values and symmetries for the run of JobReads.                    *)
EXTENDS JobReads, TLC

CONSTANTS j1, w1, w2, t1, r1

NoJobs == {}
OneJob == {j1}
TwoWorkers == {w1, w2}
OneTime == {t1}
OneReader == {r1}

(* Requests that read are followed where at most one of the two faults, a  *)
(* crash and a second entry, has happened; the pipeline is followed with   *)
(* both.                                                                   *)
ReadsBound ==
  crashes = 0 \/ lastId <= 1 \/ (seen = {} /\ \A r \in Readers : rpc[r] = "idle")

Symmetry == Permutations({w1, w2})
=============================================================================
