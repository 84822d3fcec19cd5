------------------------------ MODULE MCHandoff ------------------------------
(* Model values for the run of Handoff.                                    *)
EXTENDS Handoff

CONSTANTS reader, other

TwoCallers == {reader, other}
=============================================================================
