------------------------------- MODULE MCHub -------------------------------
(* Model values for the run of Hub.                                        *)
EXTENDS Hub

CONSTANTS c1, c2, t1, t2

TwoConns == {c1, c2}
TwoTenants == {t1, t2}
=============================================================================
