----------------------------- MODULE MCDelivery -----------------------------
(* Model values for the run of Delivery.                                   *)
EXTENDS Delivery

CONSTANTS l1, q1, q2, q3

OneLink == {l1}
ThreeRequests == {q1, q2, q3}
=============================================================================
