---------------------------- MODULE MCAlgorithms ----------------------------
(* Small inputs of the algorithms.                                         *)
EXTENDS Algorithms

FirstAndLast == {1, 3}
SomeDigits == {0, 2, 5, 9}
TwoHashes == {<<1>>, <<2>>}
=============================================================================
