----------------------------- MODULE Algorithms -----------------------------
(* The algorithms without state of their own, side by side: in a behaviour *)
(* one of them has its input, and the others are at rest.                  *)
EXTENDS Detect, Checksums, Merkle

vars == <<detectVars, checksumVars, merkleVars>>

Init ==
  \/ DetectInit /\ ChecksumsRest /\ MerkleRest
  \/ ChecksumsInit /\ DetectRest /\ MerkleRest
  \/ MerkleInit /\ DetectRest /\ ChecksumsRest

Next ==
  \/ DetectNext /\ UNCHANGED <<checksumVars, merkleVars>>
  \/ ChecksumsNext /\ UNCHANGED <<detectVars, merkleVars>>
  \/ MerkleNext /\ UNCHANGED <<detectVars, checksumVars>>

Spec == Init /\ [][Next]_vars
=============================================================================
