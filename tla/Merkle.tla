------------------------------- MODULE Merkle -------------------------------
(***************************************************************************)
(* Merkle roots of ledger entries and the proofs that an entry is under a  *)
(* root, which the verify command checks. A hash stands for what was       *)
(* hashed: a pair of hashes is the hash of the two, one after the other.   *)
(* Each loop is an action, one step for one turn. Of no leaves the root is *)
(* Zeros; there is nothing to prove of them, and they are left out.        *)
(***************************************************************************)
EXTENDS Integers, Sequences

CONSTANTS
  LeafHashes,  \* the hashes that leaves are, and hashes from elsewhere
  MaxLeaves    \* bound: leaves under a root

ASSUME MerkleAssumption == MaxLeaves \in Nat

VARIABLES
  mpc,         \* "leaves" while they are collected, "MerkleRoot", "Verify", then "done"
  levels,      \* the leaves, then every level that MerkleRoot has made of them
  claim,       \* the inclusion proof: a leaf, the place where it should be, and
               \* whether there are as many directions as siblings
  height,      \* siblings that VerifyInclusionProof has used, one for each level
  place,       \* the directions to come, as a place on the next level
  hash,        \* its current
  honest,      \* the siblings it has used were the tree's
  accepted     \* what it returned

proofVars == <<claim, height, place, hash, honest, accepted>>
merkleVars == <<mpc, levels, proofVars>>

Sha(a, b) == <<a, b>>

leaves == levels[1]
top == levels[Len(levels)]

Empty ==
  /\ levels = << <<>> >> /\ claim = [leaf |-> <<>>, place |-> 0, paired |-> TRUE]
  /\ height = 0 /\ place = 0 /\ hash = <<>> /\ honest = TRUE /\ accepted = FALSE

MerkleRest == mpc = "rest" /\ Empty

MerkleInit == mpc = "leaves" /\ Empty

AddLeaf ==
  /\ mpc = "leaves" /\ Len(leaves) < MaxLeaves
  /\ \E h \in LeafHashes : levels' = <<Append(leaves, h)>>
  /\ mpc' \in {"leaves", "MerkleRoot"}
  /\ UNCHANGED proofVars

(* Mutant of Level: the last of an odd number goes up as it is.            *)
LevelPromotes(current) ==
  [i \in 1..((Len(current) + 1) \div 2) |->
     IF 2 * i <= Len(current) THEN Sha(current[2 * i - 1], current[2 * i])
     ELSE current[2 * i - 1]]

(* The last of an odd number is paired with itself.                        *)
Level(current) ==
  [i \in 1..((Len(current) + 1) \div 2) |->
     IF 2 * i <= Len(current) THEN Sha(current[2 * i - 1], current[2 * i])
     ELSE Sha(current[2 * i - 1], current[2 * i - 1])]

MerkleRoot ==
  /\ mpc = "MerkleRoot" /\ Len(top) > 1
  /\ levels' = Append(levels, Level(top))
  /\ UNCHANGED <<mpc, proofVars>>

-----------------------------------------------------------------------------
(* VerifyInclusionProof is called with the root, a leaf, the directions to *)
(* a place and the siblings, and refuses if these are not as many.         *)
CallVerify ==
  /\ mpc = "MerkleRoot" /\ Len(top) = 1
  /\ \E h \in LeafHashes, p \in 0..(Len(leaves) - 1), b \in BOOLEAN :
       /\ claim' = [leaf |-> h, place |-> p, paired |-> b]
       /\ hash' = h /\ place' = p
       /\ mpc' = IF b THEN "Verify" ELSE "done"
  /\ UNCHANGED <<levels, height, honest, accepted>>

(* On the level it is at, the node of hash and the one it is paired with:  *)
(* the left one for an odd place, or itself if it has no right one.        *)
Row == levels[height + 1]
Node == Row[place + 1]
Sibling ==
  IF place % 2 = 1 THEN Row[place]
  ELSE IF place + 1 < Len(Row) THEN Row[place + 2]
  ELSE Node

Nodes == UNION {{levels[h][i] : i \in 1..Len(levels[h])} : h \in 1..Len(levels)}

VerifyTurn ==
  /\ mpc = "Verify" /\ height + 1 < Len(levels)
  /\ \E sibling \in Nodes \cup LeafHashes :
       /\ hash' = IF place % 2 = 1 THEN Sha(sibling, hash) ELSE Sha(hash, sibling)
       /\ honest' = (honest /\ sibling = Sibling)
  /\ height' = height + 1
  /\ place' = place \div 2
  /\ UNCHANGED <<mpc, levels, claim, accepted>>

VerifyReturns ==
  /\ mpc = "Verify" /\ height + 1 = Len(levels)
  /\ accepted' = (hash = top[1])
  /\ mpc' = "done"
  /\ UNCHANGED <<levels, claim, height, place, hash, honest>>

MerkleNext == AddLeaf \/ MerkleRoot \/ CallVerify \/ VerifyTurn \/ VerifyReturns

MerkleSpec == MerkleInit /\ [][MerkleNext]_merkleVars

-----------------------------------------------------------------------------
(* For every number of leaves, odd on any level or not, the proof of a     *)
(* leaf is accepted if it is the leaf at its place and all the siblings    *)
(* are the tree's, and with another leaf or any other sibling it is not.   *)
InclusionProofsHold ==
  mpc = "done" =>
    (accepted <=> claim.leaf = leaves[claim.place + 1] /\ honest /\ claim.paired)
=============================================================================
