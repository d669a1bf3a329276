---------------------------- MODULE MCMerkleTree ----------------------------
(* A finite instance of MerkleTree: a small hash with collisions.          *)
EXTENDS MerkleTree, SequencesExt

\* Bound: the number of hash values and of leaves.
HashSpace == 97
MaxLeaves == 7

MCHash == 0..(HashSpace - 1)
MCEfficientHash(a, b) == (31 * a + 57 * b + 13) % HashSpace
LeafHashes == {11, 40, 77}

\* Every leaf list up to MaxLeaves, with repeated leaves, the empty one too.
MCLeafLists == BoundedSeq(LeafHashes, MaxLeaves)

\* Leaves, an inner node, a hash that occurs nowhere among the leaves.
MCQueries == LeafHashes \cup {MCEfficientHash(11, 40), 5}
=============================================================================
