----------------------------- MODULE MerkleTree -----------------------------
(***************************************************************************)
(* The Merkle tree that a proposal's root and proofs come from             *)
(* (internal/core/merkle/tree.go).  NewTree is a loop over layers and      *)
(* GetProof a walk up those layers; both are modelled one iteration per    *)
(* step, so that what the loops establish can be proved by an inductive    *)
(* invariant.  After GetProof returns, the on-chain verifier folds the     *)
(* proof over the leaf and compares the result with the root.              *)
(*                                                                         *)
(* Hashes are numbers, ordered as common.Hash.Cmp orders them.  Nothing is *)
(* assumed about efficientHash except that it returns a hash: collisions   *)
(* are allowed.                                                            *)
(***************************************************************************)
EXTENDS Naturals, Sequences

CONSTANTS
    Hash,                   \* the values of common.Hash
    efficientHash(_, _),    \* Keccak256 of two concatenated hashes
    LeafLists,              \* the leaf lists NewTree is called with
    Queries                 \* the hashes GetProof is called with

ZeroHash == 0

ASSUME HashAssumption ==
    /\ Hash \subseteq Nat
    /\ ZeroHash \in Hash
    /\ \A a, b \in Hash : efficientHash(a, b) \in Hash

ASSUME InputAssumption ==
    /\ \A s \in LeafLists : s \in Seq(Hash)
    /\ Queries \subseteq Hash

VARIABLES
    leaves,      \* the argument of NewTree
    layers,      \* Tree.Layers, the leaves first
    currHashes,  \* the layer NewTree is about to hash
    root,        \* Tree.Root
    hash,        \* the argument of GetProof
    targets,     \* the values GetProof's targetHash takes, the current one last
    proof,       \* the siblings collected so far
    acc,         \* the verifier's running hash
    checked,     \* how many proof elements the verifier has consumed
    pc           \* build, prove, notfound, verify, accepted or rejected

vars == <<leaves, layers, currHashes, root, hash, targets, proof, acc, checked, pc>>

Elements(s) == {s[i] : i \in DOMAIN s}

-----------------------------------------------------------------------------
(* NewTree *)

\* Mutant: the pair is hashed as it comes.
hashPair_Unsorted(a, b) == efficientHash(a, b)

\* The two hashes in ascending order, combined.
hashPair(a, b) == IF a < b THEN efficientHash(a, b) ELSE efficientHash(b, a)

\* An odd layer has its last hash duplicated.
Padded(s) == IF Len(s) % 2 # 0 THEN Append(s, s[Len(s)]) ELSE s

ParentLayer(s) == [i \in 1..(Len(s) \div 2) |-> hashPair(s[2*i - 1], s[2*i])]

Init ==
    /\ leaves \in LeafLists
    /\ layers = <<>>
    /\ currHashes = leaves
    /\ root = ZeroHash
    /\ hash \in Queries
    /\ targets = <<hash>>
    /\ proof = <<>>
    /\ acc = hash
    /\ checked = 0
    /\ pc = "build"

\* One iteration of NewTree's loop: pad, record the layer, move up.
HashLayer ==
    /\ pc = "build"
    /\ Len(currHashes) > 1
    /\ layers' = Append(layers, Padded(currHashes))
    /\ currHashes' = ParentLayer(Padded(currHashes))
    /\ UNCHANGED <<leaves, root, hash, targets, proof, acc, checked, pc>>

\* NewTree returns; no leaves give the zero root and no layers.
FinishTree ==
    /\ pc = "build"
    /\ Len(currHashes) <= 1
    /\ root' = IF leaves = <<>> THEN ZeroHash ELSE currHashes[1]
    /\ pc' = "prove"
    /\ UNCHANGED <<leaves, layers, currHashes, hash, targets, proof, acc, checked>>

-----------------------------------------------------------------------------
(* GetProof *)

targetHash == targets[Len(targets)]

\* Mutant: a node is its own sibling.
Sibling_Self(j) == j

\* j ^ 1 on zero-based positions.
Sibling(j) == IF j % 2 = 1 THEN j + 1 ELSE j - 1

\* Mutant: a hash that is not in the layer is taken for the first node.
Matches_NoError(layer, h) ==
    IF \E j \in DOMAIN layer : layer[j] = h THEN {j \in DOMAIN layer : layer[j] = h} ELSE {1}

\* The positions at which GetProof's inner loop may stop: the first match.
Matches(layer, h) ==
    {j \in DOMAIN layer : layer[j] = h /\ \A k \in 1..(j - 1) : layer[k] # h}

\* One iteration of GetProof's outer loop.
ClimbLayer ==
    /\ pc = "prove"
    /\ Len(proof) < Len(layers)
    /\ LET layer == layers[Len(proof) + 1] IN
         \E j \in Matches(layer, targetHash) :
           /\ proof' = Append(proof, layer[Sibling(j)])
           /\ targets' = Append(targets, hashPair(targetHash, layer[Sibling(j)]))
    /\ UNCHANGED <<leaves, layers, currHashes, root, hash, acc, checked, pc>>

\* TreeNodeNotFoundError.
NotFound ==
    /\ pc = "prove"
    /\ Len(proof) < Len(layers)
    /\ Matches(layers[Len(proof) + 1], targetHash) = {}
    /\ pc' = "notfound"
    /\ UNCHANGED <<leaves, layers, currHashes, root, hash, targets, proof, acc, checked>>

\* Mutant: the loop over the layers ends one layer early.
FinishProof_OneLayerEarly ==
    /\ pc = "prove"
    /\ Len(proof) + 1 = Len(layers)
    /\ pc' = "verify"
    /\ UNCHANGED <<leaves, layers, currHashes, root, hash, targets, proof, acc, checked>>

FinishProof ==
    /\ pc = "prove"
    /\ Len(proof) = Len(layers)
    /\ pc' = "verify"
    /\ UNCHANGED <<leaves, layers, currHashes, root, hash, targets, proof, acc, checked>>

-----------------------------------------------------------------------------
(* The contract's MerkleProof.verify, from how setRoot and execute use it. *)

VerifyStep ==
    /\ pc = "verify"
    /\ checked < Len(proof)
    /\ acc' = hashPair(acc, proof[checked + 1])
    /\ checked' = checked + 1
    /\ UNCHANGED <<leaves, layers, currHashes, root, hash, targets, proof, pc>>

VerifyDone ==
    /\ pc = "verify"
    /\ checked = Len(proof)
    /\ pc' = IF acc = root THEN "accepted" ELSE "rejected"
    /\ UNCHANGED <<leaves, layers, currHashes, root, hash, targets, proof, acc, checked>>

Next ==
    \/ HashLayer
    \/ FinishTree
    \/ ClimbLayer
    \/ NotFound
    \/ FinishProof
    \/ VerifyStep
    \/ VerifyDone

Spec == Init /\ [][Next]_vars

-----------------------------------------------------------------------------
(* Properties *)

\* Every variable keeps its type: layers are lists of hashes, the verifier
\* never runs past the proof NewTree and GetProof produced.
TypeOK ==
    /\ leaves \in Seq(Hash)
    /\ layers \in Seq(Seq(Hash))
    /\ currHashes \in Seq(Hash)
    /\ root \in Hash
    /\ hash \in Hash
    /\ targets \in Seq(Hash) /\ Len(targets) = Len(proof) + 1
    /\ proof \in Seq(Hash) /\ Len(proof) <= Len(layers)
    /\ acc \in Hash
    /\ checked \in 0..Len(proof)
    /\ pc \in {"build", "prove", "notfound", "verify", "accepted", "rejected"}

\* tree.go says of the not-found error that it "shouldn't happen".  For every
\* leaf of the tree GetProof returns a proof, and the verifier that folds the
\* proof over the leaf reaches the root NewTree computed: whatever the number
\* of leaves, however often a leaf occurs, and even if inner hashes collide.
EveryLeafIsProvable ==
    hash \in Elements(leaves) => pc \notin {"notfound", "rejected"}

\* A hash that is not a leaf gets no proof from GetProof, be it an inner node
\* or a value that is not in the tree, as soon as the tree has two leaves (a
\* proposal always has its metadata leaf and an operation leaf).
OnlyLeavesAreProvable ==
    (Len(leaves) >= 2 /\ hash \notin Elements(leaves)) => pc # "verify"

\* 2^k, as a function that can be reasoned about.
Pow2[k \in Nat] == IF k = 0 THEN 1 ELSE 2 * Pow2[k - 1]

\* A finished proof has one sibling per doubling: the least k with
\* 2^k >= the number of leaves, the depth the contract's gas use depends on.
ProofIsLogarithmic ==
    (pc = "verify" /\ leaves # <<>>) =>
        /\ Pow2[Len(proof)] >= Len(leaves)
        /\ proof # <<>> => Pow2[Len(proof) - 1] < Len(leaves)

-----------------------------------------------------------------------------
(* The inductive invariant behind EveryLeafIsProvable *)

\* Layer i of the recorded layers ls, with the unfinished one above them.
Level(ls, top, i) == IF i <= Len(ls) THEN ls[i] ELSE top

\* Each recorded layer is even, and every node's parent, computed with its
\* sibling as GetProof does, is a node of the layer above.
ParentsAreAbove ==
    \A i \in 1..Len(layers) :
        /\ Len(layers[i]) % 2 = 0
        /\ \A j \in 1..Len(layers[i]) :
             hashPair(layers[i][j], layers[i][Sibling(j)]) \in
               Elements(Level(layers, currHashes, i + 1))

\* The leaves are the lowest layer.
LeavesAreBelow == Elements(leaves) \subseteq Elements(Level(layers, currHashes, 1))

\* Once built, the tree has at most one hash on top, its root.
RootIsOnTop ==
    pc # "build" => \A h \in Elements(currHashes) : h = root

\* GetProof's target is a node of the layer it is about to search.
TargetIsOnPath ==
    hash \in Elements(leaves) =>
        targetHash \in Elements(Level(layers, currHashes, Len(proof) + 1))

\* The successive targets are what folding the proof yields.
TargetsFoldProof ==
    /\ targets[1] = hash
    /\ \A k \in 1..Len(proof) : targets[k + 1] = hashPair(targets[k], proof[k])

\* The proof is untouched while the tree is built, and complete once verified.
Phases ==
    /\ pc = "build" => proof = <<>>
    /\ (leaves = <<>>) <=> (currHashes = <<>>)
    /\ pc \in {"verify", "accepted", "rejected"} => Len(proof) = Len(layers)
    /\ acc = targets[checked + 1]

IInv ==
    /\ TypeOK
    /\ ParentsAreAbove
    /\ LeavesAreBelow
    /\ RootIsOnTop
    /\ TargetIsOnPath
    /\ TargetsFoldProof
    /\ Phases
    /\ EveryLeafIsProvable

=============================================================================
