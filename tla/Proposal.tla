------------------------------ MODULE Proposal ------------------------------
(***************************************************************************)
(* A proposal and the values computed from it: transaction counts, nonces, *)
(* the Merkle tree, the signing hash, validation, signature recovery       *)
(* (proposal.go, utils.go, sdk/evm/encoder.go, signable.go).               *)
(*                                                                         *)
(* Data kept and data left out.  A proposal is a record; its chain         *)
(* metadata maps a chain to its starting op count (there is one MCM per    *)
(* chain).  A transaction is an opaque value.  Hashes are injective, so a  *)
(* leaf is the record it encodes, the root of a Merkle tree is the set of  *)
(* its leaves, and a leaf has a proof if and only if it is in the set      *)
(* (module MerkleTree proves that of the tree).  A signature records who   *)
(* signed which hash; "blob" tells apart two signatures of one signer over *)
(* one hash, which ECDSA with a random nonce produces.                     *)
(***************************************************************************)
EXTENDS QuorumConfig

CONSTANTS
    Chain,        \* chain selectors
    Transaction,  \* payloads of operations
    Blob,         \* distinguishes the signatures of one signer over one hash
    MaxUint32     \* the largest nonce safecast.Uint64ToUint32 accepts

ASSUME ProposalAssumption == MaxUint32 \in Nat

\* What ecrecover yields for a signature over another hash: an address that
\* belongs to nobody.
UnknownAddress == 0

-----------------------------------------------------------------------------
(* Records *)

Operation == [chainSelector : Chain, transaction : Transaction]

\* Leaves, as the encoders hash them under their two domain separators.
OpLeaf == [chain : Chain, nonce : Nat, transaction : Transaction]
MetadataLeaf ==
    {m \in [chain : Chain, preOpCount : Nat, postOpCount : Nat, overridePreviousRoot : BOOLEAN] :
        m.preOpCount <= m.postOpCount}

Tree == [metadata : SUBSET MetadataLeaf, ops : SUBSET OpLeaf]
HashToSign == [root : Tree, validUntil : Nat]
Signature == [signer : Signer, hash : HashToSign, blob : Blob]

\* A proposal with metadata for the chains in D.
ProposalFor(D) ==
    [validUntil           : Nat,
     overridePreviousRoot : BOOLEAN,
     chainMetadata        : [D -> Nat],
     operations           : Seq(Operation),
     signatures           : Seq(Signature)]

IsProposal(p) == \E D \in SUBSET Chain : p \in ProposalFor(D)

-----------------------------------------------------------------------------
(* Counts, nonces and the tree *)

OpIndices(p, c) == {i \in DOMAIN p.operations : p.operations[i].chainSelector = c}

TransactionCounts(p) == [c \in Chain |-> Cardinality(OpIndices(p, c))]

\* The index of operation i among the operations of its chain, from zero.
LocalIndex(p, i) ==
    Cardinality({k \in OpIndices(p, p.operations[i].chainSelector) : k < i})

\* Mutants: the local index is never incremented; it counts all chains; it
\* counts down.
TransactionNonces_NoIncrement(p) ==
    [i \in DOMAIN p.operations |-> p.chainMetadata[p.operations[i].chainSelector]]

TransactionNonces_GlobalIndex(p) ==
    [i \in DOMAIN p.operations |-> i - 1 + p.chainMetadata[p.operations[i].chainSelector]]

TransactionNonces_CountDown(p) ==
    [i \in DOMAIN p.operations |->
        TransactionCounts(p)[p.operations[i].chainSelector] - 1 - LocalIndex(p, i)
          + p.chainMetadata[p.operations[i].chainSelector]]

TransactionNonces(p) ==
    [i \in DOMAIN p.operations |->
        LocalIndex(p, i) + p.chainMetadata[p.operations[i].chainSelector]]

\* What an encoder caches for a chain.
Encoder == [txCount : Nat, overridePreviousRoot : BOOLEAN]

GetEncoders(p) ==
    [c \in DOMAIN p.chainMetadata |->
        [txCount |-> TransactionCounts(p)[c], overridePreviousRoot |-> p.overridePreviousRoot]]

\* Mutants: the post op count is off by one; it forgets the starting op count.
HashMetadata_OffByOne(encoder, c, startingOpCount) ==
    [chain |-> c, preOpCount |-> startingOpCount,
     postOpCount |-> startingOpCount + encoder.txCount + 1,
     overridePreviousRoot |-> encoder.overridePreviousRoot]

HashMetadata_CountOnly(encoder, c, startingOpCount) ==
    [chain |-> c, preOpCount |-> startingOpCount, postOpCount |-> encoder.txCount,
     overridePreviousRoot |-> encoder.overridePreviousRoot]

HashMetadata(encoder, c, startingOpCount) ==
    [chain                |-> c,
     preOpCount           |-> startingOpCount,
     postOpCount          |-> startingOpCount + encoder.txCount,
     overridePreviousRoot |-> encoder.overridePreviousRoot]

HashOperation(nonce, op) ==
    [chain |-> op.chainSelector, nonce |-> nonce, transaction |-> op.transaction]

\* Every operation's chain has metadata and every nonce fits 32 bits:
\* otherwise MerkleTree, and whatever is built on it, returns an error.
HasTree(p) ==
    \A i \in DOMAIN p.operations :
        /\ p.operations[i].chainSelector \in DOMAIN p.chainMetadata
        /\ TransactionNonces(p)[i] <= MaxUint32

MerkleTree(p) ==
    [metadata |-> {HashMetadata(GetEncoders(p)[c], c, p.chainMetadata[c]) :
                     c \in DOMAIN p.chainMetadata},
     ops      |-> {HashOperation(TransactionNonces(p)[i], p.operations[i]) :
                     i \in DOMAIN p.operations}]

SigningHash(p) == [root |-> MerkleTree(p), validUntil |-> p.validUntil]

-----------------------------------------------------------------------------
(* Validation *)

validateNoDuplicateSigners(sigs) ==
    \A i, j \in DOMAIN sigs : sigs[i] = sigs[j] => i = j

proposalValidateBasic(p, time) == ~(time > p.validUntil)

Validate(p, time) ==
    /\ p.validUntil # 0
    /\ p.operations # <<>>
    /\ DOMAIN p.chainMetadata # {}
    /\ validateNoDuplicateSigners(p.signatures)
    /\ \A i \in DOMAIN p.operations : p.operations[i].chainSelector \in DOMAIN p.chainMetadata
    /\ proposalValidateBasic(p, time)

-----------------------------------------------------------------------------
(* Queued proposals *)

\* The predecessors that have transactions on chain c.
PredecessorsOn(preds, c) == {k \in DOMAIN preds : TransactionCounts(preds[k])[c] > 0}

\* All their transactions on chain c.
QueuedOps(preds, c) ==
    UNION {{k} \X OpIndices(preds[k], c) : k \in PredecessorsOn(preds, c)}

\* Mutant: only the first predecessor on the chain is counted.
QueuedStartingOpCount_FirstOnly(preds, c) ==
    LET first == CHOOSE k \in PredecessorsOn(preds, c) :
                   \A j \in PredecessorsOn(preds, c) : k <= j
    IN preds[first].chainMetadata[c] + TransactionCounts(preds[first])[c]

\* The starting op count on chain c of a proposal queued behind preds: the
\* first predecessor on the chain provides the start, each adds its count.
QueuedStartingOpCount(preds, c) ==
    LET first == CHOOSE k \in PredecessorsOn(preds, c) :
                   \A j \in PredecessorsOn(preds, c) : k <= j
    IN preds[first].chainMetadata[c] + Cardinality(QueuedOps(preds, c))

\* The proposal newProposal returns for a decoded one and its predecessors.
Queued(p, preds) ==
    [p EXCEPT !.chainMetadata =
        [c \in DOMAIN p.chainMetadata |->
            IF PredecessorsOn(preds, c) = {} THEN p.chainMetadata[c]
            ELSE QueuedStartingOpCount(preds, c)]]

-----------------------------------------------------------------------------
(* Signatures and quorums *)

Recover(sig, hash) == IF sig.hash = hash THEN sig.signer ELSE UnknownAddress

RecoverSigningAddresses(hash, sigs) == {Recover(sigs[i], hash) : i \in DOMAIN sigs}

\* Signable.CheckQuorum, given the configuration its inspector read.
CheckQuorum(p, cfg) ==
    /\ ValidateConfig(cfg)
    /\ CanSetRoot(cfg, RecoverSigningAddresses(SigningHash(p), p.signatures))

\* Mutant: the signatures are submitted in the order they were appended in.
SortedSignatures_Unsorted(sigs, hash) == {sigs}

\* The orders slices.SortFunc may leave the signatures in: by recovered
\* address, in no particular order where the hash is not the one signed.
SortedSignatures(sigs, hash) ==
    LET Orders == {f \in [DOMAIN sigs -> DOMAIN sigs] :
                     \A i, j \in DOMAIN sigs : f[i] = f[j] => i = j}
        InOrder(f) ==
            \A i, j \in DOMAIN sigs :
                (i < j /\ sigs[f[i]].hash = hash /\ sigs[f[j]].hash = hash)
                => Recover(sigs[f[i]], hash) <= Recover(sigs[f[j]], hash)
    IN {[i \in DOMAIN sigs |-> sigs[f[i]]] : f \in {g \in Orders : InOrder(g)}}

=============================================================================
