---------------------- MODULE ProposalExecution_proofs ----------------------
(***************************************************************************)
(* Proofs about ProposalExecution, for any chains, proposals, signers,     *)
(* predecessors and bounds: type correctness and the agreement between     *)
(* what a contract has executed and the proposal its root belongs to; the  *)
(* implementation of OrderedExecution; queued proposals that fit; what     *)
(* signers and configurations mean to client and contract.                 *)
(***************************************************************************)
EXTENDS ProposalExecution, QuorumConfig_proofs

-----------------------------------------------------------------------------
(* Counting operations *)

\* The indices of a proposal's operations on a chain form a finite set of
\* positions.
LEMMA OpIndicesFinite ==
    ASSUME NEW p, IsProposal(p), NEW c
    PROVE  /\ OpIndices(p, c) \subseteq 1..Len(p.operations)
           /\ IsFiniteSet(OpIndices(p, c))
           /\ Cardinality(OpIndices(p, c)) \in Nat
<1>1. p.operations \in Seq(Operation)
  BY DEF IsProposal, ProposalFor
<1>2. Len(p.operations) \in Nat /\ DOMAIN p.operations = 1..Len(p.operations)
  BY <1>1
<1>3. OpIndices(p, c) \subseteq 1..Len(p.operations)
  BY <1>2 DEF OpIndices
<1>4. IsFiniteSet(1..Len(p.operations))
  BY <1>2, FS_Interval
<1>5. IsFiniteSet(OpIndices(p, c))
  BY <1>3, <1>4, FS_Subset
<1>. QED BY <1>3, <1>5, FS_CardinalityType

\* A local index is the rank of an operation among those of its chain
\* (chainIndexMap in TransactionNonces).
LEMMA LocalIndexIsRank ==
    ASSUME NEW p, IsProposal(p), NEW c
    PROVE  /\ OpIndices(p, c) \subseteq Nat
           /\ IsFiniteSet(OpIndices(p, c))
           /\ \A i \in OpIndices(p, c) : LocalIndex(p, i) = Rank(OpIndices(p, c), i)
<1>1. OpIndices(p, c) \subseteq 1..Len(p.operations) /\ IsFiniteSet(OpIndices(p, c))
  BY OpIndicesFinite
<1>2. Len(p.operations) \in Nat
  BY DEF IsProposal, ProposalFor
<1>3. OpIndices(p, c) \subseteq Nat
  BY <1>1, <1>2
<1>4. \A i \in OpIndices(p, c) : p.operations[i].chainSelector = c
  BY DEF OpIndices
<1>. QED BY <1>1, <1>3, <1>4 DEF LocalIndex, Rank, SmallerIn

\* It is below the chain's transaction count (TransactionCounts).
LEMMA LocalIndexBound ==
    ASSUME NEW p, IsProposal(p), NEW c, NEW i \in OpIndices(p, c)
    PROVE  /\ LocalIndex(p, i) \in Nat
           /\ LocalIndex(p, i) < Cardinality(OpIndices(p, c))
BY LocalIndexIsRank, RankBound

\* Two operations of one chain have different local indices.
LEMMA LocalIndexInjective ==
    ASSUME NEW p, IsProposal(p), NEW c,
           NEW i \in OpIndices(p, c), NEW j \in OpIndices(p, c),
           LocalIndex(p, i) = LocalIndex(p, j)
    PROVE  i = j
BY LocalIndexIsRank, RankInjective

\* Every number below the chain's transaction count is the local index of one of
\* its operations: the nonces of a chain have no gap.
LEMMA LocalIndexOnto ==
    ASSUME NEW p, IsProposal(p), NEW c, NEW n \in Nat, n < Cardinality(OpIndices(p, c))
    PROVE  \E i \in OpIndices(p, c) : LocalIndex(p, i) = n
<1>1. \E i \in OpIndices(p, c) : Rank(OpIndices(p, c), i) = n
  BY LocalIndexIsRank, RankOnto
<1>. QED BY <1>1, LocalIndexIsRank

-----------------------------------------------------------------------------
(* Trees and queued proposals are well formed *)

\* What MerkleTree returns for a proposal whose operations all have metadata is
\* a tree of leaves: the pre op count of a metadata leaf is at most its post op
\* count, and every nonce is a natural number.
LEMMA MerkleTreeType ==
    ASSUME NEW p, IsProposal(p), HasTree(p)
    PROVE  /\ MerkleTree(p) \in Tree
           /\ \A c \in DOMAIN p.chainMetadata :
                HashMetadata(GetEncoders(p)[c], c, p.chainMetadata[c]) \in MetadataLeaf
<1>1. PICK D \in SUBSET Chain : p \in ProposalFor(D)
  BY DEF IsProposal
<1>2. /\ DOMAIN p.chainMetadata = D
      /\ \A c \in D : p.chainMetadata[c] \in Nat
      /\ p.overridePreviousRoot \in BOOLEAN
      /\ p.operations \in Seq(Operation)
  BY <1>1 DEF ProposalFor
<1>3. \A c \in Chain : Cardinality(OpIndices(p, c)) \in Nat
  BY OpIndicesFinite
<1>4. ASSUME NEW c \in D
      PROVE  HashMetadata(GetEncoders(p)[c], c, p.chainMetadata[c]) \in MetadataLeaf
  <2>1. GetEncoders(p)[c] = [txCount |-> Cardinality(OpIndices(p, c)),
                             overridePreviousRoot |-> p.overridePreviousRoot]
    BY <1>2 DEF GetEncoders, TransactionCounts
  <2>2. Cardinality(OpIndices(p, c)) \in Nat /\ p.chainMetadata[c] \in Nat /\ c \in Chain
    BY <1>2, <1>3
  <2> DEFINE n == Cardinality(OpIndices(p, c))
  <2>3. n \in Nat
    BY <2>2
  <2>4. HashMetadata(GetEncoders(p)[c], c, p.chainMetadata[c]) =
          [chain |-> c, preOpCount |-> p.chainMetadata[c],
           postOpCount |-> p.chainMetadata[c] + n,
           overridePreviousRoot |-> p.overridePreviousRoot]
    BY <2>1 DEF HashMetadata
  <2> HIDE DEF n
  <2>. QED BY <2>2, <2>3, <2>4, <1>2 DEF MetadataLeaf
<1>5. ASSUME NEW i \in DOMAIN p.operations
      PROVE  HashOperation(TransactionNonces(p)[i], p.operations[i]) \in OpLeaf
  <2>1. p.operations[i] \in Operation
    BY <1>2
  <2>2. /\ p.operations[i].chainSelector \in Chain
        /\ p.operations[i].transaction \in Transaction
    BY <2>1 DEF Operation
  <2>3. i \in OpIndices(p, p.operations[i].chainSelector)
    BY DEF OpIndices
  <2>4. LocalIndex(p, i) \in Nat
    BY <2>3, LocalIndexBound
  <2>5. p.chainMetadata[p.operations[i].chainSelector] \in Nat
    BY <1>2 DEF HasTree
  <2>6. TransactionNonces(p)[i] \in Nat
    BY <2>4, <2>5 DEF TransactionNonces
  <2>. QED BY <2>2, <2>6 DEF HashOperation, OpLeaf
<1>6. {HashMetadata(GetEncoders(p)[c], c, p.chainMetadata[c]) : c \in DOMAIN p.chainMetadata}
        \subseteq MetadataLeaf
  BY <1>2, <1>4
<1>7. {HashOperation(TransactionNonces(p)[i], p.operations[i]) : i \in DOMAIN p.operations}
        \subseteq OpLeaf
  BY <1>5
<1>. QED BY <1>2, <1>4, <1>6, <1>7 DEF MerkleTree, Tree

\* A valid proposal has metadata for the chains it has transactions on.
LEMMA MetadataOfCounted ==
    ASSUME NEW P, NEW c \in Chain, TransactionCounts(P)[c] > 0,
           \A i \in DOMAIN P.operations :
             P.operations[i].chainSelector \in DOMAIN P.chainMetadata
    PROVE  c \in DOMAIN P.chainMetadata
<1>1. SUFFICES ASSUME c \notin DOMAIN P.chainMetadata PROVE FALSE
  OBVIOUS
<1>2. OpIndices(P, c) = {}
  BY <1>1 DEF OpIndices
<1>3. TransactionCounts(P)[c] = 0
  BY <1>2, FS_EmptySet DEF TransactionCounts
<1>. QED BY <1>3

\* The predecessors' operations on a chain are finitely many.
LEMMA QueuedOpsFinite ==
    ASSUME NEW n \in Nat, NEW preds, DOMAIN preds = 1..n,
           \A k \in 1..n : IsProposal(preds[k]),
           NEW c
    PROVE  IsFiniteSet(QueuedOps(preds, c)) /\ Cardinality(QueuedOps(preds, c)) \in Nat
<1> DEFINE S == PredecessorsOn(preds, c)
           Own(k) == {k} \X OpIndices(preds[k], c)
           Owns == {Own(k) : k \in S}
<1>1. S \subseteq 1..n
  BY DEF PredecessorsOn
<1>2. IsFiniteSet(S)
  <2>1. IsFiniteSet(1..n)
    BY 1 \in Int, n \in Int, FS_Interval
  <2> HIDE DEF S
  <2>. QED BY <1>1, <2>1, FS_Subset
<1>3. \A k \in S : IsFiniteSet(Own(k))
  <2> SUFFICES ASSUME NEW k \in S PROVE IsFiniteSet(Own(k))
    OBVIOUS
  <2>1. IsFiniteSet(OpIndices(preds[k], c))
    BY <1>1, OpIndicesFinite
  <2>2. IsFiniteSet({k})
    BY FS_Singleton
  <2>. QED BY <2>1, <2>2, FS_Product
<1>4. IsFiniteSet(Owns)
  <2> DEFINE f == [k \in S |-> Own(k)]
  <2>1. f \in Surjection(S, Owns)
    BY DEF Surjection
  <2>. QED BY <1>2, <2>1, FS_Surjection
<1>5. IsFiniteSet(UNION Owns)
  BY <1>3, <1>4, FS_UNION
<1>. QED BY <1>5, FS_CardinalityType DEF QueuedOps

\* The starting op count a queued proposal gets is a natural number
\* (generateQueuedProposalStartingOpCounts).
LEMMA QueuedStartingOpCountType ==
    ASSUME NEW n \in Nat, NEW preds, DOMAIN preds = 1..n,
           \A k \in 1..n : IsProposal(preds[k])
                           /\ \A i \in DOMAIN preds[k].operations :
                                preds[k].operations[i].chainSelector \in DOMAIN preds[k].chainMetadata,
           NEW c \in Chain, PredecessorsOn(preds, c) # {}
    PROVE  QueuedStartingOpCount(preds, c) \in Nat
<1> DEFINE S == PredecessorsOn(preds, c)
           first == CHOOSE k \in S : \A j \in S : k <= j
<1>1. S \subseteq 1..n /\ S # {} /\ S \subseteq Nat
  BY DEF PredecessorsOn
<1>2. first \in S
  <2>1. \E k \in S : \A j \in S : k <= j
    BY <1>1, LeastNatural
  <2>. QED BY <2>1
<1>3. preds[first].chainMetadata[c] \in Nat
  <2>0. /\ first \in 1..n
        /\ IsProposal(preds[first])
        /\ \A i \in DOMAIN preds[first].operations :
             preds[first].operations[i].chainSelector \in DOMAIN preds[first].chainMetadata
    BY <1>1, <1>2
  <2>1. TransactionCounts(preds[first])[c] > 0
    BY <1>2 DEF PredecessorsOn
  <2> HIDE DEF first
  <2>2. c \in DOMAIN preds[first].chainMetadata
    BY <2>0, <2>1, MetadataOfCounted
  <2>3. PICK D \in SUBSET Chain : preds[first] \in ProposalFor(D)
    BY <2>0 DEF IsProposal
  <2>. QED BY <2>2, <2>3 DEF ProposalFor
<1>4. Cardinality(QueuedOps(preds, c)) \in Nat
  BY QueuedOpsFinite
<1>. QED BY <1>3, <1>4 DEF QueuedStartingOpCount

\* A proposal loaded behind valid predecessors is well formed (newProposal).
LEMMA QueuedType ==
    ASSUME NEW p, IsProposal(p),
           NEW n \in Nat, NEW preds, DOMAIN preds = 1..n,
           \A k \in 1..n : IsProposal(preds[k])
                           /\ \A i \in DOMAIN preds[k].operations :
                                preds[k].operations[i].chainSelector \in DOMAIN preds[k].chainMetadata
    PROVE  IsProposal(Queued(p, preds))
<1>1. PICK D \in SUBSET Chain : p \in ProposalFor(D)
  BY DEF IsProposal
<1> DEFINE start == [c \in DOMAIN p.chainMetadata |->
                        IF PredecessorsOn(preds, c) = {} THEN p.chainMetadata[c]
                        ELSE QueuedStartingOpCount(preds, c)]
<1>2. DOMAIN p.chainMetadata = D /\ \A c \in D : p.chainMetadata[c] \in Nat
  BY <1>1 DEF ProposalFor
<1>3. \A c \in D : PredecessorsOn(preds, c) # {} => QueuedStartingOpCount(preds, c) \in Nat
  BY QueuedStartingOpCountType
<1>4. start \in [D -> Nat]
  BY <1>2, <1>3
<1>5. Queued(p, preds) = [p EXCEPT !.chainMetadata = start]
  BY DEF Queued
<1> HIDE DEF start
<1>6. Queued(p, preds) \in ProposalFor(D)
  BY <1>1, <1>4, <1>5 DEF ProposalFor
<1>. QED BY <1>6 DEF IsProposal

\* The tree, the nonces and the encoders depend on the operations, the chain
\* metadata and the override flag alone.
LEMMA CachesDependOn ==
    ASSUME NEW p, NEW q,
           p.operations = q.operations,
           p.chainMetadata = q.chainMetadata,
           p.overridePreviousRoot = q.overridePreviousRoot
    PROVE  Caches(p) = Caches(q) /\ (HasTree(p) <=> HasTree(q))
<1>1. \A c : OpIndices(p, c) = OpIndices(q, c)
  BY DEF OpIndices
<1>2. \A i : LocalIndex(p, i) = LocalIndex(q, i)
  BY <1>1 DEF LocalIndex
<1>3. TransactionNonces(p) = TransactionNonces(q)
  BY <1>2 DEF TransactionNonces
<1>4. TransactionCounts(p) = TransactionCounts(q)
  BY <1>1 DEF TransactionCounts
<1>5. GetEncoders(p) = GetEncoders(q)
  BY <1>4 DEF GetEncoders
<1>6. MerkleTree(p) = MerkleTree(q)
  BY <1>3, <1>5 DEF MerkleTree
<1>. QED BY <1>3, <1>5, <1>6 DEF Caches, HasTree

\* Sorting signatures yields signatures.
LEMMA SortedSignaturesType ==
    ASSUME NEW sigs \in Seq(Signature), NEW hash
    PROVE  SortedSignatures(sigs, hash) \subseteq Seq(Signature)
<1> SUFFICES ASSUME NEW f \in [DOMAIN sigs -> DOMAIN sigs]
             PROVE  [i \in DOMAIN sigs |-> sigs[f[i]]] \in Seq(Signature)
  BY DEF SortedSignatures
<1>1. DOMAIN sigs = 1..Len(sigs) /\ Len(sigs) \in Nat
  OBVIOUS
<1>2. \A i \in 1..Len(sigs) : sigs[f[i]] \in Signature
  BY <1>1
<1>. QED BY <1>1, <1>2

-----------------------------------------------------------------------------
(* Steps that leave the contracts alone *)

\* Contracts that do not change keep agreeing with their history.
LEMMA RanFromRootUnchanged ==
    ASSUME RanFromRoot, UNCHANGED mcmVars
    PROVE  RanFromRoot'
BY DEF RanFromRoot, mcmVars, ClearedMetadata

\* The initial state satisfies the inductive invariant.
LEMMA InitIInv ==
    ASSUME Init
    PROVE  IInv
<1>1. \A c \in Chain : ClearedMetadata(c, 0) \in MetadataLeaf
  BY DEF ClearedMetadata, MetadataLeaf
<1>2. \A c \in Chain : ExtractSetConfigInputs(InitConfig[c]) \in ChainConfig
  BY ArraysAreTyped, ConfigurationsAssumption DEF Configurations
<1>3. TypeOK
  BY <1>1, <1>2, ContractAssumption, ExecutionAssumption DEF Init, MCMInit, TypeOK, Loaded
<1>4. CachesAreCurrent
  BY DEF Init, CachesAreCurrent, Executable
<1>5. RanFromRoot
  BY DEF Init, MCMInit, RanFromRoot, ClearedMetadata
<1>. QED BY <1>3, <1>4, <1>5 DEF IInv

\* Loading a proposal.
LEMMA NewProposalIInv ==
    ASSUME IInv, NEW p \in ProposalId, NewProposal(p)
    PROVE  IInv'
<1> DEFINE P == Queued(file[p], PredecessorFiles(p))
<1>1. IsProposal(P)
  <2> DEFINE n == Len(Predecessors[p])
             preds == PredecessorFiles(p)
  <2>1. Predecessors[p] \in Seq(ProposalId)
    BY ExecutionAssumption
  <2>2. n \in Nat /\ DOMAIN Predecessors[p] = 1..n
    BY <2>1
  <2>3. DOMAIN preds = 1..n
    BY <2>2 DEF PredecessorFiles
  <2>4. \A k \in 1..n : preds[k] = file[Predecessors[p][k]] /\ Predecessors[p][k] \in ProposalId
    BY <2>1, <2>2 DEF PredecessorFiles
  <2>5. \A k \in 1..n : IsProposal(preds[k])
    BY <2>4 DEF IInv, TypeOK
  <2>6. \A k \in 1..n : \A i \in DOMAIN preds[k].operations :
          preds[k].operations[i].chainSelector \in DOMAIN preds[k].chainMetadata
    BY <2>2 DEF NewProposal, Validate
  <2>7. IsProposal(file[p])
    BY DEF IInv, TypeOK
  <2> HIDE DEF n, preds
  <2>8. IsProposal(Queued(file[p], preds))
    BY <2>2, <2>3, <2>5, <2>6, <2>7, QueuedType
  <2>. QED BY <2>8 DEF preds
<1>2. proposals' = [proposals EXCEPT ![p] = P]
  BY DEF NewProposal
<1> HIDE DEF P
<1>3. TypeOK'
  BY <1>1, <1>2 DEF IInv, TypeOK, NewProposal, Loaded, mcmVars, boundVars
<1>4. ~Executable(p)
  BY DEF IInv, CachesAreCurrent, NewProposal
<1>5. CachesAreCurrent'
  BY <1>2, <1>4 DEF IInv, TypeOK, CachesAreCurrent, NewProposal, Executable, Loaded
<1>6. RanFromRoot'
  BY RanFromRootUnchanged DEF IInv, NewProposal
<1>. QED BY <1>3, <1>5, <1>6 DEF IInv

\* Writing a proposal to its file.
LEMMA WriteProposalIInv ==
    ASSUME IInv, NEW p \in ProposalId, WriteProposal(p)
    PROVE  IInv'
<1>1. TypeOK'
  BY DEF IInv, TypeOK, WriteProposal, Loaded, mcmVars, boundVars
<1>2. CachesAreCurrent'
  BY DEF IInv, CachesAreCurrent, WriteProposal, Executable, Loaded
<1>3. RanFromRoot'
  BY RanFromRootUnchanged DEF IInv, WriteProposal
<1>. QED BY <1>1, <1>2, <1>3 DEF IInv

\* A change of the signatures or of ValidUntil keeps the caches current.
LEMMA EditKeepsCaches ==
    ASSUME IInv, NEW p \in ProposalId, Loaded(p),
           NEW P, IsProposal(P),
           P.operations = proposals[p].operations,
           P.chainMetadata = proposals[p].chainMetadata,
           P.overridePreviousRoot = proposals[p].overridePreviousRoot,
           proposals' = [proposals EXCEPT ![p] = P],
           UNCHANGED <<now, mcmVars, file, executables, mempool, boundVars>>
    PROVE  IInv'
<1>1. TypeOK'
  BY DEF IInv, TypeOK, Loaded, mcmVars, boundVars
<1>0. P # NoProposal
  BY ExecutionAssumption
<1>2. Caches(P) = Caches(proposals[p]) /\ (HasTree(P) <=> HasTree(proposals[p]))
  BY CachesDependOn
<1>3. CachesAreCurrent'
  BY <1>0, <1>2 DEF IInv, TypeOK, CachesAreCurrent, Executable, Loaded
<1>4. RanFromRoot'
  BY RanFromRootUnchanged DEF IInv
<1>. QED BY <1>1, <1>3, <1>4 DEF IInv

\* Signing a proposal.
LEMMA SignAndAppendIInv ==
    ASSUME IInv, NEW p \in ProposalId, NEW s \in Signer, SignAndAppend(p, s)
    PROVE  IInv'
<1>1. IsProposal(proposals[p]) /\ HasTree(proposals[p])
  BY DEF IInv, TypeOK, SignAndAppend
<1>2. PICK D \in SUBSET Chain : proposals[p] \in ProposalFor(D)
  BY <1>1 DEF IsProposal
<1>3. SigningHash(proposals[p]) \in HashToSign
  BY <1>1, <1>2, MerkleTreeType DEF SigningHash, HashToSign, ProposalFor
<1>4. PICK b \in Blob :
        proposals' = [proposals EXCEPT ![p].signatures =
          Append(@, [signer |-> s, hash |-> SigningHash(proposals[p]), blob |-> b])]
  BY DEF SignAndAppend
<1> DEFINE sig == [signer |-> s, hash |-> SigningHash(proposals[p]), blob |-> b]
           P == [proposals[p] EXCEPT !.signatures = Append(@, sig)]
<1>5. sig \in Signature
  BY <1>3 DEF Signature
<1> HIDE DEF sig
<1>6. P \in ProposalFor(D)
  <2>1. proposals[p].signatures \in Seq(Signature)
    BY <1>2 DEF ProposalFor
  <2>2. Append(proposals[p].signatures, sig) \in Seq(Signature)
    BY <1>5, <2>1
  <2>. QED BY <1>2, <2>2 DEF ProposalFor
<1>7. /\ P.operations = proposals[p].operations
      /\ P.chainMetadata = proposals[p].chainMetadata
      /\ P.overridePreviousRoot = proposals[p].overridePreviousRoot
  BY <1>2 DEF ProposalFor
<1>8. proposals' = [proposals EXCEPT ![p] = P]
  BY <1>4 DEF sig
<1>9. Loaded(p) /\ IsProposal(P)
  BY <1>6 DEF SignAndAppend, IsProposal
<1>10. UNCHANGED <<now, mcmVars, file, executables, mempool, boundVars>>
  BY DEF SignAndAppend
<1> HIDE DEF P
<1>. QED BY <1>7, <1>8, <1>9, <1>10, EditKeepsCaches

\* Editing ValidUntil.
LEMMA EditValidUntilIInv ==
    ASSUME IInv, NEW p \in ProposalId, EditValidUntil(p)
    PROVE  IInv'
<1>1. IsProposal(proposals[p])
  BY DEF IInv, TypeOK, EditValidUntil
<1>2. PICK D \in SUBSET Chain : proposals[p] \in ProposalFor(D)
  BY <1>1 DEF IsProposal
<1>3. PICK t \in ValidUntilEdits : proposals' = [proposals EXCEPT ![p].validUntil = t]
  BY DEF EditValidUntil
<1> DEFINE P == [proposals[p] EXCEPT !.validUntil = t]
<1>4. t \in Nat
  BY ExecutionAssumption
<1>5. P \in ProposalFor(D)
  BY <1>2, <1>4 DEF ProposalFor
<1>6. /\ P.operations = proposals[p].operations
      /\ P.chainMetadata = proposals[p].chainMetadata
      /\ P.overridePreviousRoot = proposals[p].overridePreviousRoot
  BY <1>2 DEF ProposalFor
<1>7. proposals' = [proposals EXCEPT ![p] = P]
  BY <1>3
<1>8. Loaded(p) /\ IsProposal(P)
  BY <1>5 DEF EditValidUntil, IsProposal
<1>9. UNCHANGED <<now, mcmVars, file, executables, mempool, boundVars>>
  BY DEF EditValidUntil
<1> HIDE DEF P
<1>. QED BY <1>6, <1>7, <1>8, <1>9, EditKeepsCaches

\* A restart forgets proposals and executables together.
LEMMA RestartIInv ==
    ASSUME IInv, Restart
    PROVE  IInv'
<1>1. TypeOK'
  BY DEF IInv, TypeOK, Restart, Loaded, mcmVars
<1>2. CachesAreCurrent'
  BY DEF Restart, CachesAreCurrent, Executable
<1>3. RanFromRoot'
  BY RanFromRootUnchanged DEF IInv, Restart
<1>. QED BY <1>1, <1>2, <1>3 DEF IInv

\* Building an Executable.
LEMMA NewExecutableIInv ==
    ASSUME IInv, NEW p \in ProposalId, NewExecutable(p)
    PROVE  IInv'
<1>1. TypeOK'
  BY DEF IInv, TypeOK, NewExecutable, Loaded, mcmVars, boundVars
<1>2. CachesAreCurrent'
  BY DEF IInv, TypeOK, CachesAreCurrent, NewExecutable, Executable, Loaded
<1>3. RanFromRoot'
  BY RanFromRootUnchanged DEF IInv, NewExecutable
<1>. QED BY <1>1, <1>2, <1>3 DEF IInv

\* Submitting a well-formed transaction.
LEMMA SubmitIInv ==
    ASSUME IInv, NEW c \in Chain, NEW t \in SubmittedTx, Submit(c, t),
           UNCHANGED <<now, mcmVars, clientVars, boundVars>>
    PROVE  IInv'
<1>1. mempool' \in [Chain -> SUBSET SubmittedTx]
  BY DEF IInv, TypeOK, Submit
<1>2. TypeOK'
  BY <1>1 DEF IInv, TypeOK, Loaded, mcmVars, clientVars, boundVars
<1>3. CachesAreCurrent'
  BY DEF IInv, CachesAreCurrent, Executable, Loaded, clientVars
<1>4. RanFromRoot'
  BY RanFromRootUnchanged DEF IInv
<1>. QED BY <1>2, <1>3, <1>4 DEF IInv

\* Submitting a setRoot transaction.
LEMMA SetRootIInv ==
    ASSUME IInv, NEW p \in ProposalId, NEW c \in Chain, SetRoot(p, c)
    PROVE  IInv'
<1>1. /\ Loaded(p)
      /\ HasTree(proposals[p])
      /\ executables[p] = Caches(proposals[p])
      /\ IsProposal(proposals[p])
  BY DEF IInv, TypeOK, CachesAreCurrent, SetRoot
<1>2. PICK D \in SUBSET Chain : proposals[p] \in ProposalFor(D)
  BY <1>1 DEF IsProposal
<1>3. proposals[p].validUntil \in Nat /\ proposals[p].signatures \in Seq(Signature)
  BY <1>2 DEF ProposalFor
<1>4. executables[p].tree = MerkleTree(proposals[p]) /\ MerkleTree(proposals[p]) \in Tree
  BY <1>1, MerkleTreeType DEF Caches
<1>5. RootMetadataLeaf(p, c) \in MetadataLeaf
  BY <1>1, MerkleTreeType DEF SetRoot, RootMetadataLeaf, Caches
<1>6. PICK sigs \in SortedSignatures(proposals[p].signatures, SigningHash(proposals[p])) :
        Submit(c, [type       |-> "setRoot",
                   root       |-> executables[p].tree,
                   validUntil |-> proposals[p].validUntil,
                   metadata   |-> RootMetadataLeaf(p, c),
                   signatures |-> sigs])
  BY DEF SetRoot, SetRootTxs
<1>7. sigs \in Seq(Signature)
  BY <1>3, SortedSignaturesType
<1>8. [type       |-> "setRoot",
       root       |-> executables[p].tree,
       validUntil |-> proposals[p].validUntil,
       metadata   |-> RootMetadataLeaf(p, c),
       signatures |-> sigs] \in SubmittedTx
  BY <1>3, <1>4, <1>5, <1>7 DEF SubmittedTx
<1>. QED BY <1>6, <1>8, SubmitIInv DEF SetRoot

\* Submitting an execute transaction.
LEMMA ExecuteIInv ==
    ASSUME IInv, NEW p \in ProposalId, NEW i, Execute(p, i)
    PROVE  IInv'
<1>1. /\ HasTree(proposals[p])
      /\ executables[p] = Caches(proposals[p])
      /\ IsProposal(proposals[p])
  BY DEF IInv, TypeOK, CachesAreCurrent, Execute
<1>2. executables[p].tree = MerkleTree(proposals[p]) /\ MerkleTree(proposals[p]) \in Tree
  BY <1>1, MerkleTreeType DEF Caches
<1>3. OperationLeaf(p, i) \in OpLeaf
  BY <1>2 DEF Execute, Tree
<1>4. ExecuteTx(p, i) \in SubmittedTx
  BY <1>2, <1>3 DEF ExecuteTx, SubmittedTx
<1>5. proposals[p].operations[i].chainSelector \in Chain
  <2>1. PICK D \in SUBSET Chain : proposals[p] \in ProposalFor(D)
    BY <1>1 DEF IsProposal
  <2>2. proposals[p].operations \in Seq(Operation) /\ i \in DOMAIN proposals[p].operations
    BY <2>1 DEF ProposalFor, Execute
  <2>3. proposals[p].operations[i] \in Operation
    BY <2>2
  <2>. QED BY <2>3 DEF Operation
<1>. QED BY <1>4, <1>5, SubmitIInv DEF Execute

\* Submitting a setConfig transaction.
LEMMA SetConfigIInv ==
    ASSUME IInv, NEW c \in Chain, SetConfig(c)
    PROVE  IInv'
<1>1. PICK r \in Reconfigurations :
        Submit(c, [type |-> "setConfig", config |-> ExtractSetConfigInputs(r.config),
                   clearRoot |-> r.clearRoot])
  BY DEF SetConfig
<1>2. ExtractSetConfigInputs(r.config) \in ChainConfig /\ r.clearRoot \in BOOLEAN
  BY ArraysAreTyped, ConfigurationsAssumption, ExecutionAssumption DEF Configurations
<1>3. [type |-> "setConfig", config |-> ExtractSetConfigInputs(r.config),
       clearRoot |-> r.clearRoot] \in SubmittedTx
  BY <1>2 DEF SubmittedTx
<1>. QED BY <1>1, <1>3, SubmitIInv DEF SetConfig

-----------------------------------------------------------------------------
(* Steps of the chains *)

\* Removing a transaction keeps the types of the mempool and the caches.
LEMMA MinedFacts ==
    ASSUME IInv, NEW c \in Chain, NEW t, Mined(c, t), UNCHANGED clientVars
    PROVE  mempool' \in [Chain -> SUBSET SubmittedTx] /\ CachesAreCurrent'
<1>1. mempool' \in [Chain -> SUBSET SubmittedTx]
  BY DEF IInv, TypeOK, Mined
<1>2. CachesAreCurrent'
  BY DEF IInv, CachesAreCurrent, Executable, Loaded, clientVars
<1>. QED BY <1>1, <1>2

\* The contract accepts a root.  Nothing has been executed under it yet, since
\* its pre op count is the op count.
LEMMA MineSetRootIInv ==
    ASSUME IInv, NEW c \in Chain, MineSetRoot(c)
    PROVE  IInv'
<1>1. PICK t \in mempool[c] : t.type = "setRoot" /\ setRoot(c, t) /\ Mined(c, t)
  BY DEF MineSetRoot
<1>2. t \in SubmittedTx
  BY DEF IInv, TypeOK
<1>3. /\ t.root \in Tree
      /\ t.validUntil \in Nat
      /\ t.metadata \in MetadataLeaf
  BY <1>1, <1>2 DEF SubmittedTx
<1>4. mempool' \in [Chain -> SUBSET SubmittedTx] /\ CachesAreCurrent'
  BY <1>1, MinedFacts DEF MineSetRoot
<1>5. /\ root' = [root EXCEPT ![c] = t.root]
      /\ rootValidUntil' = [rootValidUntil EXCEPT ![c] = t.validUntil]
      /\ rootMetadata' = [rootMetadata EXCEPT ![c] = t.metadata]
      /\ seenHashes' = [seenHashes EXCEPT ![c] =
                          @ \cup {[root |-> t.root, validUntil |-> t.validUntil]}]
      /\ UNCHANGED <<config, opCount, executed>>
  BY <1>1 DEF setRoot
<1>6. [root |-> t.root, validUntil |-> t.validUntil] \in HashToSign
  BY <1>3 DEF HashToSign
<1>7. TypeOK'
  <2>1. root' \in [Chain -> Tree \cup {NoRoot}]
    BY <1>3, <1>5 DEF IInv, TypeOK
  <2>2. rootMetadata' \in [Chain -> MetadataLeaf]
    BY <1>3, <1>5 DEF IInv, TypeOK
  <2>3. seenHashes' \in [Chain -> SUBSET HashToSign]
    BY <1>5, <1>6 DEF IInv, TypeOK
  <2>4. rootValidUntil' \in [Chain -> Nat]
    BY <1>3, <1>5 DEF IInv, TypeOK
  <2>. QED BY <1>4, <1>5, <2>1, <2>2, <2>3, <2>4
           DEF IInv, TypeOK, MineSetRoot, Loaded, clientVars, boundVars
<1>8. /\ t.metadata \in t.root.metadata
      /\ t.metadata.chain = c
      /\ opCount[c] = t.metadata.preOpCount
  BY <1>1 DEF setRoot, setRootAccepted
<1>9. RanFromRoot'
  <2> SUFFICES ASSUME NEW d \in Chain
               PROVE  RanFromRoot!(d)'
    BY DEF RanFromRoot
  <2>1. CASE d # c
    BY <1>5, <2>1 DEF IInv, TypeOK, RanFromRoot, ClearedMetadata
  <2>2. CASE d = c
    <3>1. root'[d] = t.root /\ rootMetadata'[d] = t.metadata
      BY <1>5, <2>2 DEF IInv, TypeOK
    <3>2. t.root # NoRoot
      BY <1>3, ContractAssumption
    <3>3. opCount'[d] = t.metadata.preOpCount /\ t.metadata.preOpCount \in Nat
      BY <1>3, <1>5, <1>8, <2>2 DEF MetadataLeaf
    <3>4. t.metadata.preOpCount <= t.metadata.postOpCount
      BY <1>3 DEF MetadataLeaf
    <3>5. Len(executed'[d]) = opCount'[d]
      BY <1>5 DEF IInv, RanFromRoot
    <3>6. \A n \in t.metadata.preOpCount .. (t.metadata.preOpCount - 1) : FALSE
      BY <3>3
    <3>. QED BY <1>8, <2>2, <3>1, <3>2, <3>3, <3>4, <3>5, <3>6
  <2>. QED BY <2>1, <2>2
<1>. QED BY <1>4, <1>7, <1>9 DEF IInv

\* The contract executes an operation: the leaf of the current root whose nonce
\* is the op count.
LEMMA MineExecuteIInv ==
    ASSUME IInv, NEW c \in Chain, MineExecute(c)
    PROVE  IInv'
<1>1. PICK t \in mempool[c] : t.type = "execute" /\ execute(c, t) /\ Mined(c, t)
  BY DEF MineExecute
<1>2. t \in SubmittedTx
  BY DEF IInv, TypeOK
<1>3. t.op \in OpLeaf /\ t.proofOf \in Tree
  BY <1>1, <1>2 DEF SubmittedTx
<1>4. t.op.transaction \in Transaction
  BY <1>3 DEF OpLeaf
<1>5. mempool' \in [Chain -> SUBSET SubmittedTx] /\ CachesAreCurrent'
  BY <1>1, MinedFacts DEF MineExecute
<1>6. /\ opCount' = [opCount EXCEPT ![c] = @ + 1]
      /\ executed' = [executed EXCEPT ![c] = Append(@, t.op.transaction)]
      /\ UNCHANGED <<config, root, rootValidUntil, rootMetadata, seenHashes>>
  BY <1>1 DEF execute
<1>7. executed[c] \in Seq(Transaction) /\ opCount[c] \in Nat
  BY DEF IInv, TypeOK
<1>8. TypeOK'
  <2>1. Append(executed[c], t.op.transaction) \in Seq(Transaction)
    BY <1>4, <1>7
  <2>2. executed' \in [Chain -> Seq(Transaction)]
    BY <1>6, <2>1 DEF IInv, TypeOK
  <2>3. opCount' \in [Chain -> Nat]
    BY <1>6, <1>7 DEF IInv, TypeOK
  <2>. QED BY <1>5, <1>6, <2>2, <2>3
           DEF IInv, TypeOK, MineExecute, Loaded, clientVars, boundVars
<1>9. /\ opCount[c] < rootMetadata[c].postOpCount
      /\ t.op.chain = c
      /\ t.op.nonce = opCount[c]
      /\ t.proofOf = root[c]
      /\ t.op \in root[c].ops
  BY <1>1 DEF execute, executeAccepted
<1>10. RanFromRoot'
  <2> SUFFICES ASSUME NEW d \in Chain
               PROVE  RanFromRoot!(d)'
    BY DEF RanFromRoot
  <2>1. CASE d # c
    BY <1>6, <2>1 DEF IInv, TypeOK, RanFromRoot, ClearedMetadata
  <2>2. CASE d = c
    <3> DEFINE m == rootMetadata[c]
               N == opCount[c]
               R == root[c]
               E == executed[c]
               x == t.op.transaction
    <3>1. /\ rootMetadata'[d] = m /\ root'[d] = R
          /\ opCount'[d] = N + 1 /\ executed'[d] = Append(E, x)
      BY <1>6, <2>2 DEF IInv, TypeOK
    <3>2. /\ N \in Nat /\ E \in Seq(Transaction) /\ Len(E) = N
          /\ m.preOpCount \in Nat /\ m.postOpCount \in Nat
          /\ m.chain = c /\ m.preOpCount <= N /\ N < m.postOpCount
      BY <1>7, <1>9 DEF IInv, TypeOK, RanFromRoot, MetadataLeaf
    <3>3. R # NoRoot
      BY <1>3, <1>9, ContractAssumption
    <3>4. /\ m \in R.metadata
          /\ \A n \in m.preOpCount .. (N - 1) :
               \E leaf \in R.ops : leaf.chain = c /\ leaf.nonce = n /\ leaf.transaction = E[n + 1]
      BY <3>3 DEF IInv, RanFromRoot
    <3>5. t.op \in R.ops /\ t.op.chain = c /\ t.op.nonce = N
      BY <1>9
    <3>a. x \in Transaction
      BY <1>4
    <3> HIDE DEF m, N, R, E
    <3>6. Len(Append(E, x)) = N + 1 /\ Append(E, x)[N + 1] = x
      BY <3>2, <3>a
    <3>7. \A n \in 1..N : Append(E, x)[n] = E[n]
      BY <3>2, <3>a
    <3>8. ASSUME NEW n \in m.preOpCount .. ((N + 1) - 1)
          PROVE  \E leaf \in R.ops :
                   leaf.chain = c /\ leaf.nonce = n /\ leaf.transaction = Append(E, x)[n + 1]
      <4>1. CASE n = N
        BY <3>5, <3>6, <4>1
      <4>2. CASE n # N
        <5>1. n \in m.preOpCount .. (N - 1) /\ n + 1 \in 1..N
          BY <3>2, <4>2
        <5>2. Append(E, x)[n + 1] = E[n + 1]
          BY <3>7, <5>1
        <5>. QED BY <3>4, <5>1, <5>2
      <4>. QED BY <4>1, <4>2
    <3>9. m.preOpCount <= N + 1 /\ N + 1 <= m.postOpCount
      BY <3>2
    <3>. QED BY <2>2, <3>1, <3>2, <3>3, <3>4, <3>6, <3>8, <3>9
  <2>. QED BY <2>1, <2>2
<1>. QED BY <1>5, <1>8, <1>10 DEF IInv

\* The contract is reconfigured, and its root cleared or kept.
LEMMA MineSetConfigIInv ==
    ASSUME IInv, NEW c \in Chain, MineSetConfig(c)
    PROVE  IInv'
<1>1. PICK t \in mempool[c] : t.type = "setConfig" /\ setConfig(c, t) /\ Mined(c, t)
  BY DEF MineSetConfig
<1>2. t.config \in ChainConfig
  <2>1. t \in SubmittedTx
    BY DEF IInv, TypeOK
  <2>. QED BY <1>1, <2>1 DEF SubmittedTx
<1>3. mempool' \in [Chain -> SUBSET SubmittedTx] /\ CachesAreCurrent'
  BY <1>1, MinedFacts DEF MineSetConfig
<1>4. config' \in [Chain -> ChainConfig] /\ UNCHANGED <<opCount, seenHashes, executed>>
  BY <1>1, <1>2 DEF IInv, TypeOK, setConfig
<1>5. CASE t.clearRoot
  <2>1. /\ root' = [root EXCEPT ![c] = NoRoot]
        /\ rootValidUntil' = [rootValidUntil EXCEPT ![c] = 0]
        /\ rootMetadata' = [rootMetadata EXCEPT ![c] = ClearedMetadata(c, opCount[c])]
    BY <1>1, <1>5 DEF setConfig
  <2>2. ClearedMetadata(c, opCount[c]) \in MetadataLeaf
    BY DEF IInv, TypeOK, ClearedMetadata, MetadataLeaf
  <2>3. TypeOK'
    BY <1>3, <1>4, <2>1, <2>2
       DEF IInv, TypeOK, MineSetConfig, Loaded, clientVars, boundVars
  <2>4. RanFromRoot'
    <3> SUFFICES ASSUME NEW d \in Chain
                 PROVE  RanFromRoot!(d)'
      BY DEF RanFromRoot
    <3>1. CASE d # c
      BY <1>4, <2>1, <3>1 DEF IInv, TypeOK, RanFromRoot, ClearedMetadata
    <3>2. CASE d = c
      BY <1>4, <2>1, <3>2 DEF IInv, TypeOK, RanFromRoot, ClearedMetadata
    <3>. QED BY <3>1, <3>2
  <2>. QED BY <1>3, <2>3, <2>4 DEF IInv
<1>6. CASE ~t.clearRoot
  <2>1. UNCHANGED <<root, rootValidUntil, rootMetadata>>
    BY <1>1, <1>6 DEF setConfig
  <2>2. TypeOK'
    BY <1>3, <1>4, <2>1 DEF IInv, TypeOK, MineSetConfig, Loaded, clientVars, boundVars
  <2>3. RanFromRoot'
    BY <1>4, <2>1 DEF IInv, RanFromRoot, ClearedMetadata
  <2>. QED BY <1>3, <2>2, <2>3 DEF IInv
<1>. QED BY <1>5, <1>6

\* Transactions that revert or get lost change no contract.
LEMMA RevertOrLoseIInv ==
    ASSUME IInv, NEW c \in Chain, Revert(c) \/ Lose(c)
    PROVE  IInv'
<1>1. PICK t : Mined(c, t)
  BY DEF Revert, Lose
<1>2. UNCHANGED <<now, mcmVars, clientVars>> /\ restarts' \in Nat /\ lost' \in Nat
  BY DEF IInv, TypeOK, Revert, Lose, boundVars
<1>3. mempool' \in [Chain -> SUBSET SubmittedTx] /\ CachesAreCurrent'
  BY <1>1, <1>2, MinedFacts
<1>4. TypeOK'
  BY <1>2, <1>3 DEF IInv, TypeOK, Loaded, mcmVars, clientVars
<1>5. RanFromRoot'
  BY <1>2, RanFromRootUnchanged DEF IInv
<1>. QED BY <1>3, <1>4, <1>5 DEF IInv

\* Time passes.
LEMMA TickIInv ==
    ASSUME IInv, Tick
    PROVE  IInv'
<1>1. TypeOK'
  BY DEF IInv, TypeOK, Tick, Loaded, mcmVars, clientVars, boundVars
<1>2. CachesAreCurrent'
  BY DEF IInv, CachesAreCurrent, Tick, Executable, Loaded, clientVars
<1>3. RanFromRoot'
  BY RanFromRootUnchanged DEF IInv, Tick
<1>. QED BY <1>1, <1>2, <1>3 DEF IInv

\* So does a stuttering step.
LEMMA StutterIInv ==
    ASSUME IInv, UNCHANGED vars
    PROVE  IInv'
<1>1. TypeOK'
  BY DEF IInv, TypeOK, Loaded, vars, mcmVars, clientVars, boundVars
<1>2. CachesAreCurrent'
  BY DEF IInv, CachesAreCurrent, Executable, Loaded, vars, clientVars
<1>3. RanFromRoot'
  BY RanFromRootUnchanged DEF IInv, vars
<1>. QED BY <1>1, <1>2, <1>3 DEF IInv

-----------------------------------------------------------------------------
(* Theorems *)

\* Type correctness, current caches, and contract histories that follow their
\* roots, in every reachable state: SetRoot and Execute (executable.go), signing
\* (signable.go), newProposal (utils.go), restarts and lost transactions, in any
\* interleaving.
THEOREM ExecutionInvariant == Spec => []IInv
<1>1. IInv /\ [Next]_vars => IInv'
  <2> SUFFICES ASSUME IInv, [Next]_vars
               PROVE  IInv'
    OBVIOUS
  <2>1. ASSUME NEW p \in ProposalId, NewProposal(p) PROVE IInv'
    BY <2>1, NewProposalIInv
  <2>2. ASSUME NEW p \in ProposalId, WriteProposal(p) PROVE IInv'
    BY <2>2, WriteProposalIInv
  <2>3. ASSUME NEW p \in ProposalId, NEW s \in Signer, SignAndAppend(p, s) PROVE IInv'
    BY <2>3, SignAndAppendIInv
  <2>4. ASSUME NEW p \in ProposalId, EditValidUntil(p) PROVE IInv'
    BY <2>4, EditValidUntilIInv
  <2>5. ASSUME NEW p \in ProposalId, NewExecutable(p) PROVE IInv'
    BY <2>5, NewExecutableIInv
  <2>6. ASSUME NEW p \in ProposalId, NEW c \in Chain, SetRoot(p, c) PROVE IInv'
    BY <2>6, SetRootIInv
  <2>7. ASSUME NEW p \in ProposalId, NEW i \in DOMAIN InitFile[p].operations, Execute(p, i)
        PROVE IInv'
    BY <2>7, ExecuteIInv
  <2>8. ASSUME NEW c \in Chain, SetConfig(c) PROVE IInv'
    BY <2>8, SetConfigIInv
  <2>9. ASSUME NEW c \in Chain, MineSetRoot(c) PROVE IInv'
    BY <2>9, MineSetRootIInv
  <2>10. ASSUME NEW c \in Chain, MineExecute(c) PROVE IInv'
    BY <2>10, MineExecuteIInv
  <2>11. ASSUME NEW c \in Chain, MineSetConfig(c) PROVE IInv'
    BY <2>11, MineSetConfigIInv
  <2>12. ASSUME NEW c \in Chain, Revert(c) \/ Lose(c) PROVE IInv'
    BY <2>12, RevertOrLoseIInv
  <2>13. CASE Restart
    BY <2>13, RestartIInv
  <2>14. CASE Tick
    BY <2>14, TickIInv
  <2>15. CASE UNCHANGED vars
    BY <2>15, StutterIInv
  <2>. QED BY <2>1, <2>2, <2>3, <2>4, <2>5, <2>6, <2>7, <2>8, <2>9, <2>10, <2>11, <2>12,
              <2>13, <2>14, <2>15 DEF Next
<1>. QED BY <1>1, InitIInv, PTL DEF Spec

\* The root metadata of a chain is the one its root's proposal gives the chain.
LEMMA RootMetadataOfProposal ==
    ASSUME IInv, NEW c \in Chain, NEW P, IsProposal(P), root[c] = MerkleTree(P), HasTree(P)
    PROVE  /\ c \in DOMAIN P.chainMetadata
           /\ P.chainMetadata[c] \in Nat
           /\ rootMetadata[c].preOpCount = P.chainMetadata[c]
           /\ rootMetadata[c].postOpCount = P.chainMetadata[c] + Cardinality(OpIndices(P, c))
<1>1. PICK D \in SUBSET Chain : P \in ProposalFor(D)
  BY DEF IsProposal
<1>2. DOMAIN P.chainMetadata = D /\ \A d \in D : P.chainMetadata[d] \in Nat
  BY <1>1 DEF ProposalFor
<1>3. root[c] # NoRoot
  BY MerkleTreeType, ContractAssumption
<1>4. rootMetadata[c] \in root[c].metadata /\ rootMetadata[c].chain = c
  BY <1>3 DEF IInv, RanFromRoot
<1>5. PICK d \in D : rootMetadata[c] = HashMetadata(GetEncoders(P)[d], d, P.chainMetadata[d])
  BY <1>2, <1>4 DEF MerkleTree
<1>6. d = c
  BY <1>4, <1>5 DEF HashMetadata
<1>7. GetEncoders(P)[c].txCount = Cardinality(OpIndices(P, c))
  BY <1>2, <1>6 DEF GetEncoders, TransactionCounts
<1>. QED BY <1>2, <1>5, <1>6, <1>7 DEF HashMetadata

\* The inductive invariant implies that a chain has run its root's proposal in
\* order.
LEMMA InOrder ==
    ASSUME IInv, NEW p \in ProposalId, NEW c \in Chain,
           Loaded(p), HasTree(proposals[p]), root[c] = MerkleTree(proposals[p]),
           NEW i \in OpIndices(proposals[p], c),
           opCount[c] >= rootMetadata[c].preOpCount + LocalIndex(proposals[p], i) + 1
    PROVE  executed[c][rootMetadata[c].preOpCount + LocalIndex(proposals[p], i) + 1]
             = proposals[p].operations[i].transaction
<1> DEFINE P == proposals[p]
           pre == rootMetadata[c].preOpCount
           n == pre + LocalIndex(P, i)
<1>1. IsProposal(P)
  BY DEF IInv, TypeOK
<1>2. pre = P.chainMetadata[c] /\ pre \in Nat /\ opCount[c] \in Nat /\ root[c] # NoRoot
  BY <1>1, RootMetadataOfProposal, MerkleTreeType, ContractAssumption DEF IInv, TypeOK
<1>3. LocalIndex(P, i) \in Nat
  BY <1>1, LocalIndexBound
<1>4. n \in pre .. (opCount[c] - 1) /\ n + 1 = pre + LocalIndex(P, i) + 1
  BY <1>2, <1>3
<1>5. PICK leaf \in root[c].ops :
        leaf.chain = c /\ leaf.nonce = n /\ leaf.transaction = executed[c][n + 1]
  BY <1>2, <1>4 DEF IInv, RanFromRoot
<1>6. PICK j \in DOMAIN P.operations : leaf = HashOperation(TransactionNonces(P)[j], P.operations[j])
  BY DEF MerkleTree
<1>7. /\ P.operations[j].chainSelector = c
      /\ TransactionNonces(P)[j] = n
      /\ P.operations[j].transaction = executed[c][n + 1]
  BY <1>5, <1>6 DEF HashOperation
<1>8. j \in OpIndices(P, c)
  BY <1>7 DEF OpIndices
<1>9. LocalIndex(P, j) \in Nat
  BY <1>1, <1>8, LocalIndexBound
<1>10. TransactionNonces(P)[j] = LocalIndex(P, j) + P.chainMetadata[c]
  BY <1>7 DEF TransactionNonces
<1>11. LocalIndex(P, j) = LocalIndex(P, i)
  BY <1>2, <1>3, <1>7, <1>9, <1>10
<1>12. j = i
  BY <1>1, <1>8, <1>11, LocalIndexInjective
<1>. QED BY <1>4, <1>7, <1>12

\* Whatever the interleaving of clients, chains, losses and restarts, a chain has
\* executed its root's proposal in the proposal's order (Execute in executable.go
\* with the nonces of TransactionNonces).
THEOREM OperationsInOrder == Spec => []OpsRunInProposalOrder
<1>1. IInv => OpsRunInProposalOrder
  BY InOrder DEF OpsRunInProposalOrder, RootIsOf
<1>. QED BY <1>1, ExecutionInvariant, PTL

\* The post op count the encoder derives from TransactionCounts is reached
\* exactly when the last nonce of TransactionNonces has been executed: a root
\* neither ends early nor waits for an operation that does not exist.
THEOREM ExhaustedRoots == Spec => []ExhaustedRootRanEverything
<1>1. ASSUME IInv, NEW p \in ProposalId, NEW c \in Chain, RootIsOf(p, c)
      PROVE  opCount[c] = rootMetadata[c].postOpCount
               <=> \A i \in OpIndices(proposals[p], c) :
                     rootMetadata[c].preOpCount + LocalIndex(proposals[p], i) < opCount[c]
  <2> DEFINE P == proposals[p]
             pre == rootMetadata[c].preOpCount
             post == rootMetadata[c].postOpCount
             S == OpIndices(P, c)
  <2>1. IsProposal(P)
    BY <1>1 DEF IInv, TypeOK, RootIsOf
  <2>2. Cardinality(S) \in Nat
    BY <2>1, OpIndicesFinite
  <2>3. pre \in Nat /\ post = pre + Cardinality(S)
    <3>1. root[c] = MerkleTree(P) /\ HasTree(P)
      BY <1>1 DEF RootIsOf
    <3> HIDE DEF P
    <3>. QED BY <1>1, <2>1, <3>1, RootMetadataOfProposal
  <2>4. opCount[c] \in Nat /\ pre <= opCount[c] /\ opCount[c] <= post
    BY <1>1 DEF IInv, TypeOK, RanFromRoot
  <2>5. \A i \in S : LocalIndex(P, i) \in Nat /\ LocalIndex(P, i) < Cardinality(S)
    BY <2>1, LocalIndexBound
  <2>6. S # {} => \E i \in S : LocalIndex(P, i) = Cardinality(S) - 1
    <3>1. S # {} => Cardinality(S) # 0
      BY <2>1, OpIndicesFinite, FS_EmptySet
    <3>2. S # {} => Cardinality(S) - 1 \in Nat /\ Cardinality(S) - 1 < Cardinality(S)
      BY <2>2, <3>1
    <3>. QED BY <2>1, <3>2, LocalIndexOnto
  <2>7. S = {} => Cardinality(S) = 0
    BY FS_EmptySet
  <2> HIDE DEF P, pre, post, S
  <2>8. opCount[c] = post => \A i \in S : pre + LocalIndex(P, i) < opCount[c]
    BY <2>2, <2>3, <2>4, <2>5
  <2>9. (\A i \in S : pre + LocalIndex(P, i) < opCount[c]) => opCount[c] = post
    <3>1. CASE S = {}
      BY <2>3, <2>4, <2>7, <3>1
    <3>2. CASE S # {}
      <4>1. PICK i \in S : LocalIndex(P, i) = Cardinality(S) - 1
        BY <2>6, <3>2
      <4>2. pre + LocalIndex(P, i) < opCount[c] => opCount[c] = post
        BY <2>2, <2>3, <2>4, <4>1
      <4>. QED BY <4>2
    <3>. QED BY <3>1, <3>2
  <2>. QED BY <2>8, <2>9 DEF P, pre, post, S
<1>2. IInv => ExhaustedRootRanEverything
  BY <1>1 DEF ExhaustedRootRanEverything
<1>. QED BY <1>2, ExecutionInvariant, PTL

\* A root that is not exhausted and not expired is never stuck, whatever was lost,
\* repeated or restarted before: the executable built for its proposal has an
\* index whose leaf is in the cached tree, with the nonce the contract waits for,
\* and the contract accepts the transaction Execute submits for it.
THEOREM RootsAreNeverStuck == Spec => []AlwaysAnExecutableOp
<1>1. ASSUME IInv, NEW p \in ProposalId, NEW c \in Chain,
             Executable(p), executables[p].tree = root[c],
             opCount[c] < rootMetadata[c].postOpCount, now <= rootValidUntil[c]
      PROVE  \E i \in DOMAIN proposals[p].operations :
               /\ OperationLeaf(p, i) \in executables[p].tree.ops
               /\ executeAccepted(c, ExecuteTx(p, i))
  <2> DEFINE P == proposals[p]
             S == OpIndices(P, c)
             n == opCount[c] - P.chainMetadata[c]
  <2>1. IsProposal(P) /\ HasTree(P) /\ executables[p] = Caches(P)
    BY <1>1 DEF IInv, TypeOK, CachesAreCurrent
  <2>2. root[c] = MerkleTree(P) /\ executables[p].txNonces = TransactionNonces(P)
    BY <1>1, <2>1 DEF Caches
  <2>3. /\ P.chainMetadata[c] \in Nat
        /\ rootMetadata[c].preOpCount = P.chainMetadata[c]
        /\ rootMetadata[c].postOpCount = P.chainMetadata[c] + Cardinality(S)
    <3> HIDE DEF P
    <3>. QED BY <1>1, <2>1, <2>2, RootMetadataOfProposal
  <2>4. opCount[c] \in Nat /\ rootMetadata[c].preOpCount <= opCount[c] /\ Cardinality(S) \in Nat
    BY <1>1, <2>1, OpIndicesFinite DEF IInv, TypeOK, RanFromRoot
  <2>5. n \in Nat /\ n < Cardinality(S) /\ n + P.chainMetadata[c] = opCount[c]
    BY <1>1, <2>3, <2>4
  <2>6. PICK i \in S : LocalIndex(P, i) = n
    <3> HIDE DEF P, n
    <3>. QED BY <2>1, <2>5, LocalIndexOnto
  <2>7. i \in DOMAIN P.operations /\ P.operations[i].chainSelector = c
    BY DEF OpIndices
  <2>8. TransactionNonces(P)[i] = opCount[c]
    BY <2>5, <2>6, <2>7 DEF TransactionNonces
  <2>9. /\ OperationLeaf(p, i) = HashOperation(TransactionNonces(P)[i], P.operations[i])
        /\ OperationLeaf(p, i).chain = c
        /\ OperationLeaf(p, i).nonce = opCount[c]
    BY <2>2, <2>7, <2>8 DEF OperationLeaf, HashOperation
  <2>10. OperationLeaf(p, i) \in root[c].ops
    BY <2>2, <2>7, <2>9 DEF MerkleTree
  <2>11. executeAccepted(c, ExecuteTx(p, i))
    BY <1>1, <2>9, <2>10 DEF executeAccepted, ExecuteTx
  <2>. QED BY <1>1, <2>7, <2>10, <2>11
<1>2. IInv => AlwaysAnExecutableOp
  BY <1>1 DEF AlwaysAnExecutableOp
<1>. QED BY <1>2, ExecutionInvariant, PTL

-----------------------------------------------------------------------------
(* The implementation of OrderedExecution: on every chain the contract, driven *)
(* by SetRoot and Execute, works through the operations of one proposal at a   *)
(* time, in the proposal's order, each once.  Every root set is the tree of    *)
(* some proposal of InitFile with other starting op counts, so what is left of *)
(* a root is a suffix of that proposal's list.                                 *)

-----------------------------------------------------------------------------
(* Sequences *)

\* A sequence is the function of its positions.
LEMMA SequenceAsFunction ==
    ASSUME NEW S, NEW s \in Seq(S)
    PROVE  s = [k \in 1..Len(s) |-> s[k]]
OBVIOUS

\* So is the tail of a sequence, with its positions shifted.
LEMMA TailAsFunction ==
    ASSUME NEW S, NEW s \in Seq(S), s # <<>>
    PROVE  Tail(s) = [k \in 1..(Len(s) - 1) |-> s[k + 1]]
<1>1. /\ Tail(s) \in Seq(S)
      /\ Len(Tail(s)) = Len(s) - 1
      /\ \A i \in 1..Len(Tail(s)) : Tail(s)[i] = s[i + 1]
  BY HeadTailProperties
<1>2. Tail(s) = [k \in 1..Len(Tail(s)) |-> Tail(s)[k]]
  BY <1>1, SequenceAsFunction
<1>. QED BY <1>1, <1>2

-----------------------------------------------------------------------------
(* The list of a chain's transactions *)

\* The operation with local index k - 1 on a chain is the k-th of the chain's
\* list: LocalIndex numbers a chain's operations in the proposal's order.
LEMMA ChainTransactionsAt ==
    ASSUME NEW p, IsProposal(p), NEW c
    PROVE  /\ ChainTransactions(p, c) \in Seq(Transaction)
           /\ Len(ChainTransactions(p, c)) = Cardinality(OpIndices(p, c))
           /\ \A i \in OpIndices(p, c) :
                ChainTransactions(p, c)[LocalIndex(p, i) + 1] = p.operations[i].transaction
<1> DEFINE S == OpIndices(p, c)
           n == Cardinality(S)
           order == Ascending(S)
<1>1. n \in Nat /\ S \subseteq Nat /\ IsFiniteSet(S)
  BY OpIndicesFinite, LocalIndexIsRank
<1>2. /\ order \in [1..n -> S]
      /\ \A i \in S : LocalIndex(p, i) + 1 \in 1..n /\ order[LocalIndex(p, i) + 1] = i
  BY <1>1, AscendingByRank, LocalIndexIsRank
<1>3. ChainTransactions(p, c) = [k \in 1..n |-> p.operations[order[k]].transaction]
  BY <1>2 DEF ChainTransactions
<1> HIDE DEF order
<1>4. \A k \in 1..n : p.operations[order[k]].transaction \in Transaction
  <2>1. p.operations \in Seq(Operation)
    BY DEF IsProposal, ProposalFor
  <2>2. \A i \in S : p.operations[i] \in Operation
    BY <2>1 DEF OpIndices
  <2>. QED BY <1>2, <2>2 DEF Operation
<1>5. ChainTransactions(p, c) \in Seq(Transaction) /\ Len(ChainTransactions(p, c)) = n
  <2> HIDE DEF n
  <2>. QED BY <1>1, <1>3, <1>4
<1>. QED BY <1>2, <1>3, <1>5

-----------------------------------------------------------------------------
(* Where roots come from *)

\* t is the tree of a proposal with the operations of one of the files.
IsRootTree(t) ==
    \E P : /\ IsProposal(P) /\ HasTree(P) /\ t = MerkleTree(P)
           /\ \E q \in ProposalId : P.operations = InitFile[q].operations

\* No step changes the operations of a proposal, so every root submitted or set
\* is the tree of some file's operations.
Origin ==
    /\ \A p \in ProposalId :
         /\ file[p].operations = InitFile[p].operations
         /\ Loaded(p) => proposals[p].operations = InitFile[p].operations
    /\ \A c \in Chain :
         /\ \A t \in mempool[c] : t.type = "setRoot" => IsRootTree(t.root)
         /\ root[c] # NoRoot => IsRootTree(root[c])

\* Loading a proposal keeps its operations (newProposal).
LEMMA QueuedOperations ==
    ASSUME NEW p, IsProposal(p), NEW preds
    PROVE  Queued(p, preds).operations = p.operations
<1>1. PICK D \in SUBSET Chain : p \in ProposalFor(D)
  BY DEF IsProposal
<1>. QED BY <1>1 DEF Queued, ProposalFor

\* Operations stay where they are, whatever is loaded, written, signed, edited or
\* forgotten.
LEMMA OriginClient ==
    ASSUME IInv, Origin, NEW p \in ProposalId,
           NewProposal(p) \/ WriteProposal(p) \/ (\E s \in Signer : SignAndAppend(p, s))
             \/ EditValidUntil(p) \/ NewExecutable(p)
    PROVE  Origin'
<1>1. IsProposal(file[p]) /\ (Loaded(p) => IsProposal(proposals[p]))
  BY DEF IInv, TypeOK
<1>2. DOMAIN proposals = ProposalId /\ DOMAIN file = ProposalId
  BY DEF IInv, TypeOK
<1>3. UNCHANGED <<root, mempool>>
  BY DEF NewProposal, WriteProposal, SignAndAppend, EditValidUntil, NewExecutable, mcmVars
<1>4. CASE NewProposal(p)
  <2>1. Queued(file[p], PredecessorFiles(p)).operations = InitFile[p].operations
    BY <1>1, QueuedOperations DEF Origin
  <2>2. proposals' = [proposals EXCEPT ![p] = Queued(file[p], PredecessorFiles(p))] /\ file' = file
    BY <1>4 DEF NewProposal
  <2>. QED BY <1>2, <1>3, <2>1, <2>2 DEF Origin, Loaded
<1>5. CASE WriteProposal(p)
  BY <1>2, <1>3, <1>5 DEF Origin, Loaded, WriteProposal
<1>6. CASE \E s \in Signer : SignAndAppend(p, s)
  <2>1. Loaded(p) /\ file' = file
    BY <1>6 DEF SignAndAppend
  <2>2. PICK sigs : proposals' = [proposals EXCEPT ![p].signatures = sigs]
    BY <1>6 DEF SignAndAppend
  <2>3. [proposals[p] EXCEPT !.signatures = sigs].operations = proposals[p].operations
    BY <1>1, <2>1 DEF IsProposal, ProposalFor
  <2>4. \A q \in ProposalId : /\ q # p => proposals'[q] = proposals[q]
                              /\ proposals'[p] = [proposals[p] EXCEPT !.signatures = sigs]
    BY <1>2, <2>2
  <2>. QED BY <1>3, <2>1, <2>3, <2>4 DEF Origin, Loaded
<1>7. CASE EditValidUntil(p)
  <2>1. Loaded(p) /\ file' = file
    BY <1>7 DEF EditValidUntil
  <2>2. PICK u : proposals' = [proposals EXCEPT ![p].validUntil = u]
    BY <1>7 DEF EditValidUntil
  <2>3. [proposals[p] EXCEPT !.validUntil = u].operations = proposals[p].operations
    BY <1>1, <2>1 DEF IsProposal, ProposalFor
  <2>4. \A q \in ProposalId : /\ q # p => proposals'[q] = proposals[q]
                              /\ proposals'[p] = [proposals[p] EXCEPT !.validUntil = u]
    BY <1>2, <2>2
  <2>. QED BY <1>3, <2>1, <2>3, <2>4 DEF Origin, Loaded
<1>8. CASE NewExecutable(p)
  BY <1>3, <1>8 DEF Origin, Loaded, NewExecutable
<1>. QED BY <1>4, <1>5, <1>6, <1>7, <1>8

\* The root SetRoot submits is the tree of the loaded proposal.
LEMMA OriginSetRoot ==
    ASSUME IInv, Origin, NEW p \in ProposalId, NEW c \in Chain, SetRoot(p, c)
    PROVE  Origin'
<1>1. PICK t \in SetRootTxs(p, c) : Submit(c, t)
  BY DEF SetRoot
<1>2. t.root = executables[p].tree
  BY DEF SetRootTxs
<1>3. /\ Loaded(p) /\ HasTree(proposals[p]) /\ IsProposal(proposals[p])
      /\ executables[p].tree = MerkleTree(proposals[p])
  BY DEF SetRoot, IInv, TypeOK, CachesAreCurrent, Caches
<1>4. IsRootTree(t.root)
  BY <1>2, <1>3 DEF IsRootTree, Origin
<1>5. \A d \in Chain : \A u \in mempool'[d] : u \in mempool[d] \/ u = t
  BY <1>1 DEF Submit, IInv, TypeOK
<1>6. UNCHANGED <<file, proposals, root>>
  BY DEF SetRoot, mcmVars, clientVars
<1>. QED BY <1>4, <1>5, <1>6 DEF Origin, Loaded

\* The other steps submit no root and set only roots that were submitted.
LEMMA OriginOther ==
    ASSUME IInv, Origin,
           \/ \E p \in ProposalId : \E i \in DOMAIN InitFile[p].operations : Execute(p, i)
           \/ \E c \in Chain : SetConfig(c) \/ MineSetRoot(c) \/ MineExecute(c)
                               \/ MineSetConfig(c) \/ Revert(c) \/ Lose(c)
           \/ Restart \/ Tick \/ UNCHANGED vars
    PROVE  Origin'
<1>1. UNCHANGED file /\ (UNCHANGED proposals \/ \A p \in ProposalId : ~Loaded(p)')
  BY DEF Execute, SetConfig, MineSetRoot, MineExecute, MineSetConfig, Revert, Lose, Restart,
         Tick, vars, clientVars, Loaded
<1>2. \A p \in ProposalId : /\ file'[p].operations = InitFile[p].operations
                            /\ Loaded(p)' => proposals'[p].operations = InitFile[p].operations
  BY <1>1 DEF Origin, Loaded
<1>3. mempool \in [Chain -> SUBSET SubmittedTx] /\ root \in [Chain -> Tree \cup {NoRoot}]
  BY DEF IInv, TypeOK
<1>4. \A c \in Chain : \A t \in mempool'[c] : t.type = "setRoot" => t \in mempool[c]
  BY <1>3 DEF Execute, ExecuteTx, Submit, SetConfig, MineSetRoot, MineExecute, MineSetConfig,
         Revert, Lose, Mined, Restart, Tick, vars
<1>5. \A c \in Chain : \/ root'[c] = root[c]
                       \/ root'[c] = NoRoot
                       \/ \E t \in mempool[c] : t.type = "setRoot" /\ root'[c] = t.root
  BY <1>3 DEF Execute, SetConfig, MineSetRoot, setRoot, MineExecute, execute, MineSetConfig,
         setConfig, Revert, Lose, Restart, Tick, vars, mcmVars
<1>6. \A c \in Chain : /\ \A t \in mempool'[c] : t.type = "setRoot" => IsRootTree(t.root)
                       /\ root'[c] # NoRoot => IsRootTree(root'[c])
  BY <1>4, <1>5 DEF Origin
<1>. QED BY <1>2, <1>6 DEF Origin

\* Every root in force, or waiting to be, is the tree of the operations of one of
\* the proposals, unchanged: no client step reaches the operations of a loaded one,
\* no file is written with others.
THEOREM RootsHaveOrigin == Spec => []Origin
<1>1. Init => Origin
  BY DEF Init, MCMInit, Origin, Loaded
<1>2. IInv /\ Origin /\ [Next]_vars => Origin'
  BY OriginClient, OriginSetRoot, OriginOther DEF Next
<1>. QED BY <1>1, <1>2, ExecutionInvariant, PTL DEF Spec

-----------------------------------------------------------------------------
(* What is left of a root *)

\* The metadata leaf of a chain in a proposal's tree.
LEMMA MetadataLeafOf ==
    ASSUME NEW P, IsProposal(P), HasTree(P), NEW c,
           NEW m \in MerkleTree(P).metadata, m.chain = c
    PROVE  /\ P.chainMetadata[c] \in Nat
           /\ m.preOpCount = P.chainMetadata[c]
           /\ m.postOpCount = P.chainMetadata[c] + Cardinality(OpIndices(P, c))
<1>1. PICK D \in SUBSET Chain : P \in ProposalFor(D)
  BY DEF IsProposal
<1>2. DOMAIN P.chainMetadata = D /\ \A d \in D : P.chainMetadata[d] \in Nat
  BY <1>1 DEF ProposalFor
<1>3. PICK d \in D : m = HashMetadata(GetEncoders(P)[d], d, P.chainMetadata[d])
  BY <1>2 DEF MerkleTree
<1>4. d = c
  BY <1>3 DEF HashMetadata
<1>5. GetEncoders(P)[c].txCount = Cardinality(OpIndices(P, c))
  BY <1>2, <1>4 DEF GetEncoders, TransactionCounts
<1>. QED BY <1>2, <1>3, <1>4, <1>5 DEF HashMetadata

\* An operation leaf of a chain is the operation of the chain's list that its
\* nonce, counted from the starting op count, points at.
LEMMA LeafTransaction ==
    ASSUME NEW P, IsProposal(P), HasTree(P), NEW c, P.chainMetadata[c] \in Nat,
           NEW leaf \in MerkleTree(P).ops, leaf.chain = c
    PROVE  leaf.transaction = ChainTransactions(P, c)[leaf.nonce - P.chainMetadata[c] + 1]
<1>1. PICK i \in DOMAIN P.operations : leaf = HashOperation(TransactionNonces(P)[i], P.operations[i])
  BY DEF MerkleTree
<1>2. P.operations[i].chainSelector = c /\ i \in OpIndices(P, c)
  BY <1>1 DEF HashOperation, OpIndices
<1>3. leaf.nonce = LocalIndex(P, i) + P.chainMetadata[c]
  BY <1>1, <1>2 DEF HashOperation, TransactionNonces
<1>4. LocalIndex(P, i) \in Nat
  BY <1>2, LocalIndexBound
<1>5. leaf.nonce - P.chainMetadata[c] + 1 = LocalIndex(P, i) + 1
  BY <1>3, <1>4
<1>6. ChainTransactions(P, c)[LocalIndex(P, i) + 1] = P.operations[i].transaction
  BY <1>2, ChainTransactionsAt
<1>. QED BY <1>1, <1>5, <1>6 DEF HashOperation

\* The leaves of a tree from nonce N on are the rest of the chain's list.
LEMMA LeavesFrom ==
    ASSUME NEW P, IsProposal(P), HasTree(P), NEW c, P.chainMetadata[c] \in Nat,
           NEW N \in Nat, P.chainMetadata[c] <= N
    PROVE  LeavesBetween(MerkleTree(P), c, N, P.chainMetadata[c] + Cardinality(OpIndices(P, c)))
             = [k \in 1..((P.chainMetadata[c] + Cardinality(OpIndices(P, c))) - N) |->
                  ChainTransactions(P, c)[N - P.chainMetadata[c] + k]]
<1> DEFINE start == P.chainMetadata[c]
           count == Cardinality(OpIndices(P, c))
           leaf(k) == LeafAt(MerkleTree(P), c, N + k - 1)
<1>1. count \in Nat
  BY OpIndicesFinite
<1>2. ASSUME NEW k \in 1..((start + count) - N)
      PROVE  leaf(k).transaction = ChainTransactions(P, c)[N - start + k]
  <2> DEFINE n == N - start + k - 1
  <2>1. n \in Nat /\ n < count /\ n + start = N + k - 1
    BY <1>1
  <2>2. PICK i \in OpIndices(P, c) : LocalIndex(P, i) = n
    <3> HIDE DEF n
    <3>. QED BY <2>1, LocalIndexOnto
  <2>3. i \in DOMAIN P.operations /\ P.operations[i].chainSelector = c
    BY DEF OpIndices
  <2>4. TransactionNonces(P)[i] = N + k - 1
    BY <2>1, <2>2, <2>3 DEF TransactionNonces
  <2>5. \E x \in MerkleTree(P).ops : x.chain = c /\ x.nonce = N + k - 1
    <3>1. HashOperation(TransactionNonces(P)[i], P.operations[i]) \in MerkleTree(P).ops
      BY <2>3 DEF MerkleTree
    <3>. QED BY <2>3, <2>4, <3>1 DEF HashOperation
  <2>6. leaf(k) \in MerkleTree(P).ops /\ leaf(k).chain = c /\ leaf(k).nonce = N + k - 1
    BY <2>5 DEF LeafAt
  <2> HIDE DEF leaf
  <2>7. leaf(k).transaction = ChainTransactions(P, c)[leaf(k).nonce - start + 1]
    BY <2>6, LeafTransaction
  <2>8. leaf(k).nonce - start + 1 = N - start + k
    BY <2>6
  <2>. QED BY <2>7, <2>8
<1> DEFINE end == start + count
           list == ChainTransactions(P, c)
<1>3. ASSUME NEW k \in 1..(end - N)
      PROVE  LeafAt(MerkleTree(P), c, N + k - 1).transaction = list[N - start + k]
  BY <1>2
<1> HIDE DEF start, end, list
<1>4. LeavesBetween(MerkleTree(P), c, N, end) = [k \in 1..(end - N) |-> list[N - start + k]]
  BY <1>3 DEF LeavesBetween
<1>. QED BY <1>4 DEF start, end, list

\* Proposals with the same operations have the same list for a chain.
LEMMA SameList ==
    ASSUME NEW P, NEW Q, P.operations = Q.operations, NEW c
    PROVE  ChainTransactions(P, c) = ChainTransactions(Q, c)
<1>1. OpIndices(P, c) = OpIndices(Q, c)
  BY DEF OpIndices
<1>. QED BY <1>1 DEF ChainTransactions

-----------------------------------------------------------------------------
(* Steps map to steps *)

\* A chain whose root, root metadata and op count stay has the same left to do.
LEMMA OutstandingUnchanged ==
    ASSUME NEW c, root'[c] = root[c], rootMetadata'[c] = rootMetadata[c], opCount'[c] = opCount[c]
    PROVE  Outstanding(c)' = Outstanding(c)
BY DEF Outstanding

\* Accepting a root queues the operations of its proposal.
LEMMA SetRootApproves ==
    ASSUME IInv, Origin, NEW c \in Chain, MineSetRoot(c)
    PROVE  Ordered!Next
<1>1. PICK t \in mempool[c] : t.type = "setRoot" /\ setRoot(c, t)
  BY DEF MineSetRoot
<1>2. PICK P : /\ IsProposal(P) /\ HasTree(P) /\ t.root = MerkleTree(P)
               /\ \E q \in ProposalId : P.operations = InitFile[q].operations
  BY <1>1 DEF Origin, IsRootTree
<1>3. PICK q \in ProposalId : P.operations = InitFile[q].operations
  BY <1>2
<1>4. /\ t.metadata \in MerkleTree(P).metadata /\ t.metadata.chain = c
      /\ opCount[c] = t.metadata.preOpCount
      /\ root' = [root EXCEPT ![c] = MerkleTree(P)]
      /\ rootMetadata' = [rootMetadata EXCEPT ![c] = t.metadata]
      /\ opCount' = opCount /\ executed' = executed
  BY <1>1, <1>2 DEF setRoot, setRootAccepted
<1> DEFINE start == P.chainMetadata[c]
           n == Cardinality(OpIndices(P, c))
           list == ChainTransactions(P, c)
<1>5. start \in Nat /\ t.metadata.preOpCount = start /\ t.metadata.postOpCount = start + n
  BY <1>2, <1>4, MetadataLeafOf
<1>6. n \in Nat
  BY <1>2, OpIndicesFinite
<1>7. list \in Seq(Transaction) /\ Len(list) = n
  BY <1>2, ChainTransactionsAt
<1>8. Outstanding(c)' = list
  <2>1. root'[c] = MerkleTree(P) /\ rootMetadata'[c].postOpCount = start + n /\ opCount'[c] = start
    BY <1>4, <1>5 DEF IInv, TypeOK
  <2>2. Outstanding(c)' = LeavesBetween(MerkleTree(P), c, start, start + n)
    BY <2>1 DEF Outstanding
  <2>3. LeavesBetween(MerkleTree(P), c, start, start + n)
          = [k \in 1..((start + n) - start) |-> list[start - start + k]]
    BY <1>2, <1>5, LeavesFrom
  <2> HIDE DEF start, n, list
  <2>4. [k \in 1..((start + n) - start) |-> list[start - start + k]] = [k \in 1..n |-> list[k]]
    BY <1>5, <1>6
  <2>5. list = [k \in 1..n |-> list[k]]
    BY <1>7, SequenceAsFunction
  <2>. QED BY <2>2, <2>3, <2>4, <2>5
<1>9. list \in ListsOf(c)
  BY <1>3, SameList DEF ListsOf
<1>10. \A d \in Chain : d # c => Outstanding(d)' = Outstanding(d)
  BY <1>4, OutstandingUnchanged DEF IInv, TypeOK
<1> HIDE DEF list
<1>11. [d \in Chain |-> Outstanding(d)]' = [[d \in Chain |-> Outstanding(d)] EXCEPT ![c] = list]
  BY <1>8, <1>10
<1>. QED BY <1>4, <1>9, <1>11 DEF Ordered!Next, Ordered!Approve

\* Executing an operation takes it from the front of what is left.
LEMMA ExecuteTakesTheFirst ==
    ASSUME IInv, Origin, NEW c \in Chain, MineExecute(c)
    PROVE  Ordered!Next
<1>1. PICK t \in mempool[c] : t.type = "execute" /\ execute(c, t)
  BY DEF MineExecute
<1>2. t \in SubmittedTx
  BY DEF IInv, TypeOK
<1>3. t.proofOf \in Tree
  BY <1>1, <1>2 DEF SubmittedTx
<1>4. /\ t.op.chain = c /\ t.op.nonce = opCount[c] /\ t.op \in root[c].ops
      /\ root[c] # NoRoot /\ opCount[c] < rootMetadata[c].postOpCount
  BY <1>1, <1>3, ContractAssumption DEF execute, executeAccepted
<1>5. /\ opCount' = [opCount EXCEPT ![c] = @ + 1]
      /\ executed' = [executed EXCEPT ![c] = Append(@, t.op.transaction)]
      /\ root' = root /\ rootMetadata' = rootMetadata
  BY <1>1 DEF execute
<1>6. PICK P : IsProposal(P) /\ HasTree(P) /\ root[c] = MerkleTree(P)
  BY <1>4 DEF Origin, IsRootTree
<1> DEFINE start == P.chainMetadata[c]
           n == Cardinality(OpIndices(P, c))
           list == ChainTransactions(P, c)
           N == opCount[c]
           rest == [k \in 1..((start + n) - N) |-> list[N - start + k]]
<1>7. /\ start \in Nat
      /\ rootMetadata[c].preOpCount = start /\ rootMetadata[c].postOpCount = start + n
  BY <1>6, RootMetadataOfProposal
<1>8. n \in Nat /\ N \in Nat /\ start <= N /\ N < start + n
  BY <1>4, <1>6, <1>7, OpIndicesFinite DEF IInv, TypeOK, RanFromRoot
<1>9. list \in Seq(Transaction) /\ Len(list) = n
  BY <1>6, ChainTransactionsAt
<1>10. Outstanding(c) = rest
  BY <1>6, <1>7, <1>8, LeavesFrom DEF Outstanding
<1>11. Outstanding(c)' = [k \in 1..((start + n) - (N + 1)) |-> list[(N + 1) - start + k]]
  <2>1. opCount'[c] = N + 1 /\ root'[c] = MerkleTree(P) /\ rootMetadata'[c].postOpCount = start + n
    BY <1>5, <1>6, <1>7 DEF IInv, TypeOK
  <2>2. Outstanding(c)' = LeavesBetween(MerkleTree(P), c, N + 1, start + n)
    BY <2>1 DEF Outstanding
  <2>3. N + 1 \in Nat /\ start <= N + 1
    BY <1>7, <1>8
  <2>. QED BY <1>6, <1>7, <2>2, <2>3, LeavesFrom
<1>12. t.op.transaction = list[N - start + 1]
  BY <1>4, <1>6, <1>7, LeafTransaction
<1> HIDE DEF start, n, list, N
<1>13. rest \in Seq(Transaction) /\ Len(rest) = (start + n) - N /\ Len(rest) >= 1
  <2>1. \A k \in 1..((start + n) - N) : N - start + k \in 1..n
    BY <1>7, <1>8
  <2>2. \A k \in 1..((start + n) - N) : list[N - start + k] \in Transaction
    BY <1>9, <2>1
  <2>3. (start + n) - N \in Nat /\ (start + n) - N >= 1
    BY <1>7, <1>8
  <2>. QED BY <2>2, <2>3
<1>14. rest # <<>> /\ Head(rest) = t.op.transaction
  <2>1. rest[1] = list[N - start + 1]
    BY <1>7, <1>8
  <2> HIDE DEF rest
  <2>2. rest # <<>> /\ Head(rest) = rest[1]
    BY <1>13
  <2>. QED BY <1>12, <2>1, <2>2
<1>15. Tail(rest) = Outstanding(c)'
  <2>1. Tail(rest) = [k \in 1..((start + n) - N - 1) |-> rest[k + 1]]
    <3> HIDE DEF rest
    <3>1. Tail(rest) = [k \in 1..(Len(rest) - 1) |-> rest[k + 1]]
      BY <1>13, <1>14, TailAsFunction
    <3>. QED BY <1>13, <3>1
  <2>2. \A k \in 1..((start + n) - N - 1) : rest[k + 1] = list[(N + 1) - start + k]
    <3> SUFFICES ASSUME NEW k \in 1..((start + n) - N - 1)
                 PROVE  rest[k + 1] = list[(N + 1) - start + k]
      OBVIOUS
    <3>1. k + 1 \in 1..((start + n) - N) /\ N - start + (k + 1) = (N + 1) - start + k
      BY <1>7, <1>8
    <3>. QED BY <3>1
  <2>3. (start + n) - N - 1 = (start + n) - (N + 1)
    BY <1>7, <1>8
  <2> HIDE DEF rest
  <2>. QED BY <1>11, <2>1, <2>2, <2>3
<1> HIDE DEF rest
<1>16. \A d \in Chain : d # c => Outstanding(d)' = Outstanding(d)
  BY <1>5, OutstandingUnchanged DEF IInv, TypeOK
<1> DEFINE queue == [d \in Chain |-> Outstanding(d)]
<1>17. queue' = [queue EXCEPT ![c] = Tail(@)]
  BY <1>10, <1>15, <1>16
<1>18. queue[c] # <<>> /\ executed' = [executed EXCEPT ![c] = Append(@, Head(queue[c]))]
  BY <1>5, <1>10, <1>14
<1>. QED BY <1>17, <1>18 DEF Ordered!Next, Ordered!ExecuteNext

\* A chain whose root was cleared has nothing left.
LEMMA NothingOutstanding ==
    ASSUME NEW N \in Nat, NEW c, NEW R
    PROVE  LeavesBetween(R, c, N, ClearedMetadata(c, N).postOpCount) = <<>>
<1>1. ClearedMetadata(c, N).postOpCount - N = 0
  BY DEF ClearedMetadata
<1>. QED BY <1>1 DEF LeavesBetween

\* Reconfiguring a contract discards what is left, or leaves it.
LEMMA SetConfigDiscards ==
    ASSUME IInv, NEW c \in Chain, MineSetConfig(c)
    PROVE  [Ordered!Next]_(Ordered!vars)
<1>1. PICK t \in mempool[c] : setConfig(c, t)
  BY DEF MineSetConfig
<1>2. opCount' = opCount /\ executed' = executed
  BY <1>1 DEF setConfig
<1>3. CASE t.clearRoot
  <2>1. /\ root' = [root EXCEPT ![c] = NoRoot]
        /\ rootMetadata' = [rootMetadata EXCEPT ![c] = ClearedMetadata(c, opCount[c])]
    BY <1>1, <1>3 DEF setConfig
  <2>2. opCount[c] \in Nat /\ rootMetadata'[c] = ClearedMetadata(c, opCount[c])
    BY <2>1 DEF IInv, TypeOK
  <2>3. Outstanding(c)' = <<>>
    BY <1>2, <2>2, NothingOutstanding DEF Outstanding
  <2>4. \A d \in Chain : d # c => Outstanding(d)' = Outstanding(d)
    BY <1>2, <2>1, OutstandingUnchanged DEF IInv, TypeOK
  <2>5. [d \in Chain |-> Outstanding(d)]' = [[d \in Chain |-> Outstanding(d)] EXCEPT ![c] = <<>>]
    BY <2>3, <2>4
  <2>. QED BY <1>2, <2>5 DEF Ordered!Next, Ordered!Discard
<1>4. CASE ~t.clearRoot
  <2>1. UNCHANGED <<root, rootMetadata>>
    BY <1>1, <1>4 DEF setConfig
  <2>2. \A d \in Chain : Outstanding(d)' = Outstanding(d)
    BY <1>2, <2>1, OutstandingUnchanged
  <2>. QED BY <1>2, <2>2 DEF Ordered!vars
<1>. QED BY <1>3, <1>4

\* Steps that leave the contracts alone are invisible.
LEMMA OtherStepsStutter ==
    ASSUME UNCHANGED mcmVars
    PROVE  UNCHANGED Ordered!vars
<1>1. \A d \in Chain : Outstanding(d)' = Outstanding(d)
  BY OutstandingUnchanged DEF mcmVars
<1>. QED BY <1>1 DEF Ordered!vars, mcmVars

\* Every chain works through the operations of one proposal at a time, in the
\* proposal's order, each once, whatever clients submit, lose, repeat or forget:
\* SetRoot and Execute (executable.go) with the nonces of TransactionNonces
\* implement the abstract queue.
THEOREM ExecutionIsOrdered == Spec => ImplementsOrderedExecution
<1>1. Init => Ordered!Init
  <2> SUFFICES ASSUME Init PROVE Ordered!Init
    OBVIOUS
  <2>1. \A c \in Chain : rootMetadata[c] = ClearedMetadata(c, 0) /\ opCount[c] = 0
    BY DEF Init, MCMInit
  <2>2. \A c \in Chain : Outstanding(c) = <<>>
    BY <2>1, NothingOutstanding DEF Outstanding
  <2>. QED BY <2>2 DEF Ordered!Init, Init, MCMInit
<1>2. IInv /\ Origin /\ [Next]_vars => [Ordered!Next]_(Ordered!vars)
  <2> SUFFICES ASSUME IInv, Origin, [Next]_vars PROVE [Ordered!Next]_(Ordered!vars)
    OBVIOUS
  <2>1. ASSUME NEW c \in Chain, MineSetRoot(c) PROVE Ordered!Next
    BY <2>1, SetRootApproves
  <2>2. ASSUME NEW c \in Chain, MineExecute(c) PROVE Ordered!Next
    BY <2>2, ExecuteTakesTheFirst
  <2>3. ASSUME NEW c \in Chain, MineSetConfig(c) PROVE [Ordered!Next]_(Ordered!vars)
    BY <2>3, SetConfigDiscards
  <2>4. ASSUME ~\E c \in Chain : MineSetRoot(c) \/ MineExecute(c) \/ MineSetConfig(c)
        PROVE  UNCHANGED mcmVars
    BY <2>4 DEF Next, vars, NewProposal, WriteProposal, SignAndAppend, EditValidUntil,
                NewExecutable, SetRoot, Execute, SetConfig, Revert, Lose, Restart, Tick
  <2>5. ASSUME ~\E c \in Chain : MineSetRoot(c) \/ MineExecute(c) \/ MineSetConfig(c)
        PROVE  UNCHANGED Ordered!vars
    BY <2>4, <2>5, OtherStepsStutter
  <2>. QED BY <2>1, <2>2, <2>3, <2>5
<1>. QED BY <1>1, <1>2, ExecutionInvariant, RootsHaveOrigin, PTL
         DEF Spec, ImplementsOrderedExecution, Ordered!Spec

-----------------------------------------------------------------------------
(* A queue of proposals fits: loading each one behind all those before it      *)
(* (WithPredecessors) gives it the op count its chains have when its turn      *)
(* comes, whichever of the files had been rewritten with the op counts of an   *)
(* earlier load.                                                               *)

\* Proposals are queued in one order: the k-th predecessor of a proposal is itself
\* queued behind the k - 1 before it.  Where it is queued behind fewer, or behind
\* others, the starting op count computed from its file may be another.
QueuedInOrder ==
    \A p \in ProposalId : \A k \in DOMAIN Predecessors[p] :
        LET q == Predecessors[p][k] IN
        /\ DOMAIN Predecessors[q] = 1..(k - 1)
        /\ \A j \in 1..(k - 1) : Predecessors[q][j] = Predecessors[p][j]

\* The files a proposal is queued behind, as they were at the start, and the
\* starting op counts they imply.
InitialPredecessors(p) == [k \in DOMAIN Predecessors[p] |-> InitFile[Predecessors[p][k]]]
Starts(p) == Queued(InitFile[p], InitialPredecessors(p)).chainMetadata

\* Every operation is on a chain the proposal has metadata for (Validate).
HasMetadata(p) ==
    \A i \in DOMAIN p.operations : p.operations[i].chainSelector \in DOMAIN p.chainMetadata

\* A loaded proposal starts where its initial predecessors, which were valid, end,
\* and a file keeps the op counts it came with or has those.
StartsAreStable ==
    \A p \in ProposalId :
        /\ file[p].chainMetadata \in {InitFile[p].chainMetadata, Starts(p)}
        /\ Loaded(p) => /\ proposals[p].chainMetadata = Starts(p)
                        /\ \A k \in DOMAIN Predecessors[p] :
                             HasMetadata(InitialPredecessors(p)[k])

-----------------------------------------------------------------------------
(* Starting op counts *)

\* The starting op counts by chain (generateQueuedProposalStartingOpCounts).
LEMMA QueuedMetadata ==
    ASSUME NEW p, IsProposal(p), NEW preds
    PROVE  Queued(p, preds).chainMetadata =
             [c \in DOMAIN p.chainMetadata |->
                 IF PredecessorsOn(preds, c) = {} THEN p.chainMetadata[c]
                 ELSE QueuedStartingOpCount(preds, c)]
<1>1. PICK D \in SUBSET Chain : p \in ProposalFor(D)
  BY DEF IsProposal
<1> DEFINE start == [c \in DOMAIN p.chainMetadata |->
                        IF PredecessorsOn(preds, c) = {} THEN p.chainMetadata[c]
                        ELSE QueuedStartingOpCount(preds, c)]
<1>2. Queued(p, preds) = [p EXCEPT !.chainMetadata = start]
  BY DEF Queued
<1> HIDE DEF start
<1>3. [p EXCEPT !.chainMetadata = start].chainMetadata = start
  BY <1>1 DEF ProposalFor
<1>. QED BY <1>2, <1>3 DEF start

\* The first predecessor on a chain is the least.
LEMMA FirstOn ==
    ASSUME NEW S, S \subseteq Nat, S # {},
           NEW k \in S, \A j \in S : k <= j
    PROVE  (CHOOSE i \in S : \A j \in S : i <= j) = k
<1> DEFINE i == CHOOSE i \in S : \A j \in S : i <= j
<1>1. i \in S /\ \A j \in S : i <= j
  OBVIOUS
<1> HIDE DEF i
<1>2. i <= k /\ k <= i /\ i \in Nat /\ k \in Nat
  BY <1>1
<1>3. i = k
  BY <1>2
<1>. QED BY <1>3 DEF i

\* Predecessors with the same operations are on the same chains with the same
\* operations.
LEMMA SameOperations ==
    ASSUME NEW preds, NEW others, DOMAIN preds = DOMAIN others,
           \A k \in DOMAIN preds : preds[k].operations = others[k].operations, NEW c \in Chain
    PROVE  /\ \A k \in DOMAIN preds : OpIndices(preds[k], c) = OpIndices(others[k], c)
           /\ PredecessorsOn(preds, c) = PredecessorsOn(others, c)
           /\ QueuedOps(preds, c) = QueuedOps(others, c)
<1>1. \A k \in DOMAIN preds : OpIndices(preds[k], c) = OpIndices(others[k], c)
  BY DEF OpIndices
<1>2. \A k \in DOMAIN preds : TransactionCounts(preds[k])[c] = TransactionCounts(others[k])[c]
  BY <1>1 DEF TransactionCounts
<1>3. PredecessorsOn(preds, c) = PredecessorsOn(others, c)
  BY <1>2 DEF PredecessorsOn
<1>4. PredecessorsOn(preds, c) \subseteq DOMAIN preds
  BY DEF PredecessorsOn
<1>5. {{k} \X OpIndices(preds[k], c) : k \in PredecessorsOn(preds, c)}
        = {{k} \X OpIndices(others[k], c) : k \in PredecessorsOn(others, c)}
  BY <1>1, <1>3, <1>4
<1>. QED BY <1>1, <1>3, <1>5 DEF QueuedOps

\* The starts of a proposal whose k-th predecessor is the first on a chain are what
\* that predecessor came with, plus the operations.
LEMMA StartsWithFirst ==
    ASSUME NEW preds, NEW n \in Nat, DOMAIN preds = 1..n, NEW c,
           NEW k \in PredecessorsOn(preds, c), \A j \in PredecessorsOn(preds, c) : k <= j
    PROVE  QueuedStartingOpCount(preds, c)
             = preds[k].chainMetadata[c] + Cardinality(QueuedOps(preds, c))
<1>1. PredecessorsOn(preds, c) \subseteq Nat
  BY DEF PredecessorsOn
<1>2. (CHOOSE i \in PredecessorsOn(preds, c) : \A j \in PredecessorsOn(preds, c) : i <= j) = k
  BY <1>1, FirstOn
<1>. QED BY <1>2 DEF QueuedStartingOpCount

\* The predecessors of a proposal are proposals of the project, in a sequence.
LEMMA PredecessorsType ==
    ASSUME NEW p \in ProposalId
    PROVE  /\ Len(Predecessors[p]) \in Nat
           /\ DOMAIN Predecessors[p] = 1..Len(Predecessors[p])
           /\ DOMAIN InitialPredecessors(p) = 1..Len(Predecessors[p])
           /\ \A k \in DOMAIN Predecessors[p] :
                /\ Predecessors[p][k] \in ProposalId
                /\ InitialPredecessors(p)[k] = InitFile[Predecessors[p][k]]
                /\ IsProposal(InitialPredecessors(p)[k])
<1>1. Predecessors[p] \in Seq(ProposalId)
  BY ExecutionAssumption
<1>2. \A q \in ProposalId : IsProposal(InitFile[q])
  BY ExecutionAssumption
<1>. QED BY <1>1, <1>2 DEF InitialPredecessors

\* In a queue, the predecessors of the k-th predecessor on a chain are those before
\* it.
LEMMA EarlierPredecessors ==
    ASSUME QueuedInOrder, NEW p \in ProposalId, NEW k \in DOMAIN Predecessors[p], NEW c
    PROVE  LET q == Predecessors[p][k] IN
           /\ DOMAIN InitialPredecessors(q) = 1..(k - 1)
           /\ \A j \in 1..(k - 1) : /\ j \in DOMAIN Predecessors[p]
                                    /\ InitialPredecessors(q)[j] = InitialPredecessors(p)[j]
           /\ PredecessorsOn(InitialPredecessors(q), c)
                = {j \in PredecessorsOn(InitialPredecessors(p), c) : j < k}
<1> DEFINE q == Predecessors[p][k]
           n == Len(Predecessors[p])
<1>1. n \in Nat /\ DOMAIN Predecessors[p] = 1..n /\ DOMAIN InitialPredecessors(p) = 1..n
  BY PredecessorsType
<1>2. /\ DOMAIN Predecessors[q] = 1..(k - 1)
      /\ \A j \in 1..(k - 1) : Predecessors[q][j] = Predecessors[p][j]
  BY DEF QueuedInOrder
<1>3. k \in 1..n /\ \A j \in 1..(k - 1) : j \in 1..n
  BY <1>1
<1> HIDE DEF q, n
<1>4. DOMAIN InitialPredecessors(q) = 1..(k - 1)
  BY <1>2 DEF InitialPredecessors
<1>5. \A j \in 1..(k - 1) : InitialPredecessors(q)[j] = InitialPredecessors(p)[j]
  BY <1>1, <1>2, <1>3 DEF InitialPredecessors
<1>6. \A j \in 1..n : j \in 1..(k - 1) <=> j < k
  BY <1>3
<1>7. PredecessorsOn(InitialPredecessors(q), c)
        = {j \in PredecessorsOn(InitialPredecessors(p), c) : j < k}
  BY <1>1, <1>3, <1>4, <1>5, <1>6 DEF PredecessorsOn
<1>. QED BY <1>1, <1>3, <1>4, <1>5, <1>7 DEF q

\* The starts of a proposal, chain by chain.
LEMMA StartsByChain ==
    ASSUME NEW p \in ProposalId
    PROVE  Starts(p) = [c \in DOMAIN InitFile[p].chainMetadata |->
                          IF PredecessorsOn(InitialPredecessors(p), c) = {}
                          THEN InitFile[p].chainMetadata[c]
                          ELSE QueuedStartingOpCount(InitialPredecessors(p), c)]
<1>1. IsProposal(InitFile[p])
  BY ExecutionAssumption
<1>. QED BY <1>1, QueuedMetadata DEF Starts

\* The first proposal of a queue on a chain starts where its file says.
LEMMA FirstStarts ==
    ASSUME QueuedInOrder, NEW p \in ProposalId, NEW k \in DOMAIN Predecessors[p],
           NEW c, c \in DOMAIN InitFile[Predecessors[p][k]].chainMetadata,
           \A j \in PredecessorsOn(InitialPredecessors(p), c) : k <= j
    PROVE  Starts(Predecessors[p][k])[c] = InitFile[Predecessors[p][k]].chainMetadata[c]
<1> DEFINE q == Predecessors[p][k]
<1>1. PredecessorsOn(InitialPredecessors(q), c)
        = {j \in PredecessorsOn(InitialPredecessors(p), c) : j < k}
  BY EarlierPredecessors
<1>2. PredecessorsOn(InitialPredecessors(p), c) \subseteq Nat /\ k \in Nat
  BY PredecessorsType DEF PredecessorsOn
<1>3. PredecessorsOn(InitialPredecessors(q), c) = {}
  BY <1>1, <1>2
<1>4. q \in ProposalId
  BY PredecessorsType
<1> HIDE DEF q
<1>5. Starts(q) = [d \in DOMAIN InitFile[q].chainMetadata |->
                     IF PredecessorsOn(InitialPredecessors(q), d) = {}
                     THEN InitFile[q].chainMetadata[d]
                     ELSE QueuedStartingOpCount(InitialPredecessors(q), d)]
  BY <1>4, StartsByChain
<1>. QED BY <1>3, <1>5 DEF q

\* Loading a proposal gives it the same starts whether the files it and its
\* predecessors are read from are as they came or were rewritten.
LEMMA LoadedStarts ==
    ASSUME QueuedInOrder, IInv, Origin, StartsAreStable, NEW p \in ProposalId, NewProposal(p)
    PROVE  /\ Queued(file[p], PredecessorFiles(p)).chainMetadata = Starts(p)
           /\ \A k \in DOMAIN Predecessors[p] : HasMetadata(InitialPredecessors(p)[k])
<1> DEFINE n == Len(Predecessors[p])
           preds == PredecessorFiles(p)
           inits == InitialPredecessors(p)
<1>1. /\ n \in Nat /\ DOMAIN Predecessors[p] = 1..n /\ DOMAIN inits = 1..n
      /\ \A k \in 1..n : Predecessors[p][k] \in ProposalId
                         /\ inits[k] = InitFile[Predecessors[p][k]] /\ IsProposal(inits[k])
  BY PredecessorsType
<1>2. DOMAIN preds = 1..n /\ \A k \in 1..n : preds[k] = file[Predecessors[p][k]]
  BY <1>1 DEF PredecessorFiles
<1>3. \A k \in 1..n : preds[k].operations = inits[k].operations
  BY <1>1, <1>2 DEF Origin
<1>4. \A k \in 1..n : \A i \in DOMAIN preds[k].operations :
        preds[k].operations[i].chainSelector \in DOMAIN preds[k].chainMetadata
  BY <1>1 DEF NewProposal, Validate
<1>5. \A q \in ProposalId :
        DOMAIN Starts(q) = DOMAIN InitFile[q].chainMetadata
  BY StartsByChain
<1>6. \A q \in ProposalId : DOMAIN file[q].chainMetadata = DOMAIN InitFile[q].chainMetadata
  BY <1>5 DEF StartsAreStable
<1>7. \A q \in ProposalId : DOMAIN InitFile[q].chainMetadata \subseteq Chain
  BY ExecutionAssumption DEF IsProposal, ProposalFor
<1>8. Starts(p) = [c \in DOMAIN InitFile[p].chainMetadata |->
                     IF PredecessorsOn(inits, c) = {} THEN InitFile[p].chainMetadata[c]
                     ELSE QueuedStartingOpCount(inits, c)]
  BY StartsByChain
<1>9. Queued(file[p], preds).chainMetadata =
        [c \in DOMAIN file[p].chainMetadata |->
            IF PredecessorsOn(preds, c) = {} THEN file[p].chainMetadata[c]
            ELSE QueuedStartingOpCount(preds, c)]
  <2>1. IsProposal(file[p])
    BY DEF IInv, TypeOK
  <2>. QED BY <2>1, QueuedMetadata
<1> HIDE DEF n, preds, inits
<1>10. ASSUME NEW c \in DOMAIN InitFile[p].chainMetadata
       PROVE  Queued(file[p], preds).chainMetadata[c] = Starts(p)[c]
  <2>1. c \in Chain
    BY <1>7
  <2>2. PredecessorsOn(preds, c) = PredecessorsOn(inits, c) /\ QueuedOps(preds, c) = QueuedOps(inits, c)
    BY <1>1, <1>2, <1>3, <2>1, SameOperations
  <2>3. CASE PredecessorsOn(inits, c) = {}
    <3>1. Starts(p)[c] = InitFile[p].chainMetadata[c]
      BY <1>8, <2>3
    <3>2. file[p].chainMetadata[c] = InitFile[p].chainMetadata[c]
      BY <3>1 DEF StartsAreStable
    <3>. QED BY <1>6, <1>9, <2>2, <2>3, <3>1, <3>2
  <2>4. CASE PredecessorsOn(inits, c) # {}
    <3>1. PredecessorsOn(inits, c) \subseteq 1..n
      BY <1>1 DEF PredecessorsOn
    <3>2. PICK k \in PredecessorsOn(inits, c) : \A j \in PredecessorsOn(inits, c) : k <= j
      <4>1. PredecessorsOn(inits, c) \subseteq Nat
        BY <1>1, <3>1
      <4>. QED BY <2>4, <4>1, LeastNatural
    <3>3. k \in 1..n
      BY <3>1
    <3> DEFINE q == Predecessors[p][k]
    <3>4. c \in DOMAIN InitFile[q].chainMetadata
      <4>1. TransactionCounts(preds[k])[c] > 0
        BY <2>2 DEF PredecessorsOn
      <4>2. c \in DOMAIN preds[k].chainMetadata
        BY <1>4, <2>1, <3>3, <4>1, MetadataOfCounted
      <4>. QED BY <1>1, <1>2, <1>6, <3>3, <4>2
    <3>5. Starts(q)[c] = InitFile[q].chainMetadata[c]
      BY <1>1, <3>2, <3>3, <3>4, FirstStarts DEF inits
    <3>6. preds[k].chainMetadata[c] = inits[k].chainMetadata[c]
      BY <1>1, <1>2, <3>3, <3>5 DEF StartsAreStable
    <3>7. QueuedStartingOpCount(preds, c) = preds[k].chainMetadata[c] + Cardinality(QueuedOps(preds, c))
      BY <1>1, <1>2, <2>2, <3>2, StartsWithFirst
    <3>8. QueuedStartingOpCount(inits, c) = inits[k].chainMetadata[c] + Cardinality(QueuedOps(inits, c))
      BY <1>1, <3>2, StartsWithFirst
    <3>9. Queued(file[p], preds).chainMetadata[c] = QueuedStartingOpCount(preds, c)
      BY <1>6, <1>9, <2>2, <2>4
    <3>10. Starts(p)[c] = QueuedStartingOpCount(inits, c)
      BY <1>8, <2>4
    <3>. QED BY <2>2, <3>6, <3>7, <3>8, <3>9, <3>10
  <2>. QED BY <2>3, <2>4
<1>11. Queued(file[p], preds).chainMetadata = Starts(p)
  BY <1>6, <1>8, <1>9, <1>10
<1>12. \A k \in 1..n : HasMetadata(inits[k])
  <2>1. \A k \in 1..n : DOMAIN preds[k].chainMetadata = DOMAIN inits[k].chainMetadata
    BY <1>1, <1>2, <1>6
  <2>. QED BY <1>3, <1>4, <2>1 DEF HasMetadata
<1>. QED BY <1>1, <1>11, <1>12 DEF preds, inits

-----------------------------------------------------------------------------
(* The starts are stable *)

\* Steps of the client.
LEMMA StartsClient ==
    ASSUME QueuedInOrder, IInv, Origin, StartsAreStable, NEW p \in ProposalId,
           NewProposal(p) \/ WriteProposal(p) \/ (\E s \in Signer : SignAndAppend(p, s))
             \/ EditValidUntil(p) \/ NewExecutable(p)
    PROVE  StartsAreStable'
<1>1. DOMAIN proposals = ProposalId /\ DOMAIN file = ProposalId
      /\ (Loaded(p) => IsProposal(proposals[p]))
  BY DEF IInv, TypeOK
<1>2. CASE NewProposal(p)
  <2>1. /\ Queued(file[p], PredecessorFiles(p)).chainMetadata = Starts(p)
        /\ \A k \in DOMAIN Predecessors[p] : HasMetadata(InitialPredecessors(p)[k])
    BY <1>2, LoadedStarts
  <2>2. proposals' = [proposals EXCEPT ![p] = Queued(file[p], PredecessorFiles(p))] /\ file' = file
    BY <1>2 DEF NewProposal
  <2>. QED BY <1>1, <2>1, <2>2 DEF StartsAreStable, Loaded
<1>3. CASE WriteProposal(p)
  BY <1>1, <1>3 DEF StartsAreStable, Loaded, WriteProposal
<1>4. CASE \E s \in Signer : SignAndAppend(p, s)
  <2>1. Loaded(p) /\ file' = file
    BY <1>4 DEF SignAndAppend
  <2>2. PICK sigs : proposals' = [proposals EXCEPT ![p].signatures = sigs]
    BY <1>4 DEF SignAndAppend
  <2>3. [proposals[p] EXCEPT !.signatures = sigs].chainMetadata = proposals[p].chainMetadata
    BY <1>1, <2>1 DEF IsProposal, ProposalFor
  <2>4. \A q \in ProposalId : /\ q # p => proposals'[q] = proposals[q]
                              /\ proposals'[p] = [proposals[p] EXCEPT !.signatures = sigs]
    BY <1>1, <2>2
  <2>. QED BY <2>1, <2>3, <2>4 DEF StartsAreStable, Loaded
<1>5. CASE EditValidUntil(p)
  <2>1. Loaded(p) /\ file' = file
    BY <1>5 DEF EditValidUntil
  <2>2. PICK u : proposals' = [proposals EXCEPT ![p].validUntil = u]
    BY <1>5 DEF EditValidUntil
  <2>3. [proposals[p] EXCEPT !.validUntil = u].chainMetadata = proposals[p].chainMetadata
    BY <1>1, <2>1 DEF IsProposal, ProposalFor
  <2>4. \A q \in ProposalId : /\ q # p => proposals'[q] = proposals[q]
                              /\ proposals'[p] = [proposals[p] EXCEPT !.validUntil = u]
    BY <1>1, <2>2
  <2>. QED BY <2>1, <2>3, <2>4 DEF StartsAreStable, Loaded
<1>6. CASE NewExecutable(p)
  BY <1>6 DEF StartsAreStable, Loaded, NewExecutable
<1>. QED BY <1>2, <1>3, <1>4, <1>5, <1>6

\* The other steps change no proposal, or forget them all.
LEMMA StartsOther ==
    ASSUME StartsAreStable,
           \/ \E p \in ProposalId :
                \/ \E c \in Chain : SetRoot(p, c)
                \/ \E i \in DOMAIN InitFile[p].operations : Execute(p, i)
           \/ \E c \in Chain : SetConfig(c) \/ MineSetRoot(c) \/ MineExecute(c)
                               \/ MineSetConfig(c) \/ Revert(c) \/ Lose(c)
           \/ Restart \/ Tick \/ UNCHANGED vars
    PROVE  StartsAreStable'
<1>1. UNCHANGED file /\ (UNCHANGED proposals \/ \A p \in ProposalId : ~Loaded(p)')
  BY DEF SetRoot, Execute, SetConfig, MineSetRoot, MineExecute, MineSetConfig, Revert, Lose,
         Restart, Tick, vars, clientVars, Loaded
<1>. QED BY <1>1 DEF StartsAreStable, Loaded

-----------------------------------------------------------------------------
(* Queues fit *)

\* Appending a predecessor to those before it adds its operations to theirs.
LEMMA LastAdds ==
    ASSUME QueuedInOrder, NEW p \in ProposalId, NEW k \in DOMAIN Predecessors[p], NEW c \in Chain,
           k \in PredecessorsOn(InitialPredecessors(p), c),
           \A j \in PredecessorsOn(InitialPredecessors(p), c) : j <= k
    PROVE  LET q == Predecessors[p][k] IN
           /\ Cardinality(QueuedOps(InitialPredecessors(q), c)) \in Nat
           /\ Cardinality(QueuedOps(InitialPredecessors(p), c))
                = Cardinality(QueuedOps(InitialPredecessors(q), c))
                    + Cardinality(OpIndices(InitFile[q], c))
<1> DEFINE q == Predecessors[p][k]
           ps == InitialPredecessors(p)
           qs == InitialPredecessors(q)
           Own == {k} \X OpIndices(InitFile[q], c)
<1>1. /\ q \in ProposalId /\ IsProposal(InitFile[q]) /\ ps[k] = InitFile[q]
      /\ DOMAIN Predecessors[p] \subseteq Nat
  BY PredecessorsType, ExecutionAssumption
<1>2. /\ DOMAIN qs = 1..(k - 1)
      /\ \A j \in 1..(k - 1) : qs[j] = ps[j]
      /\ PredecessorsOn(qs, c) = {j \in PredecessorsOn(ps, c) : j < k}
  BY EarlierPredecessors
<1>3. PredecessorsOn(ps, c) \subseteq Nat /\ k \in Nat
  BY PredecessorsType DEF PredecessorsOn
<1>4. QueuedOps(ps, c) = QueuedOps(qs, c) \cup Own
  <2>1. PredecessorsOn(ps, c) = PredecessorsOn(qs, c) \cup {k}
    BY <1>2, <1>3
  <2>2. \A j \in PredecessorsOn(qs, c) : qs[j] = ps[j]
    BY <1>2 DEF PredecessorsOn
  <2> HIDE DEF ps, qs, q
  <2>. QED BY <1>1, <2>1, <2>2 DEF QueuedOps
<1>5. QueuedOps(qs, c) \cap Own = {}
  <2>1. k \notin PredecessorsOn(qs, c)
    BY <1>2, <1>3
  <2> HIDE DEF qs, q
  <2>. QED BY <2>1 DEF QueuedOps
<1>6. IsFiniteSet(QueuedOps(qs, c)) /\ Cardinality(QueuedOps(qs, c)) \in Nat
  <2>1. Len(Predecessors[q]) \in Nat /\ DOMAIN qs = 1..Len(Predecessors[q])
        /\ \A j \in 1..Len(Predecessors[q]) : IsProposal(qs[j])
    BY <1>1, PredecessorsType
  <2> HIDE DEF qs, q
  <2>. QED BY <2>1, QueuedOpsFinite
<1>7. IsFiniteSet(Own) /\ Cardinality(Own) = Cardinality(OpIndices(InitFile[q], c))
  <2>1. IsFiniteSet(OpIndices(InitFile[q], c)) /\ Cardinality(OpIndices(InitFile[q], c)) \in Nat
    BY <1>1, OpIndicesFinite
  <2>2. IsFiniteSet({k}) /\ Cardinality({k}) = 1
    BY FS_Singleton
  <2>3. IsFiniteSet(Own) /\ Cardinality(Own) = 1 * Cardinality(OpIndices(InitFile[q], c))
    BY <2>1, <2>2, FS_Product
  <2>. QED BY <2>1, <2>3
<1>8. Cardinality(QueuedOps(ps, c)) = Cardinality(QueuedOps(qs, c)) + Cardinality(Own) - 0
  <2>1. Cardinality({}) = 0
    BY FS_EmptySet
  <2> HIDE DEF ps, qs, q, Own
  <2>2. Cardinality(QueuedOps(qs, c) \cup Own)
          = Cardinality(QueuedOps(qs, c)) + Cardinality(Own)
              - Cardinality(QueuedOps(qs, c) \cap Own)
    BY <1>6, <1>7, FS_Union
  <2>. QED BY <1>4, <1>5, <2>1, <2>2
<1>9. Cardinality(OpIndices(InitFile[q], c)) \in Nat
  BY <1>1, OpIndicesFinite
<1>. QED BY <1>6, <1>7, <1>8, <1>9

\* A proposal starts where the last of its predecessors on the chain ends.
LEMMA StartsWhereLastEnds ==
    ASSUME QueuedInOrder, NEW p \in ProposalId, NEW k \in DOMAIN Predecessors[p], NEW c \in Chain,
           c \in DOMAIN InitFile[p].chainMetadata,
           \A j \in DOMAIN Predecessors[p] : HasMetadata(InitialPredecessors(p)[j]),
           k \in PredecessorsOn(InitialPredecessors(p), c),
           \A j \in PredecessorsOn(InitialPredecessors(p), c) : j <= k
    PROVE  Starts(p)[c] = Starts(Predecessors[p][k])[c]
                            + Cardinality(OpIndices(InitFile[Predecessors[p][k]], c))
<1> DEFINE q == Predecessors[p][k]
           ps == InitialPredecessors(p)
           qs == InitialPredecessors(q)
           own == Cardinality(OpIndices(InitFile[q], c))
<1>1. /\ q \in ProposalId /\ ps[k] = InitFile[q]
      /\ Len(Predecessors[p]) \in Nat /\ DOMAIN ps = 1..Len(Predecessors[p])
  BY PredecessorsType
<1>2. /\ DOMAIN qs = 1..(k - 1)
      /\ \A j \in 1..(k - 1) : qs[j] = ps[j]
      /\ PredecessorsOn(qs, c) = {j \in PredecessorsOn(ps, c) : j < k}
  BY EarlierPredecessors
<1>3. PredecessorsOn(ps, c) \subseteq Nat /\ k \in Nat /\ k >= 1
  BY PredecessorsType DEF PredecessorsOn
<1>a. \A j \in PredecessorsOn(ps, c) : c \in DOMAIN ps[j].chainMetadata
  <2>1. \A j \in PredecessorsOn(ps, c) :
          j \in DOMAIN Predecessors[p] /\ TransactionCounts(ps[j])[c] > 0
    BY <1>1, PredecessorsType DEF PredecessorsOn
  <2>. QED BY <2>1, MetadataOfCounted DEF HasMetadata
<1>4. /\ Cardinality(QueuedOps(qs, c)) \in Nat
      /\ Cardinality(QueuedOps(ps, c)) = Cardinality(QueuedOps(qs, c)) + own
  BY LastAdds
<1>5. PICK f \in PredecessorsOn(ps, c) : \A j \in PredecessorsOn(ps, c) : f <= j
  BY <1>3, LeastNatural
<1>6. QueuedStartingOpCount(ps, c) = ps[f].chainMetadata[c] + Cardinality(QueuedOps(ps, c))
  <2> HIDE DEF ps
  <2>. QED BY <1>1, <1>5, StartsWithFirst
<1>7. Starts(p)[c] = QueuedStartingOpCount(ps, c)
  BY StartsByChain
<1>8. CASE f = k
  <2>1. PredecessorsOn(qs, c) = {}
    BY <1>2, <1>3, <1>5, <1>8
  <2>2. Starts(q)[c] = InitFile[q].chainMetadata[c]
    BY <1>1, <1>a, <2>1, StartsByChain
  <2>3. QueuedOps(qs, c) = {}
    <3> HIDE DEF qs
    <3>. QED BY <2>1 DEF QueuedOps
  <2>4. Cardinality(QueuedOps(ps, c)) = own /\ own \in Nat
    <3>1. own \in Nat
      BY <1>1, OpIndicesFinite, ExecutionAssumption
    <3>. QED BY <1>4, <2>3, <3>1, FS_EmptySet
  <2> HIDE DEF q, ps, qs, own
  <2>5. Starts(p)[c] = Starts(q)[c] + own
    BY <1>1, <1>6, <1>7, <1>8, <2>2, <2>4
  <2>. QED BY <2>5 DEF q, own
<1>9. CASE f # k
  <2>1. f < k /\ f \in 1..(k - 1)
    <3>1. f <= k /\ f \in Nat /\ f \in DOMAIN ps
      BY <1>3, <1>5 DEF PredecessorsOn
    <3>. QED BY <1>1, <1>3, <1>9, <3>1
  <2>2. f \in PredecessorsOn(qs, c) /\ \A j \in PredecessorsOn(qs, c) : f <= j
    BY <1>2, <1>5, <2>1
  <2>3. QueuedStartingOpCount(qs, c) = qs[f].chainMetadata[c] + Cardinality(QueuedOps(qs, c))
    <3>1. k - 1 \in Nat
      BY <1>3
    <3> HIDE DEF qs
    <3>. QED BY <1>2, <2>2, <3>1, StartsWithFirst
  <2>4. Starts(q)[c] = QueuedStartingOpCount(qs, c)
    BY <1>1, <1>a, <2>2, StartsByChain
  <2>5. qs[f] = ps[f]
    BY <1>2, <2>1
  <2>6. ps[f].chainMetadata[c] \in Nat /\ own \in Nat
    <3>1. IsProposal(ps[f]) /\ IsProposal(InitFile[q])
      BY <1>1, <1>5, PredecessorsType, ExecutionAssumption DEF PredecessorsOn
    <3>2. own \in Nat
      BY <3>1, OpIndicesFinite
    <3>3. c \in DOMAIN ps[f].chainMetadata
      BY <1>a
    <3> HIDE DEF ps, own
    <3>. QED BY <3>1, <3>2, <3>3 DEF IsProposal, ProposalFor
  <2> HIDE DEF q, ps, qs, own
  <2>7. Starts(p)[c] = Starts(q)[c] + own
    BY <1>4, <1>6, <1>7, <2>3, <2>4, <2>5, <2>6
  <2>. QED BY <2>7 DEF q, own
<1>. QED BY <1>8, <1>9

\* Proposals queued in one order and loaded behind their predecessors fit: when the
\* last predecessor of a proposal on a chain has run to its end there, the op count
\* of the chain is the starting op count newProposal gave the proposal, whichever
\* proposals were reloaded, rewritten, signed or edited in between.
THEOREM QueuesFit ==
    ASSUME QueuedInOrder
    PROVE  Spec => []QueuedProposalFits
<1>1. Init => StartsAreStable
  BY DEF Init, StartsAreStable, Loaded
<1>2. IInv /\ Origin /\ StartsAreStable /\ [Next]_vars => StartsAreStable'
  BY QueuedInOrder, StartsClient, StartsOther DEF Next
<1>3. IInv /\ Origin /\ StartsAreStable => QueuedProposalFits
  <2> SUFFICES ASSUME IInv, Origin, StartsAreStable,
                      NEW p \in ProposalId, NEW q \in ProposalId, NEW c \in Chain,
                      Loaded(p), Loaded(q),
                      c \in DOMAIN proposals[p].chainMetadata,
                      NEW k \in DOMAIN Predecessors[p], Predecessors[p][k] = q,
                      OpIndices(proposals[q], c) # {},
                      \A j \in PredecessorsOn(PredecessorFiles(p), c) : j <= k,
                      RootIsOf(q, c),
                      opCount[c] = rootMetadata[c].postOpCount
               PROVE  proposals[p].chainMetadata[c] = opCount[c]
    BY DEF QueuedProposalFits
  <2> DEFINE P == proposals[q]
  <2>1. IsProposal(P) /\ HasTree(P) /\ root[c] = MerkleTree(P)
    BY DEF IInv, TypeOK, RootIsOf
  <2>2. opCount[c] = P.chainMetadata[c] + Cardinality(OpIndices(P, c))
    <3> HIDE DEF P
    <3>. QED BY <2>1, RootMetadataOfProposal
  <2>3. P.operations = InitFile[q].operations /\ P.chainMetadata = Starts(q)
        /\ proposals[p].chainMetadata = Starts(p)
        /\ \A j \in DOMAIN Predecessors[p] : HasMetadata(InitialPredecessors(p)[j])
    BY DEF Origin, StartsAreStable
  <2>4. OpIndices(P, c) = OpIndices(InitFile[q], c)
    BY <2>3 DEF OpIndices
  <2>5. PredecessorsOn(PredecessorFiles(p), c) = PredecessorsOn(InitialPredecessors(p), c)
    <3>1. /\ DOMAIN PredecessorFiles(p) = DOMAIN InitialPredecessors(p)
          /\ \A j \in DOMAIN PredecessorFiles(p) :
               PredecessorFiles(p)[j].operations = InitialPredecessors(p)[j].operations
      BY PredecessorsType DEF PredecessorFiles, InitialPredecessors, Origin
    <3>. QED BY <3>1, SameOperations
  <2>6. k \in PredecessorsOn(InitialPredecessors(p), c)
    <3>1. InitialPredecessors(p)[k] = InitFile[q] /\ k \in DOMAIN InitialPredecessors(p)
      BY PredecessorsType DEF InitialPredecessors
    <3>2. Cardinality(OpIndices(InitFile[q], c)) > 0
      <4>1. IsFiniteSet(OpIndices(InitFile[q], c)) /\ Cardinality(OpIndices(InitFile[q], c)) \in Nat
        BY OpIndicesFinite, ExecutionAssumption
      <4>2. Cardinality(OpIndices(InitFile[q], c)) # 0
        BY <2>4, <4>1, FS_EmptySet
      <4>. QED BY <4>1, <4>2
    <3>. QED BY <3>1, <3>2 DEF PredecessorsOn, TransactionCounts
  <2>7. c \in DOMAIN InitFile[p].chainMetadata
    BY <2>3, StartsByChain
  <2>8. Starts(p)[c] = Starts(q)[c] + Cardinality(OpIndices(InitFile[q], c))
    BY QueuedInOrder, <2>3, <2>5, <2>6, <2>7, StartsWhereLastEnds
  <2>. QED BY <2>2, <2>3, <2>4, <2>8
<1>. QED BY <1>1, <1>2, <1>3, ExecutionInvariant, RootsHaveOrigin, PTL DEF Spec

-----------------------------------------------------------------------------
(* What CheckQuorum promises of SetRoot *)

\* Every contract has a configuration that setConfig accepts.
ConfigAccepted == \A c \in Chain : setConfigAccepted(config[c])

\* Only setConfig changes a configuration.
LEMMA ConfigAcceptedKept ==
    ASSUME IInv, ConfigAccepted, [Next]_vars
    PROVE  ConfigAccepted'
<1>1. ASSUME NEW c \in Chain, MineSetConfig(c) PROVE ConfigAccepted'
  <2>1. PICK t \in mempool[c] : setConfig(c, t)
    BY <1>1 DEF MineSetConfig
  <2>2. config' = [config EXCEPT ![c] = t.config] /\ setConfigAccepted(t.config)
    BY <2>1 DEF setConfig
  <2>3. config \in [Chain -> ChainConfig]
    BY DEF IInv, TypeOK
  <2>4. \A d \in Chain : config'[d] = IF d = c THEN t.config ELSE config[d]
    BY <2>2, <2>3
  <2>5. \A d \in Chain : setConfigAccepted(config'[d])
    BY <2>2, <2>4 DEF ConfigAccepted
  <2>. QED BY <2>5 DEF ConfigAccepted
<1>2. ASSUME UNCHANGED config PROVE ConfigAccepted'
  BY <1>2 DEF ConfigAccepted
<1>3. ASSUME NEW p \in ProposalId,
             \/ NewProposal(p) \/ WriteProposal(p) \/ (\E s \in Signer : SignAndAppend(p, s))
             \/ EditValidUntil(p) \/ NewExecutable(p) \/ (\E c \in Chain : SetRoot(p, c))
             \/ \E i \in DOMAIN InitFile[p].operations : Execute(p, i)
      PROVE  UNCHANGED config
  BY <1>3 DEF NewProposal, WriteProposal, SignAndAppend, EditValidUntil, NewExecutable, SetRoot,
              Execute, mcmVars
<1>4. ASSUME NEW c \in Chain, SetConfig(c) \/ MineSetRoot(c) \/ MineExecute(c) \/ Revert(c) \/ Lose(c)
      PROVE  UNCHANGED config
  BY <1>4 DEF SetConfig, MineSetRoot, MineExecute, Revert, Lose, setRoot, execute, mcmVars
<1>5. ASSUME Restart \/ Tick \/ UNCHANGED vars PROVE UNCHANGED config
  BY <1>5 DEF Restart, Tick, vars, mcmVars
<1>. QED BY <1>1, <1>2, <1>3, <1>4, <1>5 DEF Next

\* No contract has a configuration that setConfig would refuse.
LEMMA ConfigsAreAccepted == Spec => [](IInv /\ ConfigAccepted)
<1>1. Init => ConfigAccepted
  <2> SUFFICES ASSUME Init PROVE ConfigAccepted
    OBVIOUS
  <2>1. \A c \in Chain : config[c] = ExtractSetConfigInputs(InitConfig[c])
    BY DEF Init, MCMInit
  <2>. QED BY <2>1, DeploymentAssumption DEF ConfigAccepted
<1>2. IInv /\ ConfigAccepted /\ [Next]_vars => ConfigAccepted'
  BY ConfigAcceptedKept
<1>. QED BY <1>1, <1>2, ExecutionInvariant, PTL DEF Spec

\* Signatures of known signers over the hash, no two of them the same, are in strictly
\* increasing order once sorted, and their signers are those of the unsorted ones.
LEMMA SortedAreIncreasing ==
    ASSUME \A x, y \in Blob : x = y,
           NEW hash, NEW sigs \in Seq(Signature), validateNoDuplicateSigners(sigs),
           RecoverSigningAddresses(hash, sigs) \subseteq Signer,
           NEW s \in SortedSignatures(sigs, hash)
    PROVE  /\ StrictlyIncreasing(s, hash)
           /\ RecoverSigningAddresses(hash, s) = RecoverSigningAddresses(hash, sigs)
<1> DEFINE D == DOMAIN sigs
<1>1. D = 1..Len(sigs) /\ Len(sigs) \in Nat
  OBVIOUS
<1>2. PICK f \in [D -> D] :
        /\ \A i, j \in D : f[i] = f[j] => i = j
        /\ \A i, j \in D : (i < j /\ sigs[f[i]].hash = hash /\ sigs[f[j]].hash = hash)
                           => Recover(sigs[f[i]], hash) <= Recover(sigs[f[j]], hash)
        /\ s = [i \in D |-> sigs[f[i]]]
  BY DEF SortedSignatures
<1>3. \A i \in D : sigs[i] \in Signature
  <2>1. \A R : \A q \in Seq(R) : \A k \in DOMAIN q : q[k] \in R
    BY ElementOfSeq
  <2>. QED BY <2>1
<1>4. \A i \in D : sigs[i].signer \in Signer /\ sigs[i].blob \in Blob
                   /\ sigs[i] = [signer |-> sigs[i].signer, hash |-> sigs[i].hash, blob |-> sigs[i].blob]
  BY <1>3 DEF Signature
<1>5. \A i \in D : Recover(sigs[i], hash) \in Signer
  BY DEF RecoverSigningAddresses
<1>6. Signer \subseteq Nat /\ 0 \notin Signer
  BY QuorumAssumption
<1>7. \A i \in D : sigs[i].hash = hash /\ Recover(sigs[i], hash) = sigs[i].signer
  BY <1>5, <1>6 DEF Recover, UnknownAddress
<1>8. \A i, j \in D : sigs[i].signer = sigs[j].signer => i = j
  <2> SUFFICES ASSUME NEW i \in D, NEW j \in D, sigs[i].signer = sigs[j].signer PROVE i = j
    OBVIOUS
  <2>1. sigs[i].blob = sigs[j].blob /\ sigs[i].hash = sigs[j].hash
    BY <1>4, <1>7
  <2>2. sigs[i] = sigs[j]
    BY <1>4, <2>1
  <2>. QED BY <2>2 DEF validateNoDuplicateSigners
<1>9. DOMAIN s = D /\ \A i \in D : f[i] \in D /\ s[i] = sigs[f[i]]
  BY <1>2
<1> HIDE DEF D
<1>10. StrictlyIncreasing(s, hash)
  <2> SUFFICES ASSUME NEW i \in D, NEW j \in D, i < j
               PROVE  Recover(s[i], hash) < Recover(s[j], hash)
    BY <1>9 DEF StrictlyIncreasing
  <2>1. Recover(s[i], hash) = sigs[f[i]].signer /\ Recover(s[j], hash) = sigs[f[j]].signer
    BY <1>7, <1>9
  <2>2. sigs[f[i]].signer <= sigs[f[j]].signer
    BY <1>2, <1>7, <1>9
  <2>3. sigs[f[i]].signer # sigs[f[j]].signer
    <3>1. i # j
      BY <1>1
    <3>. QED BY <3>1, <1>2, <1>8, <1>9
  <2>4. sigs[f[i]].signer \in Nat /\ sigs[f[j]].signer \in Nat
    BY <1>4, <1>6, <1>9
  <2>. QED BY <2>1, <2>2, <2>3, <2>4
<1>11. \A i \in D : \E k \in D : f[k] = i
  <2>1. IsFiniteSet(D)
    BY <1>1, IntervalCardinality
  <2>2. f \in Injection(D, D)
    BY <1>2 DEF Injection, IsInjective
  <2>3. f \in Surjection(D, D)
    BY <2>1, <2>2, FS_Injection
  <2>. QED BY <2>3 DEF Surjection
<1>12. RecoverSigningAddresses(hash, s) = {Recover(sigs[f[i]], hash) : i \in D}
  BY <1>9 DEF RecoverSigningAddresses
<1>13. RecoverSigningAddresses(hash, sigs) = {Recover(sigs[i], hash) : i \in D}
  BY DEF RecoverSigningAddresses, D
<1>14. {Recover(sigs[f[i]], hash) : i \in D} = {Recover(sigs[i], hash) : i \in D}
  BY <1>9, <1>11
<1>. QED BY <1>10, <1>12, <1>13, <1>14

\* Where signing is deterministic (one signer has one signature of a hash), a yes of
\* CheckQuorum is kept by SetRoot: whatever has been loaded, signed, edited, mined,
\* reconfigured or lost, the transaction built from the cached tree and the live proposal
\* passes every check of the contract, for any number of chains, signers and groups.
\* With two signatures of one signer it is not: see the run ExecutionDuplicate.
THEOREM QuorumChecksAreKept ==
    ASSUME \A x, y \in Blob : x = y
    PROVE  Spec => []QuorumCheckPredictsSetRoot
<1>1. ASSUME IInv, ConfigAccepted PROVE QuorumCheckPredictsSetRoot
  <2> SUFFICES ASSUME NEW p \in ProposalId, NEW c \in Chain,
                      Executable(p),
                      c \in DOMAIN proposals[p].chainMetadata,
                      Validate(proposals[p], now),
                      CheckQuorum(proposals[p], ToConfig(config[c])),
                      SigningHash(proposals[p]) \notin seenHashes[c],
                      opCount[c] = proposals[p].chainMetadata[c],
                      opCount[c] = rootMetadata[c].postOpCount \/ proposals[p].overridePreviousRoot
               PROVE  /\ RootMetadataLeaf(p, c) \in executables[p].tree.metadata
                      /\ \A t \in SetRootTxs(p, c) : setRootAccepted(c, t)
    BY DEF QuorumCheckPredictsSetRoot
  <2> DEFINE P == proposals[p]
             hash == SigningHash(P)
             leaf == RootMetadataLeaf(p, c)
  <2>1. Loaded(p) /\ HasTree(P) /\ executables[p] = Caches(P)
    BY <1>1 DEF IInv, CachesAreCurrent
  <2>2. IsProposal(P)
    BY <1>1, <2>1 DEF IInv, TypeOK
  <2>3. executables[p].tree = MerkleTree(P) /\ executables[p].encoders = GetEncoders(P)
    BY <2>1 DEF Caches
  <2>4. leaf = HashMetadata(GetEncoders(P)[c], c, P.chainMetadata[c])
    BY <2>3 DEF RootMetadataLeaf
  <2>5. leaf \in MerkleTree(P).metadata
    BY <2>4 DEF MerkleTree
  <2>6. leaf.chain = c /\ leaf.preOpCount = P.chainMetadata[c]
        /\ leaf.overridePreviousRoot = P.overridePreviousRoot
    BY <2>4 DEF HashMetadata, GetEncoders
  <2>7. P.signatures \in Seq(Signature)
    BY <2>2 DEF IsProposal, ProposalFor
  <2>8. validateNoDuplicateSigners(P.signatures) /\ P.validUntil \in Nat /\ ~(now > P.validUntil)
    BY <2>2 DEF Validate, proposalValidateBasic, IsProposal, ProposalFor
  <2>9. config[c] \in ChainConfig /\ setConfigAccepted(config[c]) /\ now \in Nat
    BY <1>1 DEF IInv, TypeOK, ConfigAccepted
  <2>10. SignersAccepted(config[c], RecoverSigningAddresses(hash, P.signatures))
    BY <2>9, TreeDecidesAsContract DEF CheckQuorum
  <2>11. RecoverSigningAddresses(hash, P.signatures) \subseteq Signer
    <3>1. \A k \in DOMAIN config[c].signers : config[c].signers[k].addr \in Signer
      BY <2>9, ChainConfigType
    <3>. QED BY <2>10, <3>1 DEF SignersAccepted
  <2> HIDE DEF P, leaf
  <2>12. ASSUME NEW t \in SetRootTxs(p, c) PROVE setRootAccepted(c, t)
    <3>1. PICK s \in SortedSignatures(P.signatures, hash) :
            t = [type |-> "setRoot", root |-> MerkleTree(P), validUntil |-> P.validUntil,
                 metadata |-> leaf, signatures |-> s]
      BY <2>3 DEF SetRootTxs, P, leaf
    <3>2. t.root = MerkleTree(P) /\ t.validUntil = P.validUntil /\ t.metadata = leaf /\ t.signatures = s
      BY <3>1
    <3>3. hash = [root |-> t.root, validUntil |-> t.validUntil]
      BY <3>2 DEF SigningHash
    <3> HIDE DEF hash
    <3>4. /\ StrictlyIncreasing(s, hash)
          /\ RecoverSigningAddresses(hash, s) = RecoverSigningAddresses(hash, P.signatures)
      BY <2>7, <2>8, <2>11, SortedAreIncreasing
    <3>5. SignaturesAccepted(c, t)
      BY <2>10, <3>2, <3>3, <3>4 DEF SignaturesAccepted
    <3>6. now <= t.validUntil
      BY <2>8, <2>9, <3>2
    <3>7. opCount[c] = t.metadata.preOpCount
          /\ (opCount[c] = rootMetadata[c].postOpCount \/ t.metadata.overridePreviousRoot)
      BY <2>6, <3>2 DEF P
    <3>8. [root |-> t.root, validUntil |-> t.validUntil] \notin seenHashes[c]
      BY <3>3 DEF hash, P
    <3>. QED BY <2>5, <2>6, <3>2, <3>5, <3>6, <3>7, <3>8 DEF setRootAccepted
  <2>. QED BY <2>3, <2>5, <2>12 DEF leaf
<1>. QED BY <1>1, ConfigsAreAccepted, PTL

\* ValidateConfigs (Signable): in every reachable state a contract whose configuration
\* compares equal to one that could be set lets the same signers set a root.
THEOREM EqualConfigs == Spec => []EqualConfigsAgree
<1>1. ASSUME IInv, ConfigAccepted PROVE EqualConfigsAgree
  <2> SUFFICES ASSUME NEW c \in Chain, NEW other \in AcceptedInputs,
                      Equals(ToConfig(config[c]), TreeOf[other]),
                      NEW addrs \in SUBSET Signer
               PROVE  SignersAccepted(config[c], addrs) <=> SignersAccepted(other, addrs)
    BY DEF EqualConfigsAgree
  <2>1. config[c] \in ChainConfig /\ setConfigAccepted(config[c])
    BY <1>1 DEF IInv, TypeOK, ConfigAccepted
  <2>2. PICK cfg \in Configurations : other = ExtractSetConfigInputs(cfg)
    BY DEF AcceptedInputs, InputsOf
  <2>3. other \in ChainConfig
    BY <2>2, ArraysAreTyped, ConfigurationsAssumption
  <2>4. setConfigAccepted(other) /\ TreeOf[other] = ToConfig(other)
    BY DEF AcceptedInputs, TreeOf
  <2>. QED BY <2>1, <2>3, <2>4, EqualConfigsDecideAlike
<1>. QED BY <1>1, ConfigsAreAccepted, PTL

\* SetConfig, GetConfig and CheckQuorum: whatever configuration a contract holds, it
\* accepts exactly the signers that CanSetRoot of the configuration it was set with
\* accepts, and reading it back gives an equal one, in every state of the system.
THEOREM ConfigsMeanWhatWasSet == Spec => []ConfigMeansWhatWasSet
<1>1. IInv /\ ConfigAccepted => ConfigMeansWhatWasSet
  <2> SUFFICES ASSUME IInv, ConfigAccepted, NEW c \in Chain, NEW cfg \in Configurations,
                      config[c] = ExtractSetConfigInputs(cfg)
               PROVE  /\ \A addrs \in SUBSET Signer : SignersAccepted(config[c], addrs) <=> CanSetRoot(cfg, addrs)
                      /\ Equals(ToConfig(config[c]), cfg)
    BY DEF ConfigMeansWhatWasSet, InputsOf
  <2>1. cfg \in Config /\ ValidateConfig(cfg)
    BY ConfigurationsAssumption
  <2>2. setConfigAccepted(config[c])
    BY DEF ConfigAccepted
  <2>3. setConfigAccepted(ExtractSetConfigInputs(cfg))
    BY <2>2
  <2>4. /\ \A addrs : SignersAccepted(ExtractSetConfigInputs(cfg), addrs) <=> CanSetRoot(cfg, addrs)
        /\ Equals(ToConfig(ExtractSetConfigInputs(cfg)), cfg)
    BY <2>1, <2>3, StoredConfigsMeanTheSame
  <2>. QED BY <2>4
<1>. QED BY <1>1, ConfigsAreAccepted, PTL

=============================================================================
