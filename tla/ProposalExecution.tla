------------------------- MODULE ProposalExecution -------------------------
(***************************************************************************)
(* The life of MCMS proposals: loaded from a file (newProposal), signed    *)
(* (Signable), turned into an Executable whose nonces, encoders and tree   *)
(* are cached, and carried out chain by chain with SetRoot and Execute     *)
(* transactions, which the MCM contracts of module ManyChainMultiSig       *)
(* accept or revert.                                                       *)
(*                                                                         *)
(* A transaction is submitted in one step and mined, reverted or lost in   *)
(* another, so submissions of several clients and chains interleave, may   *)
(* be repeated, and are mined in any order.  A restart loses the client's  *)
(* memory; files, pending transactions and chains survive it.              *)
(***************************************************************************)
EXTENDS ManyChainMultiSig, Enumeration, Integers

CONSTANTS
    ProposalId,
    InitFile,        \* the content of each proposal's file at the start
    Predecessors,    \* the proposals each one is queued behind (WithPredecessors)
    Reconfigurations,\* the arguments SetConfig is called with
    ValidUntilEdits, \* values a client may set a proposal's ValidUntil to
    NoProposal, NoExecutable,
    \* Bounds.
    MaxTime,         \* the clock
    MaxSignatures,   \* signatures on one proposal
    MaxPending,      \* pending transactions per chain
    MaxRestarts,     \* client restarts
    MaxLost          \* transactions lost or reverted by the call they make

VARIABLES
    file,         \* per proposal, the JSON document on disk
    proposals,    \* per proposal, the object in memory
    executables,  \* per proposal, the Executable built from the object
    mempool,      \* per chain, the transactions submitted and not yet mined
    restarts,     \* restarts so far
    lost          \* transactions lost so far

clientVars == <<file, proposals, executables>>
boundVars == <<restarts, lost>>
vars == <<now, mcmVars, clientVars, mempool, boundVars>>

ASSUME ExecutionAssumption ==
    /\ MaxTime \in Nat /\ MaxSignatures \in Nat /\ MaxPending \in Nat
    /\ MaxRestarts \in Nat /\ MaxLost \in Nat
    /\ ValidUntilEdits \subseteq Nat
    /\ \A r \in Reconfigurations : r.clearRoot \in BOOLEAN
    /\ DOMAIN InitFile = ProposalId
    /\ \A p \in ProposalId : IsProposal(InitFile[p])
    /\ \A p \in ProposalId : Predecessors[p] \in Seq(ProposalId)
    /\ ~IsProposal(NoProposal)

\* The configurations contracts are given: what NewConfig has returned.
Configurations == {InitConfig[c] : c \in Chain} \cup {r.config : r \in Reconfigurations}

ASSUME ConfigurationsAssumption ==
    \A cfg \in Configurations : cfg \in Config /\ ValidateConfig(cfg)

Loaded(p) == proposals[p] # NoProposal
Executable(p) == executables[p] # NoExecutable

-----------------------------------------------------------------------------
(* Proposals in memory and on disk *)

Init ==
    /\ now = 1
    /\ MCMInit
    /\ file = InitFile
    /\ proposals = [p \in ProposalId |-> NoProposal]
    /\ executables = [p \in ProposalId |-> NoExecutable]
    /\ mempool = [c \in Chain |-> {}]
    /\ restarts = 0
    /\ lost = 0

PredecessorFiles(p) == [k \in DOMAIN Predecessors[p] |-> file[Predecessors[p][k]]]

\* newProposal: decode and validate the file and its predecessors' files,
\* then set the starting op counts the queue implies.
NewProposal(p) ==
    /\ ~Loaded(p)
    /\ Validate(file[p], now)
    /\ \A k \in DOMAIN Predecessors[p] : Validate(PredecessorFiles(p)[k], now)
    /\ proposals' = [proposals EXCEPT ![p] = Queued(file[p], PredecessorFiles(p))]
    /\ UNCHANGED <<now, mcmVars, file, executables, mempool, boundVars>>

WriteProposal(p) ==
    /\ Loaded(p)
    /\ file' = [file EXCEPT ![p] = proposals[p]]
    /\ UNCHANGED <<now, mcmVars, proposals, executables, mempool, boundVars>>

\* Signable.SignAndAppend: the proposal is validated before it is signed and
\* not after the signature is appended.
SignAndAppend(p, s) ==
    /\ Loaded(p)
    /\ Len(proposals[p].signatures) < MaxSignatures
    /\ Validate(proposals[p], now)
    /\ HasTree(proposals[p])
    /\ \E b \in Blob :
         LET sig == [signer |-> s, hash |-> SigningHash(proposals[p]), blob |-> b] IN
         proposals' = [proposals EXCEPT ![p].signatures = Append(@, sig)]
    /\ UNCHANGED <<now, mcmVars, file, executables, mempool, boundVars>>

\* A client changes the exported field ValidUntil of the object.
EditValidUntil(p) ==
    /\ Loaded(p)
    /\ \E t \in ValidUntilEdits : proposals' = [proposals EXCEPT ![p].validUntil = t]
    /\ UNCHANGED <<now, mcmVars, file, executables, mempool, boundVars>>

\* The client process ends and starts again.
Restart ==
    /\ restarts < MaxRestarts
    /\ restarts' = restarts + 1
    /\ proposals' = [p \in ProposalId |-> NoProposal]
    /\ executables' = [p \in ProposalId |-> NoExecutable]
    /\ UNCHANGED <<now, mcmVars, file, mempool, lost>>

-----------------------------------------------------------------------------
(* Executable *)

\* What NewExecutable derives from the proposal and caches; the Executable
\* also keeps a pointer to the proposal itself.
Caches(p) ==
    [encoders |-> GetEncoders(p), txNonces |-> TransactionNonces(p), tree |-> MerkleTree(p)]

NewExecutable(p) ==
    /\ Loaded(p)
    /\ HasTree(proposals[p])
    /\ executables' = [executables EXCEPT ![p] = Caches(proposals[p])]
    /\ UNCHANGED <<now, mcmVars, file, proposals, mempool, boundVars>>

Submit(c, t) ==
    /\ Cardinality(mempool[c]) < MaxPending
    /\ mempool' = [mempool EXCEPT ![c] = @ \cup {t}]

\* The metadata leaf SetRoot asks the cached tree a proof of: live metadata,
\* cached encoder.
RootMetadataLeaf(p, c) ==
    HashMetadata(executables[p].encoders[c], c, proposals[p].chainMetadata[c])

\* The transactions SetRoot may submit: the cached root with the live
\* ValidUntil and the live signatures, sorted under the live signing hash.
SetRootTxs(p, c) ==
    {[type       |-> "setRoot",
      root       |-> executables[p].tree,
      validUntil |-> proposals[p].validUntil,
      metadata   |-> RootMetadataLeaf(p, c),
      signatures |-> sigs] :
        sigs \in SortedSignatures(proposals[p].signatures, SigningHash(proposals[p]))}

SetRoot(p, c) ==
    /\ Executable(p)
    /\ c \in DOMAIN proposals[p].chainMetadata
    /\ RootMetadataLeaf(p, c) \in executables[p].tree.metadata
    /\ \E t \in SetRootTxs(p, c) : Submit(c, t)
    /\ UNCHANGED <<now, mcmVars, clientVars, boundVars>>

\* The leaf Execute asks a proof of: the cached nonce, the live operation.
OperationLeaf(p, i) == HashOperation(executables[p].txNonces[i], proposals[p].operations[i])

ExecuteTx(p, i) ==
    [type |-> "execute", op |-> OperationLeaf(p, i), proofOf |-> executables[p].tree]

Execute(p, i) ==
    /\ Executable(p)
    /\ i \in DOMAIN proposals[p].operations
    /\ OperationLeaf(p, i) \in executables[p].tree.ops
    /\ Submit(proposals[p].operations[i].chainSelector, ExecuteTx(p, i))
    /\ UNCHANGED <<now, mcmVars, clientVars, boundVars>>

\* Configurer.SetConfig.
SetConfig(c) ==
    /\ \E r \in Reconfigurations :
         Submit(c, [type |-> "setConfig", config |-> ExtractSetConfigInputs(r.config),
                    clearRoot |-> r.clearRoot])
    /\ UNCHANGED <<now, mcmVars, clientVars, boundVars>>

-----------------------------------------------------------------------------
(* Chains *)

Mined(c, t) == mempool' = [mempool EXCEPT ![c] = @ \ {t}]

MineSetRoot(c) ==
    /\ \E t \in mempool[c] : t.type = "setRoot" /\ setRoot(c, t) /\ Mined(c, t)
    /\ UNCHANGED <<now, clientVars, boundVars>>

MineExecute(c) ==
    /\ \E t \in mempool[c] : t.type = "execute" /\ execute(c, t) /\ Mined(c, t)
    /\ UNCHANGED <<now, clientVars, boundVars>>

MineSetConfig(c) ==
    /\ \E t \in mempool[c] : t.type = "setConfig" /\ setConfig(c, t) /\ Mined(c, t)
    /\ UNCHANGED <<now, clientVars, boundVars>>

\* A contract check fails: the transaction is mined without effect.
Revert(c) ==
    /\ \E t \in mempool[c] :
         /\ \/ t.type = "setRoot" /\ ~setRootAccepted(c, t)
            \/ t.type = "execute" /\ ~executeAccepted(c, t)
            \/ t.type = "setConfig" /\ ~setConfigAccepted(t.config)
         /\ Mined(c, t)
    /\ UNCHANGED <<now, mcmVars, clientVars, boundVars>>

\* A transaction is dropped, or the call an operation makes reverts.
Lose(c) ==
    /\ lost < MaxLost
    /\ lost' = lost + 1
    /\ \E t \in mempool[c] : Mined(c, t)
    /\ UNCHANGED <<now, mcmVars, clientVars, restarts>>

Tick ==
    /\ now < MaxTime
    /\ now' = now + 1
    /\ UNCHANGED <<mcmVars, clientVars, mempool, boundVars>>

Next ==
    \/ \E p \in ProposalId :
         \/ NewProposal(p)
         \/ WriteProposal(p)
         \/ \E s \in Signer : SignAndAppend(p, s)
         \/ EditValidUntil(p)
         \/ NewExecutable(p)
         \/ \E c \in Chain : SetRoot(p, c)
         \/ \E i \in DOMAIN InitFile[p].operations : Execute(p, i)
    \/ \E c \in Chain :
         \/ SetConfig(c)
         \/ MineSetRoot(c)
         \/ MineExecute(c)
         \/ MineSetConfig(c)
         \/ Revert(c)
         \/ Lose(c)
    \/ Restart
    \/ Tick

Spec == Init /\ [][Next]_vars

-----------------------------------------------------------------------------
(* Properties *)

SubmittedTx ==
    [type : {"setRoot"}, root : Tree, validUntil : Nat, metadata : MetadataLeaf,
     signatures : Seq(Signature)]
      \cup [type : {"execute"}, op : OpLeaf, proofOf : Tree]
      \cup [type : {"setConfig"}, config : ChainConfig, clearRoot : BOOLEAN]

\* Every variable keeps its type: records are whole, nonces and counts are
\* natural numbers, roots and submitted transactions are built from leaves of
\* well-formed trees.
TypeOK ==
    /\ now \in Nat
    /\ config \in [Chain -> ChainConfig]
    /\ root \in [Chain -> Tree \cup {NoRoot}]
    /\ rootValidUntil \in [Chain -> Nat]
    /\ rootMetadata \in [Chain -> MetadataLeaf]
    /\ opCount \in [Chain -> Nat]
    /\ seenHashes \in [Chain -> SUBSET HashToSign]
    /\ executed \in [Chain -> Seq(Transaction)]
    /\ DOMAIN file = ProposalId
    /\ DOMAIN proposals = ProposalId
    /\ DOMAIN executables = ProposalId
    /\ \A p \in ProposalId : IsProposal(file[p]) /\ (Loaded(p) => IsProposal(proposals[p]))
    /\ mempool \in [Chain -> SUBSET SubmittedTx]
    /\ restarts \in Nat
    /\ lost \in Nat

\* What NewExecutable cached is what the live proposal yields: nothing a client
\* does to a loaded proposal (signing it, moving ValidUntil) reaches the tree,
\* the nonces or the encoders.
CachesAreCurrent ==
    \A p \in ProposalId : Executable(p) =>
        /\ Loaded(p)
        /\ HasTree(proposals[p])
        /\ executables[p] = Caches(proposals[p])

\* The contract's counters and history agree: the root metadata is a leaf of
\* the root, the op count lies between its bounds, and every operation
\* executed since the root was set is the root's leaf of that nonce.
RanFromRoot ==
    \A c \in Chain :
        /\ Len(executed[c]) = opCount[c]
        /\ rootMetadata[c].chain = c
        /\ rootMetadata[c].preOpCount <= opCount[c]
        /\ opCount[c] <= rootMetadata[c].postOpCount
        /\ root[c] = NoRoot => rootMetadata[c] = ClearedMetadata(c, opCount[c])
        /\ root[c] # NoRoot =>
             /\ rootMetadata[c] \in root[c].metadata
             /\ \A n \in rootMetadata[c].preOpCount .. (opCount[c] - 1) :
                  \E leaf \in root[c].ops :
                     leaf.chain = c /\ leaf.nonce = n /\ leaf.transaction = executed[c][n + 1]

\* The inductive invariant.
IInv == TypeOK /\ CachesAreCurrent /\ RanFromRoot

\* Chain c works on proposal p.
RootIsOf(p, c) ==
    Loaded(p) /\ HasTree(proposals[p]) /\ root[c] = MerkleTree(proposals[p])

\* A chain has run its root's proposal in the proposal's order: whichever
\* interleaving of submissions, losses, restarts and overriding roots led here,
\* each operation of the proposal that the op count has passed is at the
\* position of the chain's history its local index gives it
\* (TransactionNonces in proposal.go, Execute in executable.go).
OpsRunInProposalOrder ==
    \A p \in ProposalId, c \in Chain :
        RootIsOf(p, c) =>
            \A i \in OpIndices(proposals[p], c) :
                LET position == rootMetadata[c].preOpCount + LocalIndex(proposals[p], i) + 1 IN
                opCount[c] >= position =>
                    executed[c][position] = proposals[p].operations[i].transaction

\* A root whose post op count is reached has run all of its proposal's
\* operations on the chain, and one that is not has some left: PostOpCount
\* (encoder.go) and the nonces (TransactionNonces) agree.
ExhaustedRootRanEverything ==
    \A p \in ProposalId, c \in Chain :
        RootIsOf(p, c) =>
            (opCount[c] = rootMetadata[c].postOpCount
               <=> \A i \in OpIndices(proposals[p], c) :
                     rootMetadata[c].preOpCount + LocalIndex(proposals[p], i) < opCount[c])

\* A root with operations left never gets stuck: some index exists whose
\* Execute call finds its leaf in the cached tree and produces a transaction
\* the contract accepts.
AlwaysAnExecutableOp ==
    \A p \in ProposalId, c \in Chain :
        (/\ Executable(p)
         /\ executables[p].tree = root[c]
         /\ opCount[c] < rootMetadata[c].postOpCount
         /\ now <= rootValidUntil[c])
        => \E i \in DOMAIN proposals[p].operations :
             /\ OperationLeaf(p, i) \in executables[p].tree.ops
             /\ executeAccepted(c, ExecuteTx(p, i))

\* When Signable.CheckQuorum says yes for a valid proposal with an executable
\* and the chain's op count is the proposal's turn, the transaction SetRoot
\* submits is accepted, even though the root comes from the cached tree and
\* the signing hash from the live proposal.
QuorumCheckPredictsSetRoot ==
    \A p \in ProposalId, c \in Chain :
        (/\ Executable(p)
         /\ c \in DOMAIN proposals[p].chainMetadata
         /\ Validate(proposals[p], now)
         /\ CheckQuorum(proposals[p], ToConfig(config[c]))
         /\ SigningHash(proposals[p]) \notin seenHashes[c]
         /\ opCount[c] = proposals[p].chainMetadata[c]
         /\ opCount[c] = rootMetadata[c].postOpCount \/ proposals[p].overridePreviousRoot)
        => /\ RootMetadataLeaf(p, c) \in executables[p].tree.metadata
           /\ \A t \in SetRootTxs(p, c) : setRootAccepted(c, t)

\* What SetConfig makes of each configuration, and what GetConfig reads from a contract
\* that has accepted one.
InputsOf == [cfg \in Configurations |-> ExtractSetConfigInputs(cfg)]
AcceptedInputs == {cc \in {InputsOf[cfg] : cfg \in Configurations} : setConfigAccepted(cc)}
TreeOf == [cc \in AcceptedInputs |-> ToConfig(cc)]

\* Whatever sequence of SetConfig calls led to a contract's configuration, the
\* signers who can set a root there are those of the configuration tree that was
\* passed to SetConfig, at any depth of groups, and GetConfig reads an equal tree.
ConfigMeansWhatWasSet ==
    \A c \in Chain :
        \A cfg \in Configurations :
            config[c] = InputsOf[cfg] =>
                /\ \A addrs \in SUBSET Signer :
                     SignersAccepted(config[c], addrs) <=> CanSetRoot(cfg, addrs)
                /\ Equals(ToConfig(config[c]), cfg)

\* ValidateConfigs: two contracts whose configurations compare equal let the same
\* signers set a root, although they may keep the groups in different orders, and
\* Equals looks for the groups of one in the other and not the reverse.
EqualConfigsAgree ==
    \A c \in Chain :
        LET own == ToConfig(config[c]) IN
        \A other \in AcceptedInputs : Equals(own, TreeOf[other]) =>
            \A addrs \in SUBSET Signer :
                SignersAccepted(config[c], addrs) <=> SignersAccepted(other, addrs)

\* WithPredecessors: once the last predecessor of a queued proposal has run
\* to its end on a chain, the op count of the chain is the starting op count
\* newProposal gave the queued proposal.
QueuedProposalFits ==
    \A p, q \in ProposalId, c \in Chain :
        (/\ Loaded(p) /\ Loaded(q)
         /\ c \in DOMAIN proposals[p].chainMetadata
         /\ \E k \in DOMAIN Predecessors[p] :
              /\ Predecessors[p][k] = q
              /\ OpIndices(proposals[q], c) # {}
              /\ \A j \in PredecessorsOn(PredecessorFiles(p), c) : j <= k
         /\ RootIsOf(q, c)
         /\ opCount[c] = rootMetadata[c].postOpCount)
        => proposals[p].chainMetadata[c] = opCount[c]

\* proposal.go, Validate: "ensure there are no duplicate signers".
NoDuplicateSigners ==
    \A p \in ProposalId :
        (Loaded(p) /\ Validate(proposals[p], now)) =>
            \A i, j \in DOMAIN proposals[p].signatures :
                i # j => proposals[p].signatures[i].signer # proposals[p].signatures[j].signer

-----------------------------------------------------------------------------
(* Refinement *)

\* The operations of p on chain c, in the proposal's order.
ChainTransactions(p, c) ==
    LET order == Ascending(OpIndices(p, c))
    IN [k \in DOMAIN order |-> p.operations[order[k]].transaction]

\* What the proposals have for chain c.
ListsOf(c) == {ChainTransactions(InitFile[p], c) : p \in ProposalId}

\* The operations a tree has for chain c with nonces from first up to end.
LeafAt(tree, c, nonce) == CHOOSE leaf \in tree.ops : leaf.chain = c /\ leaf.nonce = nonce

LeavesBetween(tree, c, first, end) ==
    [k \in 1..(end - first) |-> LeafAt(tree, c, first + k - 1).transaction]

\* The operations left on chain c: the root's leaves from the op count on.
Outstanding(c) == LeavesBetween(root[c], c, opCount[c], rootMetadata[c].postOpCount)

Ordered == INSTANCE OrderedExecution WITH
    Lists <- ListsOf,
    queue <- [c \in Chain |-> Outstanding(c)],
    done  <- executed

\* The contracts, driven by SetRoot and Execute, work through one proposal's
\* operations at a time, in order, each once.
ImplementsOrderedExecution == Ordered!Spec

-----------------------------------------------------------------------------
(* Liveness *)

\* A client that starts again after a restart and keeps calling Execute for
\* every index, and chains that include what was submitted to them.
Fairness ==
    /\ \A p \in ProposalId :
         /\ WF_vars(NewProposal(p))
         /\ WF_vars(~Executable(p) /\ NewExecutable(p))
         /\ \A i \in DOMAIN InitFile[p].operations : SF_vars(Execute(p, i))
    /\ \A c \in Chain :
         /\ WF_vars(MineExecute(c))
         /\ WF_vars(MineSetRoot(c) \/ MineSetConfig(c) \/ Revert(c))

FairSpec == Spec /\ Fairness

\* Every root that is set is worked off by Execute calls in whatever order they
\* are made, or it expires: when all calls have been made, no operation of the
\* root in force is left on any chain, whichever roots it replaced.
RootIsWorkedOff ==
    \A c \in Chain :
        []<>(opCount[c] = rootMetadata[c].postOpCount \/ now > rootValidUntil[c])

=============================================================================
