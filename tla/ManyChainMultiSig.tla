------------------------- MODULE ManyChainMultiSig -------------------------
(***************************************************************************)
(* The MCM contract of each chain, external to the repository: its state   *)
(* and the checks of setRoot, execute and setConfig, as the SDKs' bindings *)
(* and error decoders know them.  A transaction that fails a check reverts *)
(* and changes nothing.                                                    *)
(***************************************************************************)
EXTENDS Proposal

CONSTANTS
    NoRoot,       \* no root set, or the root cleared
    InitConfig    \* the configuration each contract is deployed with

ASSUME ContractAssumption == NoRoot \notin Tree

VARIABLES
    now,             \* block timestamp, also the client's clock
    config,          \* per chain, the group arrays and the signers
    root,            \* per chain, the current root
    rootValidUntil,  \* per chain, the timestamp the root expires at
    rootMetadata,    \* per chain, the metadata the root was set with
    opCount,         \* per chain, the number of operations executed
    seenHashes,      \* per chain, the signed hashes setRoot has accepted
    executed         \* per chain, the transactions executed, in order (history)

mcmVars == <<config, root, rootValidUntil, rootMetadata, opCount, seenHashes, executed>>

ClearedMetadata(c, count) ==
    [chain |-> c, preOpCount |-> count, postOpCount |-> count, overridePreviousRoot |-> TRUE]

MCMInit ==
    /\ config = [c \in Chain |-> ExtractSetConfigInputs(InitConfig[c])]
    /\ root = [c \in Chain |-> NoRoot]
    /\ rootValidUntil = [c \in Chain |-> 0]
    /\ rootMetadata = [c \in Chain |-> ClearedMetadata(c, 0)]
    /\ opCount = [c \in Chain |-> 0]
    /\ seenHashes = [c \in Chain |-> {}]
    /\ executed = [c \in Chain |-> <<>>]

-----------------------------------------------------------------------------
(* setRoot *)

\* SignersAddressesMustBeStrictlyIncreasing.
StrictlyIncreasing(sigs, hash) ==
    \A i, j \in DOMAIN sigs : i < j => Recover(sigs[i], hash) < Recover(sigs[j], hash)

\* The votes of addrs climb the group tree from each group that reaches its
\* quorum to its parent, and the root group has to reach its own.
Approved(cc, addrs) ==
    LET approved[i \in 1..NumGroups] ==
          LET children == ChildrenOf(cc, i) IN
          /\ cc.groupQuorums[i] > 0
          /\ Cardinality({k \in DOMAIN cc.signers :
                            cc.signers[k].group = i - 1 /\ cc.signers[k].addr \in addrs})
               + Cardinality({k \in DOMAIN children : approved[children[k]]})
             >= cc.groupQuorums[i]
    IN approved

QuorumReached(cc, addrs) == Approved(cc, addrs)[1]

\* Every recovered address is a signer (InvalidSigner), the contract has a
\* configuration (MissingConfig) and there are enough (InsufficientSigners).
SignersAccepted(cc, addrs) ==
    /\ addrs \subseteq {cc.signers[k].addr : k \in DOMAIN cc.signers}
    /\ QuorumReached(cc, addrs)

SignaturesAccepted(c, t) ==
    LET hash == [root |-> t.root, validUntil |-> t.validUntil] IN
    /\ StrictlyIncreasing(t.signatures, hash)
    /\ SignersAccepted(config[c], RecoverSigningAddresses(hash, t.signatures))

setRootAccepted(c, t) ==
    /\ [root |-> t.root, validUntil |-> t.validUntil] \notin seenHashes[c]
    /\ SignaturesAccepted(c, t)
    /\ now <= t.validUntil
    /\ t.metadata \in t.root.metadata
    /\ t.metadata.chain = c
    /\ opCount[c] = rootMetadata[c].postOpCount \/ t.metadata.overridePreviousRoot
    /\ opCount[c] = t.metadata.preOpCount

setRoot(c, t) ==
    /\ setRootAccepted(c, t)
    /\ root' = [root EXCEPT ![c] = t.root]
    /\ rootValidUntil' = [rootValidUntil EXCEPT ![c] = t.validUntil]
    /\ rootMetadata' = [rootMetadata EXCEPT ![c] = t.metadata]
    /\ seenHashes' = [seenHashes EXCEPT ![c] =
                        @ \cup {[root |-> t.root, validUntil |-> t.validUntil]}]
    /\ UNCHANGED <<config, opCount, executed>>

-----------------------------------------------------------------------------
(* execute *)

executeAccepted(c, t) ==
    /\ opCount[c] < rootMetadata[c].postOpCount
    /\ t.op.chain = c
    /\ now <= rootValidUntil[c]
    /\ t.op.nonce = opCount[c]
    /\ t.proofOf = root[c]          \* the proof leads to the current root
    /\ t.op \in t.proofOf.ops

execute(c, t) ==
    /\ executeAccepted(c, t)
    /\ opCount' = [opCount EXCEPT ![c] = @ + 1]
    /\ executed' = [executed EXCEPT ![c] = Append(@, t.op.transaction)]
    /\ UNCHANGED <<config, root, rootValidUntil, rootMetadata, seenHashes>>

-----------------------------------------------------------------------------
(* setConfig *)

\* OutOfBoundsNumOfSigners, OutOfBoundsGroup, GroupTreeNotWellFormed,
\* SignerInDisabledGroup and OutOfBoundsGroupQuorum, and again
\* SignersAddressesMustBeStrictlyIncreasing.
setConfigAccepted(cc) ==
    /\ cc.signers # <<>>
    /\ \A k \in DOMAIN cc.signers : cc.signers[k].group < NumGroups
    /\ \A i, k \in DOMAIN cc.signers : i < k => cc.signers[i].addr < cc.signers[k].addr
    /\ cc.groupParents[1] = 0
    /\ \A i \in 2..NumGroups : cc.groupParents[i] < i - 1
    /\ \A i \in 1..NumGroups :
         LET members == Cardinality({k \in DOMAIN cc.signers : cc.signers[k].group = i - 1})
                          + Len(ChildrenOf(cc, i))
         IN IF cc.groupQuorums[i] = 0 THEN members = 0 ELSE members >= cc.groupQuorums[i]

\* A contract gets its first configuration from setConfig, too.
ASSUME DeploymentAssumption ==
    \A c \in Chain : setConfigAccepted(ExtractSetConfigInputs(InitConfig[c]))

setConfig(c, t) ==
    /\ setConfigAccepted(t.config)
    /\ config' = [config EXCEPT ![c] = t.config]
    /\ IF t.clearRoot
       THEN /\ root' = [root EXCEPT ![c] = NoRoot]
            /\ rootValidUntil' = [rootValidUntil EXCEPT ![c] = 0]
            /\ rootMetadata' = [rootMetadata EXCEPT ![c] = ClearedMetadata(c, opCount[c])]
       ELSE UNCHANGED <<root, rootValidUntil, rootMetadata>>
    /\ UNCHANGED <<opCount, seenHashes, executed>>

=============================================================================
