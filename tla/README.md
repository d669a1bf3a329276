# A TLA+ verification of MCMS

MCMS is a Go library for governing contracts on many chains at once.  A
*proposal* lists operations for several chains; signers sign the root of one
Merkle tree over all of them; the *ManyChainMultiSig* (MCM) contract of each
chain takes the signed root and then executes the operations that concern it.
A *timelock proposal* goes through an RBACTimelock in addition: its batches are
scheduled by one MCM, wait, and are executed or cancelled.  SDKs for several
chain families do the same against chains that work quite differently.

This directory models that system.  TLC checks it on small instances, TLAPS
proves its central invariants for every instance.

## The system

| Component | State | Operations | Talks to |
|---|---|---|---|
| Merkle tree (`internal/core/merkle`) | layers, root | `NewTree`, `GetProof` | Proposal, Executable; the contract verifies its proofs |
| Proposal (`proposal.go`, `utils.go`) | the JSON document, the object | `NewProposal` with predecessors, `Validate`, `TransactionNonces`, `MerkleTree`, `SigningHash`, `WriteProposal` | encoders |
| Signable (`signable.go`) | signatures on the object | `SignAndAppend`, `CheckQuorum` | inspectors |
| Quorum configuration (`types/config.go`, `sdk/confighelpers.go`, the transformers) | a tree of groups; the contract's group arrays | `Validate`, `Equals`, `CanSetRoot`, `ExtractSetConfigInputs`, `ToConfig` | Signable, configurers, inspectors |
| Executable (`executable.go`) | cached encoders, nonces and tree, a pointer to the object | `NewExecutable`, `SetRoot`, `Execute` | executors, which submit transactions |
| MCM contract (external) | config, root, metadata, op count, seen hashes | `setRoot`, `execute`, `setConfig` | the timelock |
| TimelockProposal (`timelock_proposal.go`, `sdk/evm/timelock_converter.go`) | the object, its metadata map | `Convert`, `OperationIDs`, `DeriveCancellationProposal`, `DeriveBypassProposal` | yields an MCMS proposal |
| TimelockExecutable (`timelock_executable.go`) | cached predecessors | `NewTimelockExecutable`, `Execute`, readiness queries | timelock executors |
| RBACTimelock contract (external) | pending and done operations | `scheduleBatch`, `cancel`, `bypasserExecuteBatch`, `executeBatch` | |
| Solana SDK (`sdk/solana`) | the program ID, a global variable; accounts staged on the chain | `SetRoot`, `SetConfig`, `ExecuteOperation`, timelock `Execute`, conversion | several transactions per call |
| Aptos SDK (`sdk/aptos`) | data staged on the chain; the account's sequence number | the same | transactions that are executed after the call |
| Sui SDK (`sdk/sui`) | objects of one programmable transaction | the same | callbacks into the target packages |
| TON SDK (`sdk/ton`) | messages under way | the same | messages that are processed later and may bounce |
| Canton SDK (`sdk/canton`) | contract IDs, looked up for each call | the same | a ledger that replaces IDs on every change |
| USB wallet (`sdk/usbwallet`) | wallet object, its goroutines, the hub's list | `Open`, `Close`, `Derive`, `Accounts`, signing, enumeration | a Ledger device |

What is hard.  Most of the library holds no lock and runs in the caller's
thread; its concurrency is that of the chains.  A call submits a transaction,
which is executed later, out of order, twice or never, while another client
works on the same contract.  The Executable mixes values cached when it was
built with the live proposal.  Counters are computed twice (nonces in
`proposal.go`, the post op count in the encoder) and must agree.  Operation IDs
are hashes of a chain of predecessors and a salt, recomputed by several
functions at different times.  Cancelling races executing.  On Solana, Aptos and
Sui one call is a series of steps that share what is staged, and may stop in the
middle.  Contract IDs on Canton and pending operations on TON are read first and
relied on later.  The USB wallet is the one part with goroutines of its own: a
heartbeat and a self-deriver for each `Open`, two locks, quit channels that
`Open` replaces, and a hub beside them.

What makes it correct.  A chain runs one proposal's operations at a time, in
the proposal's order, each once; a root can always be worked off; a positive
quorum check means the root is accepted; the configuration in the contract is
the one that was written down; a queued proposal starts where its predecessors
end; batches run in order and after their delay; a cancellation cancels what was
scheduled; what a failed call leaves behind is never mixed into another; a
caller that tries again gets done; the device is spoken to by one at a time.
`PROJECT.json` lists the hazards line by line with the properties that cover
each.

## Modules

| Module | Models |
|---|---|
| `MerkleTree` | `tree.go`.  One step per iteration of `NewTree`'s and `GetProof`'s loops, then the contract's fold of the proof.  Hashes are numbers and may collide. |
| `QuorumConfig` | Trees of groups and the contract's arrays, as recursive functions on the groups of one configuration.  `MaxDepth` bounds how deep groups are nested, and is no less than `NumGroups` arrays can hold. |
| `Proposal` | Operators on a proposal: counts, nonces, encoders, leaves, tree, signing hash, validation, queueing, quorum, signature order.  Extends `QuorumConfig`. |
| `ManyChainMultiSig` | The MCM contract of each chain (external): what the bindings and the error decoders say `setRoot`, `execute` and `setConfig` check. |
| `ProposalExecution` | The system of proposals, composed of the two above: `file`, `proposals` and `executables` are disk, memory and the `Executable`s; `mempool` the submitted transactions. |
| `OrderedExecution` | The abstract specification of the above: each chain works through a queue. |
| `TimelockProposal` | Operators on a timelock proposal: salt, operation IDs, predecessors, `Convert`. |
| `RBACTimelock` | The timelock of each chain (external). |
| `TimelockExecution` | Timelock proposals at work.  Its MCMs are those of `OrderedExecution`: each has a queue and runs it in order, so that `ImplementsOrderedExecution` is what justifies this composition. |
| `SolanaExecution` | Solana calls as series of transactions that are confirmed, refused, given up on (and may land later) or land unnoticed; conversion of batches into pieces. |
| `AptosExecution`, `CantonExecution`, `SuiExecution`, `TonExecution` | One chain family each: conversion, executors, and the chain (external). |
| `ChainFamilies` | The four behind the interfaces of package `sdk`: a caller sees `SetRoot`, `ExecuteOperation` and `Execute`, and the properties speak of those. |
| `USBWallet` | The wallet: owner, callers, heartbeats, self-derivers, hub. |
| `MC*` | Finite instances. |
| `Enumeration` | Finite sets of numbers in order, as the operations of one chain and the transactions of one batch are listed. |
| `*_proofs` | Theorems. |

### Abstractions

Hashes are injective in all modules but `MerkleTree`: a leaf is the record it
encodes, a root the set of its leaves, and a leaf has a proof exactly if it is in
the set, which is what `MerkleTree` establishes of the tree.  A signature is its
signer, the hash it signs, and a *blob* that tells apart two signatures of one
signer over one hash; recovered under another hash it yields an address that is
nobody's.  Payloads, addresses and metadata other than op counts are opaque.
There is one MCM per chain (and per role, in `TimelockExecution`).  The encoders
inside the executors are the proposal's own, as `GetEncoders` returns them.
Durations are milliseconds and lose their fraction when converted to the
timelock's seconds, as in the code.

**Proposals.**  Submitting (`SetRoot`, `Execute`, `SetConfig`) and mining
(`MineSetRoot`, `MineExecute`, `MineSetConfig`, `Revert`, `Lose`) are separate
steps.  `Restart` loses `proposals` and `executables` and keeps files, mempool
and chains.  `EditValidUntil` is a caller that assigns the exported field of a
proposal that already has an Executable.

**Quorum.**  `SetConfig` submits `ExtractSetConfigInputs` of a tree, the contract
keeps the arrays and evaluates them itself (`QuorumReached`), and `CheckQuorum`
reads a tree back with `ToConfig`; nothing ties the three but the arrays.  The
arrays are cut at `NumGroups` (32 in the code) without the error that the comment
of `ExtractSetConfigInputs` speaks of; the contract refuses a signer in a group
that is not there, so the transaction reverts, and a group beyond the arrays is
among the configurations that are submitted.  `Equals` matches each
group with some group of the other and compares in one direction only ("the
reverse is not necessary"), so that groups may be listed in another order, and
configurations that differ in how often a group is repeated are equal as well.
`EqualConfigsAgree` says that equal configurations on chains let the same signers
set a root.  In the run, a contract may have two groups in either order: different
arrays, equal trees.  A repeated group repeats its signers, which `setConfig`
refuses, so that case never gets onto a chain; that this is enough is proved
(`EqualConfigsDecideAlike`) and not run.

**Timelock.**  A derived proposal shares the metadata map of the original
(`chainMetadata` is indexed by the schedule proposal only), because
`deriveNewProposal` copies the struct and not the map.  At most `MaxDerived`
proposals are derived in one behaviour; a derived proposal is valid until
`DefaultValidUntil` after it was derived, and its roots expire.  `Edit` is the
client that the comment in `OperationIDs` speaks of ("a caching strategy that doesn't break when clients
manually update ValidUntil, SaltOverride, etc."):
it sets the two fields of the live proposal, before or after an executable was
made, a proposal derived or converted.  `Execute` uses the predecessors that
`NewTimelockExecutable` cached and the salt of the moment, as the code does.
`madeWith`, the salt an executable was made with, is history for the property
`ReadyMeansExecutable` and is read by no action.  Each proposal is converted
once.  Only schedule proposals are edited: a client that edits a derived proposal
has the same effect on its IDs as one that edits before deriving.

**Solana.**  Programs are external: accounts that are opened, appended to,
finalised and used.  Data is its length and pieces are intervals of it; the sizes
of transactions and chunks are the code's numbers.  Accounts keep the flags that
decide whether the hash of an operation matches.  `job` holds the transactions a
call has still to send, `programID` the variable that a transaction reads when it
is built.  The metadata may name the account that will pay for the bypass
(`ExecutePayer`, optional: `executePayer` of the instance, or `NoPayer`), and the
conversion marks that account as a signer only if it is named.  Who then pays is
the executor's own key (`auth`), which nothing ties to the metadata.  The hash of
the operation holds if, of the accounts of the batch, those that the converter
marked are those that sign.  If not, the operation is refused, as
`e2e/tests/solana/timelock_bypass_payer_collision.go` documents
(`ProofCannotBeVerified`); as in that test, the payer's account in the batch is a
writable one.

**Aptos.**  Sequence numbers are counted from the account's next one, so that they
stay small.  `MaxStaged` bounds what the contract keeps staged.  What a failure
between two chunks leaves staged is never cleared by the code, and operations
staged after it do not get through; the instance in which that happens is explored
with `live = FALSE`, and nothing is claimed of its progress.

**Canton.**  A contract ID is the offset at which the contract was created.  A
call is three steps (look up the MCMS contract, look up the targets, submit);
others exercise choices in between.  `SetConfig` is modelled without `clearRoot`.
Two things the code does not do as its comments say are followed as the code has
them: `findActiveContractByInstanceAddress` takes the latest of several active
contracts (the comment promises an error), and `Execute` hashes the address of the
additional fields only, while the converter falls back to `tx.To`, so that the
operation IDs differ for a transaction without that field (the comment says "same
opId hash as converter").  The instances give the field.  The targets of a call
are handed over as a set of contract IDs.  The code hands over a map, which
`ExecuteOperation` keys by what the operation names the contract by and the
timelock's `Execute` by instance address; which key the contract looks up is
decided in Daml code that is not in the repository, so keys are left out and the
external `CanReach` asks for the right ID under any.  That a later entry of the map
replaces an earlier one with the same key is left out with them.

**Sui.**  Commands run one by one on the objects of the transaction, which must
all be used up in the end.  A call is made on the object its own parameters name
(`call.StateObj`), except one into the `mcms_account` module: `processCall` makes it
on the account object the executor was built with and does not look at the call's.
In the instance, the account call names another object than that.  An upgrade needs compiled modules that a bypass does
not carry along: upgrades are scheduled, not bypassed, in the instances.

**TON.**  Time is what is left of each wait.  `Finalization` is how long an
operation stays pending in the contract.  `SendTx` returns when the message has
left the wallet.  A *patient* caller lets a message arrive before the next call.

**USB wallet.**  One thread opens and closes the wallet.  A section under the
write lock is one step that needs the readers to be gone; a section under the
read lock that waits for the device is several.  A writer that waits keeps new
readers out, as `sync.RWMutex` has it.  The three channels `Open` makes are one
generation number; a goroutine waits on the generation it read when it entered its
`select`.  Two threads in `Close` at once are not modelled: the second may
have read channels whose goroutines the first has ended, and waits for ever.

## Runs

| Run | Question | Bounds, and why they are enough |
|---|---|---|
| `merkle` | Does every leaf, and no other hash, get a proof that verifies, of logarithmic length? | All lists of up to 7 of 3 leaf hashes: odd layers on every level, repeated leaves, the empty and the one-leaf tree; queries include an inner node and a foreign hash. |
| `execution_competing` | Does a chain run one proposal's operations in order whatever is submitted? | 2 chains, p1 with operations of both interleaved, p2, signed in its file, overriding p1's root part way, a reconfiguration that clears the root, 2 pending transactions per chain (one may overtake another); roots expire at time 1 of 2. |
| `execution_signing` | Does a positive quorum check predict `SetRoot`, and do the arrays mean what the tree says? | One operation, 3 signers, groups two levels deep, up to 2 signatures, in any order and over an old `ValidUntil`.  Reconfigurations: two accepted ones with the same groups in different orders, equal though their arrays differ, and one with a group too many for the arrays, which are 4 long.  A restart; the clock passes the `ValidUntil` in the file and not the edited one. |
| `execution_queue` | Do queued proposals fit, and is every root worked off? | A queue of 3 (the third sums two predecessors), written back and reloaded, one lost transaction, one restart.  No root expires: the clock stops at the proposals' `validUntil`.  The first proposal comes signed, so that its execution and the signing of the others interleave. |
| `timelock` | Do batches run in order, once, after the delay; does a derived proposal do what it should; is every batch settled? | 3 batches of 2 chains interleaved, the same calls twice on one, a delay of 1.5 s, a cancellation or a bypass derived at any time, `ValidUntil` (and with it the salt) edited at any time.  The proposal is valid at time 0, or 0 and 1 once edited, a derived one for 1 more, and the clock goes to 2: roots of either expire with operations left in the queue. |
| `wallet` | Do the goroutines of the wallet keep out of each other's way, and does `Close` return? | Four instances: opened, torn down and opened again with a caller that signs; one session that derives on two bases; two callers and a refresher; the hub while devices come and go.  A payload of 258 bytes, one of those (255 to 258) that the largest block size would split badly.  The device's app is 1.5.0, which signs messages and transactions; that an older one is refused transactions is in the model and not in an instance. |
| `solana` | Does a series of transactions do what one call should, whatever fails? | Twelve instances: one thread with up to 3 faults; schedule and bypass of a batch with data lengths around the chunk size; four more bypasses that differ in whom the metadata names as payer (nobody, the one who pays, another) and whether that account and the one who pays are in the batch; two programs; two threads with one key, with two, and on two programs; two configurations with 3 faults.  Signatures and signers take two chunks. |
| `chain_families` | Do callers of the other families get all batches done, each call with what is meant for it? | Two batches in every role.  Aptos: lengths below, at and above the chunk size, with and without staging, expiry and foreign use of the account.  Canton: targets looked up and given, others moving them, a reconfiguration.  Sui: two calls of one module with different objects, a call of the account module that names another object than the executor's, an upgraded target, an upgrade.  TON: patient and impatient callers, waiting and not, a bounced operation. |

The clock (`MaxTime`), signatures, pending transactions, restarts, losses, opens
and faults are bounded by constants of the modules or fields of the instance.  What the bounds
leave out and a property could see: roots expire only where the clock can pass
their `validUntil` (`execution_competing`, `execution_signing` and `timelock`; not in
`execution_queue`, whose liveness is that of roots that stay valid); liveness is that
of finitely many losses, faults, edits, derivations and reconfigurations, each
bounded; and in `timelock` there is one edit and one derived proposal, so that a
batch is cancelled or bypassed and not both.  Theorems hold without bounds, and
among them are all safety properties of `timelock`.  Deadlock is not checked: a client may stop, and all
runs end when the bounds are used up.

Four runs show where the code does not do what its comments say.

* `duplicate_signers`: `Validate` is to "ensure there are no duplicate signers"
  and compares the bytes of signatures.  Two signatures of one signer pass.
* `derive_alias`: `deriveNewProposal` says "we don't want to affect the original
  proposal" and writes the new MCM addresses into the original's metadata map,
  also when it fails part way.
* `salt_same_second`: `Salt` "returns a unique salt for the proposal", made from
  `ValidUntil` alone.  Two proposals with one `ValidUntil` and the same first
  batch collide, and the second blocks its MCM.
* `hub_refresh`: `refreshWallets` says it drops "wallets in front of the next
  device or those that failed" and drops only those that are both.  A wallet that
  was unplugged and has not failed yet makes the hub lose the ones behind it.

### What some of the properties leave open

* `OnlyTeardownPanics`.  `selfDerive` writes to the wallet's map after giving up
  the read lock and without looking at the device again.  The property says that
  `Close` can never clear the map under it; a teardown by the heartbeat can, and
  the model lets the process crash then.
* `ReadyMeansExecutable`.  Not every batch that `IsOperationReady` reports as ready
  can be executed: after an edit of the salt, readiness is computed from the live
  proposal, `Execute` takes the predecessor from the cache, and the timelock finds
  no such operation.  The property says exactly when: the executable was made
  under another salt, and the batch has one before it on its chain.  A new
  executable mends it.
* `ScheduledBatchIsSettled`.  A batch may stay pending for ever in two cases, which
  the property names.  The salt it was scheduled with may have been edited away.
  Or it is `Stranded`: the root of a derived cancellation expired after the batch
  before it was cancelled, so that it waits for an operation that will never be
  done, and `deriveNewProposal` gives a root one `DefaultValidUntil` and no more.  Setting
  the old salt again helps in the first case.  In the second, deriving once more
  does not: the new cancellation begins with an operation that is no longer pending,
  and the timelock refuses it.
* `CancellationIsTotal`.  It speaks of cancellations carried out to the end.  One
  derived under another salt than the one scheduled is not: its first operation on each
  chain is refused, and its root expires.
* `ConvertedBatchIsAccepted`.  A bypass whose payer is an account of the batch and is
  not named in the metadata (or where another account of the batch is named) is
  refused.  The property says that this is the only case, and `SetRootRecovers`
  excludes the operation that is then left.
* `SequentialCallsReachTheirProgram`.  Two threads that work on two Solana
  programs may send a transaction to the wrong one, because all share the
  bindings' program ID; the transaction is refused.  Calls that do not overlap
  are safe.
* `ConfigIsWhole`.  A failed Solana `SetConfig` leaves signers staged and has no
  way of its own to clear them: the next one fails at once.  No configuration is
  ever made of the signers of two.
* `SetRootRecovers`.  `SetRoot` in contrast clears what it finds staged and tries
  again.  Two threads with the same key can clear each other's signatures for
  ever, so that instance claims no progress.

### Fairness

`RootIsWorkedOff` assumes that a client that lost its memory loads the proposal
and builds an Executable again, that it keeps calling `Execute` for every index
(strong fairness: the call is disabled whenever the mempool's bound is
reached), and that a chain mines, with or without effect, what was submitted.
The library has no retry loop of its own; this is its documented use.  Losses
are bounded, so one transaction is not dropped for ever.  Setting a root,
signing and reconfiguring are not assumed to happen.

`ScheduledBatchIsSettled` assumes that the client builds a new
`TimelockExecutable` when it has edited its proposal and keeps calling `Execute`,
that someone executes the operations of a root that was set, while it is valid, and
that time passes.  Editing, deriving and setting roots are not assumed.

`SetRootRecovers` and the properties of `ChainFamilies` assume callers that keep
making each call that is due (strong fairness in `ChainFamilies`, where other
callers get in between), calls that end, chains that get to what was sent, and
time that passes.  Faults, moves of others and reconfigurations are not assumed
and are bounded.

`CloseReturns` assumes that goroutines and calls in progress go on, strongly where
they wait for a lock or a channel (Go's runtime serves who waits).  That the user
answers the device is a premise of the property and not fairness; opening,
closing, and starting calls are not assumed.

## Proofs

Theorems hold for every value of the constants under the named assumptions of the
modules, which TLC evaluates in the runs.  An invariant that a run checks is
seldom inductive; what is added to it, and why, is the substance of each proof.

Induction over data is done without the library's induction theorems, whose
operator parameters the provers cannot instantiate: a set of numbers that is not
empty has a least element (`LeastNatural`), so a set that contains 0 and with each
number the next contains all (`UpwardInduction`, and `DownwardInduction` for
recursion from high group numbers to low).  That a recursive function satisfies its
equation is itself proved so: functions on the first n numbers, levels or groups
exist for each n, and the `CHOOSE` of the definition picks the one for all.

| Module | Theorems |
|---|---|
| `MerkleTree_proofs` | `TreeInvariant`, `LeavesAreProvable`, `NonLeavesHaveNoProof`, `ProofsAreLogarithmic` |
| `QuorumConfig_proofs` | `TreeDecidesAsContract`, `EqualConfigsDecideAlike`, `StoredConfigsMeanTheSame` |
| `ProposalExecution_proofs` | `ExecutionInvariant`, `OperationsInOrder`, `ExhaustedRoots`, `RootsAreNeverStuck`; `RootsHaveOrigin`, `ExecutionIsOrdered`; `QueuesFit`; `QuorumChecksAreKept`, `EqualConfigs`, `ConfigsMeanWhatWasSet` |
| `TimelockExecution_proofs` | `TimelockInvariant`, `CancellationsAreOnTarget`, `ReadyBatchesExecute`, `BatchesInOrder`; with distinct salts `DelaysAreHonoured`, `SchedulesAreNeverBlocked`, `CancellationsAreTotal` |
| `USBWallet_proofs` | `CommsAreExclusive`, `ConfirmationsAreUndisturbed`, `PanicsFollowTeardowns`, `MessagesArriveWhole`, `NoAccountIsPassedOver` |
| `SolanaExecution_proofs` | `SuccessesAreReal`, `SequentialCallsAreSafe`, `ConfigsAreWhole` |
| `ChainFamilies_proofs` | `TonTimeliness`, `SuiObjects` |
| `Enumeration_proofs` | lemmas the others share: least elements, ranks, that `Ascending(S)` lists a finite set of numbers in order, and where the elements of flattened sequences are |

### Merkle tree

For every hash set, every function from pairs of hashes to hashes, and all leaf
lists and queries (`HashAssumption`, `InputAssumption`):

* `TreeInvariant`: `Spec => []IInv`.  The property `EveryLeafIsProvable` is
  about the end of three loops and not inductive.  The invariant adds that
  each recorded layer is even and the parent of every node of it, computed with
  the sibling `j ^ 1`, is a node of the layer above (`ParentsAreAbove`), that
  the leaves are the lowest layer, that `GetProof`'s target is a node of the
  layer it is about to search (`TargetIsOnPath`), and that the verifier's
  running hash is the target `GetProof` had at that height
  (`TargetsFoldProof`, `Phases`).  That the first match may be another
  occurrence of the hash does not matter, as the invariant speaks of all.
* `LeavesAreProvable`: `Spec => []EveryLeafIsProvable`.
* `NonLeavesHaveNoProof`: `Spec => []OnlyLeavesAreProvable`.  `LowestLayer`:
  padding repeats a leaf and adds none, and a proof is begun only with a hash
  found in the lowest layer.
* `ProofsAreLogarithmic`: `Spec => []ProofIsLogarithmic`.  `LayerSizes`: above `k`
  layers there are as many nodes as leaves over `2^k`, rounded up, and the
  layer below was not the last.  Powers of two are a recursive function whose
  defining equation is itself proved (`Pow2Facts`).

### Proposals

For any sets of chains, proposals, signers, transactions and reconfigurations and
any bounds (`QuorumAssumption`, `ProposalAssumption`, `ContractAssumption`,
`ExecutionAssumption`: constants have their types, the initial files are
well-formed proposals, the null values are not proposals or roots;
`ConfigurationsAssumption`: the configurations that contracts are given are trees
of groups that `Validate` accepts, as `NewConfig` returns them; `DeploymentAssumption`:
the first one of each contract has passed `setConfig`):

* `ExecutionInvariant`: `Spec => []IInv`, with `TypeOK`; `CachesAreCurrent`, that
  whatever a client does between building an Executable and using it leaves
  the tree, nonces and encoders of the proposal as they were cached; and
  `RanFromRoot`, that counters, root and history of a chain agree.
* `OperationsInOrder`: `Spec => []OpsRunInProposalOrder`.  `RanFromRoot` gives for
  each nonce passed a leaf of the root with the transaction executed.  The
  root is the tree of the proposal, so the leaf is one of its operations; two
  operations of one chain have different local indices (`LocalIndex` is
  injective, by cardinalities of initial segments), so it is the operation
  with that index.
* `ExhaustedRoots`: `Spec => []ExhaustedRootRanEverything`.  A local index is less
  than the chain's count, and the last operation of a chain has the last one.
* `RootsAreNeverStuck`: `Spec => []AlwaysAnExecutableOp`.  Local indices leave no
  gap (a rank below the cardinality is taken), so the op count of an unexhausted
  root is the nonce of an operation, whose leaf is in the cached tree.
* `RootsHaveOrigin`: `Spec => []Origin`.  No step changes the operations of a
  proposal, so every root submitted or set is the tree of some file's operations.
* `ExecutionIsOrdered`: `Spec => ImplementsOrderedExecution`.  The queue of a
  chain is mapped to the leaves of its root from the op count on.  `MineSetRoot`
  maps to replacing the queue by one proposal's list (by `Origin`, in the order
  of the operations), `MineExecute` to taking its head, `MineSetConfig` with
  `clearRoot` to emptying it, everything else to a stutter.
* `QueuesFit`: `Spec => []QueuedProposalFits` for `QueuedInOrder` queues: the k-th
  predecessor of a proposal is queued behind the k - 1 before it.  The code does
  not check this, and without it the statement is not true: a predecessor that
  was itself loaded behind other files starts elsewhere.  The instance of
  `execution_queue` satisfies it.  `StartsAreStable` is the inductive part: a
  reload after `WriteProposal` finds op counts that an earlier load wrote into the
  predecessors' files, and sums to the same start.

* `QuorumChecksAreKept`: `Spec => []QuorumCheckPredictsSetRoot`, if signing is
  deterministic (`Blob` has one element; two signatures of one signer are what the
  run `duplicate_signers` shows to go wrong).  The cached tree is the proposal's
  (`CachesAreCurrent`), signatures of different signers are strictly increasing once
  they are sorted, and the contract decides as the tree that `CheckQuorum` read.
* `EqualConfigs`: `Spec => []EqualConfigsAgree`, and `ConfigsMeanWhatWasSet`:
  `Spec => []ConfigMeansWhatWasSet`.  `ConfigAccepted`: a contract never has arrays
  that `setConfig` would refuse.  The rest is about configurations, below.

### Quorum

For every tree of groups and every set of group arrays, whatever their number and
nesting (`QuorumAssumption`, whose `NumGroups <= MaxDepth + 1` says that the bound
on nesting cuts no tree short that fits into the arrays):

* `TreeDecidesAsContract`: for arrays that `setConfig` accepts, `CanSetRoot` of the
  tree that `ToConfig` reads agrees with the contract, which climbs the arrays.  A
  group's number is greater than its parent's, so the induction is downward over
  group numbers.
* `EqualConfigsDecideAlike`: if two accepted sets of arrays read back as `Equal`
  trees, they accept the same signers.  `Equals` matches each group with *some*
  group of the other; that two groups are never matched with one
  (`EqualIsOneToOne`) follows because every group has signers somewhere below, and
  no signer is in two groups of arrays whose signers strictly increase.
* `ArraysAreTyped`, `StoredConfigsMeanTheSame`: what `ExtractSetConfigInputs` makes of
  any tree is arrays of the contract; if the tree is valid and the arrays are
  accepted, the contract lets the signers set a root that `CanSetRoot` of the tree
  lets, and `ToConfig` reads an equal tree back.  `Represents`: there is a numbering
  of the groups, each after its parent and each child place taken once, by which
  `extractGroupsAndSigners` has listed them (`NumberGroups`, by induction over the
  depth and, for each group, over the groups below it); `Holds`: the list of signers
  has every signer of every group once; sorting is a permutation.  That the arrays
  are cut off silently does no harm, since the last group has signers, which
  `setConfig` refuses without their group (`LastEntryHasSigners`).

### Timelock

For any sets of proposals, chains, batches and edits (`TimelockAssumption`; its
last two conjuncts say that a salt is never nil and that no operation of any
*version* of a proposal, as built or as edited, hashes to zero):

* `TimelockInvariant`: `Spec => []TimelockInv`, of four parts: types; `ObjectInv`,
  that each object (the live proposal, one derived or converted from it, an
  executable's predecessors) has the operation IDs of one version of it, whole,
  although they were made at different times; `QueueInv`, that an MCM's queue
  holds batches of approved conversions; `LogInv`, that the log and the pending
  and done operations of a timelock agree and that an operation is done after its
  predecessor.
* `CancellationsAreOnTarget`, `ReadyBatchesExecute`, `BatchesInOrder` follow for
  all proposals, also those that share salts: operation IDs of one version
  differ because each contains its predecessor, those of two versions because
  their salts do, in every link of the chain.  `ReadyBatchesExecute` is an
  equivalence, for whatever edits there are between making an executable and using
  it: a cached predecessor is the live one exactly if it is nil or was computed with
  the live salt.
* `DelaysAreHonoured` (`DelayInv`: for a pending or executed operation there is an
  entry in the log that scheduled it, long enough ago), `SchedulesAreNeverBlocked`
  (`FreshInv`: what waits in a queue to be scheduled is unknown to the timelock
  and queued once) and `CancellationsAreTotal` (`CancelInv`: a batch of an approved
  cancellation is still to be cancelled, or gone for good) assume `DistinctSalts`:
  two proposals have different salts, in all their versions.  That is what the comment of `Salt` promises
  and the code does not enforce; the run `salt_same_second` shows what happens
  without it.  The instance of `timelock` has one proposal; here any number of
  proposals with different salts are edited and share MCMs and timelocks.

### USB wallet

For any number of sessions, callers, refreshers and payload lengths
(`WalletAssumption`; `BlockAssumption`: for each payload length some block size
leaves a last block that is long enough, without which the code's search would
run down to zero):

* `CommsAreExclusive` by `LockInv`: who is in an exchange holds the one token of
  `commsLock`, and who holds the read lock keeps the device open.
* `ConfirmationsAreUndisturbed` by `PendInv`, that `commsPend` is one exactly while
  a caller is between raising and lowering it and that enumeration begins at
  zero, and `RequestInv`, that a busy self-deriver has a waiting caller of its own.
* `PanicsFollowTeardowns` by `SessionInv`: until a heartbeat tears down, the device
  is open exactly while the channels are there, no self-deriver is left over
  from an earlier session, and `Close` takes the lock after the last has ended.
* `MessagesArriveWhole` by `MessageInv`: the device has got exactly what the one
  sender has sent, and what is left to send is cut into whole blocks and one
  last of more than `Eip155Size` bytes.
* `NoAccountIsPassedOver` by `FirstSessionInv`: what a round of self-derivation has
  found and not yet inserted, with what is tracked, leaves no gap.

### Solana

For any number of threads, programs, signatures, signers, chunk sizes and faults
(`SolanaAssumption`: chunk sizes are positive, signatures and configurations are
sequences).  All rest on `JobInv`: what a call has still to send fits the call
(for `SetRoot`, signature transactions and the one that sets the root last; for
`SetConfig`, exactly the steps of one configuration from some point on).

* `SuccessesAreReal` by `SuccessInv`: a call succeeds only with its last
  transaction, and roots stay set.
* `SequentialCallsAreSafe` by `ProgramInv`: a lone call has set the program ID, or
  is the timelock's and does not use it.
* `ConfigsAreWhole` by `SignersInv`: at most one call or transaction in flight can
  still add to the staged signers or use them (the account is opened only while
  there is none), and what is staged is the configuration up to the point that
  call has reached; the chunks join up to the whole (`Stages`).

### Chain families

* `TonTimeliness`: `Spec => []TonCallsAreTimely`, for any proposals, finalization
  time (`FinalizationAssumption`) and faults.  `TonPatience` follows a message from
  the call to its arrival: while the call waits, nothing is under way and its
  contract is pending no longer than is left of the wait; once sent, it is the only
  message, and its destination has nothing pending.
* `SuiObjects`: `Spec => []SuiCallsGetTheirObjects`, for any number and length of
  batches, upgrades among them, any packages and faults.  `SuiAssumption`: batches
  are sequences of sequences of transactions, actions are the three there are, and
  a behaviour that bypasses the timelock does not schedule as well, since the
  property counts what was run by one or the other.
  The argument has two parts.  Within a transaction, the state is followed command by command
  (`SuiStates`): the commands of one call take its parameter from the front of the
  vector and pass it on with the object meant for it (`ObjectOf`: the executor's
  account object for an account call, else the call's own), or abort (`SuiCallRuns`), so
  after the commands of the first k calls those k were made, in order, and the
  parameters of the rest are left (`SuiCallsRun`, by induction; `FlattenedElements`
  says which command of the transaction belongs to which call).  This holds from
  both starts: the batch that was scheduled, and the one a bypass reads back from
  the signed data.  Between transactions, `SuiOrder` is the invariant: what is
  about to be sent is one of the transactions the calls put together, and the done
  operations are the first n, those pending are later ones, and what was run is the
  calls of the first n batches.  It needs that the ids of the batches differ
  (`SuiIDsDiffer`), which holds without an assumption, as each holds the one before
  it.

### Only model-checked

* Everything under fairness (`RootIsWorkedOff`, `ScheduledBatchIsSettled`,
  `SetRootRecovers`, `CloseReturns`, the liveness of `ChainFamilies`): the prover
  does not cover it.
* `ConvertedBatchIsAccepted`: the staged account would have to be followed through the
  pieces of all instructions, joined by a fold of the community modules.

## Not modelled

* Decoders, simulators, error formatting, builders, factories, chain wrappers,
  byte and cell layouts (Stellar is an encoder only), generated bindings, mocks,
  tests: they keep no state that the properties are about.  Gas and fees.
* `merge.go`: it combines two objects in memory before any of the modelled steps.
  One thing in it deserves care: it takes over the pointer to the other
  proposal's salt, and a later merge changes that salt in place.
* Loading and queueing of timelock proposals.  `TransactionCounts` counts their
  transactions, while the EVM converter makes one operation per batch; a queue of
  timelock proposals needs a notion of operation per family.
* Configurers of Aptos, Sui and TON (one transaction each), listing of roles, the
  updater loop and the subscriptions of the wallet's hub, packet framing.

## What is left

1. `ConvertedBatchIsAccepted` as a theorem.
2. Loading and queueing of timelock proposals, with a notion of operation for each
   family.
3. The configurers of the other families, as they come to do more than one
   transaction.
