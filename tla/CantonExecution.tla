-------------------------- MODULE CantonExecution --------------------------
(***************************************************************************)
(* The Canton SDK (sdk/canton).  One contract holds the multisigs of the   *)
(* three roles and the timelock.  A choice archives the contract it is     *)
(* exercised on and creates its successor, under a new contract ID.  A     *)
(* call looks up the current ID of the contract, then those of the         *)
(* contracts that the operation acts on, and then submits; whatever moved  *)
(* in between makes the ledger refuse the submission.                      *)
(*                                                                         *)
(* The ledger and the Daml contracts are external.  A contract ID is the   *)
(* offset at which the contract was created.                               *)
(***************************************************************************)
EXTENDS Integers, Sequences, SequencesExt, FiniteSets, FiniteSetsExt

VARIABLES
    bound,      \* the instance: actions, batches, moves of targets, faults
    chain,      \* ledger: contract IDs, multisigs and timelock
    client,     \* the call of each caller
    faults

vars == <<bound, chain, client, faults>>

MCMSAddress == "mcms"       \* as a raw address, instanceId@party
Roles == {"Proposer", "Canceller", "Bypasser"}

\* A proposal without a timelock ("plain") is executed in the role of its caller's choice.
CantonRoleFromAction(action) ==
    [schedule |-> "Proposer", cancel |-> "Canceller", bypass |-> "Bypasser", plain |-> "Proposer"][action]

----------------------------------------------------------------------------
(* From a batch to an operation *)

\* A transaction without an address of its own in the additional fields is
\* addressed by its "to".
buildCallsFromBatch(batch) ==
    [i \in DOMAIN batch |-> [target |-> IF batch[i].address = "" THEN batch[i].to ELSE batch[i].address,
                             function |-> batch[i].function, data |-> batch[i].data]]

hashTimelockOpID(calls, predecessor, salt) == <<calls, predecessor, salt>>

OperationID(i) ==
    LET ID[n \in 0..i] ==
          IF n = 0 THEN <<>>
          ELSE hashTimelockOpID(buildCallsFromBatch(bound.batches[n]), ID[n - 1], bound.salt)
    IN  ID[i]

\* The multisig ID names the role; fields that are there are taken as they are.
MultisigId(role) == <<MCMSAddress, role>>
resolveAdditionalFieldsMetadata(metadata, action) ==
    IF metadata.multisigId # <<>> THEN metadata.multisigId ELSE MultisigId(CantonRoleFromAction(action))
extractInstanceAddressFromMultisigId(multisigId) == multisigId[1]

ActionData(i, action) ==
    CASE action = "schedule" -> [function |-> "ScheduleBatch", batch |-> i, calls |-> buildCallsFromBatch(bound.batches[i]),
                                 predecessor |-> OperationID(i - 1), salt |-> bound.salt]
      [] action = "bypass"   -> [function |-> "BypasserExecuteBatch", batch |-> i,
                                 calls |-> buildCallsFromBatch(bound.batches[i])]
      [] action = "cancel"   -> [function |-> "CancelBatch", batch |-> i, id |-> OperationID(i)]

Address(a) == [address |-> a]       \* hexadecimal, in place of a contract ID
ContractID(id) == [id |-> id]

\* The operation's own target is the MCMS contract, by address; the contract IDs
\* of the batch go with it as they are.
ConvertBatchToChainOperations(metadata, i, action) ==
    LET batch == bound.batches[i] IN
    [target |-> extractInstanceAddressFromMultisigId(resolveAdditionalFieldsMetadata(metadata, action)),
     targetCid |-> {Address(MCMSAddress)}, data |-> ActionData(i, action),
     contractIds |-> UNION {batch[t].contractIds : t \in DOMAIN batch}]

\* Contract IDs are not part of the leaf.
HashOperation(multisigId, nonce, op) == <<multisigId, nonce, op.target, op.data>>
NoRoot == {}

\* One operation per transaction, as the proposal has it.
PlainOperation(i) ==
    LET tx == bound.batches[i][1] IN
    [target |-> tx.address, targetCid |-> tx.targetCid, contractIds |-> tx.contractIds,
     data |-> [function |-> tx.function, batch |-> i]]

----------------------------------------------------------------------------
(* Reading the ledger *)

RoleState(role) == chain.roles[role]
GetOpCount(role) == RoleState(role).opCount
GetRoot(role) == RoleState(role).root

\* Before the first root, the contract's own fields stand in for the root's metadata.
GetRootMetadata(role) ==
    [start |-> GetOpCount(role),
     multisigId |-> IF RoleState(role).multisigId = <<>> THEN MultisigId(role) ELSE RoleState(role).multisigId]

findActiveContractByInstanceAddress(address) == chain.cid[address]
ResolveMCMSContractID_Cached(address) == 0
ResolveMCMSContractID(address) == findActiveContractByInstanceAddress(address)
ResolveTargetContractID(address) == findActiveContractByInstanceAddress(address)
ResolveContractIDIfInstanceAddress(cid) ==
    IF "address" \in DOMAIN cid THEN ResolveMCMSContractID(cid.address) ELSE cid.id

IsOperationReady(id) == id \in chain.pending

----------------------------------------------------------------------------
(* What the contract does *)

\* The current contracts, and every target of the calls among them, under whatever key of
\* targetCids it was handed over: ExecuteOperation keys a contract by what the operation
\* names it by, Execute by its address, and which of the two the contract looks up is its own.
CanReach(calls, cids) == \A i \in DOMAIN calls : chain.cid[calls[i].target] \in cids \cup {chain.cid[MCMSAddress]}
Targets(calls) == {calls[i].target : i \in DOMAIN calls}

AcceptsOp(role, op, cids) ==
    LET data == op.data IN
    CASE op.target # MCMSAddress -> chain.cid[op.target] \in cids
      [] data.function = "ScheduleBatch" ->
           /\ role = "Proposer"
           /\ hashTimelockOpID(data.calls, data.predecessor, data.salt) \notin chain.pending \cup chain.done
      [] data.function = "CancelBatch" -> role = "Canceller" /\ data.id \in chain.pending
      [] data.function = "BypasserExecuteBatch" -> role = "Bypasser" /\ CanReach(data.calls, cids)

Multisig(call) == RoleState(call.role)
Accepts(call) ==
    CASE call.choice = "SetRoot" ->
           /\ Multisig(call).root = NoRoot /\ call.metadata.start = Multisig(call).opCount
           /\ call.metadata.multisigId = MultisigId(call.role)
      [] call.choice = "ExecuteOp" ->
           /\ HashOperation(MultisigId(call.role), call.nonce, call.op) \in Multisig(call).root
           /\ call.nonce = Multisig(call).opCount /\ call.nonce < Multisig(call).post
           /\ AcceptsOp(call.role, call.op, call.cids)
      [] call.choice = "ExecuteScheduledBatch" ->
           LET id == hashTimelockOpID(call.calls, call.predecessor, call.salt) IN
           /\ id = call.id /\ id \in chain.pending
           /\ call.predecessor \in chain.done \cup {<<>>}
           /\ CanReach(call.calls, call.cids)
      [] call.choice = "SetConfig" -> TRUE

\* Contracts that a choice is exercised on get a new ID.
Renewed(addresses) ==
    [chain EXCEPT !.end = @ + 1, !.cid = [a \in DOMAIN @ |-> IF a \in addresses THEN chain.end + 1 ELSE @[a]]]

Committed(call) ==
    LET Moved(calls) == Renewed({MCMSAddress} \cup Targets(calls)) IN
    CASE call.choice = "SetRoot" ->
           [Renewed({MCMSAddress}) EXCEPT !.roles[call.role] =
              [@ EXCEPT !.root = call.root, !.post = call.metadata.start + call.txCount, !.multisigId = call.metadata.multisigId]]
      [] call.choice = "ExecuteOp" ->
           LET data == call.op.data
               calls == IF data.function = "BypasserExecuteBatch" THEN data.calls ELSE <<[target |-> call.op.target]>>
               next == Moved(calls) IN
           [next EXCEPT !.roles[call.role].opCount = @ + 1,
              !.pending = (CASE data.function = "ScheduleBatch" ->
                                  @ \cup {hashTimelockOpID(data.calls, data.predecessor, data.salt)}
                             [] data.function = "CancelBatch" -> @ \ {data.id}
                             [] OTHER -> @)]
      [] call.choice = "ExecuteScheduledBatch" ->
           [Moved(call.calls) EXCEPT !.pending = @ \ {call.id}, !.done = @ \cup {call.id}]
      [] call.choice = "SetConfig" -> Renewed({MCMSAddress})

\* A target is used by somebody else.
MoveTarget ==
    /\ chain.moves > 0
    /\ \E a \in DOMAIN chain.cid \ {MCMSAddress} :
         chain' = [Renewed({a}) EXCEPT !.moves = @ - 1]
    /\ UNCHANGED <<bound, client, faults>>

----------------------------------------------------------------------------
(* The calls *)

Proposals == Range(bound.actions)
Callers == {"schedule", "cancel", "bypass", "plain", "executor", "configurer"}
Idle == [stage |-> "idle"]

Start(c, call) ==
    /\ client[c] = Idle
    /\ client' = [client EXCEPT ![c] = [stage |-> "mcms"] @@ call]
    /\ UNCHANGED <<bound, chain, faults>>

ProposalOps(action) ==
    [i \in DOMAIN bound.batches |->
       IF action = "plain" THEN PlainOperation(i)
       ELSE ConvertBatchToChainOperations(GetRootMetadata(CantonRoleFromAction(action)), i, action)]

Leaves(action) ==
    {HashOperation(GetRootMetadata(CantonRoleFromAction(action)).multisigId, i - 1, ProposalOps(action)[i])
       : i \in DOMAIN ProposalOps(action)}

SetRoot(action) ==
    LET role == CantonRoleFromAction(action) IN
    /\ action \in Proposals
    /\ GetRoot(role) = NoRoot
    /\ Start(action, [choice |-> "SetRoot", root |-> Leaves(action), role |-> role, metadata |-> GetRootMetadata(role),
                      txCount |-> Len(ProposalOps(action)), contractIds |-> {}, addresses |-> {}])

\* Without a contract ID for it, the operation's target is looked up, and is the
\* only contract to reach unless others are given.
ExecuteOperation(action) ==
    LET role == CantonRoleFromAction(action)
        nonce == GetOpCount(role)
        op == ProposalOps(action)[nonce + 1]
    IN  /\ action \in Proposals
        /\ GetRoot(role) # NoRoot /\ nonce < Len(ProposalOps(action))
        /\ Start(action, [choice |-> "ExecuteOp", role |-> role, nonce |-> nonce, op |-> op,
                          contractIds |-> op.contractIds,
                          addresses |-> IF op.targetCid = {} /\ op.contractIds = {} THEN {op.target} ELSE {}])

\* Execute takes addresses from the additional fields only.  A contract ID that is
\* given is used, the others are looked up.
Execute(i) ==
    LET batch == bound.batches[i]
        calls == [t \in DOMAIN batch |-> [target |-> batch[t].address, function |-> batch[t].function,
                                          data |-> batch[t].data]]
    IN  /\ i \in DOMAIN bound.batches
        /\ IsOperationReady(OperationID(i))
        /\ Start("executor",
                 [choice |-> "ExecuteScheduledBatch", calls |-> calls, predecessor |-> OperationID(i - 1),
                  salt |-> bound.salt, id |-> hashTimelockOpID(calls, OperationID(i - 1), bound.salt),
                  contractIds |-> UNION {batch[t].targetCid : t \in DOMAIN batch},
                  addresses |-> {batch[t].address : t \in {u \in DOMAIN batch : batch[u].targetCid = {}}}])

SetConfig ==
    /\ chain.configs > 0
    /\ Start("configurer", [choice |-> "SetConfig", contractIds |-> {}, addresses |-> {}])

LookUpMCMS(c) ==
    /\ client[c].stage = "mcms"
    /\ client' = [client EXCEPT ![c] = [@ EXCEPT !.stage = "targets"] @@ [mcms |-> ResolveMCMSContractID(MCMSAddress)]]
    /\ UNCHANGED <<bound, chain, faults>>

LookUpTargets(c) ==
    /\ client[c].stage = "targets"
    /\ client' = [client EXCEPT ![c] = [@ EXCEPT !.stage = "submit"] @@
                    [cids |-> {ResolveTargetContractID(a) : a \in client[c].addresses}
                              \cup {ResolveContractIDIfInstanceAddress(cid) : cid \in client[c].contractIds}]]
    /\ UNCHANGED <<bound, chain, faults>>

\* SubmitAndWaitForTransaction: the transaction with its Created event, or an error.
Submit(c) ==
    /\ client[c].stage = "submit"
    /\ chain' = IF client[c].mcms = chain.cid[MCMSAddress] /\ Accepts(client[c])
                THEN [Committed(client[c]) EXCEPT !.configs = IF c = "configurer" THEN @ - 1 ELSE @]
                ELSE chain
    /\ client' = [client EXCEPT ![c] = Idle]
    /\ UNCHANGED <<bound, faults>>

\* A lookup or a submission fails.
Fails(c) ==
    /\ client[c] # Idle /\ faults > 0
    /\ client' = [client EXCEPT ![c] = Idle]
    /\ faults' = faults - 1
    /\ UNCHANGED <<bound, chain>>

----------------------------------------------------------------------------

TargetAddresses == UNION {Targets(buildCallsFromBatch(bound.batches[i])) : i \in DOMAIN bound.batches}

Init ==
    /\ chain = [end |-> 0, cid |-> [a \in {MCMSAddress} \cup TargetAddresses |-> 0],
                moves |-> bound.moves, configs |-> bound.configs, pending |-> {}, done |-> {},
                roles |-> [r \in Roles |-> [root |-> NoRoot, opCount |-> 0, post |-> 0, multisigId |-> <<>>]]]
    /\ client = [c \in Callers |-> Idle]
    /\ faults = bound.faults

Step(c) == LookUpMCMS(c) \/ LookUpTargets(c) \/ Submit(c)

Next ==
    \/ \E action \in Proposals : SetRoot(action) \/ ExecuteOperation(action)
    \/ \E i \in DOMAIN bound.batches : Execute(i)
    \/ SetConfig
    \/ \E c \in Callers : Step(c) \/ Fails(c)
    \/ MoveTarget

Settled ==
    /\ \A action \in Proposals \ {"cancel"} :
         GetOpCount(CantonRoleFromAction(action)) = Len(ProposalOps(action))
    /\ chain.pending = {}
=============================================================================
