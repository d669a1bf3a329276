---------------------------- MODULE SuiExecution ----------------------------
(***************************************************************************)
(* The Sui SDK (sdk/sui).  A call is one programmable transaction: the     *)
(* multisig or the timelock hands out a vector of parameters, one for each *)
(* call of the batch, and the commands that follow take them out one by    *)
(* one and pass them to the function they are for.  Parameters, upgrade    *)
(* tickets and receipts must all be used up, or the transaction fails as a *)
(* whole.  The commands are put together from the proposal, the parameters *)
(* come from what was signed.                                              *)
(*                                                                         *)
(* The chain and the Move packages are external.                           *)
(***************************************************************************)
EXTENDS Integers, Sequences, SequencesExt, FiniteSets, FiniteSetsExt

VARIABLES
    bound,      \* the instance: actions, batches, the executor's account object, faults
    chain,      \* multisigs, timelock and the calls that were run
    client,     \* the transaction about to be sent
    faults

vars == <<bound, chain, client, faults>>

MCMSPackage == "mcms"
\* A transaction of a batch: where it goes, what is signed of it, and what travels beside.
Transaction ==
    [to : STRING, latest : STRING, module : STRING, function : STRING, stateObj : STRING, data : STRING, modules : STRING]
Roles == {"bypasser", "canceller", "proposer"}
TimelockRole == [bypass |-> "bypasser", schedule |-> "proposer", cancel |-> "canceller"]
Proposals == Range(bound.actions)

----------------------------------------------------------------------------
(* From a batch to an operation *)

\* What is hashed, signed and handed out as a parameter.
SignedCall(tx) == [target |-> tx.to, module |-> tx.module, function |-> tx.function, data |-> tx.data]
SignedCalls(batch) == [i \in DOMAIN batch |-> SignedCall(batch[i])]

HashOperationBatch(calls, predecessor, salt) == <<calls, predecessor, salt>>
OperationIDs ==
    LET ID[n \in 0..Len(bound.batches)] ==
          IF n = 0 THEN <<>> ELSE HashOperationBatch(SignedCalls(bound.batches[n]), ID[n - 1], bound.salt)
    IN  ID
OperationID(i) == OperationIDs[i]

serializeTimelockScheduleBatch(i) ==
    [calls |-> SignedCalls(bound.batches[i]), predecessor |-> OperationID(i - 1), salt |-> bound.salt]
serializeTimelockCancel(i) == [id |-> OperationID(i)]
serializeTimelockBypasserExecuteBatch(i) == [calls |-> SignedCalls(bound.batches[i])]

\* State objects and latest packages travel beside the signed data.
ConvertBatchToChainOperations(i, action) ==
    LET batch == bound.batches[i] IN
    [function |-> [schedule |-> "timelock_schedule_batch", cancel |-> "timelock_cancel",
                   bypass |-> "timelock_bypasser_execute_batch"][action],
     data |-> CASE action = "schedule" -> serializeTimelockScheduleBatch(i)
                [] action = "cancel" -> serializeTimelockCancel(i)
                [] action = "bypass" -> serializeTimelockBypasserExecuteBatch(i),
     stateObjs |-> [t \in DOMAIN batch |-> batch[t].stateObj],
     latest |-> [t \in DOMAIN batch |-> batch[t].latest]]
Ops(action) == [i \in DOMAIN bound.batches |-> ConvertBatchToChainOperations(i, action)]

HashOperation(role, nonce, op) == <<role, nonce, op.function, op.data>>
Leaves(action) == {HashOperation(TimelockRole[action], i - 1, Ops(action)[i]) : i \in DOMAIN Ops(action)}
NoRoot == {}
HashMetadata(action) == [role |-> TimelockRole[action], pre |-> 0, post |-> Len(Ops(action))]

----------------------------------------------------------------------------
(* The commands of a transaction *)

Latest(call, latest) == IF latest = "" THEN call.target ELSE latest

extractExecutingCallbackParams_FromEnd == [cmd |-> "remove", from |-> "end"]
extractExecutingCallbackParams == [cmd |-> "remove", from |-> "start"]
closeExecutingCallbackParams == [cmd |-> "destroy_empty"]

Dispatch(via, call) == [cmd |-> "dispatch", via |-> via, target |-> call.target, module |-> call.module,
                        stateObj |-> call.stateObj]

\* An upgrade: a ticket from the deployer, the upgrade, and the receipt back to it.
processMCMSDeployerCall_Uncommitted(call) ==
    <<Dispatch("deployer", call), [cmd |-> "upgrade", modules |-> call.modules]>>
processMCMSDeployerCall(call) ==
    <<Dispatch("deployer", call), [cmd |-> "upgrade", modules |-> call.modules], [cmd |-> "commit_upgrade"]>>
\* On the executor's own account object, whatever object the call names.
processMCMSAccountCall(call) == <<[Dispatch("account", call) EXCEPT !.stateObj = bound.accountObj]>>
processMCMSMainModuleCall(call) == <<Dispatch("main", call)>>
processDestinationContractCall(call) == <<Dispatch("entrypoint", call)>>

\* A target is the MCMS package by the address that is called, not by the one signed.
processCall(call) ==
    <<extractExecutingCallbackParams>> \o
    CASE call.target = MCMSPackage /\ call.module = "mcms_deployer" -> processMCMSDeployerCall(call)
      [] call.target = MCMSPackage /\ call.module = "mcms_account" -> processMCMSAccountCall(call)
      [] call.target = MCMSPackage /\ call.module \notin {"mcms_deployer", "mcms_account"} ->
           processMCMSMainModuleCall(call)
      [] call.target # MCMSPackage -> processDestinationContractCall(call)

\* The deployer takes upgrades only, the main module what it can be dispatched to.
Supported(call) ==
    call.target = MCMSPackage =>
        CASE call.module = "mcms_deployer" -> call.function = "authorize_upgrade"
          [] call.module = "mcms_account" -> TRUE
          [] OTHER -> call.function \in {"set_config", "timelock_cancel", "timelock_update_min_delay"}

AppendPTB(calls) ==
    FlattenSeq([i \in DOMAIN calls |-> processCall(calls[i])]) \o <<closeExecutingCallbackParams>>

\* The calls of a bypass are read back from the signed data; what an upgrade needs
\* is not carried along.
bypassCalls(op) ==
    LET calls == op.data.calls IN
    [i \in DOMAIN calls |-> [target |-> Latest(calls[i], op.latest[i]), module |-> calls[i].module,
                             function |-> calls[i].function, data |-> calls[i].data,
                             stateObj |-> op.stateObjs[i], modules |-> "none"]]

ExecuteOperationPTB(role, nonce, op) ==
    <<[cmd |-> "execute", role |-> role, nonce |-> nonce, leaf |-> HashOperation(role, nonce, op)],
      [cmd |-> op.function, data |-> op.data]>>
    \o IF op.function = "timelock_bypasser_execute_batch" THEN AppendPTB(bypassCalls(op)) ELSE <<>>

executeCalls(batch) ==
    [t \in DOMAIN batch |-> [target |-> Latest([target |-> batch[t].to], batch[t].latest), module |-> batch[t].module,
                             function |-> batch[t].function, data |-> batch[t].data,
                             stateObj |-> batch[t].stateObj, modules |-> batch[t].modules]]
ExecutePTB(i) ==
    <<[cmd |-> "timelock_execute_batch", calls |-> SignedCalls(bound.batches[i]),
       predecessor |-> OperationID(i - 1), salt |-> bound.salt]>>
    \o AppendPTB(executeCalls(bound.batches[i]))

----------------------------------------------------------------------------
(* Running a transaction *)

\* The state while it runs; none if a command aborts.
Started == [chain |-> chain, params |-> <<>>, vector |-> FALSE, held |-> <<>>, tickets |-> <<>>, receipts |-> 0]
If(condition, value) == IF condition THEN {value} ELSE {}

\* Packages keep their identity when they are upgraded.
Identity(package) == IF package \in DOMAIN bound.upgraded THEN bound.upgraded[package] ELSE package
Role(function) == [timelock_schedule_batch |-> "proposer", timelock_cancel |-> "canceller",
                   timelock_bypasser_execute_batch |-> "bypasser"][function]

\* A call together with the state object it is made on.
WithObject(call, stateObj) == call @@ [stateObj |-> stateObj]

Take(s, param, rest) == [s EXCEPT !.params = rest, !.held = Append(@, param)]

Run(s, c) ==
    CASE c.cmd = "set_root" ->
           LET m == s.chain.multisig[c.metadata.role] IN
           If(m.root = NoRoot /\ c.metadata.pre = m.opCount,
              [s EXCEPT !.chain.multisig[c.metadata.role] = [@ EXCEPT !.root = c.root, !.post = c.metadata.post]])
      [] c.cmd = "execute" ->
           LET m == s.chain.multisig[c.role] IN
           If(c.leaf \in m.root /\ c.nonce = m.opCount /\ m.opCount < m.post /\ Role(c.leaf[3]) = c.role,
              [s EXCEPT !.chain.multisig[c.role].opCount = @ + 1])
      [] c.cmd = "timelock_schedule_batch" ->
           LET id == HashOperationBatch(c.data.calls, c.data.predecessor, c.data.salt) IN
           If(id \notin s.chain.pending \cup s.chain.done, [s EXCEPT !.chain.pending = @ \cup {id}])
      [] c.cmd = "timelock_cancel" ->
           If(c.data.id \in s.chain.pending, [s EXCEPT !.chain.pending = @ \ {c.data.id}])
      [] c.cmd = "timelock_bypasser_execute_batch" -> {[s EXCEPT !.params = c.data.calls, !.vector = TRUE]}
      [] c.cmd = "timelock_execute_batch" ->
           LET id == HashOperationBatch(c.calls, c.predecessor, c.salt) IN
           If(id \in s.chain.pending /\ c.predecessor \in s.chain.done \cup {<<>>},
              [s EXCEPT !.chain.pending = @ \ {id}, !.chain.done = @ \cup {id}, !.params = c.calls, !.vector = TRUE])
      [] c.cmd = "remove" ->
           IF s.params = <<>> THEN {}
           ELSE IF c.from = "start" THEN {Take(s, Head(s.params), Tail(s.params))}
           ELSE {Take(s, Last(s.params), Front(s.params))}
      \* The function that is run, and its data, are those of the parameter.
      [] c.cmd = "dispatch" ->
           LET param == Last(s.held) IN
           If(Identity(c.target) = param.target /\ c.module = param.module,
              [s EXCEPT !.held = Front(@), !.chain.ran = Append(@, WithObject(param, c.stateObj)),
                        !.tickets = IF c.via = "deployer" THEN Append(@, param.data) ELSE @])
      [] c.cmd = "upgrade" ->
           If(s.tickets # <<>> /\ Last(s.tickets) = c.modules, [s EXCEPT !.tickets = Front(@), !.receipts = @ + 1])
      [] c.cmd = "commit_upgrade" -> If(s.receipts > 0, [s EXCEPT !.receipts = @ - 1])
      [] c.cmd = "destroy_empty" -> If(s.params = <<>>, [s EXCEPT !.vector = FALSE])

UsedUp(s) == s.held = <<>> /\ s.tickets = <<>> /\ s.receipts = 0 /\ ~s.vector

\* The states after each number of commands.
States(ptb) ==
    LET states[k \in 0..Len(ptb)] ==
          IF k = 0 THEN {Started} ELSE UNION {Run(s, ptb[k]) : s \in states[k - 1]}
    IN  states
RunAll(ptb) == {s.chain : s \in {t \in States(ptb)[Len(ptb)] : UsedUp(t)}}

----------------------------------------------------------------------------
(* The calls *)

GetOpCount(role) == chain.multisig[role].opCount
GetRoot(role) == chain.multisig[role].root
IsOperationReady(id) == id \in chain.pending

Begin(ptb) ==
    /\ client = <<>>
    /\ client' = ptb
    /\ UNCHANGED <<bound, chain, faults>>

SetRoot(action) ==
    LET metadata == HashMetadata(action) IN
    /\ action \in Proposals
    /\ GetRoot(metadata.role) = NoRoot
    /\ Begin(<<[cmd |-> "set_root", root |-> Leaves(action), metadata |-> metadata]>>)

ExecuteOperation(action) ==
    LET role == TimelockRole[action]
        nonce == GetOpCount(role)
        op == Ops(action)[nonce + 1]
    IN  /\ action \in Proposals
        /\ GetRoot(role) # NoRoot /\ nonce < Len(Ops(action))
        /\ action = "bypass" => \A call \in Range(bypassCalls(op)) : Supported(call)
        /\ Begin(ExecuteOperationPTB(role, nonce, op))

Execute(i) ==
    /\ i \in DOMAIN bound.batches
    /\ IsOperationReady(OperationID(i))
    /\ \A call \in Range(executeCalls(bound.batches[i])) : Supported(call)
    /\ Begin(ExecutePTB(i))

\* A transaction that aborts has no effect, and the call returns an error.
Send ==
    /\ client # <<>>
    /\ chain' = IF RunAll(client) = {} THEN chain ELSE CHOOSE c \in RunAll(client) : TRUE
    /\ client' = <<>>
    /\ UNCHANGED <<bound, faults>>

\* It is not sent.
SendFails ==
    /\ client # <<>> /\ faults > 0
    /\ client' = <<>>
    /\ faults' = faults - 1
    /\ UNCHANGED <<bound, chain>>

----------------------------------------------------------------------------

Init ==
    /\ chain = [pending |-> {}, done |-> {}, ran |-> <<>>,
                multisig |-> [r \in Roles |-> [root |-> NoRoot, opCount |-> 0, post |-> 0]]]
    /\ client = <<>>
    /\ faults = bound.faults

Next ==
    \/ \E action \in Proposals : SetRoot(action) \/ ExecuteOperation(action)
    \/ \E i \in DOMAIN bound.batches : Execute(i)
    \/ Send
    \/ SendFails

\* The calls of the batches that were run: those of MCMS's account module are made on the
\* executor's account object, the others on the object their transaction names.
MeantObject(tx) ==
    IF Latest([target |-> tx.to], tx.latest) = MCMSPackage /\ tx.module = "mcms_account"
    THEN bound.accountObj
    ELSE tx.stateObj
MeantCalls(i) ==
    LET batch == bound.batches[i] IN
    [t \in DOMAIN batch |-> WithObject(SignedCall(batch[t]), MeantObject(batch[t]))]

Settled ==
    /\ \A action \in Proposals \ {"cancel"} : GetOpCount(TimelockRole[action]) = Len(Ops(action))
    /\ chain.pending = {}
=============================================================================
