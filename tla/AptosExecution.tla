--------------------------- MODULE AptosExecution ---------------------------
(***************************************************************************)
(* The Aptos SDK (sdk/aptos).  One contract holds the multisigs of all     *)
(* three roles and the timelock.  A call submits its transactions and      *)
(* returns before they are executed; the account's sequence numbers fix    *)
(* the order in which the chain executes them.  Data too large for one     *)
(* transaction is staged in several, all but the last only storing their   *)
(* piece.                                                                  *)
(*                                                                         *)
(* The chain and the Move modules are external.  Data is its length, a     *)
(* piece of it an interval of an operation's data.                         *)
(***************************************************************************)
EXTENDS Integers, Sequences, SequencesExt, FiniteSets, FiniteSetsExt

CONSTANTS
    ChunkSizeBytes,
    MaxStaged       \* bound on the pieces the contract keeps

VARIABLES
    bound,      \* the instance: action, batches, kind of contract, faults
    chain,      \* account, mempool, multisigs and timelock
    client,     \* the call in progress
    faults

vars == <<bound, chain, client, faults>>

Roles == {"bypasser", "canceller", "proposer"}

----------------------------------------------------------------------------
(* From a batch to an operation *)

AptosRoleFromAction(action) ==
    [bypass |-> "bypasser", schedule |-> "proposer", cancel |-> "canceller"][action]

\* The batch's targets, modules, functions and data; the ID covers their order.
HashOperationBatch(batch, predecessor, salt) == <<batch, predecessor, salt>>

OperationID(i) ==
    LET ID[n \in 0..i] ==
          IF n = 0 THEN <<>> ELSE HashOperationBatch(bound.batches[n], ID[n - 1], bound.salt)
    IN  ID[i]

DataLength(batch) == FoldLeft(LAMBDA sum, tx : sum + tx.data, 0, batch)

\* One operation per batch; its data holds the data of all its transactions.
ConvertBatchToChainOperations(i, action) ==
    CASE action = "schedule" -> [function |-> "timelock_schedule_batch", batch |-> i, id |-> OperationID(i),
                                 data |-> DataLength(bound.batches[i])]
      [] action = "bypass"   -> [function |-> "timelock_bypasser_execute_batch", batch |-> i, id |-> <<>>,
                                 data |-> DataLength(bound.batches[i])]
      [] action = "cancel"   -> [function |-> "timelock_cancel", batch |-> i, id |-> OperationID(i), data |-> 1]

\* The actions of the proposals run one after the other, each on its own multisig.
Proposals == Range(bound.actions)
Ops(action) == [i \in DOMAIN bound.batches |-> ConvertBatchToChainOperations(i, action)]

HashOperation(role, nonce, op, data) == <<role, nonce, op.function, op.batch, op.id, data>>
HashMetadata(action) == [role |-> AptosRoleFromAction(action), pre |-> 0, post |-> Len(Ops(action))]

\* A root stands for the leaves below it.
Leaves(action) ==
    {HashOperation(AptosRoleFromAction(action), i - 1, Ops(action)[i], Ops(action)[i].data) : i \in DOMAIN Ops(action)}
NoRoot == {}

----------------------------------------------------------------------------
(* The contract: what it accepts and what that changes *)

If(condition, value) == IF condition THEN {value} ELSE {}

\* The pieces are the operation's data exactly when they follow each other from
\* its first byte to its last.
Whole(pieces, op) ==
    /\ \A p \in Range(pieces) : p.op = op
    /\ \A i \in DOMAIN pieces : pieces[i].from = IF i = 1 THEN 0 ELSE pieces[i - 1].to
    /\ IF pieces = <<>> THEN op.data = 0 ELSE Last(pieces).to = op.data

RoleFor == [timelock_schedule_batch |-> "proposer", timelock_cancel |-> "canceller",
            timelock_bypasser_execute_batch |-> "bypasser"]

TimelockApplied(c, op) ==
    CASE op.function = "timelock_schedule_batch" ->
           If(op.id \notin c.pending \cup c.done, [c EXCEPT !.pending = @ \cup {op.id}])
      [] op.function = "timelock_cancel" ->
           If(op.id \in c.pending, [c EXCEPT !.pending = @ \ {op.id}])
      [] op.function = "timelock_bypasser_execute_batch" -> {c}

Executed(c, tx, pieces) ==
    LET m == c.multisig[tx.role] IN
    IF /\ tx.nonce = m.opCount /\ m.opCount < m.post
       /\ Whole(pieces, tx.op)
       /\ HashOperation(tx.role, tx.nonce, tx.op, tx.op.data) \in m.root
       /\ RoleFor[tx.op.function] = tx.role
    THEN {[d EXCEPT !.multisig[tx.role].opCount = @ + 1] : d \in TimelockApplied(c, tx.op)}
    ELSE {}

Applied(c, tx) ==
    CASE tx.kind = "set_root" ->
           LET m == c.multisig[tx.role] IN
           If(m.root = NoRoot /\ tx.pre = m.opCount, [c EXCEPT !.multisig[tx.role].root = tx.root,
                                                        !.multisig[tx.role].post = tx.post])
      [] tx.kind = "execute" -> Executed(c, tx, <<tx.piece>>)
      [] tx.kind = "stage_data" -> If(Len(c.staged) < MaxStaged, [c EXCEPT !.staged = Append(@, tx.piece)])
      [] tx.kind = "stage_data_and_execute" ->
           {[d EXCEPT !.staged = <<>>] : d \in Executed(c, tx, Append(c.staged, tx.piece))}
      [] tx.kind = "timelock_execute_batch" ->
           LET id == HashOperationBatch(tx.batch, tx.predecessor, tx.salt) IN
           If(id \in c.pending /\ tx.predecessor \in c.done \cup {<<>>},
              [c EXCEPT !.pending = @ \ {id}, !.done = @ \cup {id}])

\* Sequence numbers are counted from the account's next one; -1 was used already.
Numbered(tx) == IF "seqNo" \in DOMAIN tx THEN tx ELSE tx @@ [seqNo |-> 0]
Counted(tx) == IF "seqNo" \in DOMAIN tx /\ tx.seqNo >= 0 THEN [tx EXCEPT !.seqNo = @ - 1] ELSE tx

\* The chain executes an account's transactions in the order of their numbers,
\* and a transaction that aborts uses its number up.
Mine ==
    /\ \E tx \in chain.mempool :
         /\ tx.seqNo = 0
         /\ LET next == [chain EXCEPT !.mempool = {Counted(other) : other \in @ \ {tx}}] IN
            chain' = IF Applied(next, tx) = {} THEN next ELSE CHOOSE c \in Applied(next, tx) : TRUE
    /\ client' = [txs |-> [i \in DOMAIN client.txs |-> Counted(client.txs[i])]]
    /\ UNCHANGED <<bound, faults>>

\* The account is used by somebody else.
ForeignUse ==
    /\ faults > 0 /\ chain.mempool = {}
    /\ client' = [txs |-> [i \in DOMAIN client.txs |-> Counted(client.txs[i])]]
    /\ faults' = faults - 1
    /\ UNCHANGED <<bound, chain>>

\* A transaction leaves the mempool without having been executed.
Expire ==
    /\ faults > 0
    /\ \E tx \in chain.mempool : chain' = [chain EXCEPT !.mempool = @ \ {tx}]
    /\ faults' = faults - 1
    /\ UNCHANGED <<bound, client>>

----------------------------------------------------------------------------
(* The calls *)

Idle == [txs |-> <<>>]

\* Inspector and TimelockInspector: views of the contract.
GetOpCount(role) == chain.multisig[role].opCount
GetRoot(role) == chain.multisig[role].root
IsOperationReady(id) == id \in chain.pending

\* A caller that waits for the transactions of one call before it makes the next.
Begin(txs) ==
    /\ client = Idle /\ chain.mempool = {}
    /\ client' = [txs |-> txs]
    /\ UNCHANGED <<bound, chain, faults>>

SetRoot(action) ==
    LET metadata == HashMetadata(action) IN
    /\ action \in Proposals
    /\ GetRoot(metadata.role) = NoRoot
    /\ Begin(<<[kind |-> "set_root", root |-> Leaves(action), role |-> metadata.role, pre |-> metadata.pre, post |-> metadata.post]>>)

Chunks(op) ==
    LET n == (op.data + ChunkSizeBytes - 1) \div ChunkSizeBytes IN
    [i \in 1..n |-> [op |-> op, from |-> (i - 1) * ChunkSizeBytes,
                     to |-> IF i = n THEN op.data ELSE i * ChunkSizeBytes]]

ExecuteTx(kind, role, nonce, op, piece) ==
    [kind |-> kind, role |-> role, nonce |-> nonce, op |-> op, piece |-> piece]

\* Sequence numbers are counted up from the one the account has before the first chunk.
executeMCMS_Unnumbered(role, nonce, op) ==
    LET chunks == Chunks(op) IN
    IF op.data <= ChunkSizeBytes
    THEN <<ExecuteTx("execute", role, nonce, op, [op |-> op, from |-> 0, to |-> op.data])>>
    ELSE [i \in DOMAIN chunks |->
            IF i = Len(chunks) THEN ExecuteTx("stage_data_and_execute", role, nonce, op, chunks[i])
            ELSE [kind |-> "stage_data", piece |-> chunks[i]]]
executeMCMS(role, nonce, op) ==
    LET chunks == Chunks(op) IN
    IF op.data <= ChunkSizeBytes
    THEN <<ExecuteTx("execute", role, nonce, op, [op |-> op, from |-> 0, to |-> op.data])>>
    ELSE [i \in DOMAIN chunks |->
            [seqNo |-> i - 1] @@
            IF i = Len(chunks) THEN ExecuteTx("stage_data_and_execute", role, nonce, op, chunks[i])
            ELSE [kind |-> "stage_data", piece |-> chunks[i]]]

\* CurseMCMS has no staging: an operation that would need it fails before it is sent.
executeCurseMCMS(role, nonce, op) ==
    IF op.data > ChunkSizeBytes THEN <<>>
    ELSE <<ExecuteTx("execute", role, nonce, op, [op |-> op, from |-> 0, to |-> op.data])>>

ExecuteOperation(action) ==
    LET role == HashMetadata(action).role
        nonce == GetOpCount(role)
        op == Ops(action)[nonce + 1]
        txs == IF bound.curse THEN executeCurseMCMS(role, nonce, op) ELSE executeMCMS(role, nonce, op)
    IN  /\ action \in Proposals
        /\ GetRoot(role) # NoRoot /\ nonce < Len(Ops(action))
        /\ txs # <<>>
        /\ Begin(txs)

Execute(i) ==
    /\ i \in DOMAIN bound.batches
    /\ IsOperationReady(OperationID(i))
    /\ Begin(<<[kind |-> "timelock_execute_batch", batch |-> bound.batches[i],
                predecessor |-> OperationID(i - 1), salt |-> bound.salt]>>)

\* The next transaction of the call.  The node refuses a number that was used or
\* is waiting; any error ends the call and leaves what was sent before.
Submit ==
    /\ client # Idle
    /\ LET tx == Numbered(Head(client.txs)) IN
       IF tx.seqNo >= 0 /\ \A other \in chain.mempool : other.seqNo # tx.seqNo
       THEN /\ chain' = [chain EXCEPT !.mempool = @ \cup {tx}]
            /\ client' = [txs |-> Tail(client.txs)]
       ELSE client' = Idle /\ UNCHANGED chain
    /\ UNCHANGED <<bound, faults>>
SubmitFails ==
    /\ client # Idle /\ faults > 0
    /\ client' = Idle
    /\ faults' = faults - 1
    /\ UNCHANGED <<bound, chain>>

----------------------------------------------------------------------------

Init ==
    /\ chain = [mempool |-> {}, staged |-> <<>>, pending |-> {}, done |-> {},
                multisig |-> [r \in Roles |-> [root |-> NoRoot, opCount |-> 0, post |-> 0]]]
    /\ client = Idle
    /\ faults = bound.faults

Next ==
    \/ \E action \in Proposals : SetRoot(action) \/ ExecuteOperation(action)
    \/ \E i \in DOMAIN bound.batches : Execute(i)
    \/ Submit
    \/ SubmitFails
    \/ Mine
    \/ Expire
    \/ ForeignUse

Settled ==
    /\ \A action \in Proposals \ {"cancel"} : GetOpCount(AptosRoleFromAction(action)) = Len(Ops(action))
    /\ chain.pending = {}
=============================================================================
