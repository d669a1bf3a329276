---------------------------- MODULE TonExecution ----------------------------
(***************************************************************************)
(* The TON SDK (sdk/ton).  Contracts exchange messages: what a call sends  *)
(* is processed after the call has returned, and an operation that the MCM *)
(* runs is a message to the timelock, which may come back.  The MCM keeps  *)
(* an operation pending until that can no longer happen and takes no other *)
(* in the meantime, so a call reads how long that lasts and waits before   *)
(* it sends.                                                               *)
(*                                                                         *)
(* The contracts and the network are external.  Time is counted in what is *)
(* left of each wait.                                                      *)
(***************************************************************************)
EXTENDS Integers, Sequences, SequencesExt, FiniteSets

CONSTANT Finalization       \* how long an operation stays pending

VARIABLES
    bound,      \* the instance: action, batches, kind of caller, faults
    chain,      \* MCM, timelock and the messages under way
    client,     \* the call in progress
    faults

vars == <<bound, chain, client, faults>>

----------------------------------------------------------------------------
(* From a batch to an operation *)

ConvertBatchToCalls(batch) == [i \in DOMAIN batch |-> [target |-> batch[i].to, data |-> batch[i].data]]
HashOperationBatch(calls, predecessor, salt) == <<calls, predecessor, salt>>

OperationID(i) ==
    LET ID[n \in 0..i] ==
          IF n = 0 THEN <<>>
          ELSE HashOperationBatch(ConvertBatchToCalls(bound.batches[n]), ID[n - 1], bound.salt)
    IN  ID[i]

\* One message to the timelock per batch.
ConvertBatchToChainOperations(i) ==
    CASE bound.action = "schedule" -> [kind |-> "schedule", id |-> OperationID(i)]
      [] bound.action = "cancel"   -> [kind |-> "cancel", id |-> OperationID(i)]
      [] bound.action = "bypass"   -> [kind |-> "bypass", calls |-> ConvertBatchToCalls(bound.batches[i])]
Ops == [i \in DOMAIN bound.batches |-> ConvertBatchToChainOperations(i)]

ToRootMetadata_OffByOne(start) == [pre |-> start, post |-> start + Len(Ops) - 1]
ToRootMetadata(start) == [pre |-> start, post |-> start + Len(Ops)]
ToOperation(nonce, op) == [nonce |-> nonce, op |-> op]
\* Leaves are hashes of what is sent, so a message with another content has no proof.
HashOperation(nonce) == ToOperation(nonce, Ops[nonce + 1])

----------------------------------------------------------------------------
(* The contracts *)

Undelivered == \E d \in {"mcm", "timelock"} : chain.queue[d] # <<>>

SetRootAccepted(body) == ~chain.mcm.root /\ body.metadata.pre = chain.mcm.opCount
ExecuteAccepted(body) ==
    /\ chain.mcm.root
    /\ chain.mcm.pendingFor = 0
    /\ body.op.nonce = chain.mcm.opCount /\ chain.mcm.opCount < chain.mcm.post
    /\ body.op = HashOperation(body.op.nonce)
ExecuteBatchAccepted(body) ==
    LET id == HashOperationBatch(body.calls, body.predecessor, body.salt) IN
    /\ chain.timelock.pendingFor = 0
    /\ id \in DOMAIN chain.timelock.delay /\ chain.timelock.delay[id] = 0
    /\ body.predecessor \in chain.timelock.done \cup {<<>>}

\* The next message of the wallet arrives; one that is refused bounces, and the
\* call that sent it never learns of it.
Deliver(d) ==
    /\ chain.queue[d] # <<>>
    /\ LET body == Head(chain.queue[d])
           next == [chain EXCEPT !.queue[d] = Tail(@)] IN
       chain' = CASE body.kind = "setRoot" /\ SetRootAccepted(body) ->
                       [next EXCEPT !.mcm.root = TRUE, !.mcm.post = body.metadata.post]
                  [] body.kind = "execute" /\ ExecuteAccepted(body) ->
                       [next EXCEPT !.mcm.opCount = @ + 1, !.mcm.pendingFor = Finalization, !.out = <<body.op.op>>]
                  [] body.kind = "executeBatch" /\ ExecuteBatchAccepted(body) ->
                       LET id == HashOperationBatch(body.calls, body.predecessor, body.salt) IN
                       [next EXCEPT !.timelock.pendingFor = Finalization,
                                    !.timelock.delay = [i \in DOMAIN @ \ {id} |-> @[i]],
                                    !.timelock.done = @ \cup {id}]
                  [] OTHER -> [next EXCEPT !.early = @ \/ (body.kind # "setRoot" /\ chain[d].pendingFor > 0)]
    /\ UNCHANGED <<bound, client, faults>>

TimelockAccepts(op) ==
    CASE op.kind = "schedule" -> op.id \notin DOMAIN chain.timelock.delay \cup chain.timelock.done
      [] op.kind = "cancel"   -> op.id \in DOMAIN chain.timelock.delay
      [] op.kind = "bypass"   -> TRUE

\* The timelock gets the operation's message.
DeliverOperation ==
    /\ chain.out # <<>> /\ TimelockAccepts(Head(chain.out))
    /\ LET op == Head(chain.out) IN
       chain' = [chain EXCEPT !.out = <<>>,
                   !.timelock.delay = CASE op.kind = "schedule" -> [i \in DOMAIN @ \cup {op.id} |->
                                                                      IF i = op.id THEN bound.delay ELSE @[i]]
                                        [] op.kind = "cancel" -> [i \in DOMAIN @ \ {op.id} |-> @[i]]
                                        [] op.kind = "bypass" -> @]
    /\ UNCHANGED <<bound, client, faults>>

\* It comes back, in time: the operation is no longer pending and can be run again.
BounceOperation ==
    /\ chain.out # <<>>
    /\ \/ ~TimelockAccepts(Head(chain.out)) /\ UNCHANGED faults
       \/ faults > 0 /\ faults' = faults - 1
    /\ chain' = [chain EXCEPT !.out = <<>>, !.mcm.opCount = @ - 1, !.mcm.pendingFor = 0]
    /\ UNCHANGED <<bound, client>>

Less(n) == IF n > 0 THEN n - 1 ELSE 0
Tick ==
    /\ chain.out = <<>> \/ chain.mcm.pendingFor > 1
    /\ \/ chain.mcm.pendingFor > 0 \/ chain.timelock.pendingFor > 0 \/ client.wait > 0
       \/ \E id \in DOMAIN chain.timelock.delay : chain.timelock.delay[id] > 0
    /\ chain' = [chain EXCEPT !.mcm.pendingFor = Less(@), !.timelock.pendingFor = Less(@),
                              !.timelock.delay = [id \in DOMAIN @ |-> Less(@[id])]]
    /\ client' = [client EXCEPT !.wait = Less(@)]
    /\ UNCHANGED <<bound, faults>>

----------------------------------------------------------------------------
(* The calls *)

Idle == [dst |-> "none", body |-> [kind |-> "none"], wait |-> 0]

GetOpCount == chain.mcm.opCount
GetRoot == chain.mcm.root
IsOperationReady(id) == id \in DOMAIN chain.timelock.delay /\ chain.timelock.delay[id] = 0

\* The time and what is pending are read at one block.  What is left of the wait
\* is not looked at again.
SendTxAfter_Immediately(dst, body) == client' = [dst |-> dst, body |-> body, wait |-> 0]
SendTxAfter(dst, body) ==
    /\ bound.wait \/ chain[dst].pendingFor = 0
    /\ client' = [dst |-> dst, body |-> body, wait |-> chain[dst].pendingFor]
CheckPendingSend(dst, body) ==
    /\ client = Idle
    /\ bound.patient => ~Undelivered /\ chain.out = <<>>
    /\ SendTxAfter(dst, body)
    /\ UNCHANGED <<bound, chain, faults>>

SetRoot(action) ==
    /\ action = bound.action
    /\ ~GetRoot
    /\ CheckPendingSend("mcm", [kind |-> "setRoot", metadata |-> ToRootMetadata(GetOpCount)])

ExecuteOperation(action) ==
    /\ action = bound.action
    /\ GetRoot /\ GetOpCount < Len(Ops)
    /\ CheckPendingSend("mcm", [kind |-> "execute", op |-> ToOperation(GetOpCount, Ops[GetOpCount + 1])])

Execute(i) ==
    /\ i \in DOMAIN bound.batches
    /\ IsOperationReady(OperationID(i))
    /\ CheckPendingSend("timelock", [kind |-> "executeBatch", calls |-> ConvertBatchToCalls(bound.batches[i]),
                                     predecessor |-> OperationID(i - 1), salt |-> bound.salt])

\* SendTx returns when the wallet's own transaction is done.
SendTx ==
    /\ client # Idle /\ client.wait = 0
    /\ Len(chain.queue[client.dst]) < 2
    /\ chain' = [chain EXCEPT !.queue[client.dst] = Append(@, client.body)]
    /\ client' = Idle
    /\ UNCHANGED <<bound, faults>>

\* The wallet's transaction fails, or the context ends during the wait.
GiveUp ==
    /\ client # Idle /\ faults > 0
    /\ client' = Idle
    /\ faults' = faults - 1
    /\ UNCHANGED <<bound, chain>>

----------------------------------------------------------------------------

\* A cancellation finds its batches scheduled.
Init ==
    /\ chain = [mcm |-> [root |-> FALSE, opCount |-> 0, post |-> 0, pendingFor |-> 0],
                timelock |-> [pendingFor |-> 0, done |-> {},
                              delay |-> IF bound.action # "cancel" THEN <<>>
                                        ELSE [id \in {OperationID(i) : i \in DOMAIN bound.batches} |-> bound.delay]],
                queue |-> [d \in {"mcm", "timelock"} |-> <<>>], out |-> <<>>, early |-> FALSE]
    /\ client = Idle
    /\ faults = bound.faults

Next ==
    \/ SetRoot(bound.action)
    \/ ExecuteOperation(bound.action)
    \/ \E i \in DOMAIN bound.batches : Execute(i)
    \/ SendTx
    \/ GiveUp
    \/ \E d \in {"mcm", "timelock"} : Deliver(d)
    \/ DeliverOperation
    \/ BounceOperation
    \/ Tick

Settled ==
    /\ bound.action # "cancel" => GetOpCount = Len(Ops)
    /\ DOMAIN chain.timelock.delay = {}
=============================================================================
