-------------------------- MODULE SolanaExecution --------------------------
(***************************************************************************)
(* The Solana SDK (sdk/solana).  What is one call on EVM is a series of    *)
(* transactions here: signatures, signers and timelock operations are      *)
(* staged in accounts, chunk by chunk, before they are used.  A call that  *)
(* returns an error may have left part of its work behind, and the         *)
(* transaction it gave up on may still land after it has returned.         *)
(*                                                                         *)
(* The programs on the chain are external.  A transaction is a record; a   *)
(* key is a model value or a string; data is its length, a piece of it an  *)
(* interval of positions.                                                  *)
(***************************************************************************)
EXTENDS Integers, FiniteSets, Sequences, SequencesExt

CONSTANTS
    Threads, Mcms, Auths,
    Program(_),                   \* the program ID in an MCM's address
    Signatures,                   \* of the root, sorted by signer
    Configs,                      \* signers of the configurations, as sequences
    Batch,                        \* instructions of the batch: program, data length, accounts
    ProofLength,                  \* length of the Merkle proofs
    NumProofs,                    \* MCMS_SOLANA_NUM_PROOFS
    MaxAppendSignatureBatchSize, maxAppendSignerBatchSize, maxPreloadSignaturesAttempts,
    Instances                     \* what to explore: who works on which MCM, and how many faults

ASSUME SolanaAssumption ==
    /\ {MaxAppendSignatureBatchSize, maxAppendSignerBatchSize} \subseteq Nat \ {0}
    /\ maxPreloadSignaturesAttempts \in Nat
    /\ ProofLength \in 0..NumProofs
    /\ Configs \cup {Signatures} \subseteq Seq(Nat)

VARIABLES
    bound,      \* the instance that is explored
    chain,      \* what the chain holds: accounts of the MCM and timelock programs
    inFlight,   \* transactions that were given up on and may still land
    programID,  \* the global variable of the bindings
    job,        \* per thread, the call it is in and the transactions still to send
    result,     \* per thread, how its last call ended
    faults

vars == <<bound, chain, inFlight, programID, job, result, faults>>

\* A record with more fields.
With(r, fields) == [f \in DOMAIN r \cup DOMAIN fields |-> IF f \in DOMAIN r THEN r[f] ELSE fields[f]]

----------------------------------------------------------------------------
(* Chunks and sizes *)

\* chunkIndexes: pieces of at most size items, the last one shorter.
chunkIndexes(n, size) ==
    [i \in 1..(n + size - 1) \div size |->
        <<(i - 1) * size, IF i * size > n THEN n ELSE i * size>>]

Chunks(s, size) ==
    LET c == chunkIndexes(Len(s), size) IN [i \in DOMAIN c |-> SubSeq(s, c[i][1] + 1, c[i][2])]

\* Bytes of a transaction that executes AppendInstructionData through the MCM,
\* without the data: the two instructions, 12 accounts and their indexes, header,
\* block hash, one signature and the compute unit limit.
maxTransactionSize == 1232
Overhead(proofs) == 80 + 64 + 32 * proofs + 4 + 12 * 32 + 32 + 1 + 2 + 2 + 12 + 1 + 64 + 7
AppendIxDataChunkSize == maxTransactionSize - Overhead(NumProofs)

----------------------------------------------------------------------------
(* The operations of a timelock batch *)

Account(key, signer, writable) == [key |-> key, signer |-> signer, writable |-> writable]

\* Accounts of a batch without repetition, in order of appearance.  No account
\* signs; one is writable if any instruction writes it.
getAccountsFromBatchOperation(batch) ==
    LET all == FlattenSeq([i \in DOMAIN batch |->
                   <<Account(batch[i].program, FALSE, FALSE)>> \o batch[i].accounts])
        First(i) == \A j \in 1..(i - 1) : all[j].key # all[i].key
        order == SelectSeq([i \in DOMAIN all |-> i], First)
    IN  [n \in DOMAIN order |->
           LET key == all[order[n]].key
           IN  Account(key, FALSE, \E j \in DOMAIN all : all[j].key = key /\ all[j].writable)]

\* ExecutePayer in the chain metadata is optional.
NoPayer == "none"
HasExecutePayer(payer) == payer # NoPayer

applyExecutePayerSignerOverride(accounts, payer) ==
    [i \in DOMAIN accounts |-> [accounts[i] EXCEPT !.signer = @ \/ accounts[i].key = payer]]

\* Mutant: the metadata's payer is ignored.
bypassRemainingAccounts_Unnamed(payer) == getAccountsFromBatchOperation(Batch)

\* The payer the metadata names signs, whatever the batch says of that account.
bypassRemainingAccounts(payer) ==
    LET accounts == getAccountsFromBatchOperation(Batch)
    IN  IF HasExecutePayer(payer) THEN applyExecutePayerSignerOverride(accounts, payer) ELSE accounts

syncWritableAttribute(accounts) ==
    [i \in DOMAIN accounts |-> [accounts[i] EXCEPT !.writable =
        \E j \in DOMAIN accounts : accounts[j].key = accounts[i].key /\ accounts[j].writable]]

Predecessor == "previous batch"
Zero == "zero"
HashOperation(ixs, predecessor) == <<ixs, predecessor>>

OperationID(action) == HashOperation(Batch, IF action = "bypass" THEN Zero ELSE Predecessor)

\* The accounts of the timelock's own instructions; the MCM's signer signs by itself.
BaseAccounts == <<Account("operation", FALSE, TRUE), Account("timelockConfig", FALSE, FALSE),
                  Account("accessController", FALSE, FALSE), Account("mcmSigner", FALSE, TRUE)>>
Op(kind, args) == [kind |-> kind, args |-> args, accounts |-> BaseAccounts]

\* Each instruction is announced and its data appended in pieces.
InstructionOps(i) ==
    LET pieces == chunkIndexes(Batch[i].data, AppendIxDataChunkSize)
    IN  <<Op("initializeInstruction", <<Batch[i].program, Batch[i].accounts>>)>>
        \o [n \in DOMAIN pieces |-> Op("appendInstructionData", <<i, pieces[n]>>)]
Staging(action) ==
    LET id == OperationID(action)
        predecessor == IF action = "bypass" THEN Zero ELSE Predecessor
    IN  <<Op("initializeOperation", <<id, predecessor, Len(Batch)>>)>>
        \o FlattenSeq([i \in DOMAIN Batch |-> InstructionOps(i)])
        \o <<Op("finalizeOperation", <<>>)>>

scheduleBatchInstructions == Staging("schedule") \o <<Op("scheduleBatch", <<>>)>>
cancelInstructions == <<Op("cancel", <<OperationID("cancel")>>)>>
bypassInstructions(payer) ==
    Staging("bypass") \o
    <<[Op("bypasserExecuteBatch", <<>>) EXCEPT !.accounts =
         syncWritableAttribute(@ \o <<Account("timelockSigner", FALSE, FALSE)>>
                                 \o bypassRemainingAccounts(payer))]>>

\* ConvertBatchToChainOperations, for the action of the MCM's proposal; "plain"
\* is a proposal of one operation without a timelock.
ConvertBatchToChainOperations(action, payer) ==
    CASE action = "schedule" -> scheduleBatchInstructions
      [] action = "cancel"   -> cancelInstructions
      [] action = "bypass"   -> bypassInstructions(payer)
      [] action = "plain"    -> <<Op("call", <<>>)>>
Converted == [action \in {"schedule", "cancel", "bypass", "plain"}, payer \in Auths \cup {NoPayer} |->
                ConvertBatchToChainOperations(action, payer)]
Ops(m) == Converted[bound.action[m], bound.executePayer]

\* Encoder.HashOperation and Encoder.HashMetadata: the leaves of the tree.
EncodedOp(m, nonce, op) == <<m, nonce, op.kind, op.args, op.accounts>>
EncodedMetadata(m) == <<m, 0, 0 + Len(Ops(m))>>

----------------------------------------------------------------------------
(* The programs on the chain: what they accept and what it changes *)

If(condition, value) == IF condition THEN {value} ELSE {}
NoAccount == [exists |-> FALSE]
Opened(total) == [exists |-> TRUE, total |-> total, items |-> <<>>, final |-> FALSE]
CanAppend(a, items) == a.exists /\ ~a.final /\ Len(a.items) + Len(items) <= a.total
Appended(a, items) == [a EXCEPT !.items = @ \o items]
CanFinalize(a) == a.exists /\ ~a.final /\ Len(a.items) = a.total

Increasing(s) == \A i \in 1..(Len(s) - 1) : s[i] < s[i + 1]

\* The runtime gives an account one pair of flags for the whole transaction, in
\* which the payer signs and is writable.  The program hashes what it sees.
Seen(op, payer) ==
    [op EXCEPT !.accounts = [i \in DOMAIN @ |->
        Account(@[i].key, @[i].key = payer,
                @[i].key = payer \/ \E a \in Range(@) : a.key = @[i].key /\ a.writable)]]
InTree(m, nonce, op, payer) == EncodedOp(m, nonce, Seen(op, payer)) = EncodedOp(m, nonce, op)

\* Inner calls have no account and no privilege that their caller has not; the
\* timelock signs for its signer.
Allowed(ixs, accounts, payer) ==
    \A i \in DOMAIN ixs : \A a \in Range(ixs[i].accounts) \cup {Account(ixs[i].program, FALSE, FALSE)} :
      \E b \in Range(accounts) :
        /\ b.key = a.key
        /\ a.writable => b.writable
        /\ a.signer => a.key \in {"timelockSigner", payer}

\* The data appended so far is whole when its pieces follow each other up to the end.
Assembled(item) ==
    [program |-> item.program, accounts |-> item.accounts,
     data |-> IF item.pieces = <<>> THEN 0
              ELSE IF item.pieces[1][1] = 0 /\ \A n \in 1..(Len(item.pieces) - 1) : item.pieces[n][2] = item.pieces[n + 1][1]
                   THEN Last(item.pieces)[2] ELSE -1]

\* The timelock: one operation account, and whether its calls have run.
TimelockApplied(c, op, payer) ==
    LET a == c.op IN
    CASE op.kind = "initializeOperation" ->
           If(~a.exists, [c EXCEPT !.op = With(Opened(op.args[3]), [id |-> op.args[1], predecessor |-> op.args[2], state |-> "staged"])])
      [] op.kind = "initializeInstruction" ->
           LET item == [program |-> op.args[1], accounts |-> op.args[2], pieces |-> <<>>]
           IN  If(CanAppend(a, <<item>>), [c EXCEPT !.op = Appended(a, <<item>>)])
      [] op.kind = "appendInstructionData" ->
           If(a.exists /\ ~a.final /\ op.args[1] \in DOMAIN a.items,
              [c EXCEPT !.op.items[op.args[1]].pieces = Append(@, op.args[2])])
      [] op.kind = "finalizeOperation" ->
           If(CanFinalize(a) /\ HashOperation([i \in DOMAIN a.items |-> Assembled(a.items[i])], a.predecessor) = a.id,
              [c EXCEPT !.op.final = TRUE])
      [] op.kind = "scheduleBatch" -> If(a.exists /\ a.final /\ a.state = "staged", [c EXCEPT !.op.state = "scheduled"])
      [] op.kind = "cancel" -> If(a.exists /\ a.state \in {"scheduled", "ready"} /\ a.id = op.args[1], [c EXCEPT !.op = NoAccount])
      [] op.kind = "bypasserExecuteBatch" ->
           If(a.exists /\ a.final /\ Allowed(Batch, op.accounts, payer), [c EXCEPT !.op = NoAccount, !.ran = @ + 1])
      [] op.kind = "executeBatch" ->
           If(a.exists /\ a.state = "ready" /\ a.id = op.args[1] /\ Allowed(Batch, op.accounts, payer),
              [c EXCEPT !.op.state = "done", !.ran = @ + 1])
      [] op.kind = "call" -> {c}
      [] OTHER -> {}

\* What a transaction makes of the chain; empty when it fails.
Applied(c, tx) ==
    LET k == <<tx.mcm, tx.auth>> IN
    IF tx.to # Program(tx.mcm) THEN {} ELSE
    CASE tx.kind = "initSignatures" -> If(~c.sigs[k].exists, [c EXCEPT !.sigs[k] = Opened(tx.total)])
      [] tx.kind = "appendSignatures" -> If(CanAppend(c.sigs[k], tx.items), [c EXCEPT !.sigs[k] = Appended(@, tx.items)])
      [] tx.kind = "finalizeSignatures" -> If(CanFinalize(c.sigs[k]), [c EXCEPT !.sigs[k].final = TRUE])
      [] tx.kind = "clearSignatures" -> If(c.sigs[k].exists, [c EXCEPT !.sigs[k] = NoAccount])
      [] tx.kind = "setRoot" ->
           If(/\ ~c.root[tx.mcm] /\ c.sigs[k].exists /\ c.sigs[k].final /\ Increasing(c.sigs[k].items)
              /\ EncodedMetadata(tx.mcm) = <<tx.mcm, tx.metadata.PreOpCount, tx.metadata.PostOpCount>>
              /\ tx.metadata.PreOpCount = c.count[tx.mcm],
              [c EXCEPT !.root[tx.mcm] = TRUE, !.sigs[k] = NoAccount])
      [] tx.kind = "execute" ->
           IF c.root[tx.mcm] /\ c.count[tx.mcm] = tx.nonce /\ InTree(tx.mcm, tx.nonce, tx.op, tx.auth)
                /\ (tx.op.kind = "appendInstructionData" =>
                      Overhead(ProofLength) + tx.op.args[2][2] - tx.op.args[2][1] <= maxTransactionSize)
           THEN {[d EXCEPT !.count[tx.mcm] = @ + 1] : d \in TimelockApplied(c, tx.op, tx.auth)}
           ELSE {}
      [] tx.kind = "timelock" -> TimelockApplied(c, tx.op, tx.auth)
      [] tx.kind = "initSigners" -> If(~c.signers.exists, [c EXCEPT !.signers = Opened(tx.total)])
      [] tx.kind = "appendSigners" -> If(CanAppend(c.signers, tx.items), [c EXCEPT !.signers = Appended(@, tx.items)])
      [] tx.kind = "finalizeSigners" -> If(CanFinalize(c.signers), [c EXCEPT !.signers.final = TRUE])
      [] tx.kind = "setConfig" ->
           If(c.signers.exists /\ c.signers.final /\ Len(c.signers.items) = tx.total,
              [c EXCEPT !.config = c.signers.items, !.signers = NoAccount])
      [] OTHER -> {}

----------------------------------------------------------------------------
(* Calls *)

Tx(t, m, kind) == [kind |-> kind, mcm |-> m, auth |-> bound.auth[t]]

\* solanaSignatures changes the recovery byte of each signature and keeps the order.
preloadSignatures(t, m) ==
    LET chunks == Chunks(Signatures, MaxAppendSignatureBatchSize)
    IN  <<With(Tx(t, m, "initSignatures"), [total |-> Len(Signatures)])>>
        \o [i \in DOMAIN chunks |-> With(Tx(t, m, "appendSignatures"), [items |-> chunks[i]])]
        \o <<Tx(t, m, "finalizeSignatures")>>

solanaMetadata(m) == [PreOpCount |-> 0, PostOpCount |-> 0 + Len(Ops(m))]

preloadSigners(t, m, cfg) ==
    LET chunks == Chunks(cfg, maxAppendSignerBatchSize)
    IN  <<With(Tx(t, m, "initSigners"), [total |-> Len(cfg)])>>
        \o [i \in DOMAIN chunks |-> With(Tx(t, m, "appendSigners"), [items |-> chunks[i]])]
        \o <<Tx(t, m, "finalizeSigners")>>

Idle == [call |-> "none", mcm |-> "none", attempt |-> 0, todo |-> <<>>]

\* The inspectors read the accounts.
GetRoot(m) == chain.root[m]
GetOpCount(m) == chain.count[m]
IsOperationReady == chain.op.exists /\ chain.op.state = "ready"

Begin(t, call, m, todo) ==
    /\ job[t] = Idle
    /\ job' = [job EXCEPT ![t] = [call |-> call, mcm |-> m, attempt |-> 0, todo |-> todo]]
SetProgramID(m) == programID' = Program(m)
Works(t, m) == t \in bound.threads /\ m \in bound.mcms[t]

\* SetRoot; a root that is already set is reported as such.
SetRoot(t, m) ==
    /\ Works(t, m) /\ bound.configs = {} /\ ~GetRoot(m)
    /\ Begin(t, "SetRoot", m, preloadSignatures(t, m) \o <<With(Tx(t, m, "setRoot"), [metadata |-> solanaMetadata(m)])>>)
    /\ SetProgramID(m)
    /\ UNCHANGED <<bound, chain, inFlight, result, faults>>

ExecuteOperation_StaleProgram(t, m) ==
    /\ Works(t, m) /\ GetRoot(m) /\ GetOpCount(m) < Len(Ops(m))
    /\ LET nonce == GetOpCount(m)
       IN  Begin(t, "ExecuteOperation", m, <<With(Tx(t, m, "execute"), [nonce |-> nonce, op |-> Ops(m)[nonce + 1]])>>)
    /\ UNCHANGED <<bound, chain, programID, inFlight, result, faults>>

\* The caller looks up how far the MCM is and executes the next operation.
ExecuteOperation(t, m) ==
    /\ Works(t, m) /\ GetRoot(m) /\ GetOpCount(m) < Len(Ops(m))
    /\ LET nonce == GetOpCount(m)
       IN  Begin(t, "ExecuteOperation", m, <<With(Tx(t, m, "execute"), [nonce |-> nonce, op |-> Ops(m)[nonce + 1]])>>)
    /\ SetProgramID(m)
    /\ UNCHANGED <<bound, chain, inFlight, result, faults>>

\* TimelockExecutor.Execute.  The timelock's bindings have a variable of their own.
Execute(t, m) ==
    /\ Works(t, m) /\ bound.action[m] = "schedule" /\ IsOperationReady
    /\ LET op == [kind |-> "executeBatch", args |-> <<HashOperation(Batch, Predecessor)>>,
                  accounts |-> BaseAccounts \o <<Account("timelockSigner", FALSE, FALSE)>>
                                 \o getAccountsFromBatchOperation(Batch)]
       IN  Begin(t, "Execute", m, <<With(Tx(t, m, "timelock"), [op |-> op])>>)
    /\ UNCHANGED <<bound, chain, programID, inFlight, result, faults>>

\* Configurer.SetConfig collects the instructions and sends them one by one.
SetConfig(t, m, cfg) ==
    /\ Works(t, m) /\ cfg \in bound.configs
    /\ Begin(t, "SetConfig", m, preloadSigners(t, m, cfg) \o <<With(Tx(t, m, "setConfig"), [total |-> Len(cfg)])>>)
    /\ SetProgramID(m)
    /\ UNCHANGED <<bound, chain, inFlight, result, faults>>

----------------------------------------------------------------------------
(* Sending *)

Sent(t) == With(Head(job[t].todo), [to |-> IF Head(job[t].todo).kind = "timelock" THEN Program(job[t].mcm) ELSE programID])
Return(t, outcome) ==
    /\ job' = [job EXCEPT ![t] = Idle]
    /\ result' = [result EXCEPT ![t] = [call |-> job[t].call, mcm |-> job[t].mcm, outcome |-> outcome]]
Continue(t) ==
    IF Len(job[t].todo) = 1
    THEN Return(t, "ok")
    ELSE job' = [job EXCEPT ![t].todo = Tail(@)] /\ UNCHANGED result

retryPreloadSignatures_NoClear(t) ==
    /\ job' = [job EXCEPT ![t].attempt = @ + 1]
    /\ UNCHANGED result

\* The account is cleared and preloading starts again.
retryPreloadSignatures(t) ==
    /\ job' = [job EXCEPT ![t].attempt = @ + 1, ![t].todo = <<Tx(t, job[t].mcm, "clearSignatures")>> \o @]
    /\ UNCHANGED result

isAccountAlreadyInUseError(t, tx) ==
    /\ tx.kind = "initSignatures" /\ tx.to = Program(tx.mcm)
    /\ chain.sigs[<<tx.mcm, tx.auth>>].exists

\* sendInstructions, preloadSignatures: the first error ends the call.
OnError_GoesOn(t) == Continue(t)
OnError(t) == Return(t, "error")

\* sendTransaction: the transaction is confirmed and has no error.
Confirmed(t) ==
    /\ job[t] # Idle
    /\ chain' \in Applied(chain, Sent(t))
    /\ Continue(t)
    /\ UNCHANGED <<bound, inFlight, programID, faults>>

\* It fails in the preflight or on the chain.
Refused(t) ==
    /\ job[t] # Idle /\ Applied(chain, Sent(t)) = {}
    /\ IF isAccountAlreadyInUseError(t, Sent(t)) /\ job[t].attempt < maxPreloadSignaturesAttempts
       THEN retryPreloadSignatures(t)
       ELSE OnError(t)
    /\ UNCHANGED <<bound, chain, inFlight, programID, faults>>

Fault == faults < bound.faults /\ faults' = faults + 1

Timeout_AsSuccess(t) ==
    /\ job[t] # Idle /\ Fault
    /\ inFlight' = inFlight \cup {Sent(t)}
    /\ Continue(t)
    /\ UNCHANGED <<bound, chain, programID>>

\* sendTransaction gives up: no block hash, no answer, or no confirmation in time.
\* If the transaction was sent at all it may still land.
Timeout(t) ==
    /\ job[t] # Idle /\ Fault
    /\ inFlight' \in {inFlight, inFlight \cup {Sent(t)}}
    /\ OnError(t)
    /\ UNCHANGED <<bound, chain, programID>>

\* It has landed, but its result cannot be fetched, or it is sent once more and
\* refused as already processed.
ResultLost(t) ==
    /\ job[t] # Idle /\ Fault
    /\ chain' \in Applied(chain, Sent(t))
    /\ OnError(t)
    /\ UNCHANGED <<bound, inFlight, programID>>

\* A transaction given up on lands, or its block hash expires.
Late(tx) ==
    /\ chain' \in Applied(chain, tx) \cup {chain}
    /\ inFlight' = inFlight \ {tx}
    /\ UNCHANGED <<bound, programID, job, result, faults>>

\* The delay of the scheduled operation passes.
DelayPasses ==
    /\ chain.op.exists /\ chain.op.state = "scheduled"
    /\ chain' = [chain EXCEPT !.op.state = "ready"]
    /\ UNCHANGED <<bound, inFlight, programID, job, result, faults>>

----------------------------------------------------------------------------

Init ==
    /\ bound \in Instances
    /\ chain = [sigs |-> [k \in Mcms \X Auths |-> NoAccount], root |-> [m \in Mcms |-> FALSE],
                count |-> [m \in Mcms |-> 0], signers |-> NoAccount, config |-> <<>>,
                op |-> NoAccount, ran |-> 0]
    /\ inFlight = {} /\ programID = "unset" /\ faults = 0
    /\ job = [t \in Threads |-> Idle]
    /\ result = [t \in Threads |-> [call |-> "none", mcm |-> "none", outcome |-> "none"]]

Call(t) ==
    \E m \in Mcms : SetRoot(t, m) \/ ExecuteOperation(t, m) \/ Execute(t, m)
                    \/ \E cfg \in Configs : SetConfig(t, m, cfg)
Send(t) == Confirmed(t) \/ Refused(t) \/ Timeout(t) \/ ResultLost(t)

Next ==
    \/ \E t \in Threads : Call(t) \/ Send(t)
    \/ \E tx \in inFlight : Late(tx)
    \/ DelayPasses

Spec == Init /\ [][Next]_vars

\* Whoever executes a proposal keeps calling until it is done; a call ends; time passes.
FairSpec ==
    /\ Spec
    /\ \A t \in Threads : WF_vars(Call(t)) /\ WF_vars(Send(t))
    /\ WF_vars(DelayPasses)

----------------------------------------------------------------------------
(* Properties *)

\* A call that returns without an error has had its effect: SetRoot returns a result only
\* if the root is set, however many transactions timed out, were retried or landed late.
SuccessIsReal ==
    \A t \in Threads :
      LET r == result[t] IN
      r.outcome = "ok" /\ r.call = "SetRoot" => chain.root[r.mcm]

\* The accounts of the batch that the operation has signing and those that will sign, when
\* t pays: the payer the metadata names, if any, and t's own key, if the batch has them.
PayerAsConverted(t) ==
    LET keys == {a.key : a \in Range(getAccountsFromBatchOperation(Batch))}
    IN  {bound.executePayer} \cap keys = {bound.auth[t]} \cap keys

\* The operations a batch is converted to are accepted one after the other: the pieces fit
\* into transactions, add up to the instructions the operation ID is computed from, and
\* the accounts have the flags and privileges the chain will see.  The one exception is
\* the call that bypasses, refused exactly if the account of whoever executes it is in
\* the batch and the metadata does not name it, or names another one of the batch.
ConvertedBatchIsAccepted ==
    \A t \in Threads, m \in Mcms :
      LET n == GetOpCount(m) + 1
          others == UNION {bound.mcms[u] : u \in bound.threads} \ {m}
          accepted == Applied(chain, With(Tx(t, m, "execute"),
                                [nonce |-> n - 1, op |-> Ops(m)[n], to |-> Program(m)])) # {} IN
      /\ Works(t, m) /\ GetRoot(m) /\ others = {}
      /\ bound.action[m] \in {"schedule", "bypass"} /\ n <= Len(Ops(m))
      => (accepted <=> (Ops(m)[n].kind = "bypasserExecuteBatch" => PayerAsConverted(t)))

\* The configuration on the chain is always one that was asked for as a whole: signers
\* that a failed SetConfig has left staged never end up in another configuration.
ConfigIsWhole == chain.config \in Configs \cup {<<>>}

\* Calls that do not overlap reach the program whose accounts they name, although all
\* programs share one variable of the bindings.
SequentialCallsReachTheirProgram ==
    \A t \in Threads :
      job[t] # Idle /\ bound.threads = {t} => Sent(t).to = Program(Head(job[t].todo).mcm)

\* A bypass that nobody who works on m can finish.
Unpayable(m) ==
    /\ bound.action[m] = "bypass"
    /\ \A t \in Threads : Works(t, m) => ~PayerAsConverted(t)

\* Whatever a bounded number of failures has left staged, a caller that tries again gets
\* the root set and all operations executed, but for the last one of a bypass whose payer
\* is not the one it was converted for.
SetRootRecovers ==
    \A m \in Mcms :
      [](bound.live /\ (\E t \in Threads : Works(t, m)) =>
           <>(/\ chain.root[m]
              /\ chain.count[m] = Len(Ops(m)) - (IF Unpayable(m) THEN 1 ELSE 0)))
=============================================================================
