-------------------------- MODULE TimelockProposal --------------------------
(***************************************************************************)
(* Timelock proposals and what is computed from them: the salt, the        *)
(* operation IDs with their predecessors, and the MCMS operations a        *)
(* proposal converts to (timelock_proposal.go, timelock_executable.go,     *)
(* sdk/evm/timelock_converter.go).                                         *)
(*                                                                         *)
(* An operation ID is a hash of calls, predecessor and salt; hashes are    *)
(* injective, so it is the record of the three.  A salt is the timestamp   *)
(* it was made from.  The address of an MCM is the role it has on the      *)
(* timelock of its chain.                                                  *)
(***************************************************************************)
EXTENDS Enumeration, Integers, Sequences

CONSTANTS
    Chain,
    Calls,      \* contents of a batch
    ZeroHash,   \* the predecessor of a chain's first batch
    NoSalt      \* SaltOverride is nil

Action == {"schedule", "cancel", "bypass"}
Role == {"proposer", "canceller", "bypasser"}

\* The role whose MCM a proposal's metadata should name.
RoleFor(action) ==
    CASE action = "schedule" -> "proposer"
      [] action = "cancel"   -> "canceller"
      [] action = "bypass"   -> "bypasser"

BatchOperation == [chainSelector : Chain, calls : Calls]

Chains(m) == {m.operations[i].chainSelector : i \in DOMAIN m.operations}

\* A proposal's delay is a time.Duration, here in milliseconds; the timelock
\* takes whole seconds, and the fraction is dropped.
Seconds(duration) == duration \div 1000

Salt(m) == IF m.saltOverride # NoSalt THEN m.saltOverride ELSE m.validUntil

-----------------------------------------------------------------------------
(* Operation IDs *)

HashOperationBatch(calls, predecessor, salt) ==
    [calls |-> calls, predecessor |-> predecessor, salt |-> salt]

\* The batches before i on the chain of batch i.
Before(m, i) ==
    {k \in DOMAIN m.operations :
        k < i /\ m.operations[k].chainSelector = m.operations[i].chainSelector}

\* Mutant: lastOpID is not updated in the loop.
LastOpID_NotUpdated(m, ids, i) == ZeroHash

\* lastOpID, when the loop of Convert or calcOperationIDs gets to batch i.
LastOpID(m, ids, i) ==
    IF Before(m, i) = {} THEN ZeroHash
    ELSE ids[CHOOSE k \in Before(m, i) : \A j \in Before(m, i) : j <= k]

\* The IDs OperationIDs and OperationID return.
calcOperationIDs(m) ==
    LET ids[i \in DOMAIN m.operations] ==
          HashOperationBatch(m.operations[i].calls, LastOpID(m, ids, i), Salt(m))
    IN ids

-----------------------------------------------------------------------------
(* Conversion *)

\* Mutant: the delay is lost in scheduleBatch.
TimelockCall_NoDelay(m, calls, predecessor) ==
    CASE m.action = "schedule" ->
           [method |-> "scheduleBatch", calls |-> calls, predecessor |-> predecessor,
            salt |-> Salt(m), delay |-> 0]
      [] m.action = "cancel" ->
           [method |-> "cancel", id |-> HashOperationBatch(calls, predecessor, Salt(m))]
      [] m.action = "bypass" ->
           [method |-> "bypasserExecuteBatch", calls |-> calls]

\* The call ConvertBatchToChainOperations packs for a batch.
TimelockCall(m, calls, predecessor) ==
    CASE m.action = "schedule" ->
           [method |-> "scheduleBatch", calls |-> calls, predecessor |-> predecessor,
            salt |-> Salt(m), delay |-> Seconds(m.delay)]
      [] m.action = "cancel" ->
           [method |-> "cancel", id |-> HashOperationBatch(calls, predecessor, Salt(m))]
      [] m.action = "bypass" ->
           [method |-> "bypasserExecuteBatch", calls |-> calls]

\* The predecessors Convert computes and returns.
ConvertPredecessors(m) ==
    LET ids[i \in DOMAIN m.operations] ==
          HashOperationBatch(m.operations[i].calls, LastOpID(m, ids, i), Salt(m))
    IN [i \in DOMAIN m.operations |-> LastOpID(m, ids, i)]

\* Mutant: a cancellation cancels the first batch only, since the batches behind
\* it depend on it.
Convert_CancelsFirstOnly(m, metadata) ==
    LET last == IF m.action = "cancel" THEN 1 ELSE Len(m.operations) IN
    [validUntil    |-> m.validUntil,
     chainMetadata |-> metadata,
     operations    |->
        [i \in 1..last |->
            [chainSelector |-> m.operations[i].chainSelector,
             transaction   |-> TimelockCall(m, m.operations[i].calls, ConvertPredecessors(m)[i])]]]

\* The MCMS proposal of a timelock proposal: one operation per batch, in the
\* proposal's order, and a copy of its metadata.
Convert(m, metadata) ==
    [validUntil    |-> m.validUntil,
     chainMetadata |-> metadata,
     operations    |->
        [i \in DOMAIN m.operations |->
            [chainSelector |-> m.operations[i].chainSelector,
             transaction   |-> TimelockCall(m, m.operations[i].calls, ConvertPredecessors(m)[i])]]]

\* The transactions of an MCMS proposal for chain c, in order.
TransactionsOn(p, c) ==
    LET order == Ascending({i \in DOMAIN p.operations : p.operations[i].chainSelector = c})
    IN [k \in DOMAIN order |-> p.operations[order[k]].transaction]

=============================================================================
