--------------------------- MODULE ChainFamilies ---------------------------
(***************************************************************************)
(* The chain families behind the interfaces of package sdk: SetRoot and    *)
(* ExecuteOperation of an Executor, Execute of a TimelockExecutor.  A      *)
(* behaviour belongs to one family.                                        *)
(***************************************************************************)
EXTENDS Integers, Sequences, SequencesExt, FiniteSets

CONSTANTS Instances, ChunkSizeBytes, MaxStaged, Finalization, MaxBatches

ASSUME FinalizationAssumption == Finalization \in Nat

VARIABLES bound, chain, client, faults
vars == <<bound, chain, client, faults>>

Aptos == INSTANCE AptosExecution
Canton == INSTANCE CantonExecution
Sui == INSTANCE SuiExecution
Ton == INSTANCE TonExecution

Of(family) == bound.family = family

\* The Sui instances are about batches of calls; those that are run past the timelock
\* are not scheduled as well.
ASSUME SuiAssumption ==
    \A b \in Instances : b.family = "sui" =>
        LET actions == {b.actions[k] : k \in DOMAIN b.actions} IN
        /\ b.batches \in Seq(Seq(Sui!Transaction))
        /\ actions \subseteq {"schedule", "cancel", "bypass"}
        /\ "bypass" \in actions => actions = {"bypass"}

Init ==
    /\ bound \in Instances
    /\ \/ Of("aptos") /\ Aptos!Init
       \/ Of("canton") /\ Canton!Init
       \/ Of("sui") /\ Sui!Init
       \/ Of("ton") /\ Ton!Init

Next ==
    \/ Of("aptos") /\ Aptos!Next
    \/ Of("canton") /\ Canton!Next
    \/ Of("sui") /\ Sui!Next
    \/ Of("ton") /\ Ton!Next

\* The calls of the interfaces.
SetRoot(action) ==
    \/ Of("aptos") /\ Aptos!SetRoot(action)
    \/ Of("canton") /\ Canton!SetRoot(action)
    \/ Of("sui") /\ Sui!SetRoot(action)
    \/ Of("ton") /\ Ton!SetRoot(action)
ExecuteOperation(action) ==
    \/ Of("aptos") /\ Aptos!ExecuteOperation(action)
    \/ Of("canton") /\ Canton!ExecuteOperation(action)
    \/ Of("sui") /\ Sui!ExecuteOperation(action)
    \/ Of("ton") /\ Ton!ExecuteOperation(action)
Execute(i) ==
    \/ Of("aptos") /\ Aptos!Execute(i)
    \/ Of("canton") /\ Canton!Execute(i)
    \/ Of("sui") /\ Sui!Execute(i)
    \/ Of("ton") /\ Ton!Execute(i)

\* A call that was made goes on.
CallProceeds ==
    \/ Of("aptos") /\ Aptos!Submit
    \/ Of("sui") /\ Sui!Send
    \/ Of("ton") /\ Ton!SendTx

Contracts == {"mcm", "timelock"}

\* Callers go on with the calls that are due and repeat those that had no effect;
\* a call ends; the chains get to transactions and messages, and time passes.
Fairness ==
    /\ \A action \in {"schedule", "cancel", "bypass", "plain"} :
         SF_vars(SetRoot(action)) /\ SF_vars(ExecuteOperation(action))
    /\ \A i \in 1..MaxBatches : SF_vars(Execute(i))
    /\ WF_vars(CallProceeds)
    /\ \A c \in {"schedule", "cancel", "bypass", "plain", "executor", "configurer"} :
         WF_vars(Of("canton") /\ Canton!Step(c))
    /\ WF_vars(Of("aptos") /\ Aptos!Mine)
    /\ \A d \in Contracts : WF_vars(Of("ton") /\ Ton!Deliver(d))
    /\ WF_vars(Of("ton") /\ (Ton!DeliverOperation \/ Ton!BounceOperation))
    /\ WF_vars(Of("ton") /\ Ton!Tick)

Spec == Init /\ [][Next]_vars /\ Fairness

----------------------------------------------------------------------------

\* Canton's ExecuteOperation, SetRoot and Execute look up contract IDs that every
\* choice replaces, and submit them later: though other callers and users of the
\* targets replace them meanwhile, repeated calls get all batches done.
CantonWorkIsFinished == <>[](Of("canton") => Canton!Settled)

\* An Aptos operation whose data is staged in chunks, in transactions that are sent
\* one after the other and executed later, takes effect; so does one that fits into
\* a transaction although submissions fail, transactions expire and others use the
\* account.  (What a failure leaves of a staged operation blocks those after it.)
AptosWorkIsFinished == <>[](Of("aptos") /\ bound.live => Aptos!Settled)

\* The commands of a Sui transaction give each call of a batch the parameters and
\* the state object that are meant for it (the one its transaction names, and the
\* executor's account object for the calls of MCMS's account module), in the batch's
\* order, for a scheduled batch as for a bypassed one.
SuiCallsGetTheirObjects ==
    Of("sui") =>
        LET n == IF "bypass" \in Sui!Proposals THEN Sui!GetOpCount("bypasser") ELSE Cardinality(chain.done)
        IN  chain.ran = FlattenSeq([i \in 1..n |-> Sui!MeantCalls(i)])

\* A Sui transaction uses up all that it was handed out, upgrades included, so
\* that repeated calls get every batch executed.
SuiWorkIsFinished == <>[](Of("sui") => Sui!Settled)

\* A TON caller that lets one call arrive before it makes the next never sends
\* while an operation is pending, as SendTxAfter waits for what was pending when
\* it looked.
TonCallsAreTimely == Of("ton") /\ bound.patient => ~chain.early

\* SendTx returns before the message is processed, and operations come back:
\* callers that go by what they read from the contracts still get all batches done.
TonWorkIsFinished == <>[](Of("ton") => Ton!Settled)
=============================================================================
