----------------------- MODULE MCTimelockExecution -----------------------
(* Finite instances of TimelockExecution.                                  *)
EXTENDS TimelockExecution, TLC

CONSTANTS ethereum, arbitrum, a, b, p1, p2

Batch(c, calls) == [chainSelector |-> c, calls |-> calls]

ScheduleProposal(validUntil, delay, batches) ==
    [action |-> "schedule", validUntil |-> validUntil, delay |-> delay,
     saltOverride |-> NoSalt, operations |-> batches]

\* Batches of two chains interleaved, with the same calls twice on one chain.
Interleaved ==
    p1 :> ScheduleProposal(0, 1500, <<Batch(ethereum, a), Batch(arbitrum, b), Batch(ethereum, a)>>)

\* The same calls twice on one chain.
Twice == p1 :> ScheduleProposal(1, 1000, <<Batch(ethereum, a), Batch(ethereum, a)>>)

\* Two proposals with the same calls and the same ValidUntil.
SameSecond ==
    (p1 :> ScheduleProposal(1, 1000, <<Batch(ethereum, a)>>))
 @@ (p2 :> ScheduleProposal(1, 1000, <<Batch(ethereum, a), Batch(ethereum, b)>>))

\* Nothing is edited, or: a later ValidUntil, and with it a new salt.
NoEdits == [p \in ProposalId |-> {}]
LaterValidUntil ==
    [p \in ProposalId |-> {[validUntil |-> 1, saltOverride |-> NoSalt]}]

NoDerivation == {}
Cancellation == {<<p1, "cancel">>}
CancellationAndBypass == {<<p1, "cancel">>, <<p1, "bypass">>}
=============================================================================
