----------------------- MODULE MCProposalExecution -----------------------
(* Finite instances of ProposalExecution.                                  *)
EXTENDS ProposalExecution, TLC

CONSTANTS ethereum, arbitrum, a, b, d, e, p1, p2, p3, blob1, blob2

Op(c, t) == [chainSelector |-> c, transaction |-> t]

Document(validUntil, override, metadata, ops) ==
    [validUntil |-> validUntil, overridePreviousRoot |-> override,
     chainMetadata |-> metadata, operations |-> ops, signatures |-> <<>>]

OnEthereum(n) == [c \in {ethereum} |-> n]
OnBoth(n) == [c \in {ethereum, arbitrum} |-> n]

Quorum(n, signers, groups) == [quorum |-> n, signers |-> signers, groupSigners |-> groups]

\* A single signer; one signer, and one of two others two groups down; two groups
\* side by side, in either order, which the contract keeps in different arrays; and
\* what no contract accepts, one group more than the arrays hold.
OneOfOne == Quorum(1, <<1>>, <<>>)
NestedQuorum ==
    Quorum(2, <<>>, <<Quorum(1, <<1>>, <<>>), Quorum(1, <<>>, <<Quorum(1, <<3, 2>>, <<>>)>>)>>)
TwoGroups == Quorum(2, <<>>, <<Quorum(1, <<3>>, <<>>), Quorum(1, <<2>>, <<>>)>>)
TwoGroupsSwapped == Quorum(2, <<>>, <<Quorum(1, <<2>>, <<>>), Quorum(1, <<3>>, <<>>)>>)
OneGroupTooMany ==
    Quorum(2, <<>>, <<Quorum(1, <<1>>, <<Quorum(1, <<2>>, <<>>)>>),
                      Quorum(1, <<>>, <<Quorum(1, <<3>>, <<>>)>>)>>)

Everywhere(cfg) == [c \in Chain |-> cfg]
AllNested == Everywhere(NestedQuorum)
AllOneOfOne == Everywhere(OneOfOne)

ClearRoot == {[config |-> OneOfOne, clearRoot |-> TRUE]}
RotateSigners ==
    {[config |-> cfg, clearRoot |-> FALSE] :
        cfg \in {TwoGroups, TwoGroupsSwapped, OneGroupTooMany}}

NoPredecessors == [p \in ProposalId |-> <<>>]

SignedBy1(p) ==
    [p EXCEPT !.signatures = <<[signer |-> 1, hash |-> SigningHash(p), blob |-> blob1]>>]

\* One proposal to sign.
SignedFile == p1 :> Document(1, FALSE, OnEthereum(0), <<Op(ethereum, a)>>)

\* Two chains.  p1 interleaves operations of both; p2 comes signed and overrides
\* p1's root.
CompetingFiles ==
    (p1 :> Document(1, FALSE, OnBoth(0), <<Op(ethereum, a), Op(arbitrum, b), Op(ethereum, d)>>))
 @@ (p2 :> SignedBy1(Document(1, TRUE, OnEthereum(1), <<Op(ethereum, e)>>)))

\* A queue.  The first proposal comes signed; the op counts p2 and p3 declare are
\* placeholders that loading them with their predecessors replaces.
QueueFiles ==
    (p1 :> SignedBy1(Document(1, FALSE, OnEthereum(0), <<Op(ethereum, a), Op(ethereum, b)>>)))
 @@ (p2 :> Document(1, FALSE, OnEthereum(0), <<Op(ethereum, d)>>))
 @@ (p3 :> Document(1, FALSE, OnEthereum(0), <<Op(ethereum, e)>>))

QueueOrder == (p1 :> <<>>) @@ (p2 :> <<p1>>) @@ (p3 :> <<p1, p2>>)
=============================================================================
