------------------------- MODULE TimelockExecution -------------------------
(***************************************************************************)
(* Timelock proposals at work.  A schedule proposal is converted and       *)
(* carried out by the proposer MCMs, which schedule its batches; after the *)
(* delay, a TimelockExecutable executes them.  A cancellation or a bypass  *)
(* proposal is derived from it and carried out by other MCMs, at any time. *)
(*                                                                         *)
(* An MCM does what module OrderedExecution says of it (ProposalExecution  *)
(* implements that): it works through the queue of one proposal's          *)
(* operations, in order, and an operation whose call reverts blocks those  *)
(* behind it.                                                              *)
(***************************************************************************)
EXTENDS RBACTimelock, FiniteSets

CONSTANTS
    ProposalId,         \* the schedule proposals
    InitProposal,       \* their content
    Edits,              \* per schedule proposal, what a client may set in it later
    NoProposal, NotConverted, NoExecutable,
    DefaultValidUntil,  \* how long a derived proposal is valid
    \* Bounds.
    Derivations,        \* the proposals that may be derived, by origin and action
    MaxDerived,         \* how many of them are derived
    MaxTime             \* the clock

VARIABLES
    proposals,      \* per proposal and action, the TimelockProposal object
    chainMetadata,  \* per schedule proposal, the metadata map (chain to MCM)
    converted,      \* per proposal and action, the MCMS proposal
    queue,          \* per MCM, the operations left of its root
    expiry,         \* per MCM, the timestamp its root expires at
    approved,       \* the proposals and chains a root was set for
    executables     \* per schedule proposal, the client's TimelockExecutable

MCM == Chain \X Role
mcmVars == <<queue, expiry, approved>>
objectVars == <<proposals, chainMetadata, converted>>
vars == <<now, timelockVars, objectVars, mcmVars, executables>>

Edited(m, e) == [m EXCEPT !.validUntil = e.validUntil, !.saltOverride = e.saltOverride]

\* A schedule proposal as built, and as a client may have edited it.
Versions(p) == {InitProposal[p]} \cup {Edited(InitProposal[p], e) : e \in Edits[p]}

ASSUME TimelockAssumption ==
    /\ MaxTime \in Nat /\ MaxDerived \in Nat /\ DefaultValidUntil \in Nat
    /\ Derivations \subseteq ProposalId \X {"cancel", "bypass"}
    /\ \A p \in ProposalId :
         InitProposal[p] \in [action : {"schedule"}, validUntil : Nat, delay : Nat,
                              saltOverride : Nat \cup {NoSalt}, operations : Seq(BatchOperation)]
    /\ Edits \in [ProposalId -> SUBSET [validUntil : Nat, saltOverride : Nat \cup {NoSalt}]]
    \* A salt is never nil, and no operation hashes to zero.
    /\ NoSalt \notin Nat
    /\ \A p \in ProposalId : \A v \in Versions(p) : \A i \in DOMAIN v.operations :
         calcOperationIDs(v)[i] # ZeroHash

Key == ProposalId \X Action
Exists(q) == proposals[q] # NoProposal
Converted(q) == converted[q] # NotConverted

Init ==
    /\ now = 0
    /\ TimelockInit
    /\ proposals = [q \in Key |-> IF q[2] = "schedule" THEN InitProposal[q[1]] ELSE NoProposal]
    /\ chainMetadata = [p \in ProposalId |-> [c \in Chains(InitProposal[p]) |-> "proposer"]]
    /\ converted = [q \in Key |-> NotConverted]
    /\ queue = [m \in MCM |-> <<>>]
    /\ expiry = [m \in MCM |-> 0]
    /\ approved = {}
    /\ executables = [p \in ProposalId |-> NoExecutable]

-----------------------------------------------------------------------------
(* Schedule proposals *)

\* A client sets ValidUntil and SaltOverride of its proposal, whatever was
\* derived, converted or made from it before.
Edit(p, e) ==
    /\ proposals' = [proposals EXCEPT ![<<p, "schedule">>] = Edited(@, e)]
    /\ UNCHANGED <<now, timelockVars, chainMetadata, converted, mcmVars, executables>>

-----------------------------------------------------------------------------
(* Derived proposals *)

\* Mutant: the salt is not carried over.
deriveNewProposal_NewSalt(m, action) ==
    [m EXCEPT !.action = action, !.validUntil = now + DefaultValidUntil]

Derivable(p, action) ==
    /\ ~Exists(<<p, action>>)
    /\ Cardinality({q \in Derivations : Exists(q)}) < MaxDerived

\* What deriveNewProposal returns.  The new proposal is a shallow copy: its
\* metadata is the same map.
deriveNewProposal(m, action) ==
    [m EXCEPT !.action = action, !.validUntil = now + DefaultValidUntil, !.saltOverride = Salt(m)]

\* replaceChainMetadataWithAddresses writes the new MCMs into that map, so into
\* the proposal the new one is derived from.
Derive(p, action) ==
    /\ Derivable(p, action)
    /\ proposals' = [proposals EXCEPT ![<<p, action>>] =
                        deriveNewProposal(proposals[<<p, "schedule">>], action)]
    /\ chainMetadata' = [chainMetadata EXCEPT ![p] = [c \in DOMAIN @ |-> RoleFor(action)]]
    /\ UNCHANGED <<now, timelockVars, converted, mcmVars, executables>>

\* A chain has no new address: an error, after some of the others, in the order
\* Go iterates over the map, have been replaced.
DeriveFails(p, action) ==
    /\ Derivable(p, action)
    /\ \E c \in DOMAIN chainMetadata[p] : \E replaced \in SUBSET (DOMAIN chainMetadata[p] \ {c}) :
         chainMetadata' = [chainMetadata EXCEPT ![p] =
            [d \in DOMAIN @ |-> IF d \in replaced THEN RoleFor(action) ELSE @[d]]]
    /\ UNCHANGED <<now, timelockVars, proposals, converted, mcmVars, executables>>

-----------------------------------------------------------------------------
(* MCMs *)

ConvertProposal(q) ==
    /\ Exists(q)
    /\ ~Converted(q)
    /\ converted' = [converted EXCEPT ![q] = Convert(proposals[q], chainMetadata[q[1]])]
    /\ UNCHANGED <<now, timelockVars, proposals, chainMetadata, mcmVars, executables>>

\* The MCM the converted proposal names on a chain takes its root, once, when it
\* has no operations left.
SetRoot(q, c) ==
    /\ Converted(q)
    /\ c \in DOMAIN converted[q].chainMetadata
    /\ <<q, c>> \notin approved
    /\ now <= converted[q].validUntil
    /\ LET m == <<c, converted[q].chainMetadata[c]>> IN
       /\ queue[m] = <<>>
       /\ queue' = [queue EXCEPT ![m] = TransactionsOn(converted[q], c)]
       /\ expiry' = [expiry EXCEPT ![m] = converted[q].validUntil]
    /\ approved' = approved \cup {<<q, c>>}
    /\ UNCHANGED <<now, timelockVars, objectVars, executables>>

\* An MCM executes the next operation of its root, a call of the timelock that
\* does not revert.
ExecuteNext(m) ==
    /\ queue[m] # <<>>
    /\ now <= expiry[m]
    /\ LET t == Head(queue[m]) IN
         \/ t.method = "scheduleBatch" /\ scheduleBatch(m[1], m[2], t)
         \/ t.method = "cancel" /\ cancel(m[1], m[2], t)
         \/ t.method = "bypasserExecuteBatch" /\ bypasserExecuteBatch(m[1], m[2])
    /\ queue' = [queue EXCEPT ![m] = Tail(@)]
    /\ UNCHANGED <<now, objectVars, expiry, approved, executables>>

-----------------------------------------------------------------------------
(* TimelockExecutable *)

TimelockExecutable(predecessors, m) == [predecessors |-> predecessors, madeWith |-> Salt(m)]

\* Mutant: the operation IDs are kept instead of their predecessors.
NewTimelockExecutable_KeepsIDs(p) ==
    LET m == proposals[<<p, "schedule">>] IN
    /\ executables' = [executables EXCEPT ![p] = TimelockExecutable(calcOperationIDs(m), m)]
    /\ UNCHANGED <<now, timelockVars, objectVars, mcmVars>>

\* setPredecessors keeps the predecessors Convert returns.  A client may make
\* another executable at any time.  The salt it was made with is history only.
NewTimelockExecutable(p) ==
    LET m == proposals[<<p, "schedule">>] IN
    /\ executables' = [executables EXCEPT ![p] = TimelockExecutable(ConvertPredecessors(m), m)]
    /\ UNCHANGED <<now, timelockVars, objectVars, mcmVars>>

\* The call Execute makes for batch i: cached predecessor, live salt.
ExecuteCall(p, i) ==
    LET m == proposals[<<p, "schedule">>] IN
    [calls |-> m.operations[i].calls, predecessor |-> executables[p].predecessors[i], salt |-> Salt(m)]

Execute(p, i) ==
    /\ executables[p] # NoExecutable
    /\ executeBatch(proposals[<<p, "schedule">>].operations[i].chainSelector, ExecuteCall(p, i))
    /\ UNCHANGED <<now, objectVars, mcmVars, executables>>

Tick ==
    /\ now < MaxTime
    /\ now' = now + 1
    /\ UNCHANGED <<timelockVars, objectVars, mcmVars, executables>>

Next ==
    \/ \E q \in Derivations : Derive(q[1], q[2]) \/ DeriveFails(q[1], q[2])
    \/ \E q \in Key : ConvertProposal(q) \/ \E c \in Chain : SetRoot(q, c)
    \/ \E m \in MCM : ExecuteNext(m)
    \/ \E p \in ProposalId :
         \/ \E e \in Edits[p] : Edit(p, e)
         \/ NewTimelockExecutable(p)
         \/ \E i \in DOMAIN InitProposal[p].operations : Execute(p, i)
    \/ Tick

Spec == Init /\ [][Next]_vars

-----------------------------------------------------------------------------
(* Properties *)

ChainOf(p, i) == InitProposal[p].operations[i].chainSelector
Batches(p) == DOMAIN InitProposal[p].operations

CallID(t) == HashOperationBatch(t.calls, t.predecessor, t.salt)

\* The ID under which the converted schedule proposal schedules batch i.
ScheduledID(p, i) == CallID(converted[<<p, "schedule">>].operations[i].transaction)

\* Position of an event in a chain's history.
Happened(c, event, id, k) == k \in DOMAIN log[c] /\ log[c][k].event = event /\ log[c][k].id = id

\* The batches of a proposal run in the proposal's order on each chain, and each
\* runs at most once, in whatever order Execute is called, under the IDs of
\* whatever version of the proposal was scheduled.
BatchesRunInOrder ==
    \A p \in ProposalId : \A v \in Versions(p) : \A i, j \in Batches(p) :
        LET c == ChainOf(p, j)
            id == calcOperationIDs(v)
        IN (ChainOf(p, i) = c /\ i <= j) =>
             \A k \in DOMAIN log[c] : Happened(c, "execute", id[j], k) =>
                 \E h \in 1..k :
                     /\ Happened(c, "execute", id[i], h)
                     /\ i # j => h < k
                     /\ \A l \in DOMAIN log[c] : Happened(c, "execute", id[i], l) => l = h

\* No batch runs before the proposal's delay has passed since it was scheduled,
\* but for the fraction of a second the conversion drops.
DelayIsHonoured ==
    \A p \in ProposalId : \A v \in Versions(p) : \A i \in Batches(p) :
        LET c == ChainOf(p, i)
            id == calcOperationIDs(v)[i]
        IN \A k \in DOMAIN log[c] : Happened(c, "execute", id, k) =>
             \E h \in 1..k :
                 /\ Happened(c, "schedule", id, h)
                 /\ 1000 * (log[c][k].at - log[c][h].at + 1) > InitProposal[p].delay

\* Carried out on chain c to the end.
Finished(q, c) ==
    /\ <<q, c>> \in approved
    /\ \A m \in MCM : m[1] = c =>
         \A k \in DOMAIN queue[m] : \A j \in DOMAIN converted[q].operations :
            queue[m][k] # converted[q].operations[j].transaction

\* A cancellation that an MCM carried out to the end on a chain was total: no
\* batch that the proposal schedules has run there, or can any more.  One derived
\* when the salt was another than at the conversion never gets there.
CancellationIsTotal ==
    \A p \in ProposalId, c \in Chain :
        Finished(<<p, "cancel">>, c) =>
            \A i \in Batches(p) : ChainOf(p, i) = c =>
                /\ Converted(<<p, "schedule">>)
                /\ ~IsOperationDone(c, ScheduledID(p, i)) /\ ~IsOperationPending(c, ScheduledID(p, i))

\* A derived cancellation cancels the operations that the schedule proposal has
\* when it is derived, although it has a ValidUntil of its own.
CancellationTargetsSchedule ==
    [][\A p \in ProposalId :
        LET q == <<p, "cancel">> IN
        (~Exists(q) /\ Exists(q)') =>
            \A i \in Batches(p) :
                Convert(proposals[q], chainMetadata[p])'.operations[i].transaction.id
                  = calcOperationIDs(proposals[<<p, "schedule">>])[i]]_vars

\* A batch for which IsOperationReady holds, those before it done, is refused by
\* Execute exactly if the executable was made before an edit of the salt and the
\* batch is not the first of its chain: the cached predecessor is then an ID that
\* the proposal no longer has.
ReadyMeansExecutable ==
    \A p \in ProposalId : \A i \in Batches(p) :
        LET m == proposals[<<p, "schedule">>]
            id == calcOperationIDs(m)
        IN (/\ executables[p] # NoExecutable
            /\ IsOperationReady(ChainOf(p, i), id[i])
            /\ \A k \in Before(m, i) : IsOperationDone(ChainOf(p, i), id[k]))
           => (executeBatchAccepted(ChainOf(p, i), ExecuteCall(p, i))
                 <=> (executables[p].madeWith = Salt(m) \/ Before(m, i) = {}))

\* timelock_proposal.go, deriveNewProposal: "Create a copy of the current
\* proposal, we don't want to affect the original proposal".  A schedule proposal
\* is converted for the proposer MCMs, whatever was derived from it before.
DerivingLeavesTheOriginal ==
    \A p \in ProposalId : Converted(<<p, "schedule">>) =>
        \A c \in DOMAIN converted[<<p, "schedule">>].chainMetadata :
            converted[<<p, "schedule">>].chainMetadata[c] = "proposer"

\* timelock_proposal.go, Salt: "We need the salt to be unique in case you use an
\* identical operation again on the same chain across two different proposals.
\* Predecessor protects against duplicates within the same proposal".  No
\* operation of a schedule proposal blocks its proposer MCM because the timelock
\* already knows its ID.
ScheduleIsNeverBlocked ==
    \A m \in MCM : (queue[m] # <<>> /\ Head(queue[m]).method = "scheduleBatch") =>
        LET id == CallID(Head(queue[m]))
        IN ~IsOperationPending(m[1], id) /\ ~IsOperationDone(m[1], id)

-----------------------------------------------------------------------------
(* Liveness *)

\* A client that makes an executable whenever its proposal has changed and keeps
\* calling Execute, MCMs whose operations someone executes, and time.
Fairness ==
    /\ \A p \in ProposalId :
         /\ WF_vars(NewTimelockExecutable(p))
         /\ WF_vars(\E i \in Batches(p) : Execute(p, i))
    /\ WF_vars(\E m \in MCM : ExecuteNext(m))
    /\ WF_vars(Tick)

FairSpec == Spec /\ Fairness

\* A batch that waits for one that was cancelled, and whose own cancellation
\* comes too late for the root.
Stranded(p, i) ==
    /\ \E k \in Before(InitProposal[p], i) : \E l \in DOMAIN log[ChainOf(p, i)] :
          Happened(ChainOf(p, i), "cancel", ScheduledID(p, k), l)
    /\ now > converted[<<p, "cancel">>].validUntil

\* Every scheduled batch is eventually executed or cancelled, unless the client has
\* edited away the salt it was scheduled with, or a cancellation's root expired
\* between the batch before it and this one.
ScheduledBatchIsSettled ==
    []<>(\A p \in ProposalId : Converted(<<p, "schedule">>) =>
            \A i \in Batches(p) : IsOperationPending(ChainOf(p, i), ScheduledID(p, i)) =>
                \/ Salt(proposals[<<p, "schedule">>]) # ScheduledID(p, i).salt
                \/ Stranded(p, i))

=============================================================================
