---------------------------- MODULE RBACTimelock ----------------------------
(***************************************************************************)
(* The timelock contract of each chain, external to the repository: the    *)
(* operations it holds and what its methods accept, as the SDK's bindings  *)
(* and executors know them.  A call that is not accepted reverts.          *)
(***************************************************************************)
EXTENDS TimelockProposal

VARIABLES
    now,        \* block timestamp, also the client's clock
    pending,    \* per chain, the scheduled operations, each with its ready time
    doneOps,    \* per chain, the IDs of the executed operations
    log         \* per chain, what the timelock did, in order (history)

timelockVars == <<pending, doneOps, log>>

TimelockInit ==
    /\ pending = [c \in Chain |-> {}]
    /\ doneOps = [c \in Chain |-> {}]
    /\ log = [c \in Chain |-> <<>>]

IsOperationPending(c, id) == \E o \in pending[c] : o.id = id
IsOperationReady(c, id) == \E o \in pending[c] : o.id = id /\ o.readyAt <= now
IsOperationDone(c, id) == id \in doneOps[c]

Logged(c, event, id) == log' = [log EXCEPT ![c] = Append(@, [event |-> event, id |-> id, at |-> now])]

-----------------------------------------------------------------------------

scheduleBatch(c, role, t) ==
    LET id == HashOperationBatch(t.calls, t.predecessor, t.salt) IN
    /\ role = "proposer"
    /\ ~IsOperationPending(c, id) /\ ~IsOperationDone(c, id)
    /\ pending' = [pending EXCEPT ![c] = @ \cup {[id |-> id, readyAt |-> now + t.delay]}]
    /\ Logged(c, "schedule", id)
    /\ UNCHANGED doneOps

cancel(c, role, t) ==
    /\ role = "canceller"
    /\ IsOperationPending(c, t.id)
    /\ pending' = [pending EXCEPT ![c] = {o \in @ : o.id # t.id}]
    /\ Logged(c, "cancel", t.id)
    /\ UNCHANGED doneOps

\* Runs the calls and leaves the scheduled operations alone.
bypasserExecuteBatch(c, role) ==
    /\ role = "bypasser"
    /\ UNCHANGED timelockVars

executeBatchAccepted(c, t) ==
    /\ IsOperationReady(c, HashOperationBatch(t.calls, t.predecessor, t.salt))
    /\ t.predecessor = ZeroHash \/ IsOperationDone(c, t.predecessor)

executeBatch(c, t) ==
    LET id == HashOperationBatch(t.calls, t.predecessor, t.salt) IN
    /\ executeBatchAccepted(c, t)
    /\ pending' = [pending EXCEPT ![c] = {o \in @ : o.id # id}]
    /\ doneOps' = [doneOps EXCEPT ![c] = @ \cup {id}]
    /\ Logged(c, "execute", id)

=============================================================================
