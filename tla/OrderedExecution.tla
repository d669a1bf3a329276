-------------------------- MODULE OrderedExecution --------------------------
(***************************************************************************)
(* What MCMS promises on each chain, without signatures, trees, nonces or  *)
(* transactions: a chain works through a queue.  The queue is filled with  *)
(* exactly the operations one proposal has for that chain, in the          *)
(* proposal's order, each is executed once, from the front, and a queue    *)
(* may be given up for another proposal's or discarded, never rearranged.  *)
(***************************************************************************)
EXTENDS Sequences

CONSTANTS
    Chain,
    Lists(_)    \* the operation lists the proposals have for a chain

VARIABLES
    queue,      \* per chain, the operations still to be executed
    done        \* per chain, the operations executed, in order

vars == <<queue, done>>

Init ==
    /\ queue = [c \in Chain |-> <<>>]
    /\ done = [c \in Chain |-> <<>>]

\* A proposal takes over the chain.
Approve(c) ==
    /\ \E list \in Lists(c) : queue' = [queue EXCEPT ![c] = list]
    /\ UNCHANGED done

\* The chain's owner discards what is left.
Discard(c) ==
    /\ queue' = [queue EXCEPT ![c] = <<>>]
    /\ UNCHANGED done

ExecuteNext(c) ==
    /\ queue[c] # <<>>
    /\ done' = [done EXCEPT ![c] = Append(@, Head(queue[c]))]
    /\ queue' = [queue EXCEPT ![c] = Tail(@)]

Next == \E c \in Chain : Approve(c) \/ Discard(c) \/ ExecuteNext(c)

Spec == Init /\ [][Next]_vars

=============================================================================
