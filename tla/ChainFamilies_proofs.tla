------------------------ MODULE ChainFamilies_proofs ------------------------
(***************************************************************************)
(* Proofs about the chain families.                                        *)
(*                                                                         *)
(* TON: a caller that lets one call arrive before it makes the next never  *)
(* reaches a contract that has an operation pending.  The invariant        *)
(* follows one message from the call to its arrival: while the call waits, *)
(* nothing is under way and the contract is pending for no longer than is  *)
(* left of the wait; once the message is sent, it is the only one, and its *)
(* destination has nothing pending.                                        *)
(*                                                                         *)
(* Sui: every call of a batch is made on the state object meant for it.    *)
(* The commands of a transaction are followed one by one: those of a call  *)
(* take its parameter from the front of the vector and pass it on with its *)
(* state object, so that after the commands of k calls the first k were    *)
(* made and the parameters of the others are left.  The ids of the batches *)
(* differ, each one holding the id before it, so that the done ones are    *)
(* the first n and what was run are the calls of the first n batches.      *)
(***************************************************************************)
EXTENDS ChainFamilies, Enumeration_proofs, SequenceTheorems

\* The contracts and the messages, as far as the argument needs their types.
TonShape ==
    /\ chain = [mcm |-> chain.mcm, timelock |-> chain.timelock, queue |-> chain.queue,
                out |-> chain.out, early |-> chain.early]
    /\ chain.mcm = [root |-> chain.mcm.root, opCount |-> chain.mcm.opCount, post |-> chain.mcm.post,
                    pendingFor |-> chain.mcm.pendingFor]
    /\ chain.timelock = [pendingFor |-> chain.timelock.pendingFor, done |-> chain.timelock.done,
                         delay |-> chain.timelock.delay]
    /\ chain.queue = [d \in Contracts |-> chain.queue[d]]
    /\ chain.mcm.pendingFor \in Nat
    /\ chain.timelock.pendingFor \in Nat
    /\ client = [dst |-> client.dst, body |-> client.body, wait |-> client.wait]
    /\ client.wait \in Nat
    /\ client # Ton!Idle => client.dst \in Contracts

\* Nothing is under way while a call waits, and the wait is long enough.
TonCallWaits ==
    client # Ton!Idle =>
        /\ \A d \in Contracts : chain.queue[d] = <<>>
        /\ chain.out = <<>>
        /\ chain[client.dst].pendingFor <= client.wait

\* A message under way is the only one, and its destination has nothing pending.
TonMessageIsAlone ==
    \A d \in Contracts : chain.queue[d] # <<>> =>
        /\ \E m : chain.queue[d] = <<m>>
        /\ \A e \in Contracts \ {d} : chain.queue[e] = <<>>
        /\ chain[d].pendingFor = 0

TonPatience == TonShape /\ TonCallWaits /\ TonMessageIsAlone /\ ~chain.early

\* The invariant of all families.
TonInv == Of("ton") /\ bound.patient => TonPatience

-----------------------------------------------------------------------------
(* The instance a behaviour is about stays the same *)

LEMMA TonKeepsInstance == Ton!Next => bound' = bound
BY DEF Ton!Next, Ton!SetRoot, Ton!ExecuteOperation, Ton!Execute, Ton!CheckPendingSend, Ton!SendTx, Ton!GiveUp,
       Ton!Deliver, Ton!DeliverOperation, Ton!BounceOperation, Ton!Tick

LEMMA AptosKeepsInstance == Aptos!Next => bound' = bound
<1>1. \A action : Aptos!SetRoot(action) \/ Aptos!ExecuteOperation(action) \/ Aptos!Execute(action) => bound' = bound
  BY DEF Aptos!SetRoot, Aptos!ExecuteOperation, Aptos!Execute, Aptos!Begin
<1>2. Aptos!Submit \/ Aptos!SubmitFails => bound' = bound
  BY DEF Aptos!Submit, Aptos!SubmitFails
<1>3. Aptos!Mine \/ Aptos!Expire \/ Aptos!ForeignUse => bound' = bound
  BY DEF Aptos!Mine, Aptos!Expire, Aptos!ForeignUse
<1>. QED BY <1>1, <1>2, <1>3 DEF Aptos!Next

LEMMA CantonKeepsInstance == Canton!Next => bound' = bound
<1>1. \A action : Canton!SetRoot(action) \/ Canton!ExecuteOperation(action) \/ Canton!Execute(action) => bound' = bound
  BY DEF Canton!SetRoot, Canton!ExecuteOperation, Canton!Execute, Canton!Start
<1>2. \A c : Canton!Step(c) \/ Canton!Fails(c) => bound' = bound
  BY DEF Canton!Step, Canton!LookUpMCMS, Canton!LookUpTargets, Canton!Submit, Canton!Fails
<1>3. Canton!SetConfig \/ Canton!MoveTarget => bound' = bound
  BY DEF Canton!SetConfig, Canton!Start, Canton!MoveTarget
<1>. QED BY <1>1, <1>2, <1>3 DEF Canton!Next

LEMMA SuiKeepsInstance == Sui!Next => bound' = bound
<1>1. \A action : Sui!SetRoot(action) \/ Sui!ExecuteOperation(action) \/ Sui!Execute(action) => bound' = bound
  BY DEF Sui!SetRoot, Sui!ExecuteOperation, Sui!Execute, Sui!Begin
<1>2. Sui!Send \/ Sui!SendFails => bound' = bound
  BY DEF Sui!Send, Sui!SendFails
<1>. QED BY <1>1, <1>2 DEF Sui!Next

LEMMA InstanceIsKept == Next => bound' = bound
BY AptosKeepsInstance, CantonKeepsInstance, SuiKeepsInstance, TonKeepsInstance DEF Next

-----------------------------------------------------------------------------
(* TON *)

LEMMA TonInit == ASSUME Ton!Init PROVE TonPatience
<1> DEFINE M == [root |-> FALSE, opCount |-> 0, post |-> 0, pendingFor |-> 0]
           T(D) == [pendingFor |-> 0, done |-> {}, delay |-> D]
<1>1. PICK D : chain = [mcm |-> M, timelock |-> T(D), queue |-> [d \in Contracts |-> <<>>],
                        out |-> <<>>, early |-> FALSE]
  BY DEF Ton!Init, Contracts
<1>2. chain.mcm = M /\ chain.timelock = T(D)
  BY <1>1
<1>3. /\ chain.queue = [d \in Contracts |-> <<>>]
      /\ chain.out = <<>>
      /\ chain.early = FALSE
  BY <1>1
<1>4. client = Ton!Idle
  BY DEF Ton!Init
<1>5. TonShape
  BY <1>1, <1>2, <1>3, <1>4 DEF TonShape, Ton!Idle
<1>. QED BY <1>3, <1>4, <1>5 DEF TonPatience, TonCallWaits, TonMessageIsAlone

\* A call of a patient caller begins with nothing under way.
LEMMA TonBegins ==
    ASSUME TonPatience, bound.patient, NEW dst \in Contracts, NEW body, Ton!CheckPendingSend(dst, body)
    PROVE  TonPatience'
<1>1. /\ ~Ton!Undelivered /\ chain.out = <<>>
      /\ client' = [dst |-> dst, body |-> body, wait |-> chain[dst].pendingFor]
      /\ chain' = chain
  BY DEF Ton!CheckPendingSend, Ton!SendTxAfter
<1>2. chain[dst].pendingFor \in Nat
  <2>1. CASE dst = "mcm"
    BY <2>1 DEF TonPatience, TonShape
  <2>2. CASE dst = "timelock"
    BY <2>2 DEF TonPatience, TonShape
  <2>. QED BY <2>1, <2>2 DEF Contracts
<1>3. \A d \in Contracts : chain.queue[d] = <<>>
  BY <1>1 DEF Ton!Undelivered, Contracts
<1>4. client'.dst = dst /\ client'.wait = chain[dst].pendingFor
  BY <1>1
<1>5. TonShape'
  BY <1>1, <1>2, <1>4 DEF TonPatience, TonShape
<1>6. TonCallWaits'
  BY <1>1, <1>2, <1>3, <1>4 DEF TonCallWaits
<1>7. TonMessageIsAlone' /\ ~chain'.early
  BY <1>1 DEF TonPatience, TonMessageIsAlone
<1>. QED BY <1>5, <1>6, <1>7 DEF TonPatience

LEMMA TonSends ==
    ASSUME TonPatience, Ton!SendTx
    PROVE  TonPatience'
<1> DEFINE dst == client.dst
<1>1. /\ client # Ton!Idle /\ client.wait = 0 /\ client' = Ton!Idle
      /\ chain' = [chain EXCEPT !.queue[dst] = Append(@, client.body)]
  BY DEF Ton!SendTx
<1>2. dst \in Contracts /\ \A d \in Contracts : chain.queue[d] = <<>>
  BY <1>1 DEF TonPatience, TonShape, TonCallWaits
<1>3. chain[dst].pendingFor = 0
  <2>1. chain[dst].pendingFor <= 0
    BY <1>1 DEF TonPatience, TonCallWaits
  <2>2. CASE dst = "mcm"
    BY <2>1, <2>2 DEF TonPatience, TonShape
  <2>3. CASE dst = "timelock"
    BY <2>1, <2>3 DEF TonPatience, TonShape
  <2>. QED BY <1>2, <2>2, <2>3 DEF Contracts
<1>4. /\ chain'.queue = [chain.queue EXCEPT ![dst] = Append(<<>>, client.body)]
      /\ chain'.mcm = chain.mcm /\ chain'.timelock = chain.timelock
      /\ chain'.out = chain.out /\ chain'.early = chain.early
  BY <1>1, <1>2 DEF TonPatience, TonShape
<1>5. /\ chain'.queue[dst] = <<client.body>>
      /\ \A e \in Contracts \ {dst} : chain'.queue[e] = <<>>
  BY <1>2, <1>4 DEF TonPatience, TonShape
<1>6. TonShape'
  BY <1>1, <1>4 DEF TonPatience, TonShape, Ton!Idle
<1>7. TonMessageIsAlone'
  <2>1. chain'[dst] = chain[dst]
    BY <1>1, <1>2, <1>4 DEF TonPatience, TonShape, Contracts
  <2>. QED BY <1>2, <1>3, <1>5, <2>1 DEF TonMessageIsAlone
<1>. QED BY <1>1, <1>4, <1>6, <1>7 DEF TonPatience, TonCallWaits

LEMMA TonGivesUp ==
    ASSUME TonPatience, Ton!GiveUp
    PROVE  TonPatience'
BY DEF TonPatience, TonShape, TonCallWaits, TonMessageIsAlone, Ton!GiveUp, Ton!Idle

\* A message finds nothing pending, so that the contract does not refuse it for that.
LEMMA TonDelivers ==
    ASSUME TonPatience, NEW d \in Contracts, Ton!Deliver(d)
    PROVE  TonPatience'
<1> DEFINE body == Head(chain.queue[d])
           next == [chain EXCEPT !.queue[d] = Tail(@)]
<1>1. /\ chain.queue[d] # <<>> /\ client' = client
  BY DEF Ton!Deliver
<1>2. PICK m : chain.queue[d] = <<m>>
  BY <1>1 DEF TonPatience, TonMessageIsAlone
<1>3. chain[d].pendingFor = 0 /\ client = Ton!Idle /\ \A e \in Contracts \ {d} : chain.queue[e] = <<>>
  BY <1>1 DEF TonPatience, TonMessageIsAlone, TonCallWaits
<1>4. Tail(chain.queue[d]) = <<>>
  BY <1>2
<1> DEFINE M == chain.mcm
           T == chain.timelock
           empty == [e \in Contracts |-> <<>>]
<1>5. next = [mcm |-> M, timelock |-> T, queue |-> empty, out |-> chain.out, early |-> chain.early]
  <2>1. chain.queue = [e \in Contracts |-> chain.queue[e]]
    BY DEF TonPatience, TonShape
  <2>2. [chain.queue EXCEPT ![d] = Tail(@)] = empty
    BY <1>3, <1>4, <2>1
  <2>3. PICK q, o, e : chain = [mcm |-> M, timelock |-> T, queue |-> q, out |-> o, early |-> e]
    BY DEF TonPatience, TonShape
  <2>4. q = chain.queue /\ o = chain.out /\ e = chain.early
    BY <2>3
  <2> HIDE DEF M, T, empty
  <2>5. next = [chain EXCEPT !.queue = empty]
    BY <2>2
  <2>. QED BY <2>3, <2>4, <2>5
<1>0. /\ M = [root |-> M.root, opCount |-> M.opCount, post |-> M.post, pendingFor |-> M.pendingFor]
      /\ T = [pendingFor |-> T.pendingFor, done |-> T.done, delay |-> T.delay]
      /\ M.pendingFor \in Nat /\ T.pendingFor \in Nat
      /\ ~chain.early
  BY DEF TonPatience, TonShape
<1> HIDE DEF next, M, T, empty
<1> DEFINE Becomes(mm, tt, o, e) ==
         /\ chain' = [mcm |-> mm, timelock |-> tt, queue |-> empty, out |-> o, early |-> e]
         /\ mm = [root |-> mm.root, opCount |-> mm.opCount, post |-> mm.post, pendingFor |-> mm.pendingFor]
         /\ tt = [pendingFor |-> tt.pendingFor, done |-> tt.done, delay |-> tt.delay]
         /\ mm.pendingFor \in Nat /\ tt.pendingFor \in Nat
         /\ ~e
<1>6. \E mm, tt, o, e : Becomes(mm, tt, o, e)
  <2>1. CASE body.kind = "setRoot" /\ Ton!SetRootAccepted(body)
    <3> DEFINE post == body.metadata.post
               mm == [root |-> TRUE, opCount |-> M.opCount, post |-> post, pendingFor |-> M.pendingFor]
    <3>1. chain' = [next EXCEPT !.mcm.root = TRUE, !.mcm.post = post]
      BY <2>1 DEF Ton!Deliver, next
    <3> HIDE DEF post
    <3>2. chain' = [mcm |-> mm, timelock |-> T, queue |-> empty, out |-> chain.out, early |-> chain.early]
      BY <3>1, <1>5, <1>0
    <3>3. mm = [root |-> mm.root, opCount |-> mm.opCount, post |-> mm.post, pendingFor |-> mm.pendingFor]
          /\ mm.pendingFor \in Nat
      BY <1>0
    <3>4. Becomes(mm, T, chain.out, chain.early)
      BY <3>2, <3>3, <1>0
    <3> HIDE DEF Becomes, mm
    <3>. QED BY <3>4
  <2>2. CASE body.kind = "execute" /\ Ton!ExecuteAccepted(body)
    <3> DEFINE o == <<body.op.op>>
               mm == [root |-> M.root, opCount |-> M.opCount + 1, post |-> M.post, pendingFor |-> Finalization]
    <3>1. chain' = [next EXCEPT !.mcm.opCount = @ + 1, !.mcm.pendingFor = Finalization, !.out = o]
      BY <2>2 DEF Ton!Deliver, next
    <3> HIDE DEF o
    <3>2. chain' = [mcm |-> mm, timelock |-> T, queue |-> empty, out |-> o, early |-> chain.early]
      BY <3>1, <1>5, <1>0
    <3>3. mm = [root |-> mm.root, opCount |-> mm.opCount, post |-> mm.post, pendingFor |-> mm.pendingFor]
          /\ mm.pendingFor \in Nat
      BY FinalizationAssumption
    <3>4. Becomes(mm, T, o, chain.early)
      BY <3>2, <3>3, <1>0
    <3> HIDE DEF Becomes, mm
    <3>. QED BY <3>4
  <2>3. CASE body.kind = "executeBatch" /\ Ton!ExecuteBatchAccepted(body)
    <3> DEFINE id == Ton!HashOperationBatch(body.calls, body.predecessor, body.salt)
               delay == [i \in DOMAIN T.delay \ {id} |-> T.delay[i]]
               done == T.done \cup {id}
               tt == [pendingFor |-> Finalization, done |-> done, delay |-> delay]
    <3>0. next.timelock = T
      BY <1>5
    <3>1. chain' = [next EXCEPT !.timelock.pendingFor = Finalization,
                                !.timelock.delay = [i \in DOMAIN @ \ {id} |-> @[i]],
                                !.timelock.done = @ \cup {id}]
      BY <2>3 DEF Ton!Deliver, next
    <3>2. chain' = [next EXCEPT !.timelock.pendingFor = Finalization,
                                !.timelock.delay = delay,
                                !.timelock.done = done]
      BY <3>0, <3>1, <1>0
    <3> HIDE DEF delay, done
    <3>3. chain' = [mcm |-> M, timelock |-> tt, queue |-> empty, out |-> chain.out, early |-> chain.early]
      BY <3>2, <1>5, <1>0
    <3>4. tt = [pendingFor |-> tt.pendingFor, done |-> tt.done, delay |-> tt.delay] /\ tt.pendingFor \in Nat
      BY FinalizationAssumption
    <3>5. Becomes(M, tt, chain.out, chain.early)
      BY <3>3, <3>4, <1>0
    <3> HIDE DEF Becomes, tt
    <3>. QED BY <3>5
  <2>4. CASE /\ ~(body.kind = "setRoot" /\ Ton!SetRootAccepted(body))
             /\ ~(body.kind = "execute" /\ Ton!ExecuteAccepted(body))
             /\ ~(body.kind = "executeBatch" /\ Ton!ExecuteBatchAccepted(body))
    <3> DEFINE e == next.early \/ (body.kind # "setRoot" /\ chain[d].pendingFor > 0)
    <3>1. chain' = [next EXCEPT !.early = e]
      BY <2>4 DEF Ton!Deliver, next
    <3>2. ~e
      BY <1>3, <1>5, <1>0
    <3> HIDE DEF e
    <3>3. chain' = [mcm |-> M, timelock |-> T, queue |-> empty, out |-> chain.out, early |-> e]
      BY <3>1, <1>5
    <3>4. Becomes(M, T, chain.out, e)
      BY <3>2, <3>3, <1>0
    <3> HIDE DEF Becomes
    <3>. QED BY <3>4
  <2>. QED BY <2>1, <2>2, <2>3, <2>4
<1> HIDE DEF Becomes
<1>7. PICK mm, tt, o, e : Becomes(mm, tt, o, e)
  BY <1>6
<1>8. /\ chain' = [mcm |-> mm, timelock |-> tt, queue |-> empty, out |-> o, early |-> e]
      /\ mm = [root |-> mm.root, opCount |-> mm.opCount, post |-> mm.post, pendingFor |-> mm.pendingFor]
      /\ tt = [pendingFor |-> tt.pendingFor, done |-> tt.done, delay |-> tt.delay]
      /\ mm.pendingFor \in Nat /\ tt.pendingFor \in Nat
      /\ ~e
  BY <1>7 DEF Becomes
<1>9. /\ chain'.mcm = mm /\ chain'.timelock = tt /\ chain'.queue = empty
      /\ chain'.out = o /\ chain'.early = e
  BY <1>8
<1>10. \A e2 \in Contracts : empty[e2] = <<>>
  BY DEF empty
<1>11. TonShape'
  BY <1>1, <1>8, <1>9, <1>10 DEF TonPatience, TonShape, empty
<1>. QED BY <1>1, <1>3, <1>8, <1>9, <1>10, <1>11 DEF TonPatience, TonCallWaits, TonMessageIsAlone

\* The timelock takes an operation: what it has pending does not change.
LEMMA TonTimelockTakes ==
    ASSUME TonPatience, Ton!DeliverOperation
    PROVE  TonPatience'
<1> DEFINE T == chain.timelock
<1>1. chain.out # <<>> /\ client' = client
  BY DEF Ton!DeliverOperation
<1>2. client = Ton!Idle
  BY <1>1 DEF TonPatience, TonCallWaits
<1>3. PICK delay : chain' = [chain EXCEPT !.out = <<>>, !.timelock.delay = delay]
  BY DEF Ton!DeliverOperation
<1>4. /\ chain' = [mcm |-> chain.mcm, timelock |-> [pendingFor |-> T.pendingFor, done |-> T.done, delay |-> delay],
                   queue |-> chain.queue, out |-> <<>>, early |-> chain.early]
  BY <1>3 DEF TonPatience, TonShape
<1>5. /\ chain'.mcm = chain.mcm /\ chain'.queue = chain.queue /\ chain'.early = chain.early
      /\ chain'.timelock = [pendingFor |-> T.pendingFor, done |-> T.done, delay |-> delay]
  BY <1>4
<1>6. chain'.timelock.pendingFor = T.pendingFor
  BY <1>5
<1>7. TonShape'
  BY <1>1, <1>4, <1>5, <1>6 DEF TonPatience, TonShape
<1>8. \A d \in Contracts : chain'[d].pendingFor = chain[d].pendingFor
  BY <1>5, <1>6 DEF Contracts
<1>. QED BY <1>1, <1>2, <1>5, <1>7, <1>8 DEF TonPatience, TonCallWaits, TonMessageIsAlone

\* It comes back, and the multisig has nothing pending any more.
LEMMA TonOperationBounces ==
    ASSUME TonPatience, Ton!BounceOperation
    PROVE  TonPatience'
<1> DEFINE M == chain.mcm
           mm == [root |-> M.root, opCount |-> M.opCount - 1, post |-> M.post, pendingFor |-> 0]
<1>1. chain.out # <<>> /\ client' = client
  BY DEF Ton!BounceOperation
<1>2. client = Ton!Idle
  BY <1>1 DEF TonPatience, TonCallWaits
<1>3. chain' = [chain EXCEPT !.out = <<>>, !.mcm.opCount = @ - 1, !.mcm.pendingFor = 0]
  BY DEF Ton!BounceOperation
<1>4. chain' = [mcm |-> mm, timelock |-> chain.timelock, queue |-> chain.queue, out |-> <<>>, early |-> chain.early]
  BY <1>3 DEF TonPatience, TonShape
<1>5. /\ chain'.mcm = mm /\ chain'.queue = chain.queue /\ chain'.early = chain.early
      /\ chain'.timelock = chain.timelock
  BY <1>4
<1>6. TonShape'
  BY <1>1, <1>4, <1>5 DEF TonPatience, TonShape
<1>7. \A d \in Contracts : chain[d].pendingFor = 0 => chain'[d].pendingFor = 0
  BY <1>5 DEF Contracts
<1>. QED BY <1>1, <1>2, <1>5, <1>6, <1>7 DEF TonPatience, TonCallWaits, TonMessageIsAlone

LEMMA LessIsLess ==
    /\ \A n \in Nat : Ton!Less(n) \in Nat
    /\ \A m, n \in Nat : m <= n => Ton!Less(m) <= Ton!Less(n)
    /\ Ton!Less(0) = 0
BY DEF Ton!Less

\* Time passes for the call and the contracts alike.
LEMMA TonTimePasses ==
    ASSUME TonPatience, Ton!Tick
    PROVE  TonPatience'
<1> DEFINE M == chain.mcm
           T == chain.timelock
           mm == [root |-> M.root, opCount |-> M.opCount, post |-> M.post, pendingFor |-> Ton!Less(M.pendingFor)]
<1>1. client' = [client EXCEPT !.wait = Ton!Less(@)]
  BY DEF Ton!Tick
<1>2. PICK delay : chain' = [chain EXCEPT !.mcm.pendingFor = Ton!Less(@), !.timelock.pendingFor = Ton!Less(@),
                                          !.timelock.delay = delay]
  <2> DEFINE delay == [id \in DOMAIN chain.timelock.delay |-> Ton!Less(chain.timelock.delay[id])]
  <2>1. chain' = [chain EXCEPT !.mcm.pendingFor = Ton!Less(@), !.timelock.pendingFor = Ton!Less(@),
                               !.timelock.delay = [id \in DOMAIN @ |-> Ton!Less(@[id])]]
    BY DEF Ton!Tick
  <2>2. chain' = [chain EXCEPT !.mcm.pendingFor = Ton!Less(@), !.timelock.pendingFor = Ton!Less(@),
                               !.timelock.delay = delay]
    BY <2>1 DEF TonPatience, TonShape
  <2> HIDE DEF delay
  <2>. QED BY <2>2
<1> DEFINE tt == [pendingFor |-> Ton!Less(T.pendingFor), done |-> T.done, delay |-> delay]
<1>3. chain' = [mcm |-> mm, timelock |-> tt, queue |-> chain.queue, out |-> chain.out, early |-> chain.early]
  BY <1>2 DEF TonPatience, TonShape
<1>4. /\ chain'.mcm = mm /\ chain'.timelock = tt
      /\ chain'.queue = chain.queue /\ chain'.out = chain.out /\ chain'.early = chain.early
  BY <1>3
<1>5. \A d \in Contracts : chain'[d].pendingFor = Ton!Less(chain[d].pendingFor) /\ chain[d].pendingFor \in Nat
  BY <1>4 DEF Contracts, TonPatience, TonShape
<1>6. client' = [dst |-> client.dst, body |-> client.body, wait |-> Ton!Less(client.wait)]
  BY <1>1 DEF TonPatience, TonShape
<1>7. client'.dst = client.dst /\ client'.body = client.body /\ client'.wait = Ton!Less(client.wait)
  BY <1>6
<1>8. client' # Ton!Idle => client # Ton!Idle
  <2>1. SUFFICES ASSUME client = Ton!Idle PROVE client' = Ton!Idle
    OBVIOUS
  <2>. QED BY <2>1, <1>6, LessIsLess DEF Ton!Idle
<1>9. TonShape'
  BY <1>3, <1>4, <1>6, <1>7, <1>8, LessIsLess DEF TonPatience, TonShape
<1>10. TonCallWaits'
  <2>1. SUFFICES ASSUME client' # Ton!Idle
                 PROVE  /\ \A d \in Contracts : chain'.queue[d] = <<>>
                        /\ chain'.out = <<>>
                        /\ chain'[client'.dst].pendingFor <= client'.wait
    BY DEF TonCallWaits
  <2>2. /\ client.dst \in Contracts /\ client.wait \in Nat
        /\ chain[client.dst].pendingFor <= client.wait
    BY <2>1, <1>8 DEF TonPatience, TonShape, TonCallWaits
  <2>3. Ton!Less(chain[client.dst].pendingFor) <= Ton!Less(client.wait)
    BY <2>2, <1>5, LessIsLess
  <2>4. (\A d \in Contracts : chain.queue[d] = <<>>) /\ chain.out = <<>>
    BY <2>1, <1>8 DEF TonPatience, TonCallWaits
  <2>. QED BY <2>2, <2>3, <2>4, <1>4, <1>5, <1>7
<1>11. TonMessageIsAlone'
  BY <1>4, <1>5, LessIsLess DEF TonPatience, TonMessageIsAlone
<1>. QED BY <1>4, <1>9, <1>10, <1>11 DEF TonPatience

LEMMA TonStep ==
    ASSUME TonPatience, bound.patient, Ton!Next
    PROVE  TonPatience'
<1>1. ASSUME Ton!SetRoot(bound.action) PROVE TonPatience'
  BY <1>1, TonBegins DEF Ton!SetRoot, Contracts
<1>2. ASSUME Ton!ExecuteOperation(bound.action) PROVE TonPatience'
  BY <1>2, TonBegins DEF Ton!ExecuteOperation, Contracts
<1>3. ASSUME NEW i \in DOMAIN bound.batches, Ton!Execute(i) PROVE TonPatience'
  BY <1>3, TonBegins DEF Ton!Execute, Contracts
<1>4. ASSUME Ton!SendTx \/ Ton!GiveUp PROVE TonPatience'
  BY <1>4, TonSends, TonGivesUp
<1>5. ASSUME NEW d \in {"mcm", "timelock"}, Ton!Deliver(d) PROVE TonPatience'
  BY <1>5, TonDelivers DEF Contracts
<1>6. ASSUME Ton!DeliverOperation \/ Ton!BounceOperation PROVE TonPatience'
  BY <1>6, TonTimelockTakes, TonOperationBounces
<1>7. ASSUME Ton!Tick PROVE TonPatience'
  BY <1>7, TonTimePasses
<1>. QED BY <1>1, <1>2, <1>3, <1>4, <1>5, <1>6, <1>7 DEF Ton!Next

\* SendTxAfter waits for what was pending when it looked, and what a call finds on
\* arrival can only be less: a patient TON caller is never too early, for every
\* proposal, finalization time and number of faults.
THEOREM TonTimeliness == Spec => []TonCallsAreTimely
<1>1. Init => TonInv
  BY TonInit DEF Init, TonInv, Of
<1>2. TonInv /\ [Next]_vars => TonInv'
  <2>1. SUFFICES ASSUME TonInv, [Next]_vars, Of("ton")', bound'.patient PROVE TonPatience'
    BY DEF TonInv
  <2>2. bound' = bound
    BY <2>1, InstanceIsKept DEF vars
  <2>3. TonPatience /\ Of("ton") /\ bound.patient
    BY <2>1, <2>2 DEF TonInv, Of
  <2>4. CASE Next
    <3>1. Ton!Next
      BY <2>3, <2>4 DEF Next, Of
    <3>. QED BY <2>3, <3>1, TonStep
  <2>5. CASE UNCHANGED vars
    BY <2>3, <2>5 DEF vars, TonPatience, TonShape, TonCallWaits, TonMessageIsAlone
  <2>. QED BY <2>1, <2>4, <2>5
<1>3. TonInv => TonCallsAreTimely
  BY DEF TonInv, TonPatience, TonCallsAreTimely
<1>. QED BY <1>1, <1>2, <1>3, PTL DEF Spec

-----------------------------------------------------------------------------
(* Sui: the commands of a transaction *)

\* The states after no command and after one more.
LEMMA SuiStates ==
    ASSUME NEW ptb, Len(ptb) \in Nat
    PROVE  /\ Sui!States(ptb)[0] = {Sui!Started}
           /\ \A k \in 1..Len(ptb) : Sui!States(ptb)[k] = UNION {Sui!Run(s, ptb[k]) : s \in Sui!States(ptb)[k - 1]}
<1> DEFINE N == Len(ptb)
           Step(f, k) == IF k = 0 THEN {Sui!Started} ELSE UNION {Sui!Run(s, ptb[k]) : s \in f[k - 1]}
           UpTo(f, n) == f = [k \in 0..n |-> Step(f, k)]
           S == {n \in 0..N : \E f : UpTo(f, n)}
<1>1. 0 \in S
  <2> DEFINE f == [k \in 0..0 |-> {Sui!Started}]
  <2>1. \A k \in 0..0 : k = 0
    OBVIOUS
  <2>2. UpTo(f, 0)
    BY <2>1
  <2>3. 0 \in 0..N
    OBVIOUS
  <2> HIDE DEF f, UpTo
  <2>. QED BY <2>2, <2>3
<1>2. ASSUME NEW n \in 0..N, n \in S, n < N PROVE n + 1 \in S
  <2>1. PICK u : UpTo(u, n)
    BY <1>2
  <2> DEFINE v == [k \in 0..(n + 1) |-> Step(u, k)]
  <2>2. \A k \in 0..n : k \in 0..(n + 1) /\ v[k] = u[k]
    <3>1. \A k \in 0..n : u[k] = Step(u, k)
      BY <2>1
    <3> HIDE DEF Step
    <3>. QED BY <3>1
  <2>3. \A k \in 0..(n + 1) : k = 0 \/ k - 1 \in 0..n
    OBVIOUS
  <2> HIDE DEF v
  <2>4. \A k \in 0..(n + 1) : Step(u, k) = Step(v, k)
    BY <2>2, <2>3
  <2> HIDE DEF Step
  <2>5. UpTo(v, n + 1)
    BY <2>4 DEF v
  <2>6. n + 1 \in 0..N
    BY <1>2
  <2> HIDE DEF UpTo
  <2>. QED BY <2>5, <2>6
<1>3. \A n \in 0..N : n \in S
  <2> HIDE DEF S
  <2>. QED BY <1>1, <1>2, UpwardInduction
<1>4. \E f : UpTo(f, N)
  <2>1. N \in 0..N
    OBVIOUS
  <2>. QED BY <1>3, <2>1
<1>5. Sui!States(ptb) = CHOOSE f : UpTo(f, N)
  BY DEF Sui!States
<1>6. UpTo(Sui!States(ptb), N)
  <2> HIDE DEF UpTo
  <2>. QED BY <1>4, <1>5
<1>7. \A k \in 0..N : Sui!States(ptb)[k] = Step(Sui!States(ptb), k)
  <2> HIDE DEF Step
  <2>. QED BY <1>6
<1>8. 0 \in 0..N /\ \A k \in 1..N : k \in 0..N /\ k # 0
  OBVIOUS
<1>. QED BY <1>7, <1>8

\* A state while a transaction runs is a record of these fields.
Running(s) ==
    s = [chain |-> s.chain, params |-> s.params, vector |-> s.vector, held |-> s.held,
         tickets |-> s.tickets, receipts |-> s.receipts]
ChainFields(c) == c = [pending |-> c.pending, done |-> c.done, ran |-> c.ran, multisig |-> c.multisig]

LEMMA RanChanges ==
    ASSUME NEW c, ChainFields(c), NEW x
    PROVE  [c EXCEPT !.ran = x] = [pending |-> c.pending, done |-> c.done, ran |-> x, multisig |-> c.multisig]
BY DEF ChainFields

\* A parameter is taken from the start of the vector.
LEMMA SuiRemoves ==
    ASSUME NEW s, Running(s), NEW c, c.cmd = "remove", c.from = "start", NEW t \in Sui!Run(s, c)
    PROVE  /\ Running(t) /\ t.chain = s.chain
           /\ s.params # <<>> /\ t.params = Tail(s.params) /\ t.held = Append(s.held, Head(s.params))
<1>1. s.params # <<>> /\ t = Sui!Take(s, Head(s.params), Tail(s.params))
  BY DEF Sui!Run
<1>2. t = [s EXCEPT !.params = Tail(s.params), !.held = Append(@, Head(s.params))]
  BY <1>1 DEF Sui!Take
<1>3. t = [chain |-> s.chain, params |-> Tail(s.params), vector |-> s.vector, held |-> Append(s.held, Head(s.params)),
           tickets |-> s.tickets, receipts |-> s.receipts]
  BY <1>2 DEF Running
<1>. QED BY <1>1, <1>3 DEF Running

\* It is passed to the function it is for.
LEMMA SuiDispatches ==
    ASSUME NEW s, Running(s), ChainFields(s.chain), NEW c, c.cmd = "dispatch", NEW t \in Sui!Run(s, c)
    PROVE  /\ Running(t) /\ t.params = s.params /\ t.held = Sui!Front(s.held)
           /\ t.chain = [pending |-> s.chain.pending, done |-> s.chain.done,
                         ran |-> Append(s.chain.ran, Sui!WithObject(Sui!Last(s.held), c.stateObj)),
                         multisig |-> s.chain.multisig]
<1> DEFINE more == Sui!WithObject(Sui!Last(s.held), c.stateObj)
<1>1. PICK tickets : t = [s EXCEPT !.held = Sui!Front(@), !.chain.ran = Append(@, more), !.tickets = tickets]
  <2> DEFINE tickets == IF c.via = "deployer" THEN Append(s.tickets, Sui!Last(s.held).data) ELSE s.tickets
  <2>1. t = [s EXCEPT !.held = Sui!Front(@), !.chain.ran = Append(@, Sui!WithObject(Sui!Last(s.held), c.stateObj)),
                      !.tickets = IF c.via = "deployer" THEN Append(@, Sui!Last(s.held).data) ELSE @]
    <3> DEFINE next == [s EXCEPT !.held = Sui!Front(@), !.chain.ran = Append(@, Sui!WithObject(Sui!Last(s.held), c.stateObj)),
                         !.tickets = IF c.via = "deployer" THEN Append(@, Sui!Last(s.held).data) ELSE @]
    <3>1. Sui!Run(s, c) = Sui!If(Sui!Identity(c.target) = Sui!Last(s.held).target /\ c.module = Sui!Last(s.held).module, next)
      BY Zenon DEF Sui!Run
    <3> HIDE DEF next
    <3>2. t = next
      BY <3>1 DEF Sui!If
    <3>. QED BY <3>2 DEF next
  <2> HIDE DEF more
  <2>2. t = [s EXCEPT !.held = Sui!Front(@), !.chain.ran = Append(@, more), !.tickets = tickets]
    BY <2>1 DEF Running, more
  <2> HIDE DEF tickets
  <2>. QED BY <2>2
<1> HIDE DEF more
<1>2. t = [chain |-> [s.chain EXCEPT !.ran = Append(@, more)], params |-> s.params, vector |-> s.vector,
           held |-> Sui!Front(s.held), tickets |-> tickets, receipts |-> s.receipts]
  BY <1>1 DEF Running
<1>3. [s.chain EXCEPT !.ran = Append(@, more)]
        = [pending |-> s.chain.pending, done |-> s.chain.done, ran |-> Append(s.chain.ran, more),
           multisig |-> s.chain.multisig]
  <2>1. [s.chain EXCEPT !.ran = Append(@, more)] = [s.chain EXCEPT !.ran = Append(s.chain.ran, more)]
    OBVIOUS
  <2>. QED BY <2>1, RanChanges
<1>. QED BY <1>2, <1>3 DEF Running, more

\* The commands of an upgrade and the last one leave parameters and chain alone.
LEMMA SuiFinishes ==
    ASSUME NEW s, Running(s), NEW c, c.cmd \in {"upgrade", "commit_upgrade", "destroy_empty"}, NEW t \in Sui!Run(s, c)
    PROVE  Running(t) /\ t.chain = s.chain /\ t.params = s.params /\ t.held = s.held
<1>1. CASE c.cmd = "upgrade"
  <2>1. Sui!Run(s, c) = Sui!If(s.tickets # <<>> /\ Sui!Last(s.tickets) = c.modules,
                                [s EXCEPT !.tickets = Sui!Front(@), !.receipts = @ + 1])
    BY <1>1 DEF Sui!Run
  <2>2. t = [s EXCEPT !.tickets = Sui!Front(@), !.receipts = @ + 1]
    BY <2>1, Zenon DEF Sui!If
  <2>. QED BY <2>2 DEF Running
<1>2. CASE c.cmd = "commit_upgrade"
  <2>1. t = [s EXCEPT !.receipts = @ - 1]
    BY <1>2 DEF Sui!Run, Sui!If
  <2>. QED BY <2>1 DEF Running
<1>3. CASE c.cmd = "destroy_empty"
  <2>1. t = [s EXCEPT !.vector = FALSE]
    BY <1>3 DEF Sui!Run, Sui!If
  <2>. QED BY <2>1 DEF Running
<1>. QED BY <1>1, <1>2, <1>3

\* The object a call is made on.
ObjectOf(call) ==
    IF call.target = Sui!MCMSPackage /\ call.module = "mcms_account" THEN bound.accountObj ELSE call.stateObj

\* The commands of one call: a parameter is taken out and dispatched with the call's object.
AreCommandsOf(c, call) ==
    /\ Len(c) \in {2, 4}
    /\ c[1].cmd = "remove" /\ c[1].from = "start"
    /\ c[2].cmd = "dispatch" /\ c[2].stateObj = ObjectOf(call)
    /\ \A j \in 3..Len(c) : c[j].cmd \in {"upgrade", "commit_upgrade", "destroy_empty"}

\* A command followed by others.
LEMMA CommandThenOne ==
    ASSUME NEW a, NEW x
    PROVE  <<a>> \o <<x>> = <<a, x>>
<1> DEFINE T == {a, x}
<1>1. /\ <<a>> \in Seq(T) /\ Len(<<a>>) = 1 /\ <<a>>[1] = a
      /\ <<x>> \in Seq(T) /\ Len(<<x>>) = 1 /\ <<x>>[1] = x
      /\ <<a, x>> \in Seq(T) /\ Len(<<a, x>>) = 2 /\ <<a, x>>[1] = a /\ <<a, x>>[2] = x
  OBVIOUS
<1>2. PICK f, g, h : f = <<a>> /\ g = <<x>> /\ h = <<a, x>>
  OBVIOUS
<1> HIDE DEF T
<1>3. f \o g \in Seq(T) /\ Len(f \o g) = 2 /\ (f \o g)[1] = a /\ (f \o g)[2] = x
  BY <1>1, <1>2, ConcatProperties
<1>4. \A i \in 1..2 : i = 1 \/ i = 2
  OBVIOUS
<1>5. f \o g = h
  BY ZenonT(60), <1>1, <1>2, <1>3, <1>4, SeqEqual
<1>. QED BY <1>2, <1>5

LEMMA CommandThenThree ==
    ASSUME NEW a, NEW x, NEW y, NEW z
    PROVE  <<a>> \o <<x, y, z>> = <<a, x, y, z>>
<1> DEFINE T == {a, x, y, z}
<1>1. PICK f, g, h : f = <<a>> /\ g = <<x, y, z>> /\ h = <<a, x, y, z>>
  OBVIOUS
<1>2. /\ f \in Seq(T) /\ Len(f) = 1 /\ f[1] = a
      /\ g \in Seq(T) /\ Len(g) = 3 /\ g[1] = x /\ g[2] = y /\ g[3] = z
      /\ h \in Seq(T) /\ Len(h) = 4 /\ h[1] = a /\ h[2] = x /\ h[3] = y /\ h[4] = z
  BY <1>1
<1> HIDE DEF T
<1>3. /\ f \o g \in Seq(T) /\ Len(f \o g) = 4
      /\ \A i \in 1..4 : (f \o g)[i] = IF i <= 1 THEN f[i] ELSE g[i - 1]
  <2>1. /\ f \o g \in Seq(T) /\ Len(f \o g) = Len(f) + Len(g)
        /\ \A i \in 1..(Len(f) + Len(g)) : (f \o g)[i] = IF i <= Len(f) THEN f[i] ELSE g[i - Len(f)]
    BY <1>2, ConcatProperties
  <2>2. Len(f) + Len(g) = 4
    BY <1>2
  <2>. QED BY <1>2, <2>1, <2>2
<1>4. \A i \in 1..4 : i = 1 \/ i = 2 \/ i = 3 \/ i = 4
  OBVIOUS
<1>5. \A i \in 1..4 : (f \o g)[i] = h[i]
  BY <1>2, <1>3, <1>4
<1>6. f \o g = h
  BY <1>2, <1>3, <1>5, SeqEqual
<1>. QED BY <1>1, <1>6

LEMMA SuiCommands ==
    ASSUME NEW call
    PROVE  LET c == Sui!processCall(call) IN
           AreCommandsOf(c, call) /\ \A T : (\A j \in 1..Len(c) : c[j] \in T) => c \in Seq(T)
<1> DEFINE a == Sui!extractExecutingCallbackParams
           d(via) == Sui!Dispatch(via, call)
           e == [d("account") EXCEPT !.stateObj = bound.accountObj]
           u == [cmd |-> "upgrade", modules |-> call.modules]
           f == [cmd |-> "commit_upgrade"]
           IsDispatch(x) == x.cmd = "dispatch" /\ x.stateObj = ObjectOf(call)
<1>1. \/ \E x : IsDispatch(x) /\ Sui!processCall(call) = <<a, x>>
      \/ \E x : IsDispatch(x) /\ Sui!processCall(call) = <<a, x, u, f>>
  <2>0. \A via : d(via).cmd = "dispatch" /\ d(via).stateObj = call.stateObj
    BY DEF Sui!Dispatch
  <2>1. CASE call.target = Sui!MCMSPackage /\ call.module = "mcms_deployer"
    <3>1. Sui!processCall(call) = <<a>> \o <<d("deployer"), u, f>>
      BY <2>1 DEF Sui!processCall, Sui!processMCMSDeployerCall
    <3>2. IsDispatch(d("deployer"))
      BY <2>0, <2>1 DEF ObjectOf
    <3> HIDE DEF a, d, u, f, IsDispatch
    <3>. QED BY <3>1, <3>2, CommandThenThree
  <2>2. CASE call.target = Sui!MCMSPackage /\ call.module = "mcms_account"
    <3>1. Sui!processCall(call) = <<a>> \o <<e>>
      BY <2>2 DEF Sui!processCall, Sui!processMCMSAccountCall
    <3>2. e.cmd = "dispatch" /\ e.stateObj = bound.accountObj
      BY DEF Sui!Dispatch
    <3>3. IsDispatch(e)
      BY <2>2, <3>2 DEF ObjectOf
    <3> HIDE DEF a, e, IsDispatch
    <3>. QED BY <3>1, <3>3, CommandThenOne
  <2>3. CASE call.target = Sui!MCMSPackage /\ call.module \notin {"mcms_deployer", "mcms_account"}
    <3>1. Sui!processCall(call) = <<a>> \o <<d("main")>>
      BY <2>3 DEF Sui!processCall, Sui!processMCMSMainModuleCall
    <3>2. IsDispatch(d("main"))
      BY <2>0, <2>3 DEF ObjectOf
    <3> HIDE DEF a, d, IsDispatch
    <3>. QED BY <3>1, <3>2, CommandThenOne
  <2>4. CASE call.target # Sui!MCMSPackage
    <3>1. Sui!processCall(call) = <<a>> \o <<d("entrypoint")>>
      BY <2>4 DEF Sui!processCall, Sui!processDestinationContractCall
    <3>2. IsDispatch(d("entrypoint"))
      BY <2>0, <2>4 DEF ObjectOf
    <3> HIDE DEF a, d, IsDispatch
    <3>. QED BY <3>1, <3>2, CommandThenOne
  <2>. QED BY <2>1, <2>2, <2>3, <2>4
<1>2. a.cmd = "remove" /\ a.from = "start" /\ u.cmd = "upgrade" /\ f.cmd = "commit_upgrade"
  BY DEF Sui!extractExecutingCallbackParams
<1> HIDE DEF a, d, e, u, f
<1>3. ASSUME NEW x, IsDispatch(x), NEW c, c = <<a, x>>
      PROVE  AreCommandsOf(c, call) /\ \A T : (\A j \in 1..Len(c) : c[j] \in T) => c \in Seq(T)
  <2>1. Len(c) = 2 /\ c[1] = a /\ c[2] = x /\ \A j : j \notin 3..2
    BY <1>3
  <2>2. AreCommandsOf(c, call)
    BY <1>2, <1>3, <2>1 DEF AreCommandsOf
  <2>3. ASSUME NEW T, \A j \in 1..Len(c) : c[j] \in T PROVE c \in Seq(T)
    <3>1. a \in T /\ x \in T
      BY <2>1, <2>3
    <3>. QED BY <1>3, <3>1
  <2>. QED BY <2>2, <2>3
<1>4. ASSUME NEW x, IsDispatch(x), NEW c, c = <<a, x, u, f>>
      PROVE  AreCommandsOf(c, call) /\ \A T : (\A j \in 1..Len(c) : c[j] \in T) => c \in Seq(T)
  <2>1. Len(c) = 4 /\ c[1] = a /\ c[2] = x /\ c[3] = u /\ c[4] = f
    BY <1>4
  <2>2. \A j \in 3..4 : j = 3 \/ j = 4
    OBVIOUS
  <2>3. AreCommandsOf(c, call)
    BY <1>2, <1>4, <2>1, <2>2 DEF AreCommandsOf
  <2>4. ASSUME NEW T, \A j \in 1..Len(c) : c[j] \in T PROVE c \in Seq(T)
    <3>1. a \in T /\ x \in T /\ u \in T /\ f \in T
      BY <2>1, <2>4
    <3>. QED BY <1>4, <3>1
  <2>. QED BY <2>3, <2>4
<1> HIDE DEF IsDispatch
<1>. QED BY <1>1, <1>3, <1>4

\* One element more of a sequence.
LEMMA OneMore ==
    ASSUME NEW T, NEW r \in Seq(T), NEW q \in Seq(T), NEW k \in Nat, k + 1 \in 1..Len(q)
    PROVE  Append(r \o SubSeq(q, 1, k), q[k + 1]) = r \o SubSeq(q, 1, k + 1)
<1>1. PICK a, b, n, x : a = SubSeq(q, 1, k) /\ b = SubSeq(q, 1, k + 1) /\ n = Len(r) /\ x = q[k + 1]
  OBVIOUS
<1>2. /\ a \in Seq(T) /\ Len(a) = k /\ (\A i \in 1..k : a[i] = q[i])
      /\ b \in Seq(T) /\ Len(b) = k + 1 /\ (\A i \in 1..(k + 1) : b[i] = q[i])
      /\ x \in T
  <2>1. Len(q) \in Nat /\ \A i \in 1..Len(q) : q[i] \in T
    BY ElementOfSeq, LenProperties
  <2>. QED BY <1>1, <2>1, SubSeqProperties
<1>3. /\ r \o a \in Seq(T) /\ Len(r \o a) = n + k /\ \A i \in 1..(n + k) : (r \o a)[i] = IF i <= n THEN r[i] ELSE a[i - n]
  BY <1>1, <1>2, ConcatProperties
<1>4. /\ r \o b \in Seq(T) /\ Len(r \o b) = n + (k + 1)
      /\ \A i \in 1..(n + (k + 1)) : (r \o b)[i] = IF i <= n THEN r[i] ELSE b[i - n]
  BY <1>1, <1>2, ConcatProperties
<1>5. PICK u, v : u = r \o a /\ v = r \o b
  OBVIOUS
<1>6. n \in Nat
  BY <1>1, LenProperties
<1>7. /\ Append(u, x) \in Seq(T) /\ Len(Append(u, x)) = n + k + 1
      /\ (\A i \in 1..(n + k) : Append(u, x)[i] = u[i]) /\ Append(u, x)[n + k + 1] = x
  BY <1>2, <1>3, <1>5, AppendProperties
<1>8. ASSUME NEW i \in 1..(n + k + 1) PROVE Append(u, x)[i] = v[i]
  <2>1. CASE i = n + k + 1
    <3>1. i \in 1..(n + (k + 1)) /\ ~(i <= n) /\ i - n = k + 1 /\ k + 1 \in 1..(k + 1)
      BY <1>6, <2>1
    <3>2. v[i] = b[k + 1]
      BY <1>4, <1>5, <3>1
    <3>. QED BY <1>1, <1>2, <1>7, <2>1, <3>1, <3>2
  <2>2. CASE i # n + k + 1
    <3>1. i \in 1..(n + k) /\ i \in 1..(n + (k + 1)) /\ (~(i <= n) => i - n \in 1..k /\ i - n \in 1..(k + 1))
      BY <1>6, <2>2
    <3>2. Append(u, x)[i] = IF i <= n THEN r[i] ELSE a[i - n]
      BY <1>3, <1>5, <1>7, <3>1
    <3>3. v[i] = IF i <= n THEN r[i] ELSE b[i - n]
      BY <1>4, <1>5, <3>1
    <3>4. ~(i <= n) => a[i - n] = b[i - n]
      BY <1>2, <3>1
    <3>. QED BY <3>2, <3>3, <3>4
  <2>. QED BY <2>1, <2>2
<1>9. Append(u, x) = v
  <2>1. Len(v) = n + k + 1 /\ v \in Seq(T)
    BY <1>4, <1>5, <1>6
  <2>. QED BY <1>7, <1>8, <2>1, SeqEqual
<1>. QED BY <1>1, <1>5, <1>9

\* A state after one more command comes from one before it.
LEMMA SuiStep ==
    ASSUME NEW ptb, Len(ptb) \in Nat, NEW k \in Nat, k + 1 \in 1..Len(ptb), NEW t \in Sui!States(ptb)[k + 1]
    PROVE  \E s \in Sui!States(ptb)[k] : t \in Sui!Run(s, ptb[k + 1])
<1>1. (k + 1) - 1 = k
  OBVIOUS
<1>2. Sui!States(ptb)[k + 1] = UNION {Sui!Run(s, ptb[k + 1]) : s \in Sui!States(ptb)[k]}
  BY <1>1, SuiStates
<1>. QED BY <1>2

\* A state between two calls of a transaction: what is left of the parameters, and
\* the calls that were made.
At(s, base, params, ran) ==
    /\ Running(s)
    /\ s.chain = [pending |-> base.pending, done |-> base.done, ran |-> ran, multisig |-> base.multisig]
    /\ s.params = params
    /\ s.held = <<>>

LEMMA OneHeld ==
    ASSUME NEW x
    PROVE  Sui!Last(Append(<<>>, x)) = x /\ Sui!Front(Append(<<>>, x)) = <<>>
<1>1. PICK h : h = Append(<<>>, x)
  OBVIOUS
<1>2. h \in Seq({x}) /\ Len(h) = 1 /\ h[1] = x
  BY <1>1
<1>3. Sui!Last(h) = x
  BY <1>2 DEF Sui!Last
<1>4. Sui!Front(h) = SubSeq(h, 1, 0)
  BY <1>2 DEF Sui!Front
<1>5. SubSeq(h, 1, 0) \in Seq({x}) /\ Len(SubSeq(h, 1, 0)) = 0
  BY <1>2
<1>6. SubSeq(h, 1, 0) = <<>>
  BY <1>5, EmptySeq
<1>. QED BY <1>1, <1>3, <1>4, <1>6

\* The commands of a call make it on its parameter and its object.
LEMMA SuiCallRuns ==
    ASSUME NEW ptb, NEW n \in Nat, NEW call, NEW c, NEW base, NEW params, NEW ran,
           Len(ptb) \in Nat, AreCommandsOf(c, call), n + Len(c) \in 1..Len(ptb),
           \A j \in 1..Len(c) : ptb[n + j] = c[j],
           \A s \in Sui!States(ptb)[n] : At(s, base, params, ran)
    PROVE  \A t \in Sui!States(ptb)[n + Len(c)] :
               At(t, base, Tail(params), Append(ran, Sui!WithObject(Head(params), ObjectOf(call))))
<1> DEFINE more == Append(ran, Sui!WithObject(Head(params), ObjectOf(call)))
<1>0. Len(c) \in {2, 4}
  BY DEF AreCommandsOf
<1>1. \A j \in 1..Len(c) : n + j \in 1..Len(ptb) /\ n + (j - 1) \in Nat /\ (n + (j - 1)) + 1 = n + j
  BY <1>0
<1>2. ASSUME NEW t \in Sui!States(ptb)[n + 2] PROVE At(t, base, Tail(params), more)
  <2>1. n + 1 \in 1..Len(ptb) /\ n + 2 \in 1..Len(ptb) /\ n + 1 \in Nat /\ (n + 1) + 1 = n + 2
    <3>1. PICK l, m : l = Len(c) /\ m = Len(ptb)
      OBVIOUS
    <3>2. l \in {2, 4} /\ m \in Nat /\ n + l \in 1..m
      BY <1>0, <3>1
    <3>3. n + 1 \in 1..m /\ n + 2 \in 1..m
      BY <3>2
    <3>. QED BY <3>1, <3>3
  <2>2. /\ ptb[n + 1].cmd = "remove" /\ ptb[n + 1].from = "start"
        /\ ptb[n + 2].cmd = "dispatch" /\ ptb[n + 2].stateObj = ObjectOf(call)
    <3>1. 1 \in 1..Len(c) /\ 2 \in 1..Len(c)
      <4>1. PICK l : l = Len(c)
        OBVIOUS
      <4>. QED BY <1>0, <4>1
    <3>2. ptb[n + 1] = c[1] /\ ptb[n + 2] = c[2]
      BY <3>1
    <3>. QED BY <3>2 DEF AreCommandsOf
  <2>3. PICK s \in Sui!States(ptb)[n + 1] : t \in Sui!Run(s, ptb[n + 2])
    BY <2>1, SuiStep
  <2>4. PICK r \in Sui!States(ptb)[n] : s \in Sui!Run(r, ptb[n + 1])
    BY <2>1, SuiStep
  <2>5. At(r, base, params, ran)
    OBVIOUS
  <2>6. /\ Running(s) /\ s.chain = r.chain /\ s.params = Tail(params)
        /\ s.held = Append(<<>>, Head(params))
    <3>1. Running(r) /\ r.params = params /\ r.held = <<>>
      BY <2>5 DEF At
    <3>2. PICK d : d = ptb[n + 1]
      OBVIOUS
    <3>3. d.cmd = "remove" /\ d.from = "start" /\ s \in Sui!Run(r, d)
      BY <2>2, <2>4, <3>2
    <3>. QED BY <3>1, <3>3, SuiRemoves
  <2>7. ChainFields(s.chain)
    BY <2>5, <2>6 DEF At, ChainFields
  <2>8. /\ Running(t) /\ t.params = s.params /\ t.held = Sui!Front(s.held)
        /\ t.chain = [pending |-> s.chain.pending, done |-> s.chain.done,
                      ran |-> Append(s.chain.ran, Sui!WithObject(Sui!Last(s.held), ObjectOf(call))),
                      multisig |-> s.chain.multisig]
    <3>1. PICK d : d = ptb[n + 2]
      OBVIOUS
    <3>2. d.cmd = "dispatch" /\ d.stateObj = ObjectOf(call) /\ t \in Sui!Run(s, d)
      BY <2>2, <2>3, <3>1
    <3>3. /\ Running(t) /\ t.params = s.params /\ t.held = Sui!Front(s.held)
          /\ t.chain = [pending |-> s.chain.pending, done |-> s.chain.done,
                        ran |-> Append(s.chain.ran, Sui!WithObject(Sui!Last(s.held), d.stateObj)),
                        multisig |-> s.chain.multisig]
      <4>1. Running(s) /\ d.cmd = "dispatch" /\ t \in Sui!Run(s, d)
        BY <2>6, <3>2
      <4>. QED BY <2>7, <4>1, SuiDispatches
    <3>. QED BY <3>2, <3>3
  <2>9. Sui!Last(s.held) = Head(params) /\ Sui!Front(s.held) = <<>>
    BY <2>6, OneHeld
  <2>10. s.chain.pending = base.pending /\ s.chain.done = base.done /\ s.chain.ran = ran
         /\ s.chain.multisig = base.multisig
    BY <2>5, <2>6 DEF At
  <2>. QED BY <2>6, <2>8, <2>9, <2>10 DEF At
<1>3. ASSUME NEW t, NEW s, NEW j \in 3..Len(c), t \in Sui!Run(s, ptb[n + j]), At(s, base, Tail(params), more)
      PROVE  At(t, base, Tail(params), more)
  <2>1. ptb[n + j] = c[j] /\ c[j].cmd \in {"upgrade", "commit_upgrade", "destroy_empty"}
    BY <1>0 DEF AreCommandsOf
  <2> HIDE DEF more
  <2>2. Running(t) /\ t.chain = s.chain /\ t.params = s.params /\ t.held = s.held
    BY SMTT(40), <1>3, <2>1, SuiFinishes DEF At
  <2>. QED BY <1>3, <2>2 DEF At
<1> HIDE DEF more
<1>4. CASE Len(c) = 2
  BY <1>2, <1>4 DEF more
<1>5. CASE Len(c) = 4
  <2>1. /\ n + 2 \in Nat /\ n + 3 \in Nat /\ n + 3 \in 1..Len(ptb) /\ n + 4 \in 1..Len(ptb)
        /\ (n + 2) + 1 = n + 3 /\ (n + 3) + 1 = n + 4 /\ 3 \in 3..Len(c) /\ 4 \in 3..Len(c)
    BY <1>5
  <2>2. ASSUME NEW t \in Sui!States(ptb)[n + 3] PROVE At(t, base, Tail(params), more)
    <3>1. PICK s \in Sui!States(ptb)[n + 2] : t \in Sui!Run(s, ptb[n + 3])
      BY <2>1, SuiStep
    <3>. QED BY <1>2, <1>3, <2>1, <3>1
  <2>3. ASSUME NEW t \in Sui!States(ptb)[n + 4] PROVE At(t, base, Tail(params), more)
    <3>1. PICK s \in Sui!States(ptb)[n + 3] : t \in Sui!Run(s, ptb[n + 4])
      BY <2>1, SuiStep
    <3>. QED BY <1>3, <2>1, <2>2, <3>1
  <2>. QED BY <1>5, <2>3 DEF more
<1>. QED BY <1>0, <1>4, <1>5

\* Where the commands of each call are: off[i] of them are for the first i calls.
LEMMA SuiAppended ==
    ASSUME NEW C, NEW calls \in Seq(C)
    PROVE  /\ \E T : Sui!AppendPTB(calls) \in Seq(T)
           /\ \E off \in [0..Len(calls) -> Nat] :
               /\ off[0] = 0
               /\ \A i \in 1..Len(calls) :
                    LET c == Sui!processCall(calls[i]) IN
                    /\ off[i] = off[i - 1] + Len(c)
                    /\ off[i] <= off[Len(calls)]
                    /\ \A j \in 1..Len(c) : off[i - 1] + j \in 1..off[Len(calls)] /\ Sui!AppendPTB(calls)[off[i - 1] + j] = c[j]
               /\ Len(Sui!AppendPTB(calls)) = off[Len(calls)] + 1
               /\ Sui!AppendPTB(calls)[off[Len(calls)] + 1] = Sui!closeExecutingCallbackParams
<1> DEFINE N == Len(calls)
           c(i) == Sui!processCall(calls[i])
           z == Sui!closeExecutingCallbackParams
           T == (UNION {{c(i)[j] : j \in 1..Len(c(i))} : i \in 1..N}) \cup {z}
           s == [i \in DOMAIN calls |-> c(i)]
           w == FlattenSeq(s)
<1>1. N \in Nat /\ DOMAIN calls = 1..N
  BY LenProperties
<1>2. \A i \in 1..N : c(i) \in Seq(T) /\ Len(c(i)) \in {2, 4}
  <2>1. ASSUME NEW i \in 1..N PROVE c(i) \in Seq(T) /\ Len(c(i)) \in {2, 4}
    <3>1. \A j \in 1..Len(c(i)) : c(i)[j] \in T
      <4> HIDE DEF c, z
      <4>1. \A j \in 1..Len(c(i)) : c(i)[j] \in {c(i)[k] : k \in 1..Len(c(i))}
        OBVIOUS
      <4>. QED BY <4>1
    <3>2. AreCommandsOf(c(i), calls[i]) /\ \A T2 : (\A j \in 1..Len(c(i)) : c(i)[j] \in T2) => c(i) \in Seq(T2)
      BY SuiCommands
    <3> HIDE DEF c, T
    <3>. QED BY <3>1, <3>2 DEF AreCommandsOf
  <2>. QED BY <2>1
<1>3. z \in T
  <2> HIDE DEF c, z
  <2>. QED BY Zenon
<1> HIDE DEF c, T
<1>4. s \in Seq(Seq(T)) /\ Len(s) = N /\ \A i \in 1..N : s[i] = c(i)
  <2>1. s \in [1..N -> Seq(T)]
    BY <1>1, <1>2
  <2>. QED BY <1>1, <2>1, IsASeq
<1> HIDE DEF s, N
<1>5. PICK off : w \in Seq(T) /\ Places(off, s) /\ IsJoined(w, s, off, N)
  BY <1>4, FlattenedElements
<1>6. Sui!AppendPTB(calls) = w \o <<z>>
  <2>1. Sui!FlattenSeq(s) = FlattenSeq(s)
    BY DEF Sui!FlattenSeq, FlattenSeq
  <2>. QED BY <2>1 DEF Sui!AppendPTB, s, c
<1>7. PICK m : m = off[N]
  OBVIOUS
<1>8. off \in [0..N -> Nat] /\ off[0] = 0 /\ Len(w) = m /\ m \in Nat
  <2>1. N \in 0..N
    BY <1>1
  <2>. QED BY <1>4, <1>5, <1>7, <2>1 DEF Places, IsJoined
<1> HIDE DEF w, z
<1>9. /\ Len(w \o <<z>>) = m + 1 /\ (w \o <<z>>)[m + 1] = z
      /\ \A k \in 1..m : (w \o <<z>>)[k] = w[k]
  <2>1. <<z>> \in Seq(T) /\ Len(<<z>>) = 1 /\ <<z>>[1] = z
    BY <1>3
  <2>2. PICK v : v = <<z>>
    OBVIOUS
  <2>3. /\ Len(w \o v) = m + 1
        /\ \A k \in 1..(m + 1) : (w \o v)[k] = IF k <= m THEN w[k] ELSE v[k - m]
    <3>1. /\ Len(w \o v) = Len(w) + Len(v)
          /\ \A k \in 1..(Len(w) + Len(v)) : (w \o v)[k] = IF k <= Len(w) THEN w[k] ELSE v[k - Len(w)]
      BY <1>5, <2>1, <2>2, ConcatProperties
    <3>2. Len(w) + Len(v) = m + 1
      BY <1>8, <2>1, <2>2
    <3>. QED BY <1>8, <3>1, <3>2
  <2>4. m + 1 \in 1..(m + 1) /\ ~(m + 1 <= m) /\ (m + 1) - m = 1
    BY <1>8
  <2>5. \A k \in 1..m : k \in 1..(m + 1) /\ k <= m
    BY <1>8
  <2>. QED BY <2>1, <2>2, <2>3, <2>4, <2>5
<1>10. ASSUME NEW i \in 1..N
       PROVE  /\ off[i] = off[i - 1] + Len(c(i))
              /\ off[i] <= m
              /\ \A j \in 1..Len(c(i)) : off[i - 1] + j \in 1..m /\ (w \o <<z>>)[off[i - 1] + j] = c(i)[j]
  <2>1. off[i] = off[i - 1] + Len(c(i))
    BY <1>4, <1>5 DEF Places
  <2>2. \A j \in 1..Len(c(i)) : off[i - 1] + j \in 1..m /\ w[off[i - 1] + j] = c(i)[j]
    BY <1>4, <1>5, <1>7 DEF IsJoined
  <2>3. Len(c(i)) \in 1..Len(c(i))
    <3>1. PICK l : l = Len(c(i))
      OBVIOUS
    <3>2. l \in {2, 4}
      BY <1>2, <3>1
    <3>3. l \in 1..l
      BY <3>2
    <3>. QED BY <3>1, <3>3
  <2>4. off[i] \in 1..m
    BY <2>1, <2>2, <2>3
  <2>5. off[i] <= m
    BY <2>4
  <2>. QED BY <1>9, <2>1, <2>2, <2>5
<1>11. Sui!AppendPTB(calls) \in Seq(T)
  <2>1. <<z>> \in Seq(T)
    BY <1>3
  <2>. QED BY <1>5, <1>6, <2>1, ConcatProperties
<1>12. /\ Len(Sui!AppendPTB(calls)) = off[N] + 1
       /\ Sui!AppendPTB(calls)[off[N] + 1] = z
  BY <1>6, <1>7, <1>9
<1>. QED BY ZenonT(60), <1>6, <1>7, <1>8, <1>10, <1>11, <1>12 DEF N, c, z

\* What a prefix and the rest of a sequence are at either end.
LEMMA WholeSequence ==
    ASSUME NEW T, NEW r \in Seq(T), NEW q \in Seq(T)
    PROVE  /\ SubSeq(q, 1, Len(q)) = q
           /\ r \o SubSeq(q, 1, 0) = r
<1>1. Len(q) \in Nat
  BY LenProperties
<1>2. SubSeq(q, 1, Len(q)) = q
  BY SubSeqFull
<1>3. SubSeq(q, 1, 0) = <<>>
  <2>1. \A i \in 1..0 : q[i] \in T
    OBVIOUS
  <2>2. SubSeq(q, 1, 0) \in Seq(T) /\ Len(SubSeq(q, 1, 0)) = 0
    BY <2>1, SubSeqProperties
  <2>. QED BY <2>2, EmptySeq
<1>4. r \o <<>> = r
  BY ConcatEmptySeq
<1>. QED BY <1>2, <1>3, <1>4

\* After n commands a transaction has those for the calls.
HasCalls(ptb, n, calls) ==
    /\ Len(ptb) \in Nat /\ Len(ptb) = n + Len(Sui!AppendPTB(calls))
    /\ \A j \in 1..Len(Sui!AppendPTB(calls)) : ptb[n + j] = Sui!AppendPTB(calls)[j]

\* A call with the object it is made on.
MadeCalls == {Sui!WithObject(Sui!SignedCall(tx), Sui!MeantObject(tx)) : tx \in Sui!Transaction}

\* q has each parameter with the object of its call.
HasObjects(q, params, calls) ==
    /\ \E C : calls \in Seq(C)
    /\ \E P : params \in Seq(P)
    /\ q \in Seq(MadeCalls)
    /\ Len(params) = Len(calls) /\ Len(q) = Len(calls)
    /\ \A t \in 1..Len(calls) : q[t] = Sui!WithObject(params[t], ObjectOf(calls[t]))

AllAt(ptb, n, base, params, ran) == \A s \in Sui!States(ptb)[n] : At(s, base, params, ran)
AllMade(ptb, base, ran) ==
    \A s \in Sui!States(ptb)[Len(ptb)] :
        s.chain = [pending |-> base.pending, done |-> base.done, ran |-> ran, multisig |-> base.multisig]

\* The calls of a transaction are made on the parameters and the objects in their order.
LEMMA SuiCallsRun ==
    ASSUME NEW ptb, NEW n \in Nat, NEW calls, NEW params, NEW q, NEW ran \in Seq(MadeCalls), NEW base,
           HasObjects(q, params, calls), HasCalls(ptb, n, calls), AllAt(ptb, n, base, params, ran)
    PROVE  AllMade(ptb, base, ran \o q)
<1> DEFINE w == Sui!AppendPTB(calls)
           c(i) == Sui!processCall(calls[i])
           z == Sui!closeExecutingCallbackParams
<1>0. PICK C, P, R : calls \in Seq(C) /\ params \in Seq(P) /\ R = MadeCalls /\ q \in Seq(R) /\ ran \in Seq(R)
  BY DEF HasObjects
<1>1. PICK N, M : N = Len(calls) /\ M = Len(ptb)
  OBVIOUS
<1>2. N \in Nat /\ M \in Nat /\ Len(params) = N /\ Len(q) = N
  BY <1>0, <1>1, LenProperties DEF HasObjects, HasCalls
<1>3. PICK off \in [0..N -> Nat] :
        /\ off[0] = 0
        /\ \A i \in 1..N :
             /\ off[i] = off[i - 1] + Len(c(i))
             /\ off[i] <= off[N]
             /\ \A j \in 1..Len(c(i)) : off[i - 1] + j \in 1..off[N] /\ w[off[i - 1] + j] = c(i)[j]
        /\ Len(w) = off[N] + 1
        /\ w[off[N] + 1] = z
  BY <1>0, <1>1, SuiAppended
<1>4. \A i \in 1..N : AreCommandsOf(c(i), calls[i])
  BY SuiCommands
<1>5. z.cmd = "destroy_empty"
  BY DEF Sui!closeExecutingCallbackParams
<1> HIDE DEF w, c, z
<1>6. /\ M = n + (off[N] + 1) /\ off[N] \in Nat
      /\ \A j \in 1..(off[N] + 1) : ptb[n + j] = w[j]
  <2>1. N \in 0..N
    BY <1>2
  <2>2. off[N] \in Nat
    BY <1>3, <2>1
  <2>. QED BY <1>1, <1>3, <2>2 DEF w, HasCalls
<1> DEFINE left(k) == SubSeq(params, k + 1, N)
           made(k) == ran \o SubSeq(q, 1, k)
           S == {k \in 0..N : \A s \in Sui!States(ptb)[n + off[k]] : At(s, base, left(k), made(k))}
<1>7. 0 \in S
  <2>1. n + off[0] = n /\ 0 \in 0..N
    BY <1>2, <1>3
  <2>2. left(0) = params
    <3>1. 0 + 1 = 1
      OBVIOUS
    <3>. QED BY <1>0, <1>2, <3>1, WholeSequence
  <2>3. made(0) = ran
    BY <1>0, WholeSequence
  <2> HIDE DEF left, made
  <2>. QED BY <2>1, <2>2, <2>3 DEF AllAt
<1>8. ASSUME NEW k \in 0..N, k \in S, k < N PROVE k + 1 \in S
  <2>1. /\ k + 1 \in 1..N /\ k + 1 \in 0..N /\ (k + 1) - 1 = k /\ k \in Nat
    BY <1>2, <1>8
  <2>2. PICK m, d, x, o : m = n + off[k] /\ d = c(k + 1) /\ x = calls[k + 1] /\ o = off[N]
    OBVIOUS
  <2>3. m \in Nat /\ o \in Nat
    <3>1. off[k] \in Nat
      BY <1>3
    <3>. QED BY <1>6, <2>2, <3>1
  <2>4. AreCommandsOf(d, x)
    BY <1>4, <2>1, <2>2
  <2>5. n + off[k + 1] = m + Len(d) /\ off[k + 1] <= o /\ off[k + 1] \in Nat /\ off[k + 1] = off[k] + Len(d) /\ off[k] \in Nat
    <3>1. off[k + 1] = off[k] + Len(d) /\ off[k + 1] <= o
      BY <1>3, <2>1, <2>2
    <3>2. off[k] \in Nat /\ off[k + 1] \in Nat
      BY <1>3, <2>1
    <3>3. Len(d) \in Nat
      <4>1. PICK l : l = Len(d)
        OBVIOUS
      <4>2. l \in {2, 4}
        BY <2>4, <4>1 DEF AreCommandsOf
      <4>. QED BY <4>1, <4>2
    <3>. QED BY <2>2, <3>1, <3>2, <3>3
  <2>6. m + Len(d) \in 1..M
    <3>1. PICK l : l = Len(d)
      OBVIOUS
    <3>2. l \in {2, 4}
      BY <2>4, <3>1 DEF AreCommandsOf
    <3>3. m + l <= n + o /\ M = n + (o + 1)
      <4>1. PICK e : e = off[k + 1]
        OBVIOUS
      <4>2. n + e = m + l /\ e <= o /\ e \in Nat
        BY <2>5, <3>1, <4>1
      <4>3. n + e <= n + o
        BY <2>3, <4>2
      <4>4. M = n + (o + 1)
        BY <1>6, <2>2
      <4>. QED BY <4>2, <4>3, <4>4
    <3>. QED BY <1>2, <2>3, <3>1, <3>2, <3>3
  <2>7. ASSUME NEW j \in 1..Len(d) PROVE ptb[m + j] = d[j]
    <3>1. PICK y : y = off[k] + j
      OBVIOUS
    <3>2. y \in 1..o /\ w[y] = d[j]
      BY <1>3, <2>1, <2>2, <3>1
    <3>3. y \in 1..(o + 1)
      BY <2>3, <3>2
    <3>4. ptb[n + y] = w[y]
      BY <1>6, <2>2, <3>3
    <3>5. n + y = m + j
      <4>1. j \in Int /\ off[k] \in Nat
        BY <2>5
      <4>. QED BY <2>2, <3>1, <4>1
    <3>. QED BY <3>2, <3>4, <3>5
  <2>8. \A s \in Sui!States(ptb)[m] : At(s, base, left(k), made(k))
    BY <1>8, <2>2
  <2>9. PICK a, b : a = left(k) /\ b = made(k)
    OBVIOUS
  <2>10. \A s \in Sui!States(ptb)[m] : At(s, base, a, b)
    BY <2>8, <2>9
  <2>11. \A t \in Sui!States(ptb)[m + Len(d)] : At(t, base, Tail(a), Append(b, Sui!WithObject(Head(a), ObjectOf(x))))
    BY <1>1, <1>2, <2>3, <2>4, <2>6, <2>7, <2>10, SuiCallRuns
  <2>12. Head(a) = params[k + 1] /\ Tail(a) = left(k + 1)
    <3>1. k + 1 \in 1..Len(params) /\ N \in (k + 1)..Len(params)
      BY <1>2, <2>1
    <3>. QED BY <1>0, <2>9, <3>1, HeadTailOfSubSeq
  <2>13. Append(b, q[k + 1]) = made(k + 1)
    <3>1. k + 1 \in 1..Len(q)
      BY <1>2, <2>1
    <3>. QED BY <1>0, <2>1, <2>9, <3>1, OneMore
  <2>14. q[k + 1] = Sui!WithObject(Head(a), ObjectOf(x))
    BY <1>1, <2>1, <2>2, <2>12 DEF HasObjects
  <2> HIDE DEF left, made
  <2>15. \A t \in Sui!States(ptb)[n + off[k + 1]] : At(t, base, left(k + 1), made(k + 1))
    BY <2>5, <2>11, <2>12, <2>13, <2>14
  <2>. QED BY <2>1, <2>15
<1>9. \A k \in 0..N : k \in S
  <2> HIDE DEF S
  <2>. QED BY <1>2, <1>7, <1>8, UpwardInduction
<1>10. \A s \in Sui!States(ptb)[n + off[N]] : At(s, base, left(N), ran \o q)
  <2>1. N \in 0..N
    BY <1>2
  <2>2. made(N) = ran \o q
    BY <1>0, <1>2, WholeSequence
  <2> HIDE DEF left, made
  <2>. QED BY <1>9, <2>1, <2>2
<1> HIDE DEF left, made, S
<1>11. ASSUME NEW t \in Sui!States(ptb)[M]
       PROVE  t.chain = [pending |-> base.pending, done |-> base.done, ran |-> ran \o q, multisig |-> base.multisig]
  <2>1. PICK l : l = n + off[N]
    OBVIOUS
  <2>2. l \in Nat /\ l + 1 = M /\ l + 1 \in 1..M
    BY <1>2, <1>6, <2>1
  <2>3. PICK s \in Sui!States(ptb)[l] : t \in Sui!Run(s, ptb[M])
    BY <1>1, <1>2, <2>2, SuiStep
  <2>4. ptb[M] = z
    <3>1. off[N] + 1 \in 1..(off[N] + 1) /\ n + (off[N] + 1) = M
      BY <1>6
    <3>. QED BY <1>3, <1>6, <3>1
  <2>5. At(s, base, left(N), ran \o q)
    BY <1>10, <2>1
  <2>6. t.chain = s.chain
    BY <1>5, <2>3, <2>4, <2>5, SuiFinishes DEF At
  <2>. QED BY <2>5, <2>6 DEF At
<1>. QED BY <1>1, <1>11 DEF AllMade

-----------------------------------------------------------------------------
(* Sui: the batches and their operations *)

\* What SuiAssumption says of the instance.
SuiInstance ==
    /\ bound.batches \in Seq(Seq(Sui!Transaction))
    /\ Sui!Proposals \subseteq {"schedule", "cancel", "bypass"}
    /\ "bypass" \in Sui!Proposals => Sui!Proposals = {"bypass"}

LEMMA SuiInstances == ASSUME bound \in Instances, Of("sui") PROVE SuiInstance
<1>1. Sui!Proposals = {bound.actions[k] : k \in DOMAIN bound.actions}
  BY DEF Sui!Proposals, Sui!Range
<1>2. bound.family = "sui"
  BY DEF Of
<1> HIDE DEF Sui!Transaction
<1>. QED BY <1>1, <1>2, SuiAssumption DEF SuiInstance

\* The recursion that the ids are defined by.
LEMMA SuiIDs ==
    ASSUME NEW N, N = Len(bound.batches), N \in Nat
    PROVE  /\ Sui!OperationIDs[0] = <<>>
           /\ \A i \in 1..N :
                Sui!OperationIDs[i] = <<Sui!SignedCalls(bound.batches[i]), Sui!OperationIDs[i - 1], bound.salt>>
<1> DEFINE Step(f, n) == IF n = 0 THEN <<>>
                         ELSE Sui!HashOperationBatch(Sui!SignedCalls(bound.batches[n]), f[n - 1], bound.salt)
           UpTo(f, n) == f = [k \in 0..n |-> Step(f, k)]
           S == {n \in 0..N : \E f : UpTo(f, n)}
<1>1. 0 \in S
  <2> DEFINE f == [k \in 0..0 |-> <<>>]
  <2>1. \A k \in 0..0 : k = 0
    OBVIOUS
  <2>2. UpTo(f, 0)
    BY <2>1
  <2>3. 0 \in 0..N
    OBVIOUS
  <2> HIDE DEF f, UpTo
  <2>. QED BY <2>2, <2>3
<1>2. ASSUME NEW n \in 0..N, n \in S, n < N PROVE n + 1 \in S
  <2>1. PICK u : UpTo(u, n)
    BY <1>2
  <2> DEFINE v == [k \in 0..(n + 1) |-> Step(u, k)]
  <2>2. \A k \in 0..n : k \in 0..(n + 1) /\ v[k] = u[k]
    <3>1. \A k \in 0..n : u[k] = Step(u, k)
      BY <2>1
    <3> HIDE DEF Step
    <3>. QED BY <3>1
  <2>3. \A k \in 0..(n + 1) : k = 0 \/ k - 1 \in 0..n
    OBVIOUS
  <2> HIDE DEF v
  <2>4. \A k \in 0..(n + 1) : Step(u, k) = Step(v, k)
    BY <2>2, <2>3
  <2> HIDE DEF Step
  <2>5. UpTo(v, n + 1)
    BY <2>4 DEF v
  <2>6. n + 1 \in 0..N
    BY <1>2
  <2> HIDE DEF UpTo
  <2>. QED BY <2>5, <2>6
<1>3. \A n \in 0..N : n \in S
  <2> HIDE DEF S
  <2>. QED BY <1>1, <1>2, UpwardInduction
<1>4. \E f : UpTo(f, N)
  <2>1. N \in 0..N
    OBVIOUS
  <2>. QED BY <1>3, <2>1
<1>5. Sui!OperationIDs = CHOOSE f : UpTo(f, N)
  BY DEF Sui!OperationIDs
<1>6. UpTo(Sui!OperationIDs, N)
  <2> HIDE DEF UpTo
  <2>. QED BY <1>4, <1>5
<1>7. \A k \in 0..N : Sui!OperationIDs[k] = Step(Sui!OperationIDs, k)
  <2> HIDE DEF Step
  <2>. QED BY <1>6
<1>8. 0 \in 0..N /\ \A k \in 1..N : k \in 0..N /\ k # 0
  OBVIOUS
<1>. QED BY <1>7, <1>8 DEF Sui!HashOperationBatch

\* An id holds its predecessor's, so that different batches have different ids.
LEMMA SuiIDsDiffer ==
    ASSUME NEW N, N = Len(bound.batches), N \in Nat, NEW i \in 0..N, NEW j \in 0..N,
           Sui!OperationIDs[i] = Sui!OperationIDs[j]
    PROVE  i = j
<1>1. PICK ID : ID = Sui!OperationIDs
  OBVIOUS
<1>2. ID[0] = <<>> /\ \A k \in 1..N : \E c, s : ID[k] = <<c, ID[k - 1], s>>
  BY <1>1, SuiIDs
<1> DEFINE S == {n \in 0..N : \A m \in 0..N : ID[m] = ID[n] => m = n}
<1>3. \A m \in 0..N : m = 0 \/ m \in 1..N
  OBVIOUS
<1>4. \A m \in 1..N : ID[m] # <<>>
  BY <1>2
<1>5. 0 \in S
  BY <1>2, <1>3, <1>4
<1>6. ASSUME NEW n \in 0..N, n \in S, n < N PROVE n + 1 \in S
  <2>1. n + 1 \in 1..N /\ n + 1 \in 0..N /\ (n + 1) - 1 = n
    BY <1>6
  <2>2. ASSUME NEW m \in 0..N, ID[m] = ID[n + 1] PROVE m = n + 1
    <3>1. m \in 1..N
      BY <1>2, <1>3, <1>4, <2>1, <2>2
    <3>2. PICK a, b, c, d : ID[m] = <<a, ID[m - 1], b>> /\ ID[n + 1] = <<c, ID[n], d>>
      BY <1>2, <2>1, <3>1
    <3>3. ID[m - 1] = ID[n]
      <4>1. PICK x, y : x = ID[m - 1] /\ y = ID[n]
        OBVIOUS
      <4>2. <<a, x, b>> = <<c, y, d>>
        BY <2>2, <3>2, <4>1
      <4>3. x = y
        BY <4>2
      <4>. QED BY <4>1, <4>3
    <3>4. m - 1 \in 0..N
      BY <3>1
    <3>5. m - 1 = n
      BY <1>6, <3>3, <3>4
    <3>. QED BY <3>1, <3>5
  <2>. QED BY <2>1, <2>2
<1>7. \A n \in 0..N : n \in S
  <2> HIDE DEF S
  <2>. QED BY <1>5, <1>6, UpwardInduction
<1>. QED BY <1>1, <1>7

\* What is meant to be run, of the first n batches.
Meant(n) == [i \in 1..n |-> Sui!MeantCalls(i)]

LEMMA SuiBatch ==
    ASSUME SuiInstance, NEW i \in DOMAIN bound.batches
    PROVE  LET batch == bound.batches[i] IN
           /\ batch \in Seq(Sui!Transaction) /\ DOMAIN batch = 1..Len(batch) /\ Len(batch) \in Nat
           /\ Sui!SignedCalls(batch) \in Seq({Sui!SignedCall(tx) : tx \in Sui!Transaction})
           /\ Len(Sui!SignedCalls(batch)) = Len(batch)
           /\ \A t \in 1..Len(batch) : Sui!SignedCalls(batch)[t] = Sui!SignedCall(batch[t])
           /\ Sui!MeantCalls(i) \in Seq(MadeCalls)
           /\ Len(Sui!MeantCalls(i)) = Len(batch)
           /\ \A t \in 1..Len(batch) : Sui!MeantCalls(i)[t] = Sui!WithObject(Sui!SignedCall(batch[t]), Sui!MeantObject(batch[t]))
<1>1. PICK batch : batch = bound.batches[i]
  OBVIOUS
<1>2. batch \in Seq(Sui!Transaction)
  BY <1>1, ElementOfSeq, LenProperties DEF SuiInstance
<1>3. Len(batch) \in Nat /\ DOMAIN batch = 1..Len(batch) /\ \A t \in 1..Len(batch) : batch[t] \in Sui!Transaction
  BY <1>2, ElementOfSeq, LenProperties
<1> HIDE DEF Sui!Transaction
<1>4. /\ Sui!SignedCalls(batch) = [t \in 1..Len(batch) |-> Sui!SignedCall(batch[t])]
      /\ Sui!MeantCalls(i) = [t \in 1..Len(batch) |-> Sui!WithObject(Sui!SignedCall(batch[t]), Sui!MeantObject(batch[t]))]
  BY <1>1, <1>3 DEF Sui!SignedCalls, Sui!MeantCalls
<1>5. /\ Sui!SignedCalls(batch) \in [1..Len(batch) -> {Sui!SignedCall(tx) : tx \in Sui!Transaction}]
      /\ Sui!MeantCalls(i) \in [1..Len(batch) -> MadeCalls]
  BY <1>3, <1>4 DEF MadeCalls
<1>6. /\ Sui!SignedCalls(batch) \in Seq({Sui!SignedCall(tx) : tx \in Sui!Transaction})
      /\ Sui!MeantCalls(i) \in Seq(MadeCalls)
  BY <1>3, <1>5, IsASeq
<1>7. Len(Sui!SignedCalls(batch)) = Len(batch) /\ Len(Sui!MeantCalls(i)) = Len(batch)
  BY <1>3, <1>5, <1>6, LenProperties
<1>. QED BY <1>1, <1>2, <1>3, <1>4, <1>6, <1>7

LEMMA SuiMeant ==
    ASSUME SuiInstance, NEW n \in 0..Len(bound.batches)
    PROVE  /\ Meant(n) \in Seq(Seq(MadeCalls)) /\ Len(Meant(n)) = n
           /\ FlattenSeq(Meant(n)) \in Seq(MadeCalls)
<1>1. n \in Nat /\ DOMAIN bound.batches = 1..Len(bound.batches) /\ Len(bound.batches) \in Nat
  BY LenProperties DEF SuiInstance
<1>2. \A i \in 1..n : i \in DOMAIN bound.batches
  BY <1>1
<1>3. \A i \in 1..n : Sui!MeantCalls(i) \in Seq(MadeCalls)
  BY <1>2, SuiBatch
<1>4. Meant(n) \in [1..n -> Seq(MadeCalls)]
  BY <1>3 DEF Meant
<1>5. Meant(n) \in Seq(Seq(MadeCalls))
  BY <1>1, <1>4, IsASeq
<1>6. Len(Meant(n)) = n
  BY <1>1, <1>4, <1>5, LenProperties
<1>. QED BY <1>5, <1>6, FlattenedElements

LEMMA SuiMeantOneMore ==
    ASSUME SuiInstance, NEW n \in Nat, n + 1 \in 1..Len(bound.batches)
    PROVE  FlattenSeq(Meant(n + 1)) = FlattenSeq(Meant(n)) \o Sui!MeantCalls(n + 1)
<1>1. n \in 0..Len(bound.batches) /\ n + 1 \in 0..Len(bound.batches)
  <2>1. Len(bound.batches) \in Nat
    BY LenProperties DEF SuiInstance
  <2>. QED BY <2>1
<1>2. PICK s, t, m : s = Meant(n) /\ t = Meant(n + 1) /\ m = n + 1
  OBVIOUS
<1>3. s \in Seq(Seq(MadeCalls)) /\ Len(s) = n /\ t \in Seq(Seq(MadeCalls)) /\ Len(t) = m
  BY <1>1, <1>2, SuiMeant
<1>4. t[m] = Sui!MeantCalls(m) /\ \A i \in 1..n : t[i] = s[i]
  BY <1>2 DEF Meant
<1>5. FlattenSeq(t) = FlattenSeq(s) \o t[m]
  BY ZenonT(60), <1>2, <1>3, <1>4, FlattenedOneMore
<1>. QED BY <1>2, <1>4, <1>5

-----------------------------------------------------------------------------
(* Sui: the commands that come before the calls *)

\* The multisigs by role, as far as the argument needs their types.
SuiMultisigs(m) ==
    /\ m = [r \in Sui!Roles |-> m[r]]
    /\ \A r \in Sui!Roles :
         /\ m[r] = [root |-> m[r].root, opCount |-> m[r].opCount, post |-> m[r].post]
         /\ m[r].opCount \in Nat

\* The multisig of one role is another one.
OneChanged(m, n, role, root, opCount, post) ==
    n = [m EXCEPT ![role] = [root |-> root, opCount |-> opCount, post |-> post]]

LEMMA SuiMultisigChanges ==
    ASSUME NEW m, NEW n, NEW role, NEW root, NEW opCount, NEW post,
           role \in Sui!Roles, opCount \in Nat, SuiMultisigs(m), OneChanged(m, n, role, root, opCount, post)
    PROVE  /\ SuiMultisigs(n)
           /\ n[role].opCount = opCount
           /\ \A r \in Sui!Roles \ {role} : n[r] = m[r]
<1> DEFINE new == [root |-> root, opCount |-> opCount, post |-> post]
<1>0. n = [m EXCEPT ![role] = new]
  BY DEF OneChanged
<1>1. new.opCount = opCount /\ new = [root |-> new.root, opCount |-> new.opCount, post |-> new.post]
  OBVIOUS
<1> HIDE DEF new
<1>2. \A r \in Sui!Roles : n[r] = IF r = role THEN new ELSE m[r]
  BY <1>0 DEF SuiMultisigs
<1>3. n = [r \in Sui!Roles |-> n[r]]
  BY <1>0 DEF SuiMultisigs
<1>4. SuiMultisigs(n)
  <2>1. ASSUME NEW r \in Sui!Roles
        PROVE  n[r] = [root |-> n[r].root, opCount |-> n[r].opCount, post |-> n[r].post] /\ n[r].opCount \in Nat
    <3>1. CASE r = role
      BY <1>1, <1>2, <3>1
    <3>2. CASE r # role
      BY <1>2, <3>2 DEF SuiMultisigs
    <3>. QED BY <3>1, <3>2
  <2>. QED BY <1>3, <2>1 DEF SuiMultisigs
<1>. QED BY <1>1, <1>2, <1>4

\* A state whose chain differs from another in the multisigs only.
WithMultisigs(c, m) == [pending |-> c.pending, done |-> c.done, ran |-> c.ran, multisig |-> m]

LEMMA NewRootIsRecord ==
    ASSUME NEW a, NEW n, NEW b, NEW x, NEW y, NEW old, NEW new,
           old = [root |-> a, opCount |-> n, post |-> b], new = [old EXCEPT !.root = x, !.post = y]
    PROVE  new = [root |-> x, opCount |-> n, post |-> y]
<1>1. DOMAIN old = {"root", "opCount", "post"} /\ old.opCount = n
  OBVIOUS
<1>2. new = [f \in {"root", "opCount", "post"} |-> new[f]] /\ new.root = x /\ new.opCount = n /\ new.post = y
  BY <1>1
<1>. QED BY <1>2

LEMMA SuiSetsRoot ==
    ASSUME NEW s, Running(s), ChainFields(s.chain), SuiMultisigs(s.chain.multisig),
           NEW c, c.cmd = "set_root", c.metadata.role \in Sui!Roles, NEW t \in Sui!Run(s, c)
    PROVE  \E m : /\ SuiMultisigs(m)
                  /\ \A r \in Sui!Roles : m[r].opCount = s.chain.multisig[r].opCount
                  /\ t.chain = WithMultisigs(s.chain, m)
<1>1. PICK role, old, all : role = c.metadata.role /\ all = s.chain.multisig /\ old = all[role]
  OBVIOUS
<1>2. t = [s EXCEPT !.chain.multisig[role] = [@ EXCEPT !.root = c.root, !.post = c.metadata.post]]
  BY <1>1 DEF Sui!Run, Sui!If
<1> DEFINE new == [old EXCEPT !.root = c.root, !.post = c.metadata.post]
           m == [all EXCEPT ![role] = new]
<1>3. t.chain = WithMultisigs(s.chain, m)
  <2>1. t.chain = [s.chain EXCEPT !.multisig[role] = new]
    BY <1>1, <1>2 DEF Running
  <2> HIDE DEF new
  <2>2. [s.chain EXCEPT !.multisig[role] = new] = [s.chain EXCEPT !.multisig = m]
    BY <1>1 DEF ChainFields
  <2> HIDE DEF m
  <2>. QED BY <2>1, <2>2 DEF ChainFields, WithMultisigs
<1>4. old = [root |-> old.root, opCount |-> old.opCount, post |-> old.post] /\ old.opCount \in Nat
  BY <1>1 DEF SuiMultisigs
<1>5. new = [root |-> c.root, opCount |-> old.opCount, post |-> c.metadata.post]
  <2>1. PICK n, x, y : n = old.opCount /\ x = c.root /\ y = c.metadata.post
    OBVIOUS
  <2>2. PICK a, b : old = [root |-> a, opCount |-> n, post |-> b]
    BY <1>4, <2>1
  <2>3. new = [old EXCEPT !.root = x, !.post = y]
    BY <2>1
  <2> HIDE DEF new
  <2>4. new = [root |-> x, opCount |-> n, post |-> y]
    BY <2>2, <2>3, NewRootIsRecord
  <2>. QED BY <2>1, <2>4
<1> HIDE DEF new, m
<1>6. SuiMultisigs(m) /\ m[role].opCount = old.opCount /\ \A r \in Sui!Roles \ {role} : m[r] = all[r]
  <2>1. PICK x, n, y : x = c.root /\ n = old.opCount /\ y = c.metadata.post
    OBVIOUS
  <2>2. n \in Nat /\ role \in Sui!Roles /\ SuiMultisigs(all)
    BY <1>1, <1>4, <2>1
  <2>3. OneChanged(all, m, role, x, n, y)
    BY <1>5, <2>1 DEF m, OneChanged
  <2>4. SuiMultisigs(m) /\ m[role].opCount = n /\ \A r \in Sui!Roles \ {role} : m[r] = all[r]
    BY <2>2, <2>3, SuiMultisigChanges
  <2>. QED BY <2>1, <2>4
<1>. QED BY <1>1, <1>3, <1>6

Executed(m, role) == [m EXCEPT ![role].opCount = @ + 1]

LEMMA SuiExecutes ==
    ASSUME NEW s, Running(s), ChainFields(s.chain), SuiMultisigs(s.chain.multisig),
           NEW c, c.cmd = "execute", c.role \in Sui!Roles, NEW t \in Sui!Run(s, c)
    PROVE  /\ c.nonce = s.chain.multisig[c.role].opCount
           /\ Running(t) /\ t.params = s.params /\ t.held = s.held
           /\ t.chain = WithMultisigs(s.chain, Executed(s.chain.multisig, c.role))
           /\ LET m == Executed(s.chain.multisig, c.role) IN
              /\ SuiMultisigs(m)
              /\ m[c.role].opCount = c.nonce + 1
              /\ \A r \in Sui!Roles \ {c.role} : m[r] = s.chain.multisig[r]
<1>1. PICK role, old, all : role = c.role /\ all = s.chain.multisig /\ old = all[role]
  OBVIOUS
<1>2. t = [s EXCEPT !.chain.multisig[role].opCount = @ + 1] /\ c.nonce = old.opCount
  BY <1>1 DEF Sui!Run, Sui!If
<1> DEFINE new == [old EXCEPT !.opCount = @ + 1]
           m == Executed(all, role)
<1>0. m = [all EXCEPT ![role] = new]
  BY <1>1 DEF Executed
<1>3. t = [s EXCEPT !.chain = [@ EXCEPT !.multisig = m]]
  BY <1>0, <1>1, <1>2 DEF ChainFields, Running
<1>4. old = [root |-> old.root, opCount |-> old.opCount, post |-> old.post] /\ old.opCount \in Nat
  BY <1>1 DEF SuiMultisigs
<1>5. new = [root |-> old.root, opCount |-> old.opCount + 1, post |-> old.post]
  BY <1>4
<1> HIDE DEF new, m
<1>6. SuiMultisigs(m) /\ m[role].opCount = old.opCount + 1 /\ \A r \in Sui!Roles \ {role} : m[r] = all[r]
  <2>1. PICK a, b, n : a = old.root /\ b = old.post /\ n = old.opCount + 1
    OBVIOUS
  <2>2. n \in Nat /\ SuiMultisigs(all) /\ role \in Sui!Roles
    BY <1>1, <1>4, <2>1
  <2>3. OneChanged(all, m, role, a, n, b)
    BY <1>0, <1>5, <2>1 DEF OneChanged
  <2>4. SuiMultisigs(m) /\ m[role].opCount = n /\ \A r \in Sui!Roles \ {role} : m[r] = all[r]
    BY <2>2, <2>3, SuiMultisigChanges
  <2>. QED BY <2>1, <2>4
<1>7. [s.chain EXCEPT !.multisig = m] = WithMultisigs(s.chain, m)
  BY DEF ChainFields, WithMultisigs
<1>8. t = [chain |-> WithMultisigs(s.chain, m), params |-> s.params, vector |-> s.vector, held |-> s.held,
           tickets |-> s.tickets, receipts |-> s.receipts]
  BY <1>3, <1>7 DEF Running
<1>9. m = Executed(all, role)
  BY DEF m
<1>10. Running(t) /\ t.chain = WithMultisigs(s.chain, m) /\ t.params = s.params /\ t.held = s.held
  BY <1>8 DEF Running
<1>. QED BY <1>1, <1>2, <1>6, <1>9, <1>10

\* The timelock's part of an operation, and of an executed batch.
LEMMA SuiSchedules ==
    ASSUME NEW s, Running(s), ChainFields(s.chain), NEW c, c.cmd = "timelock_schedule_batch", NEW t \in Sui!Run(s, c)
    PROVE  LET id == <<c.data.calls, c.data.predecessor, c.data.salt>> IN
           /\ id \notin s.chain.done
           /\ t.chain = [pending |-> s.chain.pending \cup {id}, done |-> s.chain.done, ran |-> s.chain.ran,
                         multisig |-> s.chain.multisig]
<1>1. PICK id : id = <<c.data.calls, c.data.predecessor, c.data.salt>>
  OBVIOUS
<1>2. t = [s EXCEPT !.chain.pending = @ \cup {id}] /\ id \notin s.chain.pending \cup s.chain.done
  BY <1>1 DEF Sui!Run, Sui!If, Sui!HashOperationBatch
<1>. QED BY <1>1, <1>2 DEF Running, ChainFields

LEMMA SuiCancels ==
    ASSUME NEW s, Running(s), ChainFields(s.chain), NEW c, c.cmd = "timelock_cancel", NEW t \in Sui!Run(s, c)
    PROVE  t.chain = [pending |-> s.chain.pending \ {c.data.id}, done |-> s.chain.done, ran |-> s.chain.ran,
                      multisig |-> s.chain.multisig]
<1>1. t = [s EXCEPT !.chain.pending = @ \ {c.data.id}]
  BY DEF Sui!Run, Sui!If
<1>. QED BY <1>1 DEF Running, ChainFields

LEMMA SuiBypasses ==
    ASSUME NEW s, Running(s), ChainFields(s.chain), s.held = <<>>,
           NEW c, c.cmd = "timelock_bypasser_execute_batch", NEW t \in Sui!Run(s, c)
    PROVE  At(t, s.chain, c.data.calls, s.chain.ran)
<1>1. t = [s EXCEPT !.params = c.data.calls, !.vector = TRUE]
  BY DEF Sui!Run
<1>2. t = [chain |-> s.chain, params |-> c.data.calls, vector |-> TRUE, held |-> <<>>,
           tickets |-> s.tickets, receipts |-> s.receipts]
  BY <1>1 DEF Running
<1>. QED BY <1>2 DEF At, Running, ChainFields

LEMMA SuiExecutesBatch ==
    ASSUME NEW s, Running(s), ChainFields(s.chain), s.held = <<>>,
           NEW c, c.cmd = "timelock_execute_batch", NEW t \in Sui!Run(s, c)
    PROVE  LET id == <<c.calls, c.predecessor, c.salt>>
               base == [pending |-> s.chain.pending \ {id}, done |-> s.chain.done \cup {id}, ran |-> s.chain.ran,
                        multisig |-> s.chain.multisig]
           IN  /\ id \in s.chain.pending /\ c.predecessor \in s.chain.done \cup {<<>>}
               /\ At(t, base, c.calls, s.chain.ran)
<1>1. PICK id : id = <<c.calls, c.predecessor, c.salt>>
  OBVIOUS
<1>2. /\ t = [s EXCEPT !.chain.pending = @ \ {id}, !.chain.done = @ \cup {id}, !.params = c.calls, !.vector = TRUE]
      /\ id \in s.chain.pending /\ c.predecessor \in s.chain.done \cup {<<>>}
  BY <1>1 DEF Sui!Run, Sui!If, Sui!HashOperationBatch
<1> DEFINE base == [pending |-> s.chain.pending \ {id}, done |-> s.chain.done \cup {id}, ran |-> s.chain.ran,
                    multisig |-> s.chain.multisig]
<1>3. t = [chain |-> base, params |-> c.calls, vector |-> TRUE, held |-> <<>>,
           tickets |-> s.tickets, receipts |-> s.receipts]
  BY <1>2 DEF Running, ChainFields
<1>4. base = [pending |-> base.pending, done |-> base.done, ran |-> s.chain.ran, multisig |-> base.multisig]
  OBVIOUS
<1> HIDE DEF base
<1>5. At(t, base, c.calls, s.chain.ran)
  BY <1>3, <1>4 DEF At, Running
<1>. QED BY <1>1, <1>2, <1>5 DEF base

-----------------------------------------------------------------------------
(* Sui: what a transaction does *)

\* Commands before a sequence of others.
LEMMA OneBefore ==
    ASSUME NEW T, NEW v \in Seq(T), NEW a, NEW w, w = <<a>> \o v
    PROVE  Len(w) = 1 + Len(v) /\ Len(w) \in Nat /\ w[1] = a /\ \A j \in 1..Len(v) : w[1 + j] = v[j]
<1> DEFINE U == T \cup {a}
<1>1. PICK u, n : u = <<a>> /\ n = Len(v)
  OBVIOUS
<1>2. u \in Seq(U) /\ Len(u) = 1 /\ u[1] = a
  BY <1>1
<1>3. v \in Seq(U) /\ n \in Nat
  BY <1>1, SeqMonotonic, LenProperties
<1> HIDE DEF U
<1>4. /\ Len(w) = 1 + n
      /\ \A i \in 1..(1 + n) : w[i] = IF i <= 1 THEN u[i] ELSE v[i - 1]
  BY <1>1, <1>2, <1>3, ConcatProperties
<1>5. 1 \in 1..(1 + n) /\ \A j \in 1..n : 1 + j \in 1..(1 + n) /\ ~(1 + j <= 1) /\ (1 + j) - 1 = j
  BY <1>3
<1>. QED BY <1>1, <1>2, <1>3, <1>4, <1>5

LEMMA TwoBefore ==
    ASSUME NEW T, NEW v \in Seq(T), NEW a, NEW b, NEW w, w = <<a, b>> \o v
    PROVE  Len(w) = 2 + Len(v) /\ Len(w) \in Nat /\ w[1] = a /\ w[2] = b /\ \A j \in 1..Len(v) : w[2 + j] = v[j]
<1> DEFINE U == T \cup {a, b}
<1>1. PICK u, n : u = <<a, b>> /\ n = Len(v)
  OBVIOUS
<1>2. u \in Seq(U) /\ Len(u) = 2 /\ u[1] = a /\ u[2] = b
  BY <1>1
<1>3. v \in Seq(U) /\ n \in Nat
  BY <1>1, SeqMonotonic, LenProperties
<1> HIDE DEF U
<1>4. /\ Len(w) = 2 + n
      /\ \A i \in 1..(2 + n) : w[i] = IF i <= 2 THEN u[i] ELSE v[i - 2]
  BY <1>1, <1>2, <1>3, ConcatProperties
<1>5. 1 \in 1..(2 + n) /\ 2 \in 1..(2 + n) /\ \A j \in 1..n : 2 + j \in 1..(2 + n) /\ ~(2 + j <= 2) /\ (2 + j) - 2 = j
  BY <1>3
<1>. QED BY <1>1, <1>2, <1>3, <1>4, <1>5

LEMMA SuiStarts ==
    LET s == Sui!Started IN Running(s) /\ s.chain = chain /\ s.params = <<>> /\ s.held = <<>>
BY DEF Sui!Started, Running

\* The first command, from the state at the start.
LEMMA SuiFirst ==
    ASSUME NEW ptb, Len(ptb) \in Nat, Len(ptb) >= 1, NEW t \in Sui!States(ptb)[1]
    PROVE  t \in Sui!Run(Sui!Started, ptb[1])
<1>1. 0 \in Nat /\ 0 + 1 = 1 /\ 1 \in 1..Len(ptb)
  OBVIOUS
<1>2. \E s \in Sui!States(ptb)[0] : t \in Sui!Run(s, ptb[1])
  BY <1>1, SuiStep
<1>. QED BY <1>2, SuiStates

LEMMA SuiOutcome ==
    ASSUME NEW ptb, NEW c \in Sui!RunAll(ptb)
    PROVE  \E t \in Sui!States(ptb)[Len(ptb)] : c = t.chain
BY DEF Sui!RunAll

ChainIsTyped == ChainFields(chain) /\ SuiMultisigs(chain.multisig)

LEMMA SuiRootSent ==
    ASSUME ChainIsTyped, NEW root, NEW metadata, metadata.role \in Sui!Roles,
           NEW c \in Sui!RunAll(<<[cmd |-> "set_root", root |-> root, metadata |-> metadata]>>)
    PROVE  \E m : /\ SuiMultisigs(m)
                  /\ \A r \in Sui!Roles : m[r].opCount = chain.multisig[r].opCount
                  /\ c = WithMultisigs(chain, m)
<1>1. PICK ptb, x : x = [cmd |-> "set_root", root |-> root, metadata |-> metadata] /\ ptb = <<x>>
  OBVIOUS
<1>2. Len(ptb) = 1 /\ ptb[1] = x /\ x.cmd = "set_root" /\ x.metadata = metadata
  BY <1>1
<1>3. PICK t \in Sui!States(ptb)[1] : c = t.chain
  BY <1>1, <1>2, SuiOutcome
<1>4. t \in Sui!Run(Sui!Started, x)
  BY <1>2, <1>3, SuiFirst
<1>5. PICK s : s = Sui!Started
  OBVIOUS
<1>6. Running(s) /\ s.chain = chain
  BY <1>5, SuiStarts
<1>. QED BY <1>2, <1>3, <1>4, <1>5, <1>6, SuiSetsRoot DEF ChainIsTyped

\* The start of an operation: it is the one that is due, and the count goes up.
LEMMA SuiOperationStarts ==
    ASSUME ChainIsTyped, NEW ptb, Len(ptb) \in Nat, Len(ptb) >= 2, NEW role \in Sui!Roles, NEW nonce, NEW leaf,
           ptb[1] = [cmd |-> "execute", role |-> role, nonce |-> nonce, leaf |-> leaf],
           NEW t \in Sui!States(ptb)[2]
    PROVE  \E s, m :
              /\ t \in Sui!Run(s, ptb[2]) /\ Running(s) /\ s.held = <<>> /\ ChainFields(s.chain)
              /\ s.chain = WithMultisigs(chain, m) /\ m = Executed(chain.multisig, role)
              /\ nonce = chain.multisig[role].opCount
              /\ SuiMultisigs(m)
              /\ m[role].opCount = nonce + 1
              /\ \A r \in Sui!Roles \ {role} : m[r] = chain.multisig[r]
<1>1. 1 \in Nat /\ 1 + 1 = 2 /\ 2 \in 1..Len(ptb)
  OBVIOUS
<1>2. PICK s \in Sui!States(ptb)[1] : t \in Sui!Run(s, ptb[2])
  BY <1>1, SuiStep
<1>3. s \in Sui!Run(Sui!Started, ptb[1])
  BY SuiFirst
<1>4. PICK r, x : r = Sui!Started /\ x = ptb[1]
  OBVIOUS
<1>5. Running(r) /\ r.chain = chain /\ r.held = <<>>
  BY <1>4, SuiStarts
<1>6. x.cmd = "execute" /\ x.role = role /\ x.nonce = nonce
  BY <1>4
<1>7. /\ x.nonce = r.chain.multisig[x.role].opCount
      /\ Running(s) /\ s.params = r.params /\ s.held = r.held
      /\ s.chain = WithMultisigs(r.chain, Executed(r.chain.multisig, x.role))
      /\ LET m == Executed(r.chain.multisig, x.role) IN
         /\ SuiMultisigs(m)
         /\ m[x.role].opCount = x.nonce + 1
         /\ \A y \in Sui!Roles \ {x.role} : m[y] = r.chain.multisig[y]
  <2>1. ChainFields(r.chain) /\ SuiMultisigs(r.chain.multisig) /\ x.role \in Sui!Roles /\ s \in Sui!Run(r, x)
    BY <1>3, <1>4, <1>5, <1>6 DEF ChainIsTyped
  <2>. QED BY <1>5, <1>6, <2>1, SuiExecutes
<1>8. PICK m : m = Executed(chain.multisig, role)
  OBVIOUS
<1>9. ChainFields(s.chain)
  BY <1>7 DEF WithMultisigs, ChainFields
<1>. QED BY <1>2, <1>5, <1>6, <1>7, <1>8, <1>9

\* The operations that the batches become.
LEMMA SuiOps ==
    ASSUME NEW action, NEW i \in DOMAIN bound.batches
    PROVE  /\ Sui!Ops(action)[i] = Sui!ConvertBatchToChainOperations(i, action)
           /\ DOMAIN Sui!Ops(action) = DOMAIN bound.batches
BY DEF Sui!Ops

LEMMA SuiScheduleOp ==
    ASSUME NEW i
    PROVE  LET op == Sui!ConvertBatchToChainOperations(i, "schedule") IN
           /\ op.function = "timelock_schedule_batch"
           /\ op.data.calls = Sui!SignedCalls(bound.batches[i])
           /\ op.data.predecessor = Sui!OperationIDs[i - 1] /\ op.data.salt = bound.salt
<1>1. PICK a, b, c : a = Sui!SignedCalls(bound.batches[i]) /\ b = Sui!OperationIDs[i - 1] /\ c = bound.salt
  OBVIOUS
<1>2. Sui!serializeTimelockScheduleBatch(i) = [calls |-> a, predecessor |-> b, salt |-> c]
  BY <1>1 DEF Sui!serializeTimelockScheduleBatch, Sui!OperationID
<1>3. PICK d : d = Sui!serializeTimelockScheduleBatch(i)
  OBVIOUS
<1>4. PICK f, g : Sui!ConvertBatchToChainOperations(i, "schedule")
                    = [function |-> "timelock_schedule_batch", data |-> d, stateObjs |-> f, latest |-> g]
  BY <1>3 DEF Sui!ConvertBatchToChainOperations
<1>. QED BY <1>1, <1>2, <1>3, <1>4

LEMMA SuiCancelOp ==
    ASSUME NEW i
    PROVE  Sui!ConvertBatchToChainOperations(i, "cancel").function = "timelock_cancel"
<1>1. PICK d, f, g : Sui!ConvertBatchToChainOperations(i, "cancel")
                       = [function |-> "timelock_cancel", data |-> d, stateObjs |-> f, latest |-> g]
  BY DEF Sui!ConvertBatchToChainOperations
<1>. QED BY <1>1

LEMMA SuiBypassOp ==
    ASSUME NEW i
    PROVE  LET op == Sui!ConvertBatchToChainOperations(i, "bypass") IN
           /\ op.function = "timelock_bypasser_execute_batch"
           /\ op.data.calls = Sui!SignedCalls(bound.batches[i])
           /\ \A t \in DOMAIN bound.batches[i] : /\ op.stateObjs[t] = bound.batches[i][t].stateObj
                                                /\ op.latest[t] = bound.batches[i][t].latest
<1>1. PICK d, f, g : /\ d = Sui!SignedCalls(bound.batches[i])
                     /\ f = [t \in DOMAIN bound.batches[i] |-> bound.batches[i][t].stateObj]
                     /\ g = [t \in DOMAIN bound.batches[i] |-> bound.batches[i][t].latest]
  OBVIOUS
<1>2. Sui!ConvertBatchToChainOperations(i, "bypass")
        = [function |-> "timelock_bypasser_execute_batch", data |-> [calls |-> d], stateObjs |-> f, latest |-> g]
  BY <1>1 DEF Sui!ConvertBatchToChainOperations, Sui!serializeTimelockBypasserExecuteBatch
<1>3. \A t \in DOMAIN bound.batches[i] : f[t] = bound.batches[i][t].stateObj /\ g[t] = bound.batches[i][t].latest
  BY <1>1
<1>. QED BY <1>1, <1>2, <1>3

\* An operation of one of the actions is executed.
SuiExecuted(c, action, i, pending, ran) ==
    LET role == Sui!TimelockRole[action]
        m == Executed(chain.multisig, role)
    IN  /\ chain.multisig[role].opCount = i - 1
        /\ SuiMultisigs(m)
        /\ m[role].opCount = (i - 1) + 1
        /\ \A r \in Sui!Roles \ {role} : m[r] = chain.multisig[r]
        /\ c = [pending |-> pending, done |-> chain.done, ran |-> ran, multisig |-> m]

LEMMA SuiRoles ==
    /\ Sui!TimelockRole["schedule"] = "proposer" /\ Sui!TimelockRole["cancel"] = "canceller"
    /\ Sui!TimelockRole["bypass"] = "bypasser"
    /\ Sui!Roles = {"bypasser", "canceller", "proposer"}
BY DEF Sui!TimelockRole, Sui!Roles

\* The two commands of an operation that makes no calls.
LEMMA SuiShortOperation ==
    ASSUME NEW role, NEW nonce, NEW op, op.function \in {"timelock_schedule_batch", "timelock_cancel"}
    PROVE  \E x, y, leaf :
              /\ Sui!ExecuteOperationPTB(role, nonce, op) = <<x, y>>
              /\ x = [cmd |-> "execute", role |-> role, nonce |-> nonce, leaf |-> leaf]
              /\ y = [cmd |-> op.function, data |-> op.data]
<1>1. PICK x, y, leaf : /\ leaf = Sui!HashOperation(role, nonce, op)
                        /\ x = [cmd |-> "execute", role |-> role, nonce |-> nonce, leaf |-> leaf]
                        /\ y = [cmd |-> op.function, data |-> op.data]
  OBVIOUS
<1>2. Sui!ExecuteOperationPTB(role, nonce, op) = <<x, y>> \o <<>>
  BY <1>1 DEF Sui!ExecuteOperationPTB
<1>3. <<x, y>> \in Seq({x, y})
  OBVIOUS
<1>4. <<x, y>> \o <<>> = <<x, y>>
  BY <1>3, ConcatEmptySeq
<1>. QED BY <1>1, <1>2, <1>4

LEMMA SuiShortSent ==
    ASSUME ChainIsTyped, NEW role \in Sui!Roles, NEW nonce, NEW op,
           op.function \in {"timelock_schedule_batch", "timelock_cancel"},
           NEW c \in Sui!RunAll(Sui!ExecuteOperationPTB(role, nonce, op))
    PROVE  \E t, s, y, m :
              /\ c = t.chain /\ y.cmd = op.function /\ y.data = op.data
              /\ t \in Sui!Run(s, y) /\ Running(s) /\ ChainFields(s.chain)
              /\ s.chain = WithMultisigs(chain, m) /\ m = Executed(chain.multisig, role)
              /\ nonce = chain.multisig[role].opCount
              /\ SuiMultisigs(m)
              /\ m[role].opCount = nonce + 1
              /\ \A r \in Sui!Roles \ {role} : m[r] = chain.multisig[r]
<1>1. PICK x, y, leaf :
              /\ Sui!ExecuteOperationPTB(role, nonce, op) = <<x, y>>
              /\ x = [cmd |-> "execute", role |-> role, nonce |-> nonce, leaf |-> leaf]
              /\ y = [cmd |-> op.function, data |-> op.data]
  BY SuiShortOperation
<1>2. PICK ptb : ptb = <<x, y>>
  OBVIOUS
<1>3. Len(ptb) = 2 /\ ptb[1] = x /\ ptb[2] = y
  BY <1>2
<1>4. PICK t \in Sui!States(ptb)[2] : c = t.chain
  <2>1. c \in Sui!RunAll(ptb)
    BY <1>1, <1>2
  <2>2. \E t \in Sui!States(ptb)[Len(ptb)] : c = t.chain
    BY <2>1, SuiOutcome
  <2>. QED BY <1>3, <2>2
<1>5. Len(ptb) \in Nat /\ Len(ptb) >= 2 /\ ptb[1] = [cmd |-> "execute", role |-> role, nonce |-> nonce, leaf |-> leaf]
  BY <1>1, <1>3
<1>6. PICK s, m :
              /\ t \in Sui!Run(s, ptb[2]) /\ Running(s) /\ s.held = <<>> /\ ChainFields(s.chain)
              /\ s.chain = WithMultisigs(chain, m) /\ m = Executed(chain.multisig, role)
              /\ nonce = chain.multisig[role].opCount
              /\ SuiMultisigs(m)
              /\ m[role].opCount = nonce + 1
              /\ \A r \in Sui!Roles \ {role} : m[r] = chain.multisig[r]
  BY <1>5, SuiOperationStarts
<1>7. y.cmd = op.function /\ y.data = op.data /\ t \in Sui!Run(s, y)
  BY <1>1, <1>3, <1>6
<1>. QED BY <1>4, <1>6, <1>7

LEMMA SuiScheduleSent ==
    ASSUME ChainIsTyped, NEW i \in DOMAIN bound.batches,
           NEW c \in Sui!RunAll(Sui!ExecuteOperationPTB("proposer", i - 1, Sui!Ops("schedule")[i]))
    PROVE  LET id == <<Sui!SignedCalls(bound.batches[i]), Sui!OperationIDs[i - 1], bound.salt>> IN
           id \notin chain.done /\ SuiExecuted(c, "schedule", i, chain.pending \cup {id}, chain.ran)
<1>1. PICK n, op : op = Sui!Ops("schedule")[i] /\ n = i - 1
  OBVIOUS
<1>2. /\ op.function = "timelock_schedule_batch" /\ op.data.calls = Sui!SignedCalls(bound.batches[i])
      /\ op.data.predecessor = Sui!OperationIDs[i - 1] /\ op.data.salt = bound.salt
  BY <1>1, SuiOps, SuiScheduleOp
<1>3. c \in Sui!RunAll(Sui!ExecuteOperationPTB("proposer", n, op)) /\ "proposer" \in Sui!Roles
  BY <1>1, SuiRoles
<1>4. PICK t, s, y, m :
              /\ c = t.chain /\ y.cmd = op.function /\ y.data = op.data
              /\ t \in Sui!Run(s, y) /\ Running(s) /\ ChainFields(s.chain)
              /\ s.chain = WithMultisigs(chain, m) /\ m = Executed(chain.multisig, "proposer")
              /\ n = chain.multisig["proposer"].opCount
              /\ SuiMultisigs(m)
              /\ m["proposer"].opCount = n + 1
              /\ \A r \in Sui!Roles \ {"proposer"} : m[r] = chain.multisig[r]
  BY <1>2, <1>3, SuiShortSent
<1>5. PICK id : id = <<Sui!SignedCalls(bound.batches[i]), Sui!OperationIDs[i - 1], bound.salt>>
  OBVIOUS
<1>6. y.cmd = "timelock_schedule_batch" /\ <<y.data.calls, y.data.predecessor, y.data.salt>> = id
  BY <1>2, <1>4, <1>5
<1>7. /\ id \notin s.chain.done
      /\ t.chain = [pending |-> s.chain.pending \cup {id}, done |-> s.chain.done, ran |-> s.chain.ran,
                    multisig |-> s.chain.multisig]
  BY <1>4, <1>6, SuiSchedules
<1>8. s.chain.pending = chain.pending /\ s.chain.done = chain.done /\ s.chain.ran = chain.ran /\ s.chain.multisig = m
  BY <1>4 DEF WithMultisigs
<1>. QED BY <1>1, <1>4, <1>5, <1>7, <1>8, SuiRoles DEF SuiExecuted

LEMMA SuiCancelSent ==
    ASSUME ChainIsTyped, NEW i \in DOMAIN bound.batches,
           NEW c \in Sui!RunAll(Sui!ExecuteOperationPTB("canceller", i - 1, Sui!Ops("cancel")[i]))
    PROVE  \E id : SuiExecuted(c, "cancel", i, chain.pending \ {id}, chain.ran)
<1>1. PICK n, op : op = Sui!Ops("cancel")[i] /\ n = i - 1
  OBVIOUS
<1>2. op.function = "timelock_cancel"
  BY <1>1, SuiOps, SuiCancelOp
<1>3. c \in Sui!RunAll(Sui!ExecuteOperationPTB("canceller", n, op)) /\ "canceller" \in Sui!Roles
  BY <1>1, SuiRoles
<1>4. PICK t, s, y, m :
              /\ c = t.chain /\ y.cmd = op.function /\ y.data = op.data
              /\ t \in Sui!Run(s, y) /\ Running(s) /\ ChainFields(s.chain)
              /\ s.chain = WithMultisigs(chain, m) /\ m = Executed(chain.multisig, "canceller")
              /\ n = chain.multisig["canceller"].opCount
              /\ SuiMultisigs(m)
              /\ m["canceller"].opCount = n + 1
              /\ \A r \in Sui!Roles \ {"canceller"} : m[r] = chain.multisig[r]
  BY <1>2, <1>3, SuiShortSent
<1>5. PICK id : id = y.data.id
  OBVIOUS
<1>6. t.chain = [pending |-> s.chain.pending \ {id}, done |-> s.chain.done, ran |-> s.chain.ran,
                 multisig |-> s.chain.multisig]
  BY <1>2, <1>4, <1>5, SuiCancels
<1>7. s.chain.pending = chain.pending /\ s.chain.done = chain.done /\ s.chain.ran = chain.ran /\ s.chain.multisig = m
  BY <1>4 DEF WithMultisigs
<1>8. SuiExecuted(c, "cancel", i, chain.pending \ {id}, chain.ran)
  BY <1>1, <1>4, <1>6, <1>7, SuiRoles DEF SuiExecuted
<1>. QED BY <1>8

\* A transaction that aborted stays so.
LEMMA SuiAborted ==
    ASSUME NEW ptb, Len(ptb) \in Nat, NEW k \in 0..Len(ptb), Sui!States(ptb)[k] = {}
    PROVE  Sui!States(ptb)[Len(ptb)] = {}
<1> DEFINE N == Len(ptb)
           S == {j \in 0..N : j >= k => Sui!States(ptb)[j] = {}}
<1>1. 0 \in S
  <2>1. 0 >= k => k = 0
    OBVIOUS
  <2>. QED BY <2>1
<1>2. ASSUME NEW j \in 0..N, j \in S, j < N PROVE j + 1 \in S
  <2>1. j \in Nat /\ j + 1 \in 1..N /\ j + 1 \in 0..N
    BY <1>2
  <2>2. ASSUME j + 1 >= k PROVE Sui!States(ptb)[j + 1] = {}
    <3>1. CASE j + 1 = k
      BY <3>1
    <3>2. CASE j + 1 # k
      <4>1. j >= k
        BY <2>1, <2>2, <3>2
      <4>2. Sui!States(ptb)[j] = {}
        BY <1>2, <4>1
      <4>3. \A t \in Sui!States(ptb)[j + 1] : \E s \in Sui!States(ptb)[j] : t \in Sui!Run(s, ptb[j + 1])
        BY <2>1, SuiStep
      <4>. QED BY <4>2, <4>3
    <3>. QED BY <3>1, <3>2
  <2>. QED BY <2>1, <2>2
<1>3. \A j \in 0..N : j \in S
  <2> HIDE DEF S
  <2>. QED BY <1>1, <1>2, UpwardInduction
<1>4. N \in 0..N /\ N >= k
  OBVIOUS
<1>. QED BY <1>3, <1>4

\* The object of a call that was put together from a transaction of a batch.
LEMMA SuiObjectOf ==
    ASSUME NEW call, NEW tx, call.module = tx.module, call.stateObj = tx.stateObj,
           call.target = IF tx.latest = "" THEN tx.to ELSE tx.latest
    PROVE  ObjectOf(call) = Sui!MeantObject(tx)
<1>1. Sui!Latest([target |-> tx.to], tx.latest) = call.target
  BY DEF Sui!Latest
<1>. QED BY <1>1 DEF ObjectOf, Sui!MeantObject

\* The calls that a transaction is put together for, with their objects.
LEMMA SuiBypassCalls ==
    ASSUME SuiInstance, NEW i \in DOMAIN bound.batches
    PROVE  LET batch == bound.batches[i]
               calls == Sui!bypassCalls(Sui!ConvertBatchToChainOperations(i, "bypass"))
           IN  /\ \E C : calls \in Seq(C)
               /\ Len(calls) = Len(batch)
               /\ \A t \in 1..Len(batch) : ObjectOf(calls[t]) = Sui!MeantObject(batch[t])
<1>1. PICK batch, op, calls : /\ batch = bound.batches[i] /\ op = Sui!ConvertBatchToChainOperations(i, "bypass")
                              /\ calls = Sui!bypassCalls(op)
  OBVIOUS
<1>2. /\ op.data.calls = Sui!SignedCalls(batch)
      /\ \A t \in DOMAIN batch : op.stateObjs[t] = batch[t].stateObj /\ op.latest[t] = batch[t].latest
  BY <1>1, SuiBypassOp
<1>3. /\ DOMAIN batch = 1..Len(batch) /\ Len(batch) \in Nat
      /\ \A t \in 1..Len(batch) : Sui!SignedCalls(batch)[t] = Sui!SignedCall(batch[t])
  BY <1>1, SuiBatch
<1>4. DOMAIN Sui!SignedCalls(batch) = 1..Len(batch)
  BY <1>3 DEF Sui!SignedCalls
<1> DEFINE call(t) == [target |-> Sui!Latest(op.data.calls[t], op.latest[t]), module |-> op.data.calls[t].module,
                       function |-> op.data.calls[t].function, data |-> op.data.calls[t].data,
                       stateObj |-> op.stateObjs[t], modules |-> "none"]
           C == {call(t) : t \in 1..Len(batch)}
<1>5. calls = [t \in 1..Len(batch) |-> call(t)]
  BY <1>1, <1>2, <1>4 DEF Sui!bypassCalls
<1>6. \A t \in 1..Len(batch) :
        /\ call(t).stateObj = batch[t].stateObj /\ call(t).module = batch[t].module
        /\ call(t).target = IF batch[t].latest = "" THEN batch[t].to ELSE batch[t].latest
  <2> TAKE t \in 1..Len(batch)
  <2>1. PICK signed : signed = op.data.calls[t]
    OBVIOUS
  <2>2. signed.target = batch[t].to /\ signed.module = batch[t].module
    <3>1. signed = Sui!SignedCall(batch[t])
      BY <1>2, <1>3, <2>1
    <3>2. PICK tx : tx = batch[t]
      OBVIOUS
    <3>3. signed = [target |-> tx.to, module |-> tx.module, function |-> tx.function, data |-> tx.data]
      BY <3>1, <3>2 DEF Sui!SignedCall
    <3>. QED BY <3>2, <3>3
  <2>3. op.stateObjs[t] = batch[t].stateObj /\ op.latest[t] = batch[t].latest
    BY <1>2, <1>3
  <2>. QED BY <2>1, <2>2, <2>3 DEF Sui!Latest
<1> HIDE DEF call
<1>7. calls \in [1..Len(batch) -> C]
  BY <1>5
<1>8. calls \in Seq(C)
  BY <1>3, <1>7, IsASeq
<1>9. Len(calls) = Len(batch)
  BY <1>3, <1>7, <1>8, LenProperties
<1>10. \A t \in 1..Len(batch) : ObjectOf(calls[t]) = Sui!MeantObject(batch[t])
  <2> TAKE t \in 1..Len(batch)
  <2>1. PICK c, tx : c = call(t) /\ tx = batch[t]
    OBVIOUS
  <2>2. c.module = tx.module /\ c.stateObj = tx.stateObj /\ c.target = IF tx.latest = "" THEN tx.to ELSE tx.latest
    BY <1>6, <2>1
  <2>3. ObjectOf(c) = Sui!MeantObject(tx)
    BY <2>2, SuiObjectOf
  <2>. QED BY <1>5, <2>1, <2>3
<1>. QED BY <1>1, <1>8, <1>9, <1>10

LEMMA SuiExecuteCalls ==
    ASSUME SuiInstance, NEW i \in DOMAIN bound.batches
    PROVE  LET batch == bound.batches[i]
               calls == Sui!executeCalls(batch)
           IN  /\ \E C : calls \in Seq(C)
               /\ Len(calls) = Len(batch)
               /\ \A t \in 1..Len(batch) : ObjectOf(calls[t]) = Sui!MeantObject(batch[t])
<1>1. PICK batch, calls : batch = bound.batches[i] /\ calls = Sui!executeCalls(batch)
  OBVIOUS
<1>2. DOMAIN batch = 1..Len(batch) /\ Len(batch) \in Nat
  BY <1>1, SuiBatch
<1> DEFINE call(t) == [target |-> Sui!Latest([target |-> batch[t].to], batch[t].latest), module |-> batch[t].module,
                       function |-> batch[t].function, data |-> batch[t].data,
                       stateObj |-> batch[t].stateObj, modules |-> batch[t].modules]
           C == {call(t) : t \in 1..Len(batch)}
<1>3. calls = [t \in 1..Len(batch) |-> call(t)]
  BY <1>1, <1>2 DEF Sui!executeCalls
<1>4. \A t : /\ call(t).stateObj = batch[t].stateObj /\ call(t).module = batch[t].module
            /\ call(t).target = IF batch[t].latest = "" THEN batch[t].to ELSE batch[t].latest
  BY DEF Sui!Latest
<1> HIDE DEF call
<1>5. calls \in [1..Len(batch) -> C]
  BY <1>3
<1>6. calls \in Seq(C)
  BY <1>2, <1>5, IsASeq
<1>7. Len(calls) = Len(batch)
  BY <1>2, <1>5, <1>6, LenProperties
<1>8. \A t \in 1..Len(batch) : ObjectOf(calls[t]) = Sui!MeantObject(batch[t])
  <2> TAKE t \in 1..Len(batch)
  <2>1. PICK c, tx : c = call(t) /\ tx = batch[t]
    OBVIOUS
  <2>2. c.module = tx.module /\ c.stateObj = tx.stateObj /\ c.target = IF tx.latest = "" THEN tx.to ELSE tx.latest
    BY <1>4, <2>1
  <2>3. ObjectOf(c) = Sui!MeantObject(tx)
    BY <2>2, SuiObjectOf
  <2>. QED BY <1>3, <2>1, <2>3
<1>. QED BY <1>1, <1>6, <1>7, <1>8

\* The calls of a batch are made as they are meant.
LEMMA SuiBatchRuns ==
    ASSUME SuiInstance, NEW i \in DOMAIN bound.batches,
           NEW calls, NEW ptb, NEW n \in Nat, NEW base, NEW ran \in Seq(MadeCalls),
           \E C : calls \in Seq(C), Len(calls) = Len(bound.batches[i]),
           \A t \in 1..Len(bound.batches[i]) : ObjectOf(calls[t]) = Sui!MeantObject(bound.batches[i][t]),
           HasCalls(ptb, n, calls), AllAt(ptb, n, base, Sui!SignedCalls(bound.batches[i]), ran)
    PROVE  AllMade(ptb, base, ran \o Sui!MeantCalls(i))
<1>1. PICK batch, params, q : /\ batch = bound.batches[i] /\ params = Sui!SignedCalls(batch)
                              /\ q = Sui!MeantCalls(i)
  OBVIOUS
<1>2. PICK C : calls \in Seq(C)
  OBVIOUS
<1>3. /\ params \in Seq({Sui!SignedCall(tx) : tx \in Sui!Transaction})
      /\ Len(params) = Len(batch)
      /\ \A t \in 1..Len(batch) : params[t] = Sui!SignedCall(batch[t])
      /\ q \in Seq(MadeCalls)
      /\ Len(q) = Len(batch)
      /\ \A t \in 1..Len(batch) : q[t] = Sui!WithObject(Sui!SignedCall(batch[t]), Sui!MeantObject(batch[t]))
  BY <1>1, SuiBatch
<1>4. \A t \in 1..Len(calls) : q[t] = Sui!WithObject(params[t], ObjectOf(calls[t]))
  BY <1>1, <1>3
<1>5. HasObjects(q, params, calls)
  BY <1>1, <1>2, <1>3, <1>4 DEF HasObjects
<1>6. AllAt(ptb, n, base, params, ran)
  BY <1>1
<1>7. AllMade(ptb, base, ran \o q)
  BY <1>5, <1>6, SuiCallsRun
<1>. QED BY <1>1, <1>7

LEMMA SuiBypassSent ==
    ASSUME ChainIsTyped, SuiInstance, chain.ran \in Seq(MadeCalls), NEW i \in DOMAIN bound.batches,
           NEW c \in Sui!RunAll(Sui!ExecuteOperationPTB("bypasser", i - 1, Sui!Ops("bypass")[i]))
    PROVE  SuiExecuted(c, "bypass", i, chain.pending, chain.ran \o Sui!MeantCalls(i))
<1>1. PICK n, op, batch, ptb : /\ op = Sui!Ops("bypass")[i] /\ n = i - 1 /\ batch = bound.batches[i]
                               /\ ptb = Sui!ExecuteOperationPTB("bypasser", n, op)
  OBVIOUS
<1>2. PICK calls : calls = Sui!bypassCalls(op)
  OBVIOUS
<1>3. op = Sui!ConvertBatchToChainOperations(i, "bypass")
  BY <1>1, SuiOps
<1>4. op.function = "timelock_bypasser_execute_batch" /\ op.data.calls = Sui!SignedCalls(batch)
  BY <1>1, <1>3, SuiBypassOp
<1>5. /\ \E C : calls \in Seq(C)
      /\ Len(calls) = Len(batch)
      /\ \A t \in 1..Len(batch) : ObjectOf(calls[t]) = Sui!MeantObject(batch[t])
  BY <1>1, <1>2, <1>3, SuiBypassCalls
<1>6. PICK T : Sui!AppendPTB(calls) \in Seq(T)
  BY <1>5, SuiAppended
<1>7. PICK x, y, leaf : /\ x = [cmd |-> "execute", role |-> "bypasser", nonce |-> n, leaf |-> leaf]
                        /\ y = [cmd |-> op.function, data |-> op.data]
                        /\ ptb = <<x, y>> \o Sui!AppendPTB(calls)
  <2>1. PICK x, y, leaf : /\ leaf = Sui!HashOperation("bypasser", n, op)
                          /\ x = [cmd |-> "execute", role |-> "bypasser", nonce |-> n, leaf |-> leaf]
                          /\ y = [cmd |-> op.function, data |-> op.data]
    OBVIOUS
  <2>2. Sui!ExecuteOperationPTB("bypasser", n, op) = <<x, y>> \o Sui!AppendPTB(calls)
    BY <1>2, <1>4, <2>1 DEF Sui!ExecuteOperationPTB
  <2>. QED BY <1>1, <2>1, <2>2
<1>8. PICK v : v = Sui!AppendPTB(calls)
  OBVIOUS
<1>9. Len(ptb) = 2 + Len(v) /\ Len(ptb) \in Nat /\ ptb[1] = x /\ ptb[2] = y /\ \A j \in 1..Len(v) : ptb[2 + j] = v[j]
  BY <1>6, <1>7, <1>8, TwoBefore
<1>10. HasCalls(ptb, 2, calls)
  BY <1>8, <1>9 DEF HasCalls
<1>11. Len(ptb) >= 2 /\ 2 \in 0..Len(ptb)
  <2>1. Len(v) \in Nat
    BY <1>6, <1>8, LenProperties
  <2>. QED BY <1>9, <2>1
<1>12. "bypasser" \in Sui!Roles
  BY SuiRoles
<1> DEFINE m == Executed(chain.multisig, "bypasser")
<1>13. ASSUME NEW t \in Sui!States(ptb)[2]
       PROVE  /\ At(t, WithMultisigs(chain, m), Sui!SignedCalls(batch), chain.ran)
              /\ n = chain.multisig["bypasser"].opCount
              /\ SuiMultisigs(m)
              /\ m["bypasser"].opCount = n + 1
              /\ \A r \in Sui!Roles \ {"bypasser"} : m[r] = chain.multisig[r]
  <2>1. PICK s, k :
              /\ t \in Sui!Run(s, ptb[2]) /\ Running(s) /\ s.held = <<>> /\ ChainFields(s.chain)
              /\ s.chain = WithMultisigs(chain, k) /\ k = Executed(chain.multisig, "bypasser")
              /\ n = chain.multisig["bypasser"].opCount
              /\ SuiMultisigs(k)
              /\ k["bypasser"].opCount = n + 1
              /\ \A r \in Sui!Roles \ {"bypasser"} : k[r] = chain.multisig[r]
    <3>1. /\ Len(ptb) \in Nat /\ Len(ptb) >= 2
          /\ ptb[1] = [cmd |-> "execute", role |-> "bypasser", nonce |-> n, leaf |-> leaf]
      BY <1>7, <1>9, <1>11
    <3>. QED BY <1>12, <3>1, SuiOperationStarts
  <2>2. y.cmd = "timelock_bypasser_execute_batch" /\ y.data.calls = Sui!SignedCalls(batch)
    BY <1>4, <1>7
  <2>3. At(t, s.chain, y.data.calls, s.chain.ran)
    BY <1>9, <2>1, <2>2, SuiBypasses
  <2>4. s.chain.ran = chain.ran /\ k = m
    BY <2>1 DEF WithMultisigs
  <2> HIDE DEF m
  <2>. QED BY <2>1, <2>2, <2>3, <2>4
<1> HIDE DEF m
<1>14. AllAt(ptb, 2, WithMultisigs(chain, m), Sui!SignedCalls(bound.batches[i]), chain.ran)
  BY <1>1, <1>13 DEF AllAt
<1>15. AllMade(ptb, WithMultisigs(chain, m), chain.ran \o Sui!MeantCalls(i))
  <2>1. Len(calls) = Len(bound.batches[i]) /\ \A t \in 1..Len(bound.batches[i]) : ObjectOf(calls[t]) = Sui!MeantObject(bound.batches[i][t])
    BY <1>1, <1>5
  <2>2. PICK base : base = WithMultisigs(chain, m)
    OBVIOUS
  <2>3. AllMade(ptb, base, chain.ran \o Sui!MeantCalls(i))
    BY <1>5, <1>10, <1>14, <2>1, <2>2, SuiBatchRuns
  <2>. QED BY <2>2, <2>3
<1>16. PICK t \in Sui!States(ptb)[Len(ptb)] : c = t.chain
  BY <1>1, SuiOutcome
<1>17. \E t2 \in Sui!States(ptb)[2] : TRUE
  BY <1>9, <1>11, <1>16, SuiAborted
<1>18. c = [pending |-> chain.pending, done |-> chain.done, ran |-> chain.ran \o Sui!MeantCalls(i), multisig |-> m]
  <2>1. PICK base, r : base = WithMultisigs(chain, m) /\ r = chain.ran \o Sui!MeantCalls(i)
    OBVIOUS
  <2>2. c = [pending |-> base.pending, done |-> base.done, ran |-> r, multisig |-> base.multisig]
    BY <1>15, <1>16, <2>1 DEF AllMade
  <2>3. base.pending = chain.pending /\ base.done = chain.done /\ base.multisig = m
    BY <2>1 DEF WithMultisigs
  <2>. QED BY <2>1, <2>2, <2>3
<1>. QED BY <1>1, <1>13, <1>17, <1>18, SuiRoles DEF SuiExecuted, m

LEMMA SuiExecuteSent ==
    ASSUME ChainIsTyped, SuiInstance, chain.ran \in Seq(MadeCalls), NEW i \in DOMAIN bound.batches,
           NEW c \in Sui!RunAll(Sui!ExecutePTB(i))
    PROVE  LET id == <<Sui!SignedCalls(bound.batches[i]), Sui!OperationIDs[i - 1], bound.salt>> IN
           /\ id \in chain.pending /\ Sui!OperationIDs[i - 1] \in chain.done \cup {<<>>}
           /\ c = [pending |-> chain.pending \ {id}, done |-> chain.done \cup {id},
                   ran |-> chain.ran \o Sui!MeantCalls(i), multisig |-> chain.multisig]
<1>1. PICK batch, ptb, calls : batch = bound.batches[i] /\ ptb = Sui!ExecutePTB(i) /\ calls = Sui!executeCalls(batch)
  OBVIOUS
<1>2. /\ \E C : calls \in Seq(C)
      /\ Len(calls) = Len(batch)
      /\ \A t \in 1..Len(batch) : ObjectOf(calls[t]) = Sui!MeantObject(batch[t])
  BY <1>1, SuiExecuteCalls
<1>3. PICK T : Sui!AppendPTB(calls) \in Seq(T)
  BY <1>2, SuiAppended
<1>4. PICK params, pred, x : /\ params = Sui!SignedCalls(batch) /\ pred = Sui!OperationIDs[i - 1]
                             /\ x = [cmd |-> "timelock_execute_batch", calls |-> params, predecessor |-> pred, salt |-> bound.salt]
  OBVIOUS
<1>5. ptb = <<x>> \o Sui!AppendPTB(calls)
  BY <1>1, <1>4 DEF Sui!ExecutePTB, Sui!OperationID
<1>6. PICK v : v = Sui!AppendPTB(calls)
  OBVIOUS
<1>7. Len(ptb) = 1 + Len(v) /\ Len(ptb) \in Nat /\ ptb[1] = x /\ \A j \in 1..Len(v) : ptb[1 + j] = v[j]
  BY <1>3, <1>5, <1>6, OneBefore
<1>8. HasCalls(ptb, 1, calls)
  BY <1>6, <1>7 DEF HasCalls
<1>9. Len(ptb) >= 1 /\ 1 \in 0..Len(ptb)
  <2>1. Len(v) \in Nat
    BY <1>3, <1>6, LenProperties
  <2>. QED BY <1>7, <2>1
<1>10. PICK id, base : /\ id = <<params, pred, bound.salt>>
                       /\ base = [pending |-> chain.pending \ {id}, done |-> chain.done \cup {id}, ran |-> chain.ran,
                                  multisig |-> chain.multisig]
  OBVIOUS
<1>11. ASSUME NEW t \in Sui!States(ptb)[1]
       PROVE  /\ At(t, base, params, chain.ran)
              /\ id \in chain.pending /\ pred \in chain.done \cup {<<>>}
  <2>1. PICK s : s = Sui!Started
    OBVIOUS
  <2>2. t \in Sui!Run(s, x)
    BY <1>7, <1>9, <2>1, SuiFirst
  <2>3. Running(s) /\ s.chain = chain /\ s.held = <<>>
    BY <2>1, SuiStarts
  <2>4. x.cmd = "timelock_execute_batch" /\ x.calls = params /\ x.predecessor = pred /\ x.salt = bound.salt
    BY <1>4
  <2>5. LET d == <<x.calls, x.predecessor, x.salt>>
            b == [pending |-> s.chain.pending \ {d}, done |-> s.chain.done \cup {d}, ran |-> s.chain.ran,
                  multisig |-> s.chain.multisig]
        IN  /\ d \in s.chain.pending /\ x.predecessor \in s.chain.done \cup {<<>>}
            /\ At(t, b, x.calls, s.chain.ran)
    <3>1. ChainFields(s.chain) /\ x.cmd = "timelock_execute_batch"
      BY <2>3, <2>4 DEF ChainIsTyped
    <3>. QED BY <2>2, <2>3, <3>1, SuiExecutesBatch
  <2>6. <<x.calls, x.predecessor, x.salt>> = id
    BY <1>10, <2>4
  <2>. QED BY <1>10, <2>3, <2>4, <2>5, <2>6
<1>12. AllAt(ptb, 1, base, Sui!SignedCalls(bound.batches[i]), chain.ran)
  BY <1>1, <1>4, <1>11 DEF AllAt
<1>13. AllMade(ptb, base, chain.ran \o Sui!MeantCalls(i))
  <2>1. Len(calls) = Len(bound.batches[i]) /\ \A t \in 1..Len(bound.batches[i]) : ObjectOf(calls[t]) = Sui!MeantObject(bound.batches[i][t])
    BY <1>1, <1>2
  <2>. QED BY <1>2, <1>8, <1>12, <2>1, SuiBatchRuns
<1>14. PICK t \in Sui!States(ptb)[Len(ptb)] : c = t.chain
  BY <1>1, SuiOutcome
<1>15. \E t1 \in Sui!States(ptb)[1] : TRUE
  BY <1>7, <1>9, <1>14, SuiAborted
<1>16. c = [pending |-> chain.pending \ {id}, done |-> chain.done \cup {id}, ran |-> chain.ran \o Sui!MeantCalls(i),
            multisig |-> chain.multisig]
  <2>1. PICK r : r = chain.ran \o Sui!MeantCalls(i)
    OBVIOUS
  <2>2. c = [pending |-> base.pending, done |-> base.done, ran |-> r, multisig |-> base.multisig]
    BY <1>13, <1>14, <2>1 DEF AllMade
  <2>3. base.pending = chain.pending \ {id} /\ base.done = chain.done \cup {id} /\ base.multisig = chain.multisig
    BY <1>10
  <2>. QED BY <2>1, <2>2, <2>3
<1>17. id = <<Sui!SignedCalls(bound.batches[i]), Sui!OperationIDs[i - 1], bound.salt>>
  BY <1>1, <1>4, <1>10
<1>18. id \in chain.pending /\ Sui!OperationIDs[i - 1] \in chain.done \cup {<<>>}
  BY <1>4, <1>11, <1>15
<1>. QED BY <1>16, <1>17, <1>18

-----------------------------------------------------------------------------
(* Sui: the invariant *)

\* What may be about to be sent.
SuiClient ==
    client # <<>> =>
        \/ \E root, metadata : /\ metadata.role \in Sui!Roles
                               /\ client = <<[cmd |-> "set_root", root |-> root, metadata |-> metadata]>>
        \/ \E action \in Sui!Proposals : \E i \in DOMAIN bound.batches :
              client = Sui!ExecuteOperationPTB(Sui!TimelockRole[action], i - 1, Sui!Ops(action)[i])
        \/ \E i \in DOMAIN bound.batches : client = Sui!ExecutePTB(i)

\* Batches that are bypassed are run as the multisig counts them.
SuiBypassed ==
    /\ chain.pending = {}
    /\ chain.multisig["bypasser"].opCount \in 0..Len(bound.batches)
    /\ chain.ran = FlattenSeq(Meant(chain.multisig["bypasser"].opCount))

\* Batches that are scheduled are done in their order, and none is pending any more.
SuiScheduled ==
    \E n \in 0..Len(bound.batches) :
        /\ chain.done = {Sui!OperationIDs[k] : k \in 1..n}
        /\ IsFiniteSet(chain.done) /\ Cardinality(chain.done) = n
        /\ chain.pending \subseteq {Sui!OperationIDs[k] : k \in (n + 1)..Len(bound.batches)}
        /\ chain.ran = FlattenSeq(Meant(n))

SuiProgress == IF "bypass" \in Sui!Proposals THEN SuiBypassed ELSE SuiScheduled
SuiOrder == ChainIsTyped /\ SuiClient /\ SuiProgress
SuiInv == bound \in Instances /\ (Of("sui") => SuiOrder)

LEMMA SuiInit ==
    ASSUME SuiInstance, Sui!Init
    PROVE  SuiOrder
<1> DEFINE record == [root |-> Sui!NoRoot, opCount |-> 0, post |-> 0]
           all == [r \in Sui!Roles |-> record]
<1>1. /\ chain = [pending |-> {}, done |-> {}, ran |-> <<>>, multisig |-> all]
      /\ client = <<>>
  BY DEF Sui!Init
<1>2. record.opCount = 0 /\ record = [root |-> record.root, opCount |-> record.opCount, post |-> record.post]
  OBVIOUS
<1> HIDE DEF record
<1>3. SuiMultisigs(all) /\ \A r \in Sui!Roles : all[r].opCount = 0
  BY <1>2 DEF SuiMultisigs
<1> HIDE DEF all
<1>4. chain.pending = {} /\ chain.done = {} /\ chain.ran = <<>> /\ chain.multisig = all
  BY <1>1
<1>5. ChainIsTyped
  BY <1>1, <1>3, <1>4 DEF ChainIsTyped, ChainFields
<1>6. Len(bound.batches) \in Nat /\ 0 \in 0..Len(bound.batches)
  <2>1. Len(bound.batches) \in Nat
    BY LenProperties DEF SuiInstance
  <2>. QED BY <2>1
<1>7. FlattenSeq(Meant(0)) = <<>>
  <2>1. Meant(0) = <<>>
    BY <1>6, SuiMeant, EmptySeq
  <2>2. Len(<<>>) = 0
    OBVIOUS
  <2>. QED BY <2>1, <2>2 DEF FlattenSeq
<1>8. SuiBypassed
  <2>1. chain.multisig["bypasser"].opCount = 0
    BY <1>3, <1>4, SuiRoles
  <2>. QED BY <1>4, <1>6, <1>7, <2>1 DEF SuiBypassed
<1>9. SuiScheduled
  <2>1. chain.done = {Sui!OperationIDs[k] : k \in 1..0}
    BY <1>4
  <2>2. IsFiniteSet(chain.done) /\ Cardinality(chain.done) = 0
    BY <1>4, FS_EmptySet
  <2>3. chain.pending \subseteq {Sui!OperationIDs[k] : k \in (0 + 1)..Len(bound.batches)}
    BY <1>4
  <2>. QED BY <1>4, <1>6, <1>7, <2>1, <2>2, <2>3 DEF SuiScheduled
<1>. QED BY <1>1, <1>5, <1>8, <1>9 DEF SuiOrder, SuiClient, SuiProgress

\* What depends on the instance only.
LEMMA SuiSameInstance ==
    ASSUME bound' = bound
    PROVE  /\ Sui!OperationIDs' = Sui!OperationIDs
           /\ Sui!Proposals' = Sui!Proposals
           /\ \A n : Meant(n)' = Meant(n)
           /\ \A action : Sui!Ops(action)' = Sui!Ops(action)
           /\ \A role, nonce, op : Sui!ExecuteOperationPTB(role, nonce, op)' = Sui!ExecuteOperationPTB(role, nonce, op)
           /\ \A i : Sui!ExecutePTB(i)' = Sui!ExecutePTB(i)
<1>1. Sui!OperationIDs' = Sui!OperationIDs
  BY DEF Sui!OperationIDs, Sui!SignedCalls
<1>2. \A n : Meant(n)' = Meant(n)
  BY DEF Meant, Sui!MeantCalls, Sui!MeantObject
<1>3. Sui!Proposals' = Sui!Proposals
  BY DEF Sui!Proposals
<1>4. \A i, action : Sui!ConvertBatchToChainOperations(i, action)' = Sui!ConvertBatchToChainOperations(i, action)
  BY <1>1 DEF Sui!ConvertBatchToChainOperations, Sui!serializeTimelockScheduleBatch, Sui!serializeTimelockCancel,
              Sui!serializeTimelockBypasserExecuteBatch, Sui!OperationID
<1>5. \A action : Sui!Ops(action)' = Sui!Ops(action)
  BY <1>4 DEF Sui!Ops
<1>6. \A call : Sui!processCall(call)' = Sui!processCall(call)
  BY DEF Sui!processCall, Sui!processMCMSAccountCall
<1>7. \A calls : Sui!AppendPTB(calls)' = Sui!AppendPTB(calls)
  BY <1>6 DEF Sui!AppendPTB
<1>8. \A role, nonce, op : Sui!ExecuteOperationPTB(role, nonce, op)' = Sui!ExecuteOperationPTB(role, nonce, op)
  BY <1>7 DEF Sui!ExecuteOperationPTB
<1>9. \A i : Sui!ExecutePTB(i)' = Sui!ExecutePTB(i)
  BY <1>1, <1>7 DEF Sui!ExecutePTB, Sui!OperationID
<1>. QED BY <1>1, <1>2, <1>3, <1>5, <1>8, <1>9

\* What the progress depends on.
LEMMA SuiProgressIsKept ==
    ASSUME SuiProgress, bound' = bound,
           chain'.pending = chain.pending, chain'.done = chain.done, chain'.ran = chain.ran,
           chain'.multisig["bypasser"].opCount = chain.multisig["bypasser"].opCount
    PROVE  SuiProgress'
<1>1. Sui!OperationIDs' = Sui!OperationIDs /\ (\A n : Meant(n)' = Meant(n)) /\ Sui!Proposals' = Sui!Proposals
  BY SuiSameInstance
<1>2. SuiBypassed => SuiBypassed'
  BY <1>1 DEF SuiBypassed
<1>3. SuiScheduled => SuiScheduled'
  BY <1>1 DEF SuiScheduled
<1>. QED BY <1>1, <1>2, <1>3 DEF SuiProgress

\* A call puts a transaction together.
LEMMA SuiBegins ==
    ASSUME SuiInstance, SuiOrder, bound' = bound, chain' = chain, SuiClient'
    PROVE  SuiOrder'
<1>1. SuiProgress'
  BY SuiProgressIsKept DEF SuiOrder
<1>2. ChainIsTyped'
  BY DEF SuiOrder, ChainIsTyped
<1>. QED BY <1>1, <1>2 DEF SuiOrder

LEMMA SuiActions ==
    ASSUME SuiInstance, NEW action \in Sui!Proposals
    PROVE  /\ Sui!TimelockRole[action] \in Sui!Roles
           /\ action \in {"schedule", "cancel", "bypass"}
<1>1. action \in {"schedule", "cancel", "bypass"}
  BY DEF SuiInstance
<1>. QED BY <1>1, SuiRoles

LEMMA SuiCalls ==
    ASSUME SuiInstance, SuiOrder, bound' = bound,
           (\E action \in Sui!Proposals : Sui!SetRoot(action) \/ Sui!ExecuteOperation(action))
           \/ (\E i \in DOMAIN bound.batches : Sui!Execute(i))
    PROVE  SuiOrder'
<1>1. ASSUME NEW action \in Sui!Proposals, Sui!SetRoot(action) PROVE SuiClient' /\ chain' = chain
  <2>1. PICK root, metadata : root = Sui!Leaves(action) /\ metadata = Sui!HashMetadata(action)
    OBVIOUS
  <2>2. client' = <<[cmd |-> "set_root", root |-> root, metadata |-> metadata]>> /\ chain' = chain
    BY <1>1, <2>1 DEF Sui!SetRoot, Sui!Begin
  <2>3. metadata.role \in Sui!Roles
    BY <2>1, SuiActions DEF Sui!HashMetadata
  <2>4. \E r, m : m.role \in Sui!Roles /\ client' = <<[cmd |-> "set_root", root |-> r, metadata |-> m]>>
    BY <2>2, <2>3
  <2>. QED BY <2>2, <2>4, Zenon DEF SuiClient
<1>2. ASSUME NEW action \in Sui!Proposals, Sui!ExecuteOperation(action) PROVE SuiClient' /\ chain' = chain
  <2>1. PICK role, nonce : role = Sui!TimelockRole[action] /\ nonce = chain.multisig[role].opCount
    OBVIOUS
  <2>2. /\ client' = Sui!ExecuteOperationPTB(role, nonce, Sui!Ops(action)[nonce + 1]) /\ chain' = chain
        /\ nonce < Len(Sui!Ops(action))
    BY <1>2, <2>1 DEF Sui!ExecuteOperation, Sui!Begin, Sui!GetOpCount
  <2>3. nonce \in Nat
    BY <2>1, SuiActions DEF SuiOrder, ChainIsTyped, SuiMultisigs
  <2>4. Len(Sui!Ops(action)) = Len(bound.batches) /\ DOMAIN bound.batches = 1..Len(bound.batches) /\ Len(bound.batches) \in Nat
    <3>1. DOMAIN bound.batches = 1..Len(bound.batches) /\ Len(bound.batches) \in Nat
      BY LenProperties DEF SuiInstance
    <3>2. PICK N : N = Len(bound.batches)
      OBVIOUS
    <3> DEFINE T == {Sui!ConvertBatchToChainOperations(i, action) : i \in 1..N}
    <3>3. Sui!Ops(action) \in [1..N -> T]
      BY <3>1, <3>2 DEF Sui!Ops
    <3>4. Sui!Ops(action) \in Seq(T)
      BY <3>1, <3>2, <3>3, IsASeq
    <3>5. Len(Sui!Ops(action)) = N
      BY <3>1, <3>2, <3>3, <3>4, LenProperties
    <3>. QED BY <3>1, <3>2, <3>5
  <2>5. nonce + 1 \in DOMAIN bound.batches /\ (nonce + 1) - 1 = nonce
    BY <2>2, <2>3, <2>4
  <2>6. client' = Sui!ExecuteOperationPTB(Sui!TimelockRole[action], (nonce + 1) - 1, Sui!Ops(action)[nonce + 1])
    BY <2>1, <2>2, <2>5
  <2>. QED BY <2>2, <2>5, <2>6, SuiSameInstance DEF SuiClient
<1>3. ASSUME NEW i \in DOMAIN bound.batches, Sui!Execute(i) PROVE SuiClient' /\ chain' = chain
  <2>1. client' = Sui!ExecutePTB(i) /\ chain' = chain
    BY <1>3 DEF Sui!Execute, Sui!Begin
  <2>. QED BY <2>1, SuiSameInstance DEF SuiClient
<1>. QED BY <1>1, <1>2, <1>3, SuiBegins

\* A transaction that was lost, or that aborted.
LEMMA SuiStops ==
    ASSUME SuiInstance, SuiOrder, bound' = bound, chain' = chain, client' = <<>>
    PROVE  SuiOrder'
<1>1. SuiClient'
  BY DEF SuiClient
<1>. QED BY <1>1, SuiBegins

\* After a transaction the client has none.
LEMMA SuiEnds ==
    ASSUME client' = <<>>, ChainIsTyped', SuiProgress'
    PROVE  SuiOrder'
BY DEF SuiOrder, SuiClient

LEMMA SuiExecutedIsTyped ==
    ASSUME NEW action, NEW i, NEW pending, NEW ran, SuiExecuted(chain', action, i, pending, ran)
    PROVE  /\ ChainIsTyped'
           /\ chain'.pending = pending /\ chain'.done = chain.done /\ chain'.ran = ran
           /\ chain'.multisig[Sui!TimelockRole[action]].opCount = (i - 1) + 1
           /\ \A r \in Sui!Roles \ {Sui!TimelockRole[action]} : chain'.multisig[r] = chain.multisig[r]
<1>1. PICK m : m = Executed(chain.multisig, Sui!TimelockRole[action])
  OBVIOUS
<1>2. /\ SuiMultisigs(m)
      /\ m[Sui!TimelockRole[action]].opCount = (i - 1) + 1
      /\ \A r \in Sui!Roles \ {Sui!TimelockRole[action]} : m[r] = chain.multisig[r]
      /\ chain' = [pending |-> pending, done |-> chain.done, ran |-> ran, multisig |-> m]
  BY <1>1 DEF SuiExecuted
<1>3. chain'.pending = pending /\ chain'.done = chain.done /\ chain'.ran = ran /\ chain'.multisig = m
  BY <1>2
<1>4. ChainIsTyped'
  BY <1>2, <1>3 DEF ChainIsTyped, ChainFields
<1>. QED BY <1>2, <1>3, <1>4

\* The id of a batch that was scheduled or is executed.
LEMMA SuiBatchID ==
    ASSUME SuiInstance, NEW i \in DOMAIN bound.batches
    PROVE  /\ <<Sui!SignedCalls(bound.batches[i]), Sui!OperationIDs[i - 1], bound.salt>> = Sui!OperationIDs[i]
           /\ i \in 1..Len(bound.batches) /\ i - 1 \in 0..Len(bound.batches) /\ Len(bound.batches) \in Nat
           /\ Sui!OperationIDs[0] = <<>>
<1>1. PICK N : N = Len(bound.batches)
  OBVIOUS
<1>2. N \in Nat /\ i \in 1..N
  BY <1>1, LenProperties DEF SuiInstance
<1>3. i - 1 \in 0..N
  BY <1>2
<1>. QED BY <1>1, <1>2, <1>3, SuiIDs

\* The progress that was made with n batches done.
DoneAre(c, n) ==
    /\ c.done = {Sui!OperationIDs[k] : k \in 1..n}
    /\ IsFiniteSet(c.done) /\ Cardinality(c.done) = n
    /\ c.pending \subseteq {Sui!OperationIDs[k] : k \in (n + 1)..Len(bound.batches)}
    /\ c.ran = FlattenSeq(Meant(n))

LEMMA SuiScheduledNext ==
    ASSUME bound' = bound, "bypass" \notin Sui!Proposals, ChainIsTyped', client' = <<>>,
           NEW n \in 0..Len(bound.batches), DoneAre(chain', n)
    PROVE  SuiOrder'
<1>1. DoneAre(chain, n)'
  BY SuiSameInstance DEF DoneAre
<1>2. n \in 0..Len(bound'.batches)
  OBVIOUS
<1>3. SuiScheduled'
  BY <1>1, <1>2 DEF SuiScheduled, DoneAre
<1>. QED BY <1>3, SuiEnds, SuiSameInstance DEF SuiProgress

LEMMA SuiSentRoot ==
    ASSUME SuiInstance, SuiOrder, bound' = bound, client' = <<>>, NEW m, SuiMultisigs(m),
           \A r \in Sui!Roles : m[r].opCount = chain.multisig[r].opCount, chain' = WithMultisigs(chain, m)
    PROVE  SuiOrder'
<1>1. chain'.pending = chain.pending /\ chain'.done = chain.done /\ chain'.ran = chain.ran /\ chain'.multisig = m
  BY DEF WithMultisigs
<1>2. ChainIsTyped'
  BY <1>1 DEF ChainIsTyped, ChainFields, WithMultisigs
<1>3. SuiProgress'
  BY <1>1, SuiProgressIsKept, SuiRoles DEF SuiOrder
<1>. QED BY <1>2, <1>3, SuiEnds

LEMMA SuiSentSchedule ==
    ASSUME SuiInstance, SuiOrder, bound' = bound, client' = <<>>, "schedule" \in Sui!Proposals,
           NEW i \in DOMAIN bound.batches, Sui!OperationIDs[i] \notin chain.done,
           SuiExecuted(chain', "schedule", i, chain.pending \cup {Sui!OperationIDs[i]}, chain.ran)
    PROVE  SuiOrder'
<1>1. "bypass" \notin Sui!Proposals
  BY DEF SuiInstance
<1>2. /\ ChainIsTyped'
      /\ chain'.pending = chain.pending \cup {Sui!OperationIDs[i]} /\ chain'.done = chain.done /\ chain'.ran = chain.ran
  BY SuiExecutedIsTyped
<1>3. PICK n \in 0..Len(bound.batches) : DoneAre(chain, n)
  BY <1>1 DEF SuiOrder, SuiProgress, SuiScheduled, DoneAre
<1>4. i \in (n + 1)..Len(bound.batches)
  <2>1. i \in 1..Len(bound.batches) /\ Len(bound.batches) \in Nat
    BY SuiBatchID
  <2>2. i \notin 1..n
    BY <1>3 DEF DoneAre
  <2>. QED BY <1>3, <2>1, <2>2
<1>5. DoneAre(chain', n)
  BY <1>2, <1>3, <1>4 DEF DoneAre
<1>. QED BY <1>1, <1>2, <1>5, SuiScheduledNext

LEMMA SuiSentCancel ==
    ASSUME SuiInstance, SuiOrder, bound' = bound, client' = <<>>, "cancel" \in Sui!Proposals,
           NEW i, NEW id, SuiExecuted(chain', "cancel", i, chain.pending \ {id}, chain.ran)
    PROVE  SuiOrder'
<1>1. "bypass" \notin Sui!Proposals
  BY DEF SuiInstance
<1>2. /\ ChainIsTyped'
      /\ chain'.pending = chain.pending \ {id} /\ chain'.done = chain.done /\ chain'.ran = chain.ran
  BY SuiExecutedIsTyped
<1>3. PICK n \in 0..Len(bound.batches) : DoneAre(chain, n)
  BY <1>1 DEF SuiOrder, SuiProgress, SuiScheduled, DoneAre
<1>4. DoneAre(chain', n)
  BY <1>2, <1>3 DEF DoneAre
<1>. QED BY <1>1, <1>2, <1>4, SuiScheduledNext

LEMMA SuiSentBypass ==
    ASSUME SuiInstance, SuiOrder, bound' = bound, client' = <<>>, "bypass" \in Sui!Proposals,
           NEW i \in DOMAIN bound.batches,
           SuiExecuted(chain', "bypass", i, chain.pending, chain.ran \o Sui!MeantCalls(i))
    PROVE  SuiOrder'
<1>1. SuiBypassed
  BY DEF SuiOrder, SuiProgress
<1>2. /\ ChainIsTyped'
      /\ chain'.pending = chain.pending /\ chain'.ran = chain.ran \o Sui!MeantCalls(i)
      /\ chain'.multisig["bypasser"].opCount = (i - 1) + 1
  <2>1. PICK p, r, role : /\ p = chain.pending /\ r = chain.ran \o Sui!MeantCalls(i)
                          /\ role = Sui!TimelockRole["bypass"]
    OBVIOUS
  <2>2. SuiExecuted(chain', "bypass", i, p, r)
    BY <2>1
  <2>3. ChainIsTyped' /\ chain'.pending = p /\ chain'.ran = r /\ chain'.multisig[role].opCount = (i - 1) + 1
    BY <2>1, <2>2, SuiExecutedIsTyped
  <2>. QED BY <2>1, <2>3, SuiRoles
<1>3. chain.multisig["bypasser"].opCount = i - 1
  BY SuiRoles DEF SuiExecuted
<1>4. PICK n : n = i - 1
  OBVIOUS
<1>5. n \in Nat /\ n + 1 = i /\ n + 1 \in 1..Len(bound.batches) /\ n + 1 \in 0..Len(bound.batches)
  <2>1. i \in 1..Len(bound.batches)
    BY SuiBatchID
  <2>. QED BY <1>4, <2>1
<1>6. FlattenSeq(Meant(n + 1)) = FlattenSeq(Meant(n)) \o Sui!MeantCalls(n + 1)
  BY <1>5, SuiMeantOneMore
<1>7. chain'.ran = FlattenSeq(Meant(n + 1)) /\ chain'.pending = {} /\ chain'.multisig["bypasser"].opCount = n + 1
  BY <1>1, <1>2, <1>3, <1>4, <1>5, <1>6 DEF SuiBypassed
<1>8. SuiBypassed'
  BY <1>5, <1>7, SuiSameInstance DEF SuiBypassed
<1>. QED BY <1>2, <1>8, SuiEnds, SuiSameInstance DEF SuiProgress

\* The next batch of those that were scheduled is executed, and no other.
LEMMA SuiSentExecute ==
    ASSUME SuiInstance, SuiOrder, bound' = bound, client' = <<>>,
           NEW i \in DOMAIN bound.batches,
           Sui!OperationIDs[i] \in chain.pending, Sui!OperationIDs[i - 1] \in chain.done \cup {<<>>},
           chain' = [pending |-> chain.pending \ {Sui!OperationIDs[i]}, done |-> chain.done \cup {Sui!OperationIDs[i]},
                     ran |-> chain.ran \o Sui!MeantCalls(i), multisig |-> chain.multisig]
    PROVE  SuiOrder'
<1>1. PICK N, ID : N = Len(bound.batches) /\ ID = Sui!OperationIDs
  OBVIOUS
<1>2. i \in 1..N /\ i - 1 \in 0..N /\ N \in Nat /\ ID[0] = <<>>
  BY <1>1, SuiBatchID
<1>3. \A j, k \in 0..N : ID[j] = ID[k] => j = k
  BY <1>1, <1>2, SuiIDsDiffer
<1>4. "bypass" \notin Sui!Proposals
  BY DEF SuiOrder, SuiProgress, SuiBypassed
<1>5. PICK n \in 0..Len(bound.batches) : DoneAre(chain, n)
  BY <1>4 DEF SuiOrder, SuiProgress, SuiScheduled, DoneAre
<1>6. /\ chain.done = {ID[k] : k \in 1..n} /\ IsFiniteSet(chain.done) /\ Cardinality(chain.done) = n
      /\ chain.pending \subseteq {ID[k] : k \in (n + 1)..N}
      /\ chain.ran = FlattenSeq(Meant(n)) /\ n \in 0..N
  BY <1>1, <1>5 DEF DoneAre
<1>7. PICK x, y : x = ID[i] /\ y = ID[i - 1]
  OBVIOUS
<1>8. x \in chain.pending /\ y \in chain.done \cup {<<>>}
  BY <1>1, <1>7
<1>9. i = n + 1
  <2>1. PICK k \in (n + 1)..N : x = ID[k]
    BY <1>6, <1>8
  <2>2. k \in 0..N /\ i \in 0..N
    BY <1>2, <1>6
  <2>3. k = i
    BY <1>3, <1>7, <2>1, <2>2
  <2>4. \E j \in 0..n : y = ID[j]
    <3>1. CASE y \in chain.done
      <4>1. PICK j \in 1..n : y = ID[j]
        BY <1>6, <3>1
      <4>2. j \in 0..n
        BY <1>6
      <4>. QED BY <4>1, <4>2
    <3>2. CASE y = <<>>
      <4>1. 0 \in 0..n
        BY <1>6
      <4>. QED BY <1>2, <3>2, <4>1
    <3>. QED BY <1>8, <3>1, <3>2
  <2>5. PICK j \in 0..n : y = ID[j]
    BY <2>4
  <2>6. j \in 0..N
    BY <1>2, <1>6
  <2>7. j = i - 1
    BY <1>2, <1>3, <1>7, <2>5, <2>6
  <2>. QED BY <1>2, <1>6, <2>1, <2>3, <2>5, <2>7
<1>10. n + 1 \in 1..N /\ n + 1 \in 0..N /\ n \in Nat
  BY <1>2, <1>6, <1>9
<1>11. /\ chain'.pending = chain.pending \ {x} /\ chain'.done = chain.done \cup {x}
       /\ chain'.ran = chain.ran \o Sui!MeantCalls(n + 1) /\ chain'.multisig = chain.multisig
  BY <1>1, <1>7, <1>9
<1>12. ChainIsTyped'
  BY <1>11 DEF SuiOrder, ChainIsTyped, ChainFields
<1>13. chain'.done = {ID[k] : k \in 1..(n + 1)}
  <2>1. \A k : k \in 1..(n + 1) <=> k \in 1..n \/ k = n + 1
    BY <1>10
  <2>. QED BY <1>6, <1>7, <1>9, <1>11, <2>1
<1>14. IsFiniteSet(chain'.done) /\ Cardinality(chain'.done) = n + 1
  <2>1. x \notin chain.done
    <3>1. ASSUME NEW k \in 1..n PROVE x # ID[k]
      <4>1. k \in 0..N /\ n + 1 \in 0..N /\ k # n + 1
        BY <1>2, <1>6, <1>10
      <4>. QED BY <1>3, <1>7, <1>9, <4>1
    <3>. QED BY <1>6, <3>1
  <2>. QED BY ZenonT(60), <1>6, <1>11, <2>1, FS_AddElement
<1>15. chain'.pending \subseteq {ID[k] : k \in ((n + 1) + 1)..N}
  <2>1. ASSUME NEW id \in chain.pending, id # x PROVE \E k \in ((n + 1) + 1)..N : id = ID[k]
    <3>1. PICK k \in (n + 1)..N : id = ID[k]
      BY <1>6
    <3>2. k # n + 1
      BY <1>7, <1>9, <2>1, <3>1
    <3>3. k \in ((n + 1) + 1)..N
      BY <1>10, <3>2
    <3>. QED BY <3>1, <3>3
  <2>. QED BY <1>11, <2>1
<1>16. chain'.ran = FlattenSeq(Meant(n + 1))
  BY <1>1, <1>6, <1>10, <1>11, SuiMeantOneMore
<1>17. DoneAre(chain', n + 1)
  BY SMTT(40), <1>1, <1>13, <1>14, <1>15, <1>16 DEF DoneAre
<1>. QED BY <1>1, <1>4, <1>10, <1>12, <1>17, SuiScheduledNext

\* What was run so far is a sequence of calls.
LEMMA SuiRanIsTyped ==
    ASSUME SuiInstance, SuiOrder
    PROVE  chain.ran \in Seq(MadeCalls)
<1>1. \E n \in 0..Len(bound.batches) : chain.ran = FlattenSeq(Meant(n))
  BY DEF SuiOrder, SuiProgress, SuiBypassed, SuiScheduled
<1>. QED BY <1>1, SuiMeant

LEMMA SuiSends ==
    ASSUME SuiInstance, SuiOrder, bound' = bound, Sui!Send
    PROVE  SuiOrder'
<1>1. client # <<>> /\ client' = <<>>
  BY DEF Sui!Send
<1>2. CASE Sui!RunAll(client) = {}
  <2>1. chain' = chain
    BY <1>2 DEF Sui!Send
  <2>. QED BY <1>1, <2>1, SuiStops
<1>3. CASE Sui!RunAll(client) # {}
  <2>1. chain' \in Sui!RunAll(client)
    BY <1>3 DEF Sui!Send
  <2>2. ChainIsTyped /\ SuiClient
    BY DEF SuiOrder
  <2>3. PICK c : c = chain'
    OBVIOUS
  <2>4. CASE \E root, metadata : /\ metadata.role \in Sui!Roles
                                 /\ client = <<[cmd |-> "set_root", root |-> root, metadata |-> metadata]>>
    <3>1. PICK root, metadata : /\ metadata.role \in Sui!Roles
                                /\ client = <<[cmd |-> "set_root", root |-> root, metadata |-> metadata]>>
      BY <2>4
    <3>2. c \in Sui!RunAll(<<[cmd |-> "set_root", root |-> root, metadata |-> metadata]>>)
      BY <2>1, <2>3, <3>1
    <3>3. PICK m : /\ SuiMultisigs(m)
                   /\ \A r \in Sui!Roles : m[r].opCount = chain.multisig[r].opCount
                   /\ c = WithMultisigs(chain, m)
      BY <2>2, <3>1, <3>2, SuiRootSent
    <3>. QED BY <1>1, <2>3, <3>3, SuiSentRoot
  <2>5. CASE \E action \in Sui!Proposals : \E i \in DOMAIN bound.batches :
                client = Sui!ExecuteOperationPTB(Sui!TimelockRole[action], i - 1, Sui!Ops(action)[i])
    <3>1. PICK action \in Sui!Proposals, i \in DOMAIN bound.batches :
                client = Sui!ExecuteOperationPTB(Sui!TimelockRole[action], i - 1, Sui!Ops(action)[i])
      BY <2>5
    <3>2. CASE action = "schedule"
      <4>1. c \in Sui!RunAll(Sui!ExecuteOperationPTB("proposer", i - 1, Sui!Ops("schedule")[i]))
        BY <2>1, <2>3, <3>1, <3>2, SuiRoles
      <4>2. PICK id : id = <<Sui!SignedCalls(bound.batches[i]), Sui!OperationIDs[i - 1], bound.salt>>
        OBVIOUS
      <4>3. id \notin chain.done /\ SuiExecuted(c, "schedule", i, chain.pending \cup {id}, chain.ran)
        BY <2>2, <4>1, <4>2, SuiScheduleSent
      <4>4. id = Sui!OperationIDs[i]
        BY <4>2, SuiBatchID
      <4>. QED BY <1>1, <2>3, <3>2, <4>3, <4>4, SuiSentSchedule
    <3>3. CASE action = "cancel"
      <4>1. c \in Sui!RunAll(Sui!ExecuteOperationPTB("canceller", i - 1, Sui!Ops("cancel")[i]))
        BY <2>1, <2>3, <3>1, <3>3, SuiRoles
      <4>2. PICK id : SuiExecuted(c, "cancel", i, chain.pending \ {id}, chain.ran)
        BY <2>2, <4>1, SuiCancelSent
      <4>. QED BY <1>1, <2>3, <3>3, <4>2, SuiSentCancel
    <3>4. CASE action = "bypass"
      <4>1. c \in Sui!RunAll(Sui!ExecuteOperationPTB("bypasser", i - 1, Sui!Ops("bypass")[i]))
        BY <2>1, <2>3, <3>1, <3>4, SuiRoles
      <4>2. SuiExecuted(c, "bypass", i, chain.pending, chain.ran \o Sui!MeantCalls(i))
        BY <2>2, <4>1, SuiRanIsTyped, SuiBypassSent
      <4>. QED BY <1>1, <2>3, <3>4, <4>2, SuiSentBypass
    <3>. QED BY <3>2, <3>3, <3>4, SuiActions
  <2>6. CASE \E i \in DOMAIN bound.batches : client = Sui!ExecutePTB(i)
    <3>1. PICK i \in DOMAIN bound.batches : client = Sui!ExecutePTB(i)
      BY <2>6
    <3>2. PICK id : id = <<Sui!SignedCalls(bound.batches[i]), Sui!OperationIDs[i - 1], bound.salt>>
      OBVIOUS
    <3>3. /\ id \in chain.pending /\ Sui!OperationIDs[i - 1] \in chain.done \cup {<<>>}
          /\ c = [pending |-> chain.pending \ {id}, done |-> chain.done \cup {id},
                  ran |-> chain.ran \o Sui!MeantCalls(i), multisig |-> chain.multisig]
      <4>1. c \in Sui!RunAll(Sui!ExecutePTB(i))
        BY <2>1, <2>3, <3>1
      <4>. QED BY <2>2, <3>2, <4>1, SuiRanIsTyped, SuiExecuteSent
    <3>4. id = Sui!OperationIDs[i]
      BY <3>2, SuiBatchID
    <3>. QED BY <1>1, <2>3, <3>3, <3>4, SuiSentExecute
  <2>. QED BY <1>1, <2>2, <2>4, <2>5, <2>6 DEF SuiClient
<1>. QED BY <1>2, <1>3

LEMMA SuiNextKeepsOrder ==
    ASSUME SuiInstance, SuiOrder, bound' = bound, Sui!Next
    PROVE  SuiOrder'
<1>1. Sui!SendFails => SuiOrder'
  BY SuiStops DEF Sui!SendFails
<1>2. Sui!Send => SuiOrder'
  BY SuiSends
<1>. QED BY <1>1, <1>2, SuiCalls DEF Sui!Next

\* Each call of a batch is made on the state object that is meant for it, with the data
\* that was signed, in the batch's order, whether the batch went through the timelock or
\* past it: for all batches, upgrades among them, and all orders of calls and failures.
THEOREM SuiObjects == Spec => []SuiCallsGetTheirObjects
<1>1. Init => SuiInv
  BY SuiInit, SuiInstances DEF Init, SuiInv, Of
<1>2. SuiInv /\ [Next]_vars => SuiInv'
  <2>1. SUFFICES ASSUME SuiInv, [Next]_vars PROVE SuiInv'
    OBVIOUS
  <2>2. bound' = bound
    BY <2>1, InstanceIsKept DEF vars
  <2>3. SUFFICES ASSUME Of("sui") PROVE SuiOrder'
    BY <2>1, <2>2 DEF SuiInv, Of
  <2>4. SuiInstance /\ SuiOrder
    BY <2>1, <2>3, SuiInstances DEF SuiInv
  <2>5. CASE Next
    <3>1. Sui!Next
      BY <2>3, <2>5 DEF Next, Of
    <3>. QED BY <2>2, <2>4, <3>1, SuiNextKeepsOrder
  <2>6. CASE UNCHANGED vars
    <3>1. chain' = chain /\ client' = client
      BY <2>6 DEF vars
    <3>2. SuiClient'
      BY <2>2, <2>4, <3>1, SuiSameInstance DEF SuiOrder, SuiClient
    <3>. QED BY <2>2, <2>4, <3>1, <3>2, SuiBegins
  <2>. QED BY <2>1, <2>5, <2>6
<1>3. SuiInv => SuiCallsGetTheirObjects
  <2>1. SUFFICES ASSUME SuiOrder PROVE
          LET n == IF "bypass" \in Sui!Proposals THEN Sui!GetOpCount("bypasser") ELSE Cardinality(chain.done)
          IN  chain.ran = FlattenSeq([i \in 1..n |-> Sui!MeantCalls(i)])
    BY DEF SuiInv, SuiCallsGetTheirObjects
  <2>. QED BY <2>1 DEF SuiOrder, SuiProgress, SuiBypassed, SuiScheduled, Meant, Sui!GetOpCount
<1>. QED BY <1>1, <1>2, <1>3, PTL DEF Spec

=============================================================================
