---------------------- MODULE TimelockExecution_proofs ----------------------
(***************************************************************************)
(* Proofs about TimelockExecution, for any number of chains, proposals and *)
(* batches.  First what operation IDs are and depend on, then the          *)
(* invariants of the clients' objects, of the timelock and of the MCMs.    *)
(***************************************************************************)
EXTENDS TimelockExecution, Enumeration_proofs, SequenceTheorems

-----------------------------------------------------------------------------
(* Operation IDs *)

\* The batch before batch i on its chain.
LastBefore(m, i) == CHOOSE k \in Before(m, i) : \A j \in Before(m, i) : j <= k

\* The equation that defines the IDs, on the first n batches.
IDsUpTo(m, ids, n) ==
    ids = [i \in 1..n |-> HashOperationBatch(m.operations[i].calls, LastOpID(m, ids, i), Salt(m))]

\* An ID gives back what was hashed.
LEMMA HashParts ==
    ASSUME NEW calls, NEW predecessor, NEW salt
    PROVE  LET id == HashOperationBatch(calls, predecessor, salt)
           IN  id.calls = calls /\ id.predecessor = predecessor /\ id.salt = salt
BY DEF HashOperationBatch

LEMMA LastBeforeIsLast ==
    ASSUME NEW m, m.operations \in Seq(BatchOperation), NEW i \in DOMAIN m.operations,
           Before(m, i) # {}
    PROVE  /\ LastBefore(m, i) \in Before(m, i)
           /\ \A j \in Before(m, i) : j <= LastBefore(m, i)
<1> DEFINE B == Before(m, i)
           Above == {n \in Nat : \A j \in B : j <= n}
<1>1. i \in Nat /\ B \subseteq Nat /\ \A j \in B : j <= i
  BY DEF Before
<1>2. B # {}
  OBVIOUS
<1> HIDE DEF B
<1>3. i \in Above /\ Above \subseteq Nat
  BY <1>1
<1>4. PICK x \in Above : \A y \in Above : x <= y
  <2> HIDE DEF Above
  <2>. QED BY <1>3, LeastNatural
<1>5. x \in B
  <2> SUFFICES ASSUME x \notin B PROVE FALSE
    OBVIOUS
  <2>1. PICK j \in B : TRUE
    BY <1>2
  <2>2. x \in Nat /\ \A k \in B : k \in Nat /\ k <= x /\ k # x
    BY <1>1, <1>4
  <2>3. x - 1 \in Nat /\ \A k \in B : k <= x - 1
    BY <2>1, <2>2
  <2>4. x - 1 \in Above
    BY <2>3
  <2>. QED BY <1>4, <2>2, <2>4
<1>6. \E k \in B : \A j \in B : j <= k
  BY <1>4, <1>5
<1>. QED BY <1>6 DEF B, LastBefore

\* The ID of the batch before is all that a batch takes from the others.
LEMMA LastOpIDIsLocal ==
    ASSUME NEW m, m.operations \in Seq(BatchOperation), NEW i \in DOMAIN m.operations,
           NEW f, NEW g, \A k \in Before(m, i) : f[k] = g[k]
    PROVE  LastOpID(m, f, i) = LastOpID(m, g, i)
<1>1. CASE Before(m, i) = {}
  BY <1>1 DEF LastOpID
<1>2. CASE Before(m, i) # {}
  <2>1. LastBefore(m, i) \in Before(m, i)
    BY <1>2, LastBeforeIsLast
  <2>2. LastOpID(m, f, i) = f[LastBefore(m, i)] /\ LastOpID(m, g, i) = g[LastBefore(m, i)]
    BY <1>2 DEF LastOpID, LastBefore
  <2>. QED BY <2>1, <2>2
<1>. QED BY <1>1, <1>2

LEMMA IDsExist ==
    ASSUME NEW m, m.operations \in Seq(BatchOperation)
    PROVE  \E ids : IDsUpTo(m, ids, Len(m.operations))
<1> DEFINE L == Len(m.operations)
           Bad == {n \in Nat : n <= L /\ ~ \E ids : IDsUpTo(m, ids, n)}
<1>1. L \in Nat /\ DOMAIN m.operations = 1..L
  OBVIOUS
<1> SUFFICES ASSUME Bad # {} PROVE FALSE
  BY <1>1
<1>2. PICK n \in Bad : \A k \in Bad : n <= k
  <2>1. Bad \subseteq Nat
    OBVIOUS
  <2> HIDE DEF Bad
  <2>. QED BY <2>1, LeastNatural
<1>3. n \in Nat /\ n <= L /\ ~ \E ids : IDsUpTo(m, ids, n)
  BY <1>2
<1>4. CASE n = 0
  <2> DEFINE none == [i \in 1..0 |-> 0]
  <2>1. IDsUpTo(m, none, 0)
    BY DEF IDsUpTo
  <2>. QED BY <1>3, <1>4, <2>1
<1>5. CASE n # 0
  <2>1. n - 1 \in Nat /\ n - 1 <= L /\ n \in DOMAIN m.operations /\ ~(n <= n - 1)
    BY <1>1, <1>3, <1>5
  <2>2. PICK f : IDsUpTo(m, f, n - 1)
    BY <1>2, <2>1
  <2> DEFINE h(i, ids) == HashOperationBatch(m.operations[i].calls, LastOpID(m, ids, i), Salt(m))
             g == [i \in 1..n |-> IF i = n THEN h(n, f) ELSE f[i]]
  <2>3. \A i \in 1..n : \A k \in Before(m, i) : f[k] = g[k]
    BY <1>1, <1>3 DEF Before
  <2>4. \A i \in 1..n : i \in DOMAIN m.operations
    BY <1>1, <1>3
  <2> HIDE DEF g
  <2>5. \A i \in 1..n : LastOpID(m, f, i) = LastOpID(m, g, i)
    BY <2>3, <2>4, LastOpIDIsLocal
  <2>6. \A i \in 1..(n - 1) : f[i] = h(i, f)
    BY <2>2 DEF IDsUpTo
  <2>7. g = [i \in 1..n |-> h(i, f)]
    BY <1>3, <2>6 DEF g
  <2>8. \A i \in 1..n : h(i, f) = h(i, g)
    BY <2>5
  <2>9. g = [i \in 1..n |-> h(i, g)]
    <3> HIDE DEF h
    <3>. QED BY <2>7, <2>8
  <2>10. IDsUpTo(m, g, n)
    BY <2>9 DEF IDsUpTo
  <2>. QED BY <1>3, <2>10
<1>. QED BY <1>4, <1>5

\* The IDs satisfy the equation of calcOperationIDs, and the predecessors Convert
\* returns are those in the IDs.
LEMMA IDsByBatch ==
    ASSUME NEW m, m.operations \in Seq(BatchOperation)
    PROVE  /\ calcOperationIDs(m) =
                [i \in DOMAIN m.operations |->
                  HashOperationBatch(m.operations[i].calls, LastOpID(m, calcOperationIDs(m), i), Salt(m))]
           /\ ConvertPredecessors(m) =
                [i \in DOMAIN m.operations |-> LastOpID(m, calcOperationIDs(m), i)]
<1> DEFINE Equation(ids) == ids = [i \in DOMAIN m.operations |->
              HashOperationBatch(m.operations[i].calls, LastOpID(m, ids, i), Salt(m))]
<1>1. calcOperationIDs(m) = CHOOSE ids : Equation(ids)
  BY DEF calcOperationIDs
<1>2. ConvertPredecessors(m) = [i \in DOMAIN m.operations |-> LastOpID(m, CHOOSE ids : Equation(ids), i)]
  BY DEF ConvertPredecessors
<1>3. \E ids : Equation(ids)
  <2>1. DOMAIN m.operations = 1..Len(m.operations)
    OBVIOUS
  <2>. QED BY <2>1, IDsExist DEF IDsUpTo
<1>4. Equation(calcOperationIDs(m))
  <2> HIDE DEF Equation
  <2>. QED BY <1>1, <1>3
<1>. QED BY <1>1, <1>2, <1>4

\* IDs and predecessors depend on the batches and the salt only.
LEMMA SameBatchesSameIDs ==
    ASSUME NEW m, m.operations \in Seq(BatchOperation), NEW n,
           n.operations = m.operations, Salt(n) = Salt(m)
    PROVE  /\ calcOperationIDs(n) = calcOperationIDs(m)
           /\ ConvertPredecessors(n) = ConvertPredecessors(m)
<1> DEFINE f == calcOperationIDs(m)
           g == calcOperationIDs(n)
           D == DOMAIN m.operations
           Off == {i \in D : f[i] # g[i]}
<1>1. D \subseteq Nat
  OBVIOUS
<1>2. \A i, ids : LastOpID(n, ids, i) = LastOpID(m, ids, i)
  BY DEF LastOpID, Before
<1>3. f = [i \in D |-> HashOperationBatch(m.operations[i].calls, LastOpID(m, f, i), Salt(m))]
  BY IDsByBatch
<1>4. g = [i \in D |-> HashOperationBatch(m.operations[i].calls, LastOpID(m, g, i), Salt(m))]
  <2>1. n.operations \in Seq(BatchOperation)
    OBVIOUS
  <2>2. g = [i \in DOMAIN n.operations |->
                HashOperationBatch(n.operations[i].calls, LastOpID(n, g, i), Salt(n))]
    BY <2>1, IDsByBatch
  <2> HIDE DEF g
  <2>. QED BY <1>2, <2>2
<1> HIDE DEF f, g
<1>5. Off = {}
  <2> SUFFICES ASSUME Off # {} PROVE FALSE
    OBVIOUS
  <2>1. PICK i \in Off : \A k \in Off : i <= k
    <3>1. Off \subseteq Nat
      BY <1>1
    <3> HIDE DEF Off
    <3>. QED BY <3>1, LeastNatural
  <2>2. \A k \in Before(m, i) : f[k] = g[k]
    BY <1>1, <2>1 DEF Before
  <2>3. LastOpID(m, f, i) = LastOpID(m, g, i)
    BY <2>2, LastOpIDIsLocal
  <2>4. f[i] = g[i]
    BY <1>3, <1>4, <2>3
  <2>. QED BY <2>1, <2>4
<1>6. f = g
  BY <1>3, <1>4, <1>5
<1>7. ConvertPredecessors(n) = [i \in D |-> LastOpID(n, g, i)]
  BY IDsByBatch DEF g
<1>8. ConvertPredecessors(m) = [i \in D |-> LastOpID(m, f, i)]
  BY IDsByBatch DEF f
<1>. QED BY <1>2, <1>6, <1>7, <1>8 DEF f, g

\* Two batches of a proposal on one chain have different IDs: the predecessors tell
\* them apart, back to the first batch of the chain.
LEMMA IDsDiffer ==
    ASSUME NEW m, m.operations \in Seq(BatchOperation),
           \A i \in DOMAIN m.operations : calcOperationIDs(m)[i] # ZeroHash
    PROVE  \A i, j \in DOMAIN m.operations :
              /\ m.operations[i].chainSelector = m.operations[j].chainSelector
              /\ calcOperationIDs(m)[i] = calcOperationIDs(m)[j]
              => i = j
<1> DEFINE D == DOMAIN m.operations
           id == calcOperationIDs(m)
           Same(i, j) == m.operations[i].chainSelector = m.operations[j].chainSelector /\ id[i] = id[j]
           Bad == {i \in D : \E j \in D : i < j /\ Same(i, j)}
<1>1. D \subseteq Nat
  OBVIOUS
<1>2. Bad = {}
  <2> SUFFICES ASSUME Bad # {} PROVE FALSE
    OBVIOUS
  <2>1. PICK i \in Bad : \A k \in Bad : i <= k
    <3>1. Bad \subseteq Nat
      BY <1>1
    <3> HIDE DEF Bad
    <3>. QED BY <3>1, LeastNatural
  <2>2. PICK j \in D : i < j /\ Same(i, j)
    BY <2>1
  <2>3. i \in Before(m, j) /\ i \in D
    BY <2>1, <2>2 DEF Before
  <2>4. /\ LastBefore(m, j) \in Before(m, j) /\ i <= LastBefore(m, j)
        /\ LastOpID(m, id, j) = id[LastBefore(m, j)]
    BY <2>3, LastBeforeIsLast DEF LastOpID, LastBefore
  <2>5. LastOpID(m, id, i) = LastOpID(m, id, j)
    <3>1. id = [k \in D |-> HashOperationBatch(m.operations[k].calls, LastOpID(m, id, k), Salt(m))]
      BY IDsByBatch
    <3> HIDE DEF id, Bad
    <3>2. \A k \in D : id[k] = HashOperationBatch(m.operations[k].calls, LastOpID(m, id, k), Salt(m))
      BY <3>1
    <3>3. \A k \in D : id[k].predecessor = LastOpID(m, id, k)
      BY <3>2, HashParts
    <3>. QED BY <2>2, <2>3, <3>3
  <2>6. CASE Before(m, i) = {}
    <3>1. LastOpID(m, id, i) = ZeroHash
      BY <2>6 DEF LastOpID
    <3>2. LastBefore(m, j) \in D
      BY <2>4 DEF Before
    <3>. QED BY <2>4, <2>5, <3>1, <3>2
  <2>7. CASE Before(m, i) # {}
    <3> DEFINE b == LastBefore(m, i)
               e == LastBefore(m, j)
    <3>1. b \in Before(m, i) /\ LastOpID(m, id, i) = id[b]
      BY <2>3, <2>7, LastBeforeIsLast DEF LastOpID, LastBefore
    <3>2. b \in D /\ e \in D /\ b < i /\ i <= e
          /\ m.operations[b].chainSelector = m.operations[i].chainSelector
          /\ m.operations[e].chainSelector = m.operations[j].chainSelector
      BY <2>4, <3>1 DEF Before
    <3>3. b < e /\ Same(b, e)
      BY <1>1, <2>2, <2>3, <2>4, <2>5, <3>1, <3>2, SMTT(40)
    <3>4. b \in Bad
      BY <3>2, <3>3
    <3>5. i <= b /\ b \in Nat /\ i \in Nat
      <4> HIDE DEF Bad, b
      <4>. QED BY <1>1, <2>1, <2>3, <3>2, <3>4
    <3>. QED BY <3>2, <3>5
  <2>. QED BY <2>6, <2>7
<1>3. ASSUME NEW i \in D, NEW j \in D, Same(i, j), i # j
      PROVE  FALSE
  <2>1. i < j \/ j < i
    BY <1>1, <1>3
  <2>. QED BY <1>2, <1>3, <2>1
<1>. QED BY <1>3

-----------------------------------------------------------------------------
(* Batches of the schedule proposals: all versions have the same ones, and *)
(* each its own salt.                                                      *)

AnyVersion == UNION {Versions(p) : p \in ProposalId}
IDs(v) == calcOperationIDs(v)
BatchCalls(p, i) == InitProposal[p].operations[i].calls
Predecessor(v, i) == ConvertPredecessors(v)[i]

OperationID == UNION {{IDs(v)[i] : i \in DOMAIN v.operations} : v \in AnyVersion}

\* The call of the timelock that batch i of a version is converted to.
BatchCall(v, action, i) ==
    IF action = "schedule"
    THEN [method |-> "scheduleBatch", calls |-> v.operations[i].calls, predecessor |-> Predecessor(v, i),
          salt |-> Salt(v), delay |-> Seconds(v.delay)]
    ELSE IF action = "cancel"
    THEN [method |-> "cancel", id |-> IDs(v)[i]]
    ELSE [method |-> "bypasserExecuteBatch", calls |-> v.operations[i].calls]

ProposalType ==
    [action : {"schedule"}, validUntil : Nat, delay : Nat,
     saltOverride : Nat \cup {NoSalt}, operations : Seq(BatchOperation)]

\* Editing a version gives a version.
LEMMA EditedVersion ==
    ASSUME NEW p \in ProposalId, NEW v \in Versions(p)
    PROVE  /\ v \in ProposalType /\ v.operations = InitProposal[p].operations /\ v.delay = InitProposal[p].delay
           /\ \A e \in Edits[p] : Edited(v, e) \in Versions(p)
<1> DEFINE o == InitProposal[p]
<1>1. o \in ProposalType
  BY TimelockAssumption DEF ProposalType
<1>2. \A e \in Edits[p] : e.validUntil \in Nat /\ e.saltOverride \in Nat \cup {NoSalt}
  BY TimelockAssumption
<1>3. ASSUME NEW m \in ProposalType, NEW e \in Edits[p]
      PROVE  /\ Edited(m, e) \in ProposalType
             /\ Edited(m, e).operations = m.operations /\ Edited(m, e).delay = m.delay
  BY <1>2 DEF Edited, ProposalType
<1>4. ASSUME NEW m \in ProposalType, NEW d \in Edits[p], NEW e \in Edits[p]
      PROVE  Edited(Edited(m, d), e) = Edited(m, e)
  BY <1>2 DEF Edited, ProposalType
<1>5. CASE v = o
  BY <1>1, <1>5 DEF Versions
<1>6. ASSUME NEW d \in Edits[p], v = Edited(o, d)
      PROVE  /\ v \in ProposalType /\ v.operations = o.operations /\ v.delay = o.delay
             /\ \A e \in Edits[p] : Edited(v, e) \in Versions(p)
  <2>1. \A e \in Edits[p] : Edited(v, e) = Edited(o, e)
    BY <1>1, <1>4, <1>6
  <2>. QED BY <1>1, <1>3, <1>6, <2>1 DEF Versions
<1>. QED BY <1>5, <1>6 DEF Versions

LEMMA ScheduleProposals ==
    ASSUME NEW p \in ProposalId, NEW v \in Versions(p)
    PROVE  /\ v \in ProposalType /\ v \in AnyVersion
           /\ v.action = "schedule" /\ v.operations \in Seq(BatchOperation)
           /\ v.validUntil \in Nat /\ v.delay = InitProposal[p].delay /\ v.delay \in Nat
           /\ Salt(v) \in Nat /\ Salt(v) # NoSalt
           /\ v.operations = InitProposal[p].operations /\ DOMAIN v.operations = Batches(p)
           /\ Batches(p) \subseteq Nat /\ IsFiniteSet(Batches(p))
           /\ \A i \in Batches(p) : /\ ChainOf(p, i) \in Chain /\ BatchCalls(p, i) \in Calls
                                    /\ v.operations[i].chainSelector = ChainOf(p, i)
                                    /\ v.operations[i].calls = BatchCalls(p, i)
<1>1. v \in ProposalType /\ v.operations = InitProposal[p].operations /\ v.delay = InitProposal[p].delay
  BY EditedVersion
<1>2. v.saltOverride \in Nat \cup {NoSalt} /\ v.validUntil \in Nat /\ NoSalt \notin Nat
  BY <1>1, TimelockAssumption DEF ProposalType
<1>3. Salt(v) \in Nat /\ Salt(v) # NoSalt
  BY <1>2 DEF Salt
<1>4. v.operations \in Seq(BatchOperation) /\ v.action = "schedule" /\ v.delay \in Nat
  BY <1>1 DEF ProposalType
<1>5. Batches(p) = 1..Len(v.operations) /\ Len(v.operations) \in Nat
  BY <1>1, <1>4 DEF Batches
<1>6. \A i \in Batches(p) : v.operations[i] \in BatchOperation
  BY <1>4, <1>5
<1>7. IsFiniteSet(Batches(p))
  BY <1>5, FS_Interval
<1>8. \A i \in Batches(p) : /\ ChainOf(p, i) \in Chain /\ BatchCalls(p, i) \in Calls
                            /\ v.operations[i].chainSelector = ChainOf(p, i)
                            /\ v.operations[i].calls = BatchCalls(p, i)
  BY <1>1, <1>6 DEF BatchOperation, ChainOf, BatchCalls
<1>9. v \in AnyVersion
  BY DEF AnyVersion
<1>10. DOMAIN v.operations = Batches(p) /\ Batches(p) \subseteq Nat
  BY <1>4, <1>5
<1>. QED BY <1>1, <1>2, <1>3, <1>4, <1>7, <1>8, <1>9, <1>10

LEMMA FirstVersion ==
    ASSUME NEW p \in ProposalId
    PROVE  InitProposal[p] \in Versions(p)
BY DEF Versions

\* The ID of a batch is the hash of its calls, its predecessor, which is the ID of
\* the batch before it, and the salt.
LEMMA BatchIDs ==
    ASSUME NEW p \in ProposalId, NEW v \in Versions(p), NEW i \in Batches(p)
    PROVE  /\ IDs(v)[i] = HashOperationBatch(BatchCalls(p, i), Predecessor(v, i), Salt(v))
           /\ IDs(v)[i].calls = BatchCalls(p, i)
           /\ IDs(v)[i].predecessor = Predecessor(v, i)
           /\ IDs(v)[i].salt = Salt(v)
           /\ IDs(v)[i] # ZeroHash
           /\ IDs(v)[i] \in OperationID
           /\ Predecessor(v, i) = IF Before(v, i) = {} THEN ZeroHash ELSE IDs(v)[LastBefore(v, i)]
           /\ Before(v, i) # {} => LastBefore(v, i) \in Before(v, i) /\ LastBefore(v, i) \in Batches(p)
           /\ DOMAIN IDs(v) = Batches(p)
<1> DEFINE ids == calcOperationIDs(v)
<1>1. v.operations \in Seq(BatchOperation) /\ DOMAIN v.operations = Batches(p) /\ v \in AnyVersion
      /\ v.operations[i].calls = BatchCalls(p, i)
  BY ScheduleProposals
<1>2. /\ ids = [k \in Batches(p) |-> HashOperationBatch(v.operations[k].calls, LastOpID(v, ids, k), Salt(v))]
      /\ ConvertPredecessors(v) = [k \in Batches(p) |-> LastOpID(v, ids, k)]
  BY <1>1, IDsByBatch
<1>3. ids[i] # ZeroHash
  BY <1>1, TimelockAssumption
<1>4. IDs(v) = ids
  BY DEF IDs
<1> HIDE DEF ids
<1>5. Predecessor(v, i) = LastOpID(v, ids, i) /\ DOMAIN ids = Batches(p)
      /\ ids[i] = HashOperationBatch(v.operations[i].calls, LastOpID(v, ids, i), Salt(v))
  BY <1>2 DEF Predecessor
<1>6. LastOpID(v, ids, i) = IF Before(v, i) = {} THEN ZeroHash ELSE ids[LastBefore(v, i)]
  BY DEF LastOpID, LastBefore
<1>7. ids[i] = HashOperationBatch(BatchCalls(p, i), Predecessor(v, i), Salt(v))
  BY <1>1, <1>5
<1>8. ids[i].predecessor = Predecessor(v, i) /\ ids[i].salt = Salt(v) /\ ids[i].calls = BatchCalls(p, i)
  BY <1>7, HashParts
<1>9. ids[i] \in OperationID
  BY <1>1, <1>4 DEF OperationID
<1>10. Before(v, i) # {} => LastBefore(v, i) \in Before(v, i) /\ LastBefore(v, i) \in Batches(p)
  BY <1>1, LastBeforeIsLast DEF Before
<1>. QED BY <1>3, <1>4, <1>5, <1>6, <1>7, <1>8, <1>9, <1>10

\* Two batches of a version on one chain differ.
LEMMA BatchIDsDiffer ==
    ASSUME NEW p \in ProposalId, NEW v \in Versions(p), NEW i \in Batches(p), NEW j \in Batches(p),
           ChainOf(p, i) = ChainOf(p, j), IDs(v)[i] = IDs(v)[j]
    PROVE  i = j
<1>1. v.operations \in Seq(BatchOperation) /\ DOMAIN v.operations = Batches(p)
      /\ v.operations[i].chainSelector = v.operations[j].chainSelector
  BY ScheduleProposals
<1>2. \A k \in DOMAIN v.operations : calcOperationIDs(v)[k] # ZeroHash
  BY TimelockAssumption
<1>3. \A k, l \in DOMAIN v.operations :
        v.operations[k].chainSelector = v.operations[l].chainSelector
        /\ calcOperationIDs(v)[k] = calcOperationIDs(v)[l] => k = l
  BY <1>1, <1>2, IDsDiffer
<1>. QED BY <1>1, <1>3 DEF IDs

\* The predecessor in an ID is no ID, or has the same salt.
LEMMA PredecessorSalt ==
    ASSUME NEW id \in OperationID
    PROVE  id.predecessor = ZeroHash \/ id.predecessor.salt = id.salt
<1>1. PICK v \in AnyVersion : \E i \in DOMAIN v.operations : id = IDs(v)[i]
  BY DEF OperationID
<1>2. PICK i \in DOMAIN v.operations : id = IDs(v)[i]
  BY <1>1
<1>3. PICK p \in ProposalId : v \in Versions(p)
  BY DEF AnyVersion
<1>4. i \in Batches(p)
  BY <1>3, ScheduleProposals
<1>5. /\ id.predecessor = Predecessor(v, i) /\ id.salt = Salt(v)
      /\ Predecessor(v, i) = IF Before(v, i) = {} THEN ZeroHash ELSE IDs(v)[LastBefore(v, i)]
      /\ Before(v, i) # {} => LastBefore(v, i) \in Batches(p)
  BY <1>2, <1>3, <1>4, BatchIDs
<1>6. Before(v, i) # {} => IDs(v)[LastBefore(v, i)].salt = Salt(v)
  BY <1>3, <1>5, BatchIDs
<1>. QED BY <1>5, <1>6

-----------------------------------------------------------------------------
(* The clients' objects: whatever is edited, derived and converted, when   *)
(* and in which order, each object is made from one version of its         *)
(* schedule proposal: it has its batches and its salt.                     *)

IsEditionOf(m, v, action) ==
    m.action = action /\ m.operations = v.operations /\ m.delay = v.delay /\ Salt(m) = Salt(v)

IsConversionOf(m, v, q) ==
    /\ m.operations = [i \in Batches(q[1]) |->
          [chainSelector |-> ChainOf(q[1], i), transaction |-> BatchCall(v, q[2], i)]]
    /\ m.chainMetadata \in [Chains(InitProposal[q[1]]) -> Role]

\* The version that was converted.
VersionOf(q) == CHOOSE v \in Versions(q[1]) : IsConversionOf(converted[q], v, q)

ObjectInv ==
    /\ DOMAIN proposals = Key
    /\ \A p \in ProposalId : proposals[<<p, "schedule">>] \in Versions(p)
    /\ \A q \in Key : Exists(q) => \E v \in Versions(q[1]) : IsEditionOf(proposals[q], v, q[2])
    /\ DOMAIN chainMetadata = ProposalId
    /\ \A p \in ProposalId : chainMetadata[p] \in [Chains(InitProposal[p]) -> Role]
    /\ DOMAIN converted = Key
    /\ \A q \in Key : Converted(q) => \E v \in Versions(q[1]) : IsConversionOf(converted[q], v, q)
    /\ DOMAIN executables = ProposalId
    /\ \A p \in ProposalId : executables[p] # NoExecutable =>
         \E v \in Versions(p) : executables[p] = TimelockExecutable(ConvertPredecessors(v), v)

LEMMA ConvertedFrom ==
    ASSUME ObjectInv, NEW q \in Key, Converted(q)
    PROVE  VersionOf(q) \in Versions(q[1]) /\ IsConversionOf(converted[q], VersionOf(q), q)
<1>1. \E v \in Versions(q[1]) : IsConversionOf(converted[q], v, q)
  BY DEF ObjectInv
<1> HIDE DEF IsConversionOf
<1>. QED BY <1>1 DEF VersionOf

\* A conversion stays, and stays that of the same version.
LEMMA ConversionStays ==
    ASSUME ObjectInv, NEW q \in Key, Converted(q), [Next]_vars
    PROVE  Converted(q)' /\ converted'[q] = converted[q] /\ VersionOf(q)' = VersionOf(q)
<1>1. converted'[q] = converted[q]
  <2>1. ASSUME NEW r \in Key, ConvertProposal(r)
        PROVE  converted'[q] = converted[q]
    BY <2>1 DEF ConvertProposal, ObjectInv
  <2>2. CASE UNCHANGED converted
    BY <2>2
  <2>. QED BY <2>1, <2>2 DEF Next, vars, objectVars, Derive, DeriveFails, SetRoot, ExecuteNext, Edit,
                             NewTimelockExecutable, Execute, Tick
<1>. QED BY <1>1 DEF Converted, VersionOf, IsConversionOf

LEMMA DerivedVersion ==
    ASSUME NEW p \in ProposalId, NEW v \in Versions(p), NEW action \in Action, now \in Nat
    PROVE  IsEditionOf(deriveNewProposal(v, action), v, action)
<1> DEFINE d == deriveNewProposal(v, action)
<1>1. v \in ProposalType /\ Salt(v) # NoSalt
  BY ScheduleProposals
<1>2. d.action = action /\ d.operations = v.operations /\ d.delay = v.delay /\ d.saltOverride = Salt(v)
  BY <1>1 DEF deriveNewProposal, ProposalType
<1>3. Salt(d) = Salt(v)
  BY <1>1, <1>2 DEF Salt
<1>. QED BY <1>2, <1>3 DEF IsEditionOf

LEMMA ConvertedVersion ==
    ASSUME NEW q \in Key, NEW m, NEW v \in Versions(q[1]), IsEditionOf(m, v, q[2]),
           NEW metadata \in [Chains(InitProposal[q[1]]) -> Role]
    PROVE  IsConversionOf(Convert(m, metadata), v, q)
<1> DEFINE p == q[1]
<1>1. p \in ProposalId /\ q[2] \in Action
  BY DEF Key
<1>2. v.operations \in Seq(BatchOperation) /\ DOMAIN v.operations = Batches(p)
      /\ \A i \in Batches(p) : v.operations[i].chainSelector = ChainOf(p, i) /\ v.operations[i].calls = BatchCalls(p, i)
  BY <1>1, ScheduleProposals
<1>3. m.operations = v.operations /\ m.delay = v.delay /\ Salt(m) = Salt(v) /\ m.action = q[2]
  BY DEF IsEditionOf
<1>4. ConvertPredecessors(m) = ConvertPredecessors(v)
  BY <1>2, <1>3, SameBatchesSameIDs
<1>5. ASSUME NEW i \in Batches(p)
      PROVE  TimelockCall(m, m.operations[i].calls, ConvertPredecessors(m)[i]) = BatchCall(v, q[2], i)
  <2>1. m.operations[i].calls = BatchCalls(p, i) /\ v.operations[i].calls = BatchCalls(p, i)
        /\ ConvertPredecessors(m)[i] = Predecessor(v, i)
    BY <1>2, <1>3, <1>4 DEF Predecessor
  <2>2. IDs(v)[i] = HashOperationBatch(BatchCalls(p, i), Predecessor(v, i), Salt(m))
    BY <1>1, <1>3, BatchIDs
  <2>3. CASE q[2] = "schedule"
    BY <1>3, <2>1, <2>3 DEF TimelockCall, BatchCall
  <2>4. CASE q[2] = "cancel"
    BY <1>3, <2>1, <2>2, <2>4 DEF TimelockCall, BatchCall
  <2>5. CASE q[2] = "bypass"
    BY <1>3, <2>1, <2>5 DEF TimelockCall, BatchCall
  <2>. QED BY <1>1, <2>3, <2>4, <2>5 DEF Action
<1>6. \A i \in Batches(p) : m.operations[i].chainSelector = ChainOf(p, i)
  BY <1>2, <1>3
<1>7. DOMAIN m.operations = Batches(p)
  BY <1>2, <1>3
<1>. QED BY <1>5, <1>6, <1>7 DEF Convert, IsConversionOf

LEMMA ObjectInit == Init => ObjectInv
<1> SUFFICES ASSUME Init PROVE ObjectInv
  OBVIOUS
<1>1. \A p \in ProposalId : <<p, "schedule">> \in Key
  BY DEF Key, Action
<1>2. \A q \in Key : Exists(q) => \E v \in Versions(q[1]) : IsEditionOf(proposals[q], v, q[2])
  <2> SUFFICES ASSUME NEW q \in Key, Exists(q) PROVE \E v \in Versions(q[1]) : IsEditionOf(proposals[q], v, q[2])
    OBVIOUS
  <2>1. q[2] = "schedule" /\ proposals[q] = InitProposal[q[1]] /\ q[1] \in ProposalId
    BY DEF Init, Exists, Key
  <2>2. InitProposal[q[1]] \in Versions(q[1]) /\ InitProposal[q[1]].action = "schedule"
    BY <2>1, FirstVersion, ScheduleProposals
  <2>. QED BY <2>1, <2>2 DEF IsEditionOf
<1>3. \A p \in ProposalId : proposals[<<p, "schedule">>] \in Versions(p)
  BY <1>1, FirstVersion DEF Init
<1>4. \A p \in ProposalId : chainMetadata[p] \in [Chains(InitProposal[p]) -> Role]
  BY DEF Init, Role
<1>. QED BY <1>2, <1>3, <1>4 DEF Init, ObjectInv, Converted

LEMMA ObjectStep ==
    ASSUME ObjectInv, now \in Nat, [Next]_vars
    PROVE  ObjectInv'
<1> USE DEF ObjectInv, Exists, Converted
<1>a. ASSUME NEW p \in ProposalId, NEW e \in Edits[p], Edit(p, e)
      PROVE  ObjectInv'
  <2>1. <<p, "schedule">> \in Key
    BY DEF Key, Action
  <2>2. /\ proposals'[<<p, "schedule">>] = Edited(proposals[<<p, "schedule">>], e)
        /\ \A q \in Key : q # <<p, "schedule">> => proposals'[q] = proposals[q]
        /\ DOMAIN proposals' = Key
    BY <1>a, <2>1 DEF Edit
  <2>3. proposals'[<<p, "schedule">>] \in Versions(p)
    BY <2>2, EditedVersion
  <2>4. IsEditionOf(proposals'[<<p, "schedule">>], proposals'[<<p, "schedule">>], "schedule")
    BY <2>3, ScheduleProposals DEF IsEditionOf
  <2>5. \A r \in ProposalId : <<r, "schedule">> \in Key /\ (r # p => <<r, "schedule">> # <<p, "schedule">>)
    BY DEF Key, Action
  <2>6. \A r \in ProposalId : proposals'[<<r, "schedule">>] \in Versions(r)
    BY <2>2, <2>3, <2>5
  <2>7. ASSUME NEW q \in Key, Exists(q)'
        PROVE  \E v \in Versions(q[1]) : IsEditionOf(proposals'[q], v, q[2])
    <3>1. CASE q = <<p, "schedule">>
      BY <2>3, <2>4, <3>1
    <3>2. CASE q # <<p, "schedule">>
      BY <2>2, <2>7, <3>2
    <3>. QED BY <3>1, <3>2
  <2>8. chainMetadata' = chainMetadata /\ converted' = converted /\ executables' = executables
    BY <1>a DEF Edit
  <2>9. \A q \in Key : Converted(q)' => \E v \in Versions(q[1]) : IsConversionOf(converted'[q], v, q)
    BY <2>8
  <2>10. \A q \in Key : Exists(q)' => \E v \in Versions(q[1]) : IsEditionOf(proposals'[q], v, q[2])
    BY <2>7
  <2>11. DOMAIN proposals' = Key
    BY <2>2
  <2> HIDE DEF Exists, Converted
  <2>. QED BY <2>6, <2>8, <2>9, <2>10, <2>11
<1>1. ASSUME NEW d \in Derivations, Derive(d[1], d[2])
      PROVE  ObjectInv'
  <2> DEFINE p == d[1]
             action == d[2]
             m == proposals[<<p, "schedule">>]
  <2>1. p \in ProposalId /\ action \in {"cancel", "bypass"} /\ action \in Action /\ <<p, action>> \in Key
    BY TimelockAssumption DEF Key, Action
  <2>2. proposals'[<<p, action>>] = deriveNewProposal(m, action)
        /\ \A q \in Key : q # <<p, action>> => proposals'[q] = proposals[q]
    BY <1>1, <2>1 DEF Derive
  <2>3. m \in Versions(p) /\ IsEditionOf(proposals'[<<p, action>>], m, action)
    BY <2>1, <2>2, DerivedVersion
  <2>4. \A r \in ProposalId : <<r, "schedule">> # <<p, action>> /\ <<r, "schedule">> \in Key
    BY <2>1 DEF Key, Action
  <2>5. RoleFor(action) \in Role
    BY <2>1 DEF RoleFor, Role
  <2>6. \A r \in ProposalId : chainMetadata'[r] \in [Chains(InitProposal[r]) -> Role]
    BY <1>1, <2>1, <2>5 DEF Derive
  <2>7. UNCHANGED <<converted, executables>> /\ DOMAIN proposals' = Key /\ DOMAIN chainMetadata' = ProposalId
    BY <1>1 DEF Derive
  <2>8. ASSUME NEW q \in Key, Exists(q)'
        PROVE  \E v \in Versions(q[1]) : IsEditionOf(proposals'[q], v, q[2])
    <3>1. CASE q = <<p, action>>
      BY <2>3, <3>1
    <3>2. CASE q # <<p, action>>
      BY <2>2, <2>8, <3>2
    <3>. QED BY <3>1, <3>2
  <2>. QED BY <2>2, <2>4, <2>6, <2>7, <2>8
<1>2. ASSUME NEW d \in Derivations, DeriveFails(d[1], d[2])
      PROVE  ObjectInv'
  <2>1. d[1] \in ProposalId /\ d[2] \in {"cancel", "bypass"}
    BY TimelockAssumption
  <2>2. RoleFor(d[2]) \in Role
    BY <2>1 DEF RoleFor, Role
  <2>3. \A r \in ProposalId : chainMetadata'[r] \in [Chains(InitProposal[r]) -> Role]
    BY <1>2, <2>1, <2>2 DEF DeriveFails
  <2>. QED BY <1>2, <2>3 DEF DeriveFails
<1>3. ASSUME NEW q \in Key, ConvertProposal(q)
      PROVE  ObjectInv'
  <2>1. q[1] \in ProposalId
    BY DEF Key
  <2>2. PICK v \in Versions(q[1]) : IsEditionOf(proposals[q], v, q[2])
    BY <1>3 DEF ConvertProposal
  <2>3. chainMetadata[q[1]] \in [Chains(InitProposal[q[1]]) -> Role]
    BY <2>1
  <2>4. IsConversionOf(converted'[q], v, q)
    BY <1>3, <2>2, <2>3, ConvertedVersion DEF ConvertProposal
  <2>5. \A r \in Key : r # q => converted'[r] = converted[r]
    BY <1>3 DEF ConvertProposal
  <2>6. DOMAIN converted' = Key /\ UNCHANGED <<proposals, chainMetadata, executables>>
    BY <1>3 DEF ConvertProposal
  <2>. QED BY <2>4, <2>5, <2>6
<1>4. ASSUME NEW p \in ProposalId, NewTimelockExecutable(p)
      PROVE  ObjectInv'
  <2>1. executables' = [executables EXCEPT ![p] =
            TimelockExecutable(ConvertPredecessors(proposals[<<p, "schedule">>]), proposals[<<p, "schedule">>])]
        /\ UNCHANGED <<proposals, chainMetadata, converted>>
    BY <1>4 DEF NewTimelockExecutable, objectVars
  <2>2. \A r \in ProposalId : executables'[r] # NoExecutable =>
          \E v \in Versions(r) : executables'[r] = TimelockExecutable(ConvertPredecessors(v), v)
    BY <2>1
  <2>. QED BY <2>1, <2>2
<1>5. CASE UNCHANGED <<objectVars, executables>>
  BY <1>5 DEF objectVars
<1>6. ASSUME NEW q \in Key, NEW c \in Chain, SetRoot(q, c)
      PROVE  ObjectInv'
  BY <1>5, <1>6 DEF SetRoot
<1>7. ASSUME NEW m \in MCM, ExecuteNext(m)
      PROVE  ObjectInv'
  BY <1>5, <1>7 DEF ExecuteNext
<1>8. ASSUME NEW p \in ProposalId, NEW i \in Batches(p), Execute(p, i)
      PROVE  ObjectInv'
  BY <1>5, <1>8 DEF Execute
<1>9. CASE Tick
  BY <1>5, <1>9 DEF Tick
<1>10. CASE UNCHANGED vars
  BY <1>5, <1>10 DEF vars
<1>. QED BY <1>a, <1>1, <1>2, <1>3, <1>4, <1>6, <1>7, <1>8, <1>9, <1>10 DEF Next, Batches

-----------------------------------------------------------------------------
(* The MCMs: every queued operation is a batch of an approved proposal, on *)
(* its chain.                                                              *)

Event == [event : {"schedule", "cancel", "execute"}, id : OperationID, at : Nat]

TimelockType ==
    /\ now \in Nat
    /\ pending \in [Chain -> SUBSET [id : OperationID, readyAt : Nat]]
    /\ doneOps \in [Chain -> SUBSET OperationID]
    /\ log \in [Chain -> Seq(Event)]

AnyCall == UNION {{BatchCall(v, action, i) : action \in Action, i \in Nat} : v \in AnyVersion}

\* Transaction t is batch i, on chain c, of proposal q converted from version v.
IsBatchOf(t, v, q, i, c) ==
    i \in Batches(q[1]) /\ ChainOf(q[1], i) = c /\ t = BatchCall(v, q[2], i)

QueueInv ==
    /\ approved \subseteq Key \X Chain
    /\ \A q \in Key, c \in Chain : <<q, c>> \in approved => Converted(q)
    /\ queue \in [MCM -> Seq(AnyCall)]
    /\ \A m \in MCM : \A k \in DOMAIN queue[m] :
         \E q \in Key : <<q, m[1]>> \in approved /\ \E i \in Nat : IsBatchOf(queue[m][k], VersionOf(q), q, i, m[1])

\* What a call that does not revert does to the timelock of chain c.
ScheduleStep(c, id, delay) ==
    /\ ~IsOperationPending(c, id) /\ ~IsOperationDone(c, id)
    /\ pending' = [pending EXCEPT ![c] = @ \cup {[id |-> id, readyAt |-> now + delay]}]
    /\ Logged(c, "schedule", id) /\ UNCHANGED <<doneOps, now>>

CancelStep(c, id) ==
    /\ IsOperationPending(c, id)
    /\ pending' = [pending EXCEPT ![c] = {o \in @ : o.id # id}]
    /\ Logged(c, "cancel", id) /\ UNCHANGED <<doneOps, now>>

ExecuteStep(c, id) ==
    /\ IsOperationReady(c, id)
    /\ id.predecessor = ZeroHash \/ IsOperationDone(c, id.predecessor)
    /\ pending' = [pending EXCEPT ![c] = {o \in @ : o.id # id}]
    /\ doneOps' = [doneOps EXCEPT ![c] = @ \cup {id}]
    /\ Logged(c, "execute", id) /\ UNCHANGED now

\* What an MCM makes the timelock do for batch i of proposal q.
CallStep(q, i, c) ==
    \/ q[2] = "schedule" /\ ScheduleStep(c, IDs(VersionOf(q))[i], Seconds(InitProposal[q[1]].delay))
    \/ q[2] = "cancel" /\ CancelStep(c, IDs(VersionOf(q))[i])
    \/ q[2] = "bypass" /\ UNCHANGED <<timelockVars, now>>

\* Sequence ts has the batches of proposal q for chain c, each once.
IsBacklogOf(ts, v, q, c) ==
    \E order \in [DOMAIN ts -> Batches(q[1])] :
        /\ \A k \in DOMAIN order : IsBatchOf(ts[k], v, q, order[k], c)
        /\ \A j, k \in DOMAIN order : order[j] = order[k] => j = k
        /\ \A i \in Batches(q[1]) : ChainOf(q[1], i) = c => \E k \in DOMAIN order : order[k] = i

\* TransactionsOn lists the batches for the chain.
LEMMA TransactionsInOrder ==
    ASSUME ObjectInv, NEW q \in Key, Converted(q), NEW c \in Chain
    PROVE  /\ TransactionsOn(converted[q], c) \in Seq(AnyCall)
           /\ IsBacklogOf(TransactionsOn(converted[q], c), VersionOf(q), q, c)
<1> DEFINE m == converted[q]
           p == q[1]
           v == VersionOf(q)
           S == {i \in DOMAIN m.operations : m.operations[i].chainSelector = c}
           order == Ascending(S)
           n == Cardinality(S)
<1>1. p \in ProposalId
  BY DEF Key
<1>2. Batches(p) \subseteq Nat /\ IsFiniteSet(Batches(p)) /\ v \in AnyVersion
  BY <1>1, ConvertedFrom, ScheduleProposals
<1>3. m.operations = [i \in Batches(p) |->
          [chainSelector |-> ChainOf(p, i), transaction |-> BatchCall(v, q[2], i)]]
  BY ConvertedFrom DEF IsConversionOf
<1>4. S = {i \in Batches(p) : ChainOf(p, i) = c}
  BY <1>3
<1>5. S \subseteq Nat /\ IsFiniteSet(S) /\ S \subseteq Batches(p)
  BY <1>2, <1>4, FS_Subset
<1>6. /\ order \in [1..n -> S]
      /\ \A k \in 1..n : Rank(S, order[k]) = k - 1
      /\ \A i \in S : Rank(S, i) + 1 \in 1..n /\ order[Rank(S, i) + 1] = i
  <2> HIDE DEF S
  <2>. QED BY <1>5, AscendingByRank
<1>7. n \in Nat
  BY <1>5, FS_CardinalityType
<1>8. TransactionsOn(m, c) = [k \in DOMAIN order |-> m.operations[order[k]].transaction]
  BY DEF TransactionsOn
<1> HIDE DEF order, n, S, m, v
<1>9. TransactionsOn(m, c) = [k \in 1..n |-> BatchCall(v, q[2], order[k])]
  <2>1. DOMAIN order = 1..n /\ \A k \in 1..n : order[k] \in Batches(p)
    BY <1>5, <1>6
  <2>2. \A i \in Batches(p) : m.operations[i].transaction = BatchCall(v, q[2], i)
    BY <1>3
  <2>. QED BY <1>8, <2>1, <2>2
<1>10. \A k \in 1..n : order[k] \in Nat /\ BatchCall(v, q[2], order[k]) \in AnyCall
  BY <1>2, <1>5, <1>6 DEF AnyCall, Key
<1>11. TransactionsOn(m, c) \in Seq(AnyCall)
  BY <1>7, <1>9, <1>10
<1>12. \A k \in 1..n : IsBatchOf(TransactionsOn(m, c)[k], VersionOf(q), q, order[k], c)
  BY <1>4, <1>6, <1>9 DEF IsBatchOf, v
<1>13. \A j, k \in 1..n : order[j] = order[k] => j = k
  BY <1>6
<1>14. \A i \in Batches(p) : ChainOf(p, i) = c => \E k \in 1..n : order[k] = i
  BY <1>4, <1>6
<1>15. order \in [1..n -> Batches(p)] /\ DOMAIN order = 1..n /\ DOMAIN TransactionsOn(m, c) = 1..n
  BY <1>5, <1>6, <1>9
<1>. QED BY <1>11, <1>12, <1>13, <1>14, <1>15 DEF IsBacklogOf, m

LEMMA ExecuteNextCalls ==
    ASSUME ObjectInv, QueueInv, NEW m \in MCM, ExecuteNext(m)
    PROVE  /\ queue[m] # <<>> /\ queue' = [queue EXCEPT ![m] = Tail(@)]
           /\ \E q \in Key : \E i \in Nat :
                /\ <<q, m[1]>> \in approved
                /\ IsBatchOf(Head(queue[m]), VersionOf(q), q, i, m[1])
                /\ CallStep(q, i, m[1])
<1> DEFINE t == Head(queue[m])
<1>1. queue[m] # <<>> /\ queue' = [queue EXCEPT ![m] = Tail(@)] /\ now' = now
  BY DEF ExecuteNext
<1>2. 1 \in DOMAIN queue[m] /\ t = queue[m][1]
  BY <1>1 DEF QueueInv
<1>3. PICK q \in Key : <<q, m[1]>> \in approved /\ \E i \in Nat : IsBatchOf(t, VersionOf(q), q, i, m[1])
  BY <1>2 DEF QueueInv
<1>4. PICK i \in Nat : IsBatchOf(t, VersionOf(q), q, i, m[1])
  BY <1>3
<1> DEFINE v == VersionOf(q)
<1>5. q[1] \in ProposalId /\ q[2] \in Action /\ i \in Batches(q[1]) /\ t = BatchCall(v, q[2], i)
  BY <1>4 DEF Key, IsBatchOf
<1>a. v \in Versions(q[1])
  BY <1>3, ConvertedFrom DEF QueueInv
<1>6. /\ IDs(v)[i] = HashOperationBatch(BatchCalls(q[1], i), Predecessor(v, i), Salt(v))
      /\ v.operations[i].calls = BatchCalls(q[1], i) /\ v.delay = InitProposal[q[1]].delay
  BY <1>5, <1>a, BatchIDs, ScheduleProposals
<1>7. \/ t.method = "scheduleBatch" /\ scheduleBatch(m[1], m[2], t)
      \/ t.method = "cancel" /\ cancel(m[1], m[2], t)
      \/ t.method = "bypasserExecuteBatch" /\ bypasserExecuteBatch(m[1], m[2])
  BY DEF ExecuteNext
<1> HIDE DEF t, v
<1>8. CASE q[2] = "schedule"
  <2>1. /\ t.method = "scheduleBatch"
        /\ t.calls = BatchCalls(q[1], i) /\ t.predecessor = Predecessor(v, i)
        /\ t.salt = Salt(v) /\ t.delay = Seconds(InitProposal[q[1]].delay)
    BY <1>5, <1>6, <1>8 DEF BatchCall
  <2>2. HashOperationBatch(t.calls, t.predecessor, t.salt) = IDs(v)[i]
    BY <1>6, <2>1
  <2>3. scheduleBatch(m[1], m[2], t)
    BY <1>7, <2>1
  <2>4. ScheduleStep(m[1], IDs(v)[i], Seconds(InitProposal[q[1]].delay))
    BY <1>1, <2>1, <2>2, <2>3 DEF scheduleBatch, ScheduleStep
  <2>. QED BY <1>1, <1>3, <1>4, <1>8, <2>4 DEF CallStep, t, v
<1>9. CASE q[2] = "cancel"
  <2>1. t.method = "cancel" /\ t.id = IDs(v)[i]
    BY <1>5, <1>9 DEF BatchCall
  <2>2. cancel(m[1], m[2], t)
    BY <1>7, <2>1
  <2>3. CancelStep(m[1], IDs(v)[i])
    BY <1>1, <2>1, <2>2 DEF cancel, CancelStep
  <2>. QED BY <1>1, <1>3, <1>4, <1>9, <2>3 DEF CallStep, t, v
<1>10. CASE q[2] = "bypass"
  <2>1. t.method = "bypasserExecuteBatch"
    BY <1>5, <1>10 DEF BatchCall
  <2>2. bypasserExecuteBatch(m[1], m[2])
    BY <1>7, <2>1
  <2>3. UNCHANGED <<timelockVars, now>>
    BY <1>1, <2>2 DEF bypasserExecuteBatch
  <2>. QED BY <1>1, <1>3, <1>4, <1>10, <2>3 DEF CallStep, t, v
<1>. QED BY <1>5, <1>8, <1>9, <1>10 DEF Action

\* Execute runs the operation whose ID is made of the cached predecessor and the
\* salt of now, if the timelock has that operation.
LEMMA ExecuteCalls ==
    ASSUME ObjectInv, TimelockType, NEW p \in ProposalId, NEW i \in Batches(p), Execute(p, i)
    PROVE  /\ \E id \in OperationID : ExecuteStep(ChainOf(p, i), id)
           /\ UNCHANGED <<objectVars, mcmVars, executables>>
<1> DEFINE t == ExecuteCall(p, i)
           c == ChainOf(p, i)
           id == HashOperationBatch(t.calls, t.predecessor, t.salt)
<1>1. proposals[<<p, "schedule">>].operations[i].chainSelector = c /\ c \in Chain
  BY ScheduleProposals DEF ObjectInv
<1>2. executeBatch(c, t) /\ UNCHANGED <<now, objectVars, mcmVars, executables>>
  BY <1>1 DEF Execute
<1>3. id.predecessor = t.predecessor
  BY HashParts
<1> HIDE DEF t, c
<1>4. IsOperationReady(c, id) /\ (t.predecessor = ZeroHash \/ IsOperationDone(c, t.predecessor))
  BY <1>2 DEF executeBatch, executeBatchAccepted
<1>5. id \in OperationID
  BY <1>1, <1>4 DEF IsOperationReady, TimelockType
<1>6. ExecuteStep(c, id)
  BY <1>2, <1>3, <1>4 DEF executeBatch, ExecuteStep
<1>. QED BY <1>2, <1>5, <1>6 DEF c

LEMMA QueueInit == Init => QueueInv
<1> SUFFICES ASSUME Init PROVE QueueInv
  OBVIOUS
<1>1. queue \in [MCM -> Seq(AnyCall)]
  BY DEF Init
<1>2. \A m \in MCM : DOMAIN queue[m] = {}
  BY DEF Init
<1>. QED BY <1>1, <1>2 DEF Init, QueueInv

LEMMA QueueStep ==
    ASSUME QueueInv, ObjectInv, [Next]_vars
    PROVE  QueueInv'
<1>0. \A q \in Key : Converted(q) => Converted(q)' /\ VersionOf(q)' = VersionOf(q)
  BY ConversionStays
<1>a. \A q \in Key, c \in Chain : <<q, c>> \in approved => Converted(q)
  BY DEF QueueInv
<1>1. ASSUME NEW q \in Key, NEW c \in Chain, SetRoot(q, c)
      PROVE  QueueInv'
  <2> DEFINE m == <<c, converted[q].chainMetadata[c]>>
             ts == TransactionsOn(converted[q], c)
  <2>1. Converted(q) /\ IsConversionOf(converted[q], VersionOf(q), q) /\ UNCHANGED converted
    BY <1>1, ConvertedFrom DEF SetRoot, objectVars
  <2>2. m \in MCM
    BY <1>1, <2>1 DEF SetRoot, IsConversionOf, MCM
  <2>3. ts \in Seq(AnyCall) /\ \A k \in DOMAIN ts : \E i \in Nat : IsBatchOf(ts[k], VersionOf(q), q, i, c)
    <3>1. PICK order \in [DOMAIN ts -> Batches(q[1])] : \A k \in DOMAIN ts : IsBatchOf(ts[k], VersionOf(q), q, order[k], c)
      BY <2>1, TransactionsInOrder DEF IsBacklogOf
    <3>2. Batches(q[1]) \subseteq Nat
      BY FirstVersion, ScheduleProposals DEF Key
    <3>3. ts \in Seq(AnyCall)
      BY <2>1, TransactionsInOrder
    <3>. QED BY <3>1, <3>2, <3>3
  <2>4. queue' = [queue EXCEPT ![m] = ts] /\ approved' = approved \cup {<<q, c>>} /\ Converted(q)
    BY <1>1 DEF SetRoot
  <2> HIDE DEF m, ts
  <2>5. queue' \in [MCM -> Seq(AnyCall)] /\ queue'[m] = ts /\ \A n \in MCM : n # m => queue'[n] = queue[n]
    BY <2>2, <2>3, <2>4 DEF QueueInv
  <2>6. ASSUME NEW n \in MCM, NEW k \in DOMAIN queue'[n]
        PROVE  \E r \in Key : <<r, n[1]>> \in approved' /\ \E i \in Nat : IsBatchOf(queue'[n][k], VersionOf(r)', r, i, n[1])
    <3>1. CASE n = m
      <4>1. n[1] = c /\ <<q, c>> \in approved' /\ k \in DOMAIN ts
        BY <2>4, <2>5, <3>1 DEF m
      <4>2. VersionOf(q)' = VersionOf(q)
        BY <1>0, <2>1
      <4>. QED BY <2>3, <2>5, <3>1, <4>1, <4>2
    <3>2. CASE n # m
      <4>1. queue'[n] = queue[n]
        BY <2>5, <3>2
      <4>2. PICK r \in Key : <<r, n[1]>> \in approved
                             /\ \E i \in Nat : IsBatchOf(queue[n][k], VersionOf(r), r, i, n[1])
        BY <2>6, <4>1 DEF QueueInv
      <4>3. VersionOf(r)' = VersionOf(r)
        BY <1>0, <1>a, <4>2 DEF MCM
      <4>. QED BY <2>4, <4>1, <4>2, <4>3
    <3>. QED BY <3>1, <3>2
  <2>7. approved' \subseteq Key \X Chain
    BY <2>4 DEF QueueInv
  <2>8. \A r \in Key, d \in Chain : <<r, d>> \in approved' => Converted(r)'
    BY <2>1, <2>4 DEF QueueInv, Converted
  <2>. QED BY <2>5, <2>6, <2>7, <2>8 DEF QueueInv
<1>2. ASSUME NEW m \in MCM, ExecuteNext(m)
      PROVE  QueueInv'
  <2>1. /\ queue[m] # <<>> /\ queue' = [queue EXCEPT ![m] = Tail(@)]
        /\ UNCHANGED <<approved, converted>>
    BY <1>2 DEF ExecuteNext, objectVars
  <2>2. queue[m] \in Seq(AnyCall)
    BY DEF QueueInv
  <2>3. Tail(queue[m]) \in Seq(AnyCall) /\ \A k \in DOMAIN Tail(queue[m]) :
            k + 1 \in DOMAIN queue[m] /\ Tail(queue[m])[k] = queue[m][k + 1]
    BY <2>1, <2>2
  <2>4. /\ queue' \in [MCM -> Seq(AnyCall)]
        /\ queue'[m] = Tail(queue[m]) /\ \A n \in MCM : n # m => queue'[n] = queue[n]
    BY <2>1, <2>3 DEF QueueInv
  <2>5. ASSUME NEW n \in MCM, NEW k \in DOMAIN queue'[n]
        PROVE  \E l \in DOMAIN queue[n] : queue'[n][k] = queue[n][l]
    BY <2>3, <2>4, <2>5
  <2>6. ASSUME NEW n \in MCM, NEW k \in DOMAIN queue'[n]
        PROVE  \E r \in Key : <<r, n[1]>> \in approved' /\ \E i \in Nat : IsBatchOf(queue'[n][k], VersionOf(r)', r, i, n[1])
    <3>1. PICK l \in DOMAIN queue[n] : queue'[n][k] = queue[n][l]
      BY <2>5, <2>6
    <3>2. PICK r \in Key : <<r, n[1]>> \in approved
                           /\ \E i \in Nat : IsBatchOf(queue[n][l], VersionOf(r), r, i, n[1])
      BY <3>1 DEF QueueInv
    <3>3. VersionOf(r)' = VersionOf(r)
      BY <1>0, <1>a, <3>2 DEF MCM
    <3>. QED BY <2>1, <3>1, <3>2, <3>3
  <2>. QED BY <2>1, <2>4, <2>6 DEF QueueInv, Converted
<1>4. CASE UNCHANGED mcmVars
  <2>1. queue' = queue /\ approved' = approved
    BY <1>4 DEF mcmVars
  <2>2. ASSUME NEW m \in MCM, NEW k \in DOMAIN queue[m]
        PROVE  \E r \in Key : <<r, m[1]>> \in approved /\ \E i \in Nat : IsBatchOf(queue[m][k], VersionOf(r)', r, i, m[1])
    <3>1. PICK r \in Key : <<r, m[1]>> \in approved
                           /\ \E i \in Nat : IsBatchOf(queue[m][k], VersionOf(r), r, i, m[1])
      BY <2>2 DEF QueueInv
    <3>2. VersionOf(r)' = VersionOf(r)
      BY <1>0, <1>a, <3>1 DEF MCM
    <3>. QED BY <3>1, <3>2
  <2>3. approved \subseteq Key \X Chain /\ queue \in [MCM -> Seq(AnyCall)]
    BY DEF QueueInv
  <2>4. \A q \in Key, c \in Chain : <<q, c>> \in approved => Converted(q)'
    BY <1>0, <1>a
  <2>. QED BY <2>1, <2>2, <2>3, <2>4 DEF QueueInv
<1>3. ASSUME NEW q \in Key, ConvertProposal(q)
      PROVE  QueueInv'
  BY <1>3, <1>4 DEF ConvertProposal
<1>10. ASSUME NEW p \in ProposalId, NEW e \in Edits[p], Edit(p, e)
      PROVE  QueueInv'
  BY <1>4, <1>10 DEF Edit
<1>5. ASSUME NEW d \in Derivations, Derive(d[1], d[2]) \/ DeriveFails(d[1], d[2])
      PROVE  QueueInv'
  BY <1>4, <1>5 DEF Derive, DeriveFails
<1>6. ASSUME NEW p \in ProposalId, NewTimelockExecutable(p)
      PROVE  QueueInv'
  BY <1>4, <1>6 DEF NewTimelockExecutable
<1>7. ASSUME NEW p \in ProposalId, NEW i \in Batches(p), Execute(p, i)
      PROVE  QueueInv'
  BY <1>4, <1>7 DEF Execute
<1>8. CASE Tick
  BY <1>4, <1>8 DEF Tick
<1>9. CASE UNCHANGED vars
  BY <1>4, <1>9 DEF vars
<1>. QED BY <1>1, <1>2, <1>3, <1>5, <1>6, <1>7, <1>8, <1>9, <1>10 DEF Next, Batches

-----------------------------------------------------------------------------
(* The timelocks.  Any step schedules, cancels or executes one operation   *)
(* on one chain, or leaves the timelocks alone.                            *)

BatchStep(c, id) ==
    \/ \E p \in ProposalId : \E v \in Versions(p) :
          id.salt = Salt(v) /\ ScheduleStep(c, id, Seconds(InitProposal[p].delay))
    \/ CancelStep(c, id)
    \/ ExecuteStep(c, id)

LEMMA StepsOfTimelocks ==
    ASSUME ObjectInv, QueueInv, TimelockType, [Next]_vars
    PROVE  \/ UNCHANGED timelockVars /\ now' \in Nat
           \/ \E c \in Chain, id \in OperationID : BatchStep(c, id)
<1> DEFINE Goal == \/ UNCHANGED timelockVars /\ now' \in Nat
                   \/ \E c \in Chain, id \in OperationID : BatchStep(c, id)
<1>0. now \in Nat
  BY DEF TimelockType
<1>1. ASSUME NEW m \in MCM, ExecuteNext(m)
      PROVE  Goal
  <2>1. PICK q \in Key, i \in Nat : /\ <<q, m[1]>> \in approved
                                    /\ IsBatchOf(Head(queue[m]), VersionOf(q), q, i, m[1]) /\ CallStep(q, i, m[1])
    BY <1>1, ExecuteNextCalls
  <2>2. q[1] \in ProposalId /\ i \in Batches(q[1]) /\ m[1] \in Chain
    BY <2>1 DEF IsBatchOf, Key, MCM
  <2>3. VersionOf(q) \in Versions(q[1])
    BY <2>1, <2>2, ConvertedFrom DEF QueueInv
  <2>4. IDs(VersionOf(q))[i] \in OperationID /\ IDs(VersionOf(q))[i].salt = Salt(VersionOf(q))
    BY <2>2, <2>3, BatchIDs
  <2>5. (UNCHANGED <<timelockVars, now>>) \/ BatchStep(m[1], IDs(VersionOf(q))[i])
    BY <2>1, <2>2, <2>3, <2>4 DEF CallStep, BatchStep
  <2>. QED BY <1>0, <2>2, <2>4, <2>5
<1>2. ASSUME NEW p \in ProposalId, NEW i \in Batches(p), Execute(p, i)
      PROVE  Goal
  <2>1. PICK id \in OperationID : ExecuteStep(ChainOf(p, i), id)
    BY <1>2, ExecuteCalls
  <2>2. ChainOf(p, i) \in Chain
    BY FirstVersion, ScheduleProposals
  <2>. QED BY <2>1, <2>2 DEF BatchStep
<1>3. CASE UNCHANGED <<timelockVars, now>>
  BY <1>0, <1>3
<1>4. CASE Tick
  BY <1>0, <1>4 DEF Tick
<1>5. ASSUME NEW d \in Derivations, Derive(d[1], d[2]) \/ DeriveFails(d[1], d[2])
      PROVE  Goal
  BY <1>3, <1>5 DEF Derive, DeriveFails
<1>6. ASSUME NEW q \in Key, ConvertProposal(q)
      PROVE  Goal
  BY <1>3, <1>6 DEF ConvertProposal
<1>7. ASSUME NEW q \in Key, NEW c \in Chain, SetRoot(q, c)
      PROVE  Goal
  BY <1>3, <1>7 DEF SetRoot
<1>8. ASSUME NEW p \in ProposalId, NewTimelockExecutable(p)
      PROVE  Goal
  BY <1>3, <1>8 DEF NewTimelockExecutable
<1>9. ASSUME NEW p \in ProposalId, NEW e \in Edits[p], Edit(p, e)
      PROVE  Goal
  BY <1>3, <1>9 DEF Edit
<1>10. CASE UNCHANGED vars
  BY <1>3, <1>10 DEF vars
<1>. QED BY <1>1, <1>2, <1>4, <1>5, <1>6, <1>7, <1>8, <1>9, <1>10 DEF Next, Batches

\* A log only grows, by one event.
LEMMA LogGrows ==
    ASSUME TimelockType, NEW c \in Chain, NEW event \in {"schedule", "cancel", "execute"},
           NEW id \in OperationID, Logged(c, event, id)
    PROVE  /\ log' \in [Chain -> Seq(Event)]
           /\ Len(log[c]) \in Nat /\ DOMAIN log[c] = 1..Len(log[c])
           /\ DOMAIN log'[c] = 1..(Len(log[c]) + 1)
           /\ \A k \in 1..Len(log[c]) : log'[c][k] = log[c][k]
           /\ log'[c][Len(log[c]) + 1].event = event
           /\ log'[c][Len(log[c]) + 1].id = id
           /\ log'[c][Len(log[c]) + 1].at = now
           /\ \A d \in Chain : d # c => log'[d] = log[d]
<1> DEFINE e == [event |-> event, id |-> id, at |-> now]
<1>1. e \in Event /\ log[c] \in Seq(Event) /\ e.event = event /\ e.id = id /\ e.at = now
  BY DEF Event, TimelockType
<1>2. log' = [log EXCEPT ![c] = Append(@, e)]
  BY DEF Logged
<1> HIDE DEF e
<1>3. log'[c] = Append(log[c], e) /\ \A d \in Chain : d # c => log'[d] = log[d]
  BY <1>2 DEF TimelockType
<1>4. Append(log[c], e) \in Seq(Event)
  BY <1>1
<1>5. log' \in [Chain -> Seq(Event)]
  BY <1>2, <1>4 DEF TimelockType
<1>. QED BY <1>1, <1>3, <1>5

LEMMA TimelockTypeInit == Init => TimelockType
BY DEF Init, TimelockInit, TimelockType

LEMMA TimelockTypeStep ==
    ASSUME TimelockType, ObjectInv, QueueInv, [Next]_vars
    PROVE  TimelockType'
<1>1. now \in Nat
  BY DEF TimelockType
<1>2. CASE UNCHANGED timelockVars /\ now' \in Nat
  BY <1>2 DEF TimelockType, timelockVars
<1>3. ASSUME NEW c \in Chain, NEW id \in OperationID, BatchStep(c, id)
      PROVE  TimelockType'
  <2>1. now' = now
    BY <1>3 DEF BatchStep, ScheduleStep, CancelStep, ExecuteStep
  <2>2. \A p \in ProposalId : Seconds(InitProposal[p].delay) \in Nat
    <3>1. \A p \in ProposalId : InitProposal[p].delay \in Nat
      BY FirstVersion, ScheduleProposals
    <3>. QED BY <3>1 DEF Seconds
  <2>3. log' \in [Chain -> Seq(Event)]
    <3>1. \E event \in {"schedule", "cancel", "execute"} : Logged(c, event, id)
      BY <1>3 DEF BatchStep, ScheduleStep, CancelStep, ExecuteStep
    <3>. QED BY <2>1, <3>1, LogGrows
  <2>4. ASSUME NEW delay \in Nat, ScheduleStep(c, id, delay)
        PROVE  TimelockType'
    <3>1. [id |-> id, readyAt |-> now + delay] \in [id : OperationID, readyAt : Nat]
      BY <1>1
    <3>2. pending' \in [Chain -> SUBSET [id : OperationID, readyAt : Nat]] /\ doneOps' = doneOps
      BY <2>1, <2>4, <3>1 DEF ScheduleStep, TimelockType
    <3>. QED BY <1>1, <2>1, <2>3, <3>2 DEF TimelockType
  <2>5. CASE CancelStep(c, id)
    <3>1. pending' \in [Chain -> SUBSET [id : OperationID, readyAt : Nat]] /\ doneOps' = doneOps
      BY <2>1, <2>5 DEF CancelStep, TimelockType
    <3>. QED BY <1>1, <2>1, <2>3, <3>1 DEF TimelockType
  <2>6. CASE ExecuteStep(c, id)
    <3>1. pending' \in [Chain -> SUBSET [id : OperationID, readyAt : Nat]]
      BY <2>1, <2>6 DEF ExecuteStep, TimelockType
    <3>2. doneOps' \in [Chain -> SUBSET OperationID]
      BY <2>1, <2>6 DEF ExecuteStep, TimelockType
    <3>. QED BY <1>1, <2>1, <2>3, <3>1, <3>2 DEF TimelockType
  <2>. QED BY <1>3, <2>2, <2>4, <2>5, <2>6 DEF BatchStep
<1>. QED BY <1>1, <1>2, <1>3, StepsOfTimelocks

Executes(lg, id, k) == k \in DOMAIN lg /\ lg[k].event = "execute" /\ lg[k].id = id

\* What a timelock has executed: each operation once, none while it is pending, and
\* none before its predecessor.
ExecutedInOrder(lg, done, waiting) ==
    /\ \A id \in OperationID : id \in done <=> \E k \in DOMAIN lg : Executes(lg, id, k)
    /\ \A id \in OperationID : \A k, l \in DOMAIN lg : Executes(lg, id, k) /\ Executes(lg, id, l) => k = l
    /\ \A k \in DOMAIN lg : lg[k].event = "execute" =>
         \/ lg[k].id.predecessor = ZeroHash
         \/ \E h \in DOMAIN lg : h < k /\ Executes(lg, lg[k].id.predecessor, h)
    /\ \A o \in waiting : o.id \notin done

LogInv == \A c \in Chain : ExecutedInOrder(log[c], doneOps[c], pending[c])

LEMMA LogInit == Init => LogInv
<1> SUFFICES ASSUME Init, NEW c \in Chain
             PROVE  DOMAIN log[c] = {} /\ doneOps[c] = {} /\ pending[c] = {}
  BY DEF LogInv, ExecutedInOrder
<1>. QED BY DEF Init, TimelockInit

\* A timelock with log lg logs an event of operation id as event n + 1.
IsNextEvent(lg, done, waiting, new, done2, waiting2, n, event, id) ==
    /\ n \in Nat /\ id \in OperationID /\ done \subseteq OperationID
    /\ DOMAIN lg = 1..n /\ DOMAIN new = 1..(n + 1) /\ \A k \in 1..n : new[k] = lg[k]
    /\ new[n + 1].event = event /\ new[n + 1].id = id
    /\ (\E o \in waiting : o.id = id) \/ id \notin done
    /\ event = "execute" => id.predecessor = ZeroHash \/ id.predecessor \in done
    /\ done2 = IF event = "execute" THEN done \cup {id} ELSE done
    /\ event = "schedule" => \A o \in waiting2 : o \in waiting \/ o.id = id
    /\ event # "schedule" => \A o \in waiting2 : o \in waiting /\ o.id # id

\* One more event keeps the order, when the timelock has checked what it checks.
LEMMA OrderIsKept ==
    ASSUME NEW lg, NEW done, NEW waiting, NEW new, NEW done2, NEW waiting2, NEW n, NEW event, NEW id,
           ExecutedInOrder(lg, done, waiting),
           IsNextEvent(lg, done, waiting, new, done2, waiting2, n, event, id)
    PROVE  ExecutedInOrder(new, done2, waiting2)
<1> USE DEF IsNextEvent
<1>1. \A x : \A k \in 1..n : Executes(new, x, k) <=> Executes(lg, x, k)
  BY DEF Executes
<1>2. \A x : Executes(new, x, n + 1) <=> event = "execute" /\ x = id
  BY DEF Executes
<1>3. /\ \A k \in DOMAIN new : k \in 1..n \/ k = n + 1
      /\ \A k \in 1..n : k \in DOMAIN new /\ k \in DOMAIN lg /\ k # n + 1 /\ k < n + 1
      /\ n + 1 \in DOMAIN new
  OBVIOUS
<1>4. id \notin done
  BY DEF ExecutedInOrder
<1>5. \A x \in OperationID : x \in done <=> \E k \in 1..n : Executes(lg, x, k)
  BY DEF ExecutedInOrder
<1>6. \A x \in OperationID : x \in done2 <=> \E k \in DOMAIN new : Executes(new, x, k)
  BY <1>1, <1>2, <1>3, <1>5
<1>7. \A x \in OperationID : \A k, l \in DOMAIN new : Executes(new, x, k) /\ Executes(new, x, l) => k = l
  <2> TAKE x \in OperationID
  <2>1. \A k, l \in 1..n : Executes(lg, x, k) /\ Executes(lg, x, l) => k = l
    BY DEF ExecutedInOrder
  <2>2. x = id => \A k \in 1..n : ~Executes(lg, x, k)
    BY <1>4, <1>5
  <2>. QED BY <1>1, <1>2, <1>3, <2>1, <2>2
<1>8. ASSUME NEW k \in DOMAIN new, new[k].event = "execute"
      PROVE  \/ new[k].id.predecessor = ZeroHash
             \/ \E h \in DOMAIN new : h < k /\ Executes(new, new[k].id.predecessor, h)
  <2>1. CASE k \in 1..n
    <3>1. new[k] = lg[k] /\ k \in DOMAIN lg
      BY <2>1
    <3>2. \/ lg[k].id.predecessor = ZeroHash
          \/ \E h \in DOMAIN lg : h < k /\ Executes(lg, lg[k].id.predecessor, h)
      BY <1>8, <3>1 DEF ExecutedInOrder
    <3>. QED BY <1>1, <1>3, <3>1, <3>2
  <2>2. CASE k = n + 1
    <3>1. event = "execute" /\ new[k].id = id
      BY <1>8, <2>2
    <3>2. CASE id.predecessor = ZeroHash
      BY <3>1, <3>2
    <3>3. CASE id.predecessor \in done
      <4>1. PICK h \in 1..n : Executes(lg, id.predecessor, h)
        BY <1>5, <3>3
      <4>2. h \in DOMAIN new /\ h < k /\ Executes(new, id.predecessor, h)
        BY <1>1, <1>3, <2>2, <4>1
      <4>. QED BY <3>1, <4>2
    <3>. QED BY <3>1, <3>2, <3>3
  <2>. QED BY <1>3, <2>1, <2>2
<1>9. \A o \in waiting2 : o.id \notin done2
  <2>1. \A o \in waiting : o.id \notin done
    BY DEF ExecutedInOrder
  <2>2. CASE event = "schedule"
    BY <1>4, <2>1, <2>2
  <2>3. CASE event # "schedule"
    BY <2>1, <2>3
  <2>. QED BY <2>2, <2>3
<1>. QED BY <1>6, <1>7, <1>8, <1>9 DEF ExecutedInOrder

LEMMA LogStep ==
    ASSUME LogInv, TimelockType, ObjectInv, QueueInv, [Next]_vars
    PROVE  LogInv'
<1>1. now \in Nat
  BY DEF TimelockType
<1>2. CASE UNCHANGED timelockVars
  BY <1>2 DEF LogInv, timelockVars
<1>3. ASSUME NEW c \in Chain, NEW id \in OperationID, BatchStep(c, id), NEW d \in Chain
      PROVE  ExecutedInOrder(log'[d], doneOps'[d], pending'[d])
  <2>1. c \in Chain /\ id \in OperationID
    OBVIOUS
  <2>2. PICK event \in {"schedule", "cancel", "execute"} :
          /\ Logged(c, event, id)
          /\ event = "schedule" => \E delay : ScheduleStep(c, id, delay)
          /\ event = "cancel" => CancelStep(c, id)
          /\ event = "execute" => ExecuteStep(c, id)
    <3>1. ASSUME NEW delay, ScheduleStep(c, id, delay)
          PROVE  Logged(c, "schedule", id)
      BY <3>1 DEF ScheduleStep
    <3>. QED BY <1>3, <3>1 DEF BatchStep, CancelStep, ExecuteStep
  <2>3. PICK n \in Nat : n = Len(log[c])
    BY <2>1 DEF TimelockType
  <2>4. /\ n \in Nat /\ DOMAIN log[c] = 1..n /\ DOMAIN log'[c] = 1..(n + 1)
        /\ \A k \in 1..n : log'[c][k] = log[c][k]
        /\ log'[c][n + 1].event = event /\ log'[c][n + 1].id = id
        /\ \A e \in Chain : e # c => log'[e] = log[e]
    BY <2>1, <2>2, <2>3, LogGrows
  <2>5. \A e \in Chain : e # c => pending'[e] = pending[e] /\ doneOps'[e] = doneOps[e]
    BY <2>1, <2>2 DEF ScheduleStep, CancelStep, ExecuteStep, TimelockType
  <2>6. ExecutedInOrder(log[d], doneOps[d], pending[d])
    BY DEF LogInv
  <2>7. CASE d # c
    BY <2>4, <2>5, <2>6, <2>7
  <2>8. CASE d = c
    <3>1. (\E o \in pending[c] : o.id = id) \/ id \notin doneOps[c]
      BY <2>2 DEF ScheduleStep, CancelStep, ExecuteStep, IsOperationReady, IsOperationPending, IsOperationDone
    <3>2. event = "execute" => id.predecessor = ZeroHash \/ id.predecessor \in doneOps[c]
      BY <2>2 DEF ExecuteStep, IsOperationDone
    <3>3. doneOps'[c] = IF event = "execute" THEN doneOps[c] \cup {id} ELSE doneOps[c]
      BY <2>1, <2>2 DEF ScheduleStep, CancelStep, ExecuteStep, TimelockType
    <3>4. event = "schedule" => \A o \in pending'[c] : o \in pending[c] \/ o.id = id
      BY <2>1, <2>2 DEF ScheduleStep, TimelockType
    <3>5. event # "schedule" => \A o \in pending'[c] : o \in pending[c] /\ o.id # id
      BY <2>1, <2>2 DEF CancelStep, ExecuteStep, TimelockType
    <3>6. doneOps[c] \in SUBSET OperationID
      BY <2>1 DEF TimelockType
    <3>7. ExecutedInOrder(log[c], doneOps[c], pending[c])
      BY <2>6, <2>8
    <3>8. IsNextEvent(log[c], doneOps[c], pending[c], log'[c], doneOps'[c], pending'[c], n, event, id)
      BY <2>1, <2>4, <3>1, <3>2, <3>3, <3>4, <3>5, <3>6 DEF IsNextEvent
    <3>9. ExecutedInOrder(log'[c], doneOps'[c], pending'[c])
      BY <3>7, <3>8, OrderIsKept
    <3>. QED BY <2>8, <3>9
  <2>. QED BY <2>7, <2>8
<1>4. ASSUME NEW c \in Chain, NEW id \in OperationID, BatchStep(c, id)
      PROVE  LogInv'
  BY <1>3, <1>4 DEF LogInv
<1>. QED BY <1>1, <1>2, <1>4, StepsOfTimelocks

-----------------------------------------------------------------------------
(* Theorems for every set of proposals *)

TimelockInv == TimelockType /\ ObjectInv /\ QueueInv /\ LogInv

\* Types, objects, queues and logs: whatever is edited, derived, converted, approved,
\* executed and cancelled in whatever order, each object has the batches and the salt
\* of one version of its proposal, the MCMs hold approved batches only, and the
\* timelocks execute in order.
THEOREM TimelockInvariant == Spec => []TimelockInv
<1>1. Init => TimelockInv
  BY TimelockTypeInit, ObjectInit, QueueInit, LogInit DEF TimelockInv
<1>2. TimelockInv /\ [Next]_vars => TimelockInv'
  <2> SUFFICES ASSUME TimelockInv, [Next]_vars PROVE TimelockInv'
    OBVIOUS
  <2>1. TimelockType /\ ObjectInv /\ QueueInv /\ LogInv /\ now \in Nat
    BY DEF TimelockInv, TimelockType
  <2>2. TimelockType'
    BY <2>1, TimelockTypeStep
  <2>3. ObjectInv'
    BY <2>1, ObjectStep
  <2>4. QueueInv'
    BY <2>1, QueueStep
  <2>5. LogInv'
    BY <2>1, LogStep
  <2>. QED BY <2>2, <2>3, <2>4, <2>5 DEF TimelockInv
<1>. QED BY <1>1, <1>2, PTL DEF Spec

\* A cancellation names the operations that the schedule proposal has when it is
\* derived, whatever was edited before (DeriveCancellationProposal, Convert).
THEOREM CancellationsAreOnTarget == Spec => CancellationTargetsSchedule
<1> DEFINE Target == \A p \in ProposalId :
              LET q == <<p, "cancel">> IN
              (~Exists(q) /\ Exists(q)') =>
                  \A i \in Batches(p) :
                      Convert(proposals[q], chainMetadata[p])'.operations[i].transaction.id
                        = calcOperationIDs(proposals[<<p, "schedule">>])[i]
<1>1. TimelockInv /\ TimelockInv' /\ [Next]_vars => Target
  <2> SUFFICES ASSUME TimelockInv, TimelockInv', [Next]_vars, NEW p \in ProposalId,
                      ~Exists(<<p, "cancel">>), Exists(<<p, "cancel">>)', NEW i \in Batches(p)
               PROVE  Convert(proposals'[<<p, "cancel">>], chainMetadata'[p]).operations[i].transaction.id
                        = calcOperationIDs(proposals[<<p, "schedule">>])[i]
    BY DEF Exists
  <2> DEFINE q == <<p, "cancel">>
             v == proposals[<<p, "schedule">>]
  <2>1. q \in Key /\ q[1] = p /\ q[2] = "cancel" /\ "cancel" \in Action
    BY DEF Key, Action
  <2>2. v \in Versions(p) /\ now \in Nat /\ DOMAIN proposals = Key
    BY DEF TimelockInv, ObjectInv, TimelockType
  <2>3. chainMetadata'[p] \in [Chains(InitProposal[p]) -> Role]
    BY DEF TimelockInv, ObjectInv
  <2>4. proposals'[q] # proposals[q]
    BY DEF Exists
  <2>5. proposals'[q] = deriveNewProposal(v, "cancel")
    <3>1. ASSUME NEW d \in Derivations, Derive(d[1], d[2])
          PROVE  proposals'[q] = deriveNewProposal(v, "cancel")
      <4>1. <<d[1], d[2]>> = q
        BY <2>2, <2>4, <3>1 DEF Derive
      <4>2. d[1] = p /\ d[2] = "cancel"
        BY <4>1
      <4>. QED BY <2>1, <2>2, <3>1, <4>2 DEF Derive
    <3>2. ASSUME NEW r \in ProposalId, NEW e \in Edits[r], Edit(r, e)
          PROVE  FALSE
      BY <2>1, <2>2, <2>4, <3>2 DEF Edit
    <3>3. CASE UNCHANGED proposals
      BY <2>4, <3>3
    <3>. QED BY <3>1, <3>2, <3>3 DEF Next, vars, objectVars, DeriveFails, ConvertProposal, SetRoot, ExecuteNext,
                                   NewTimelockExecutable, Execute, Tick
  <2> HIDE DEF v
  <2>6. IsEditionOf(proposals'[q], v, "cancel")
    BY <2>1, <2>2, <2>5, DerivedVersion
  <2>7. IsConversionOf(Convert(proposals'[q], chainMetadata'[p]), v, q)
    BY <2>1, <2>2, <2>3, <2>6, ConvertedVersion
  <2>8. Convert(proposals'[q], chainMetadata'[p]).operations[i].transaction = BatchCall(v, "cancel", i)
    BY <2>1, <2>7 DEF IsConversionOf
  <2>9. BatchCall(v, "cancel", i).id = IDs(v)[i]
    BY DEF BatchCall
  <2>. QED BY <2>8, <2>9 DEF IDs, v
<1>. QED BY <1>1, TimelockInvariant, PTL DEF Spec, CancellationTargetsSchedule

\* Execute works exactly as far as the cached predecessors are those of the live salt:
\* what IsOperationReady and IsOperationDone report is enough if the executable was
\* made after the last edit of the salt, and for the first batch of a chain, and
\* otherwise Execute is refused.
THEOREM ReadyBatchesExecute == Spec => []ReadyMeansExecutable
<1>1. TimelockInv => ReadyMeansExecutable
  <2> DEFINE m(p) == proposals[<<p, "schedule">>]
  <2> SUFFICES ASSUME TimelockInv, NEW p \in ProposalId, NEW i \in Batches(p),
                      executables[p] # NoExecutable,
                      IsOperationReady(ChainOf(p, i), calcOperationIDs(m(p))[i]),
                      \A k \in Before(m(p), i) : IsOperationDone(ChainOf(p, i), calcOperationIDs(m(p))[k])
               PROVE  executeBatchAccepted(ChainOf(p, i), ExecuteCall(p, i))
                        <=> (executables[p].madeWith = Salt(m(p)) \/ Before(m(p), i) = {})
    BY DEF ReadyMeansExecutable
  <2> DEFINE o == m(p)
             c == ChainOf(p, i)
             t == ExecuteCall(p, i)
             id == HashOperationBatch(t.calls, t.predecessor, t.salt)
  <2>1. o \in Versions(p)
    BY DEF TimelockInv, ObjectInv
  <2>2. PICK v \in Versions(p) : executables[p] = TimelockExecutable(ConvertPredecessors(v), v)
    BY DEF TimelockInv, ObjectInv
  <2>3. executables[p].madeWith = Salt(v) /\ executables[p].predecessors = ConvertPredecessors(v)
    BY <2>2 DEF TimelockExecutable
  <2>4. /\ v.operations \in Seq(BatchOperation) /\ o.operations = v.operations /\ DOMAIN o.operations = Batches(p)
        /\ o.operations[i].calls = BatchCalls(p, i) /\ c \in Chain /\ Batches(p) \subseteq Nat
    BY <2>1, ScheduleProposals
  <2>5. Before(v, i) = Before(o, i)
    BY <2>4 DEF Before
  <2>6. t.calls = BatchCalls(p, i) /\ t.predecessor = Predecessor(v, i) /\ t.salt = Salt(o)
    BY <2>3, <2>4 DEF ExecuteCall, Predecessor
  <2>7. /\ IDs(o)[i] = HashOperationBatch(BatchCalls(p, i), Predecessor(o, i), Salt(o))
        /\ Predecessor(o, i) = IF Before(o, i) = {} THEN ZeroHash ELSE IDs(o)[LastBefore(o, i)]
        /\ Before(o, i) # {} => LastBefore(o, i) \in Before(o, i)
    BY <2>1, BatchIDs
  <2>8. /\ Predecessor(v, i) = IF Before(v, i) = {} THEN ZeroHash ELSE IDs(v)[LastBefore(v, i)]
        /\ Before(v, i) # {} => LastBefore(v, i) \in Batches(p)
        /\ Before(v, i) # {} => IDs(v)[LastBefore(v, i)] # ZeroHash /\ IDs(v)[LastBefore(v, i)].salt = Salt(v)
    BY BatchIDs
  <2>9. IsOperationReady(c, IDs(o)[i]) /\ \A k \in Before(o, i) : IsOperationDone(c, IDs(o)[k])
    BY DEF IDs
  <2>10. executables[p].madeWith = Salt(o) => Predecessor(v, i) = Predecessor(o, i)
    BY <2>3, <2>4, SameBatchesSameIDs DEF Predecessor
  <2> HIDE DEF t, o, m
  <2>11. Before(o, i) = {} => Predecessor(v, i) = Predecessor(o, i)
    BY <2>5, <2>7, <2>8
  <2>12. ASSUME executables[p].madeWith = Salt(o) \/ Before(o, i) = {}
         PROVE  executeBatchAccepted(c, t)
    <3>1. id = IDs(o)[i] /\ t.predecessor = Predecessor(o, i)
      BY <2>6, <2>7, <2>10, <2>11, <2>12
    <3>. QED BY <2>7, <2>9, <3>1 DEF executeBatchAccepted
  <2>13. ASSUME executeBatchAccepted(c, t), Before(o, i) # {}
         PROVE  executables[p].madeWith = Salt(o)
    <3>1. IsOperationReady(c, id)
      BY <2>13 DEF executeBatchAccepted
    <3>2. id \in OperationID
      BY <2>4, <3>1 DEF IsOperationReady, TimelockInv, TimelockType
    <3>3. id.predecessor = Predecessor(v, i) /\ id.salt = Salt(o)
      BY <2>6, HashParts
    <3>4. id.predecessor = ZeroHash \/ id.predecessor.salt = id.salt
      BY <3>2, PredecessorSalt
    <3>. QED BY <2>3, <2>5, <2>8, <2>13, <3>3, <3>4
  <2>. QED BY <2>12, <2>13 DEF o, c, t
<1>. QED BY <1>1, TimelockInvariant, PTL

\* If a log executes in order, it has executed batch i before a later batch j.
LEMMA EarlierBatchesRanFirst ==
    ASSUME NEW p \in ProposalId, NEW v \in Versions(p), NEW i \in Batches(p), NEW lg, NEW done, NEW waiting,
           ExecutedInOrder(lg, done, waiting), DOMAIN lg \subseteq Nat
    PROVE  \A j \in Batches(p) : ChainOf(p, i) = ChainOf(p, j) /\ i < j =>
             \A k \in DOMAIN lg : Executes(lg, IDs(v)[j], k) =>
               \E h \in DOMAIN lg : h < k /\ Executes(lg, IDs(v)[i], h)
<1> DEFINE Ran(j, k) == Executes(lg, IDs(v)[j], k)
           Late(j) == /\ ChainOf(p, i) = ChainOf(p, j) /\ i < j
                      /\ \E k \in DOMAIN lg : Ran(j, k) /\ ~ \E h \in DOMAIN lg : h < k /\ Ran(i, h)
           Bad == {j \in Batches(p) : Late(j)}
<1>1. Batches(p) \subseteq Nat /\ v.operations \in Seq(BatchOperation) /\ DOMAIN v.operations = Batches(p)
      /\ \A j \in Batches(p) : v.operations[j].chainSelector = ChainOf(p, j)
  BY ScheduleProposals
<1> SUFFICES ASSUME Bad # {} PROVE FALSE
  OBVIOUS
<1>2. PICK j \in Bad : \A b \in Bad : j <= b
  <2>1. Bad \subseteq Nat
    BY <1>1
  <2> HIDE DEF Bad
  <2>. QED BY <2>1, LeastNatural
<1>3. j \in Batches(p) /\ ChainOf(p, i) = ChainOf(p, j) /\ i < j
  BY <1>2
<1>4. PICK k \in DOMAIN lg : Ran(j, k) /\ ~ \E h \in DOMAIN lg : h < k /\ Ran(i, h)
  BY <1>2
<1> DEFINE b == LastBefore(v, j)
<1>5. i \in Before(v, j)
  BY <1>1, <1>3 DEF Before
<1>6. b \in Before(v, j) /\ i <= b
  BY <1>1, <1>3, <1>5, LastBeforeIsLast
<1>7. b \in Batches(p) /\ b < j /\ ChainOf(p, b) = ChainOf(p, j)
  BY <1>1, <1>3, <1>6 DEF Before
<1>8. IDs(v)[j].predecessor = IDs(v)[b] /\ IDs(v)[b] # ZeroHash
  BY <1>3, <1>5, <1>7, BatchIDs
<1> HIDE DEF b, Bad
<1>9. PICK h \in DOMAIN lg : h < k /\ Executes(lg, IDs(v)[b], h)
  <2>1. lg[k].event = "execute" /\ lg[k].id = IDs(v)[j]
    BY <1>4 DEF Executes
  <2>. QED BY <1>8, <2>1 DEF ExecutedInOrder
<1>10. CASE i = b
  BY <1>4, <1>9, <1>10
<1>11. CASE i # b
  <2>1. i < b /\ b \in Nat /\ j \in Nat /\ ~(j <= b)
    BY <1>1, <1>3, <1>6, <1>7, <1>11
  <2>2. b \notin Bad
    BY <1>2, <2>1
  <2>3. PICK g \in DOMAIN lg : g < h /\ Ran(i, g)
    BY <1>3, <1>7, <1>9, <2>1, <2>2 DEF Bad
  <2>4. g < k
    BY <1>9, <2>3
  <2>. QED BY <1>4, <2>3, <2>4
<1>. QED BY <1>10, <1>11

\* In whatever order Execute is called, the batches of a proposal run in its order on
\* each chain, each at most once, under the IDs of each version.
THEOREM BatchesInOrder == Spec => []BatchesRunInOrder
<1>1. TimelockInv => BatchesRunInOrder
  <2> SUFFICES ASSUME TimelockInv, NEW p \in ProposalId, NEW v \in Versions(p),
                      NEW i \in Batches(p), NEW j \in Batches(p),
                      ChainOf(p, i) = ChainOf(p, j), i <= j,
                      NEW k \in DOMAIN log[ChainOf(p, j)],
                      Happened(ChainOf(p, j), "execute", IDs(v)[j], k)
               PROVE  \E h \in 1..k :
                        /\ Happened(ChainOf(p, j), "execute", IDs(v)[i], h)
                        /\ i # j => h < k
                        /\ \A l \in DOMAIN log[ChainOf(p, j)] :
                             Happened(ChainOf(p, j), "execute", IDs(v)[i], l) => l = h
    BY DEF BatchesRunInOrder, IDs
  <2> DEFINE c == ChainOf(p, j)
             lg == log[c]
  <2>1. i \in Nat /\ j \in Nat /\ c \in Chain
    BY ScheduleProposals
  <2>2. ExecutedInOrder(lg, doneOps[c], pending[c])
    BY <2>1 DEF TimelockInv, LogInv
  <2>3. lg \in Seq(Event)
    BY <2>1 DEF TimelockInv, TimelockType
  <2>4. DOMAIN lg = 1..Len(lg) /\ Len(lg) \in Nat /\ DOMAIN lg \subseteq Nat
    BY <2>3
  <2>5. \A id, l : Happened(c, "execute", id, l) <=> Executes(lg, id, l)
    BY DEF Happened, Executes
  <2> HIDE DEF lg
  <2>6. \A l, h \in DOMAIN lg : Executes(lg, IDs(v)[i], l) /\ Executes(lg, IDs(v)[i], h) => l = h
    <3>1. IDs(v)[i] \in OperationID
      BY BatchIDs
    <3>. QED BY <2>2, <3>1 DEF ExecutedInOrder
  <2>7. k \in DOMAIN lg /\ Executes(lg, IDs(v)[j], k)
    BY <2>5 DEF lg
  <2>8. PICK h \in DOMAIN lg : h <= k /\ (i # j => h < k) /\ Executes(lg, IDs(v)[i], h)
    <3>1. CASE i = j
      BY <2>4, <2>7, <3>1
    <3>2. CASE i # j
      <4>1. i < j
        BY <2>1, <3>2
      <4>2. \E h \in DOMAIN lg : h < k /\ Executes(lg, IDs(v)[i], h)
        BY <2>2, <2>4, <2>7, <4>1, EarlierBatchesRanFirst
      <4>. QED BY <2>4, <2>7, <4>2
    <3>. QED BY <3>1, <3>2
  <2>9. h \in 1..k
    BY <2>4, <2>7, <2>8
  <2>10. \A l \in DOMAIN log[c] : Happened(c, "execute", IDs(v)[i], l) => l = h
    BY <2>5, <2>6, <2>8 DEF lg
  <2>11. Happened(c, "execute", IDs(v)[i], h)
    BY <2>5, <2>8
  <2>. QED BY <2>8, <2>9, <2>10, <2>11
<1>. QED BY <1>1, TimelockInvariant, PTL

-----------------------------------------------------------------------------
(* Theorems for proposals that never have the same salt, which is what the *)
(* salt is for: two proposals with one salt may share an operation (see    *)
(* the run salt_same_second).                                              *)

DistinctSalts ==
    \A p, q \in ProposalId : \A v \in Versions(p), w \in Versions(q) : Salt(v) = Salt(w) => p = q

\* From one time to another, the delay of the proposals that id may belong to passes.
DelayPasses(id, from, to) ==
    \A p \in ProposalId : \A v \in Versions(p) : Salt(v) = id.salt =>
        to >= from + Seconds(InitProposal[p].delay)

Schedules(lg, id, h) == h \in DOMAIN lg /\ lg[h].event = "schedule" /\ lg[h].id = id

DelaysKept(lg, waiting) ==
    /\ \A o \in waiting : \E h \in DOMAIN lg :
         Schedules(lg, o.id, h) /\ DelayPasses(o.id, lg[h].at, o.readyAt)
    /\ \A k \in DOMAIN lg : lg[k].event = "execute" =>
         \E h \in DOMAIN lg : h <= k /\ Schedules(lg, lg[k].id, h) /\ DelayPasses(lg[k].id, lg[h].at, lg[k].at)

DelayInv == \A c \in Chain : DelaysKept(log[c], pending[c])

LEMMA DelayStep ==
    ASSUME DistinctSalts, DelayInv, TimelockInv, [Next]_vars
    PROVE  DelayInv'
<1>1. TimelockType /\ ObjectInv /\ QueueInv /\ now \in Nat
  BY DEF TimelockInv, TimelockType
<1>2. CASE UNCHANGED timelockVars
  BY <1>2 DEF DelayInv, timelockVars
<1>3. ASSUME NEW c \in Chain, NEW id \in OperationID, BatchStep(c, id), NEW d \in Chain
      PROVE  DelaysKept(log'[d], pending'[d])
  <2>1. c \in Chain /\ id \in OperationID
    OBVIOUS
  <2>2. PICK event \in {"schedule", "cancel", "execute"}, delay \in Nat :
          /\ Logged(c, event, id)
          /\ event = "schedule" => ScheduleStep(c, id, delay) /\ DelayPasses(id, now, now + delay)
          /\ event = "cancel" => CancelStep(c, id)
          /\ event = "execute" => ExecuteStep(c, id)
    <3>1. ASSUME NEW p \in ProposalId, NEW v \in Versions(p), id.salt = Salt(v),
                 ScheduleStep(c, id, Seconds(InitProposal[p].delay))
          PROVE  \E delay \in Nat : /\ Logged(c, "schedule", id) /\ ScheduleStep(c, id, delay)
                                    /\ DelayPasses(id, now, now + delay)
      <4>1. InitProposal[p].delay \in Nat
        BY ScheduleProposals
      <4>2. Seconds(InitProposal[p].delay) \in Nat
        BY <4>1 DEF Seconds
      <4>3. \A r \in ProposalId : \A w \in Versions(r) : Salt(w) = id.salt => r = p
        BY <3>1 DEF DistinctSalts
      <4>4. DelayPasses(id, now, now + Seconds(InitProposal[p].delay))
        BY <1>1, <4>2, <4>3 DEF DelayPasses
      <4>. QED BY <3>1, <4>2, <4>4 DEF ScheduleStep
    <3>2. CASE CancelStep(c, id)
      BY <3>2 DEF CancelStep
    <3>3. CASE ExecuteStep(c, id)
      BY <3>3 DEF ExecuteStep
    <3>. QED BY <1>3, <3>1, <3>2, <3>3 DEF BatchStep
  <2>5. PICK n \in Nat : n = Len(log[c])
    BY <1>1, <2>1 DEF TimelockType
  <2>6. /\ DOMAIN log[c] = 1..n /\ DOMAIN log'[c] = 1..(n + 1)
        /\ \A k \in 1..n : log'[c][k] = log[c][k]
        /\ log'[c][n + 1].event = event /\ log'[c][n + 1].id = id /\ log'[c][n + 1].at = now
        /\ \A e \in Chain : e # c => log'[e] = log[e]
    BY <1>1, <2>1, <2>2, <2>5, LogGrows
  <2>7. \A e \in Chain : e # c => pending'[e] = pending[e]
    BY <1>1, <2>1, <2>2 DEF ScheduleStep, CancelStep, ExecuteStep, TimelockType
  <2>8. DelaysKept(log[d], pending[d])
    BY DEF DelayInv
  <2>9. CASE d # c
    BY <2>6, <2>7, <2>8, <2>9
  <2>10. CASE d = c
    <3>1. /\ \A k \in 1..n : k \in DOMAIN log'[c] /\ k <= n + 1
          /\ \A k \in DOMAIN log'[c] : k \in 1..n \/ k = n + 1
          /\ n + 1 \in DOMAIN log'[c]
      BY <2>6
    <3>2. \A x : \A h \in 1..n : Schedules(log[c], x, h) => Schedules(log'[c], x, h)
      BY <2>6, <3>1 DEF Schedules
    <3>3. ASSUME NEW o \in pending[c]
          PROVE  \E h \in 1..n : Schedules(log'[c], o.id, h) /\ DelayPasses(o.id, log'[c][h].at, o.readyAt)
      <4>1. PICK h \in 1..n : Schedules(log[c], o.id, h) /\ DelayPasses(o.id, log[c][h].at, o.readyAt)
        BY <2>6, <2>8, <2>10 DEF DelaysKept
      <4>. QED BY <2>6, <3>2, <4>1
    <3>4. ASSUME NEW o \in pending'[c]
          PROVE  \E h \in DOMAIN log'[c] : Schedules(log'[c], o.id, h) /\ DelayPasses(o.id, log'[c][h].at, o.readyAt)
      <4>1. CASE o \in pending[c]
        BY <3>1, <3>3, <4>1
      <4>2. CASE o \notin pending[c]
        <5>1. event = "schedule" /\ o = [id |-> id, readyAt |-> now + delay]
          BY <1>1, <2>1, <2>2, <4>2 DEF ScheduleStep, CancelStep, ExecuteStep, TimelockType
        <5>2. o.id = id /\ o.readyAt = now + delay /\ DelayPasses(id, now, now + delay)
          BY <2>2, <5>1
        <5>3. Schedules(log'[c], id, n + 1)
          BY <2>6, <3>1, <5>1 DEF Schedules
        <5>. QED BY <2>6, <3>1, <5>2, <5>3
      <4>. QED BY <4>1, <4>2
    <3>5. ASSUME NEW k \in DOMAIN log'[c], log'[c][k].event = "execute"
          PROVE  \E h \in DOMAIN log'[c] : /\ h <= k /\ Schedules(log'[c], log'[c][k].id, h)
                                           /\ DelayPasses(log'[c][k].id, log'[c][h].at, log'[c][k].at)
      <4>1. CASE k \in 1..n
        <5>1. log'[c][k] = log[c][k] /\ k \in DOMAIN log[c]
          BY <2>6, <4>1
        <5>2. PICK h \in 1..n : /\ h <= k /\ Schedules(log[c], log[c][k].id, h)
                                /\ DelayPasses(log[c][k].id, log[c][h].at, log[c][k].at)
          BY <2>6, <2>8, <2>10, <3>5, <5>1 DEF DelaysKept
        <5>. QED BY <2>6, <3>1, <3>2, <5>1, <5>2
      <4>2. CASE k = n + 1
        <5>1. event = "execute" /\ log'[c][k].id = id /\ log'[c][k].at = now
          BY <2>6, <3>5, <4>2
        <5>2. PICK o \in pending[c] : o.id = id /\ o.readyAt <= now
          BY <2>2, <5>1 DEF ExecuteStep, IsOperationReady
        <5>3. PICK h \in 1..n : Schedules(log'[c], id, h) /\ DelayPasses(id, log'[c][h].at, o.readyAt)
          BY <3>3, <5>2
        <5>4. DelayPasses(id, log'[c][h].at, now)
          <6>1. o.readyAt \in Nat
            BY <1>1, <2>1 DEF TimelockType
          <6>2. log[c][h].at \in Nat /\ log'[c][h] = log[c][h]
            <7>1. log[c] \in Seq(Event) /\ h \in DOMAIN log[c]
              BY <1>1, <2>1, <2>6 DEF TimelockType
            <7>2. log[c][h] \in Event
              BY <7>1
            <7>. QED BY <2>6, <7>2 DEF Event
          <6>3. \A r \in ProposalId : Seconds(InitProposal[r].delay) \in Nat
            <7>1. \A r \in ProposalId : InitProposal[r].delay \in Nat
              BY FirstVersion, ScheduleProposals
            <7>. QED BY <7>1 DEF Seconds
          <6>. QED BY <1>1, <5>2, <5>3, <6>1, <6>2, <6>3 DEF DelayPasses
        <5>. QED BY <3>1, <4>2, <5>1, <5>3, <5>4
      <4>. QED BY <3>1, <4>1, <4>2
    <3>6. DelaysKept(log'[c], pending'[c])
      BY <3>4, <3>5 DEF DelaysKept
    <3>. QED BY <2>10, <3>6
  <2>. QED BY <2>9, <2>10
<1>4. ASSUME NEW c \in Chain, NEW id \in OperationID, BatchStep(c, id)
      PROVE  DelayInv'
  BY <1>3, <1>4 DEF DelayInv
<1>. QED BY <1>1, <1>2, <1>4, StepsOfTimelocks

\* No batch runs before the delay of its proposal, in whole seconds, has passed since it
\* was scheduled, whoever calls Execute and whatever else is scheduled or cancelled.
THEOREM DelaysAreHonoured ==
    ASSUME DistinctSalts
    PROVE  Spec => []DelayIsHonoured
<1>1. Init => DelayInv
  <2> SUFFICES ASSUME Init, NEW c \in Chain PROVE DOMAIN log[c] = {} /\ pending[c] = {}
    BY DEF DelayInv, DelaysKept
  <2>. QED BY DEF Init, TimelockInit
<1>2. DelayInv /\ TimelockInv /\ [Next]_vars => DelayInv'
  BY DelayStep
<1>3. DelayInv /\ TimelockInv => DelayIsHonoured
  <2> SUFFICES ASSUME DelayInv, TimelockInv, NEW p \in ProposalId, NEW v \in Versions(p), NEW i \in Batches(p),
                      NEW k \in DOMAIN log[ChainOf(p, i)],
                      Happened(ChainOf(p, i), "execute", IDs(v)[i], k)
               PROVE  \E h \in 1..k :
                        /\ Happened(ChainOf(p, i), "schedule", IDs(v)[i], h)
                        /\ 1000 * (log[ChainOf(p, i)][k].at - log[ChainOf(p, i)][h].at + 1)
                             > InitProposal[p].delay
    BY DEF DelayIsHonoured, IDs
  <2> DEFINE c == ChainOf(p, i)
             lg == log[c]
             id == IDs(v)[i]
  <2>2. c \in Chain /\ id.salt = Salt(v) /\ InitProposal[p].delay \in Nat
    BY ScheduleProposals, BatchIDs
  <2>3. lg \in Seq(Event)
    BY <2>2 DEF TimelockInv, TimelockType
  <2>4. DOMAIN lg = 1..Len(lg) /\ Len(lg) \in Nat /\ \A h \in DOMAIN lg : lg[h] \in Event
    BY <2>3
  <2>5. \A h \in DOMAIN lg : lg[h].at \in Nat
    BY <2>4 DEF Event
  <2>6. k \in DOMAIN lg /\ lg[k].event = "execute" /\ lg[k].id = id
    BY DEF Happened
  <2>7. DelaysKept(lg, pending[c])
    BY <2>2 DEF DelayInv
  <2> HIDE DEF lg, id
  <2>8. PICK h \in DOMAIN lg : h <= k /\ Schedules(lg, id, h) /\ DelayPasses(id, lg[h].at, lg[k].at)
    BY <2>6, <2>7 DEF DelaysKept
  <2>9. lg[k].at >= lg[h].at + InitProposal[p].delay \div 1000
    BY <2>2, <2>8 DEF DelayPasses, Seconds
  <2>10. 1000 * (lg[k].at - lg[h].at + 1) > InitProposal[p].delay
    <3>1. lg[k].at \in Nat /\ lg[h].at \in Nat
      BY <2>5, <2>6, <2>8
    <3>2. \A x, y, z \in Nat : x >= y + z \div 1000 => 1000 * (x - y + 1) > z
      OBVIOUS
    <3>. QED BY <2>2, <2>9, <3>1, <3>2
  <2>11. h \in 1..k
    BY <2>4, <2>6, <2>8
  <2>12. Happened(c, "schedule", id, h)
    BY <2>8 DEF Happened, Schedules, lg
  <2>. QED BY <2>10, <2>11, <2>12 DEF lg, id
<1>. QED BY <1>1, <1>2, <1>3, TimelockInvariant, PTL DEF Spec

-----------------------------------------------------------------------------
(* What is queued for scheduling is new to the timelock.                   *)

Known(c, id) == IsOperationPending(c, id) \/ IsOperationDone(c, id)

\* Operation k of an MCM's queue schedules id.
QueuedFor(m, k, id) ==
    k \in DOMAIN queue[m] /\ queue[m][k].method = "scheduleBatch" /\ CallID(queue[m][k]) = id

\* Chain c has approved schedule proposal p, converted with the salt of id.
IsScheduled(p, c, id) ==
    <<<<p, "schedule">>, c>> \in approved /\ id.salt = Salt(VersionOf(<<p, "schedule">>))

FreshInv ==
    /\ \A c \in Chain : \A id \in OperationID : Known(c, id) => \E p \in ProposalId : IsScheduled(p, c, id)
    /\ \A m \in MCM : \A k \in Nat : \A id \in OperationID : QueuedFor(m, k, id) => ~Known(m[1], id)
    /\ \A m, n \in MCM : \A k, l \in Nat : \A id \in OperationID :
         m[1] = n[1] /\ QueuedFor(m, k, id) /\ QueuedFor(n, l, id) => m = n /\ k = l

LEMMA ApprovedVersion ==
    ASSUME TimelockInv, NEW q \in Key, NEW c \in Chain, <<q, c>> \in approved
    PROVE  Converted(q) /\ VersionOf(q) \in Versions(q[1]) /\ IsConversionOf(converted[q], VersionOf(q), q)
<1>1. ObjectInv /\ Converted(q)
  BY DEF TimelockInv, QueueInv
<1>. QED BY <1>1, ConvertedFrom

\* The proposal that an operation was scheduled for is known from its salt.
LEMMA ScheduledOnce ==
    ASSUME DistinctSalts, TimelockInv, NEW p \in ProposalId, NEW c \in Chain, NEW id, IsScheduled(p, c, id),
           NEW r \in ProposalId, NEW v \in Versions(r), id.salt = Salt(v)
    PROVE  p = r
<1>1. <<p, "schedule">> \in Key
  BY DEF Key, Action
<1>2. VersionOf(<<p, "schedule">>) \in Versions(p)
  BY <1>1, ApprovedVersion DEF IsScheduled
<1>. QED BY <1>2 DEF DistinctSalts, IsScheduled

LEMMA ScheduledStays ==
    ASSUME TimelockInv, [Next]_vars, approved \subseteq approved',
           NEW p \in ProposalId, NEW c \in Chain, NEW id, IsScheduled(p, c, id)
    PROVE  IsScheduled(p, c, id)'
<1> DEFINE q == <<p, "schedule">>
<1>1. q \in Key /\ ObjectInv
  BY DEF Key, Action, TimelockInv
<1>2. Converted(q)
  BY <1>1, ApprovedVersion DEF IsScheduled
<1>3. VersionOf(q)' = VersionOf(q)
  BY <1>1, <1>2, ConversionStays
<1>4. <<q, c>> \in approved' /\ id.salt = Salt(VersionOf(q)')
  BY <1>3 DEF IsScheduled
<1>. QED BY <1>4 DEF IsScheduled, Salt

LEMMA ScheduleCalls ==
    ASSUME NEW q \in Key, NEW v \in Versions(q[1]), NEW t, NEW i, NEW c, IsBatchOf(t, v, q, i, c)
    PROVE  /\ q[2] = "schedule" => t.method = "scheduleBatch"
           /\ t.method = "scheduleBatch" =>
                /\ q = <<q[1], "schedule">> /\ q[1] \in ProposalId
                /\ CallID(t) = IDs(v)[i] /\ CallID(t) \in OperationID /\ CallID(t).salt = Salt(v)
<1>1. q[1] \in ProposalId /\ q[2] \in Action /\ q = <<q[1], q[2]>> /\ i \in Batches(q[1])
      /\ t = BatchCall(v, q[2], i)
  BY DEF Key, IsBatchOf
<1>2. q[2] # "schedule" => t.method # "scheduleBatch"
  BY <1>1 DEF BatchCall
<1>3. q[2] = "schedule" =>
        /\ t.method = "scheduleBatch" /\ t.calls = BatchCalls(q[1], i)
        /\ t.predecessor = Predecessor(v, i) /\ t.salt = Salt(v)
  BY <1>1, ScheduleProposals DEF BatchCall
<1>4. q[2] = "schedule" => CallID(t) = IDs(v)[i]
  BY <1>1, <1>3, BatchIDs DEF CallID
<1>5. IDs(v)[i] \in OperationID /\ IDs(v)[i].salt = Salt(v)
  BY <1>1, BatchIDs
<1>. QED BY <1>1, <1>2, <1>3, <1>4, <1>5

\* What is queued for scheduling comes from an approved schedule proposal.
LEMMA QueuedIsApproved ==
    ASSUME TimelockInv, NEW m \in MCM, NEW k \in Nat, NEW id, QueuedFor(m, k, id)
    PROVE  \E p \in ProposalId : IsScheduled(p, m[1], id)
<1>1. k \in DOMAIN queue[m] /\ queue[m][k].method = "scheduleBatch" /\ CallID(queue[m][k]) = id
      /\ m[1] \in Chain
  BY DEF QueuedFor, MCM
<1>2. PICK q \in Key, i \in Nat : <<q, m[1]>> \in approved /\ IsBatchOf(queue[m][k], VersionOf(q), q, i, m[1])
  BY <1>1 DEF TimelockInv, QueueInv
<1>3. VersionOf(q) \in Versions(q[1])
  BY <1>1, <1>2, ApprovedVersion
<1>4. q = <<q[1], "schedule">> /\ q[1] \in ProposalId /\ id.salt = Salt(VersionOf(q))
  BY <1>1, <1>2, <1>3, ScheduleCalls
<1>. QED BY <1>2, <1>4 DEF IsScheduled

\* How a step of the MCMs changes what is known.
LEMMA KnownAfterCall ==
    ASSUME TimelockType, NEW q \in Key, NEW i, NEW c \in Chain, CallStep(q, i, c),
           NEW id, id = IDs(VersionOf(q))[i]
    PROVE  /\ \A d \in Chain : \A x : Known(d, x)' => Known(d, x) \/ (q[2] = "schedule" /\ d = c /\ x = id)
           /\ q[2] = "cancel" => IsOperationPending(c, id) /\ ~IsOperationPending(c, id)' /\ UNCHANGED doneOps
<1> DEFINE delay == Seconds(InitProposal[q[1]].delay)
<1>1. CASE q[2] = "schedule" /\ ScheduleStep(c, id, delay)
  <2> HIDE DEF delay
  <2>1. doneOps' = doneOps /\ pending' = [pending EXCEPT ![c] = @ \cup {[id |-> id, readyAt |-> now + delay]}]
    BY <1>1 DEF ScheduleStep
  <2>2. \A d \in Chain : \A o \in pending'[d] : o \in pending[d] \/ (d = c /\ o.id = id)
    BY <2>1 DEF TimelockType
  <2>3. \A d \in Chain : \A x : Known(d, x)' => Known(d, x) \/ (d = c /\ x = id)
    BY <2>1, <2>2 DEF Known, IsOperationPending, IsOperationDone
  <2>. QED BY <1>1, <2>3
<1>2. CASE q[2] = "cancel" /\ CancelStep(c, id)
  <2> HIDE DEF delay
  <2>1. doneOps' = doneOps /\ pending' = [pending EXCEPT ![c] = {o \in @ : o.id # id}]
    BY <1>2 DEF CancelStep
  <2>2. \A d \in Chain : \A o \in pending'[d] : o \in pending[d] /\ (d = c => o.id # id)
    BY <2>1 DEF TimelockType
  <2>3. \A d \in Chain : \A x : Known(d, x)' => Known(d, x)
    BY <2>1, <2>2 DEF Known, IsOperationPending, IsOperationDone
  <2>4. IsOperationPending(c, id)
    BY <1>2 DEF CancelStep
  <2>5. ~ \E o \in pending'[c] : o.id = id
    BY <2>2
  <2>. QED BY <1>2, <2>1, <2>3, <2>4, <2>5 DEF IsOperationPending
<1>3. CASE q[2] = "bypass" /\ UNCHANGED <<timelockVars, now>>
  BY <1>3 DEF Known, IsOperationPending, IsOperationDone, timelockVars
<1>. QED BY <1>1, <1>2, <1>3 DEF CallStep

\* The other steps leave the queues alone, and what is known.
LEMMA StepsOfQueues ==
    ASSUME TimelockInv, [Next]_vars
    PROVE  \/ UNCHANGED <<queue, approved>> /\ \A c \in Chain : \A x : Known(c, x)' => Known(c, x)
           \/ \E q \in Key : \E c \in Chain : SetRoot(q, c)
           \/ \E m \in MCM : ExecuteNext(m)
<1> DEFINE Same == UNCHANGED <<queue, approved>> /\ \A c \in Chain : \A x : Known(c, x)' => Known(c, x)
<1>1. TimelockType /\ ObjectInv
  BY DEF TimelockInv
<1>2. CASE UNCHANGED <<mcmVars, timelockVars>>
  <2>1. Same
    BY <1>2 DEF mcmVars, timelockVars, Known, IsOperationPending, IsOperationDone
  <2>. QED BY <2>1
<1>3. ASSUME NEW p \in ProposalId, NEW i \in Batches(p), Execute(p, i)
      PROVE  Same
  <2>1. PICK c \in Chain, id \in OperationID : ExecuteStep(c, id) /\ UNCHANGED mcmVars
    <3>1. ChainOf(p, i) \in Chain
      BY FirstVersion, ScheduleProposals
    <3>. QED BY <1>1, <1>3, <3>1, ExecuteCalls
  <2>2. \E o \in pending[c] : o.id = id
    BY <2>1 DEF ExecuteStep, IsOperationReady
  <2>3. \A d \in Chain : \A o \in pending'[d] : o \in pending[d]
    BY <1>1, <2>1 DEF ExecuteStep, TimelockType
  <2>4. \A d \in Chain : \A x \in doneOps'[d] : x \in doneOps[d] \/ (d = c /\ x = id)
    BY <1>1, <2>1 DEF ExecuteStep, TimelockType
  <2>5. \A d \in Chain : \A x : Known(d, x)' => Known(d, x)
    BY <2>2, <2>3, <2>4 DEF Known, IsOperationPending, IsOperationDone
  <2>. QED BY <2>1, <2>5 DEF mcmVars
<1>4. ASSUME NEW d \in Derivations, Derive(d[1], d[2]) \/ DeriveFails(d[1], d[2])
      PROVE  UNCHANGED <<mcmVars, timelockVars>>
  BY <1>4 DEF Derive, DeriveFails
<1>5. ASSUME NEW q \in Key, ConvertProposal(q)
      PROVE  UNCHANGED <<mcmVars, timelockVars>>
  BY <1>5 DEF ConvertProposal
<1>6. ASSUME NEW p \in ProposalId, NewTimelockExecutable(p)
      PROVE  UNCHANGED <<mcmVars, timelockVars>>
  BY <1>6 DEF NewTimelockExecutable
<1>7. Tick => UNCHANGED <<mcmVars, timelockVars>>
  BY DEF Tick
<1>8. UNCHANGED vars => UNCHANGED <<mcmVars, timelockVars>>
  BY DEF vars
<1>9. ASSUME NEW p \in ProposalId, NEW e \in Edits[p], Edit(p, e)
      PROVE  UNCHANGED <<mcmVars, timelockVars>>
  BY <1>9 DEF Edit
<1>. QED BY <1>2, <1>3, <1>4, <1>5, <1>6, <1>7, <1>8, <1>9 DEF Next, Batches

LEMMA QueueAfterExecute ==
    ASSUME QueueInv, NEW m \in MCM, ExecuteNext(m)
    PROVE  /\ UNCHANGED approved /\ DOMAIN queue[m] # {} /\ Head(queue[m]) = queue[m][1] /\ 1 \in DOMAIN queue[m]
           /\ \A n \in MCM : 0 \notin DOMAIN queue'[n] /\ DOMAIN queue[n] \subseteq Nat
           /\ \A n \in MCM : n # m => queue'[n] = queue[n]
           /\ \A k \in DOMAIN queue'[m] : k + 1 \in DOMAIN queue[m] /\ queue'[m][k] = queue[m][k + 1]
           /\ \A l \in DOMAIN queue[m] : l = 1 \/ \E k \in DOMAIN queue'[m] : queue'[m][k] = queue[m][l]
<1>1. queue[m] # <<>> /\ queue' = [queue EXCEPT ![m] = Tail(@)] /\ UNCHANGED approved
  BY DEF ExecuteNext
<1>2. queue \in [MCM -> Seq(AnyCall)]
  BY DEF QueueInv
<1>3. queue'[m] = Tail(queue[m]) /\ \A n \in MCM : n # m => queue'[n] = queue[n]
  BY <1>1, <1>2
<1>4. queue[m] \in Seq(AnyCall)
  BY <1>2
<1>5. PICK len \in Nat : len = Len(queue[m]) /\ len # 0 /\ DOMAIN queue[m] = 1..len
  BY <1>1, <1>4
<1>6. /\ Head(queue[m]) = queue[m][1] /\ DOMAIN Tail(queue[m]) = 1..(len - 1)
      /\ \A k \in 1..(len - 1) : Tail(queue[m])[k] = queue[m][k + 1]
  BY <1>1, <1>4, <1>5
<1>7. \A n \in MCM : DOMAIN queue[n] \subseteq Nat /\ 0 \notin DOMAIN queue[n]
  BY <1>2
<1>8. \A k \in DOMAIN queue'[m] : k # 0 /\ k + 1 \in DOMAIN queue[m] /\ queue'[m][k] = queue[m][k + 1]
  BY <1>3, <1>5, <1>6
<1>9. \A l \in DOMAIN queue[m] : l = 1 \/ (l - 1 \in DOMAIN queue'[m] /\ queue'[m][l - 1] = queue[m][l])
  <2> TAKE l \in DOMAIN queue[m]
  <2>1. l # 1 => l - 1 \in 1..(len - 1) /\ (l - 1) + 1 = l
    BY <1>5
  <2>. QED BY <1>3, <1>6, <2>1
<1>10. \A n \in MCM : 0 \notin DOMAIN queue'[n]
  BY <1>3, <1>7, <1>8
<1>11. DOMAIN queue[m] # {} /\ 1 \in DOMAIN queue[m]
  BY <1>5
<1>. QED BY <1>1, <1>3, <1>6, <1>7, <1>8, <1>9, <1>10, <1>11

LEMMA QueueAfterSetRoot ==
    ASSUME QueueInv, ObjectInv, NEW q \in Key, NEW c \in Chain, SetRoot(q, c)
    PROVE  /\ approved' = approved \cup {<<q, c>>} /\ <<q, c>> \notin approved /\ UNCHANGED timelockVars
           /\ \E m \in MCM :
                /\ m[1] = c /\ queue[m] = <<>> /\ DOMAIN queue[m] = {}
                /\ \A n \in MCM : n # m => queue'[n] = queue[n]
                /\ IsBacklogOf(queue'[m], VersionOf(q), q, c)
<1> DEFINE m == <<c, converted[q].chainMetadata[c]>>
           ts == TransactionsOn(converted[q], c)
<1>1. Converted(q) /\ IsConversionOf(converted[q], VersionOf(q), q)
  BY ConvertedFrom DEF SetRoot
<1>2. m \in MCM /\ m[1] = c
  BY <1>1 DEF SetRoot, IsConversionOf, MCM
<1>3. /\ queue[m] = <<>> /\ queue' = [queue EXCEPT ![m] = ts]
      /\ approved' = approved \cup {<<q, c>>} /\ <<q, c>> \notin approved /\ UNCHANGED timelockVars
  BY DEF SetRoot
<1>4. IsBacklogOf(ts, VersionOf(q), q, c)
  BY <1>1, TransactionsInOrder
<1> HIDE DEF m, ts
<1>5. queue'[m] = ts /\ \A n \in MCM : n # m => queue'[n] = queue[n]
  BY <1>2, <1>3 DEF QueueInv
<1>6. DOMAIN queue[m] = {}
  BY <1>3
<1>. QED BY <1>2, <1>3, <1>4, <1>5, <1>6

LEMMA FreshStep ==
    ASSUME DistinctSalts, FreshInv, TimelockInv, [Next]_vars
    PROVE  FreshInv'
<1>1. TimelockType /\ ObjectInv /\ QueueInv
  BY DEF TimelockInv
<1>2. CASE UNCHANGED <<queue, approved>> /\ \A c \in Chain : \A x : Known(c, x)' => Known(c, x)
  <2>1. \A m, k, id : QueuedFor(m, k, id)' <=> QueuedFor(m, k, id)
    BY <1>2 DEF QueuedFor
  <2>2. \A m \in MCM : m[1] \in Chain
    BY DEF MCM
  <2>3. \A p \in ProposalId, c \in Chain : \A id : IsScheduled(p, c, id) => IsScheduled(p, c, id)'
    BY <1>2, ScheduledStays
  <2>. QED BY <1>2, <2>1, <2>2, <2>3 DEF FreshInv
<1>3. ASSUME NEW q \in Key, NEW c \in Chain, SetRoot(q, c)
      PROVE  FreshInv'
  <2>1. /\ approved' = approved \cup {<<q, c>>} /\ <<q, c>> \notin approved /\ UNCHANGED timelockVars
    BY <1>1, <1>3, QueueAfterSetRoot
  <2>2. PICK m \in MCM :
          /\ m[1] = c
          /\ \A n \in MCM : n # m => queue'[n] = queue[n]
          /\ IsBacklogOf(queue'[m], VersionOf(q), q, c)
    BY <1>1, <1>3, QueueAfterSetRoot
  <2>3. PICK order \in [DOMAIN queue'[m] -> Batches(q[1])] :
               /\ \A k \in DOMAIN order : IsBatchOf(queue'[m][k], VersionOf(q), q, order[k], c)
               /\ \A j, k \in DOMAIN order : order[j] = order[k] => j = k
    BY <2>2 DEF IsBacklogOf
  <2>4. \A d, x : Known(d, x)' <=> Known(d, x)
    BY <2>1 DEF timelockVars, Known, IsOperationPending, IsOperationDone
  <2>5. \A n \in MCM : \A k, id : n # m => (QueuedFor(n, k, id)' <=> QueuedFor(n, k, id))
    BY <2>2 DEF QueuedFor
  <2>a. VersionOf(q) \in Versions(q[1])
    BY <1>1, <1>3, ConvertedFrom DEF SetRoot
  <2>6. ASSUME NEW k, NEW id, QueuedFor(m, k, id)'
        PROVE  /\ k \in DOMAIN order /\ q = <<q[1], "schedule">> /\ q[1] \in ProposalId
               /\ id = IDs(VersionOf(q))[order[k]] /\ id.salt = Salt(VersionOf(q))
    <3>1. k \in DOMAIN queue'[m] /\ queue'[m][k].method = "scheduleBatch" /\ CallID(queue'[m][k]) = id
      BY <2>6 DEF QueuedFor, CallID
    <3>2. IsBatchOf(queue'[m][k], VersionOf(q), q, order[k], c)
      BY <2>3, <3>1
    <3>. QED BY <2>a, <3>1, <3>2, ScheduleCalls
  <2>7. ASSUME NEW k, NEW id, QueuedFor(m, k, id)', NEW p \in ProposalId, IsScheduled(p, c, id)
        PROVE  FALSE
    <3>1. q = <<q[1], "schedule">> /\ q[1] = p
      BY <2>a, <2>6, <2>7, ScheduledOnce
    <3>. QED BY <2>1, <2>7, <3>1 DEF IsScheduled
  <2>8. \A d \in Chain : \A id \in OperationID : Known(d, id)' =>
          \E p \in ProposalId : IsScheduled(p, d, id)'
    BY <2>1, <2>4, ScheduledStays DEF FreshInv
  <2>9. ASSUME NEW n \in MCM, NEW k \in Nat, NEW id \in OperationID, QueuedFor(n, k, id)', Known(n[1], id)'
        PROVE  FALSE
    <3>1. Known(n[1], id)
      BY <2>4, <2>9
    <3>2. CASE n = m
      <4>1. \E p \in ProposalId : IsScheduled(p, c, id)
        BY <2>2, <3>1, <3>2 DEF FreshInv
      <4>. QED BY <2>7, <2>9, <3>2, <4>1
    <3>3. CASE n # m
      BY <2>5, <2>9, <3>1, <3>3 DEF FreshInv
    <3>. QED BY <3>2, <3>3
  <2>10. ASSUME NEW n \in MCM, n # m, n[1] = c, NEW k \in Nat, NEW l \in Nat, NEW id \in OperationID,
                QueuedFor(m, k, id)', QueuedFor(n, l, id)'
         PROVE  FALSE
    <3>1. QueuedFor(n, l, id)
      BY <2>5, <2>10
    <3>2. \E p \in ProposalId : IsScheduled(p, c, id)
      BY <1>1, <2>10, <3>1, QueuedIsApproved
    <3>. QED BY <2>7, <2>10, <3>2
  <2>11. ASSUME NEW k \in Nat, NEW l \in Nat, NEW id \in OperationID,
                QueuedFor(m, k, id)', QueuedFor(m, l, id)'
         PROVE  k = l
    <3>1. /\ k \in DOMAIN order /\ l \in DOMAIN order /\ q[1] \in ProposalId
          /\ IDs(VersionOf(q))[order[k]] = IDs(VersionOf(q))[order[l]]
      BY <2>6, <2>11
    <3>2. /\ order[k] \in Batches(q[1]) /\ order[l] \in Batches(q[1])
          /\ ChainOf(q[1], order[k]) = c /\ ChainOf(q[1], order[l]) = c
      BY <2>3, <3>1 DEF IsBatchOf
    <3>3. order[k] = order[l]
      BY <2>a, <3>1, <3>2, BatchIDsDiffer
    <3>. QED BY <2>3, <3>1, <3>3
  <2>12. ASSUME NEW n \in MCM, NEW r \in MCM, NEW k \in Nat, NEW l \in Nat, NEW id \in OperationID,
                n[1] = r[1], QueuedFor(n, k, id)', QueuedFor(r, l, id)'
         PROVE  n = r /\ k = l
    <3>1. CASE n = m /\ r = m
      BY <2>11, <2>12, <3>1
    <3>2. CASE n = m /\ r # m
      BY <2>2, <2>10, <2>12, <3>2
    <3>3. CASE n # m /\ r = m
      BY <2>2, <2>10, <2>12, <3>3
    <3>4. CASE n # m /\ r # m
      BY <2>5, <2>12, <3>4 DEF FreshInv
    <3>. QED BY <3>1, <3>2, <3>3, <3>4
  <2>. QED BY <2>8, <2>9, <2>12 DEF FreshInv
<1>4. ASSUME NEW m \in MCM, ExecuteNext(m)
      PROVE  FreshInv'
  <2>1. PICK q \in Key, i \in Nat :
          <<q, m[1]>> \in approved /\ IsBatchOf(Head(queue[m]), VersionOf(q), q, i, m[1]) /\ CallStep(q, i, m[1])
    BY <1>1, <1>4, ExecuteNextCalls
  <2> DEFINE c == m[1]
  <2>0. PICK id0 : id0 = IDs(VersionOf(q))[i]
    OBVIOUS
  <2>2. c \in Chain /\ q[1] \in ProposalId /\ i \in Batches(q[1])
    BY <2>1 DEF MCM, Key, IsBatchOf
  <2>a. VersionOf(q) \in Versions(q[1])
    BY <2>1, <2>2, ApprovedVersion
  <2>3. \A d \in Chain : \A x : Known(d, x)' => Known(d, x) \/ (q[2] = "schedule" /\ d = c /\ x = id0)
    BY <1>1, <2>0, <2>1, <2>2, KnownAfterCall
  <2>4. approved' = approved /\ 1 \in DOMAIN queue[m] /\ Head(queue[m]) = queue[m][1]
    BY <1>1, <1>4, QueueAfterExecute
  <2>5. ASSUME NEW n \in MCM, NEW k \in Nat, NEW id, QueuedFor(n, k, id)'
        PROVE  QueuedFor(n, IF n = m THEN k + 1 ELSE k, id) /\ k # 0
    <3>1. k \in DOMAIN queue'[n] /\ queue'[n][k].method = "scheduleBatch" /\ CallID(queue'[n][k]) = id
      BY <2>5 DEF QueuedFor, CallID
    <3>2. LET l == IF n = m THEN k + 1 ELSE k
          IN  l \in DOMAIN queue[n] /\ queue'[n][k] = queue[n][l]
      BY <1>1, <1>4, <3>1, QueueAfterExecute
    <3>3. k # 0
      BY <1>1, <1>4, <3>1, QueueAfterExecute
    <3>. QED BY <3>1, <3>2, <3>3 DEF QueuedFor
  <2>6. q[2] = "schedule" => QueuedFor(m, 1, id0) /\ id0 \in OperationID
                             /\ q = <<q[1], "schedule">> /\ id0.salt = Salt(VersionOf(q))
    <3>1. q[2] = "schedule" => Head(queue[m]).method = "scheduleBatch"
      BY <2>1, <2>a, ScheduleCalls
    <3>2. q[2] = "schedule" => /\ CallID(Head(queue[m])) = id0 /\ id0 \in OperationID
                               /\ q = <<q[1], "schedule">> /\ id0.salt = Salt(VersionOf(q))
      BY <2>0, <2>1, <2>a, <3>1, ScheduleCalls
    <3>. QED BY <2>4, <3>1, <3>2 DEF QueuedFor
  <2> HIDE DEF c
  <2>7. \A d \in Chain : \A id \in OperationID : Known(d, id)' =>
          \E p \in ProposalId : IsScheduled(p, d, id)'
    <3> SUFFICES ASSUME NEW d \in Chain, NEW id \in OperationID, Known(d, id)'
                 PROVE  \E p \in ProposalId : IsScheduled(p, d, id)'
      OBVIOUS
    <3>1. CASE Known(d, id)
      BY <2>4, <3>1, ScheduledStays DEF FreshInv
    <3>2. CASE ~Known(d, id)
      <4>1. q[2] = "schedule" /\ d = c /\ id = id0
        BY <2>3, <3>2
      <4>2. IsScheduled(q[1], d, id)
        BY <2>1, <2>6, <4>1 DEF c, IsScheduled
      <4>. QED BY <2>2, <2>4, <4>2, ScheduledStays
    <3>. QED BY <3>1, <3>2
  <2>8. ASSUME NEW n \in MCM, NEW k \in Nat, NEW id \in OperationID, QueuedFor(n, k, id)', Known(n[1], id)'
        PROVE  FALSE
    <3>1. PICK l \in Nat : QueuedFor(n, l, id) /\ k # 0 /\ (n = m => l = k + 1)
      <4>1. (IF n = m THEN k + 1 ELSE k) \in Nat
        OBVIOUS
      <4>. QED BY <2>5, <2>8, <4>1
    <3>2. ~Known(n[1], id) /\ n[1] \in Chain
      BY <3>1 DEF FreshInv, MCM
    <3>3. q[2] = "schedule" /\ n[1] = c /\ id = id0
      BY <2>3, <2>8, <3>2
    <3>4. QueuedFor(m, 1, id) /\ n[1] = m[1]
      BY <2>6, <3>3 DEF c
    <3>5. n = m /\ l = 1
      BY <3>1, <3>4 DEF FreshInv
    <3>. QED BY <3>1, <3>5
  <2>9. ASSUME NEW n \in MCM, NEW r \in MCM, NEW k \in Nat, NEW l \in Nat, NEW id \in OperationID,
               n[1] = r[1], QueuedFor(n, k, id)', QueuedFor(r, l, id)'
        PROVE  n = r /\ k = l
    <3>1. /\ QueuedFor(n, IF n = m THEN k + 1 ELSE k, id)
          /\ QueuedFor(r, IF r = m THEN l + 1 ELSE l, id)
      BY <2>5, <2>9
    <3>2. (IF n = m THEN k + 1 ELSE k) \in Nat /\ (IF r = m THEN l + 1 ELSE l) \in Nat
      OBVIOUS
    <3>3. n = r /\ (IF n = m THEN k + 1 ELSE k) = (IF r = m THEN l + 1 ELSE l)
      BY <2>9, <3>1, <3>2 DEF FreshInv
    <3>. QED BY <3>3
  <2>. QED BY <2>7, <2>8, <2>9 DEF FreshInv
<1>. QED BY <1>2, <1>3, <1>4, StepsOfQueues

LEMMA FreshInit == Init => FreshInv
<1> SUFFICES ASSUME Init PROVE FreshInv
  OBVIOUS
<1>1. \A c \in Chain : \A id : ~Known(c, id)
  BY DEF Init, TimelockInit, Known, IsOperationPending, IsOperationDone
<1>2. \A m \in MCM : \A k, id : ~QueuedFor(m, k, id)
  BY DEF Init, QueuedFor
<1>. QED BY <1>1, <1>2 DEF FreshInv

\* No operation of a schedule proposal ever blocks its MCM because the timelock knows
\* its ID already: predecessors tell the batches of one proposal apart, salts those of
\* different proposals, and a proposal is approved once on a chain.
THEOREM SchedulesAreNeverBlocked ==
    ASSUME DistinctSalts
    PROVE  Spec => []ScheduleIsNeverBlocked
<1>1. FreshInv /\ TimelockInv /\ [Next]_vars => FreshInv'
  BY FreshStep
<1>2. FreshInv /\ TimelockInv => ScheduleIsNeverBlocked
  <2> SUFFICES ASSUME FreshInv, TimelockInv, NEW m \in MCM, queue[m] # <<>>,
                      Head(queue[m]).method = "scheduleBatch"
               PROVE  LET id == CallID(Head(queue[m]))
                      IN  ~IsOperationPending(m[1], id) /\ ~IsOperationDone(m[1], id)
    BY DEF ScheduleIsNeverBlocked, CallID
  <2> DEFINE id == CallID(Head(queue[m]))
  <2>1. QueueInv /\ queue[m] \in Seq(AnyCall) /\ m[1] \in Chain
    BY DEF TimelockInv, QueueInv, MCM
  <2>2. 1 \in DOMAIN queue[m] /\ Head(queue[m]) = queue[m][1]
    BY <2>1
  <2>3. PICK q \in Key, i \in Nat : <<q, m[1]>> \in approved /\ IsBatchOf(queue[m][1], VersionOf(q), q, i, m[1])
    BY <2>1, <2>2 DEF QueueInv
  <2>4. id \in OperationID
    BY <2>1, <2>2, <2>3, ApprovedVersion, ScheduleCalls
  <2>5. QueuedFor(m, 1, id)
    BY <2>2 DEF QueuedFor
  <2>. QED BY <2>4, <2>5 DEF FreshInv, Known
<1>. QED BY <1>1, <1>2, FreshInit, TimelockInvariant, PTL DEF Spec

-----------------------------------------------------------------------------
(* Cancellations: each batch of an approved one waits to be cancelled, or  *)
(* is gone for good.                                                       *)

CancelQueued(c, id) ==
    \E m \in MCM : m[1] = c /\ \E k \in DOMAIN queue[m] : queue[m][k] = [method |-> "cancel", id |-> id]

\* The timelock does not know the batch and nobody will schedule it again.
Gone(p, c, id) ==
    /\ ~Known(c, id)
    /\ IsScheduled(p, c, id)
    /\ \A m \in MCM : \A k \in Nat : m[1] = c => ~QueuedFor(m, k, id)

CancelInv ==
    \A p \in ProposalId, c \in Chain : <<<<p, "cancel">>, c>> \in approved =>
        \A i \in Batches(p), id \in OperationID :
            ChainOf(p, i) = c /\ id = IDs(VersionOf(<<p, "cancel">>))[i] =>
                CancelQueued(c, id) \/ Gone(p, c, id)

LEMMA CancelCalls ==
    ASSUME NEW q \in Key, NEW v, NEW i, NEW id, BatchCall(v, q[2], i) = [method |-> "cancel", id |-> id]
    PROVE  q[2] = "cancel" /\ id = IDs(v)[i]
<1>1. BatchCall(v, q[2], i).method = "cancel" /\ BatchCall(v, q[2], i).id = id
  OBVIOUS
<1>2. q[2] = "cancel"
  BY <1>1 DEF BatchCall
<1>. QED BY <1>1, <1>2 DEF BatchCall

\* One batch of a cancellation: id is what it cancels.
LEMMA CancelStepKeeps ==
    ASSUME DistinctSalts, FreshInv, TimelockInv, [Next]_vars,
           NEW p \in ProposalId, NEW c \in Chain, <<<<p, "cancel">>, c>> \in approved',
           NEW i \in Batches(p), ChainOf(p, i) = c,
           NEW v \in Versions(p), v = VersionOf(<<p, "cancel">>), NEW id, id = IDs(v)[i],
           <<<<p, "cancel">>, c>> \in approved => CancelQueued(c, id) \/ Gone(p, c, id)
    PROVE  CancelQueued(c, id)' \/ Gone(p, c, id)'
<1>1. TimelockType /\ ObjectInv /\ QueueInv /\ LogInv
  BY DEF TimelockInv
<1>2. id \in OperationID /\ id.salt = Salt(v)
  BY BatchIDs
<1>3. \A r \in ProposalId, d \in Chain : IsScheduled(r, d, id) => r = p
  BY <1>2, ScheduledOnce
<1>a. approved \subseteq approved' => (IsScheduled(p, c, id) => IsScheduled(p, c, id)')
  BY ScheduledStays
<1>4. CASE UNCHANGED <<queue, approved>> /\ \A d \in Chain : \A x : Known(d, x)' => Known(d, x)
  <2>1. CancelQueued(c, id) \/ Gone(p, c, id)
    BY <1>4
  <2>2. CancelQueued(c, id) => CancelQueued(c, id)'
    BY <1>4 DEF CancelQueued
  <2>3. Gone(p, c, id) => Gone(p, c, id)'
    BY <1>a, <1>4 DEF Gone, QueuedFor
  <2>. QED BY <2>1, <2>2, <2>3
<1>5. ASSUME NEW q \in Key, NEW d \in Chain, SetRoot(q, d)
      PROVE  CancelQueued(c, id)' \/ Gone(p, c, id)'
  <2>1. approved' = approved \cup {<<q, d>>} /\ <<q, d>> \notin approved /\ UNCHANGED timelockVars
    BY <1>1, <1>5, QueueAfterSetRoot
  <2>2. PICK m \in MCM : /\ m[1] = d /\ DOMAIN queue[m] = {}
                         /\ \A n \in MCM : n # m => queue'[n] = queue[n]
                         /\ IsBacklogOf(queue'[m], VersionOf(q), q, d)
    BY <1>1, <1>5, QueueAfterSetRoot
  <2>3. PICK order \in [DOMAIN queue'[m] -> Batches(q[1])] :
          /\ \A k \in DOMAIN order : IsBatchOf(queue'[m][k], VersionOf(q), q, order[k], d)
          /\ \A j \in Batches(q[1]) : ChainOf(q[1], j) = d => \E k \in DOMAIN order : order[k] = j
    BY <2>2 DEF IsBacklogOf
  <2>4. CASE <<<<p, "cancel">>, c>> \notin approved
    <3>1. q = <<p, "cancel">> /\ d = c /\ q[1] = p /\ q[2] = "cancel"
      BY <2>1, <2>4
    <3>2. PICK k \in DOMAIN order : order[k] = i
      BY <2>3, <3>1
    <3>3. k \in DOMAIN queue'[m] /\ queue'[m][k] = [method |-> "cancel", id |-> id]
      BY <2>3, <3>1, <3>2 DEF IsBatchOf, BatchCall
    <3>4. \E n \in MCM : n[1] = c /\ \E l \in DOMAIN queue'[n] : queue'[n][l] = [method |-> "cancel", id |-> id]
      BY <2>2, <3>1, <3>3
    <3>. QED BY <3>4 DEF CancelQueued
  <2>5. CASE <<<<p, "cancel">>, c>> \in approved
    <3>1. CancelQueued(c, id) \/ Gone(p, c, id)
      BY <2>5
    <3>2. CASE CancelQueued(c, id)
      <4>1. PICK n \in MCM : n[1] = c /\ \E k \in DOMAIN queue[n] : queue[n][k] = [method |-> "cancel", id |-> id]
        BY <3>2 DEF CancelQueued
      <4>2. n # m
        BY <2>2, <4>1
      <4>3. queue'[n] = queue[n]
        BY <2>2, <4>2
      <4>. QED BY <4>1, <4>3 DEF CancelQueued
    <3>3. CASE Gone(p, c, id)
      <4>1. ~Known(c, id)' /\ <<<<p, "schedule">>, c>> \in approved /\ IsScheduled(p, c, id)'
        BY <1>a, <2>1, <3>3 DEF Gone, IsScheduled, timelockVars, Known, IsOperationPending, IsOperationDone
      <4>2. ASSUME NEW n \in MCM, NEW k \in Nat, n[1] = c, QueuedFor(n, k, id)'
            PROVE  FALSE
        <5>1. CASE n # m
          <6>1. QueuedFor(n, k, id)
            BY <2>2, <4>2, <5>1 DEF QueuedFor
          <6>. QED BY <3>3, <4>2, <6>1 DEF Gone
        <5>2. CASE n = m
          <6>1. k \in DOMAIN queue'[m] /\ queue'[m][k].method = "scheduleBatch" /\ CallID(queue'[m][k]) = id
            BY <4>2, <5>2 DEF QueuedFor, CallID
          <6>2. IsBatchOf(queue'[m][k], VersionOf(q), q, order[k], d)
            BY <2>3, <6>1
          <6>a. VersionOf(q) \in Versions(q[1])
            BY <1>1, <1>5, ConvertedFrom DEF SetRoot
          <6>3. q = <<q[1], "schedule">> /\ q[1] \in ProposalId /\ id.salt = Salt(VersionOf(q))
            BY <6>a, <6>1, <6>2, ScheduleCalls
          <6>4. q = <<p, "schedule">> /\ d = c
            BY <1>2, <2>2, <4>2, <5>2, <6>a, <6>3 DEF DistinctSalts
          <6>. QED BY <2>1, <4>1, <6>4
        <5>. QED BY <5>1, <5>2
      <4>. QED BY <4>1, <4>2 DEF Gone
    <3>. QED BY <3>1, <3>2, <3>3
  <2>. QED BY <2>4, <2>5
<1>6. ASSUME NEW m \in MCM, ExecuteNext(m)
      PROVE  CancelQueued(c, id)' \/ Gone(p, c, id)'
  <2>1. PICK q \in Key, j \in Nat :
          <<q, m[1]>> \in approved /\ IsBatchOf(Head(queue[m]), VersionOf(q), q, j, m[1]) /\ CallStep(q, j, m[1])
    BY <1>1, <1>6, ExecuteNextCalls
  <2>2. m[1] \in Chain /\ j \in Batches(q[1]) /\ Head(queue[m]) = BatchCall(VersionOf(q), q[2], j)
    BY <2>1 DEF MCM, IsBatchOf
  <2>a. VersionOf(q) \in Versions(q[1])
    BY <2>1, <2>2, ApprovedVersion
  <2>b. PICK jd : jd = IDs(VersionOf(q))[j]
    OBVIOUS
  <2>3. \A d \in Chain : \A x : Known(d, x)' =>
          Known(d, x) \/ (q[2] = "schedule" /\ d = m[1] /\ x = jd)
    BY <1>1, <2>1, <2>2, <2>b, KnownAfterCall
  <2>4. q[2] = "cancel" => /\ IsOperationPending(m[1], jd)
                           /\ ~IsOperationPending(m[1], jd)'
                           /\ UNCHANGED doneOps
    BY <1>1, <2>1, <2>2, <2>b, KnownAfterCall
  <2>5. /\ approved' = approved /\ 1 \in DOMAIN queue[m] /\ Head(queue[m]) = queue[m][1]
        /\ \A n \in MCM : n # m => queue'[n] = queue[n]
        /\ \A k \in DOMAIN queue'[m] : k + 1 \in DOMAIN queue[m] /\ queue'[m][k] = queue[m][k + 1]
        /\ \A l \in DOMAIN queue[m] : l = 1 \/ \E k \in DOMAIN queue'[m] : queue'[m][k] = queue[m][l]
    BY <1>1, <1>6, QueueAfterExecute
  <2>6. ASSUME NEW n \in MCM, NEW k \in Nat, QueuedFor(n, k, id)'
        PROVE  \E l \in Nat : QueuedFor(n, l, id)
    <3>1. CASE n = m
      <4>1. k + 1 \in DOMAIN queue[m] /\ queue'[m][k] = queue[m][k + 1]
        BY <2>5, <2>6, <3>1 DEF QueuedFor
      <4>2. QueuedFor(m, k + 1, id)
        BY <2>6, <3>1, <4>1 DEF QueuedFor, CallID
      <4>. QED BY <3>1, <4>2
    <3>2. CASE n # m
      <4>1. QueuedFor(n, k, id)
        BY <2>5, <2>6, <3>2 DEF QueuedFor
      <4>. QED BY <4>1
    <3>. QED BY <3>1, <3>2
  <2>7. CancelQueued(c, id) \/ Gone(p, c, id)
    BY <2>5
  <2>8. CASE Gone(p, c, id)
    <3>1. ~Known(c, id) /\ IsScheduled(p, c, id)'
          /\ \A n \in MCM : \A k \in Nat : n[1] = c => ~QueuedFor(n, k, id)
      BY <1>a, <2>5, <2>8 DEF Gone
    <3>2. \A n \in MCM : \A k \in Nat : n[1] = c => ~QueuedFor(n, k, id)'
      BY <2>6, <3>1
    <3>3. ~Known(c, id)'
      <4> SUFFICES ASSUME Known(c, id)' PROVE FALSE
        OBVIOUS
      <4>1. q[2] = "schedule" /\ c = m[1] /\ id = jd
        BY <2>3, <3>1
      <4>2. Head(queue[m]).method = "scheduleBatch"
        BY <2>1, <2>a, <4>1, ScheduleCalls
      <4>3. CallID(Head(queue[m])) = id
        BY <2>1, <2>a, <2>b, <4>1, <4>2, ScheduleCalls
      <4>4. QueuedFor(m, 1, id)
        BY <2>5, <4>2, <4>3 DEF QueuedFor
      <4>. QED BY <3>1, <4>1, <4>4
    <3>. QED BY <3>1, <3>2, <3>3 DEF Gone
  <2>9. CASE CancelQueued(c, id)
    <3>1. PICK n \in MCM : n[1] = c /\ \E l \in DOMAIN queue[n] : queue[n][l] = [method |-> "cancel", id |-> id]
      BY <2>9 DEF CancelQueued
    <3>2. PICK l \in DOMAIN queue[n] : queue[n][l] = [method |-> "cancel", id |-> id]
      BY <3>1
    <3>3. CASE n # m
      <4>1. queue'[n] = queue[n]
        BY <2>5, <3>3
      <4>. QED BY <3>1, <4>1 DEF CancelQueued
    <3>4. CASE n = m /\ l # 1
      <4>1. \E k \in DOMAIN queue'[n] : queue'[n][k] = [method |-> "cancel", id |-> id]
        BY <2>5, <3>2, <3>4
      <4>. QED BY <3>1, <4>1 DEF CancelQueued
    <3>5. CASE n = m /\ l = 1
      <4>1. BatchCall(VersionOf(q), q[2], j) = [method |-> "cancel", id |-> id]
        BY <2>2, <2>5, <3>2, <3>5
      <4>2. q[2] = "cancel" /\ jd = id
        BY <2>b, <4>1, CancelCalls
      <4>3. IsOperationPending(c, id) /\ ~IsOperationPending(c, id)' /\ doneOps' = doneOps
        BY <2>4, <3>1, <3>5, <4>2
      <4>4. ~IsOperationDone(c, id)
        <5>1. \A o \in pending[c] : o.id \notin doneOps[c]
          BY <1>1 DEF LogInv, ExecutedInOrder
        <5>. QED BY <4>3, <5>1 DEF IsOperationPending, IsOperationDone
      <4>5. ~Known(c, id)'
        BY <4>3, <4>4 DEF Known, IsOperationDone
      <4>6. Known(c, id)
        BY <4>3 DEF Known
      <4>7. IsScheduled(p, c, id)'
        BY <1>2, <1>3, <1>a, <2>5, <4>6 DEF FreshInv
      <4>8. \A n2 \in MCM : \A k \in Nat : n2[1] = c => ~QueuedFor(n2, k, id)'
        BY <1>2, <2>6, <4>6 DEF FreshInv
      <4>. QED BY <4>5, <4>7, <4>8 DEF Gone
    <3>. QED BY <3>3, <3>4, <3>5
  <2>. QED BY <2>7, <2>8, <2>9
<1>. QED BY <1>4, <1>5, <1>6, StepsOfQueues

\* A cancellation that an MCM carried out to the end was total: no batch that the
\* proposal schedules has run on that chain, or can any more.
THEOREM CancellationsAreTotal ==
    ASSUME DistinctSalts
    PROVE  Spec => []CancellationIsTotal
<1>1. FreshInv /\ TimelockInv /\ [Next]_vars => FreshInv'
  BY FreshStep
<1>2. Init => CancelInv
  BY DEF Init, CancelInv
<1>3. CancelInv /\ FreshInv /\ TimelockInv /\ [Next]_vars => CancelInv'
  <2> SUFFICES ASSUME CancelInv, FreshInv, TimelockInv, [Next]_vars,
                      NEW p \in ProposalId, NEW c \in Chain, <<<<p, "cancel">>, c>> \in approved',
                      NEW i \in Batches(p), NEW id \in OperationID, ChainOf(p, i) = c,
                      id = IDs(VersionOf(<<p, "cancel">>)')[i]
               PROVE  CancelQueued(c, id)' \/ Gone(p, c, id)'
    BY DEF CancelInv, IDs
  <2> DEFINE q == <<p, "cancel">>
  <2>1. q \in Key /\ q[1] = p /\ ObjectInv /\ QueueInv
    BY DEF Key, Action, TimelockInv
  <2>2. Converted(q)
    <3>1. ASSUME NEW r \in Key, NEW d \in Chain, SetRoot(r, d)
          PROVE  Converted(q)
      <4>1. approved' = approved \cup {<<r, d>>} /\ Converted(r)
        BY <3>1 DEF SetRoot
      <4>2. <<q, c>> \in approved \/ q = r
        BY <4>1
      <4>. QED BY <2>1, <4>1, <4>2 DEF QueueInv
    <3>2. ASSUME NEW m \in MCM, ExecuteNext(m)
          PROVE  Converted(q)
      BY <2>1, <3>2 DEF ExecuteNext, QueueInv
    <3>3. CASE UNCHANGED <<queue, approved>>
      BY <2>1, <3>3 DEF QueueInv
    <3>. QED BY <3>1, <3>2, <3>3, StepsOfQueues
  <2>3. PICK v \in Versions(p) : v = VersionOf(q)
    BY <2>1, <2>2, ConvertedFrom
  <2>4. VersionOf(q)' = VersionOf(q)
    BY <2>1, <2>2, ConversionStays
  <2>5. id = IDs(v)[i]
    BY <2>3, <2>4
  <2>6. <<q, c>> \in approved => CancelQueued(c, id) \/ Gone(p, c, id)
    BY <2>3, <2>5 DEF CancelInv
  <2>. QED BY <2>3, <2>5, <2>6, CancelStepKeeps
<1>4. CancelInv /\ TimelockInv => CancellationIsTotal
  <2> SUFFICES ASSUME CancelInv, TimelockInv, NEW p \in ProposalId, NEW c \in Chain,
                      Finished(<<p, "cancel">>, c), NEW i \in Batches(p), ChainOf(p, i) = c
               PROVE  /\ Converted(<<p, "schedule">>)
                      /\ ~IsOperationDone(c, ScheduledID(p, i)) /\ ~IsOperationPending(c, ScheduledID(p, i))
    BY DEF CancellationIsTotal
  <2> DEFINE q == <<p, "cancel">>
             r == <<p, "schedule">>
             v == VersionOf(q)
             w == VersionOf(r)
             id == IDs(v)[i]
  <2>1. /\ q \in Key /\ q[1] = p /\ q[2] = "cancel" /\ <<q, c>> \in approved
        /\ r \in Key /\ r[1] = p /\ r[2] = "schedule"
    BY DEF Key, Action, Finished
  <2>2. v \in Versions(p) /\ IsConversionOf(converted[q], v, q)
    BY <2>1, ApprovedVersion
  <2>3. i \in DOMAIN converted[q].operations
        /\ converted[q].operations[i].transaction = [method |-> "cancel", id |-> id]
    BY <2>1, <2>2 DEF IsConversionOf, BatchCall
  <2>4. ~CancelQueued(c, id)
    BY <2>3 DEF Finished, CancelQueued
  <2>5. id \in OperationID
    BY <2>2, BatchIDs
  <2>6. Gone(p, c, id)
    BY <2>1, <2>4, <2>5 DEF CancelInv
  <2>7. <<r, c>> \in approved /\ id.salt = Salt(w) /\ ~Known(c, id)
    BY <2>6 DEF Gone, IsScheduled
  <2>8. Converted(r) /\ w \in Versions(p) /\ IsConversionOf(converted[r], w, r)
    BY <2>1, <2>7, ApprovedVersion
  <2>9. Salt(v) = Salt(w)
    BY <2>2, <2>7, BatchIDs
  <2>10. IDs(w) = IDs(v)
    <3>1. v.operations \in Seq(BatchOperation) /\ w.operations = v.operations
      BY <2>2, <2>8, ScheduleProposals
    <3>. QED BY <2>9, <3>1, SameBatchesSameIDs DEF IDs
  <2>11. ScheduledID(p, i) = IDs(w)[i]
    <3>1. converted[r].operations[i].transaction = BatchCall(w, "schedule", i)
      BY <2>1, <2>8 DEF IsConversionOf
    <3>2. w.operations[i].calls = BatchCalls(p, i)
          /\ IDs(w)[i] = HashOperationBatch(BatchCalls(p, i), Predecessor(w, i), Salt(w))
      BY <2>8, ScheduleProposals, BatchIDs
    <3>3. /\ BatchCall(w, "schedule", i).calls = BatchCalls(p, i)
          /\ BatchCall(w, "schedule", i).predecessor = Predecessor(w, i)
          /\ BatchCall(w, "schedule", i).salt = Salt(w)
      BY <3>2 DEF BatchCall
    <3>. QED BY <3>1, <3>2, <3>3 DEF ScheduledID, CallID
  <2>. QED BY <2>7, <2>8, <2>10, <2>11 DEF Known
<1>. QED BY <1>1, <1>2, <1>3, <1>4, FreshInit, TimelockInvariant, PTL DEF Spec

=============================================================================
