-------------------------- MODULE MerkleTree_proofs --------------------------
(***************************************************************************)
(* Every leaf of a tree gets a proof that verifies, for every hash         *)
(* function and every list of leaves.                                      *)
(***************************************************************************)
EXTENDS MerkleTree, Enumeration_proofs, SequenceTheorems, TLAPS

\* hashPair returns a hash.
LEMMA HashPairType == \A a, b \in Hash : hashPair(a, b) \in Hash
BY HashAssumption DEF hashPair

\* Sorting the pair makes hashPair symmetric (a.Cmp(b) in tree.go).
LEMMA HashPairCommutes == \A a, b \in Hash : hashPair(a, b) = hashPair(b, a)
<1> SUFFICES ASSUME NEW a \in Hash, NEW b \in Hash
             PROVE  hashPair(a, b) = hashPair(b, a)
  OBVIOUS
<1>1. a \in Nat /\ b \in Nat
  BY HashAssumption
<1>2. CASE a = b
  BY <1>2
<1>3. CASE a # b
  BY <1>1, <1>3 DEF hashPair
<1>. QED BY <1>2, <1>3

\* Padding a layer keeps its hashes and makes its length even.
LEMMA PaddedFacts ==
    ASSUME NEW s \in Seq(Hash), Len(s) > 1
    PROVE  /\ Padded(s) \in Seq(Hash)
           /\ Len(Padded(s)) \in Nat
           /\ Len(Padded(s)) % 2 = 0
           /\ Len(Padded(s)) > 1
           /\ Elements(s) \subseteq Elements(Padded(s))
<1>1. s[Len(s)] \in Hash /\ Len(s) \in Nat
  OBVIOUS
<1>2. CASE Len(s) % 2 # 0
  <2>1. Padded(s) = Append(s, s[Len(s)])
    BY <1>2 DEF Padded
  <2>2. Padded(s) \in Seq(Hash) /\ Len(Padded(s)) = Len(s) + 1
    BY <2>1, <1>1
  <2>3. \A i \in 1..Len(s) : Padded(s)[i] = s[i]
    BY <2>1, <1>1
  <2>4. Elements(s) \subseteq Elements(Padded(s))
    BY <2>2, <2>3 DEF Elements
  <2>5. (Len(s) + 1) % 2 = 0
    BY <1>1, <1>2
  <2>. QED BY <1>1, <2>2, <2>4, <2>5
<1>3. CASE Len(s) % 2 = 0
  BY <1>1, <1>3 DEF Padded, Elements
<1>. QED BY <1>1, <1>2, <1>3

\* In a layer of even length every node has a sibling, and the parent of the
\* two, whichever of them GetProof starts from, is in the layer above.
LEMMA ParentLayerFacts ==
    ASSUME NEW s \in Seq(Hash), Len(s) % 2 = 0
    PROVE  /\ ParentLayer(s) \in Seq(Hash)
           /\ Len(ParentLayer(s)) = Len(s) \div 2
           /\ \A j \in 1..Len(s) :
                /\ Sibling(j) \in 1..Len(s)
                /\ hashPair(s[j], s[Sibling(j)]) \in Elements(ParentLayer(s))
<1> DEFINE n == Len(s) \div 2
<1>1. n \in Nat /\ Len(s) \in Nat /\ Len(s) = 2 * n
  OBVIOUS
<1>2. \A i \in 1..n : /\ 2*i - 1 \in 1..Len(s)
                      /\ 2*i \in 1..Len(s)
                      /\ hashPair(s[2*i - 1], s[2*i]) \in Hash
  BY <1>1, HashPairType
<1>3. ParentLayer(s) \in [1..n -> Hash]
  BY <1>2 DEF ParentLayer
<1>4. ParentLayer(s) \in Seq(Hash) /\ Len(ParentLayer(s)) = n
  BY <1>1, <1>3
<1>5. ASSUME NEW j \in 1..Len(s)
      PROVE  /\ Sibling(j) \in 1..Len(s)
             /\ hashPair(s[j], s[Sibling(j)]) \in Elements(ParentLayer(s))
  <2>1. CASE j % 2 = 1
    <3>1. PICK i \in 1..n : j = 2*i - 1
      <4>1. (j + 1) \div 2 \in 1..n /\ j = 2 * ((j + 1) \div 2) - 1
        BY <1>1, <2>1
      <4>. QED BY <4>1
    <3>2. Sibling(j) = 2*i
      BY <2>1, <3>1 DEF Sibling
    <3>3. ParentLayer(s)[i] = hashPair(s[j], s[Sibling(j)])
      BY <3>1, <3>2 DEF ParentLayer
    <3>. QED BY <1>1, <1>2, <1>3, <3>2, <3>3 DEF Elements
  <2>2. CASE j % 2 # 1
    <3>1. PICK i \in 1..n : j = 2*i
      <4>1. j \div 2 \in 1..n /\ j = 2 * (j \div 2)
        BY <1>1, <2>2
      <4>. QED BY <4>1
    <3>2. Sibling(j) = 2*i - 1
      BY <2>2, <3>1 DEF Sibling
    <3>3. ParentLayer(s)[i] = hashPair(s[Sibling(j)], s[j])
      BY <3>1, <3>2 DEF ParentLayer
    <3>4. s[j] \in Hash /\ s[Sibling(j)] \in Hash
      BY <1>2, <3>1, <3>2
    <3>5. hashPair(s[Sibling(j)], s[j]) = hashPair(s[j], s[Sibling(j)])
      BY <3>4, HashPairCommutes
    <3>. QED BY <1>1, <1>2, <1>3, <3>2, <3>3, <3>5 DEF Elements
  <2>. QED BY <2>1, <2>2
<1>. QED BY <1>4, <1>5

-----------------------------------------------------------------------------
\* The initial states satisfy the inductive invariant.
LEMMA InitIInv == Init => IInv
<1> SUFFICES ASSUME Init PROVE IInv
  OBVIOUS
<1>1. leaves \in Seq(Hash) /\ hash \in Hash
  BY InputAssumption DEF Init
<1>2. TypeOK
  BY <1>1, HashAssumption DEF Init, TypeOK
<1>3. ParentsAreAbove /\ RootIsOnTop /\ EveryLeafIsProvable /\ Phases /\ TargetsFoldProof
  BY <1>1 DEF Init, ParentsAreAbove, RootIsOnTop, EveryLeafIsProvable, Phases, TargetsFoldProof
<1>4. LeavesAreBelow /\ TargetIsOnPath
  BY <1>1 DEF Init, LeavesAreBelow, TargetIsOnPath, Level, Elements, targetHash
<1>. QED BY <1>2, <1>3, <1>4 DEF IInv

\* One iteration of NewTree's loop keeps every recorded layer's parents above
\* it: the only layer whose upper neighbour changes is the one just recorded.
LEMMA HashLayerIInv == IInv /\ HashLayer => IInv'
<1> SUFFICES ASSUME IInv, HashLayer PROVE IInv'
  OBVIOUS
<1> DEFINE padded == Padded(currHashes)
           n == Len(layers)
<1>1. /\ padded \in Seq(Hash)
      /\ Len(padded) % 2 = 0
      /\ Elements(currHashes) \subseteq Elements(padded)
  BY PaddedFacts DEF IInv, TypeOK, HashLayer
<1>2. /\ ParentLayer(padded) \in Seq(Hash)
      /\ \A j \in 1..Len(padded) :
           hashPair(padded[j], padded[Sibling(j)]) \in Elements(ParentLayer(padded))
  BY <1>1, ParentLayerFacts
<1>3. /\ n \in Nat
      /\ layers' \in Seq(Seq(Hash)) /\ Len(layers') = n + 1
      /\ layers'[n + 1] = padded
      /\ \A i \in 1..n : layers'[i] = layers[i]
      /\ currHashes' = ParentLayer(padded)
  BY <1>1 DEF IInv, TypeOK, HashLayer
<1>4. TypeOK'
  BY <1>2, <1>3 DEF IInv, TypeOK, HashLayer
<1>5. /\ \A i \in 1..n : Level(layers', currHashes', i) = Level(layers, currHashes, i)
      /\ Level(layers', currHashes', n + 1) = padded
      /\ Level(layers', currHashes', n + 2) = ParentLayer(padded)
      /\ Level(layers, currHashes, n + 1) = currHashes
  BY <1>3 DEF Level
<1>6. ParentsAreAbove'
  <2> SUFFICES ASSUME NEW i \in 1..(n + 1)
               PROVE  /\ Len(layers'[i]) % 2 = 0
                      /\ \A j \in 1..Len(layers'[i]) :
                           hashPair(layers'[i][j], layers'[i][Sibling(j)]) \in Elements(Level(layers', currHashes', i + 1))
    BY <1>3 DEF ParentsAreAbove, Elements
  <2>1. CASE i = n + 1
    <3>1. Level(layers', currHashes', i + 1) = ParentLayer(padded)
      BY <1>3, <1>5, <2>1
    <3>. QED BY <1>1, <1>2, <1>3, <2>1, <3>1
  <2>2. CASE i \in 1..n
    <3>1. /\ Len(layers[i]) % 2 = 0
          /\ \A j \in 1..Len(layers[i]) :
               hashPair(layers[i][j], layers[i][Sibling(j)]) \in Elements(Level(layers, currHashes, i + 1))
      BY <2>2 DEF IInv, ParentsAreAbove
    <3>2. Elements(Level(layers, currHashes, i + 1)) \subseteq Elements(Level(layers', currHashes', i + 1))
      <4>1. CASE i = n
        BY <1>1, <1>5, <4>1
      <4>2. CASE i # n
        <5>1. i + 1 \in 1..n
          BY <1>3, <2>2, <4>2
        <5>. QED BY <5>1, <1>5
      <4>. QED BY <4>1, <4>2
    <3>3. layers'[i] = layers[i]
      BY <1>3, <2>2
    <3>. QED BY <3>1, <3>2, <3>3
  <2>. QED BY <1>3, <2>1, <2>2
<1>7. Elements(Level(layers, currHashes, 1)) \subseteq Elements(Level(layers', currHashes', 1))
  <2>1. CASE n = 0
    BY <1>1, <1>5, <2>1
  <2>2. CASE n # 0
    <3>1. 1 \in 1..n
      BY <1>3, <2>2
    <3>. QED BY <3>1, <1>5
  <2>. QED BY <2>1, <2>2
<1>8. LeavesAreBelow'
  BY <1>7 DEF IInv, LeavesAreBelow, HashLayer, Elements
<1>9. TargetIsOnPath'
  <2>1. Len(proof) = 0 /\ Len(proof') = 0
    BY DEF IInv, Phases, HashLayer
  <2>2. hash' \in Elements(leaves)' => targetHash' \in Elements(Level(layers, currHashes, 1))
    BY <2>1 DEF IInv, TargetIsOnPath, HashLayer, targetHash, Elements
  <2>3. Len(proof') + 1 = 1
    BY <2>1
  <2>. QED BY <1>7, <2>2, <2>3 DEF TargetIsOnPath, Elements
<1>10. RootIsOnTop' /\ TargetsFoldProof' /\ EveryLeafIsProvable'
  BY DEF IInv, HashLayer, RootIsOnTop, TargetsFoldProof, EveryLeafIsProvable, Elements
<1>11. Phases'
  <2>1. Len(padded) > 1 /\ Len(padded) \in Nat /\ Len(currHashes) > 1
    BY PaddedFacts DEF IInv, TypeOK, HashLayer
  <2>2. Len(ParentLayer(padded)) = Len(padded) \div 2
    BY <1>1, ParentLayerFacts
  <2>3. Len(ParentLayer(padded)) >= 1
    BY <2>1, <2>2, <1>1
  <2>4. currHashes # <<>> /\ currHashes' # <<>>
    BY <2>1, <2>3, <1>3
  <2>. QED BY <2>4 DEF IInv, HashLayer, Phases
<1>. QED BY <1>4, <1>6, <1>8, <1>9, <1>10, <1>11 DEF IInv

\* The part of the invariant that is about the finished layers survives any
\* step that leaves them alone.
LEMMA LayersUnchanged ==
    ASSUME IInv, UNCHANGED <<leaves, layers, currHashes>>
    PROVE  ParentsAreAbove' /\ LeavesAreBelow'
<1>1. leaves' = leaves /\ layers' = layers /\ currHashes' = currHashes
  OBVIOUS
<1>2. ParentsAreAbove'
  BY <1>1, ZenonT(60) DEF IInv, ParentsAreAbove, Elements, Level
<1>3. LeavesAreBelow'
  BY <1>1 DEF IInv, LeavesAreBelow, Elements, Level
<1>. QED BY <1>2, <1>3

\* Returning from NewTree leaves one hash on top, the root.
LEMMA FinishTreeIInv == IInv /\ FinishTree => IInv'
<1> SUFFICES ASSUME IInv, FinishTree PROVE IInv'
  OBVIOUS
<1>1. currHashes \in Seq(Hash) /\ Len(currHashes) <= 1
  BY DEF IInv, TypeOK, FinishTree
<1>2. (leaves = <<>>) <=> (currHashes = <<>>)
  BY DEF IInv, Phases
<1>3. root' \in Hash /\ \A h \in Elements(currHashes) : h = root'
  <2>1. CASE currHashes = <<>>
    BY <1>2, <2>1, HashAssumption DEF FinishTree, Elements
  <2>2. CASE currHashes # <<>>
    <3>1. Len(currHashes) = 1
      <4>1. Len(currHashes) \in Nat \ {0}
        BY <1>1, <2>2, EmptySeq
      <4>2. \A m \in Nat \ {0} : m <= 1 => m = 1
        OBVIOUS
      <4>3. Len(currHashes) <= 1
        BY <1>1
      <4>. QED BY <4>1, <4>2, <4>3, Zenon
    <3>2. root' = currHashes[1]
      BY <1>2, <2>2 DEF FinishTree
    <3>. QED BY <1>1, <3>1, <3>2 DEF Elements
  <2>. QED BY <2>1, <2>2
<1>4. TypeOK'
  BY <1>3 DEF IInv, TypeOK, FinishTree
<1>5. ParentsAreAbove' /\ LeavesAreBelow'
  BY LayersUnchanged DEF FinishTree
<1>6. RootIsOnTop'
  BY <1>3 DEF RootIsOnTop, FinishTree, Elements
<1>7. TargetIsOnPath' /\ TargetsFoldProof'
  BY DEF IInv, FinishTree, TargetIsOnPath, TargetsFoldProof, targetHash, Elements
<1>8. Phases' /\ EveryLeafIsProvable'
  BY DEF IInv, FinishTree, Phases, EveryLeafIsProvable, Elements
<1>. QED BY <1>4, <1>5, <1>6, <1>7, <1>8 DEF IInv

\* The first match exists exactly when the layer holds the hash.
LEMMA MatchExists ==
    ASSUME NEW layer \in Seq(Hash), NEW h \in Elements(layer)
    PROVE  Matches(layer, h) # {}
<1> DEFINE T == {j \in DOMAIN layer : layer[j] = h}
<1>1. T \subseteq Nat /\ T # {} /\ DOMAIN layer = 1..Len(layer)
  BY DEF Elements
<1>2. PICK j \in T : \A k \in T : ~(<<k, j>> \in OpToRel(<, Nat))
  <2> HIDE DEF T
  <2>. QED BY <1>1, NatLessThanWellFounded, WFMin
<1>3. \A k \in T : ~(k < j)
  BY <1>1, <1>2 DEF OpToRel
<1>4. \A k \in 1..(j - 1) : layer[k] # h
  BY <1>1, <1>3
<1>. QED BY <1>4 DEF Matches

\* What a match is: a position of the layer that holds the hash.
LEMMA MatchIsPosition ==
    ASSUME NEW layer \in Seq(Hash), NEW h, NEW j \in Matches(layer, h)
    PROVE  j \in 1..Len(layer) /\ layer[j] = h
BY DEF Matches

\* One iteration of GetProof: the sibling goes on the proof and the parent of
\* the two, which is in the layer above, becomes the target.
LEMMA ClimbLayerIInv == IInv /\ ClimbLayer => IInv'
<1> SUFFICES ASSUME IInv, ClimbLayer PROVE IInv'
  OBVIOUS
<1> DEFINE n == Len(proof)
           layer == layers[n + 1]
<1>1. /\ n \in Nat /\ n + 1 \in 1..Len(layers) /\ Len(targets) = n + 1
      /\ layers \in Seq(Seq(Hash))
      /\ proof \in Seq(Hash) /\ targets \in Seq(Hash)
  BY DEF IInv, TypeOK, ClimbLayer
<1>2. layer \in Seq(Hash) /\ Len(layer) % 2 = 0
  <2>1. layer \in Seq(Hash)
    BY <1>1
  <2>2. Len(layer) % 2 = 0
    BY <1>1 DEF IInv, ParentsAreAbove
  <2>. QED BY <2>1, <2>2
<1>3. PICK j \in Matches(layer, targetHash) :
         /\ proof' = Append(proof, layer[Sibling(j)])
         /\ targets' = Append(targets, hashPair(targetHash, layer[Sibling(j)]))
  BY DEF ClimbLayer
<1>4. j \in 1..Len(layer) /\ layer[j] = targetHash
  BY <1>2, <1>3, MatchIsPosition
<1>5. Sibling(j) \in 1..Len(layer)
  BY <1>2, <1>4, ParentLayerFacts
<1>6. layer[Sibling(j)] \in Hash /\ targetHash \in Hash
  BY <1>1, <1>2, <1>4, <1>5 DEF targetHash
<1>7. hashPair(targetHash, layer[Sibling(j)]) \in Hash
  BY <1>6, HashPairType
<1>8. /\ proof' \in Seq(Hash) /\ Len(proof') = n + 1
      /\ targets' \in Seq(Hash) /\ Len(targets') = n + 2
      /\ proof'[n + 1] = layer[Sibling(j)]
      /\ targets'[n + 2] = hashPair(targetHash, layer[Sibling(j)])
      /\ \A k \in 1..n : proof'[k] = proof[k]
      /\ \A k \in 1..(n + 1) : targets'[k] = targets[k]
  BY <1>1, <1>3, <1>6, <1>7
<1>9. TypeOK'
  <2>1. checked' \in 0..Len(proof')
    BY <1>1, <1>8 DEF IInv, TypeOK, ClimbLayer
  <2>. QED BY <1>1, <1>8, <2>1 DEF IInv, TypeOK, ClimbLayer
<1>10. ParentsAreAbove' /\ LeavesAreBelow'
  BY LayersUnchanged DEF ClimbLayer
<1>11. TargetIsOnPath'
  <2>1. targetHash' = hashPair(layer[j], layer[Sibling(j)])
    BY <1>1, <1>4, <1>8 DEF targetHash
  <2>2. hashPair(layer[j], layer[Sibling(j)]) \in Elements(Level(layers, currHashes, n + 2))
    <3>1. hashPair(layers[n + 1][j], layers[n + 1][Sibling(j)])
            \in Elements(Level(layers, currHashes, (n + 1) + 1))
      BY <1>1, <1>4 DEF IInv, ParentsAreAbove
    <3>2. (n + 1) + 1 = n + 2
      BY <1>1
    <3>. QED BY <3>1, <3>2
  <2>3. layers' = layers /\ currHashes' = currHashes /\ Len(proof') + 1 = n + 2
    BY <1>1, <1>8 DEF ClimbLayer
  <2>. QED BY <2>1, <2>2, <2>3 DEF TargetIsOnPath
<1>12. TargetsFoldProof'
  <2>1. targets'[1] = hash'
    BY <1>1, <1>8 DEF IInv, TargetsFoldProof, ClimbLayer
  <2>2. ASSUME NEW k \in 1..(n + 1)
        PROVE  targets'[k + 1] = hashPair(targets'[k], proof'[k])
    <3>1. CASE k = n + 1
      <4>1. targetHash = targets[n + 1] /\ n + 1 \in 1..(n + 1) /\ k + 1 = n + 2
        BY <1>1, <3>1 DEF targetHash
      <4>2. targets'[n + 1] = targetHash
        BY <1>8, <4>1
      <4>. QED BY <1>8, <3>1, <4>1, <4>2
    <3>2. CASE k \in 1..n
      <4>1. targets[k + 1] = hashPair(targets[k], proof[k])
        BY <3>2 DEF IInv, TargetsFoldProof
      <4>2. k \in 1..(n + 1) /\ k + 1 \in 1..(n + 1)
        BY <1>1, <3>2
      <4>. QED BY <1>8, <3>2, <4>1, <4>2
    <3>. QED BY <1>1, <3>1, <3>2
  <2>. QED BY <1>8, <2>1, <2>2 DEF TargetsFoldProof
<1>13. Phases'
  <2>1. acc' = targets'[checked' + 1]
    <3>1. checked + 1 \in 1..(n + 1)
      BY <1>1 DEF IInv, TypeOK
    <3>. QED BY <1>8, <3>1 DEF IInv, Phases, ClimbLayer
  <2>. QED BY <2>1 DEF IInv, Phases, ClimbLayer
<1>14. RootIsOnTop' /\ EveryLeafIsProvable'
  BY DEF IInv, RootIsOnTop, EveryLeafIsProvable, ClimbLayer, Elements
<1>. QED BY <1>9, <1>10, <1>11, <1>12, <1>13, <1>14 DEF IInv

\* GetProof reports a missing node only for a hash that is no leaf.
LEMMA NotFoundIInv == IInv /\ NotFound => IInv'
<1> SUFFICES ASSUME IInv, NotFound PROVE IInv'
  OBVIOUS
<1> DEFINE n == Len(proof)
<1>1. n \in Nat /\ n + 1 \in 1..Len(layers) /\ layers[n + 1] \in Seq(Hash)
  BY DEF IInv, TypeOK, NotFound
<1>2. hash \notin Elements(leaves)
  <2> SUFFICES ASSUME hash \in Elements(leaves) PROVE FALSE
    OBVIOUS
  <2>1. targetHash \in Elements(layers[n + 1])
    BY <1>1 DEF IInv, TargetIsOnPath, Level
  <2>. QED BY <1>1, <2>1, MatchExists DEF NotFound
<1>3. TypeOK' /\ EveryLeafIsProvable'
  BY <1>2 DEF IInv, TypeOK, EveryLeafIsProvable, NotFound, Elements
<1>4. ParentsAreAbove' /\ LeavesAreBelow'
  BY LayersUnchanged DEF NotFound
<1>5. RootIsOnTop' /\ TargetIsOnPath' /\ TargetsFoldProof' /\ Phases'
  BY DEF IInv, RootIsOnTop, TargetIsOnPath, TargetsFoldProof, Phases, NotFound,
         targetHash, Elements
<1>. QED BY <1>3, <1>4, <1>5 DEF IInv

\* A complete proof is handed to the verifier.
LEMMA FinishProofIInv == IInv /\ FinishProof => IInv'
<1> SUFFICES ASSUME IInv, FinishProof PROVE IInv'
  OBVIOUS
<1>1. TypeOK' /\ EveryLeafIsProvable'
  BY DEF IInv, TypeOK, EveryLeafIsProvable, FinishProof, Elements
<1>2. ParentsAreAbove' /\ LeavesAreBelow'
  BY LayersUnchanged DEF FinishProof
<1>3. RootIsOnTop' /\ TargetIsOnPath' /\ TargetsFoldProof' /\ Phases'
  BY DEF IInv, RootIsOnTop, TargetIsOnPath, TargetsFoldProof, Phases, FinishProof,
         targetHash, Elements
<1>. QED BY <1>1, <1>2, <1>3 DEF IInv

\* The verifier retraces GetProof's targets.
LEMMA VerifyStepIInv == IInv /\ VerifyStep => IInv'
<1> SUFFICES ASSUME IInv, VerifyStep PROVE IInv'
  OBVIOUS
<1>1. /\ checked \in Nat /\ checked + 1 \in 1..Len(proof) /\ Len(proof) \in Nat
      /\ Len(targets) = Len(proof) + 1 /\ targets \in Seq(Hash) /\ proof \in Seq(Hash)
  BY DEF IInv, TypeOK, VerifyStep
<1>2. checked' = checked + 1 /\ acc' = hashPair(targets[checked + 1], proof[checked + 1])
  BY DEF IInv, Phases, VerifyStep
<1>3. acc' = targets[checked + 2]
  BY <1>1, <1>2 DEF IInv, TargetsFoldProof
<1>4. acc' \in Hash
  BY <1>1, <1>3
<1>5. TypeOK'
  BY <1>1, <1>2, <1>4 DEF IInv, TypeOK, VerifyStep
<1>6. Phases'
  BY <1>1, <1>2, <1>3 DEF IInv, Phases, VerifyStep
<1>7. ParentsAreAbove' /\ LeavesAreBelow'
  BY LayersUnchanged DEF VerifyStep
<1>8. RootIsOnTop' /\ TargetIsOnPath' /\ TargetsFoldProof' /\ EveryLeafIsProvable'
  BY DEF IInv, RootIsOnTop, TargetIsOnPath, TargetsFoldProof, EveryLeafIsProvable,
         VerifyStep, targetHash, Elements
<1>. QED BY <1>5, <1>6, <1>7, <1>8 DEF IInv

\* The verifier ends on the last target, which for a leaf is the root.
LEMMA VerifyDoneIInv == IInv /\ VerifyDone => IInv'
<1> SUFFICES ASSUME IInv, VerifyDone PROVE IInv'
  OBVIOUS
<1>1. Len(proof) = Len(layers) /\ Len(proof) \in Nat /\ checked = Len(proof)
  BY DEF IInv, TypeOK, Phases, VerifyDone
<1>2. acc = targetHash
  BY <1>1 DEF IInv, TypeOK, Phases, targetHash
<1>3. hash \in Elements(leaves) => acc = root
  <2> SUFFICES ASSUME hash \in Elements(leaves) PROVE acc = root
    OBVIOUS
  <2>1. targetHash \in Elements(currHashes)
    BY <1>1 DEF IInv, TargetIsOnPath, Level
  <2>. QED BY <1>2, <2>1 DEF IInv, RootIsOnTop, VerifyDone
<1>4. TypeOK'
  BY DEF IInv, TypeOK, VerifyDone
<1>5. EveryLeafIsProvable'
  BY <1>3 DEF EveryLeafIsProvable, VerifyDone, Elements
<1>6. ParentsAreAbove' /\ LeavesAreBelow'
  BY LayersUnchanged DEF VerifyDone
<1>7. RootIsOnTop' /\ TargetIsOnPath' /\ TargetsFoldProof' /\ Phases'
  BY DEF IInv, RootIsOnTop, TargetIsOnPath, TargetsFoldProof, Phases, VerifyDone,
         targetHash, Elements
<1>. QED BY <1>4, <1>5, <1>6, <1>7 DEF IInv

\* A stuttering step changes nothing.
LEMMA StutterIInv == IInv /\ UNCHANGED vars => IInv'
<1> SUFFICES ASSUME IInv, UNCHANGED vars PROVE IInv'
  OBVIOUS
<1>1. ParentsAreAbove' /\ LeavesAreBelow'
  BY LayersUnchanged DEF vars
<1>2. TypeOK' /\ EveryLeafIsProvable'
  BY DEF IInv, TypeOK, EveryLeafIsProvable, vars, Elements
<1>3. RootIsOnTop' /\ TargetIsOnPath' /\ TargetsFoldProof' /\ Phases'
  BY DEF IInv, RootIsOnTop, TargetIsOnPath, TargetsFoldProof, Phases, vars,
         targetHash, Elements
<1>. QED BY <1>1, <1>2, <1>3 DEF IInv

-----------------------------------------------------------------------------
\* The inductive invariant of NewTree, GetProof and the verifier.
THEOREM TreeInvariant == Spec => []IInv
<1>1. IInv /\ [Next]_vars => IInv'
  BY HashLayerIInv, FinishTreeIInv, ClimbLayerIInv, NotFoundIInv, FinishProofIInv,
     VerifyStepIInv, VerifyDoneIInv, StutterIInv DEF Next
<1>. QED BY InitIInv, <1>1, PTL DEF Spec

\* For every list of leaves and every hash function, GetProof returns a proof
\* for each leaf and the contract's verification of that proof succeeds.
THEOREM LeavesAreProvable == Spec => []EveryLeafIsProvable
<1>1. IInv => EveryLeafIsProvable
  BY DEF IInv
<1>. QED BY TreeInvariant, <1>1, PTL

-----------------------------------------------------------------------------
(* Only leaves are provable *)

\* The lowest layer holds leaves only, two leaves make a layer, and a hash with a proof has
\* been found in the lowest layer.
LowestLayer ==
    /\ layers = <<>> => currHashes = leaves
    /\ layers # <<>> => Elements(layers[1]) \subseteq Elements(leaves)
    /\ layers = <<>> /\ pc # "build" => Len(leaves) <= 1
    /\ proof # <<>> => layers # <<>> /\ hash \in Elements(layers[1])

\* Padding a layer adds no hash.
LEMMA PaddedElements ==
    ASSUME NEW s \in Seq(Hash), Len(s) > 1
    PROVE  Elements(Padded(s)) \subseteq Elements(s)
<1>1. CASE Len(s) % 2 # 0
  <2>1. Padded(s) = Append(s, s[Len(s)]) /\ Len(s) \in 1..Len(s)
    BY <1>1 DEF Padded
  <2>. QED BY <2>1 DEF Elements
<1>2. CASE Len(s) % 2 = 0
  BY <1>2 DEF Padded
<1>. QED BY <1>1, <1>2

LEMMA LowestLayerStep == IInv /\ LowestLayer /\ [Next]_vars => LowestLayer'
<1> SUFFICES ASSUME IInv, LowestLayer, [Next]_vars PROVE LowestLayer'
  OBVIOUS
<1>. USE DEF LowestLayer
<1>0. layers \in Seq(Seq(Hash)) /\ currHashes \in Seq(Hash) /\ leaves \in Seq(Hash) /\ proof \in Seq(Hash)
  BY DEF IInv, TypeOK
<1>1. CASE HashLayer
  <2>1. layers' = Append(layers, Padded(currHashes)) /\ UNCHANGED <<leaves, hash, proof, pc>> /\ Len(currHashes) > 1
    BY <1>1 DEF HashLayer
  <2>2. Padded(currHashes) \in Seq(Hash) /\ Elements(Padded(currHashes)) \subseteq Elements(currHashes)
    BY <1>0, <2>1, PaddedFacts, PaddedElements
  <2>3. layers' # <<>>
    <3>1. Len(layers') = Len(layers) + 1 /\ Len(layers) \in Nat
      BY <1>0, <2>1, <2>2
    <3>2. Len(layers') # 0
      BY <3>1
    <3>. QED BY <3>2
  <2>4. CASE layers = <<>>
    <3>1. layers'[1] = Padded(currHashes)
      BY <2>1, <2>4
    <3>. QED BY <2>1, <2>2, <2>3, <2>4, <3>1
  <2>5. CASE layers # <<>>
    <3>1. Len(layers) >= 1
      BY <1>0, <2>5
    <3>2. layers'[1] = layers[1]
      BY <1>0, <2>1, <2>2, <3>1
    <3>. QED BY <2>1, <2>3, <2>5, <3>2
  <2>. QED BY <2>4, <2>5
<1>2. CASE FinishTree
  <2>1. UNCHANGED <<leaves, layers, currHashes, hash, proof>> /\ Len(currHashes) <= 1
    BY <1>2 DEF FinishTree
  <2>. QED BY <2>1
<1>3. CASE ClimbLayer
  <2>1. UNCHANGED <<leaves, layers, currHashes, hash, pc>> /\ Len(proof) < Len(layers)
        /\ Matches(layers[Len(proof) + 1], targetHash) # {}
    BY <1>3 DEF ClimbLayer
  <2>2. layers # <<>> /\ layers[1] \in Seq(Hash)
    BY <1>0, <2>1
  <2>3. hash \in Elements(layers[1])
    <3>1. CASE proof = <<>>
      <4>1. Len(proof) + 1 = 1 /\ targetHash = hash
        BY <3>1 DEF IInv, TypeOK, TargetsFoldProof, targetHash
      <4>2. PICK j : j \in Matches(layers[1], hash)
        BY <2>1, <4>1
      <4>. QED BY <2>2, <4>2, MatchIsPosition DEF Elements
    <3>2. CASE proof # <<>>
      BY <3>2
    <3>. QED BY <3>1, <3>2
  <2>. QED BY <2>1, <2>2, <2>3
<1>4. CASE NotFound \/ FinishProof \/ VerifyStep \/ VerifyDone
  BY <1>4 DEF NotFound, FinishProof, VerifyStep, VerifyDone
<1>5. CASE UNCHANGED vars
  BY <1>5 DEF vars
<1>. QED BY <1>1, <1>2, <1>3, <1>4, <1>5 DEF Next

\* As soon as the tree has two leaves, GetProof returns no proof for a hash that is not a
\* leaf, be it an inner node.
THEOREM NonLeavesHaveNoProof == Spec => []OnlyLeavesAreProvable
<1>1. Init => LowestLayer
  BY DEF Init, LowestLayer
<1>2. ASSUME IInv, LowestLayer PROVE OnlyLeavesAreProvable
  <2> SUFFICES ASSUME Len(leaves) >= 2, pc = "verify" PROVE hash \in Elements(leaves)
    BY DEF OnlyLeavesAreProvable
  <2>1. Len(proof) = Len(layers) /\ layers \in Seq(Seq(Hash)) /\ proof \in Seq(Hash) /\ Len(leaves) \in Nat
    BY <1>2 DEF IInv, Phases, TypeOK
  <2>2. layers # <<>>
    BY <1>2, <2>1 DEF LowestLayer
  <2>3. proof # <<>>
    BY <2>1, <2>2
  <2>. QED BY <1>2, <2>2, <2>3 DEF LowestLayer
<1>. QED BY <1>1, <1>2, LowestLayerStep, TreeInvariant, PTL DEF Spec

-----------------------------------------------------------------------------
(* Proofs are logarithmic *)

\* f holds the powers of two up to n.
PowersUpTo(f, n) == f \in [0..n -> Nat] /\ f[0] = 1 /\ \A i \in 1..n : f[i] = 2 * f[i - 1]

LEMMA PowersExist == \A n \in Nat : \E f : PowersUpTo(f, n)
<1>. DEFINE T == {n \in Nat : ~\E f : PowersUpTo(f, n)}
<1> SUFFICES ASSUME T # {} PROVE FALSE
  OBVIOUS
<1>1. PICK n \in T : \A m \in T : n <= m
  <2>1. T \subseteq Nat
    OBVIOUS
  <2>. QED BY <2>1, LeastNatural
<1>2. n # 0
  <2>1. PowersUpTo([i \in 0..0 |-> 1], 0)
    BY DEF PowersUpTo
  <2>. QED BY <1>1, <2>1
<1>3. n - 1 \in Nat /\ n - 1 \notin T
  BY <1>1, <1>2
<1>4. PICK f : PowersUpTo(f, n - 1)
  BY <1>3
<1>. DEFINE g == [i \in 0..n |-> IF i = n THEN 2 * f[n - 1] ELSE f[i]]
<1>5. f[n - 1] \in Nat /\ \A i \in 0..(n - 1) : f[i] \in Nat /\ g[i] = f[i]
  BY <1>1, <1>3, <1>4 DEF PowersUpTo
<1>6. g \in [0..n -> Nat] /\ g[0] = 1 /\ g[n] = 2 * f[n - 1]
  BY <1>1, <1>2, <1>3, <1>4, <1>5 DEF PowersUpTo
<1>7. \A i \in 1..n : g[i] = 2 * g[i - 1]
  <2> SUFFICES ASSUME NEW i \in 1..n PROVE g[i] = 2 * g[i - 1]
    OBVIOUS
  <2>1. i - 1 \in 0..(n - 1) /\ g[i - 1] = f[i - 1]
    BY <1>1, <1>5
  <2>2. CASE i = n
    BY <1>6, <2>1, <2>2
  <2>3. CASE i # n
    <3>1. i \in 1..(n - 1) /\ i \in 0..(n - 1)
      BY <1>1, <2>3
    <3>. QED BY <1>4, <1>5, <2>1, <3>1 DEF PowersUpTo
  <2>. QED BY <2>2, <2>3
<1>8. PowersUpTo(g, n)
  BY <1>6, <1>7 DEF PowersUpTo
<1>. QED BY <1>1, <1>8

LEMMA PowersAgree ==
    ASSUME NEW n \in Nat, NEW m \in Nat, NEW f, NEW g, PowersUpTo(f, n), PowersUpTo(g, m), n <= m
    PROVE  \A i \in 0..n : f[i] = g[i]
<1>. DEFINE T == {i \in 0..n : f[i] # g[i]}
<1> SUFFICES ASSUME T # {} PROVE FALSE
  OBVIOUS
<1>1. PICK i \in T : \A j \in T : i <= j
  <2>1. T \subseteq Nat
    OBVIOUS
  <2>. QED BY <2>1, LeastNatural
<1>2. i # 0
  BY <1>1 DEF PowersUpTo
<1>3. i \in 1..n /\ i \in 1..m /\ i - 1 \in 0..n /\ ~(i <= i - 1)
  BY <1>1, <1>2
<1>4. f[i - 1] = g[i - 1]
  BY <1>1, <1>3
<1>. QED BY <1>1, <1>3, <1>4 DEF PowersUpTo

\* The equations of Pow2.
LEMMA Pow2Facts ==
    /\ Pow2[0] = 1
    /\ \A n \in Nat : Pow2[n] \in Nat /\ Pow2[n + 1] = 2 * Pow2[n]
<1>. DEFINE W(n) == CHOOSE f : PowersUpTo(f, n)
            F == [n \in Nat |-> W(n)[n]]
            D(h) == [n \in Nat |-> IF n = 0 THEN 1 ELSE 2 * h[n - 1]]
<1>1. \A n \in Nat : PowersUpTo(W(n), n)
  BY PowersExist
<1>. HIDE DEF W
<1>2. W(0)[0] = 1
  BY <1>1 DEF PowersUpTo
<1>3. \A n \in Nat : n # 0 => F[n] = 2 * F[n - 1]
  <2> SUFFICES ASSUME NEW n \in Nat, n # 0 PROVE W(n)[n] = 2 * W(n - 1)[n - 1]
    OBVIOUS
  <2>1. n - 1 \in Nat /\ n \in 1..n /\ n - 1 \in 0..(n - 1) /\ n - 1 <= n
    OBVIOUS
  <2>2. W(n)[n] = 2 * W(n)[n - 1]
    BY <1>1, <2>1 DEF PowersUpTo
  <2>3. PowersUpTo(W(n - 1), n - 1) /\ PowersUpTo(W(n), n)
    BY <1>1, <2>1
  <2>4. W(n - 1)[n - 1] = W(n)[n - 1]
    BY <2>1, <2>3, PowersAgree
  <2>. QED BY <2>2, <2>4
<1>4. F = D(F)
  BY <1>2, <1>3
<1>5. Pow2 = CHOOSE h : h = D(h)
  BY DEF Pow2
<1>6. Pow2 = D(Pow2)
  BY <1>4, <1>5
<1>7. Pow2[0] = 1 /\ \A n \in Nat : n # 0 => Pow2[n] = 2 * Pow2[n - 1]
  BY <1>6
<1>. HIDE DEF F, D
<1>8. \A n \in Nat : Pow2[n + 1] = 2 * Pow2[n]
  <2> SUFFICES ASSUME NEW n \in Nat PROVE Pow2[n + 1] = 2 * Pow2[n]
    OBVIOUS
  <2>1. n + 1 \in Nat /\ n + 1 # 0 /\ (n + 1) - 1 = n
    OBVIOUS
  <2>. QED BY <1>7, <2>1
<1>9. \A n \in Nat : Pow2[n] \in Nat
  <2>. DEFINE T == {n \in Nat : Pow2[n] \notin Nat}
  <2> SUFFICES ASSUME T # {} PROVE FALSE
    OBVIOUS
  <2>1. PICK n \in T : \A m \in T : n <= m
    <3>1. T \subseteq Nat
      OBVIOUS
    <3>. QED BY <3>1, LeastNatural
  <2>2. n # 0
    BY <1>7, <2>1
  <2>3. n - 1 \in Nat /\ ~(n <= n - 1)
    BY <2>1, <2>2
  <2>4. Pow2[n - 1] \in Nat /\ Pow2[n] = 2 * Pow2[n - 1]
    BY <1>7, <2>1, <2>2, <2>3
  <2>. QED BY <2>1, <2>4
<1>. QED BY <1>7, <1>8, <1>9

\* Halving m hashes, rounded up to h, doubles the power p: the bounds on m * p carry over.
LEMMA Halving ==
    ASSUME NEW m \in Nat, m > 1, NEW h \in Nat, 2 * h = m \/ 2 * h = m + 1, NEW p \in Nat, NEW n \in Nat,
           m * p >= n, (m - 1) * p < n
    PROVE  h * (2 * p) >= n /\ (h - 1) * (2 * p) < n /\ p < n
<1>1. m * p = (m - 2) * p + 2 * p /\ (m - 1) * p = (m - 2) * p + p /\ (m - 2) * p \in Nat
  BY SMTT(30)
<1>2. p < n
  BY <1>1
<1>3. CASE 2 * h = m
  <2>1. h * (2 * p) = m * p /\ (h - 1) * (2 * p) = (m - 2) * p
    BY <1>3, SMTT(30)
  <2>. QED BY <1>1, <1>2, <2>1
<1>4. CASE 2 * h = m + 1
  <2>1. h * (2 * p) = m * p + p /\ (h - 1) * (2 * p) = (m - 1) * p
    BY <1>4, SMTT(30)
  <2>2. m * p \in Nat
    OBVIOUS
  <2>. QED BY <1>2, <2>1, <2>2
<1>. QED BY <1>3, <1>4

\* A layer has half as many hashes as the one below, rounded up.
LEMMA ParentLayerLength ==
    ASSUME NEW s \in Seq(Hash), Len(s) > 1
    PROVE  /\ Len(ParentLayer(Padded(s))) \in Nat
           /\ 2 * Len(ParentLayer(Padded(s))) \in {Len(s), Len(s) + 1}
<1>1. Padded(s) \in Seq(Hash) /\ Len(Padded(s)) \in Nat /\ Len(Padded(s)) % 2 = 0
  BY PaddedFacts
<1>2. Len(Padded(s)) \in {Len(s), Len(s) + 1}
  BY DEF Padded
<1>3. Len(ParentLayer(Padded(s))) = Len(Padded(s)) \div 2
  BY <1>1, ParentLayerFacts
<1>. QED BY <1>1, <1>2, <1>3

\* With k layers below it, the unfinished layer has the number of leaves over 2^k, rounded
\* up, and the layer below that was not the last one.
LayerSizes ==
    /\ pc # "build" => Len(currHashes) <= 1
    /\ leaves # <<>> =>
         /\ Len(currHashes) * Pow2[Len(layers)] >= Len(leaves)
         /\ (Len(currHashes) - 1) * Pow2[Len(layers)] < Len(leaves)
         /\ layers # <<>> => Pow2[Len(layers) - 1] < Len(leaves)

LEMMA LayerSizesInit == Init => LayerSizes
<1> SUFFICES ASSUME Init PROVE LayerSizes
  OBVIOUS
<1>1. leaves \in Seq(Hash) /\ currHashes = leaves /\ layers = <<>> /\ pc = "build"
  BY InputAssumption DEF Init
<1>2. Len(leaves) \in Nat /\ Pow2[Len(layers)] = 1
  BY <1>1, Pow2Facts
<1>. QED BY <1>1, <1>2 DEF LayerSizes

LEMMA LayerSizesStep == IInv /\ LayerSizes /\ [Next]_vars => LayerSizes'
<1> SUFFICES ASSUME IInv, LayerSizes, [Next]_vars PROVE LayerSizes'
  OBVIOUS
<1>0. layers \in Seq(Seq(Hash)) /\ currHashes \in Seq(Hash) /\ leaves \in Seq(Hash)
  BY DEF IInv, TypeOK
<1>1. CASE HashLayer
  <2>1. /\ layers' = Append(layers, Padded(currHashes)) /\ currHashes' = ParentLayer(Padded(currHashes))
        /\ Len(currHashes) > 1 /\ leaves' = leaves /\ pc' = "build"
    BY <1>1 DEF HashLayer
  <2>2. Padded(currHashes) \in Seq(Hash)
    BY <1>0, <2>1, PaddedFacts
  <2>3. PICK k \in Nat : k = Len(layers) /\ Len(layers') = k + 1 /\ Len(layers') - 1 = k
    BY <1>0, <2>1, <2>2
  <2>4. PICK m \in Nat, h \in Nat : /\ m = Len(currHashes) /\ h = Len(currHashes') /\ m > 1
                                    /\ 2 * h = m \/ 2 * h = m + 1
    <3>1. Len(currHashes) \in Nat /\ Len(ParentLayer(Padded(currHashes))) \in Nat
      BY <1>0, <2>1, ParentLayerLength
    <3>2. 2 * Len(ParentLayer(Padded(currHashes))) \in {Len(currHashes), Len(currHashes) + 1}
      BY <1>0, <2>1, ParentLayerLength
    <3>. QED BY <2>1, <3>1, <3>2
  <2>5. Pow2[k] \in Nat /\ Pow2[k + 1] = 2 * Pow2[k] /\ Len(leaves) \in Nat
    <3>1. Len(leaves) \in Nat
      BY <1>0
    <3>. QED BY <3>1, Pow2Facts
  <2>6. ASSUME leaves # <<>>
        PROVE  h * Pow2[k + 1] >= Len(leaves) /\ (h - 1) * Pow2[k + 1] < Len(leaves) /\ Pow2[k] < Len(leaves)
    <3>1. m * Pow2[k] >= Len(leaves) /\ (m - 1) * Pow2[k] < Len(leaves)
      BY <2>3, <2>4, <2>6 DEF LayerSizes
    <3>. QED BY <2>4, <2>5, <3>1, Halving
  <2>. QED BY <2>1, <2>3, <2>4, <2>6 DEF LayerSizes
<1>2. CASE FinishTree
  BY <1>2 DEF FinishTree, LayerSizes
<1>3. CASE ClimbLayer
  BY <1>3 DEF ClimbLayer, LayerSizes
<1>4. CASE NotFound \/ FinishProof \/ VerifyStep \/ VerifyDone
  BY <1>4 DEF NotFound, FinishProof, VerifyStep, VerifyDone, LayerSizes
<1>5. CASE UNCHANGED vars
  BY <1>5 DEF vars, LayerSizes
<1>. QED BY <1>1, <1>2, <1>3, <1>4, <1>5 DEF Next

\* A finished proof has one sibling per doubling of the number of leaves, and no more.
THEOREM ProofsAreLogarithmic == Spec => []ProofIsLogarithmic
<1>1. ASSUME IInv, LayerSizes PROVE ProofIsLogarithmic
  <2> SUFFICES ASSUME pc = "verify", leaves # <<>>
               PROVE  /\ Pow2[Len(proof)] >= Len(leaves)
                      /\ proof # <<>> => Pow2[Len(proof) - 1] < Len(leaves)
    BY DEF ProofIsLogarithmic
  <2>1. Len(proof) = Len(layers) /\ layers \in Seq(Seq(Hash)) /\ proof \in Seq(Hash) /\ currHashes \in Seq(Hash)
    BY <1>1 DEF IInv, Phases, TypeOK
  <2>2. Len(currHashes) = 1
    <3>1. currHashes # <<>> /\ Len(currHashes) <= 1
      BY <1>1 DEF IInv, Phases, LayerSizes
    <3>2. currHashes \in Seq(Hash)
      BY <2>1
    <3>3. Len(currHashes) \in Nat /\ Len(currHashes) # 0
      BY <3>1, <3>2, EmptySeq
    <3>. QED BY <3>1, <3>3
  <2>3. Pow2[Len(layers)] \in Nat
    BY <2>1, Pow2Facts
  <2>4. proof # <<>> => layers # <<>>
    BY <2>1
  <2>. QED BY <1>1, <2>1, <2>2, <2>3, <2>4 DEF LayerSizes
<1>. QED BY <1>1, LayerSizesInit, LayerSizesStep, TreeInvariant, PTL DEF Spec

=============================================================================
