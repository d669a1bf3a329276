------------------------ MODULE QuorumConfig_proofs ------------------------
(***************************************************************************)
(* What a contract's group arrays mean.  The SDK flattens a tree of groups *)
(* into them, reads them back as a tree, and decides with trees whether    *)
(* signatures suffice (CheckQuorum) and whether two contracts agree        *)
(* (ValidateConfigs); the contract climbs its arrays.                      *)
(*                                                                         *)
(* Recursion is over group numbers: a child's number is greater than its   *)
(* parent's in every configuration setConfig accepts.                      *)
(***************************************************************************)
EXTENDS ManyChainMultiSig, Enumeration_proofs, SequenceTheorems

-----------------------------------------------------------------------------
(* Induction over group numbers *)

\* A set that contains n whenever it contains the greater numbers up to N has all of 1..N.
LEMMA DownwardInduction ==
    ASSUME NEW N \in Nat, NEW S,
           \A n \in 1..N : (\A m \in (n + 1)..N : m \in S) => n \in S
    PROVE  \A n \in 1..N : n \in S
<1> DEFINE T == {k \in Nat : k < N /\ N - k \notin S}
<1> SUFFICES ASSUME NEW n \in 1..N, n \notin S PROVE FALSE
  OBVIOUS
<1>1. N - n \in Nat /\ N - n < N /\ N - (N - n) = n
  OBVIOUS
<1>2. T \subseteq Nat /\ T # {}
  BY <1>1
<1>3. PICK k \in T : \A y \in T : k <= y
  <2> HIDE DEF T
  <2>. QED BY <1>2, LeastNatural
<1>4. k \in Nat /\ N - k \in 1..N /\ N - k \notin S
  BY <1>3
<1>5. ASSUME NEW m \in (N - k + 1)..N PROVE m \in S
  <2>1. N - m \in Nat /\ N - m < k /\ N - m < N /\ N - (N - m) = m
    BY <1>4
  <2>2. N - m \notin T
    BY <2>1, <1>3, <1>4
  <2>. QED BY <2>1, <2>2
<1>. QED BY <1>4, <1>5

\* The trees satisfy the equation they are defined by: the numbers of a group's
\* children are greater than its own.
ChildrenFollow(cc) == \A i \in 1..NumGroups : \A k \in DOMAIN ChildrenOf(cc, i) : ChildrenOf(cc, i)[k] \in (i + 1)..NumGroups

TreeNode(cc, t, i) ==
    [quorum       |-> cc.groupQuorums[i],
     signers      |-> [k \in DOMAIN SignersIn(cc, i) |-> cc.signers[SignersIn(cc, i)[k]].addr],
     groupSigners |-> [k \in DOMAIN ChildrenOf(cc, i) |-> t[ChildrenOf(cc, i)[k]]]]

LEMMA TreesExist ==
    ASSUME NEW cc, ChildrenFollow(cc)
    PROVE  GroupTrees(cc) = [i \in 1..NumGroups |-> TreeNode(cc, GroupTrees(cc), i)]
<1> DEFINE N == NumGroups
           IsTree(t, n) == t = [i \in n..N |-> TreeNode(cc, t, i)]
           S == {n \in 1..N : \E t : IsTree(t, n)}
<1>1. N \in Nat \ {0}
  BY QuorumAssumption
<1>2. ASSUME NEW n \in 1..N, \A m \in (n + 1)..N : m \in S PROVE n \in S
  <2>1. PICK u : \A i \in (n + 1)..N : u[i] = TreeNode(cc, u, i)
    <3>1. CASE n = N
      BY <3>1, <1>1
    <3>2. CASE n < N
      <4>1. n + 1 \in (n + 1)..N
        BY <3>2, <1>1
      <4>2. PICK t : IsTree(t, n + 1)
        BY <4>1, <1>2
      <4>. QED BY <4>2
    <3>. QED BY <3>1, <3>2, <1>1
  <2> DEFINE v == [i \in n..N |-> IF i = n THEN TreeNode(cc, u, n) ELSE u[i]]
  <2>2. \A i \in n..N : TreeNode(cc, v, i) = TreeNode(cc, u, i)
    <3> SUFFICES ASSUME NEW i \in n..N PROVE TreeNode(cc, v, i) = TreeNode(cc, u, i)
      OBVIOUS
    <3>1. i \in 1..N
      BY <1>1
    <3>2. \A k \in DOMAIN ChildrenOf(cc, i) : ChildrenOf(cc, i)[k] \in (i + 1)..N
      BY <3>1 DEF ChildrenFollow
    <3>3. \A k \in DOMAIN ChildrenOf(cc, i) : ChildrenOf(cc, i)[k] \in (n + 1)..N
      BY <3>2, <1>1
    <3>4. \A k \in DOMAIN ChildrenOf(cc, i) : v[ChildrenOf(cc, i)[k]] = u[ChildrenOf(cc, i)[k]]
      BY <3>3, <1>1
    <3>. QED BY <3>4 DEF TreeNode
  <2>3. \A i \in n..N : v[i] = TreeNode(cc, v, i)
    <3>1. \A i \in n..N : i = n \/ i \in (n + 1)..N
      BY <1>1
    <3>2. \A i \in n..N : v[i] = TreeNode(cc, u, i)
      BY <2>1, <3>1
    <3>. QED BY <2>2, <3>2
  <2>4. IsTree(v, n)
    BY <2>3
  <2> HIDE DEF v
  <2>. QED BY <2>4
<1>3. \A n \in 1..N : n \in S
  <2> HIDE DEF S, N
  <2>. QED BY <1>1, <1>2, DownwardInduction
<1>4. \E t : IsTree(t, 1)
  BY <1>1, <1>3
<1>5. GroupTrees(cc) = CHOOSE t : IsTree(t, 1)
  BY DEF GroupTrees, TreeNode
<1> HIDE DEF IsTree
<1>6. IsTree(GroupTrees(cc), 1)
  BY <1>4, <1>5
<1>. QED BY <1>6 DEF IsTree

\* A one-to-one correspondence: as many here as there.
LEMMA SameNumber ==
    ASSUME NEW A, NEW B, IsFiniteSet(A), NEW f \in [A -> B],
           \A x, y \in A : f[x] = f[y] => x = y,
           \A z \in B : \E x \in A : f[x] = z
    PROVE  IsFiniteSet(B) /\ Cardinality(A) = Cardinality(B)
<1>1. f \in Bijection(A, B)
  BY Fun_IsBij
<1>2. ExistsBijection(A, B)
  BY <1>1, Fun_ExistsBij
<1>. QED BY <1>2, FS_Bijection

\* Ascending takes each element of S at one place.
Lists(f, S) ==
    /\ f \in [1..Cardinality(S) -> S] /\ Cardinality(S) \in Nat
    /\ \A j, k \in 1..Cardinality(S) : f[j] = f[k] => j = k
    /\ \A x \in S : \E k \in 1..Cardinality(S) : f[k] = x

LEMMA AscendingLists ==
    ASSUME NEW S, S \subseteq Nat, IsFiniteSet(S)
    PROVE  Lists(Ascending(S), S)
<1> DEFINE f == Ascending(S)
           n == Cardinality(S)
<1>1. n \in Nat
  BY FS_CardinalityType
<1>2. f \in [1..n -> S] /\ \A k \in 1..n : Rank(S, f[k]) = k - 1
  BY AscendingByRank
<1>3. \A x \in S : Rank(S, x) + 1 \in 1..n /\ f[Rank(S, x) + 1] = x
  BY AscendingByRank
<1> HIDE DEF f, n
<1>4. \A j, k \in 1..n : f[j] = f[k] => j = k
  <2> SUFFICES ASSUME NEW j \in 1..n, NEW k \in 1..n, f[j] = f[k] PROVE j = k
    OBVIOUS
  <2>1. j - 1 = k - 1
    BY <1>2
  <2>. QED BY <1>1, <2>1
<1>. QED BY <1>1, <1>2, <1>3, <1>4 DEF Lists, f, n

\* As many places hold an element of Q as Q has elements.
LEMMA PlacesOfSubset ==
    ASSUME NEW S, NEW f, Lists(f, S), NEW Q, Q \subseteq S
    PROVE  /\ IsFiniteSet({k \in DOMAIN f : f[k] \in Q})
           /\ IsFiniteSet(Q)
           /\ Cardinality({k \in DOMAIN f : f[k] \in Q}) = Cardinality(Q)
<1> DEFINE n == Cardinality(S)
           A == {k \in DOMAIN f : f[k] \in Q}
           g == [k \in A |-> f[k]]
<1>1. DOMAIN f = 1..n /\ n \in Nat
  BY DEF Lists
<1>2. IsFiniteSet(A)
  <2>1. IsFiniteSet(1..n)
    BY <1>1, IntervalCardinality
  <2>2. A \subseteq 1..n
    BY <1>1
  <2>. QED BY <2>1, <2>2, FS_Subset
<1>3. g \in [A -> Q]
  OBVIOUS
<1>4. \A x, y \in A : g[x] = g[y] => x = y
  BY <1>1 DEF Lists
<1>5. \A z \in Q : \E x \in A : g[x] = z
  BY <1>1 DEF Lists
<1> HIDE DEF A, g
<1>6. IsFiniteSet(Q) /\ Cardinality(A) = Cardinality(Q)
  BY <1>2, <1>3, <1>4, <1>5, SameNumber
<1>. QED BY <1>2, <1>6 DEF A

-----------------------------------------------------------------------------
(* The groups of an accepted configuration *)

Accepted(cc) == cc \in ChainConfig /\ setConfigAccepted(cc)
Enabled(cc, i) == i \in 1..NumGroups /\ cc.groupQuorums[i] > 0
ChildSet(cc, i) == {j \in 2..NumGroups : cc.groupQuorums[j] > 0 /\ cc.groupParents[j] = i - 1}
SignerSet(cc, i) == {k \in DOMAIN cc.signers : cc.signers[k].group = i - 1}

LEMMA ChainConfigType ==
    ASSUME NEW cc \in ChainConfig
    PROVE  /\ NumGroups \in Nat \ {0}
           /\ \A i \in 1..NumGroups : cc.groupQuorums[i] \in Nat /\ cc.groupParents[i] \in Nat
           /\ cc.signers \in Seq([addr : Signer, group : Nat])
           /\ DOMAIN cc.signers = 1..Len(cc.signers) /\ Len(cc.signers) \in Nat
           /\ \A k \in DOMAIN cc.signers : cc.signers[k].addr \in Signer /\ cc.signers[k].group \in Nat
<1>1. /\ cc.groupQuorums \in [1..NumGroups -> Nat] /\ cc.groupParents \in [1..NumGroups -> Nat]
      /\ cc.signers \in Seq([addr : Signer, group : Nat])
  BY DEF ChainConfig
<1>2. NumGroups \in Nat \ {0}
  BY QuorumAssumption
<1>3. DOMAIN cc.signers = 1..Len(cc.signers) /\ Len(cc.signers) \in Nat
  BY <1>1
<1>4. \A k \in DOMAIN cc.signers : cc.signers[k] \in [addr : Signer, group : Nat]
  <2>1. \A R : \A s \in Seq(R) : \A k \in DOMAIN s : s[k] \in R
    BY ElementOfSeq
  <2>. QED BY <1>1, <2>1
<1>. QED BY <1>1, <1>2, <1>3, <1>4

LEMMA ChildrenListed ==
    ASSUME NEW cc \in ChainConfig, NEW i \in 1..NumGroups
    PROVE  Lists(ChildrenOf(cc, i), ChildSet(cc, i)) /\ IsFiniteSet(ChildSet(cc, i))
<1>1. IsFiniteSet(1..NumGroups)
  BY ChainConfigType, IntervalCardinality
<1>2. ChildSet(cc, i) \subseteq 1..NumGroups /\ ChildSet(cc, i) \subseteq Nat
  BY ChainConfigType DEF ChildSet
<1>3. IsFiniteSet(ChildSet(cc, i))
  BY <1>1, <1>2, FS_Subset
<1>4. ChildrenOf(cc, i) = Ascending(ChildSet(cc, i))
  BY DEF ChildrenOf, ChildSet
<1>. QED BY <1>2, <1>3, <1>4, AscendingLists

LEMMA SignersListed ==
    ASSUME NEW cc \in ChainConfig, NEW i \in 1..NumGroups
    PROVE  Lists(SignersIn(cc, i), SignerSet(cc, i)) /\ IsFiniteSet(SignerSet(cc, i))
<1>1. IsFiniteSet(DOMAIN cc.signers) /\ DOMAIN cc.signers \subseteq Nat
  <2>1. DOMAIN cc.signers = 1..Len(cc.signers) /\ Len(cc.signers) \in Nat
    BY ChainConfigType
  <2>2. IsFiniteSet(1..Len(cc.signers))
    BY <2>1, IntervalCardinality
  <2>. QED BY <2>1, <2>2
<1>2. SignerSet(cc, i) \subseteq DOMAIN cc.signers
  BY DEF SignerSet
<1>3. IsFiniteSet(SignerSet(cc, i))
  BY <1>1, <1>2, FS_Subset
<1>4. SignersIn(cc, i) = Ascending(SignerSet(cc, i))
  BY DEF SignersIn, SignerSet
<1>. QED BY <1>1, <1>2, <1>3, <1>4, AscendingLists

LEMMA ListLength ==
    ASSUME NEW f, NEW S, Lists(f, S)
    PROVE  Len(f) = Cardinality(S) /\ DOMAIN f = 1..Cardinality(S)
<1>1. f \in [1..Cardinality(S) -> S] /\ Cardinality(S) \in Nat
  BY DEF Lists
<1>2. f \in Seq(S)
  BY <1>1, IsASeq
<1>. QED BY <1>1, <1>2

\* A child's number is greater than its parent's.
LEMMA ChildIsGreater ==
    ASSUME NEW cc, Accepted(cc), NEW i \in 1..NumGroups, NEW j \in ChildSet(cc, i)
    PROVE  j \in (i + 1)..NumGroups /\ Enabled(cc, j)
<1>1. j \in 2..NumGroups /\ cc.groupQuorums[j] > 0 /\ cc.groupParents[j] = i - 1
  BY DEF ChildSet
<1>2. cc.groupParents[j] < j - 1
  BY <1>1 DEF Accepted, setConfigAccepted
<1>3. NumGroups \in Nat
  BY QuorumAssumption
<1>. QED BY <1>1, <1>2, <1>3 DEF Enabled

LEMMA AcceptedChildrenFollow ==
    ASSUME NEW cc, Accepted(cc)
    PROVE  ChildrenFollow(cc)
<1> SUFFICES ASSUME NEW i \in 1..NumGroups, NEW k \in DOMAIN ChildrenOf(cc, i)
             PROVE  ChildrenOf(cc, i)[k] \in (i + 1)..NumGroups
  BY DEF ChildrenFollow
<1>1. Lists(ChildrenOf(cc, i), ChildSet(cc, i))
  BY ChildrenListed DEF Accepted
<1>2. ChildrenOf(cc, i)[k] \in ChildSet(cc, i)
  BY <1>1 DEF Lists
<1>. QED BY <1>2, ChildIsGreater

\* A group with a child or a signer is enabled, an enabled group has one.
LEMMA Members ==
    ASSUME NEW cc, Accepted(cc), NEW i \in 1..NumGroups
    PROVE  /\ Enabled(cc, i) <=> (ChildSet(cc, i) # {} \/ SignerSet(cc, i) # {})
           /\ Enabled(cc, i) => Cardinality(SignerSet(cc, i)) + Cardinality(ChildSet(cc, i)) >= cc.groupQuorums[i]
<1> DEFINE s == Cardinality(SignerSet(cc, i))
           n == Cardinality(ChildSet(cc, i))
<1>1. Len(ChildrenOf(cc, i)) = n
  BY ChildrenListed, ListLength DEF Accepted
<1>2. IF cc.groupQuorums[i] = 0 THEN s + n = 0 ELSE s + n >= cc.groupQuorums[i]
  BY <1>1 DEF Accepted, setConfigAccepted, SignerSet
<1>3. s \in Nat /\ n \in Nat
  BY ChildrenListed, SignersListed, FS_CardinalityType DEF Accepted
<1>4. (s = 0 <=> SignerSet(cc, i) = {}) /\ (n = 0 <=> ChildSet(cc, i) = {})
  BY ChildrenListed, SignersListed, FS_EmptySet DEF Accepted
<1>5. cc.groupQuorums[i] \in Nat
  BY ChainConfigType DEF Accepted
<1> HIDE DEF s, n
<1>6. cc.groupQuorums[i] > 0 <=> (s # 0 \/ n # 0)
  BY <1>2, <1>3, <1>5
<1>7. cc.groupQuorums[i] > 0 => s + n >= cc.groupQuorums[i]
  BY <1>2, <1>5
<1>. QED BY <1>4, <1>6, <1>7 DEF Enabled, s, n

\* An enabled group but the first is a child of an enabled one before it.
LEMMA ParentIsEnabled ==
    ASSUME NEW cc, Accepted(cc), NEW j \in 1..NumGroups, Enabled(cc, j), j # 1
    PROVE  \E i \in 1..(j - 1) : Enabled(cc, i) /\ j \in ChildSet(cc, i)
<1> DEFINE i == cc.groupParents[j] + 1
<1>1. j \in 2..NumGroups /\ cc.groupParents[j] \in Nat /\ NumGroups \in Nat
  BY ChainConfigType DEF Accepted
<1>2. cc.groupParents[j] < j - 1
  BY <1>1 DEF Accepted, setConfigAccepted
<1>3. i \in 1..(j - 1) /\ i \in 1..NumGroups /\ i - 1 = cc.groupParents[j]
  BY <1>1, <1>2
<1>4. j \in ChildSet(cc, i)
  BY <1>1, <1>3 DEF ChildSet, Enabled
<1>5. Enabled(cc, i)
  <2> HIDE DEF i
  <2>. QED BY <1>3, <1>4, Members
<1>. QED BY <1>3, <1>4, <1>5

LEMMA RootIsEnabled ==
    ASSUME NEW cc, Accepted(cc)
    PROVE  Enabled(cc, 1)
<1> DEFINE T == {i \in 1..NumGroups : Enabled(cc, i)}
<1>1. T # {}
  <2>1. PICK k \in DOMAIN cc.signers : TRUE
    <3>1. cc.signers \in Seq([addr : Signer, group : Nat]) /\ cc.signers # <<>>
      BY ChainConfigType DEF Accepted, setConfigAccepted
    <3>2. 1 \in DOMAIN cc.signers
      BY <3>1
    <3>. QED BY <3>2
  <2> DEFINE i == cc.signers[k].group + 1
  <2>2. cc.signers[k].group \in Nat /\ cc.signers[k].group < NumGroups /\ NumGroups \in Nat
    BY ChainConfigType DEF Accepted, setConfigAccepted
  <2>3. i \in 1..NumGroups /\ i - 1 = cc.signers[k].group
    BY <2>2
  <2>4. k \in SignerSet(cc, i)
    BY <2>3 DEF SignerSet
  <2> HIDE DEF i
  <2>5. Enabled(cc, i)
    BY <2>3, <2>4, Members
  <2>. QED BY <2>3, <2>5
<1>2. PICK j \in T : \A y \in T : j <= y
  <2>1. T \subseteq Nat
    OBVIOUS
  <2> HIDE DEF T
  <2>. QED BY <1>1, <2>1, LeastNatural
<1>3. CASE j # 1
  <2>1. PICK i \in 1..(j - 1) : Enabled(cc, i)
    BY <1>2, <1>3, ParentIsEnabled
  <2>2. i \in T /\ i < j
    BY <1>2, <2>1, QuorumAssumption DEF Enabled
  <2>. QED BY <1>2, <2>2
<1>. QED BY <1>2, <1>3

-----------------------------------------------------------------------------
(* The trees of the groups *)

GroupTree(cc, i) == GroupTrees(cc)[i]

LEMMA TreeShape ==
    ASSUME NEW cc, Accepted(cc), NEW i \in 1..NumGroups
    PROVE  /\ GroupTree(cc, i).quorum = cc.groupQuorums[i]
           /\ GroupTree(cc, i).signers = [k \in DOMAIN SignersIn(cc, i) |-> cc.signers[SignersIn(cc, i)[k]].addr]
           /\ GroupTree(cc, i).groupSigners = [k \in DOMAIN ChildrenOf(cc, i) |-> GroupTree(cc, ChildrenOf(cc, i)[k])]
<1>1. GroupTree(cc, i) = TreeNode(cc, GroupTrees(cc), i)
  BY AcceptedChildrenFollow, TreesExist DEF GroupTree
<1>. QED BY <1>1 DEF TreeNode, GroupTree

\* The groups below a group are the trees of its children.
LEMMA TreesBelow ==
    ASSUME NEW cc, Accepted(cc), NEW i \in 1..NumGroups
    PROVE  Elements(GroupTree(cc, i).groupSigners) = {GroupTree(cc, j) : j \in ChildSet(cc, i)}
<1> DEFINE f == ChildrenOf(cc, i)
<1>1. Lists(f, ChildSet(cc, i)) /\ DOMAIN f = 1..Cardinality(ChildSet(cc, i))
  BY ChildrenListed, ListLength DEF Accepted
<1>2. GroupTree(cc, i).groupSigners = [k \in DOMAIN f |-> GroupTree(cc, f[k])]
  BY TreeShape, ZenonT(60)
<1> HIDE DEF f
<1>3. Elements(GroupTree(cc, i).groupSigners) = {GroupTree(cc, f[k]) : k \in DOMAIN f}
  BY <1>2 DEF Elements
<1>. QED BY <1>1, <1>3 DEF Lists

\* The signers of a group's tree are the group's.
LEMMA OwnSigners ==
    ASSUME NEW cc, Accepted(cc), NEW i \in 1..NumGroups
    PROVE  Elements(GroupTree(cc, i).signers) = {cc.signers[k].addr : k \in SignerSet(cc, i)}
<1> DEFINE f == SignersIn(cc, i)
<1>1. Lists(f, SignerSet(cc, i)) /\ DOMAIN f = 1..Cardinality(SignerSet(cc, i))
  BY SignersListed, ListLength DEF Accepted
<1>2. GroupTree(cc, i).signers = [k \in DOMAIN f |-> cc.signers[f[k]].addr]
  BY TreeShape, ZenonT(60)
<1> HIDE DEF f
<1>3. Elements(GroupTree(cc, i).signers) = {cc.signers[f[k]].addr : k \in DOMAIN f}
  BY <1>2 DEF Elements
<1>. QED BY <1>1, <1>3 DEF Lists

TreeVotes(g, addrs) == Cardinality({k \in DOMAIN g.signers : g.signers[k] \in addrs})
ContractVotes(cc, i, addrs) ==
    Cardinality({k \in DOMAIN cc.signers : cc.signers[k].group = i - 1 /\ cc.signers[k].addr \in addrs})

LEMMA OwnVotes ==
    ASSUME NEW cc, Accepted(cc), NEW i \in 1..NumGroups, NEW addrs
    PROVE  TreeVotes(GroupTree(cc, i), addrs) = ContractVotes(cc, i, addrs)
<1> DEFINE f == SignersIn(cc, i)
           Q == {k \in SignerSet(cc, i) : cc.signers[k].addr \in addrs}
<1>1. Lists(f, SignerSet(cc, i))
  BY SignersListed DEF Accepted
<1>2. GroupTree(cc, i).signers = [k \in DOMAIN f |-> cc.signers[f[k]].addr]
  BY TreeShape, ZenonT(60)
<1>3. \A k \in DOMAIN f : f[k] \in SignerSet(cc, i)
  BY <1>1 DEF Lists
<1> HIDE DEF f
<1>4. {k \in DOMAIN GroupTree(cc, i).signers : GroupTree(cc, i).signers[k] \in addrs} = {k \in DOMAIN f : f[k] \in Q}
  BY <1>2, <1>3
<1>5. Q = {k \in DOMAIN cc.signers : cc.signers[k].group = i - 1 /\ cc.signers[k].addr \in addrs}
  BY DEF SignerSet
<1>6. Q \subseteq SignerSet(cc, i)
  OBVIOUS
<1> HIDE DEF Q
<1>7. Cardinality({k \in DOMAIN f : f[k] \in Q}) = Cardinality(Q)
  BY <1>1, <1>6, PlacesOfSubset
<1>. QED BY <1>4, <1>5, <1>7 DEF TreeVotes, ContractVotes

\* No address signs twice.
LEMMA AddressIsUnique ==
    ASSUME NEW cc, Accepted(cc), NEW k \in DOMAIN cc.signers, NEW l \in DOMAIN cc.signers,
           cc.signers[k].addr = cc.signers[l].addr
    PROVE  k = l
<1>1. k \in Nat /\ l \in Nat /\ cc.signers[k].addr \in Nat
  <2>1. DOMAIN cc.signers \subseteq Nat /\ cc.signers[k].addr \in Signer
    BY ChainConfigType DEF Accepted
  <2>. QED BY <2>1, QuorumAssumption
<1>2. k < l => cc.signers[k].addr < cc.signers[l].addr
  BY DEF Accepted, setConfigAccepted
<1>3. l < k => cc.signers[l].addr < cc.signers[k].addr
  BY DEF Accepted, setConfigAccepted
<1>. QED BY <1>1, <1>2, <1>3

\* A group with an address of another group's is that group.
LEMMA SharedAddress ==
    ASSUME NEW cc, Accepted(cc), NEW i \in 1..NumGroups, NEW j \in 1..NumGroups,
           NEW x, x \in Elements(GroupTree(cc, i).signers), x \in Elements(GroupTree(cc, j).signers)
    PROVE  i = j
<1>1. PICK k \in SignerSet(cc, i) : cc.signers[k].addr = x
  BY OwnSigners
<1>2. PICK l \in SignerSet(cc, j) : cc.signers[l].addr = x
  BY OwnSigners
<1>3. k = l
  BY <1>1, <1>2, AddressIsUnique DEF SignerSet
<1>4. i - 1 = j - 1
  BY <1>3 DEF SignerSet
<1>. QED BY <1>4

\* A group is the child of one group.
LEMMA OneParent ==
    ASSUME NEW cc, NEW i \in 1..NumGroups, NEW j \in 1..NumGroups,
           NEW c \in ChildSet(cc, i), c \in ChildSet(cc, j)
    PROVE  i = j
<1>1. i - 1 = j - 1
  BY DEF ChildSet
<1>. QED BY <1>1

\* Two enabled groups have different trees: the signers tell them apart.
LEMMA TreesDiffer ==
    ASSUME NEW cc, Accepted(cc)
    PROVE  \A i, j \in 1..NumGroups : Enabled(cc, i) /\ Enabled(cc, j) /\ GroupTree(cc, i) = GroupTree(cc, j) => i = j
<1> DEFINE S == {i \in 1..NumGroups : \A j \in 1..NumGroups :
                   Enabled(cc, i) /\ Enabled(cc, j) /\ GroupTree(cc, i) = GroupTree(cc, j) => i = j}
<1>1. ASSUME NEW i \in 1..NumGroups, \A m \in (i + 1)..NumGroups : m \in S PROVE i \in S
  <2> SUFFICES ASSUME NEW j \in 1..NumGroups, Enabled(cc, i), Enabled(cc, j), GroupTree(cc, i) = GroupTree(cc, j)
               PROVE  i = j
    OBVIOUS
  <2>1. CASE SignerSet(cc, i) # {}
    <3>1. {cc.signers[k].addr : k \in SignerSet(cc, i)} # {}
      BY <2>1
    <3>2. PICK x : x \in Elements(GroupTree(cc, i).signers)
      BY <3>1, OwnSigners
    <3>. QED BY <3>2, SharedAddress
  <2>2. CASE ChildSet(cc, i) # {}
    <3>1. PICK c \in ChildSet(cc, i) : TRUE
      BY <2>2
    <3>2. GroupTree(cc, c) \in Elements(GroupTree(cc, i).groupSigners)
      BY TreesBelow
    <3>3. GroupTree(cc, c) \in Elements(GroupTree(cc, j).groupSigners)
      BY <3>2
    <3>4. PICK d \in ChildSet(cc, j) : GroupTree(cc, c) = GroupTree(cc, d)
      BY <3>3, TreesBelow
    <3>5. c \in (i + 1)..NumGroups /\ Enabled(cc, c) /\ Enabled(cc, d)
      BY ChildIsGreater
    <3>6. c = d
      BY <1>1, <3>4, <3>5 DEF Enabled
    <3>. QED BY <3>6, OneParent
  <2>. QED BY <2>1, <2>2, Members
<1>2. \A i \in 1..NumGroups : i \in S
  <2>1. NumGroups \in Nat
    BY QuorumAssumption
  <2> HIDE DEF S
  <2>. QED BY <1>1, <2>1, DownwardInduction
<1>. QED BY <1>2

-----------------------------------------------------------------------------
(* The groups of a tree *)

LevelAt(cfg, f, d) == IF d = 0 THEN {cfg} ELSE UNION {Elements(g.groupSigners) : g \in f[d - 1]}

LEMMA LevelsExist ==
    ASSUME NEW cfg
    PROVE  Levels(cfg) = [d \in 0..MaxDepth |-> LevelAt(cfg, Levels(cfg), d)]
<1> DEFINE IsLevels(f, n) == f = [d \in 0..n |-> LevelAt(cfg, f, d)]
           S == {n \in 0..MaxDepth : \E f : IsLevels(f, n)}
<1>1. MaxDepth \in Nat
  BY QuorumAssumption
<1>2. 0 \in S
  <2> DEFINE f == [d \in 0..0 |-> {cfg}]
  <2>1. \A d \in 0..0 : d = 0
    OBVIOUS
  <2>2. f = [d \in 0..0 |-> LevelAt(cfg, f, d)]
    BY <2>1 DEF LevelAt
  <2> HIDE DEF f
  <2>3. IsLevels(f, 0)
    BY <2>2
  <2>. QED BY <1>1, <2>3
<1>3. ASSUME NEW n \in 0..MaxDepth, n \in S, n < MaxDepth PROVE n + 1 \in S
  <2>1. PICK u : IsLevels(u, n)
    BY <1>3
  <2> DEFINE v == [d \in 0..(n + 1) |-> IF d = n + 1 THEN LevelAt(cfg, u, d) ELSE u[d]]
  <2>2. \A d \in 0..(n + 1) : LevelAt(cfg, v, d) = LevelAt(cfg, u, d)
    <3> SUFFICES ASSUME NEW d \in 0..(n + 1), d # 0 PROVE v[d - 1] = u[d - 1]
      BY DEF LevelAt
    <3>1. d - 1 \in 0..(n + 1) /\ d - 1 # n + 1
      OBVIOUS
    <3>. QED BY <3>1
  <2>3. \A d \in 0..(n + 1) : d = n + 1 \/ d \in 0..n
    OBVIOUS
  <2>4. \A d \in 0..(n + 1) : v[d] = LevelAt(cfg, u, d)
    BY <2>1, <2>3
  <2>5. IsLevels(v, n + 1)
    BY <2>2, <2>4
  <2>6. n + 1 \in 0..MaxDepth
    BY <1>1, <1>3
  <2> HIDE DEF v, IsLevels
  <2>. QED BY <2>5, <2>6
<1>4. \A n \in 0..MaxDepth : n \in S
  <2> HIDE DEF S
  <2>. QED BY <1>1, <1>2, <1>3, UpwardInduction
<1>5. \E f : IsLevels(f, MaxDepth)
  BY <1>1, <1>4
<1>6. Levels(cfg) = CHOOSE f : IsLevels(f, MaxDepth)
  BY DEF Levels, LevelAt
<1> HIDE DEF IsLevels
<1>7. IsLevels(Levels(cfg), MaxDepth)
  BY <1>5, <1>6
<1>. QED BY <1>7 DEF IsLevels

\* At depth d are trees of enabled groups with numbers greater than d.
LEMMA LevelsOfTree ==
    ASSUME NEW cc, Accepted(cc), NEW d \in 0..MaxDepth, NEW g \in Levels(ToConfig(cc))[d]
    PROVE  \E i \in (d + 1)..NumGroups : Enabled(cc, i) /\ g = GroupTree(cc, i)
<1> DEFINE L == Levels(ToConfig(cc))
           P(n) == \A h \in L[n] : \E i \in (n + 1)..NumGroups : Enabled(cc, i) /\ h = GroupTree(cc, i)
           S == {n \in 0..MaxDepth : P(n)}
<1>1. MaxDepth \in Nat /\ NumGroups \in Nat \ {0}
  BY QuorumAssumption
<1>2. \A n \in 0..MaxDepth : L[n] = LevelAt(ToConfig(cc), L, n)
  BY LevelsExist
<1>3. 0 \in S
  <2>1. 0 \in 0..MaxDepth
    BY <1>1
  <2>. HIDE DEF L
  <2>2. L[0] = LevelAt(ToConfig(cc), L, 0)
    BY <1>2, <2>1
  <2>3. L[0] = {GroupTree(cc, 1)}
    BY <2>2 DEF LevelAt, ToConfig, GroupTree
  <2>4. 1 \in (0 + 1)..NumGroups /\ Enabled(cc, 1)
    BY <1>1, RootIsEnabled
  <2>. QED BY <2>1, <2>3, <2>4
<1>4. ASSUME NEW n \in 0..MaxDepth, n \in S, n < MaxDepth PROVE n + 1 \in S
  <2>1. n + 1 \in 0..MaxDepth /\ n + 1 # 0 /\ (n + 1) - 1 = n
    BY <1>1, <1>4
  <2>2. L[n + 1] = UNION {Elements(h.groupSigners) : h \in L[n]}
    BY <1>2, <2>1 DEF LevelAt
  <2>3. ASSUME NEW x \in L[n + 1]
        PROVE  \E i \in ((n + 1) + 1)..NumGroups : Enabled(cc, i) /\ x = GroupTree(cc, i)
    <3>1. PICK h \in L[n] : x \in Elements(h.groupSigners)
      BY <2>2
    <3>2. PICK i \in (n + 1)..NumGroups : Enabled(cc, i) /\ h = GroupTree(cc, i)
      BY <1>4
    <3>3. i \in 1..NumGroups
      BY <1>1, <3>2 DEF Enabled
    <3>9. Elements(GroupTree(cc, i).groupSigners) = {GroupTree(cc, j) : j \in ChildSet(cc, i)}
      BY <3>3, TreesBelow
    <3>4. PICK j \in ChildSet(cc, i) : x = GroupTree(cc, j)
      BY <3>1, <3>2, <3>9
    <3>5. j \in (i + 1)..NumGroups /\ Enabled(cc, j)
      BY <3>3, ChildIsGreater
    <3>6. j \in ((n + 1) + 1)..NumGroups
      BY <3>2, <3>5, <1>1
    <3>. QED BY <3>4, <3>5, <3>6
  <2>. QED BY <2>1, <2>3
<1>5. \A n \in 0..MaxDepth : n \in S
  <2> HIDE DEF S
  <2>. QED BY <1>1, <1>3, <1>4, UpwardInduction
<1>. QED BY <1>5

\* A tree read from a contract contains what is below its groups.
LEMMA GroupsBelow ==
    ASSUME NEW cc, Accepted(cc), NEW i \in 1..NumGroups, GroupTree(cc, i) \in Groups(ToConfig(cc)), Enabled(cc, i),
           NEW j \in ChildSet(cc, i)
    PROVE  GroupTree(cc, j) \in Groups(ToConfig(cc))
<1> DEFINE L == Levels(ToConfig(cc))
<1>1. MaxDepth \in Nat /\ NumGroups \in Nat /\ NumGroups <= MaxDepth + 1
  BY QuorumAssumption
<1>2. PICK d \in 0..MaxDepth : GroupTree(cc, i) \in L[d]
  BY DEF Groups
<1>3. PICK m \in (d + 1)..NumGroups : Enabled(cc, m) /\ GroupTree(cc, i) = GroupTree(cc, m)
  BY <1>2, LevelsOfTree
<1>4. m = i
  BY <1>3, TreesDiffer DEF Enabled
<1>5. j \in (i + 1)..NumGroups
  BY ChildIsGreater
<1>6. d + 1 \in 0..MaxDepth /\ d + 1 # 0 /\ (d + 1) - 1 = d
  BY <1>1, <1>3, <1>4, <1>5
<1>7. L[d + 1] = UNION {Elements(h.groupSigners) : h \in L[d]}
  <2>1. \A n \in 0..MaxDepth : L[n] = LevelAt(ToConfig(cc), L, n)
    BY LevelsExist
  <2>. QED BY <1>6, <2>1 DEF LevelAt
<1>8. GroupTree(cc, j) \in Elements(GroupTree(cc, i).groupSigners)
  BY TreesBelow
<1>9. GroupTree(cc, j) \in L[d + 1]
  BY <1>2, <1>7, <1>8
<1>. QED BY <1>6, <1>9 DEF Groups

\* The groups of the tree that is read from a contract are its enabled groups.
LEMMA GroupsOfTree ==
    ASSUME NEW cc, Accepted(cc)
    PROVE  Groups(ToConfig(cc)) = {GroupTree(cc, i) : i \in {j \in 1..NumGroups : Enabled(cc, j)}}
<1> DEFINE G == Groups(ToConfig(cc))
<1>1. MaxDepth \in Nat /\ NumGroups \in Nat
  BY QuorumAssumption
<1>2. ASSUME NEW g \in G PROVE \E i \in 1..NumGroups : Enabled(cc, i) /\ g = GroupTree(cc, i)
  <2>1. PICK d \in 0..MaxDepth : g \in Levels(ToConfig(cc))[d]
    BY DEF Groups
  <2>2. PICK i \in (d + 1)..NumGroups : Enabled(cc, i) /\ g = GroupTree(cc, i)
    BY <2>1, LevelsOfTree
  <2>. QED BY <2>2 DEF Enabled
<1>3. GroupTree(cc, 1) \in G
  <2>1. Levels(ToConfig(cc))[0] = {GroupTree(cc, 1)}
    BY <1>1, LevelsExist DEF LevelAt, ToConfig, GroupTree
  <2>. QED BY <1>1, <2>1 DEF Groups
<1>4. ASSUME NEW n \in 1..NumGroups, Enabled(cc, n), \A m \in 1..(n - 1) : Enabled(cc, m) => GroupTree(cc, m) \in G
      PROVE  GroupTree(cc, n) \in G
  <2>1. CASE n = 1
    BY <2>1, <1>3
  <2>2. CASE n # 1
    <3>1. PICK m \in 1..(n - 1) : Enabled(cc, m) /\ n \in ChildSet(cc, m)
      BY <1>4, <2>2, ParentIsEnabled
    <3>2. GroupTree(cc, m) \in G /\ m \in 1..NumGroups
      BY <1>4, <3>1 DEF Enabled
    <3>. QED BY <3>1, <3>2, GroupsBelow
  <2>. QED BY <2>1, <2>2
<1>5. \A n \in 1..NumGroups : Enabled(cc, n) => GroupTree(cc, n) \in G
  <2> DEFINE T == {n \in 1..NumGroups : Enabled(cc, n) /\ GroupTree(cc, n) \notin G}
  <2> SUFFICES ASSUME T # {} PROVE FALSE
    OBVIOUS
  <2>1. PICK n \in T : \A y \in T : n <= y
    <3>1. T \subseteq Nat
      OBVIOUS
    <3> HIDE DEF T
    <3>. QED BY <3>1, LeastNatural
  <2>2. \A m \in 1..(n - 1) : m \in 1..NumGroups /\ ~(n <= m)
    BY <1>1, <2>1
  <2>3. \A m \in 1..(n - 1) : Enabled(cc, m) => GroupTree(cc, m) \in G
    BY <2>1, <2>2
  <2>. QED BY <1>4, <2>1, <2>3
<1>. QED BY <1>2, <1>5

-----------------------------------------------------------------------------
(* Votes *)

\* Group i reaches its quorum, given which groups do.
Reaches(cc, addrs, f, i) ==
    /\ cc.groupQuorums[i] > 0
    /\ Cardinality({k \in DOMAIN cc.signers :
                      cc.signers[k].group = i - 1 /\ cc.signers[k].addr \in addrs})
         + Cardinality({k \in DOMAIN ChildrenOf(cc, i) : f[ChildrenOf(cc, i)[k]]})
       >= cc.groupQuorums[i]

\* The contract's count is the equation it is defined by.
LEMMA ApprovedExists ==
    ASSUME NEW cc, ChildrenFollow(cc), NEW addrs
    PROVE  Approved(cc, addrs) = [i \in 1..NumGroups |-> Reaches(cc, addrs, Approved(cc, addrs), i)]
<1> DEFINE N == NumGroups
           IsCount(f, n) == f = [i \in n..N |-> Reaches(cc, addrs, f, i)]
           S == {n \in 1..N : \E f : IsCount(f, n)}
<1>1. N \in Nat \ {0}
  BY QuorumAssumption
<1>2. ASSUME NEW n \in 1..N, \A m \in (n + 1)..N : m \in S PROVE n \in S
  <2>1. PICK u : \A i \in (n + 1)..N : u[i] = Reaches(cc, addrs, u, i)
    <3>1. CASE n = N
      BY <3>1, <1>1
    <3>2. CASE n < N
      <4>1. n + 1 \in (n + 1)..N
        BY <3>2, <1>1
      <4>2. PICK t : IsCount(t, n + 1)
        BY <4>1, <1>2
      <4>. QED BY <4>2
    <3>. QED BY <3>1, <3>2, <1>1
  <2> DEFINE v == [i \in n..N |-> IF i = n THEN Reaches(cc, addrs, u, n) ELSE u[i]]
  <2>2. \A i \in n..N : Reaches(cc, addrs, v, i) = Reaches(cc, addrs, u, i)
    <3> SUFFICES ASSUME NEW i \in n..N PROVE Reaches(cc, addrs, v, i) = Reaches(cc, addrs, u, i)
      OBVIOUS
    <3>1. i \in 1..N
      BY <1>1
    <3>2. \A k \in DOMAIN ChildrenOf(cc, i) : ChildrenOf(cc, i)[k] \in (i + 1)..N
      BY <3>1 DEF ChildrenFollow
    <3>3. \A k \in DOMAIN ChildrenOf(cc, i) : ChildrenOf(cc, i)[k] \in (n + 1)..N
      BY <3>2, <1>1
    <3>4. \A k \in DOMAIN ChildrenOf(cc, i) : v[ChildrenOf(cc, i)[k]] = u[ChildrenOf(cc, i)[k]]
      BY <3>3, <1>1
    <3>5. {k \in DOMAIN ChildrenOf(cc, i) : v[ChildrenOf(cc, i)[k]]}
            = {k \in DOMAIN ChildrenOf(cc, i) : u[ChildrenOf(cc, i)[k]]}
      BY <3>4
    <3>. QED BY <3>5 DEF Reaches
  <2>3. \A i \in n..N : v[i] = Reaches(cc, addrs, v, i)
    <3>1. \A i \in n..N : i = n \/ i \in (n + 1)..N
      BY <1>1
    <3>2. \A i \in n..N : v[i] = Reaches(cc, addrs, u, i)
      BY <2>1, <3>1
    <3>. QED BY <2>2, <3>2
  <2>4. IsCount(v, n)
    BY <2>3
  <2> HIDE DEF v
  <2>. QED BY <2>4
<1>3. \A n \in 1..N : n \in S
  <2> HIDE DEF S, N
  <2>. QED BY <1>1, <1>2, DownwardInduction
<1>4. \E f : IsCount(f, 1)
  BY <1>1, <1>3
<1>5. Approved(cc, addrs) = CHOOSE f : IsCount(f, 1)
  BY DEF Approved, Reaches
<1> HIDE DEF IsCount
<1>6. IsCount(Approved(cc, addrs), 1)
  BY <1>4, <1>5
<1>. QED BY <1>6 DEF IsCount

\* The same for a group of a tree.
AtConsensus(addrs, f, g) ==
    Cardinality({i \in DOMAIN g.signers : g.signers[i] \in addrs})
      + Cardinality({i \in DOMAIN g.groupSigners : f[g.groupSigners[i]]})
    >= g.quorum

\* If f says of the trees below group i what a says of the children, it is at
\* consensus when they reach its quorum.
LEMMA SameStep ==
    ASSUME NEW cc, Accepted(cc), NEW i \in 1..NumGroups, Enabled(cc, i), NEW addrs, NEW f, NEW a,
           \A j \in ChildSet(cc, i) : f[GroupTree(cc, j)] = a[j]
    PROVE  AtConsensus(addrs, f, GroupTree(cc, i)) = Reaches(cc, addrs, a, i)
<1> DEFINE ch == ChildrenOf(cc, i)
           t == GroupTree(cc, i)
<1>1. /\ t.quorum = cc.groupQuorums[i]
      /\ t.groupSigners = [k \in DOMAIN ch |-> GroupTree(cc, ch[k])]
  BY TreeShape, ZenonT(60)
<1>2. \A k \in DOMAIN ch : ch[k] \in ChildSet(cc, i)
  BY ChildrenListed DEF Accepted, Lists
<1>3. TreeVotes(t, addrs) = ContractVotes(cc, i, addrs)
  BY OwnVotes
<1> HIDE DEF ch, t
<1>4. {k \in DOMAIN t.groupSigners : f[t.groupSigners[k]]} = {k \in DOMAIN ch : a[ch[k]]}
  BY <1>1, <1>2
<1> DEFINE votes == ContractVotes(cc, i, addrs) + Cardinality({k \in DOMAIN ch : a[ch[k]]})
<1>5. AtConsensus(addrs, f, t) <=> votes >= cc.groupQuorums[i]
  BY <1>1, <1>3, <1>4 DEF AtConsensus, TreeVotes
<1>6. Reaches(cc, addrs, a, i) <=> votes >= cc.groupQuorums[i]
  BY DEF Reaches, Enabled, ContractVotes, ch
<1>7. AtConsensus(addrs, f, t) \in BOOLEAN /\ Reaches(cc, addrs, a, i) \in BOOLEAN
  BY DEF AtConsensus, Reaches
<1> HIDE DEF votes
<1>. QED BY <1>5, <1>6, <1>7 DEF t

\* CheckQuorum's recursion over the tree gives each group what the contract's
\* count over the arrays gives it.
LEMMA ConsensusIsApproval ==
    ASSUME NEW cc, Accepted(cc), NEW addrs
    PROVE  \A i \in 1..NumGroups : Enabled(cc, i) =>
             Consensus(ToConfig(cc), addrs)[GroupTree(cc, i)] = Approved(cc, addrs)[i]
<1> DEFINE G == Groups(ToConfig(cc))
           a == Approved(cc, addrs)
           Index(g) == CHOOSE i \in 1..NumGroups : Enabled(cc, i) /\ g = GroupTree(cc, i)
           IsConsensus(f) == f = [g \in G |-> AtConsensus(addrs, f, g)]
           c == Consensus(ToConfig(cc), addrs)
<1>1. \A i \in 1..NumGroups : a[i] = Reaches(cc, addrs, a, i)
  <2>1. a = [i \in 1..NumGroups |-> Reaches(cc, addrs, a, i)]
    BY AcceptedChildrenFollow, ApprovedExists
  <2> HIDE DEF a
  <2>. QED BY <2>1
<1>2. G = {GroupTree(cc, i) : i \in {j \in 1..NumGroups : Enabled(cc, j)}}
  BY GroupsOfTree
<1>3. \A i \in 1..NumGroups : Enabled(cc, i) => Index(GroupTree(cc, i)) = i
  BY TreesDiffer
<1> HIDE DEF a, G, Index
<1>4. \E f : IsConsensus(f)
  <2> DEFINE f == [g \in G |-> a[Index(g)]]
  <2>1. \A i \in 1..NumGroups : Enabled(cc, i) => f[GroupTree(cc, i)] = a[i]
    BY <1>2, <1>3
  <2> HIDE DEF f
  <2>2. ASSUME NEW g \in G PROVE f[g] = AtConsensus(addrs, f, g)
    <3>1. PICK i \in 1..NumGroups : Enabled(cc, i) /\ g = GroupTree(cc, i)
      BY <1>2
    <3>2. \A j \in ChildSet(cc, i) : f[GroupTree(cc, j)] = a[j]
      BY <2>1, ChildIsGreater DEF Enabled
    <3>3. AtConsensus(addrs, f, GroupTree(cc, i)) = Reaches(cc, addrs, a, i)
      BY <3>1, <3>2, SameStep
    <3>. QED BY <1>1, <2>1, <3>1, <3>3
  <2>3. IsConsensus(f)
    BY <2>2 DEF f
  <2>. QED BY <2>3
<1>5. c = CHOOSE f : IsConsensus(f)
  BY DEF Consensus, AtConsensus, G
<1>6. IsConsensus(c)
  <2> HIDE DEF IsConsensus
  <2>. QED BY <1>4, <1>5
<1> HIDE DEF c
<1> DEFINE S == {i \in 1..NumGroups : Enabled(cc, i) => c[GroupTree(cc, i)] = a[i]}
<1>7. ASSUME NEW i \in 1..NumGroups, \A m \in (i + 1)..NumGroups : m \in S PROVE i \in S
  <2> SUFFICES ASSUME Enabled(cc, i) PROVE c[GroupTree(cc, i)] = a[i]
    OBVIOUS
  <2>1. \A j \in ChildSet(cc, i) : j \in (i + 1)..NumGroups /\ Enabled(cc, j)
    BY ChildIsGreater
  <2>2. \A j \in ChildSet(cc, i) : c[GroupTree(cc, j)] = a[j]
    BY <1>7, <2>1
  <2>3. AtConsensus(addrs, c, GroupTree(cc, i)) = Reaches(cc, addrs, a, i)
    BY <2>2, SameStep
  <2>4. c[GroupTree(cc, i)] = AtConsensus(addrs, c, GroupTree(cc, i))
    BY <1>2, <1>6
  <2>. QED BY <1>1, <2>3, <2>4
<1>8. \A i \in 1..NumGroups : i \in S
  <2>1. NumGroups \in Nat
    BY QuorumAssumption
  <2> HIDE DEF S
  <2>. QED BY <1>7, <2>1, DownwardInduction
<1>. QED BY <1>8 DEF a, c

\* The signers of the tree are the signers of the contract.
LEMMA SignersOfTree ==
    ASSUME NEW cc, Accepted(cc)
    PROVE  GetAllSigners(ToConfig(cc)) = {cc.signers[k].addr : k \in DOMAIN cc.signers}
<1>1. Groups(ToConfig(cc)) = {GroupTree(cc, i) : i \in {j \in 1..NumGroups : Enabled(cc, j)}}
  BY GroupsOfTree
<1>2. ASSUME NEW x \in GetAllSigners(ToConfig(cc)) PROVE \E k \in DOMAIN cc.signers : x = cc.signers[k].addr
  <2>1. PICK i \in 1..NumGroups : x \in Elements(GroupTree(cc, i).signers)
    BY <1>1 DEF GetAllSigners
  <2>2. PICK k \in SignerSet(cc, i) : x = cc.signers[k].addr
    BY <2>1, OwnSigners
  <2>. QED BY <2>2 DEF SignerSet
<1>3. ASSUME NEW k \in DOMAIN cc.signers PROVE cc.signers[k].addr \in GetAllSigners(ToConfig(cc))
  <2> DEFINE i == cc.signers[k].group + 1
  <2>1. cc.signers[k].group \in Nat /\ cc.signers[k].group < NumGroups /\ NumGroups \in Nat
    BY ChainConfigType DEF Accepted, setConfigAccepted
  <2>2. i \in 1..NumGroups /\ i - 1 = cc.signers[k].group
    BY <2>1
  <2>3. k \in SignerSet(cc, i)
    BY <2>2 DEF SignerSet
  <2> HIDE DEF i
  <2>4. Enabled(cc, i)
    BY <2>2, <2>3, Members
  <2>5. cc.signers[k].addr \in Elements(GroupTree(cc, i).signers)
    BY <2>2, <2>3, OwnSigners
  <2>6. GroupTree(cc, i) \in Groups(ToConfig(cc))
    BY <1>1, <2>2, <2>4
  <2>. QED BY <2>5, <2>6 DEF GetAllSigners
<1>. QED BY <1>2, <1>3

\* Config.CanSetRoot of the tree that GetConfig reads from a contract answers as the
\* contract's own count of the votes over its group arrays does, for every set of
\* addresses and every configuration that setConfig accepts.
THEOREM TreeDecidesAsContract ==
    ASSUME NEW cc \in ChainConfig, setConfigAccepted(cc), NEW addrs
    PROVE  CanSetRoot(ToConfig(cc), addrs) <=> SignersAccepted(cc, addrs)
<1>1. Accepted(cc)
  BY DEF Accepted
<1>2. Enabled(cc, 1) /\ 1 \in 1..NumGroups
  BY <1>1, RootIsEnabled DEF Enabled
<1>3. ToConfig(cc) = GroupTree(cc, 1)
  BY DEF ToConfig, GroupTree
<1>4. Consensus(ToConfig(cc), addrs)[GroupTree(cc, 1)] = Approved(cc, addrs)[1]
  BY <1>1, <1>2, ConsensusIsApproval
<1>5. isGroupAtConsensus(ToConfig(cc), addrs) = QuorumReached(cc, addrs)
  BY <1>3, <1>4 DEF isGroupAtConsensus, QuorumReached
<1>6. GetAllSigners(ToConfig(cc)) = {cc.signers[k].addr : k \in DOMAIN cc.signers}
  BY <1>1, SignersOfTree
<1>. QED BY <1>5, <1>6 DEF CanSetRoot, SignersAccepted

-----------------------------------------------------------------------------
(* Equal configurations: Equals compares the trees read from two contracts *)

\* Group i of cc equals group j of dd, given which of their children do.
MatchesGroup(cc, dd, h, i, j) ==
    /\ cc.groupQuorums[i] = dd.groupQuorums[j]
    /\ unorderedArrayEquals(GroupTree(cc, i).signers, GroupTree(dd, j).signers)
    /\ Cardinality(ChildSet(cc, i)) = Cardinality(ChildSet(dd, j))
    /\ \A x \in ChildSet(cc, i) : \E y \in ChildSet(dd, j) : h[x][y]

\* Comparing group numbers is well defined.
LEMMA MatchesExist ==
    ASSUME NEW cc, Accepted(cc), NEW dd
    PROVE  \E h : h = [i \in 1..NumGroups |-> [j \in 1..NumGroups |-> MatchesGroup(cc, dd, h, i, j)]]
<1> DEFINE N == NumGroups
           Row(h, i) == [j \in 1..N |-> MatchesGroup(cc, dd, h, i, j)]
           IsMatch(h, n) == h = [i \in n..N |-> Row(h, i)]
           S == {n \in 1..N : \E h : IsMatch(h, n)}
<1>1. N \in Nat \ {0}
  BY QuorumAssumption
<1>2. ASSUME NEW n \in 1..N, \A m \in (n + 1)..N : m \in S PROVE n \in S
  <2>1. PICK u : \A i \in (n + 1)..N : u[i] = Row(u, i)
    <3> HIDE DEF Row
    <3>1. CASE n = N
      BY <3>1, <1>1
    <3>2. CASE n < N
      <4>1. n + 1 \in (n + 1)..N
        BY <3>2, <1>1
      <4>2. PICK t : IsMatch(t, n + 1)
        BY <4>1, <1>2
      <4>. QED BY <4>2
    <3>. QED BY <3>1, <3>2, <1>1
  <2> DEFINE v == [i \in n..N |-> IF i = n THEN Row(u, n) ELSE u[i]]
  <2>2. \A i \in n..N : Row(v, i) = Row(u, i)
    <3> SUFFICES ASSUME NEW i \in n..N PROVE Row(v, i) = Row(u, i)
      OBVIOUS
    <3>1. i \in 1..N
      BY <1>1
    <3>2. \A x \in ChildSet(cc, i) : x \in (i + 1)..N
      BY <3>1, ChildIsGreater
    <3>3. \A x \in ChildSet(cc, i) : x \in n..N /\ x # n
      BY <3>2, <1>1
    <3>4. \A x \in ChildSet(cc, i) : v[x] = u[x]
      BY <3>3
    <3> HIDE DEF v
    <3>5. \A j \in 1..N : MatchesGroup(cc, dd, v, i, j) = MatchesGroup(cc, dd, u, i, j)
      BY <3>4 DEF MatchesGroup
    <3>. QED BY <3>5
  <2> HIDE DEF Row
  <2>3. \A i \in n..N : v[i] = Row(v, i)
    <3>1. \A i \in n..N : i = n \/ i \in (n + 1)..N
      BY <1>1
    <3>2. \A i \in n..N : v[i] = Row(u, i)
      BY <2>1, <3>1
    <3>. QED BY <2>2, <3>2
  <2>4. IsMatch(v, n)
    BY <2>3
  <2> HIDE DEF v, IsMatch
  <2>. QED BY <2>4
<1>3. \A n \in 1..N : n \in S
  <2> HIDE DEF S, N
  <2>. QED BY <1>1, <1>2, DownwardInduction
<1>4. \E h : IsMatch(h, 1)
  BY <1>1, <1>3
<1>. QED BY <1>4

\* Equals says that group i of cc equals group j of dd.
SameGroup(cc, dd, i, j) ==
    EqualGroups(ToConfig(cc), ToConfig(dd))[<<GroupTree(cc, i), GroupTree(dd, j)>>]

\* The comparison of two groups of trees, given that of the groups below.
EqualStep(f, g, h) ==
    /\ g.quorum = h.quorum
    /\ unorderedArrayEquals(g.signers, h.signers)
    /\ Len(g.groupSigners) = Len(h.groupSigners)
    /\ \A i \in DOMAIN g.groupSigners : \E j \in DOMAIN h.groupSigners :
         f[<<g.groupSigners[i], h.groupSigners[j]>>]

\* f says of the trees below i and j what h says of the children.
Lifts(cc, dd, i, j, f, h) ==
    \A x \in ChildSet(cc, i), y \in ChildSet(dd, j) : f[<<GroupTree(cc, x), GroupTree(dd, y)>>] = h[x][y]

\* It is the comparison of the group numbers.
LEMMA EqualStepMatches ==
    ASSUME NEW cc, Accepted(cc), NEW dd, Accepted(dd), NEW i \in 1..NumGroups, NEW j \in 1..NumGroups,
           NEW f, NEW h, Lifts(cc, dd, i, j, f, h)
    PROVE  EqualStep(f, GroupTree(cc, i), GroupTree(dd, j)) = MatchesGroup(cc, dd, h, i, j)
<1> DEFINE a == ChildrenOf(cc, i)
           b == ChildrenOf(dd, j)
           s == GroupTree(cc, i)
           t == GroupTree(dd, j)
<1>1. /\ s.quorum = cc.groupQuorums[i] /\ t.quorum = dd.groupQuorums[j]
      /\ s.groupSigners = [k \in DOMAIN a |-> GroupTree(cc, a[k])]
      /\ t.groupSigners = [k \in DOMAIN b |-> GroupTree(dd, b[k])]
  <2>1. s.quorum = cc.groupQuorums[i] /\ s.groupSigners = [k \in DOMAIN a |-> GroupTree(cc, a[k])]
    BY TreeShape
  <2>2. t.quorum = dd.groupQuorums[j] /\ t.groupSigners = [k \in DOMAIN b |-> GroupTree(dd, b[k])]
    BY TreeShape, ZenonT(60)
  <2>. QED BY <2>1, <2>2
<1>2. /\ Lists(a, ChildSet(cc, i)) /\ DOMAIN a = 1..Cardinality(ChildSet(cc, i))
      /\ Lists(b, ChildSet(dd, j)) /\ DOMAIN b = 1..Cardinality(ChildSet(dd, j))
  BY ChildrenListed, ListLength DEF Accepted
<1>3. Cardinality(ChildSet(cc, i)) \in Nat /\ Cardinality(ChildSet(dd, j)) \in Nat
  BY <1>2 DEF Lists
<1> HIDE DEF a, b, s, t
<1>4. Len(s.groupSigners) = Cardinality(ChildSet(cc, i)) /\ Len(t.groupSigners) = Cardinality(ChildSet(dd, j))
  <2>1. ASSUME NEW n \in Nat, NEW q, DOMAIN q = 1..n, q = [k \in DOMAIN q |-> q[k]] PROVE Len(q) = n
    <3>1. q \in Seq({q[k] : k \in 1..n})
      BY <2>1, IsASeq
    <3>. QED BY <2>1, <3>1
  <2>. QED BY <1>1, <1>2, <1>3, <2>1
<1>5. (\A k \in DOMAIN s.groupSigners : \E l \in DOMAIN t.groupSigners :
          f[<<s.groupSigners[k], t.groupSigners[l]>>])
      <=> (\A x \in ChildSet(cc, i) : \E y \in ChildSet(dd, j) : h[x][y])
  <2>1. DOMAIN s.groupSigners = DOMAIN a /\ DOMAIN t.groupSigners = DOMAIN b
    BY <1>1
  <2>2. (\A k \in DOMAIN a : a[k] \in ChildSet(cc, i)) /\ (\A k \in DOMAIN b : b[k] \in ChildSet(dd, j))
    BY <1>2 DEF Lists
  <2>3. \A k \in DOMAIN a, l \in DOMAIN b : f[<<s.groupSigners[k], t.groupSigners[l]>>] = h[a[k]][b[l]]
    BY <1>1, <2>2 DEF Lifts
  <2>4. (\A x \in ChildSet(cc, i) : \E k \in DOMAIN a : a[k] = x) /\ (\A y \in ChildSet(dd, j) : \E l \in DOMAIN b : b[l] = y)
    BY <1>2 DEF Lists
  <2>5. (\A k \in DOMAIN s.groupSigners : \E l \in DOMAIN t.groupSigners :
            f[<<s.groupSigners[k], t.groupSigners[l]>>])
        <=> (\A k \in DOMAIN a : \E l \in DOMAIN b : h[a[k]][b[l]])
    <3>1. ASSUME NEW k \in DOMAIN a
          PROVE  (\E l \in DOMAIN b : f[<<s.groupSigners[k], t.groupSigners[l]>>])
                 <=> (\E l \in DOMAIN b : h[a[k]][b[l]])
      BY <2>3
    <3>. QED BY <2>1, <3>1
  <2>6. (\A k \in DOMAIN a : \E l \in DOMAIN b : h[a[k]][b[l]])
        <=> (\A x \in ChildSet(cc, i) : \E y \in ChildSet(dd, j) : h[x][y])
    BY <2>2, <2>4
  <2>. QED BY <2>5, <2>6
<1>6. EqualStep(f, s, t) <=> MatchesGroup(cc, dd, h, i, j)
  BY <1>1, <1>4, <1>5 DEF EqualStep, MatchesGroup, s, t
<1>7. EqualStep(f, s, t) \in BOOLEAN /\ MatchesGroup(cc, dd, h, i, j) \in BOOLEAN
  BY DEF EqualStep, MatchesGroup
<1>. QED BY <1>6, <1>7 DEF s, t

\* Equals of two groups is the equation it is defined by.
LEMMA SameGroupStep ==
    ASSUME NEW cc, Accepted(cc), NEW dd, Accepted(dd),
           NEW i \in 1..NumGroups, NEW j \in 1..NumGroups, Enabled(cc, i), Enabled(dd, j)
    PROVE  SameGroup(cc, dd, i, j) <=>
             /\ cc.groupQuorums[i] = dd.groupQuorums[j]
             /\ unorderedArrayEquals(GroupTree(cc, i).signers, GroupTree(dd, j).signers)
             /\ Cardinality(ChildSet(cc, i)) = Cardinality(ChildSet(dd, j))
             /\ \A x \in ChildSet(cc, i) : \E y \in ChildSet(dd, j) : SameGroup(cc, dd, x, y)
<1> DEFINE N == NumGroups
           G == Groups(ToConfig(cc))
           H == Groups(ToConfig(dd))
           E == EqualGroups(ToConfig(cc), ToConfig(dd))
           IsEqual(f) == f = [p \in G \X H |-> EqualStep(f, p[1], p[2])]
           Place(g) == CHOOSE n \in 1..N : Enabled(cc, n) /\ g = GroupTree(cc, n)
           Place2(g) == CHOOSE n \in 1..N : Enabled(dd, n) /\ g = GroupTree(dd, n)
<1>1. G = {GroupTree(cc, n) : n \in {m \in 1..N : Enabled(cc, m)}}
  BY GroupsOfTree
<1>2. H = {GroupTree(dd, n) : n \in {m \in 1..N : Enabled(dd, m)}}
  BY GroupsOfTree
<1>3. \A n \in 1..N : Enabled(cc, n) => Place(GroupTree(cc, n)) = n
  BY TreesDiffer
<1>4. \A n \in 1..N : Enabled(dd, n) => Place2(GroupTree(dd, n)) = n
  BY TreesDiffer
<1> HIDE DEF G, H, Place, Place2
<1>5. \E f : IsEqual(f)
  <2> DEFINE F(h) == [m \in 1..N |-> [n \in 1..N |-> MatchesGroup(cc, dd, h, m, n)]]
  <2>1. PICK h : h = F(h)
    BY MatchesExist
  <2>2. \A m, n \in 1..N : h[m][n] = MatchesGroup(cc, dd, h, m, n)
    <3>1. \A m, n \in 1..N : F(h)[m][n] = MatchesGroup(cc, dd, h, m, n)
      OBVIOUS
    <3> HIDE DEF F
    <3>. QED BY <2>1, <3>1
  <2> HIDE DEF F
  <2> DEFINE f == [p \in G \X H |-> h[Place(p[1])][Place2(p[2])]]
  <2>3. ASSUME NEW m \in 1..N, NEW n \in 1..N, Enabled(cc, m), Enabled(dd, n)
        PROVE  f[<<GroupTree(cc, m), GroupTree(dd, n)>>] = h[m][n]
    <3>1. <<GroupTree(cc, m), GroupTree(dd, n)>> \in G \X H
      BY <1>1, <1>2, <2>3
    <3>2. Place(GroupTree(cc, m)) = m /\ Place2(GroupTree(dd, n)) = n
      BY <1>3, <1>4, <2>3
    <3>. QED BY <3>1, <3>2
  <2>4. f = [p \in G \X H |-> f[p]]
    OBVIOUS
  <2> HIDE DEF f
  <2>5. ASSUME NEW p \in G \X H PROVE f[p] = EqualStep(f, p[1], p[2])
    <3>1. p[1] \in G /\ p[2] \in H /\ p = <<p[1], p[2]>>
      OBVIOUS
    <3>2. PICK m \in 1..N : Enabled(cc, m) /\ p[1] = GroupTree(cc, m)
      BY <1>1, <3>1
    <3>3. PICK n \in 1..N : Enabled(dd, n) /\ p[2] = GroupTree(dd, n)
      BY <1>2, <3>1
    <3>4. Lifts(cc, dd, m, n, f, h)
      <4>1. \A x \in ChildSet(cc, m) : x \in 1..N /\ Enabled(cc, x)
        BY ChildIsGreater DEF Enabled
      <4>2. \A y \in ChildSet(dd, n) : y \in 1..N /\ Enabled(dd, y)
        BY ChildIsGreater DEF Enabled
      <4>. QED BY <2>3, <4>1, <4>2 DEF Lifts
    <3>5. EqualStep(f, GroupTree(cc, m), GroupTree(dd, n)) = MatchesGroup(cc, dd, h, m, n)
      BY <3>4, EqualStepMatches
    <3>6. f[<<GroupTree(cc, m), GroupTree(dd, n)>>] = h[m][n]
      BY <2>3, <3>2, <3>3
    <3>. QED BY <2>2, <3>1, <3>2, <3>3, <3>5, <3>6
  <2>6. IsEqual(f)
    BY <2>4, <2>5
  <2> HIDE DEF IsEqual
  <2>. QED BY <2>6
<1>6. E = CHOOSE f : IsEqual(f)
  BY DEF EqualGroups, EqualStep, G, H
<1> HIDE DEF IsEqual, E
<1>7. IsEqual(E)
  BY <1>5, <1>6
<1>8. E[<<GroupTree(cc, i), GroupTree(dd, j)>>] = EqualStep(E, GroupTree(cc, i), GroupTree(dd, j))
  <2>1. <<GroupTree(cc, i), GroupTree(dd, j)>> \in G \X H
    BY <1>1, <1>2
  <2>2. \A p \in G \X H : E[p] = EqualStep(E, p[1], p[2])
    BY <1>7 DEF IsEqual
  <2>. QED BY <2>1, <2>2
<1> DEFINE h == [m \in 1..N |-> [n \in 1..N |-> E[<<GroupTree(cc, m), GroupTree(dd, n)>>]]]
<1>9. \A x \in ChildSet(cc, i), y \in ChildSet(dd, j) : h[x][y] = E[<<GroupTree(cc, x), GroupTree(dd, y)>>]
  BY DEF ChildSet
<1>10. EqualStep(E, GroupTree(cc, i), GroupTree(dd, j)) = MatchesGroup(cc, dd, h, i, j)
  <2> HIDE DEF h
  <2>1. Lifts(cc, dd, i, j, E, h)
    BY <1>9 DEF Lifts
  <2>. QED BY <2>1, EqualStepMatches
<1> HIDE DEF h
<1>11. (\A x \in ChildSet(cc, i) : \E y \in ChildSet(dd, j) : h[x][y])
       <=> (\A x \in ChildSet(cc, i) : \E y \in ChildSet(dd, j) : SameGroup(cc, dd, x, y))
  BY <1>9 DEF SameGroup, E
<1>12. SameGroup(cc, dd, i, j) <=> MatchesGroup(cc, dd, h, i, j)
  BY <1>8, <1>10 DEF SameGroup, E
<1>. QED BY <1>11, <1>12 DEF MatchesGroup

\* Two arrays without repetitions that unorderedArrayEquals finds equal have the same
\* elements, and as many of them among addrs.
LEMMA EqualArrays ==
    ASSUME NEW m \in Nat, NEW s, DOMAIN s = 1..m, s \in Seq(Elements(s)), \A k, l \in 1..m : s[k] = s[l] => k = l,
           NEW n \in Nat, NEW t, DOMAIN t = 1..n, t \in Seq(Elements(t)), \A k, l \in 1..n : t[k] = t[l] => k = l,
           unorderedArrayEquals(s, t)
    PROVE  Elements(s) = Elements(t)
<1>1. m = n
  <2>1. Len(s) = m /\ Len(t) = n
    OBVIOUS
  <2>. QED BY <2>1 DEF unorderedArrayEquals
<1>2. ASSUME NEW D, D \subseteq 1..m
      PROVE  IsFiniteSet(D)
  BY <1>2, IntervalCardinality, FS_Subset
<1>3. ASSUME NEW x \in Elements(t) PROVE x \in Elements(s)
  <2>1. Occurrences(s, x) = Occurrences(t, x)
    BY DEF unorderedArrayEquals
  <2> DEFINE A == {k \in DOMAIN s : s[k] = x}
             B == {k \in DOMAIN t : t[k] = x}
  <2>2. IsFiniteSet(A) /\ IsFiniteSet(B)
    <3>1. A \subseteq 1..m /\ B \subseteq 1..m
      BY <1>1
    <3> HIDE DEF A, B
    <3>. QED BY <1>2, <3>1
  <2>3. B # {}
    BY DEF Elements
  <2>4. Cardinality(A) = Cardinality(B)
    BY <2>1 DEF Occurrences
  <2> HIDE DEF A, B
  <2>5. A # {}
    BY <2>2, <2>3, <2>4, FS_EmptySet
  <2>. QED BY <2>5 DEF A, Elements
<1>4. ASSUME NEW r, DOMAIN r = 1..m, \A k, l \in 1..m : r[k] = r[l] => k = l
      PROVE  IsFiniteSet(Elements(r)) /\ Cardinality(Elements(r)) = m
  <2> DEFINE f == [k \in 1..m |-> r[k]]
  <2>1. f \in [1..m -> Elements(r)] /\ \A z \in Elements(r) : \E k \in 1..m : f[k] = z
    BY <1>4 DEF Elements
  <2>2. \A k, l \in 1..m : f[k] = f[l] => k = l
    BY <1>4
  <2>3. IsFiniteSet(1..m) /\ Cardinality(1..m) = m
    BY IntervalCardinality
  <2> DEFINE D == 1..m
             R == Elements(r)
  <2>4. f \in [D -> R] /\ (\A z \in R : \E k \in D : f[k] = z) /\ IsFiniteSet(D)
        /\ \A k, l \in D : f[k] = f[l] => k = l
    BY <2>1, <2>2, <2>3
  <2> HIDE DEF f, D, R
  <2>5. IsFiniteSet(R) /\ Cardinality(D) = Cardinality(R)
    BY <2>4, SameNumber
  <2>. QED BY <2>3, <2>5 DEF D, R
<1>5. Elements(t) \subseteq Elements(s)
  BY <1>3
<1>6. IsFiniteSet(Elements(s)) /\ Cardinality(Elements(s)) = m /\ Cardinality(Elements(t)) = m
  BY <1>1, <1>4
<1>. QED BY <1>5, <1>6, FS_Subset

\* The addresses of group i.
AddressesIn(cc, i) == Elements(GroupTree(cc, i).signers)

\* Each of them has one vote.
LEMMA VotesOfAddresses ==
    ASSUME NEW cc, Accepted(cc), NEW i \in 1..NumGroups, NEW addrs
    PROVE  ContractVotes(cc, i, addrs) = Cardinality(AddressesIn(cc, i) \cap addrs)
           /\ Cardinality(AddressesIn(cc, i) \cap addrs) \in Nat
<1> DEFINE A == {k \in DOMAIN cc.signers : cc.signers[k].group = i - 1 /\ cc.signers[k].addr \in addrs}
           B == AddressesIn(cc, i) \cap addrs
           f == [k \in A |-> cc.signers[k].addr]
<1>1. A \subseteq SignerSet(cc, i) /\ A \subseteq DOMAIN cc.signers
  BY DEF SignerSet
<1>2. IsFiniteSet(A)
  BY <1>1, SignersListed, FS_Subset DEF Accepted
<1>3. AddressesIn(cc, i) = {cc.signers[k].addr : k \in SignerSet(cc, i)}
  BY OwnSigners DEF AddressesIn
<1>4. f \in [A -> B] /\ \A z \in B : \E k \in A : f[k] = z
  BY <1>3 DEF SignerSet
<1>5. \A k, l \in A : f[k] = f[l] => k = l
  BY <1>1, AddressIsUnique
<1> HIDE DEF A, B, f
<1>6. IsFiniteSet(B) /\ Cardinality(A) = Cardinality(B)
  BY <1>2, <1>4, <1>5, SameNumber
<1>7. Cardinality(B) \in Nat
  BY <1>6, FS_CardinalityType
<1>. QED BY <1>6, <1>7 DEF A, B, ContractVotes

\* A group's tree lists its addresses without repetition.
LEMMA SignerArray ==
    ASSUME NEW e, Accepted(e), NEW n \in 1..NumGroups
    PROVE  LET s == GroupTree(e, n).signers
               m == Cardinality(SignerSet(e, n))
           IN m \in Nat /\ DOMAIN s = 1..m /\ s \in Seq(Elements(s)) /\ \A k, l \in 1..m : s[k] = s[l] => k = l
<1> DEFINE f == SignersIn(e, n)
           m == Cardinality(SignerSet(e, n))
           s == GroupTree(e, n).signers
<1>1. Lists(f, SignerSet(e, n)) /\ DOMAIN f = 1..m
  BY SignersListed, ListLength DEF Accepted
<1>2. s = [k \in DOMAIN f |-> e.signers[f[k]].addr]
  BY TreeShape, ZenonT(60)
<1>3. m \in Nat /\ (\A k \in 1..m : f[k] \in SignerSet(e, n)) /\ \A k, l \in 1..m : f[k] = f[l] => k = l
  BY <1>1 DEF Lists
<1>4. \A k \in 1..m : f[k] \in DOMAIN e.signers
  BY <1>3 DEF SignerSet
<1> HIDE DEF f, m, s
<1>5. DOMAIN s = 1..m /\ \A k \in 1..m : s[k] = e.signers[f[k]].addr
  BY <1>1, <1>2
<1>6. \A k, l \in 1..m : s[k] = s[l] => k = l
  BY <1>3, <1>4, <1>5, AddressIsUnique
<1>7. s \in Seq(Elements(s))
  <2>1. s \in [1..m -> Elements(s)]
    BY <1>1, <1>2, <1>5 DEF Elements
  <2>. QED BY <1>3, <2>1, IsASeq
<1>. QED BY <1>3, <1>5, <1>6, <1>7 DEF m, s

\* Equal groups have the same signers.
LEMMA SameAddresses ==
    ASSUME NEW cc, Accepted(cc), NEW dd, Accepted(dd), NEW i \in 1..NumGroups, NEW j \in 1..NumGroups,
           unorderedArrayEquals(GroupTree(cc, i).signers, GroupTree(dd, j).signers)
    PROVE  AddressesIn(cc, i) = AddressesIn(dd, j)
<1> DEFINE s == GroupTree(cc, i).signers
           t == GroupTree(dd, j).signers
           m == Cardinality(SignerSet(cc, i))
           n == Cardinality(SignerSet(dd, j))
<1>1. m \in Nat /\ DOMAIN s = 1..m /\ s \in Seq(Elements(s)) /\ \A k, l \in 1..m : s[k] = s[l] => k = l
  BY SignerArray
<1>2. n \in Nat /\ DOMAIN t = 1..n /\ t \in Seq(Elements(t)) /\ \A k, l \in 1..n : t[k] = t[l] => k = l
  BY SignerArray
<1>3. unorderedArrayEquals(s, t)
  OBVIOUS
<1> HIDE DEF s, t, m, n
<1>4. Elements(s) = Elements(t)
  BY <1>1, <1>2, <1>3, EqualArrays
<1>. QED BY <1>4 DEF AddressesIn, s, t

\* No two groups equal one.
Injective(cc, dd, j) ==
    \A i, n \in 1..NumGroups :
        (Enabled(cc, i) /\ Enabled(cc, n) /\ SameGroup(cc, dd, i, j) /\ SameGroup(cc, dd, n, j)) => i = n

\* Then the children of two equal groups correspond, although Equals looks for those of
\* one group among those of the other only.
LEMMA ChildMap ==
    ASSUME NEW cc, Accepted(cc), NEW dd, Accepted(dd), NEW i \in 1..NumGroups, NEW j \in 1..NumGroups,
           Enabled(cc, i), Enabled(dd, j), SameGroup(cc, dd, i, j),
           \A y \in ChildSet(dd, j) : Injective(cc, dd, y)
    PROVE  \E g \in [ChildSet(cc, i) -> ChildSet(dd, j)] :
             /\ \A x \in ChildSet(cc, i) : SameGroup(cc, dd, x, g[x])
             /\ \A x, z \in ChildSet(cc, i) : g[x] = g[z] => x = z
             /\ \A y \in ChildSet(dd, j) : \E x \in ChildSet(cc, i) : g[x] = y
<1> DEFINE A == ChildSet(cc, i)
           B == ChildSet(dd, j)
           g == [x \in A |-> CHOOSE y \in B : SameGroup(cc, dd, x, y)]
<1>1. Cardinality(A) = Cardinality(B) /\ \A x \in A : \E y \in B : SameGroup(cc, dd, x, y)
  BY SameGroupStep
<1>2. IsFiniteSet(A) /\ IsFiniteSet(B)
  BY ChildrenListed DEF Accepted
<1>3. \A x \in A : x \in 1..NumGroups /\ Enabled(cc, x)
  BY ChildIsGreater DEF Enabled
<1> HIDE DEF A, B
<1>4. \A x \in A : g[x] \in B /\ SameGroup(cc, dd, x, g[x])
  BY <1>1
<1>5. g \in [A -> B]
  BY <1>4
<1> HIDE DEF g
<1>6. \A x, z \in A : g[x] = g[z] => x = z
  BY <1>3, <1>4 DEF Injective, B
<1>7. g \in Injection(A, B)
  BY <1>5, <1>6 DEF Injection, IsInjective
<1>8. g \in Surjection(A, B)
  BY <1>1, <1>2, <1>7, FS_Injection
<1>9. \A y \in B : \E x \in A : g[x] = y
  BY <1>8 DEF Surjection
<1>. QED BY <1>4, <1>5, <1>6, <1>9 DEF A, B

\* No two groups equal one: its signers, or those below it, tell.
LEMMA EqualIsOneToOne ==
    ASSUME NEW cc, Accepted(cc), NEW dd, Accepted(dd)
    PROVE  \A j \in 1..NumGroups : Enabled(dd, j) => Injective(cc, dd, j)
<1> DEFINE S == {j \in 1..NumGroups : Enabled(dd, j) => Injective(cc, dd, j)}
<1>1. ASSUME NEW j \in 1..NumGroups, \A m \in (j + 1)..NumGroups : m \in S PROVE j \in S
  <2> SUFFICES ASSUME Enabled(dd, j), NEW i \in 1..NumGroups, NEW n \in 1..NumGroups,
                      Enabled(cc, i), Enabled(cc, n), SameGroup(cc, dd, i, j), SameGroup(cc, dd, n, j)
               PROVE  i = n
    BY DEF Injective
  <2>1. CASE SignerSet(dd, j) # {}
    <3>1. PICK a : a \in AddressesIn(dd, j)
      <4>1. {dd.signers[k].addr : k \in SignerSet(dd, j)} # {}
        BY <2>1
      <4>. QED BY <4>1, OwnSigners DEF AddressesIn
    <3>2. unorderedArrayEquals(GroupTree(cc, i).signers, GroupTree(dd, j).signers)
          /\ unorderedArrayEquals(GroupTree(cc, n).signers, GroupTree(dd, j).signers)
      BY SameGroupStep
    <3>3. AddressesIn(cc, i) = AddressesIn(dd, j) /\ AddressesIn(cc, n) = AddressesIn(dd, j)
      BY <3>2, SameAddresses
    <3>4. a \in Elements(GroupTree(cc, i).signers) /\ a \in Elements(GroupTree(cc, n).signers)
      BY <3>1, <3>3 DEF AddressesIn
    <3>. QED BY <3>4, SharedAddress
  <2>2. CASE ChildSet(dd, j) # {}
    <3>1. PICK y \in ChildSet(dd, j) : TRUE
      BY <2>2
    <3>2. \A z \in ChildSet(dd, j) : Injective(cc, dd, z)
      BY <1>1, ChildIsGreater
    <3>3. PICK x \in ChildSet(cc, i) : SameGroup(cc, dd, x, y)
      BY <3>1, <3>2, ChildMap
    <3>4. PICK z \in ChildSet(cc, n) : SameGroup(cc, dd, z, y)
      BY <3>1, <3>2, ChildMap
    <3>5. x \in 1..NumGroups /\ z \in 1..NumGroups /\ Enabled(cc, x) /\ Enabled(cc, z)
      BY ChildIsGreater DEF Enabled
    <3>6. x = z
      BY <3>1, <3>2, <3>3, <3>4, <3>5 DEF Injective
    <3>. QED BY <3>6, OneParent
  <2>. QED BY <2>1, <2>2, Members
<1>2. \A j \in 1..NumGroups : j \in S
  <2>1. NumGroups \in Nat
    BY QuorumAssumption
  <2> HIDE DEF S
  <2>. QED BY <1>1, <2>1, DownwardInduction
<1>. QED BY <1>2

\* The children of group i that reach their quorum.
ChildrenFor(cc, addrs, i) == {x \in ChildSet(cc, i) : Approved(cc, addrs)[x]}

\* A group of the contract reaches its quorum with its signers and its children.
LEMMA ApprovedStep ==
    ASSUME NEW cc, Accepted(cc), NEW addrs, NEW i \in 1..NumGroups, Enabled(cc, i)
    PROVE  Approved(cc, addrs)[i] <=>
             Cardinality(AddressesIn(cc, i) \cap addrs) + Cardinality(ChildrenFor(cc, addrs, i))
               >= cc.groupQuorums[i]
<1> DEFINE a == Approved(cc, addrs)
           ch == ChildrenOf(cc, i)
           Q == ChildrenFor(cc, addrs, i)
<1>1. a = [n \in 1..NumGroups |-> Reaches(cc, addrs, a, n)]
  BY AcceptedChildrenFollow, ApprovedExists
<1>2. Lists(ch, ChildSet(cc, i))
  BY ChildrenListed DEF Accepted
<1>3. \A k \in DOMAIN ch : ch[k] \in ChildSet(cc, i)
  BY <1>2 DEF Lists
<1>4. {k \in DOMAIN ch : a[ch[k]]} = {k \in DOMAIN ch : ch[k] \in Q}
  BY <1>3 DEF ChildrenFor
<1>5. Q \subseteq ChildSet(cc, i)
  BY DEF ChildrenFor
<1> HIDE DEF Q
<1>6. Cardinality({k \in DOMAIN ch : ch[k] \in Q}) = Cardinality(Q)
  BY <1>2, <1>5, PlacesOfSubset
<1>7. ContractVotes(cc, i, addrs) = Cardinality(AddressesIn(cc, i) \cap addrs)
  BY VotesOfAddresses
<1>8. Reaches(cc, addrs, a, i) <=>
        ContractVotes(cc, i, addrs) + Cardinality({k \in DOMAIN ch : a[ch[k]]}) >= cc.groupQuorums[i]
  BY DEF Reaches, ContractVotes, Enabled
<1> HIDE DEF a, ch
<1>9. a[i] = Reaches(cc, addrs, a, i)
  BY <1>1
<1>. QED BY <1>4, <1>6, <1>7, <1>8, <1>9 DEF a, Q

\* Equal groups reach their quorum with the same votes.
LEMMA EqualGroupsVote ==
    ASSUME NEW cc, Accepted(cc), NEW dd, Accepted(dd), NEW addrs
    PROVE  \A i, j \in 1..NumGroups :
             (Enabled(cc, i) /\ Enabled(dd, j) /\ SameGroup(cc, dd, i, j)) =>
                (Approved(cc, addrs)[i] <=> Approved(dd, addrs)[j])
<1> DEFINE S == {i \in 1..NumGroups : \A j \in 1..NumGroups :
                   (Enabled(cc, i) /\ Enabled(dd, j) /\ SameGroup(cc, dd, i, j)) =>
                      (Approved(cc, addrs)[i] <=> Approved(dd, addrs)[j])}
<1>1. ASSUME NEW i \in 1..NumGroups, \A m \in (i + 1)..NumGroups : m \in S PROVE i \in S
  <2> SUFFICES ASSUME NEW j \in 1..NumGroups, Enabled(cc, i), Enabled(dd, j), SameGroup(cc, dd, i, j)
               PROVE  Approved(cc, addrs)[i] <=> Approved(dd, addrs)[j]
    OBVIOUS
  <2> HIDE DEF S
  <2>1. cc.groupQuorums[i] = dd.groupQuorums[j]
        /\ unorderedArrayEquals(GroupTree(cc, i).signers, GroupTree(dd, j).signers)
    BY SameGroupStep
  <2>2. AddressesIn(cc, i) = AddressesIn(dd, j)
    BY <2>1, SameAddresses
  <2>3. \A y \in ChildSet(dd, j) : y \in 1..NumGroups /\ Enabled(dd, y)
    BY ChildIsGreater DEF Enabled
  <2>4. \A y \in ChildSet(dd, j) : Injective(cc, dd, y)
    BY <2>3, EqualIsOneToOne
  <2>5. PICK g \in [ChildSet(cc, i) -> ChildSet(dd, j)] :
          /\ \A x \in ChildSet(cc, i) : SameGroup(cc, dd, x, g[x])
          /\ \A x, z \in ChildSet(cc, i) : g[x] = g[z] => x = z
          /\ \A y \in ChildSet(dd, j) : \E x \in ChildSet(cc, i) : g[x] = y
    <3>1. \E h \in [ChildSet(cc, i) -> ChildSet(dd, j)] :
            /\ \A x \in ChildSet(cc, i) : SameGroup(cc, dd, x, h[x])
            /\ \A x, z \in ChildSet(cc, i) : h[x] = h[z] => x = z
            /\ \A y \in ChildSet(dd, j) : \E x \in ChildSet(cc, i) : h[x] = y
      BY <2>4, ChildMap, SMTT(40)
    <3>. QED BY <3>1
  <2>6. \A x \in ChildSet(cc, i) : x \in S /\ Enabled(cc, x)
    BY <1>1, ChildIsGreater
  <2>7. \A x \in ChildSet(cc, i) : Approved(cc, addrs)[x] <=> Approved(dd, addrs)[g[x]]
    BY <2>3, <2>5, <2>6 DEF S
  <2> DEFINE A == ChildrenFor(cc, addrs, i)
             B == ChildrenFor(dd, addrs, j)
             f == [x \in A |-> g[x]]
  <2>8. A \subseteq ChildSet(cc, i) /\ f \in [A -> B]
    BY <2>5, <2>7 DEF ChildrenFor
  <2>9. (\A x, z \in A : f[x] = f[z] => x = z) /\ \A y \in B : \E x \in A : f[x] = y
    BY <2>5, <2>7 DEF ChildrenFor
  <2>10. IsFiniteSet(A)
    BY <2>8, ChildrenListed, FS_Subset DEF Accepted
  <2> HIDE DEF A, B, f
  <2>11. Cardinality(A) = Cardinality(B)
    BY <2>8, <2>9, <2>10, SameNumber
  <2>12. Approved(cc, addrs)[i] <=>
           Cardinality(AddressesIn(cc, i) \cap addrs) + Cardinality(A) >= cc.groupQuorums[i]
    BY ApprovedStep DEF A
  <2>13. Approved(dd, addrs)[j] <=>
           Cardinality(AddressesIn(dd, j) \cap addrs) + Cardinality(B) >= dd.groupQuorums[j]
    BY ApprovedStep DEF B
  <2>. QED BY <2>1, <2>2, <2>11, <2>12, <2>13
<1>2. \A i \in 1..NumGroups : i \in S
  <2>1. NumGroups \in Nat
    BY QuorumAssumption
  <2> HIDE DEF S
  <2>. QED BY <1>1, <2>1, DownwardInduction
<1>. QED BY <1>2

\* Below equal groups every group of the one equals a group of the other, and the reverse.
LEMMA EveryGroupHasEqual ==
    ASSUME NEW cc, Accepted(cc), NEW dd, Accepted(dd), SameGroup(cc, dd, 1, 1)
    PROVE  /\ \A i \in 1..NumGroups : Enabled(cc, i) => \E j \in 1..NumGroups : Enabled(dd, j) /\ SameGroup(cc, dd, i, j)
           /\ \A j \in 1..NumGroups : Enabled(dd, j) => \E i \in 1..NumGroups : Enabled(cc, i) /\ SameGroup(cc, dd, i, j)
<1> DEFINE There(i) == Enabled(cc, i) => \E j \in 1..NumGroups : Enabled(dd, j) /\ SameGroup(cc, dd, i, j)
           Back(j) == Enabled(dd, j) => \E i \in 1..NumGroups : Enabled(cc, i) /\ SameGroup(cc, dd, i, j)
           T == {n \in 1..NumGroups : ~(There(n) /\ Back(n))}
<1>1. Enabled(cc, 1) /\ Enabled(dd, 1) /\ 1 \in 1..NumGroups
  BY RootIsEnabled DEF Enabled
<1>2. ASSUME NEW n \in 1..NumGroups, \A m \in 1..(n - 1) : There(m) /\ Back(m) PROVE There(n) /\ Back(n)
  <2>1. CASE n = 1
    BY <1>1, <2>1
  <2>2. ASSUME n # 1, Enabled(cc, n) PROVE \E j \in 1..NumGroups : Enabled(dd, j) /\ SameGroup(cc, dd, n, j)
    <3>1. PICK m \in 1..(n - 1) : Enabled(cc, m) /\ n \in ChildSet(cc, m)
      BY <2>2, ParentIsEnabled
    <3>2. PICK j \in 1..NumGroups : Enabled(dd, j) /\ SameGroup(cc, dd, m, j)
      BY <1>2, <3>1
    <3>3. PICK y \in ChildSet(dd, j) : SameGroup(cc, dd, n, y)
      BY <3>1, <3>2, SameGroupStep DEF Enabled
    <3>. QED BY <3>3, ChildIsGreater DEF Enabled
  <2>3. ASSUME n # 1, Enabled(dd, n) PROVE \E i \in 1..NumGroups : Enabled(cc, i) /\ SameGroup(cc, dd, i, n)
    <3>1. PICK m \in 1..(n - 1) : Enabled(dd, m) /\ n \in ChildSet(dd, m)
      BY <2>3, ParentIsEnabled
    <3>2. PICK i \in 1..NumGroups : Enabled(cc, i) /\ SameGroup(cc, dd, i, m)
      BY <1>2, <3>1
    <3>3. m \in 1..NumGroups
      BY <3>1 DEF Enabled
    <3>4. \A y \in ChildSet(dd, m) : y \in 1..NumGroups /\ Enabled(dd, y)
      BY <3>3, ChildIsGreater DEF Enabled
    <3>5. \A y \in ChildSet(dd, m) : Injective(cc, dd, y)
      BY <3>4, EqualIsOneToOne
    <3>6. PICK x \in ChildSet(cc, i) : SameGroup(cc, dd, x, n)
      BY <3>1, <3>2, <3>3, <3>5, ChildMap
    <3>. QED BY <3>6, ChildIsGreater DEF Enabled
  <2>. QED BY <2>1, <2>2, <2>3
<1>3. T = {}
  <2> SUFFICES ASSUME T # {} PROVE FALSE
    OBVIOUS
  <2>1. PICK n \in T : \A y \in T : n <= y
    <3>1. T \subseteq Nat
      OBVIOUS
    <3> HIDE DEF T
    <3>. QED BY <3>1, LeastNatural
  <2>2. n \in 1..NumGroups /\ NumGroups \in Nat
    BY <2>1, QuorumAssumption
  <2>3. \A m \in 1..(n - 1) : m \in 1..NumGroups /\ ~(n <= m)
    BY <2>2
  <2> HIDE DEF There, Back
  <2>4. \A m \in 1..(n - 1) : There(m) /\ Back(m)
    BY <2>1, <2>3
  <2>. QED BY <1>2, <2>1, <2>4
<1> HIDE DEF There, Back
<1>4. \A n \in 1..NumGroups : There(n) /\ Back(n)
  BY <1>3
<1>. QED BY <1>4 DEF There, Back

\* Config.Equals of the trees read from two contracts means that the same signers can set
\* a root on both, for any two configurations that setConfig accepts.
THEOREM EqualConfigsDecideAlike ==
    ASSUME NEW cc \in ChainConfig, setConfigAccepted(cc), NEW dd \in ChainConfig, setConfigAccepted(dd),
           Equals(ToConfig(cc), ToConfig(dd)), NEW addrs
    PROVE  SignersAccepted(cc, addrs) <=> SignersAccepted(dd, addrs)
<1>1. Accepted(cc) /\ Accepted(dd)
  BY DEF Accepted
<1>2. SameGroup(cc, dd, 1, 1)
  BY DEF Equals, SameGroup, ToConfig, GroupTree
<1>3. Enabled(cc, 1) /\ Enabled(dd, 1) /\ 1 \in 1..NumGroups
  BY <1>1, RootIsEnabled DEF Enabled
<1>4. QuorumReached(cc, addrs) <=> QuorumReached(dd, addrs)
  BY <1>1, <1>2, <1>3, EqualGroupsVote DEF QuorumReached
<1>5. ASSUME NEW i \in 1..NumGroups, NEW j \in 1..NumGroups, Enabled(cc, i), Enabled(dd, j), SameGroup(cc, dd, i, j)
      PROVE  AddressesIn(cc, i) = AddressesIn(dd, j)
  <2>1. unorderedArrayEquals(GroupTree(cc, i).signers, GroupTree(dd, j).signers)
    BY <1>1, <1>5, SameGroupStep
  <2>. QED BY <1>1, <2>1, SameAddresses
<1>6. ASSUME NEW e, Accepted(e)
      PROVE  {e.signers[k].addr : k \in DOMAIN e.signers}
               = UNION {AddressesIn(e, i) : i \in {m \in 1..NumGroups : Enabled(e, m)}}
  <2>1. GetAllSigners(ToConfig(e)) = {e.signers[k].addr : k \in DOMAIN e.signers}
    BY <1>6, SignersOfTree
  <2>2. Groups(ToConfig(e)) = {GroupTree(e, i) : i \in {m \in 1..NumGroups : Enabled(e, m)}}
    BY <1>6, GroupsOfTree
  <2>3. GetAllSigners(ToConfig(e)) = UNION {AddressesIn(e, i) : i \in {m \in 1..NumGroups : Enabled(e, m)}}
    BY <2>2 DEF GetAllSigners, AddressesIn
  <2>. QED BY <2>1, <2>3
<1>7. UNION {AddressesIn(cc, i) : i \in {m \in 1..NumGroups : Enabled(cc, m)}}
        = UNION {AddressesIn(dd, i) : i \in {m \in 1..NumGroups : Enabled(dd, m)}}
  <2>1. \A i \in 1..NumGroups : Enabled(cc, i) => \E j \in 1..NumGroups : Enabled(dd, j) /\ AddressesIn(cc, i) = AddressesIn(dd, j)
    BY <1>1, <1>2, <1>5, EveryGroupHasEqual
  <2>2. \A j \in 1..NumGroups : Enabled(dd, j) => \E i \in 1..NumGroups : Enabled(cc, i) /\ AddressesIn(cc, i) = AddressesIn(dd, j)
    BY <1>1, <1>2, <1>5, EveryGroupHasEqual
  <2>. QED BY <2>1, <2>2
<1>8. {cc.signers[k].addr : k \in DOMAIN cc.signers} = {dd.signers[k].addr : k \in DOMAIN dd.signers}
  BY <1>1, <1>6, <1>7
<1>. QED BY <1>4, <1>8 DEF SignersAccepted

-----------------------------------------------------------------------------
(* Configuration trees *)

TreesAt(f, d) ==
    [quorum : Nat, signers : Seq(Signer), groupSigners : IF d = 0 THEN {<<>>} ELSE Seq(f[d - 1])]

LEMMA ConfigTreesExist ==
    ConfigTrees = [d \in 0..MaxDepth |-> TreesAt(ConfigTrees, d)]
<1> DEFINE AreTrees(f, n) == f = [d \in 0..n |-> TreesAt(f, d)]
           S == {n \in 0..MaxDepth : \E f : AreTrees(f, n)}
<1>1. MaxDepth \in Nat
  BY QuorumAssumption
<1>2. 0 \in S
  <2> DEFINE f == [d \in 0..0 |-> TreesAt(0, 0)]
  <2>1. \A d \in 0..0 : d = 0
    OBVIOUS
  <2>2. \A g : TreesAt(g, 0) = TreesAt(0, 0)
    BY DEF TreesAt
  <2>3. f = [d \in 0..0 |-> TreesAt(f, d)]
    BY <2>1, <2>2
  <2> HIDE DEF f
  <2>4. AreTrees(f, 0)
    BY <2>3
  <2> HIDE DEF AreTrees
  <2>. QED BY <1>1, <2>4
<1>3. ASSUME NEW n \in 0..MaxDepth, n \in S, n < MaxDepth PROVE n + 1 \in S
  <2>1. PICK u : AreTrees(u, n)
    BY <1>3
  <2> DEFINE v == [d \in 0..(n + 1) |-> IF d = n + 1 THEN TreesAt(u, d) ELSE u[d]]
  <2>2. \A d \in 0..(n + 1) : TreesAt(v, d) = TreesAt(u, d)
    <3> SUFFICES ASSUME NEW d \in 0..(n + 1), d # 0 PROVE v[d - 1] = u[d - 1]
      BY DEF TreesAt
    <3>1. d - 1 \in 0..(n + 1) /\ d - 1 # n + 1
      OBVIOUS
    <3>. QED BY <3>1
  <2>3. \A d \in 0..(n + 1) : d = n + 1 \/ d \in 0..n
    OBVIOUS
  <2>4. \A d \in 0..(n + 1) : v[d] = TreesAt(u, d)
    BY <2>1, <2>3
  <2>5. AreTrees(v, n + 1)
    BY <2>2, <2>4
  <2>6. n + 1 \in 0..MaxDepth
    BY <1>1, <1>3
  <2> HIDE DEF v, AreTrees
  <2>. QED BY <2>5, <2>6
<1>4. \A n \in 0..MaxDepth : n \in S
  <2> HIDE DEF S
  <2>. QED BY <1>1, <1>2, <1>3, UpwardInduction
<1>5. \E f : AreTrees(f, MaxDepth)
  BY <1>1, <1>4
<1>6. ConfigTrees = CHOOSE f : AreTrees(f, MaxDepth)
  BY DEF ConfigTrees, TreesAt
<1> HIDE DEF AreTrees
<1>7. AreTrees(ConfigTrees, MaxDepth)
  BY <1>5, <1>6
<1>. QED BY <1>7 DEF AreTrees

\* The parts of a configuration with d levels.
LEMMA TreeParts ==
    ASSUME NEW d \in 0..MaxDepth, NEW g \in ConfigTrees[d]
    PROVE  /\ g.quorum \in Nat /\ g.signers \in Seq(Signer)
           /\ g = [quorum |-> g.quorum, signers |-> g.signers, groupSigners |-> g.groupSigners]
           /\ d = 0 => g.groupSigners = <<>>
           /\ d # 0 => g.groupSigners \in Seq(ConfigTrees[d - 1])
<1>1. ConfigTrees[d] = TreesAt(ConfigTrees, d)
  <2>1. ConfigTrees = [n \in 0..MaxDepth |-> TreesAt(ConfigTrees, n)]
    BY ConfigTreesExist
  <2>. QED BY <2>1
<1>. QED BY <1>1 DEF TreesAt

\* One level more allows more.
LEMMA TreesGrow ==
    \A d \in 0..MaxDepth : d < MaxDepth => ConfigTrees[d] \subseteq ConfigTrees[d + 1]
<1> DEFINE S == {d \in 0..MaxDepth : d < MaxDepth => ConfigTrees[d] \subseteq ConfigTrees[d + 1]}
<1>0. MaxDepth \in Nat
  BY QuorumAssumption
<1>1. ASSUME NEW d \in 0..MaxDepth, d < MaxDepth,
             d # 0 => ConfigTrees[d - 1] \subseteq ConfigTrees[d]
      PROVE  ConfigTrees[d] \subseteq ConfigTrees[d + 1]
  <2> SUFFICES ASSUME NEW g \in ConfigTrees[d] PROVE g \in ConfigTrees[d + 1]
    OBVIOUS
  <2>1. /\ g.quorum \in Nat /\ g.signers \in Seq(Signer)
        /\ g = [quorum |-> g.quorum, signers |-> g.signers, groupSigners |-> g.groupSigners]
        /\ d = 0 => g.groupSigners = <<>>
        /\ d # 0 => g.groupSigners \in Seq(ConfigTrees[d - 1])
    BY TreeParts
  <2>2. g.groupSigners \in Seq(ConfigTrees[d])
    <3>1. \A A, B : A \subseteq B => \A s \in Seq(A) : s \in Seq(B)
      <4> SUFFICES ASSUME NEW A, NEW B, A \subseteq B, NEW s \in Seq(A) PROVE s \in Seq(B)
        OBVIOUS
      <4>1. Len(s) \in Nat /\ s \in [1..Len(s) -> A]
        BY LenProperties
      <4>2. s \in [1..Len(s) -> B]
        BY <4>1
      <4>. QED BY <4>1, <4>2, IsASeq
    <3>2. <<>> \in Seq(ConfigTrees[d])
      OBVIOUS
    <3>. QED BY <1>1, <2>1, <3>1, <3>2
  <2>3. d + 1 \in 0..MaxDepth /\ d + 1 # 0 /\ (d + 1) - 1 = d
    BY <1>0, <1>1
  <2>4. ConfigTrees[d + 1] = TreesAt(ConfigTrees, d + 1)
    <3>1. ConfigTrees = [n \in 0..MaxDepth |-> TreesAt(ConfigTrees, n)]
      BY ConfigTreesExist
    <3>. QED BY <2>3, <3>1
  <2>5. TreesAt(ConfigTrees, d + 1) = [quorum : Nat, signers : Seq(Signer), groupSigners : Seq(ConfigTrees[d])]
    BY <2>3 DEF TreesAt
  <2> DEFINE a == g.quorum
             b == g.signers
             c == g.groupSigners
  <2>6. [quorum |-> a, signers |-> b, groupSigners |-> c]
          \in [quorum : Nat, signers : Seq(Signer), groupSigners : Seq(ConfigTrees[d])]
    <3>1. a \in Nat /\ b \in Seq(Signer) /\ c \in Seq(ConfigTrees[d])
      BY <2>1, <2>2
    <3> HIDE DEF a, b, c
    <3>. QED BY <3>1
  <2>. QED BY <2>1, <2>4, <2>5, <2>6
<1>2. 0 \in S
  BY <1>0, <1>1
<1>3. ASSUME NEW n \in 0..MaxDepth, n \in S, n < MaxDepth PROVE n + 1 \in S
  <2>1. n + 1 \in 0..MaxDepth /\ (n + 1) - 1 = n
    BY <1>0, <1>3
  <2>2. ConfigTrees[n] \subseteq ConfigTrees[n + 1]
    BY <1>3
  <2>. QED BY <1>1, <2>1, <2>2
<1>4. \A n \in 0..MaxDepth : n \in S
  <2> HIDE DEF S
  <2>. QED BY <1>0, <1>2, <1>3, UpwardInduction
<1>. QED BY <1>4

\* At depth d of a configuration are groups with MaxDepth - d levels.
LEMMA LevelsOfConfig ==
    ASSUME NEW cfg \in Config
    PROVE  \A d \in 0..MaxDepth : Levels(cfg)[d] \subseteq ConfigTrees[MaxDepth - d]
<1> DEFINE L == Levels(cfg)
           S == {d \in 0..MaxDepth : L[d] \subseteq ConfigTrees[MaxDepth - d]}
<1>1. MaxDepth \in Nat
  BY QuorumAssumption
<1>2. \A d \in 0..MaxDepth : L[d] = LevelAt(cfg, L, d)
  <2>1. L = [d \in 0..MaxDepth |-> LevelAt(cfg, L, d)]
    BY LevelsExist
  <2> HIDE DEF L
  <2>. QED BY <2>1
<1> HIDE DEF L
<1>3. 0 \in S
  <2>1. 0 \in 0..MaxDepth /\ MaxDepth - 0 = MaxDepth
    BY <1>1
  <2>2. L[0] = {cfg}
    BY <1>2, <2>1 DEF LevelAt
  <2>. QED BY <2>1, <2>2 DEF Config
<1>4. ASSUME NEW n \in 0..MaxDepth, n \in S, n < MaxDepth PROVE n + 1 \in S
  <2>1. n + 1 \in 0..MaxDepth /\ n + 1 # 0 /\ (n + 1) - 1 = n
        /\ MaxDepth - n \in 0..MaxDepth /\ MaxDepth - n # 0 /\ (MaxDepth - n) - 1 = MaxDepth - (n + 1)
    BY <1>1, <1>4
  <2>2. L[n + 1] = UNION {Elements(g.groupSigners) : g \in L[n]}
    BY <1>2, <2>1 DEF LevelAt
  <2>3. ASSUME NEW x \in L[n + 1] PROVE x \in ConfigTrees[MaxDepth - (n + 1)]
    <3>1. PICK g \in L[n] : x \in Elements(g.groupSigners)
      BY <2>2
    <3>2. g \in ConfigTrees[MaxDepth - n]
      BY <1>4
    <3>3. g.groupSigners \in Seq(ConfigTrees[MaxDepth - (n + 1)])
      BY <2>1, <3>2, TreeParts
    <3>4. \A R : \A s \in Seq(R) : \A k \in DOMAIN s : s[k] \in R
      BY ElementOfSeq
    <3>. QED BY <3>1, <3>3, <3>4 DEF Elements
  <2>. QED BY <2>1, <2>3
<1>5. \A n \in 0..MaxDepth : n \in S
  <2> HIDE DEF S
  <2>. QED BY <1>1, <1>3, <1>4, UpwardInduction
<1>. QED BY <1>5 DEF L

\* The groups of a configuration with at most n levels below.
Layer(cfg, n) == Groups(cfg) \cap ConfigTrees[n]

\* They are the groups a recursion over a configuration goes through.
LEMMA Layers ==
    ASSUME NEW cfg \in Config
    PROVE  /\ MaxDepth \in Nat
           /\ Layer(cfg, MaxDepth) = Groups(cfg)
           /\ cfg \in Groups(cfg)
           /\ \A g \in Layer(cfg, 0) : g.groupSigners = <<>>
           /\ \A n \in 0..MaxDepth : n < MaxDepth => Layer(cfg, n) \subseteq Layer(cfg, n + 1)
           /\ \A n \in 0..MaxDepth : n < MaxDepth =>
                \A g \in Layer(cfg, n + 1) : \A k \in DOMAIN g.groupSigners : g.groupSigners[k] \in Layer(cfg, n)
           /\ \A g \in Groups(cfg) : /\ g.quorum \in Nat /\ g.signers \in Seq(Signer)
                                     /\ g.groupSigners \in Seq(Groups(cfg))
<1> DEFINE L == Levels(cfg)
<1>1. MaxDepth \in Nat
  BY QuorumAssumption
<1>2. \A d \in 0..MaxDepth : L[d] = LevelAt(cfg, L, d)
  <2>1. L = [d \in 0..MaxDepth |-> LevelAt(cfg, L, d)]
    BY LevelsExist
  <2> HIDE DEF L
  <2>. QED BY <2>1
<1>3. \A d \in 0..MaxDepth : L[d] \subseteq ConfigTrees[MaxDepth - d]
  BY LevelsOfConfig
<1>4. Groups(cfg) = UNION {L[d] : d \in 0..MaxDepth}
  BY DEF Groups
<1>5. \A n \in 0..MaxDepth : ConfigTrees[n] \subseteq ConfigTrees[MaxDepth]
  <2> DEFINE S == {n \in 0..MaxDepth : ConfigTrees[MaxDepth - n] \subseteq ConfigTrees[MaxDepth]}
  <2>1. 0 \in S
    BY <1>1
  <2>2. ASSUME NEW n \in 0..MaxDepth, n \in S, n < MaxDepth PROVE n + 1 \in S
    <3>1. n + 1 \in 0..MaxDepth /\ MaxDepth - (n + 1) \in 0..MaxDepth /\ MaxDepth - (n + 1) < MaxDepth
          /\ (MaxDepth - (n + 1)) + 1 = MaxDepth - n
      BY <1>1, <2>2
    <3>2. ConfigTrees[MaxDepth - (n + 1)] \subseteq ConfigTrees[MaxDepth - n]
      BY <3>1, TreesGrow
    <3>. QED BY <2>2, <3>1, <3>2
  <2>3. \A n \in 0..MaxDepth : n \in S
    <3> HIDE DEF S
    <3>. QED BY <1>1, <2>1, <2>2, UpwardInduction
  <2>4. ASSUME NEW n \in 0..MaxDepth PROVE ConfigTrees[n] \subseteq ConfigTrees[MaxDepth]
    <3>1. MaxDepth - n \in 0..MaxDepth /\ MaxDepth - (MaxDepth - n) = n
      BY <1>1
    <3>2. MaxDepth - n \in S
      BY <2>3, <3>1
    <3>. QED BY <3>1, <3>2
  <2>. QED BY <2>4
<1> HIDE DEF L
<1>6. Groups(cfg) \subseteq ConfigTrees[MaxDepth]
  <2>1. \A d \in 0..MaxDepth : MaxDepth - d \in 0..MaxDepth
    BY <1>1
  <2>. QED BY <1>3, <1>4, <1>5, <2>1
<1>7. cfg \in Groups(cfg)
  <2>1. 0 \in 0..MaxDepth
    BY <1>1
  <2>2. L[0] = {cfg}
    BY <1>2, <2>1 DEF LevelAt
  <2>. QED BY <1>4, <2>1, <2>2
<1>8. ASSUME NEW g \in Groups(cfg), NEW k \in DOMAIN g.groupSigners PROVE g.groupSigners[k] \in Groups(cfg)
  <2>1. PICK d \in 0..MaxDepth : g \in L[d]
    BY <1>4
  <2>2. d # MaxDepth
    <3>1. SUFFICES ASSUME d = MaxDepth PROVE FALSE
      OBVIOUS
    <3>2. MaxDepth - d = 0 /\ 0 \in 0..MaxDepth
      BY <1>1, <3>1
    <3>3. g \in ConfigTrees[0]
      BY <1>3, <2>1, <3>2
    <3>4. g.groupSigners = <<>>
      BY <3>2, <3>3, TreeParts
    <3>. QED BY <3>4
  <2>3. d + 1 \in 0..MaxDepth /\ d + 1 # 0 /\ (d + 1) - 1 = d
    BY <1>1, <2>2
  <2>4. L[d + 1] = UNION {Elements(h.groupSigners) : h \in L[d]}
    BY <1>2, <2>3 DEF LevelAt
  <2>5. g.groupSigners[k] \in L[d + 1]
    BY <2>1, <2>4 DEF Elements
  <2>. QED BY <1>4, <2>3, <2>5
<1>9. \A g \in Layer(cfg, 0) : g.groupSigners = <<>>
  BY <1>1, TreeParts DEF Layer
<1>10. ASSUME NEW n \in 0..MaxDepth, n < MaxDepth, NEW g \in Layer(cfg, n + 1), NEW k \in DOMAIN g.groupSigners
       PROVE  g.groupSigners[k] \in Layer(cfg, n)
  <2>1. n + 1 \in 0..MaxDepth /\ n + 1 # 0 /\ (n + 1) - 1 = n
    BY <1>1, <1>10
  <2>2. g.groupSigners \in Seq(ConfigTrees[n])
    BY <2>1, TreeParts DEF Layer
  <2>3. g.groupSigners[k] \in ConfigTrees[n]
    BY <2>2, ElementOfSeq
  <2>. QED BY <1>8, <2>3 DEF Layer
<1>11. ASSUME NEW g \in Groups(cfg)
       PROVE  g.quorum \in Nat /\ g.signers \in Seq(Signer) /\ g.groupSigners \in Seq(Groups(cfg))
  <2>1. g \in ConfigTrees[MaxDepth] /\ MaxDepth \in 0..MaxDepth
    BY <1>1, <1>6
  <2>2. g.quorum \in Nat /\ g.signers \in Seq(Signer)
    BY <2>1, TreeParts
  <2>3. \E R : g.groupSigners \in Seq(R)
    <3>1. <<>> \in Seq({})
      OBVIOUS
    <3>. QED BY <2>1, <3>1, TreeParts
  <2>4. PICK R : g.groupSigners \in Seq(R)
    BY <2>3
  <2> DEFINE s == g.groupSigners
  <2>5. Len(s) \in Nat /\ DOMAIN s = 1..Len(s) /\ s \in [1..Len(s) -> R]
    BY <2>4, LenProperties
  <2>6. \A k \in 1..Len(s) : s[k] \in Groups(cfg)
    BY <1>8, <2>5
  <2> HIDE DEF s
  <2>7. s \in [1..Len(s) -> Groups(cfg)]
    BY <2>5, <2>6
  <2>8. s \in Seq(Groups(cfg))
    BY <2>5, <2>7, IsASeq
  <2>. QED BY <2>2, <2>8 DEF s
<1>12. \A n \in 0..MaxDepth : n < MaxDepth => Layer(cfg, n) \subseteq Layer(cfg, n + 1)
  BY TreesGrow DEF Layer
<1>13. Layer(cfg, MaxDepth) = Groups(cfg)
  BY <1>6 DEF Layer
<1>. QED BY <1>1, <1>7, <1>9, <1>10, <1>11, <1>12, <1>13

-----------------------------------------------------------------------------
(* Numbering the groups: extractGroupsAndSigners *)

Entry == [quorum : Nat, parent : Nat, signers : Seq(Signer)]

\* How many of the groups below group m are numbered: n of those below the first.
Numbered(t, m, n) == IF m = 1 THEN n ELSE Len(t[m].groupSigners)

\* Of an array s of some length: entry m stands for group t[m] ...
StandFor(s, len, t) == \A m \in 1..len : s[m].quorum = t[m].quorum /\ s[m].signers = t[m].signers

\* ... which is number q[m] of the groups below its parent, ...
Placed(s, len, t, q, n) ==
    \A x \in 2..len :
        /\ s[x].parent \in 0..(x - 2)
        /\ q[x] \in 1..Numbered(t, s[x].parent + 1, n)
        /\ t[x] = t[s[x].parent + 1].groupSigners[q[x]]

\* ... no two of which have one number, ...
PlacedOnce(s, len, q) ==
    \A x, y \in 2..len : s[x].parent = s[y].parent /\ q[x] = q[y] => x = y

\* ... and each of which has an entry.
AllPlaced(s, len, t, q, n) ==
    \A m \in 1..len : \A k \in 1..Numbered(t, m, n) :
        \E x \in 2..len : s[x].parent = m - 1 /\ q[x] = k

\* The array s numbers g, the first n groups below g and all that is below those.
Numbering(cfg, s, g, n, t, q) ==
    /\ s \in Seq(Entry) /\ Len(s) >= 1
    /\ t \in [1..Len(s) -> Groups(cfg)] /\ t[1] = g
    /\ s[1].parent = 0
    /\ StandFor(s, Len(s), t)
    /\ Placed(s, Len(s), t, q, n)
    /\ PlacedOnce(s, Len(s), q)
    /\ AllPlaced(s, Len(s), t, q, n)

\* Renumbering moves every parent, but that of the first entry, by n.
LEMMA BelowEntries ==
    ASSUME NEW v \in Seq(Entry), NEW n \in Nat
    PROVE  /\ Below(v, n) \in Seq(Entry) /\ Len(Below(v, n)) = Len(v)
           /\ \A y \in 1..Len(v) : /\ Below(v, n)[y].quorum = v[y].quorum
                                   /\ Below(v, n)[y].signers = v[y].signers
                                   /\ Below(v, n)[y].parent = IF y = 1 THEN 0 ELSE v[y].parent + n
<1> DEFINE l == Len(v)
           b == Below(v, n)
<1>1. l \in Nat /\ DOMAIN v = 1..l
  BY LenProperties
<1>2. \A y \in 1..l : v[y] \in Entry
  BY <1>1, ElementOfSeq
<1>3. b = [y \in 1..l |-> [v[y] EXCEPT !.parent = IF y = 1 THEN 0 ELSE v[y].parent + n]]
  BY <1>1 DEF Below
<1>4. ASSUME NEW y \in 1..l
      PROVE  /\ b[y] \in Entry /\ b[y].quorum = v[y].quorum /\ b[y].signers = v[y].signers
             /\ b[y].parent = IF y = 1 THEN 0 ELSE v[y].parent + n
  <2>1. PICK w \in Entry : w = v[y]
    BY <1>2
  <2> DEFINE p == IF y = 1 THEN 0 ELSE w.parent + n
  <2>2. b[y] = [w EXCEPT !.parent = p]
    BY <1>3, <2>1
  <2>3. p \in Nat
    BY SMTT(40) DEF Entry
  <2>4. p = IF y = 1 THEN 0 ELSE v[y].parent + n
    BY <2>1
  <2> HIDE DEF b, p
  <2>5. b[y] \in Entry /\ b[y].quorum = w.quorum /\ b[y].signers = w.signers /\ b[y].parent = p
    BY <2>2, <2>3 DEF Entry
  <2>. QED BY <2>1, <2>4, <2>5
<1>5. b \in [1..l -> Entry]
  <2>1. \A y \in 1..l : b[y] \in Entry
    BY <1>4
  <2>2. b = [y \in 1..l |-> b[y]]
    BY <1>3
  <2> HIDE DEF b, l
  <2>. QED BY <2>1, <2>2
<1>6. b \in Seq(Entry) /\ Len(b) = l
  <2> HIDE DEF b, l
  <2>1. b \in Seq(Entry)
    BY <1>1, <1>5, IsASeq
  <2>. QED BY <1>1, <1>5, <2>1
<1>. QED BY <1>4, <1>6

\* The array w is u followed by v, renumbered, as group k + 1 below the first entry.
Joins(w, t, q, u, t1, q1, v, t2, q2, n, l, k) ==
    /\ n \in Nat /\ n >= 1 /\ l \in Nat /\ l >= 1 /\ k \in Nat
    /\ \A x \in 1..n : w[x] = u[x] /\ t[x] = t1[x] /\ q[x] = q1[x]
    /\ \A y \in 1..l : w[n + y].quorum = v[y].quorum /\ w[n + y].signers = v[y].signers /\ t[n + y] = t2[y]
    /\ \A y \in 2..l : w[n + y].parent = v[y].parent + n /\ q[n + y] = q2[y]
    /\ w[n + 1].parent = 0 /\ q[n + 1] = k + 1

\* Where an entry of a joined array comes from.
LEMMA JoinedEntry ==
    ASSUME NEW n \in Nat, NEW l \in Nat, l >= 1, n >= 1
    PROVE  /\ \A x \in 1..(n + l) : x \in 1..n \/ \E y \in 1..l : x = n + y
           /\ \A x \in 2..(n + l) : x \in 2..n \/ x = n + 1 \/ \E y \in 2..l : x = n + y
<1>1. ASSUME NEW x \in 1..(n + l), ~(x <= n) PROVE \E y \in 1..l : x = n + y
  <2>1. x - n \in 1..l /\ x = n + (x - n)
    BY <1>1
  <2>. QED BY <2>1
<1>2. ASSUME NEW x \in 2..(n + l), ~(x <= n), x # n + 1 PROVE \E y \in 2..l : x = n + y
  <2>1. x - n \in 2..l /\ x = n + (x - n)
    BY <1>2
  <2>. QED BY <2>1
<1>3. (\A x \in 1..(n + l) : x <= n => x \in 1..n) /\ (\A x \in 2..(n + l) : x <= n => x \in 2..n)
  OBVIOUS
<1>. QED BY <1>1, <1>2, <1>3

\* An entry of u keeps its place.
LEMMA FirstPlaced ==
    ASSUME NEW w, NEW t, NEW q, NEW u, NEW t1, NEW q1, NEW v, NEW t2, NEW q2, NEW n, NEW l, NEW k,
           Joins(w, t, q, u, t1, q1, v, t2, q2, n, l, k), Placed(u, n, t1, q1, k), NEW x \in 2..n
    PROVE  /\ w[x].parent = u[x].parent /\ q[x] = q1[x]
           /\ w[x].parent \in 0..(x - 2) /\ w[x].parent < n
           /\ q[x] \in 1..Numbered(t, w[x].parent + 1, k + 1)
           /\ ~(w[x].parent = 0 /\ q[x] = k + 1)
           /\ t[x] = t[w[x].parent + 1].groupSigners[q[x]]
<1> DEFINE p == u[x].parent
<1>1. n \in Nat /\ k \in Nat /\ x \in 1..n
  BY DEF Joins
<1>2. w[x] = u[x] /\ t[x] = t1[x] /\ q[x] = q1[x]
  BY <1>1 DEF Joins
<1>3. p \in 0..(x - 2) /\ q1[x] \in 1..Numbered(t1, p + 1, k) /\ t1[x] = t1[p + 1].groupSigners[q1[x]]
  BY DEF Placed
<1>4. p + 1 \in 1..n /\ p < n
  BY <1>1, <1>3
<1>5. t[p + 1] = t1[p + 1]
  BY <1>4 DEF Joins
<1> HIDE DEF p
<1>6. q1[x] \in 1..Numbered(t, p + 1, k + 1) /\ ~(p = 0 /\ q1[x] = k + 1)
  <2>1. CASE p = 0
    <3>1. Numbered(t1, p + 1, k) = k /\ Numbered(t, p + 1, k + 1) = k + 1
      BY <2>1 DEF Numbered
    <3>. QED BY <1>1, <1>3, <3>1
  <2>2. CASE p # 0
    <3>1. p + 1 # 1
      BY <1>3, <2>2
    <3>2. Numbered(t1, p + 1, k) = Numbered(t, p + 1, k + 1)
      BY <1>5, <3>1 DEF Numbered
    <3>. QED BY <1>3, <2>2, <3>2
  <2>. QED BY <2>1, <2>2
<1>7. w[x].parent = p
  BY <1>2 DEF p
<1>8. t[x] = t[p + 1].groupSigners[q[x]]
  BY <1>2, <1>3, <1>5
<1>. QED BY <1>2, <1>3, <1>4, <1>6, <1>7, <1>8 DEF p

\* An entry of v but the first moves with its parent.
LEMMA SecondPlaced ==
    ASSUME NEW w, NEW t, NEW q, NEW u, NEW t1, NEW q1, NEW v, NEW t2, NEW q2, NEW n, NEW l, NEW k,
           Joins(w, t, q, u, t1, q1, v, t2, q2, n, l, k), Placed(v, l, t2, q2, Len(t2[1].groupSigners)),
           NEW y \in 2..l
    PROVE  /\ w[n + y].parent = v[y].parent + n /\ q[n + y] = q2[y] /\ v[y].parent \in Nat
           /\ w[n + y].parent \in 0..((n + y) - 2) /\ w[n + y].parent >= n
           /\ q[n + y] \in 1..Numbered(t, w[n + y].parent + 1, k + 1)
           /\ t[n + y] = t[w[n + y].parent + 1].groupSigners[q[n + y]]
<1> DEFINE p == v[y].parent
<1>1. n \in Nat /\ n >= 1 /\ l \in Nat /\ y \in 1..l
  BY DEF Joins
<1>2. w[n + y].parent = p + n /\ q[n + y] = q2[y] /\ t[n + y] = t2[y]
  BY <1>1 DEF Joins
<1>3. p \in 0..(y - 2) /\ q2[y] \in 1..Numbered(t2, p + 1, Len(t2[1].groupSigners))
      /\ t2[y] = t2[p + 1].groupSigners[q2[y]]
  BY DEF Placed
<1> HIDE DEF p
<1>4. p + 1 \in 1..l /\ p \in Nat
  BY <1>1, <1>3
<1>5. (p + n) + 1 = n + (p + 1) /\ (p + n) + 1 # 1 /\ p + n >= n /\ p + n \in 0..((n + y) - 2)
  BY <1>1, <1>3, <1>4
<1>6. t[n + (p + 1)] = t2[p + 1]
  BY <1>4 DEF Joins
<1>7. Numbered(t2, p + 1, Len(t2[1].groupSigners)) = Len(t2[p + 1].groupSigners)
  BY DEF Numbered
<1>8. Numbered(t, (p + n) + 1, k + 1) = Len(t2[p + 1].groupSigners)
  BY <1>5, <1>6 DEF Numbered
<1>9. q2[y] \in 1..Numbered(t, (p + n) + 1, k + 1)
  BY <1>3, <1>7, <1>8
<1>10. t[n + y] = t[(p + n) + 1].groupSigners[q[n + y]]
  BY <1>2, <1>3, <1>5, <1>6
<1>. QED BY <1>2, <1>4, <1>5, <1>9, <1>10 DEF p

\* The first entry of v becomes a group below the first entry of u.
LEMMA JoinPlaced ==
    ASSUME NEW w, NEW t, NEW q, NEW u, NEW t1, NEW q1, NEW v, NEW t2, NEW q2, NEW n, NEW l, NEW k,
           Joins(w, t, q, u, t1, q1, v, t2, q2, n, l, k),
           Placed(u, n, t1, q1, k), Placed(v, l, t2, q2, Len(t2[1].groupSigners)),
           t1[1].groupSigners[k + 1] = t2[1]
    PROVE  Placed(w, n + l, t, q, k + 1)
<1> SUFFICES ASSUME NEW x \in 2..(n + l)
             PROVE  /\ w[x].parent \in 0..(x - 2)
                    /\ q[x] \in 1..Numbered(t, w[x].parent + 1, k + 1)
                    /\ t[x] = t[w[x].parent + 1].groupSigners[q[x]]
  BY DEF Placed
<1>1. n \in Nat /\ n >= 1 /\ l \in Nat /\ l >= 1 /\ k \in Nat
  BY DEF Joins
<1>2. CASE x \in 2..n
  BY <1>2, FirstPlaced
<1>3. CASE x = n + 1
  <2>1. w[n + 1].parent = 0 /\ q[n + 1] = k + 1
    BY DEF Joins
  <2>2. 0 \in 0..((n + 1) - 2) /\ 0 + 1 = 1 /\ 1 \in 1..n /\ 1 \in 1..l
    BY <1>1
  <2>3. t[n + 1] = t2[1] /\ t[1] = t1[1]
    BY <2>2 DEF Joins
  <2>4. Numbered(t, 1, k + 1) = k + 1 /\ k + 1 \in 1..(k + 1)
    BY <1>1 DEF Numbered
  <2>. QED BY <1>3, <2>1, <2>2, <2>3, <2>4
<1>4. ASSUME NEW y \in 2..l, x = n + y
      PROVE  /\ w[x].parent \in 0..(x - 2)
             /\ q[x] \in 1..Numbered(t, w[x].parent + 1, k + 1)
             /\ t[x] = t[w[x].parent + 1].groupSigners[q[x]]
  BY <1>4, SecondPlaced, SMTT(40)
<1>5. x \in 2..n \/ x = n + 1 \/ \E y \in 2..l : x = n + y
  BY <1>1, JoinedEntry
<1>. QED BY <1>2, <1>3, <1>4, <1>5

LEMMA JoinPlacedOnce ==
    ASSUME NEW w, NEW t, NEW q, NEW u, NEW t1, NEW q1, NEW v, NEW t2, NEW q2, NEW n, NEW l, NEW k,
           Joins(w, t, q, u, t1, q1, v, t2, q2, n, l, k),
           Placed(u, n, t1, q1, k), Placed(v, l, t2, q2, Len(t2[1].groupSigners)),
           PlacedOnce(u, n, q1), PlacedOnce(v, l, q2)
    PROVE  PlacedOnce(w, n + l, q)
<1> SUFFICES ASSUME NEW x \in 2..(n + l), NEW y \in 2..(n + l), w[x].parent = w[y].parent, q[x] = q[y]
             PROVE  x = y
  BY DEF PlacedOnce
<1>1. n \in Nat /\ n >= 1 /\ l \in Nat /\ l >= 1 /\ k \in Nat
  BY DEF Joins
<1>2. w[n + 1].parent = 0 /\ q[n + 1] = k + 1
  BY DEF Joins
<1>3. \A z \in 2..n : /\ w[z].parent \in Int /\ w[z].parent < n /\ ~(w[z].parent = 0 /\ q[z] = k + 1)
                      /\ w[z].parent = u[z].parent /\ q[z] = q1[z]
  BY FirstPlaced
<1>4. \A z \in 2..l : /\ w[n + z].parent \in Int /\ w[n + z].parent >= n
                      /\ w[n + z].parent = v[z].parent + n /\ q[n + z] = q2[z] /\ v[z].parent \in Nat
  BY SecondPlaced
<1>5. x \in 2..n \/ x = n + 1 \/ \E z \in 2..l : x = n + z
  BY <1>1, JoinedEntry
<1>6. y \in 2..n \/ y = n + 1 \/ \E z \in 2..l : y = n + z
  BY <1>1, JoinedEntry
<1>7. CASE x \in 2..n /\ y \in 2..n
  BY <1>3, <1>7 DEF PlacedOnce
<1>8. ASSUME NEW a \in 2..l, NEW b \in 2..l, x = n + a, y = n + b PROVE x = y
  <2>1. v[a].parent + n = v[b].parent + n /\ q2[a] = q2[b] /\ v[a].parent \in Nat /\ v[b].parent \in Nat
    BY <1>4, <1>8
  <2>2. v[a].parent = v[b].parent
    BY <1>1, <2>1, SMTT(40)
  <2>3. a = b
    BY <2>1, <2>2 DEF PlacedOnce
  <2>. QED BY <1>8, <2>3
<1>9. ASSUME NEW a \in 2..n, NEW b \in 2..l PROVE w[a].parent # w[n + b].parent
  <2>1. w[a].parent \in Int /\ w[a].parent < n
    BY <1>3
  <2>2. w[n + b].parent \in Int /\ w[n + b].parent >= n
    BY <1>4
  <2>. QED BY <1>1, <2>1, <2>2
<1>10. ASSUME NEW b \in 2..l PROVE w[n + b].parent # 0
  BY <1>1, <1>4
<1>11. x = n + 1 => y = n + 1
  BY <1>2, <1>3, <1>6, <1>10
<1>12. y = n + 1 => x = n + 1
  BY <1>2, <1>3, <1>5, <1>10
<1>. QED BY <1>5, <1>6, <1>7, <1>8, <1>9, <1>11, <1>12

LEMMA JoinAllPlaced ==
    ASSUME NEW w, NEW t, NEW q, NEW u, NEW t1, NEW q1, NEW v, NEW t2, NEW q2, NEW n, NEW l, NEW k,
           Joins(w, t, q, u, t1, q1, v, t2, q2, n, l, k),
           AllPlaced(u, n, t1, q1, k), AllPlaced(v, l, t2, q2, Len(t2[1].groupSigners))
    PROVE  AllPlaced(w, n + l, t, q, k + 1)
<1> SUFFICES ASSUME NEW m \in 1..(n + l), NEW j \in 1..Numbered(t, m, k + 1)
             PROVE  \E x \in 2..(n + l) : w[x].parent = m - 1 /\ q[x] = j
  BY DEF AllPlaced
<1>1. n \in Nat /\ n >= 1 /\ l \in Nat /\ l >= 1 /\ k \in Nat
  BY DEF Joins
<1>2. CASE m \in 1..n /\ (m = 1 => j \in 1..k)
  <2>1. j \in 1..Numbered(t1, m, k)
    <3>1. CASE m = 1
      BY <1>2, <3>1 DEF Numbered
    <3>2. CASE m # 1
      <4>1. t[m] = t1[m]
        BY <1>2 DEF Joins
      <4>. QED BY <3>2, <4>1 DEF Numbered
    <3>. QED BY <3>1, <3>2
  <2>2. PICK x \in 2..n : u[x].parent = m - 1 /\ q1[x] = j
    BY <1>2, <2>1 DEF AllPlaced
  <2>3. x \in 2..(n + l) /\ x \in 1..n
    BY <1>1
  <2>4. w[x] = u[x] /\ q[x] = q1[x]
    BY <2>3 DEF Joins
  <2>. QED BY <2>2, <2>3, <2>4
<1>3. CASE m = 1 /\ ~(j \in 1..k)
  <2>1. j = k + 1
    <3>1. Numbered(t, m, k + 1) = k + 1
      BY <1>3 DEF Numbered
    <3>2. j \in 1..(k + 1)
      BY <3>1
    <3>. QED BY <1>1, <1>3, <3>2
  <2>2. n + 1 \in 2..(n + l) /\ m - 1 = 0
    BY <1>1, <1>3
  <2>3. w[n + 1].parent = 0 /\ q[n + 1] = k + 1
    BY DEF Joins
  <2>. QED BY <2>1, <2>2, <2>3
<1>4. ASSUME NEW y \in 1..l, m = n + y PROVE \E x \in 2..(n + l) : w[x].parent = m - 1 /\ q[x] = j
  <2>1. m # 1 /\ t[m] = t2[y]
    BY <1>1, <1>4 DEF Joins
  <2>2. Numbered(t, m, k + 1) = Numbered(t2, y, Len(t2[1].groupSigners))
    BY <2>1 DEF Numbered
  <2>3. PICK z \in 2..l : v[z].parent = y - 1 /\ q2[z] = j
    BY <2>2 DEF AllPlaced
  <2>4. w[n + z].parent = v[z].parent + n /\ q[n + z] = q2[z]
    BY DEF Joins
  <2>5. n + z \in 2..(n + l) /\ (y - 1) + n = m - 1
    BY <1>1, <1>4
  <2>. QED BY <2>3, <2>4, <2>5
<1>5. m \in 1..n \/ \E y \in 1..l : m = n + y
  BY <1>1, JoinedEntry
<1>. QED BY <1>2, <1>3, <1>4, <1>5

\* Appending the entries of the next group below g.
LEMMA NumberNext ==
    ASSUME NEW cfg, NEW g, NEW k \in Nat, NEW c, g.groupSigners[k + 1] = c,
           NEW u, NEW t1, NEW q1, Numbering(cfg, u, g, k, t1, q1),
           NEW v, NEW t2, NEW q2, Numbering(cfg, v, c, Len(c.groupSigners), t2, q2)
    PROVE  \E t, q : Numbering(cfg, u \o Below(v, Len(u)), g, k + 1, t, q)
<1>1. PICK n : n = Len(u)
  OBVIOUS
<1>2. PICK l : l = Len(v)
  OBVIOUS
<1>3. PICK b : b = Below(v, n)
  OBVIOUS
<1>4. PICK w : w = u \o b
  OBVIOUS
<1>5. u \in Seq(Entry) /\ v \in Seq(Entry) /\ n \in Nat /\ l \in Nat /\ n >= 1 /\ l >= 1
  BY <1>1, <1>2 DEF Numbering
<1>6. /\ b \in Seq(Entry) /\ Len(b) = l
      /\ \A y \in 1..l : b[y].quorum = v[y].quorum /\ b[y].signers = v[y].signers
                         /\ b[y].parent = IF y = 1 THEN 0 ELSE v[y].parent + n
  BY <1>2, <1>3, <1>5, BelowEntries, ZenonT(60)
<1>7. w \in Seq(Entry) /\ Len(w) = n + l /\ \A x \in 1..(n + l) : w[x] = IF x <= n THEN u[x] ELSE b[x - n]
  <2>1. /\ u \o b \in Seq(Entry) /\ Len(u \o b) = Len(u) + Len(b)
        /\ \A i \in 1..(Len(u) + Len(b)) : (u \o b)[i] = IF i <= Len(u) THEN u[i] ELSE b[i - Len(u)]
    <3>1. u \in Seq(Entry) /\ b \in Seq(Entry)
      BY <1>5, <1>6
    <3>. QED BY <3>1, ConcatProperties
  <2>2. Len(b) = l
    BY <1>6
  <2>. QED BY <1>1, <1>4, <2>1, <2>2
<1>8. ASSUME NEW y \in 1..l PROVE w[n + y] = b[y]
  <2>1. n + y \in 1..(n + l) /\ ~(n + y <= n) /\ (n + y) - n = y
    BY <1>5
  <2>. QED BY <1>7, <2>1
<1> DEFINE t == [x \in 1..(n + l) |-> IF x <= n THEN t1[x] ELSE t2[x - n]]
           q == [x \in 1..(n + l) |-> IF x <= n THEN q1[x] ELSE IF x = n + 1 THEN k + 1 ELSE q2[x - n]]
<1>9. ASSUME NEW x \in 1..n PROVE w[x] = u[x] /\ t[x] = t1[x] /\ q[x] = q1[x]
  <2>1. x \in 1..(n + l) /\ x <= n
    BY <1>5
  <2>. QED BY <1>7, <2>1
<1>10. ASSUME NEW y \in 1..l
       PROVE  w[n + y].quorum = v[y].quorum /\ w[n + y].signers = v[y].signers /\ t[n + y] = t2[y]
  <2>1. n + y \in 1..(n + l) /\ ~(n + y <= n) /\ (n + y) - n = y
    BY <1>5
  <2>2. t[n + y] = t2[y]
    BY <2>1
  <2>3. w[n + y] = b[y] /\ b[y].quorum = v[y].quorum /\ b[y].signers = v[y].signers
    BY <1>6, <1>8
  <2>. QED BY <2>2, <2>3
<1>11. ASSUME NEW y \in 2..l PROVE w[n + y].parent = v[y].parent + n /\ q[n + y] = q2[y]
  <2>1. n + y \in 1..(n + l) /\ ~(n + y <= n) /\ (n + y) - n = y /\ n + y # n + 1 /\ y \in 1..l /\ y # 1
    BY <1>5
  <2>2. q[n + y] = q2[y]
    BY <2>1
  <2>3. w[n + y] = b[y] /\ b[y].parent = v[y].parent + n
    BY <1>6, <1>8, <2>1
  <2>. QED BY <2>2, <2>3
<1>12. w[n + 1].parent = 0 /\ q[n + 1] = k + 1
  <2>1. n + 1 \in 1..(n + l) /\ ~(n + 1 <= n) /\ 1 \in 1..l
    BY <1>5
  <2>2. q[n + 1] = k + 1
    BY <2>1
  <2>3. w[n + 1] = b[1] /\ b[1].parent = 0
    BY <1>6, <1>8, <2>1
  <2>. QED BY <2>2, <2>3
<1>13. t = [x \in 1..(n + l) |-> t[x]]
  OBVIOUS
<1> HIDE DEF t, q
<1>14. Joins(w, t, q, u, t1, q1, v, t2, q2, n, l, k)
  BY <1>5, <1>9, <1>10, <1>11, <1>12 DEF Joins
<1>15. /\ t1 \in [1..n -> Groups(cfg)] /\ t1[1] = g /\ u[1].parent = 0 /\ StandFor(u, n, t1)
       /\ Placed(u, n, t1, q1, k) /\ PlacedOnce(u, n, q1) /\ AllPlaced(u, n, t1, q1, k)
  BY <1>1 DEF Numbering
<1>16. /\ t2 \in [1..l -> Groups(cfg)] /\ t2[1] = c /\ StandFor(v, l, t2) /\ PlacedOnce(v, l, q2)
       /\ Placed(v, l, t2, q2, Len(t2[1].groupSigners)) /\ AllPlaced(v, l, t2, q2, Len(t2[1].groupSigners))
  BY <1>2 DEF Numbering
<1>17. \A x \in 1..(n + l) : x \in 1..n \/ \E y \in 1..l : x = n + y
  BY <1>5, JoinedEntry
<1>18. t \in [1..(n + l) -> Groups(cfg)]
  <2>1. \A x \in 1..n : t[x] \in Groups(cfg)
    BY <1>9, <1>15
  <2>2. \A y \in 1..l : t[n + y] \in Groups(cfg)
    BY <1>10, <1>16
  <2>3. \A x \in 1..(n + l) : t[x] \in Groups(cfg)
    BY <1>17, <2>1, <2>2
  <2>. QED BY <1>13, <2>3
<1>19. StandFor(w, n + l, t)
  <2>1. \A x \in 1..n : w[x].quorum = t[x].quorum /\ w[x].signers = t[x].signers
    BY <1>9, <1>15 DEF StandFor
  <2>2. \A y \in 1..l : w[n + y].quorum = t[n + y].quorum /\ w[n + y].signers = t[n + y].signers
    BY <1>10, <1>16 DEF StandFor
  <2>. QED BY <1>17, <2>1, <2>2 DEF StandFor
<1>20. t1[1].groupSigners[k + 1] = t2[1]
  BY <1>15, <1>16
<1>21. Placed(w, n + l, t, q, k + 1)
  BY <1>14, <1>15, <1>16, <1>20, JoinPlaced
<1>22. PlacedOnce(w, n + l, q)
  BY <1>14, <1>15, <1>16, JoinPlacedOnce
<1>23. AllPlaced(w, n + l, t, q, k + 1)
  BY <1>14, <1>15, <1>16, JoinAllPlaced
<1>24. t[1] = g /\ w[1].parent = 0
  <2>1. 1 \in 1..n
    BY <1>5
  <2>. QED BY <1>9, <1>15, <2>1
<1>25. n + l >= 1
  BY <1>5
<1>26. Numbering(cfg, w, g, k + 1, t, q)
  BY <1>7, <1>18, <1>19, <1>21, <1>22, <1>23, <1>24, <1>25 DEF Numbering
<1>. QED BY <1>1, <1>3, <1>4, <1>26

FlattenedAt(g, flat, f, k) ==
    IF k = 0 THEN <<[quorum |-> g.quorum, parent |-> 0, signers |-> g.signers]>>
    ELSE f[k - 1] \o Below(flat[g.groupSigners[k]], Len(f[k - 1]))

LEMMA FlattenedExists ==
    ASSUME NEW g, Len(g.groupSigners) \in Nat, NEW flat
    PROVE  Flattened(g, flat) = [k \in 0..Len(g.groupSigners) |-> FlattenedAt(g, flat, Flattened(g, flat), k)]
<1> DEFINE N == Len(g.groupSigners)
           IsFlat(f, n) == f = [k \in 0..n |-> FlattenedAt(g, flat, f, k)]
           S == {n \in 0..N : \E f : IsFlat(f, n)}
<1>1. N \in Nat
  OBVIOUS
<1>2. Flattened(g, flat) = CHOOSE f : IsFlat(f, N)
  BY DEF Flattened, FlattenedAt
<1> HIDE DEF N
<1>3. 0 \in S
  <2> DEFINE f == [k \in 0..0 |-> FlattenedAt(g, flat, 0, 0)]
  <2>1. \A k \in 0..0 : k = 0
    OBVIOUS
  <2>2. \A h : FlattenedAt(g, flat, h, 0) = FlattenedAt(g, flat, 0, 0)
    BY DEF FlattenedAt
  <2>3. f = [k \in 0..0 |-> FlattenedAt(g, flat, f, k)]
    BY <2>1, <2>2
  <2> HIDE DEF f
  <2>4. IsFlat(f, 0)
    BY <2>3
  <2> HIDE DEF IsFlat
  <2>. QED BY <1>1, <2>4
<1>4. ASSUME NEW n \in 0..N, n \in S, n < N PROVE n + 1 \in S
  <2>1. PICK u : IsFlat(u, n)
    BY <1>4
  <2> DEFINE v == [k \in 0..(n + 1) |-> IF k = n + 1 THEN FlattenedAt(g, flat, u, k) ELSE u[k]]
  <2>2. \A k \in 0..(n + 1) : FlattenedAt(g, flat, v, k) = FlattenedAt(g, flat, u, k)
    <3> SUFFICES ASSUME NEW k \in 0..(n + 1) PROVE FlattenedAt(g, flat, v, k) = FlattenedAt(g, flat, u, k)
      OBVIOUS
    <3>1. CASE k = 0
      BY <3>1 DEF FlattenedAt
    <3>2. CASE k # 0
      <4>1. k - 1 \in 0..(n + 1) /\ k - 1 # n + 1
        BY <1>1, <3>2
      <4>2. v[k - 1] = u[k - 1]
        BY <4>1
      <4> HIDE DEF v
      <4>. QED BY <3>2, <4>2 DEF FlattenedAt
    <3>. QED BY <3>1, <3>2
  <2>3. \A k \in 0..(n + 1) : k = n + 1 \/ k \in 0..n
    OBVIOUS
  <2>4. \A k \in 0..(n + 1) : v[k] = FlattenedAt(g, flat, u, k)
    BY <2>1, <2>3
  <2>5. IsFlat(v, n + 1)
    BY <2>2, <2>4
  <2>6. n + 1 \in 0..N
    BY <1>1, <1>4
  <2> HIDE DEF v, IsFlat
  <2>. QED BY <2>5, <2>6
<1>5. \A n \in 0..N : n \in S
  <2> HIDE DEF S
  <2>. QED BY <1>1, <1>3, <1>4, UpwardInduction
<1>6. \E f : IsFlat(f, N)
  BY <1>1, <1>5
<1> HIDE DEF IsFlat
<1>7. IsFlat(Flattened(g, flat), N)
  BY <1>2, <1>6
<1>. QED BY <1>7 DEF IsFlat, N

\* What a group is flattened to depends on what the groups below it are flattened to.
LEMMA FlattenedDependsOn ==
    ASSUME NEW g, Len(g.groupSigners) \in Nat, DOMAIN g.groupSigners = 1..Len(g.groupSigners), NEW f, NEW h,
           \A k \in DOMAIN g.groupSigners : f[g.groupSigners[k]] = h[g.groupSigners[k]]
    PROVE  Flattened(g, f)[Len(g.groupSigners)] = Flattened(g, h)[Len(g.groupSigners)]
<1> DEFINE N == Len(g.groupSigners)
           a == Flattened(g, f)
           b == Flattened(g, h)
           S == {k \in 0..N : a[k] = b[k]}
<1>1. N \in Nat
  OBVIOUS
<1>2. \A k \in 0..N : a[k] = FlattenedAt(g, f, a, k)
  <2>1. a = [k \in 0..N |-> FlattenedAt(g, f, a, k)]
    BY FlattenedExists
  <2> HIDE DEF a, N
  <2>. QED BY <2>1
<1>3. \A k \in 0..N : b[k] = FlattenedAt(g, h, b, k)
  <2>1. b = [k \in 0..N |-> FlattenedAt(g, h, b, k)]
    BY FlattenedExists
  <2> HIDE DEF b, N
  <2>. QED BY <2>1
<1>4. \A k \in 1..N : f[g.groupSigners[k]] = h[g.groupSigners[k]]
  OBVIOUS
<1> HIDE DEF a, b, N
<1>5. 0 \in S
  <2>1. 0 \in 0..N
    BY <1>1
  <2>. QED BY <1>2, <1>3, <2>1 DEF FlattenedAt
<1>6. ASSUME NEW n \in 0..N, n \in S, n < N PROVE n + 1 \in S
  <2>1. n + 1 \in 0..N /\ n + 1 \in 1..N /\ n + 1 # 0 /\ (n + 1) - 1 = n
    BY <1>1, <1>6
  <2>2. a[n] = b[n]
    BY <1>6
  <2>3. f[g.groupSigners[n + 1]] = h[g.groupSigners[n + 1]]
    BY <1>4, <2>1
  <2>4. a[n + 1] = a[n] \o Below(f[g.groupSigners[n + 1]], Len(a[n]))
    BY <1>2, <2>1 DEF FlattenedAt
  <2>5. b[n + 1] = b[n] \o Below(h[g.groupSigners[n + 1]], Len(b[n]))
    BY <1>3, <2>1 DEF FlattenedAt
  <2>. QED BY <2>1, <2>2, <2>3, <2>4, <2>5
<1>7. \A n \in 0..N : n \in S
  <2> HIDE DEF S
  <2>. QED BY <1>1, <1>5, <1>6, UpwardInduction
<1>8. N \in 0..N
  BY <1>1
<1>. QED BY <1>7, <1>8 DEF a, b, N

\* extractGroupsAndSigners is the equation it is defined by.
LEMMA FlatGroupsExist ==
    ASSUME NEW cfg \in Config
    PROVE  FlatGroups(cfg) = [g \in Groups(cfg) |-> Flattened(g, FlatGroups(cfg))[Len(g.groupSigners)]]
<1> DEFINE G(n) == Layer(cfg, n)
           F(f, g) == Flattened(g, f)[Len(g.groupSigners)]
           IsFlat(f, D) == f = [g \in D |-> F(f, g)]
           S == {n \in 0..MaxDepth : \E f : IsFlat(f, G(n))}
<1>1. MaxDepth \in Nat
  BY QuorumAssumption
<1>2. ASSUME NEW f, NEW h, NEW g \in Groups(cfg),
             \A k \in DOMAIN g.groupSigners : f[g.groupSigners[k]] = h[g.groupSigners[k]]
      PROVE  F(f, g) = F(h, g)
  <2>1. g.groupSigners \in Seq(Groups(cfg))
    BY Layers
  <2>2. Len(g.groupSigners) \in Nat /\ DOMAIN g.groupSigners = 1..Len(g.groupSigners)
    BY <2>1, LenProperties
  <2>. QED BY <1>2, <2>2, FlattenedDependsOn
<1>3. FlatGroups(cfg) = CHOOSE f : IsFlat(f, Groups(cfg))
  BY DEF FlatGroups
<1> HIDE DEF F
<1>4. \A n \in 0..MaxDepth : G(n) \subseteq Groups(cfg)
  BY DEF Layer
<1>5. 0 \in S
  <2> DEFINE f == [g \in G(0) |-> F(0, g)]
  <2>1. \A g \in G(0) : F(f, g) = F(0, g)
    <3> SUFFICES ASSUME NEW g \in G(0) PROVE F(f, g) = F(0, g)
      OBVIOUS
    <3>1. g \in Groups(cfg) /\ g.groupSigners = <<>>
      BY <1>1, <1>4, Layers
    <3>2. DOMAIN g.groupSigners = {}
      BY <3>1
    <3> HIDE DEF f
    <3>. QED BY <1>2, <3>1, <3>2
  <2>2. f = [g \in G(0) |-> F(f, g)]
    BY <2>1
  <2> HIDE DEF f
  <2>3. IsFlat(f, G(0))
    BY <2>2
  <2> HIDE DEF IsFlat
  <2>. QED BY <1>1, <2>3
<1>6. ASSUME NEW n \in 0..MaxDepth, n \in S, n < MaxDepth PROVE n + 1 \in S
  <2>1. PICK u : IsFlat(u, G(n))
    BY <1>6
  <2>2. /\ n + 1 \in 0..MaxDepth /\ G(n) \subseteq G(n + 1)
        /\ \A g \in G(n + 1) : g \in Groups(cfg) /\ \A k \in DOMAIN g.groupSigners : g.groupSigners[k] \in G(n)
    BY <1>1, <1>4, <1>6, Layers
  <2> HIDE DEF G
  <2> DEFINE v == [g \in G(n + 1) |-> F(u, g)]
  <2>3. \A g \in G(n) : v[g] = u[g]
    BY <2>1, <2>2
  <2>4. \A g \in G(n + 1) : F(v, g) = F(u, g)
    <3> SUFFICES ASSUME NEW g \in G(n + 1) PROVE F(v, g) = F(u, g)
      OBVIOUS
    <3>1. \A k \in DOMAIN g.groupSigners : v[g.groupSigners[k]] = u[g.groupSigners[k]]
      BY <2>2, <2>3
    <3>2. g \in Groups(cfg)
      BY <2>2
    <3> HIDE DEF v
    <3>. QED BY <1>2, <3>1, <3>2
  <2>5. v = [g \in G(n + 1) |-> F(v, g)]
    BY <2>4
  <2> HIDE DEF v
  <2>6. IsFlat(v, G(n + 1))
    BY <2>5
  <2> HIDE DEF IsFlat
  <2>. QED BY <2>2, <2>6
<1>7. \A n \in 0..MaxDepth : n \in S
  <2> HIDE DEF S
  <2>. QED BY <1>1, <1>5, <1>6, UpwardInduction
<1>8. \E f : IsFlat(f, Groups(cfg))
  <2>1. MaxDepth \in S /\ G(MaxDepth) = Groups(cfg)
    BY <1>1, <1>7, Layers
  <2> HIDE DEF IsFlat, G
  <2>. QED BY <2>1
<1> HIDE DEF IsFlat
<1>9. IsFlat(FlatGroups(cfg), Groups(cfg))
  BY <1>3, <1>8
<1>. QED BY <1>9 DEF IsFlat, F

HasNumbering(cfg, s, g, n) == \E t, q : Numbering(cfg, s, g, n, t, q)

\* A group alone, before the groups below it.
LEMMA NumberAlone ==
    ASSUME NEW cfg, NEW g \in Groups(cfg), g.quorum \in Nat, g.signers \in Seq(Signer)
    PROVE  HasNumbering(cfg, <<[quorum |-> g.quorum, parent |-> 0, signers |-> g.signers]>>, g, 0)
<1> DEFINE e == [quorum |-> g.quorum, parent |-> 0, signers |-> g.signers]
           t == [m \in 1..1 |-> g]
<1>1. e \in Entry /\ e.quorum = g.quorum /\ e.signers = g.signers /\ e.parent = 0
  BY DEF Entry
<1> HIDE DEF e
<1>2. PICK s : s = <<e>>
  OBVIOUS
<1>3. s \in Seq(Entry) /\ Len(s) = 1 /\ s[1] = e
  BY <1>1, <1>2
<1>4. t \in [1..1 -> Groups(cfg)] /\ t[1] = g
  OBVIOUS
<1> HIDE DEF t
<1>5. \A m \in 1..1 : m = 1
  OBVIOUS
<1>6. StandFor(s, 1, t)
  BY <1>1, <1>3, <1>4, <1>5 DEF StandFor
<1>7. ~\E x \in 2..1 : TRUE
  OBVIOUS
<1>8. Placed(s, 1, t, 0, 0) /\ PlacedOnce(s, 1, 0)
  BY <1>7 DEF Placed, PlacedOnce
<1>9. AllPlaced(s, 1, t, 0, 0)
  <2>1. \A m \in 1..1 : Numbered(t, m, 0) = 0
    BY <1>5 DEF Numbered
  <2>2. ~\E k \in 1..0 : TRUE
    OBVIOUS
  <2>. QED BY <2>1, <2>2 DEF AllPlaced
<1>10. Numbering(cfg, s, g, 0, t, 0)
  BY <1>1, <1>3, <1>4, <1>6, <1>8, <1>9 DEF Numbering
<1>. QED BY <1>2, <1>10 DEF HasNumbering, e

\* Flattened numbers a group if the groups below it are numbered.
LEMMA NumberFlattened ==
    ASSUME NEW cfg \in Config, NEW g \in Groups(cfg), NEW flat,
           \A k \in DOMAIN g.groupSigners :
               HasNumbering(cfg, flat[g.groupSigners[k]], g.groupSigners[k], Len(g.groupSigners[k].groupSigners))
    PROVE  HasNumbering(cfg, Flattened(g, flat)[Len(g.groupSigners)], g, Len(g.groupSigners))
<1> DEFINE N == Len(g.groupSigners)
           a == Flattened(g, flat)
           S == {k \in 0..N : HasNumbering(cfg, a[k], g, k)}
<1>1. g.groupSigners \in Seq(Groups(cfg)) /\ g.quorum \in Nat /\ g.signers \in Seq(Signer)
  BY Layers
<1>2. N \in Nat /\ DOMAIN g.groupSigners = 1..N
  BY <1>1, LenProperties
<1>3. \A k \in 0..N : a[k] = FlattenedAt(g, flat, a, k)
  <2>1. a = [k \in 0..N |-> FlattenedAt(g, flat, a, k)]
    BY <1>2, FlattenedExists
  <2> HIDE DEF a, N
  <2>. QED BY <2>1
<1> HIDE DEF a, N
<1>4. 0 \in S
  <2>1. 0 \in 0..N
    BY <1>2
  <2>2. a[0] = <<[quorum |-> g.quorum, parent |-> 0, signers |-> g.signers]>>
    BY <1>3, <2>1 DEF FlattenedAt
  <2>3. HasNumbering(cfg, a[0], g, 0)
    BY <1>1, <2>2, NumberAlone
  <2>. QED BY <2>1, <2>3
<1>5. ASSUME NEW n \in 0..N, n \in S, n < N PROVE n + 1 \in S
  <2>1. n + 1 \in 0..N /\ n + 1 \in 1..N /\ n + 1 # 0 /\ (n + 1) - 1 = n /\ n \in Nat
    BY <1>2, <1>5
  <2>2. PICK c : c = g.groupSigners[n + 1]
    OBVIOUS
  <2>3. PICK v : v = flat[c]
    OBVIOUS
  <2>4. PICK u : u = a[n]
    OBVIOUS
  <2>5. a[n + 1] = u \o Below(v, Len(u))
    BY <1>3, <2>1, <2>2, <2>3, <2>4 DEF FlattenedAt
  <2>6. HasNumbering(cfg, v, c, Len(c.groupSigners))
    BY <1>2, <2>1, <2>2, <2>3
  <2>7. HasNumbering(cfg, u, g, n)
    BY <1>5, <2>4
  <2>8. PICK t1, q1 : Numbering(cfg, u, g, n, t1, q1)
    BY <2>7 DEF HasNumbering
  <2>9. PICK t2, q2 : Numbering(cfg, v, c, Len(c.groupSigners), t2, q2)
    BY <2>6 DEF HasNumbering
  <2>10. HasNumbering(cfg, u \o Below(v, Len(u)), g, n + 1)
    BY <2>1, <2>2, <2>8, <2>9, NumberNext DEF HasNumbering
  <2>. QED BY <2>1, <2>5, <2>10
<1>6. \A n \in 0..N : n \in S
  <2> HIDE DEF S
  <2>. QED BY <1>2, <1>4, <1>5, UpwardInduction
<1>7. N \in 0..N
  BY <1>2
<1>. QED BY <1>6, <1>7 DEF a, N

\* extractGroupsAndSigners numbers every group of a configuration.
LEMMA NumberGroups ==
    ASSUME NEW cfg \in Config
    PROVE  \A g \in Groups(cfg) : HasNumbering(cfg, FlatGroups(cfg)[g], g, Len(g.groupSigners))
<1> DEFINE f == FlatGroups(cfg)
           P(g) == HasNumbering(cfg, f[g], g, Len(g.groupSigners))
           S == {n \in 0..MaxDepth : \A g \in Layer(cfg, n) : P(g)}
<1>1. MaxDepth \in Nat
  BY QuorumAssumption
<1>2. ASSUME NEW g \in Groups(cfg), \A k \in DOMAIN g.groupSigners : P(g.groupSigners[k]) PROVE P(g)
  <2>1. f[g] = Flattened(g, f)[Len(g.groupSigners)]
    <3>1. f = [h \in Groups(cfg) |-> Flattened(h, f)[Len(h.groupSigners)]]
      BY FlatGroupsExist
    <3> HIDE DEF f
    <3>. QED BY <3>1
  <2>2. HasNumbering(cfg, Flattened(g, f)[Len(g.groupSigners)], g, Len(g.groupSigners))
    <3> HIDE DEF f
    <3>. QED BY <1>2, NumberFlattened
  <2>. QED BY <2>1, <2>2
<1>3. \A n \in 0..MaxDepth : Layer(cfg, n) \subseteq Groups(cfg)
  BY DEF Layer
<1> HIDE DEF P
<1>4. 0 \in S
  <2> SUFFICES ASSUME NEW g \in Layer(cfg, 0) PROVE P(g)
    BY <1>1
  <2>1. g \in Groups(cfg) /\ g.groupSigners = <<>>
    BY <1>1, <1>3, Layers
  <2>2. DOMAIN g.groupSigners = {}
    BY <2>1
  <2>. QED BY <1>2, <2>1, <2>2
<1>5. ASSUME NEW n \in 0..MaxDepth, n \in S, n < MaxDepth PROVE n + 1 \in S
  <2>1. n + 1 \in 0..MaxDepth
    BY <1>1, <1>5
  <2> SUFFICES ASSUME NEW g \in Layer(cfg, n + 1) PROVE P(g)
    BY <2>1
  <2>2. g \in Groups(cfg)
    BY <1>3, <2>1
  <2>3. \A k \in DOMAIN g.groupSigners : g.groupSigners[k] \in Layer(cfg, n)
    BY <1>5, Layers
  <2>4. \A k \in DOMAIN g.groupSigners : P(g.groupSigners[k])
    BY <1>5, <2>3
  <2>. QED BY <1>2, <2>2, <2>4
<1>6. \A n \in 0..MaxDepth : n \in S
  <2> HIDE DEF S
  <2>. QED BY <1>1, <1>4, <1>5, UpwardInduction
<1>7. MaxDepth \in S /\ Layer(cfg, MaxDepth) = Groups(cfg)
  BY <1>1, <1>6, Layers
<1>. QED BY <1>7 DEF P

-----------------------------------------------------------------------------
(* The groups of a configuration and the entries that stand for them *)

\* Entry m of s stands for group t[m] of cfg, and for place q[m] of the group above.
Represents(cfg, s, n, t, q) ==
    /\ s \in Seq(Entry) /\ n = Len(s) /\ n \in Nat /\ n >= 1
    /\ t \in [1..n -> Groups(cfg)] /\ t[1] = cfg /\ s[1].parent = 0
    /\ StandFor(s, n, t)
    /\ \A x \in 2..n : /\ s[x].parent \in 0..(x - 2)
                       /\ q[x] \in DOMAIN t[s[x].parent + 1].groupSigners
                       /\ t[x] = t[s[x].parent + 1].groupSigners[q[x]]
    /\ PlacedOnce(s, n, q)
    /\ \A m \in 1..n : \A k \in DOMAIN t[m].groupSigners : \E x \in 2..n : s[x].parent = m - 1 /\ q[x] = k

LEMMA ConfigIsRepresented ==
    ASSUME NEW cfg \in Config
    PROVE  \E n, t, q : Represents(cfg, extractGroupsAndSigners(cfg), n, t, q)
<1>1. PICK s : s = extractGroupsAndSigners(cfg)
  OBVIOUS
<1>2. PICK c : c = Len(cfg.groupSigners)
  OBVIOUS
<1>3. HasNumbering(cfg, s, cfg, c)
  BY <1>1, <1>2, NumberGroups, Layers DEF extractGroupsAndSigners
<1>4. PICK t, q : Numbering(cfg, s, cfg, c, t, q)
  BY <1>3 DEF HasNumbering
<1>5. PICK n : n = Len(s)
  OBVIOUS
<1>6. /\ s \in Seq(Entry) /\ n >= 1 /\ t \in [1..n -> Groups(cfg)] /\ t[1] = cfg /\ s[1].parent = 0
      /\ StandFor(s, n, t) /\ PlacedOnce(s, n, q)
      /\ Placed(s, n, t, q, c) /\ AllPlaced(s, n, t, q, c)
  BY <1>4, <1>5 DEF Numbering
<1>7. n \in Nat
  BY <1>5, <1>6, LenProperties
<1>8. ASSUME NEW m \in 1..n PROVE 1..Numbered(t, m, c) = DOMAIN t[m].groupSigners
  <2>1. Numbered(t, m, c) = Len(t[m].groupSigners)
    BY <1>2, <1>6 DEF Numbered
  <2>2. t[m] \in Groups(cfg)
    BY <1>6
  <2>3. t[m].groupSigners \in Seq(Groups(cfg))
    BY <2>2, Layers
  <2>. QED BY <2>1, <2>3, LenProperties
<1>9. ASSUME NEW x \in 2..n
      PROVE  /\ s[x].parent \in 0..(x - 2)
             /\ q[x] \in DOMAIN t[s[x].parent + 1].groupSigners
             /\ t[x] = t[s[x].parent + 1].groupSigners[q[x]]
  <2>1. /\ s[x].parent \in 0..(x - 2)
        /\ q[x] \in 1..Numbered(t, s[x].parent + 1, c)
        /\ t[x] = t[s[x].parent + 1].groupSigners[q[x]]
    BY <1>6 DEF Placed
  <2>2. s[x].parent + 1 \in 1..n
    BY <1>7, <2>1
  <2>. QED BY <1>8, <2>1, <2>2
<1>10. ASSUME NEW m \in 1..n, NEW k \in DOMAIN t[m].groupSigners
       PROVE  \E x \in 2..n : s[x].parent = m - 1 /\ q[x] = k
  <2>1. k \in 1..Numbered(t, m, c)
    BY <1>8
  <2>. QED BY <1>6, <2>1 DEF AllPlaced
<1>11. Represents(cfg, s, n, t, q)
  BY <1>5, <1>6, <1>7, <1>9, <1>10 DEF Represents
<1>. QED BY <1>1, <1>11

\* No group is left out.
LEMMA EveryGroupHasEntry ==
    ASSUME NEW cfg, NEW s, NEW n, NEW t, NEW q, Represents(cfg, s, n, t, q)
    PROVE  Groups(cfg) = {t[m] : m \in 1..n}
<1> DEFINE T == {t[m] : m \in 1..n}
           S == {d \in 0..MaxDepth : Levels(cfg)[d] \subseteq T}
<1>1. MaxDepth \in Nat
  BY QuorumAssumption
<1>2. /\ n \in Nat /\ n >= 1 /\ t \in [1..n -> Groups(cfg)] /\ t[1] = cfg
      /\ \A m \in 1..n : \A k \in DOMAIN t[m].groupSigners : \E x \in 2..n : s[x].parent = m - 1 /\ q[x] = k
      /\ \A x \in 2..n : s[x].parent \in 0..(x - 2) /\ t[x] = t[s[x].parent + 1].groupSigners[q[x]]
  BY DEF Represents
<1>3. \A d \in 0..MaxDepth : Levels(cfg)[d] = LevelAt(cfg, Levels(cfg), d)
  <2>1. PICK f : f = Levels(cfg)
    OBVIOUS
  <2>2. f = [d \in 0..MaxDepth |-> LevelAt(cfg, f, d)]
    BY <2>1, LevelsExist
  <2>. QED BY <2>1, <2>2
<1>4. 0 \in S
  <2>1. 0 \in 0..MaxDepth /\ 1 \in 1..n
    BY <1>1, <1>2
  <2>2. Levels(cfg)[0] = {cfg}
    BY <1>3, <2>1 DEF LevelAt
  <2>. QED BY <1>2, <2>1, <2>2
<1>5. ASSUME NEW d \in 0..MaxDepth, d \in S, d < MaxDepth PROVE d + 1 \in S
  <2>1. d + 1 \in 0..MaxDepth /\ d + 1 # 0 /\ (d + 1) - 1 = d
    BY <1>1, <1>5
  <2>2. Levels(cfg)[d + 1] = UNION {Elements(g.groupSigners) : g \in Levels(cfg)[d]}
    BY <1>3, <2>1 DEF LevelAt
  <2>3. ASSUME NEW h \in Levels(cfg)[d + 1] PROVE h \in T
    <3>1. PICK g \in Levels(cfg)[d] : h \in Elements(g.groupSigners)
      BY <2>2
    <3>2. PICK m \in 1..n : g = t[m]
      BY <1>5
    <3>3. PICK k \in DOMAIN t[m].groupSigners : h = t[m].groupSigners[k]
      BY <3>1, <3>2 DEF Elements
    <3>4. PICK x \in 2..n : s[x].parent = m - 1 /\ q[x] = k
      BY <1>2
    <3>5. (m - 1) + 1 = m /\ x \in 1..n
      BY <1>2
    <3>6. t[x] = t[(m - 1) + 1].groupSigners[k]
      BY <1>2, <3>4
    <3>7. t[x] = h
      BY <3>3, <3>5, <3>6
    <3>. QED BY <3>5, <3>7
  <2>. QED BY <2>1, <2>3
<1>6. \A d \in 0..MaxDepth : d \in S
  <2> HIDE DEF S
  <2>. QED BY <1>1, <1>4, <1>5, UpwardInduction
<1>7. Groups(cfg) \subseteq T
  BY <1>6 DEF Groups
<1>8. T \subseteq Groups(cfg)
  BY <1>2
<1>. QED BY <1>7, <1>8

-----------------------------------------------------------------------------
(* The signers of a group, in the array of all signers *)

SignerEntry == [addr : Signer, group : Nat]

\* z holds the signers e as those of group m, each at a place of its own and no other.
Collected(z, e, m) ==
    \E f \in [DOMAIN e -> DOMAIN z] :
        /\ \A i, j \in DOMAIN e : f[i] = f[j] => i = j
        /\ \A i \in DOMAIN e : z[f[i]] = [addr |-> e[i], group |-> m - 1]
        /\ \A k \in DOMAIN z : z[k].group = m - 1 => \E i \in DOMAIN e : f[i] = k

LEMMA JoinedSequence ==
    ASSUME NEW S, NEW z \in Seq(S), NEW y \in Seq(S)
    PROVE  /\ z \o y \in Seq(S) /\ Len(z) \in Nat /\ Len(y) \in Nat
           /\ DOMAIN z = 1..Len(z) /\ DOMAIN y = 1..Len(y)
           /\ DOMAIN (z \o y) = 1..(Len(z) + Len(y))
           /\ \A k \in DOMAIN z : k \in DOMAIN (z \o y) /\ (z \o y)[k] = z[k]
           /\ \A k \in DOMAIN y : Len(z) + k \in DOMAIN (z \o y) /\ (z \o y)[Len(z) + k] = y[k]
           /\ \A k \in DOMAIN (z \o y) : k \in DOMAIN z \/ \E j \in DOMAIN y : k = Len(z) + j
<1>1. PICK w : w = z \o y
  OBVIOUS
<1>2. PICK a : a = Len(z)
  OBVIOUS
<1>3. PICK b : b = Len(y)
  OBVIOUS
<1>4. a \in Nat /\ b \in Nat /\ DOMAIN z = 1..a /\ DOMAIN y = 1..b
  BY <1>2, <1>3, LenProperties
<1>5. /\ w \in Seq(S) /\ Len(w) = a + b
      /\ \A i \in 1..(a + b) : w[i] = IF i <= a THEN z[i] ELSE y[i - a]
  <2>1. /\ z \o y \in Seq(S) /\ Len(z \o y) = Len(z) + Len(y)
        /\ \A i \in 1..(Len(z) + Len(y)) : (z \o y)[i] = IF i <= Len(z) THEN z[i] ELSE y[i - Len(z)]
    BY ConcatProperties
  <2>. QED BY <1>1, <1>2, <1>3, <2>1
<1>6. DOMAIN w = 1..(a + b)
  BY <1>5, LenProperties
<1>7. ASSUME NEW k \in 1..a PROVE k \in 1..(a + b) /\ w[k] = z[k]
  <2>1. k \in 1..(a + b) /\ k <= a
    BY <1>4
  <2>. QED BY <1>5, <2>1
<1>8. ASSUME NEW k \in 1..b PROVE a + k \in 1..(a + b) /\ w[a + k] = y[k]
  <2>1. a + k \in 1..(a + b) /\ ~(a + k <= a) /\ (a + k) - a = k
    BY <1>4
  <2>. QED BY <1>5, <2>1
<1>9. ASSUME NEW k \in 1..(a + b), ~(k \in 1..a) PROVE \E j \in 1..b : k = a + j
  <2>1. k - a \in 1..b /\ k = a + (k - a)
    BY <1>4, <1>9
  <2>. QED BY <2>1
<1>. QED BY <1>1, <1>2, <1>3, <1>4, <1>5, <1>6, <1>7, <1>8, <1>9, ZenonT(60)

\* Signers of other groups may follow.
LEMMA StillCollected ==
    ASSUME NEW z \in Seq(SignerEntry), NEW y \in Seq(SignerEntry), NEW e, NEW m,
           Collected(z, e, m), \A k \in DOMAIN y : y[k].group # m - 1
    PROVE  Collected(z \o y, e, m)
<1>1. PICK w : w = z \o y
  OBVIOUS
<1>2. PICK f \in [DOMAIN e -> DOMAIN z] :
        /\ \A i, j \in DOMAIN e : f[i] = f[j] => i = j
        /\ \A i \in DOMAIN e : z[f[i]] = [addr |-> e[i], group |-> m - 1]
        /\ \A k \in DOMAIN z : z[k].group = m - 1 => \E i \in DOMAIN e : f[i] = k
  BY DEF Collected
<1>3. /\ \A k \in DOMAIN z : k \in DOMAIN w /\ w[k] = z[k]
      /\ \A k \in DOMAIN y : w[Len(z) + k] = y[k]
      /\ \A k \in DOMAIN w : k \in DOMAIN z \/ \E j \in DOMAIN y : k = Len(z) + j
  BY <1>1, JoinedSequence
<1>4. f \in [DOMAIN e -> DOMAIN w]
  BY <1>3
<1>5. \A i \in DOMAIN e : w[f[i]] = [addr |-> e[i], group |-> m - 1]
  BY <1>2, <1>3
<1>6. ASSUME NEW k \in DOMAIN w, w[k].group = m - 1 PROVE \E i \in DOMAIN e : f[i] = k
  BY <1>2, <1>3, <1>6
<1>7. Collected(w, e, m)
  BY <1>2, <1>4, <1>5, <1>6 DEF Collected
<1>. QED BY <1>1, <1>7

\* The signers e of group m.
InGroup(e, m) == [i \in DOMAIN e |-> [addr |-> e[i], group |-> m - 1]]

\* The signers of a group are appended at once.
LEMMA NowCollected ==
    ASSUME NEW z \in Seq(SignerEntry), NEW y \in Seq(SignerEntry), NEW e, NEW m,
           y = InGroup(e, m), \A k \in DOMAIN z : z[k].group # m - 1
    PROVE  Collected(z \o y, e, m)
<1>1. PICK w : w = z \o y
  OBVIOUS
<1>2. PICK a : a = Len(z)
  OBVIOUS
<1>3. /\ a \in Nat /\ DOMAIN y = 1..Len(y) /\ Len(y) \in Nat
      /\ \A k \in DOMAIN z : w[k] = z[k]
      /\ \A k \in DOMAIN y : a + k \in DOMAIN w /\ w[a + k] = y[k]
      /\ \A k \in DOMAIN w : k \in DOMAIN z \/ \E j \in DOMAIN y : k = a + j
  <2>1. a \in Nat /\ DOMAIN y = 1..Len(y) /\ Len(y) \in Nat
    BY <1>2, LenProperties
  <2>2. \A k \in DOMAIN z : w[k] = z[k]
    BY <1>1, JoinedSequence
  <2>3. \A k \in DOMAIN y : Len(z) + k \in DOMAIN w /\ w[Len(z) + k] = y[k]
    BY <1>1, JoinedSequence
  <2>4. \A k \in DOMAIN w : k \in DOMAIN z \/ \E j \in DOMAIN y : k = Len(z) + j
    BY <1>1, JoinedSequence
  <2>. QED BY <1>2, <2>1, <2>2, <2>3, <2>4
<1>4. DOMAIN y = DOMAIN e /\ \A i \in DOMAIN e : y[i] = [addr |-> e[i], group |-> m - 1]
  BY DEF InGroup
<1>5. DOMAIN e \subseteq Nat
  BY <1>3, <1>4
<1> DEFINE f == [i \in DOMAIN e |-> a + i]
<1>6. f \in [DOMAIN e -> DOMAIN w]
  BY <1>3, <1>4
<1>7. \A i, j \in DOMAIN e : f[i] = f[j] => i = j
  <2> SUFFICES ASSUME NEW i \in DOMAIN e, NEW j \in DOMAIN e, f[i] = f[j] PROVE i = j
    OBVIOUS
  <2>1. a + i = a + j /\ i \in Nat /\ j \in Nat
    BY <1>5
  <2>. QED BY <1>3, <2>1
<1>8. \A i \in DOMAIN e : w[f[i]] = [addr |-> e[i], group |-> m - 1]
  BY <1>3, <1>4
<1>9. ASSUME NEW k \in DOMAIN w, w[k].group = m - 1 PROVE \E i \in DOMAIN e : f[i] = k
  <2>1. ~(k \in DOMAIN z)
    BY <1>3, <1>9
  <2>2. PICK j \in DOMAIN y : k = a + j
    BY <1>3, <2>1
  <2>. QED BY <1>4, <2>2
<1> HIDE DEF f
<1>10. Collected(w, e, m)
  BY <1>6, <1>7, <1>8, <1>9 DEF Collected
<1>. QED BY <1>1, <1>10

\* The signers of entry k.
SignersOfEntry(s, k) == [i \in DOMAIN s[k].signers |-> [addr |-> s[k].signers[i], group |-> k - 1]]

SignersAt(s, f, k) == IF k = 0 THEN <<>> ELSE f[k - 1] \o SignersOfEntry(s, k)

LEMMA SignersUpToExist ==
    ASSUME NEW s, Len(s) \in Nat
    PROVE  SignersUpTo(s) = [k \in 0..Len(s) |-> SignersAt(s, SignersUpTo(s), k)]
<1> DEFINE N == Len(s)
           IsUpTo(f, n) == f = [k \in 0..n |-> SignersAt(s, f, k)]
           S == {n \in 0..N : \E f : IsUpTo(f, n)}
<1>1. N \in Nat
  OBVIOUS
<1>2. SignersUpTo(s) = CHOOSE f : IsUpTo(f, N)
  BY DEF SignersUpTo, SignersAt, SignersOfEntry
<1> HIDE DEF N
<1>3. 0 \in S
  <2> DEFINE f == [k \in 0..0 |-> SignersAt(s, 0, 0)]
  <2>1. \A k \in 0..0 : k = 0
    OBVIOUS
  <2>2. \A h : SignersAt(s, h, 0) = SignersAt(s, 0, 0)
    BY DEF SignersAt
  <2>3. f = [k \in 0..0 |-> SignersAt(s, f, k)]
    BY <2>1, <2>2
  <2> HIDE DEF f
  <2>4. IsUpTo(f, 0)
    BY <2>3
  <2> HIDE DEF IsUpTo
  <2>. QED BY <1>1, <2>4
<1>4. ASSUME NEW n \in 0..N, n \in S, n < N PROVE n + 1 \in S
  <2>1. PICK u : IsUpTo(u, n)
    BY <1>4
  <2> DEFINE v == [k \in 0..(n + 1) |-> IF k = n + 1 THEN SignersAt(s, u, k) ELSE u[k]]
  <2>2. \A k \in 0..(n + 1) : SignersAt(s, v, k) = SignersAt(s, u, k)
    <3> SUFFICES ASSUME NEW k \in 0..(n + 1) PROVE SignersAt(s, v, k) = SignersAt(s, u, k)
      OBVIOUS
    <3>1. CASE k = 0
      BY <3>1 DEF SignersAt
    <3>2. CASE k # 0
      <4>1. k - 1 \in 0..(n + 1) /\ k - 1 # n + 1
        BY <1>1, <3>2
      <4>2. v[k - 1] = u[k - 1]
        BY <4>1
      <4> HIDE DEF v
      <4>. QED BY <3>2, <4>2 DEF SignersAt
    <3>. QED BY <3>1, <3>2
  <2>3. \A k \in 0..(n + 1) : k = n + 1 \/ k \in 0..n
    OBVIOUS
  <2>4. \A k \in 0..(n + 1) : v[k] = SignersAt(s, u, k)
    BY <2>1, <2>3
  <2>5. IsUpTo(v, n + 1)
    BY <2>2, <2>4
  <2>6. n + 1 \in 0..N
    BY <1>1, <1>4
  <2> HIDE DEF v, IsUpTo
  <2>. QED BY <2>5, <2>6
<1>5. \A n \in 0..N : n \in S
  <2> HIDE DEF S
  <2>. QED BY <1>1, <1>3, <1>4, UpwardInduction
<1>6. \E f : IsUpTo(f, N)
  BY <1>1, <1>5
<1> HIDE DEF IsUpTo
<1>7. IsUpTo(SignersUpTo(s), N)
  BY <1>2, <1>6
<1>. QED BY <1>7 DEF IsUpTo, N

\* z holds the signers of the first n entries of s, and those only.
Holds(z, s, n) ==
    /\ z \in Seq(SignerEntry)
    /\ \A k \in DOMAIN z : z[k].group < n
    /\ \A m \in 1..n : Collected(z, s[m].signers, m)

LEMMA HoldsNext ==
    ASSUME NEW s \in Seq(Entry), NEW n \in Nat, n < Len(s), NEW z, Holds(z, s, n)
    PROVE  Holds(z \o SignersOfEntry(s, n + 1), s, n + 1)
<1>1. PICK y : y = SignersOfEntry(s, n + 1)
  OBVIOUS
<1>2. PICK e : e = s[n + 1].signers
  OBVIOUS
<1>3. PICK w : w = z \o y
  OBVIOUS
<1>4. n + 1 \in DOMAIN s /\ n + 1 \in Nat
  <2>1. Len(s) \in Nat /\ DOMAIN s = 1..Len(s)
    BY LenProperties
  <2>. QED BY <2>1
<1>5. e \in Seq(Signer)
  <2>1. s[n + 1] \in Entry
    BY <1>4, ElementOfSeq, LenProperties
  <2>. QED BY <1>2, <2>1 DEF Entry
<1>6. y = [i \in DOMAIN e |-> [addr |-> e[i], group |-> (n + 1) - 1]] /\ (n + 1) - 1 = n
  BY <1>1, <1>2 DEF SignersOfEntry
<1>7. y \in Seq(SignerEntry)
  <2>1. PICK l : l = Len(e)
    OBVIOUS
  <2>2. l \in Nat /\ DOMAIN e = 1..l /\ \A i \in 1..l : e[i] \in Signer
    BY <1>5, <2>1, LenProperties, ElementOfSeq
  <2>3. y \in [1..l -> SignerEntry]
    BY <1>6, <2>2 DEF SignerEntry
  <2>. QED BY <2>2, <2>3, IsASeq
<1>8. \A k \in DOMAIN y : y[k].group = n
  BY <1>6
<1>9. z \in Seq(SignerEntry) /\ (\A k \in DOMAIN z : z[k].group < n) /\ \A m \in 1..n : Collected(z, s[m].signers, m)
  BY DEF Holds
<1>10. ASSUME NEW k \in DOMAIN z PROVE z[k].group \in Nat
  <2>1. z \in Seq(SignerEntry)
    BY <1>9
  <2>2. z[k] \in SignerEntry
    BY <2>1, LenProperties, ElementOfSeq
  <2>. QED BY <2>2 DEF SignerEntry
<1>11. w \in Seq(SignerEntry)
  BY <1>3, <1>7, <1>9, ConcatProperties
<1>12. \A k \in DOMAIN w : w[k].group < n + 1
  <2>1. /\ \A k \in DOMAIN z : w[k] = z[k]
        /\ \A k \in DOMAIN y : w[Len(z) + k] = y[k]
        /\ \A k \in DOMAIN w : k \in DOMAIN z \/ \E j \in DOMAIN y : k = Len(z) + j
    BY <1>3, <1>7, <1>9, JoinedSequence
  <2>2. \A k \in DOMAIN z : z[k].group < n + 1
    BY <1>9, <1>10
  <2>3. \A k \in DOMAIN y : y[k].group < n + 1
    BY <1>8
  <2>. QED BY <2>1, <2>2, <2>3
<1>13. ASSUME NEW m \in 1..(n + 1) PROVE Collected(w, s[m].signers, m)
  <2>1. CASE m = n + 1
    <3>1. \A k \in DOMAIN z : z[k].group # m - 1
      BY <1>6, <1>9, <1>10, <2>1
    <3>. QED BY <1>2, <1>3, <1>6, <1>7, <1>9, <2>1, <3>1, NowCollected DEF InGroup
  <2>2. CASE m # n + 1
    <3>1. m \in 1..n /\ m - 1 # n
      BY <2>2
    <3>2. \A k \in DOMAIN y : y[k].group # m - 1
      BY <1>8, <3>1
    <3>. QED BY <1>3, <1>7, <1>9, <3>1, <3>2, StillCollected
  <2>. QED BY <2>1, <2>2
<1>14. Holds(w, s, n + 1)
  BY <1>11, <1>12, <1>13 DEF Holds
<1>. QED BY <1>1, <1>3, <1>14

LEMMA SignersHeld ==
    ASSUME NEW s \in Seq(Entry)
    PROVE  Holds(SignersOf(s), s, Len(s))
<1> DEFINE N == Len(s)
           a == SignersUpTo(s)
           S == {k \in 0..N : Holds(a[k], s, k)}
<1>1. N \in Nat
  BY LenProperties
<1>2. \A k \in 0..N : a[k] = SignersAt(s, a, k)
  <2>1. a = [k \in 0..N |-> SignersAt(s, a, k)]
    BY <1>1, SignersUpToExist
  <2> HIDE DEF a, N
  <2>. QED BY <2>1
<1>3. \A k \in 0..N : k < N => k < Len(s)
  OBVIOUS
<1> HIDE DEF a, N
<1>4. 0 \in S
  <2>1. 0 \in 0..N
    BY <1>1
  <2>2. a[0] = <<>>
    BY <1>2, <2>1 DEF SignersAt
  <2>3. Holds(<<>>, s, 0)
    <3>1. <<>> \in Seq(SignerEntry) /\ DOMAIN <<>> = {}
      BY EmptySeq
    <3>2. ~\E m \in 1..0 : TRUE
      OBVIOUS
    <3>. QED BY <3>1, <3>2 DEF Holds
  <2>. QED BY <2>1, <2>2, <2>3
<1>5. ASSUME NEW n \in 0..N, n \in S, n < N PROVE n + 1 \in S
  <2>1. n + 1 \in 0..N /\ n + 1 # 0 /\ (n + 1) - 1 = n /\ n \in Nat /\ n < Len(s)
    BY <1>1, <1>3, <1>5
  <2>2. a[n + 1] = a[n] \o SignersOfEntry(s, n + 1)
    BY <1>2, <2>1 DEF SignersAt
  <2>3. Holds(a[n], s, n)
    BY <1>5
  <2>4. Holds(a[n] \o SignersOfEntry(s, n + 1), s, n + 1)
    BY <2>1, <2>3, HoldsNext
  <2>. QED BY <2>1, <2>2, <2>4
<1>6. \A n \in 0..N : n \in S
  <2> HIDE DEF S
  <2>. QED BY <1>1, <1>4, <1>5, UpwardInduction
<1>7. N \in 0..N
  BY <1>1
<1>. QED BY <1>6, <1>7 DEF a, N, SignersOf

-----------------------------------------------------------------------------
(* Sorting keeps every signer *)

Precedes(z, j, i) == z[j].addr < z[i].addr \/ (z[j].addr = z[i].addr /\ j <= i)
NotAfter(z, i) == {j \in DOMAIN z : Precedes(z, j, i)}
Position(z, i) == Cardinality(NotAfter(z, i))

LEMMA PositionType ==
    ASSUME NEW z \in Seq(SignerEntry)
    PROVE  /\ Len(z) \in Nat /\ DOMAIN z = 1..Len(z)
           /\ \A i \in DOMAIN z : /\ i \in Nat /\ z[i].addr \in Nat
                                  /\ IsFiniteSet(NotAfter(z, i)) /\ Position(z, i) \in 1..Len(z)
<1>1. PICK n : n = Len(z)
  OBVIOUS
<1>2. n \in Nat /\ DOMAIN z = 1..n
  BY <1>1, LenProperties
<1>3. IsFiniteSet(1..n) /\ Cardinality(1..n) = n
  BY <1>2, IntervalCardinality
<1>4. ASSUME NEW i \in 1..n
      PROVE  i \in Nat /\ z[i].addr \in Nat /\ IsFiniteSet(NotAfter(z, i)) /\ Position(z, i) \in 1..n
  <2>1. z[i] \in SignerEntry
    BY <1>1, <1>4, ElementOfSeq
  <2>2. z[i].addr \in Nat /\ i \in Nat
    <3>1. z[i].addr \in Signer
      BY <2>1 DEF SignerEntry
    <3>2. Signer \subseteq Nat
      BY QuorumAssumption
    <3>3. i \in Nat
      BY <1>2
    <3>4. z[i].addr \in Nat
      BY <3>1, <3>2
    <3>. QED BY <3>3, <3>4
  <2>3. NotAfter(z, i) \in SUBSET (1..n)
    BY <1>2 DEF NotAfter
  <2>4. i \in NotAfter(z, i)
    BY <1>2, <2>2 DEF NotAfter, Precedes
  <2>5. IsFiniteSet(NotAfter(z, i)) /\ Cardinality(NotAfter(z, i)) <= n
    BY <1>3, <2>3, FS_Subset
  <2>6. Cardinality(NotAfter(z, i)) \in Nat /\ Cardinality(NotAfter(z, i)) # 0
    BY <2>4, <2>5, FS_CardinalityType, FS_EmptySet
  <2>7. Position(z, i) \in 1..n
    BY <1>2, <2>5, <2>6 DEF Position
  <2>. QED BY <2>2, <2>5, <2>7
<1>. QED BY <1>1, <1>2, <1>4

LEMMA PositionGrows ==
    ASSUME NEW z \in Seq(SignerEntry), NEW i \in DOMAIN z, NEW j \in DOMAIN z, i # j, Precedes(z, i, j)
    PROVE  Position(z, i) # Position(z, j)
<1>1. \A k \in DOMAIN z : k \in Nat /\ z[k].addr \in Nat
  BY PositionType
<1>2. ~Precedes(z, j, i)
  BY <1>1 DEF Precedes
<1>3. Precedes(z, j, j)
  BY <1>1 DEF Precedes
<1>4. ASSUME NEW k \in DOMAIN z, Precedes(z, k, i) PROVE Precedes(z, k, j)
  BY <1>1, <1>4 DEF Precedes
<1>5. NotAfter(z, i) \in SUBSET NotAfter(z, j) /\ NotAfter(z, i) # NotAfter(z, j)
  BY <1>2, <1>3, <1>4 DEF NotAfter
<1>6. IsFiniteSet(NotAfter(z, j))
  BY PositionType
<1>. QED BY <1>5, <1>6, FS_Subset DEF Position

LEMMA PositionsDiffer ==
    ASSUME NEW z \in Seq(SignerEntry), NEW i \in DOMAIN z, NEW j \in DOMAIN z, Position(z, i) = Position(z, j)
    PROVE  i = j
<1>1. i \in Nat /\ z[i].addr \in Nat /\ j \in Nat /\ z[j].addr \in Nat
  BY PositionType
<1>2. Precedes(z, i, j) \/ Precedes(z, j, i)
  BY <1>1 DEF Precedes
<1>. QED BY <1>2, PositionGrows

\* p says which entry of z each place of the sorted array has.
LEMMA SortedIsPermutation ==
    ASSUME NEW z \in Seq(SignerEntry)
    PROVE  /\ DOMAIN SortedByAddress(z) = DOMAIN z
           /\ \E p \in [DOMAIN z -> DOMAIN z] :
                /\ \A k \in DOMAIN z : SortedByAddress(z)[k] = z[p[k]]
                /\ \A k, l \in DOMAIN z : p[k] = p[l] => k = l
                /\ \A i \in DOMAIN z : \E k \in DOMAIN z : p[k] = i
<1>1. PICK D : D = DOMAIN z
  OBVIOUS
<1>2. PICK w : w = SortedByAddress(z)
  OBVIOUS
<1>3. /\ IsFiniteSet(D)
      /\ \A i \in D : Position(z, i) \in D
  <2>1. Len(z) \in Nat /\ D = 1..Len(z)
    BY <1>1, PositionType
  <2>2. IsFiniteSet(D)
    BY <2>1, IntervalCardinality
  <2>3. \A i \in D : Position(z, i) \in 1..Len(z)
    BY <1>1, PositionType
  <2>. QED BY <2>1, <2>2, <2>3
<1>4. w = [k \in D |-> z[CHOOSE i \in D : Position(z, i) = k]]
  BY <1>1, <1>2 DEF SortedByAddress, Position, NotAfter, Precedes
<1> DEFINE pos == [i \in D |-> Position(z, i)]
<1>5. pos \in Injection(D, D)
  <2>1. pos \in [D -> D]
    BY <1>3
  <2>2. \A i, j \in D : pos[i] = pos[j] => i = j
    BY <1>1, PositionsDiffer
  <2> HIDE DEF pos
  <2>. QED BY <2>1, <2>2, Fun_IsInj
<1>6. pos \in Surjection(D, D)
  <2> HIDE DEF pos
  <2>. QED BY <1>3, <1>5, FS_Injection
<1>7. \A k \in D : \E i \in D : Position(z, i) = k
  <2>1. \A k \in D : \E i \in D : pos[i] = k
    <3> HIDE DEF pos
    <3>. QED BY <1>6 DEF Surjection
  <2>. QED BY <2>1
<1> DEFINE p == [k \in D |-> CHOOSE i \in D : Position(z, i) = k]
<1>8. \A k \in D : p[k] \in D /\ Position(z, p[k]) = k
  BY <1>7
<1>9. \A k \in D : w[k] = z[p[k]]
  BY <1>4
<1>10. p \in [D -> D]
  BY <1>8
<1> HIDE DEF p, pos
<1>11. \A k, l \in D : p[k] = p[l] => k = l
  BY <1>8
<1>12. ASSUME NEW i \in D PROVE \E k \in D : p[k] = i
  <2>1. Position(z, i) \in D
    BY <1>3
  <2>2. p[Position(z, i)] \in D /\ Position(z, p[Position(z, i)]) = Position(z, i)
    BY <1>8, <2>1
  <2>3. p[Position(z, i)] = i
    BY <1>1, <2>2, PositionsDiffer
  <2>. QED BY <2>1, <2>3
<1>13. DOMAIN w = D
  BY <1>4
<1>14. \E r \in [D -> D] : /\ \A k \in D : w[k] = z[r[k]]
                           /\ \A k, l \in D : r[k] = r[l] => k = l
                           /\ \A i \in D : \E k \in D : r[k] = i
  BY <1>9, <1>10, <1>11, <1>12
<1>. QED BY <1>1, <1>2, <1>13, <1>14

LEMMA SortedHolds ==
    ASSUME NEW z, NEW s, NEW n, Holds(z, s, n)
    PROVE  /\ \A k \in DOMAIN SortedByAddress(z) : SortedByAddress(z)[k].group < n
           /\ \A m \in 1..n : Collected(SortedByAddress(z), s[m].signers, m)
<1>1. PICK w : w = SortedByAddress(z)
  OBVIOUS
<1>2. /\ z \in Seq(SignerEntry) /\ \A k \in DOMAIN z : z[k].group < n
      /\ \A m \in 1..n : Collected(z, s[m].signers, m)
  BY DEF Holds
<1>3. DOMAIN w = DOMAIN z
  BY <1>1, <1>2, SortedIsPermutation
<1>4. PICK p \in [DOMAIN z -> DOMAIN z] :
        /\ \A k \in DOMAIN z : w[k] = z[p[k]]
        /\ \A k, l \in DOMAIN z : p[k] = p[l] => k = l
        /\ \A i \in DOMAIN z : \E k \in DOMAIN z : p[k] = i
  BY <1>1, <1>2, SortedIsPermutation
<1>5. \A k \in DOMAIN w : w[k].group < n
  BY <1>2, <1>3, <1>4
<1>6. ASSUME NEW m \in 1..n PROVE Collected(w, s[m].signers, m)
  <2>1. PICK e : e = s[m].signers
    OBVIOUS
  <2>2. Collected(z, e, m)
    BY <1>2, <2>1
  <2>3. PICK f \in [DOMAIN e -> DOMAIN z] :
          /\ \A i, j \in DOMAIN e : f[i] = f[j] => i = j
          /\ \A i \in DOMAIN e : z[f[i]] = [addr |-> e[i], group |-> m - 1]
          /\ \A k \in DOMAIN z : z[k].group = m - 1 => \E i \in DOMAIN e : f[i] = k
    BY <2>2 DEF Collected
  <2> DEFINE g == [i \in DOMAIN e |-> CHOOSE k \in DOMAIN z : p[k] = f[i]]
  <2>4. \A i \in DOMAIN e : g[i] \in DOMAIN z /\ p[g[i]] = f[i]
    BY <1>4, <2>3
  <2>5. g \in [DOMAIN e -> DOMAIN w]
    BY <1>3, <2>4
  <2> HIDE DEF g
  <2>6. \A i, j \in DOMAIN e : g[i] = g[j] => i = j
    BY <2>3, <2>4
  <2>7. \A i \in DOMAIN e : w[g[i]] = [addr |-> e[i], group |-> m - 1]
    <3> SUFFICES ASSUME NEW i \in DOMAIN e PROVE w[g[i]] = [addr |-> e[i], group |-> m - 1]
      OBVIOUS
    <3>1. w[g[i]] = z[p[g[i]]]
      BY <1>4, <2>4
    <3>2. z[f[i]] = [addr |-> e[i], group |-> m - 1]
      BY <2>3
    <3>. QED BY <2>4, <3>1, <3>2
  <2>8. ASSUME NEW k \in DOMAIN w, w[k].group = m - 1 PROVE \E i \in DOMAIN e : g[i] = k
    <3>1. k \in DOMAIN z /\ p[k] \in DOMAIN z /\ z[p[k]].group = m - 1
      BY <1>3, <1>4, <2>8
    <3>2. PICK i \in DOMAIN e : f[i] = p[k]
      BY <2>3, <3>1
    <3>3. g[i] = k
      BY <1>4, <2>4, <3>1, <3>2
    <3>. QED BY <3>3
  <2>9. Collected(w, e, m)
    BY <2>5, <2>6, <2>7, <2>8 DEF Collected
  <2>. QED BY <2>1, <2>9
<1>. QED BY <1>1, <1>5, <1>6

-----------------------------------------------------------------------------
(* What a contract keeps of a configuration *)

\* Group m of the contract, for m up to n, is group t[m] of cfg, and the place of the
\* group above that group m has in cfg is q[m].
Stored(cfg, cc, n, t, q) ==
    /\ n \in 1..NumGroups
    /\ t \in [1..n -> Groups(cfg)] /\ t[1] = cfg
    /\ Groups(cfg) = {t[m] : m \in 1..n}
    /\ \A m \in 1..NumGroups : Enabled(cc, m) <=> m \in 1..n
    /\ \A k \in DOMAIN cc.signers : cc.signers[k].group < n
    /\ \A m \in 1..n :
         /\ cc.groupQuorums[m] = t[m].quorum
         /\ Collected(cc.signers, t[m].signers, m)
         /\ \A x \in ChildSet(cc, m) : q[x] \in DOMAIN t[m].groupSigners /\ t[x] = t[m].groupSigners[q[x]]
         /\ \A x, y \in ChildSet(cc, m) : q[x] = q[y] => x = y
         /\ \A k \in DOMAIN t[m].groupSigners : \E x \in ChildSet(cc, m) : q[x] = k

\* The last group has signers, for no group is below it.
LEMMA LastEntryHasSigners ==
    ASSUME NEW cfg \in Config, ValidateConfig(cfg), NEW s, NEW n, NEW t, NEW q, Represents(cfg, s, n, t, q)
    PROVE  DOMAIN s[n].signers # {} /\ DOMAIN s[n].signers = DOMAIN t[n].signers
<1>1. n \in Nat /\ n >= 1 /\ t \in [1..n -> Groups(cfg)] /\ n \in 1..n
  BY DEF Represents
<1>2. t[n] \in Groups(cfg) /\ s[n].signers = t[n].signers
  BY <1>1 DEF Represents, StandFor
<1>3. t[n].quorum \in Nat /\ t[n].signers \in Seq(Signer) /\ t[n].groupSigners \in Seq(Groups(cfg))
  BY <1>2, Layers
<1>4. t[n].quorum > 0 /\ Len(t[n].signers) + Len(t[n].groupSigners) >= t[n].quorum
  BY <1>2 DEF ValidateConfig
<1>5. ASSUME NEW k \in DOMAIN t[n].groupSigners PROVE FALSE
  <2>1. PICK x \in 2..n : s[x].parent = n - 1
    BY <1>1, <1>5 DEF Represents
  <2>2. s[x].parent \in 0..(x - 2)
    BY DEF Represents
  <2>. QED BY <1>1, <2>1, <2>2
<1>6. Len(t[n].groupSigners) = 0
  <2>1. PICK l : l = Len(t[n].groupSigners)
    OBVIOUS
  <2>2. l \in Nat /\ DOMAIN t[n].groupSigners = 1..l
    BY <1>3, <2>1, LenProperties
  <2>3. ~(1 \in 1..l)
    BY <1>5, <2>2
  <2>4. l = 0
    BY <2>2, <2>3
  <2>. QED BY <2>1, <2>4
<1>7. DOMAIN t[n].signers # {}
  <2>1. PICK l : l = Len(t[n].signers)
    OBVIOUS
  <2>2. l \in Nat /\ DOMAIN t[n].signers = 1..l
    BY <1>3, <2>1, LenProperties
  <2>3. l > 0
    BY <1>3, <1>4, <1>6, <2>1, <2>2
  <2>4. 1 \in 1..l
    BY <2>2, <2>3
  <2>. QED BY <2>2, <2>4
<1>. QED BY <1>2, <1>7

LEMMA ConfigIsStored ==
    ASSUME NEW cfg \in Config, ValidateConfig(cfg), NEW cc, cc = ExtractSetConfigInputs(cfg), Accepted(cc)
    PROVE  \E n, t, q : Stored(cfg, cc, n, t, q)
<1>1. PICK s : s = extractGroupsAndSigners(cfg)
  OBVIOUS
<1>2. PICK n, t, q : Represents(cfg, s, n, t, q)
  BY <1>1, ConfigIsRepresented
<1>3. /\ s \in Seq(Entry) /\ n = Len(s) /\ n \in Nat /\ n >= 1
      /\ t \in [1..n -> Groups(cfg)] /\ t[1] = cfg /\ StandFor(s, n, t)
  BY <1>2 DEF Represents
<1>4. /\ cc.groupQuorums = [i \in 1..NumGroups |-> IF i <= n THEN s[i].quorum ELSE 0]
      /\ cc.groupParents = [i \in 1..NumGroups |-> IF i <= n THEN s[i].parent ELSE 0]
      /\ cc.signers = SortedByAddress(SignersOf(s))
  BY <1>1, <1>3 DEF ExtractSetConfigInputs
<1>5. NumGroups \in Nat
  BY QuorumAssumption
<1>6. /\ \A k \in DOMAIN cc.signers : cc.signers[k].group < n
      /\ \A m \in 1..n : Collected(cc.signers, s[m].signers, m)
  <2>1. Holds(SignersOf(s), s, n)
    BY <1>3, SignersHeld
  <2>. QED BY <1>4, <2>1, SortedHolds
<1>7. \A m \in 1..n : s[m].quorum = t[m].quorum /\ s[m].signers = t[m].signers
  BY <1>3 DEF StandFor
<1>8. n \in 1..NumGroups
  <2>1. n \in 1..n
    BY <1>3
  <2>2. Collected(cc.signers, s[n].signers, n)
    BY <1>6, <2>1
  <2>3. PICK i : i \in DOMAIN s[n].signers
    BY <1>2, LastEntryHasSigners
  <2>4. PICK f \in [DOMAIN s[n].signers -> DOMAIN cc.signers] :
          \A j \in DOMAIN s[n].signers : cc.signers[f[j]] = [addr |-> s[n].signers[j], group |-> n - 1]
    BY <2>2 DEF Collected
  <2>5. f[i] \in DOMAIN cc.signers /\ cc.signers[f[i]].group = n - 1
    <3>1. f[i] \in DOMAIN cc.signers
      BY <2>3, <2>4
    <3>2. cc.signers[f[i]] = [addr |-> s[n].signers[i], group |-> n - 1]
      BY <2>3, <2>4
    <3>. QED BY <3>1, <3>2
  <2>6. \A k \in DOMAIN cc.signers : cc.signers[k].group < NumGroups
    BY DEF Accepted, setConfigAccepted
  <2>7. n - 1 < NumGroups
    BY <2>5, <2>6
  <2>. QED BY <1>3, <1>5, <2>7
<1>9. ASSUME NEW m \in 1..n
      PROVE  /\ m \in 1..NumGroups /\ cc.groupQuorums[m] = t[m].quorum /\ cc.groupQuorums[m] > 0
             /\ cc.groupParents[m] = s[m].parent
  <2>1. m \in 1..NumGroups /\ m <= n
    BY <1>3, <1>5, <1>8
  <2>2. cc.groupQuorums[m] = s[m].quorum /\ cc.groupParents[m] = s[m].parent
    BY <1>4, <2>1
  <2>3. t[m] \in Groups(cfg)
    BY <1>3
  <2>4. t[m].quorum > 0
    BY <2>3 DEF ValidateConfig
  <2>. QED BY <1>7, <2>1, <2>2, <2>4
<1>10. ASSUME NEW m \in 1..NumGroups, ~(m \in 1..n) PROVE cc.groupQuorums[m] = 0
  <2>1. ~(m <= n)
    BY <1>3, <1>5, <1>10
  <2>. QED BY <1>4, <2>1
<1>11. \A m \in 1..NumGroups : Enabled(cc, m) <=> m \in 1..n
  <2> SUFFICES ASSUME NEW m \in 1..NumGroups PROVE Enabled(cc, m) <=> m \in 1..n
    OBVIOUS
  <2>1. m \in 1..n => cc.groupQuorums[m] > 0
    BY <1>9
  <2>2. ~(m \in 1..n) => ~(cc.groupQuorums[m] > 0)
    BY <1>10
  <2>. QED BY <2>1, <2>2 DEF Enabled
<1>12. ASSUME NEW m \in 1..n PROVE ChildSet(cc, m) = {x \in 2..n : s[x].parent = m - 1}
  <2>1. ASSUME NEW x \in ChildSet(cc, m) PROVE x \in 2..n /\ s[x].parent = m - 1
    <3>1. x \in 2..NumGroups /\ cc.groupQuorums[x] > 0 /\ cc.groupParents[x] = m - 1
      BY <2>1 DEF ChildSet
    <3>2. x \in 1..NumGroups
      BY <3>1
    <3>3. Enabled(cc, x)
      BY <3>1, <3>2 DEF Enabled
    <3>4. x \in 1..n
      BY <1>11, <3>2, <3>3
    <3>5. cc.groupParents[x] = s[x].parent
      BY <1>9, <3>4
    <3>6. x \in 2..n
      BY <3>1, <3>4
    <3>. QED BY <3>1, <3>5, <3>6
  <2>2. ASSUME NEW x \in 2..n, s[x].parent = m - 1 PROVE x \in ChildSet(cc, m)
    <3>1. x \in 1..n
      BY <1>3
    <3>2. x \in 1..NumGroups /\ cc.groupQuorums[x] > 0 /\ cc.groupParents[x] = s[x].parent
      BY <1>9, <3>1
    <3>3. x \in 2..NumGroups
      BY <3>2
    <3>. QED BY <2>2, <3>2, <3>3 DEF ChildSet
  <2>. QED BY <2>1, <2>2
<1>13. ASSUME NEW m \in 1..n, NEW x \in ChildSet(cc, m)
       PROVE  x \in 2..n /\ s[x].parent = m - 1 /\ q[x] \in DOMAIN t[m].groupSigners /\ t[x] = t[m].groupSigners[q[x]]
  <2>1. x \in 2..n /\ s[x].parent = m - 1
    BY <1>12, <1>13
  <2>2. q[x] \in DOMAIN t[(m - 1) + 1].groupSigners /\ t[x] = t[(m - 1) + 1].groupSigners[q[x]]
    BY <1>2, <2>1 DEF Represents
  <2>3. (m - 1) + 1 = m
    BY <1>3
  <2>. QED BY <2>1, <2>2, <2>3
<1>14. ASSUME NEW m \in 1..n, NEW x \in ChildSet(cc, m), NEW y \in ChildSet(cc, m), q[x] = q[y] PROVE x = y
  <2>1. x \in 2..n /\ y \in 2..n /\ s[x].parent = m - 1 /\ s[y].parent = m - 1
    BY <1>13
  <2>2. PlacedOnce(s, n, q)
    BY <1>2 DEF Represents
  <2>. QED BY <1>14, <2>1, <2>2 DEF PlacedOnce
<1>15. ASSUME NEW m \in 1..n, NEW k \in DOMAIN t[m].groupSigners PROVE \E x \in ChildSet(cc, m) : q[x] = k
  <2>1. PICK x \in 2..n : s[x].parent = m - 1 /\ q[x] = k
    BY <1>2, <1>15 DEF Represents
  <2>2. x \in ChildSet(cc, m)
    BY <1>12, <2>1
  <2>. QED BY <2>1, <2>2
<1>16. Groups(cfg) = {t[m] : m \in 1..n}
  BY <1>2, EveryGroupHasEntry
<1>17. \A m \in 1..n : Collected(cc.signers, t[m].signers, m)
  BY <1>6, <1>7
<1>18. Stored(cfg, cc, n, t, q)
  <2>1. \A m \in 1..n :
         /\ cc.groupQuorums[m] = t[m].quorum
         /\ Collected(cc.signers, t[m].signers, m)
         /\ \A x \in ChildSet(cc, m) : q[x] \in DOMAIN t[m].groupSigners /\ t[x] = t[m].groupSigners[q[x]]
         /\ \A x, y \in ChildSet(cc, m) : q[x] = q[y] => x = y
         /\ \A k \in DOMAIN t[m].groupSigners : \E x \in ChildSet(cc, m) : q[x] = k
    BY <1>9, <1>13, <1>14, <1>15, <1>17
  <2>2. \A k \in DOMAIN cc.signers : cc.signers[k].group < n
    BY <1>6
  <2>. QED BY <1>3, <1>8, <1>11, <1>16, <2>1, <2>2 DEF Stored
<1>. QED BY <1>18

LEMMA StoredVotes ==
    ASSUME NEW cfg \in Config, NEW cc, Accepted(cc), NEW n, NEW t, NEW q, Stored(cfg, cc, n, t, q),
           NEW m \in 1..n, NEW addrs
    PROVE  TreeVotes(t[m], addrs) = ContractVotes(cc, m, addrs)
<1>1. PICK e : e = t[m].signers
  OBVIOUS
<1>2. PICK z : z = cc.signers
  OBVIOUS
<1>3. IsFiniteSet(DOMAIN e)
  <2>1. t[m] \in Groups(cfg)
    BY DEF Stored
  <2>2. e \in Seq(Signer)
    BY <1>1, <2>1, Layers
  <2>3. Len(e) \in Nat /\ DOMAIN e = 1..Len(e)
    BY <2>2, LenProperties
  <2>. QED BY <2>3, IntervalCardinality
<1>4. Collected(z, e, m)
  BY <1>1, <1>2 DEF Stored
<1>5. PICK f \in [DOMAIN e -> DOMAIN z] :
        /\ \A i, j \in DOMAIN e : f[i] = f[j] => i = j
        /\ \A i \in DOMAIN e : z[f[i]] = [addr |-> e[i], group |-> m - 1]
        /\ \A k \in DOMAIN z : z[k].group = m - 1 => \E i \in DOMAIN e : f[i] = k
  BY <1>4 DEF Collected
<1>6. ASSUME NEW i \in DOMAIN e PROVE z[f[i]].addr = e[i] /\ z[f[i]].group = m - 1
  <2>1. z[f[i]] = [addr |-> e[i], group |-> m - 1]
    BY <1>5
  <2>. QED BY <2>1
<1> DEFINE A == {i \in DOMAIN e : e[i] \in addrs}
           B == {k \in DOMAIN z : z[k].group = m - 1 /\ z[k].addr \in addrs}
           g == [i \in A |-> f[i]]
<1>7. IsFiniteSet(A)
  BY <1>3, FS_Subset
<1>8. g \in [A -> B]
  BY <1>5, <1>6
<1>9. \A i, j \in A : g[i] = g[j] => i = j
  BY <1>5
<1>10. \A k \in B : \E i \in A : g[i] = k
  <2> SUFFICES ASSUME NEW k \in B PROVE \E i \in A : g[i] = k
    OBVIOUS
  <2>1. PICK i \in DOMAIN e : f[i] = k
    BY <1>5
  <2>2. i \in A
    BY <1>6, <2>1
  <2>. QED BY <2>1, <2>2
<1> HIDE DEF A, B, g
<1>11. Cardinality(A) = Cardinality(B)
  BY <1>7, <1>8, <1>9, <1>10, SameNumber
<1>. QED BY <1>1, <1>2, <1>11 DEF A, B, TreeVotes, ContractVotes

LEMMA StoredSigners ==
    ASSUME NEW cfg \in Config, NEW cc, Accepted(cc), NEW n, NEW t, NEW q, Stored(cfg, cc, n, t, q)
    PROVE  GetAllSigners(cfg) = {cc.signers[k].addr : k \in DOMAIN cc.signers}
<1>1. /\ Groups(cfg) = {t[m] : m \in 1..n}
      /\ n \in 1..NumGroups
      /\ \A m \in 1..n : Collected(cc.signers, t[m].signers, m)
      /\ \A k \in DOMAIN cc.signers : cc.signers[k].group < n
  BY DEF Stored
<1>2. ASSUME NEW x \in GetAllSigners(cfg) PROVE \E k \in DOMAIN cc.signers : x = cc.signers[k].addr
  <2>1. PICK m \in 1..n : x \in Elements(t[m].signers)
    BY <1>1 DEF GetAllSigners
  <2>2. PICK i \in DOMAIN t[m].signers : x = t[m].signers[i]
    BY <2>1 DEF Elements
  <2>3. PICK f \in [DOMAIN t[m].signers -> DOMAIN cc.signers] :
          \A j \in DOMAIN t[m].signers : cc.signers[f[j]] = [addr |-> t[m].signers[j], group |-> m - 1]
    BY <1>1 DEF Collected
  <2>4. f[i] \in DOMAIN cc.signers /\ cc.signers[f[i]] = [addr |-> x, group |-> m - 1]
    BY <2>2, <2>3
  <2>5. cc.signers[f[i]].addr = x
    BY <2>4
  <2>. QED BY <2>4, <2>5
<1>3. ASSUME NEW k \in DOMAIN cc.signers PROVE cc.signers[k].addr \in GetAllSigners(cfg)
  <2>1. PICK m : m = cc.signers[k].group + 1
    OBVIOUS
  <2>2. cc.signers[k].group \in Nat /\ cc.signers[k].group < n /\ NumGroups \in Nat
    BY <1>1, ChainConfigType DEF Accepted
  <2>3. m \in 1..n /\ m - 1 = cc.signers[k].group
    BY <1>1, <2>1, <2>2
  <2>4. Collected(cc.signers, t[m].signers, m)
    BY <1>1, <2>3
  <2>5. PICK f \in [DOMAIN t[m].signers -> DOMAIN cc.signers] :
          /\ \A j \in DOMAIN t[m].signers : cc.signers[f[j]] = [addr |-> t[m].signers[j], group |-> m - 1]
          /\ \A l \in DOMAIN cc.signers : cc.signers[l].group = m - 1 => \E i \in DOMAIN t[m].signers : f[i] = l
    BY <2>4 DEF Collected
  <2>6. PICK i \in DOMAIN t[m].signers : f[i] = k
    BY <2>3, <2>5
  <2>7. cc.signers[k] = [addr |-> t[m].signers[i], group |-> m - 1]
    BY <2>5, <2>6
  <2>8. cc.signers[k].addr = t[m].signers[i]
    BY <2>7
  <2>9. cc.signers[k].addr \in Elements(t[m].signers) /\ t[m] \in Groups(cfg)
    BY <1>1, <2>3, <2>8 DEF Elements
  <2>. QED BY <2>9 DEF GetAllSigners
<1>. QED BY <1>2, <1>3

\* If f says of the groups below group m what a says of the contract's, it is at
\* consensus when they reach its quorum.
LEMMA StoredStep ==
    ASSUME NEW cfg \in Config, NEW cc, Accepted(cc), NEW n, NEW t, NEW q, Stored(cfg, cc, n, t, q),
           NEW m \in 1..n, NEW addrs, NEW f, NEW a, \A x \in ChildSet(cc, m) : f[t[x]] = a[x]
    PROVE  AtConsensus(addrs, f, t[m]) = Reaches(cc, addrs, a, m)
<1>1. PICK g : g = t[m].groupSigners
  OBVIOUS
<1>2. m \in 1..NumGroups /\ Enabled(cc, m) /\ cc.groupQuorums[m] = t[m].quorum
  <2>1. n \in 1..NumGroups /\ NumGroups \in Nat
    BY QuorumAssumption DEF Stored
  <2>2. m \in 1..NumGroups
    BY <2>1
  <2>. QED BY <2>2 DEF Stored
<1>3. PICK C : C = ChildSet(cc, m)
  OBVIOUS
<1>4. /\ \A x \in C : q[x] \in DOMAIN g /\ t[x] = g[q[x]]
      /\ \A x, y \in C : q[x] = q[y] => x = y
      /\ \A k \in DOMAIN g : \E x \in C : q[x] = k
  BY <1>1, <1>3 DEF Stored
<1>5. PICK ch : ch = ChildrenOf(cc, m)
  OBVIOUS
<1>6. Lists(ch, C) /\ IsFiniteSet(C)
  BY <1>2, <1>3, <1>5, ChildrenListed DEF Accepted
<1> DEFINE Q == {x \in C : a[x]}
           X == {k \in DOMAIN g : f[g[k]]}
           Y == {k \in DOMAIN ch : a[ch[k]]}
           h == [x \in Q |-> q[x]]
<1>7. Y = {k \in DOMAIN ch : ch[k] \in Q}
  <2>1. \A k \in DOMAIN ch : ch[k] \in C
    BY <1>6 DEF Lists
  <2>. QED BY <2>1
<1>8. Q \subseteq C
  OBVIOUS
<1>9. \A x \in C : f[g[q[x]]] = a[x]
  BY <1>3, <1>4
<1>10. h \in [Q -> X]
  BY <1>4, <1>9
<1>11. \A x, y \in Q : h[x] = h[y] => x = y
  BY <1>4
<1>12. \A k \in X : \E x \in Q : h[x] = k
  <2> SUFFICES ASSUME NEW k \in X PROVE \E x \in Q : h[x] = k
    OBVIOUS
  <2>1. PICK x \in C : q[x] = k
    BY <1>4
  <2>2. x \in Q
    BY <1>9, <2>1
  <2>. QED BY <2>1, <2>2
<1> HIDE DEF Q, X, h
<1>13. IsFiniteSet(Q) /\ Cardinality({k \in DOMAIN ch : ch[k] \in Q}) = Cardinality(Q)
  BY <1>6, <1>8, PlacesOfSubset
<1>14. Cardinality(Q) = Cardinality(X)
  BY <1>10, <1>11, <1>12, <1>13, SameNumber
<1>15. Cardinality(X) = Cardinality(Y)
  BY <1>7, <1>13, <1>14
<1>16. TreeVotes(t[m], addrs) = ContractVotes(cc, m, addrs)
  BY StoredVotes
<1> DEFINE votes == ContractVotes(cc, m, addrs) + Cardinality(Y)
<1>17. AtConsensus(addrs, f, t[m]) <=> votes >= cc.groupQuorums[m]
  BY <1>1, <1>2, <1>15, <1>16 DEF AtConsensus, TreeVotes, X
<1>18. Reaches(cc, addrs, a, m) <=> votes >= cc.groupQuorums[m]
  BY <1>2, <1>5 DEF Reaches, Enabled, ContractVotes
<1>19. AtConsensus(addrs, f, t[m]) \in BOOLEAN /\ Reaches(cc, addrs, a, m) \in BOOLEAN
  BY DEF AtConsensus, Reaches
<1> HIDE DEF votes
<1>. QED BY <1>17, <1>18, <1>19

\* isGroupAtConsensus is the equation it is defined by.
LEMMA ConsensusExists ==
    ASSUME NEW cfg \in Config, NEW addrs
    PROVE  Consensus(cfg, addrs) = [g \in Groups(cfg) |-> AtConsensus(addrs, Consensus(cfg, addrs), g)]
<1> DEFINE G(n) == Layer(cfg, n)
           F(f, g) == AtConsensus(addrs, f, g)
           IsConsensus(f, D) == f = [g \in D |-> F(f, g)]
           S == {n \in 0..MaxDepth : \E f : IsConsensus(f, G(n))}
<1>1. MaxDepth \in Nat
  BY QuorumAssumption
<1>2. ASSUME NEW f, NEW h, NEW g \in Groups(cfg),
             \A k \in DOMAIN g.groupSigners : f[g.groupSigners[k]] = h[g.groupSigners[k]]
      PROVE  F(f, g) = F(h, g)
  <2>1. {i \in DOMAIN g.groupSigners : f[g.groupSigners[i]]} = {i \in DOMAIN g.groupSigners : h[g.groupSigners[i]]}
    BY <1>2
  <2>. QED BY <2>1 DEF AtConsensus
<1>3. Consensus(cfg, addrs) = CHOOSE f : IsConsensus(f, Groups(cfg))
  BY DEF Consensus, AtConsensus
<1> HIDE DEF F
<1>4. \A n \in 0..MaxDepth : G(n) \subseteq Groups(cfg)
  BY DEF Layer
<1>5. 0 \in S
  <2> DEFINE f == [g \in G(0) |-> F(0, g)]
  <2>1. \A g \in G(0) : F(f, g) = F(0, g)
    <3> SUFFICES ASSUME NEW g \in G(0) PROVE F(f, g) = F(0, g)
      OBVIOUS
    <3>1. g \in Groups(cfg) /\ g.groupSigners = <<>>
      BY <1>1, <1>4, Layers
    <3>2. DOMAIN g.groupSigners = {}
      BY <3>1
    <3> HIDE DEF f
    <3>. QED BY <1>2, <3>1, <3>2
  <2>2. f = [g \in G(0) |-> F(f, g)]
    BY <2>1
  <2> HIDE DEF f
  <2>3. IsConsensus(f, G(0))
    BY <2>2
  <2> HIDE DEF IsConsensus
  <2>. QED BY <1>1, <2>3
<1>6. ASSUME NEW n \in 0..MaxDepth, n \in S, n < MaxDepth PROVE n + 1 \in S
  <2>1. PICK u : IsConsensus(u, G(n))
    BY <1>6
  <2>2. /\ n + 1 \in 0..MaxDepth /\ G(n) \subseteq G(n + 1)
        /\ \A g \in G(n + 1) : g \in Groups(cfg) /\ \A k \in DOMAIN g.groupSigners : g.groupSigners[k] \in G(n)
    BY <1>1, <1>4, <1>6, Layers
  <2> HIDE DEF G
  <2> DEFINE v == [g \in G(n + 1) |-> F(u, g)]
  <2>3. \A g \in G(n) : v[g] = u[g]
    BY <2>1, <2>2
  <2>4. \A g \in G(n + 1) : F(v, g) = F(u, g)
    <3> SUFFICES ASSUME NEW g \in G(n + 1) PROVE F(v, g) = F(u, g)
      OBVIOUS
    <3>1. \A k \in DOMAIN g.groupSigners : v[g.groupSigners[k]] = u[g.groupSigners[k]]
      BY <2>2, <2>3
    <3>2. g \in Groups(cfg)
      BY <2>2
    <3> HIDE DEF v
    <3>. QED BY <1>2, <3>1, <3>2
  <2>5. v = [g \in G(n + 1) |-> F(v, g)]
    BY <2>4
  <2> HIDE DEF v
  <2>6. IsConsensus(v, G(n + 1))
    BY <2>5
  <2> HIDE DEF IsConsensus
  <2>. QED BY <2>2, <2>6
<1>7. \A n \in 0..MaxDepth : n \in S
  <2> HIDE DEF S
  <2>. QED BY <1>1, <1>5, <1>6, UpwardInduction
<1>8. \E f : IsConsensus(f, Groups(cfg))
  <2>1. MaxDepth \in S /\ G(MaxDepth) = Groups(cfg)
    BY <1>1, <1>7, Layers
  <2> HIDE DEF IsConsensus, G
  <2>. QED BY <2>1
<1> HIDE DEF IsConsensus
<1>9. IsConsensus(Consensus(cfg, addrs), Groups(cfg))
  BY <1>3, <1>8
<1>. QED BY <1>9 DEF IsConsensus, F

\* CheckQuorum's recursion over a configuration gives each group what the contract's
\* count over the arrays made of it gives that group.
LEMMA StoredApproval ==
    ASSUME NEW cfg \in Config, NEW cc, Accepted(cc), NEW n, NEW t, NEW q, Stored(cfg, cc, n, t, q), NEW addrs
    PROVE  isGroupAtConsensus(cfg, addrs) = QuorumReached(cc, addrs)
<1>1. PICK a : a = Approved(cc, addrs)
  OBVIOUS
<1>2. PICK c : c = Consensus(cfg, addrs)
  OBVIOUS
<1>3. \A i \in 1..NumGroups : a[i] = Reaches(cc, addrs, a, i)
  <2>1. a = [i \in 1..NumGroups |-> Reaches(cc, addrs, a, i)]
    BY <1>1, AcceptedChildrenFollow, ApprovedExists
  <2>. QED BY <2>1
<1>4. \A g \in Groups(cfg) : c[g] = AtConsensus(addrs, c, g)
  <2>1. c = [g \in Groups(cfg) |-> AtConsensus(addrs, c, g)]
    BY <1>2, ConsensusExists
  <2>. QED BY <2>1
<1>5. /\ n \in 1..NumGroups /\ NumGroups \in Nat /\ t \in [1..n -> Groups(cfg)] /\ t[1] = cfg
      /\ \A m \in 1..NumGroups : Enabled(cc, m) <=> m \in 1..n
  BY QuorumAssumption DEF Stored
<1> DEFINE S == {m \in 1..n : c[t[m]] = a[m]}
<1>6. ASSUME NEW m \in 1..n, \A x \in (m + 1)..n : x \in S PROVE m \in S
  <2>1. m \in 1..NumGroups
    BY <1>5
  <2>2. ASSUME NEW x \in ChildSet(cc, m) PROVE x \in (m + 1)..n
    <3>1. x \in (m + 1)..NumGroups /\ Enabled(cc, x)
      BY <2>1, <2>2, ChildIsGreater
    <3>2. x \in 1..NumGroups
      BY <2>1, <3>1
    <3>3. x \in 1..n
      BY <1>5, <3>1, <3>2
    <3>. QED BY <3>1, <3>3
  <2>3. \A x \in ChildSet(cc, m) : c[t[x]] = a[x]
    BY <1>6, <2>2
  <2>4. AtConsensus(addrs, c, t[m]) = Reaches(cc, addrs, a, m)
    BY <2>3, StoredStep
  <2>5. t[m] \in Groups(cfg)
    BY <1>5
  <2>. QED BY <1>3, <1>4, <2>1, <2>4, <2>5
<1>7. n \in Nat /\ 1 \in 1..n
  BY <1>5
<1>8. \A m \in 1..n : m \in S
  <2> HIDE DEF S
  <2>. QED BY <1>6, <1>7, DownwardInduction
<1>9. c[t[1]] = a[1]
  BY <1>7, <1>8
<1>. QED BY <1>1, <1>2, <1>5, <1>9 DEF isGroupAtConsensus, QuorumReached

LEMMA VotesForOne ==
    ASSUME NEW s, NEW x
    PROVE  Occurrences(s, x) = Cardinality({i \in DOMAIN s : s[i] \in {x}})
BY DEF Occurrences

\* GetConfig reads back the signers of a group, in another order perhaps.
LEMMA StoredSignersRead ==
    ASSUME NEW cfg \in Config, NEW cc, Accepted(cc), NEW n, NEW t, NEW q, Stored(cfg, cc, n, t, q), NEW m \in 1..n
    PROVE  unorderedArrayEquals(GroupTree(cc, m).signers, t[m].signers)
<1>1. PICK a : a = GroupTree(cc, m).signers
  OBVIOUS
<1>2. PICK b : b = t[m].signers
  OBVIOUS
<1>3. m \in 1..NumGroups
  BY QuorumAssumption DEF Stored
<1>4. ASSUME NEW addrs
      PROVE  Cardinality({i \in DOMAIN a : a[i] \in addrs}) = Cardinality({i \in DOMAIN b : b[i] \in addrs})
  <2>1. TreeVotes(GroupTree(cc, m), addrs) = ContractVotes(cc, m, addrs)
    BY <1>3, OwnVotes
  <2>2. TreeVotes(t[m], addrs) = ContractVotes(cc, m, addrs)
    BY StoredVotes
  <2>. QED BY <1>1, <1>2, <2>1, <2>2 DEF TreeVotes
<1>5. a \in Seq(Elements(a))
  BY <1>1, <1>3, SignerArray
<1>6. b \in Seq(Signer)
  <2>1. t[m] \in Groups(cfg)
    BY DEF Stored
  <2>. QED BY <1>2, <2>1, Layers
<1>7. Len(a) \in Nat /\ DOMAIN a = 1..Len(a) /\ Len(b) \in Nat /\ DOMAIN b = 1..Len(b)
  BY <1>5, <1>6, LenProperties
<1>8. Len(a) = Len(b)
  <2> DEFINE all == Elements(a) \cup Elements(b)
  <2>1. {i \in DOMAIN a : a[i] \in all} = DOMAIN a /\ {i \in DOMAIN b : b[i] \in all} = DOMAIN b
    BY DEF Elements
  <2>2. Cardinality({i \in DOMAIN a : a[i] \in all}) = Cardinality({i \in DOMAIN b : b[i] \in all})
    BY <1>4
  <2>3. Cardinality(DOMAIN a) = Cardinality(DOMAIN b)
    BY <2>1, <2>2
  <2>4. Cardinality(DOMAIN a) = Len(a) /\ Cardinality(DOMAIN b) = Len(b)
    BY <1>7, IntervalCardinality
  <2>. QED BY <2>3, <2>4
<1>9. \A x : Occurrences(a, x) = Occurrences(b, x)
  BY <1>4, VotesForOne
<1>. QED BY <1>1, <1>2, <1>8, <1>9 DEF unorderedArrayEquals

\* Config.Equals of the tree and a configuration is the equation it is defined by.
LEMMA EqualGroupsExist ==
    ASSUME NEW a, NEW cfg \in Config, \A g \in Groups(a) : Elements(g.groupSigners) \subseteq Groups(a)
    PROVE  EqualGroups(a, cfg) =
             [p \in Groups(a) \X Groups(cfg) |-> EqualStep(EqualGroups(a, cfg), p[1], p[2])]
<1> DEFINE A == Groups(a)
           G(n) == Layer(cfg, n)
           F(f, p) == EqualStep(f, p[1], p[2])
           IsEqual(f, D) == f = [p \in A \X D |-> F(f, p)]
           S == {n \in 0..MaxDepth : \E f : IsEqual(f, G(n))}
<1>1. MaxDepth \in Nat
  BY QuorumAssumption
<1>2. ASSUME NEW f, NEW h, NEW g \in A, NEW k,
             \A x \in A : \A j \in DOMAIN k.groupSigners :
                 f[<<x, k.groupSigners[j]>>] = h[<<x, k.groupSigners[j]>>]
      PROVE  EqualStep(f, g, k) = EqualStep(h, g, k)
  <2>1. \A i \in DOMAIN g.groupSigners : g.groupSigners[i] \in A
    BY DEF Elements
  <2>2. \A i \in DOMAIN g.groupSigners : \A j \in DOMAIN k.groupSigners :
          f[<<g.groupSigners[i], k.groupSigners[j]>>] = h[<<g.groupSigners[i], k.groupSigners[j]>>]
    BY <1>2, <2>1
  <2>3. (\A i \in DOMAIN g.groupSigners : \E j \in DOMAIN k.groupSigners :
           f[<<g.groupSigners[i], k.groupSigners[j]>>])
        <=> (\A i \in DOMAIN g.groupSigners : \E j \in DOMAIN k.groupSigners :
               h[<<g.groupSigners[i], k.groupSigners[j]>>])
    BY <2>2
  <2>4. EqualStep(f, g, k) <=> EqualStep(h, g, k)
    BY <2>3 DEF EqualStep
  <2>5. EqualStep(f, g, k) \in BOOLEAN /\ EqualStep(h, g, k) \in BOOLEAN
    BY DEF EqualStep
  <2>. QED BY <2>4, <2>5
<1>3. EqualGroups(a, cfg) = CHOOSE f : IsEqual(f, Groups(cfg))
  BY DEF EqualGroups, EqualStep
<1> HIDE DEF A
<1>4. \A n \in 0..MaxDepth : G(n) \subseteq Groups(cfg)
  BY DEF Layer
<1>5. ASSUME NEW f, NEW h, NEW D,
             \A p \in A \X D : \A x \in A : \A j \in DOMAIN p[2].groupSigners :
                 f[<<x, p[2].groupSigners[j]>>] = h[<<x, p[2].groupSigners[j]>>]
      PROVE  \A p \in A \X D : F(f, p) = F(h, p)
  <2> SUFFICES ASSUME NEW p \in A \X D PROVE EqualStep(f, p[1], p[2]) = EqualStep(h, p[1], p[2])
    OBVIOUS
  <2>1. p[1] \in A
    OBVIOUS
  <2>2. PICK k : k = p[2]
    OBVIOUS
  <2>3. \A x \in A : \A j \in DOMAIN k.groupSigners : f[<<x, k.groupSigners[j]>>] = h[<<x, k.groupSigners[j]>>]
    BY <1>5, <2>2
  <2>4. EqualStep(f, p[1], k) = EqualStep(h, p[1], k)
    BY <1>2, <2>1, <2>3, ZenonT(60)
  <2>. QED BY <2>2, <2>4
<1> HIDE DEF F
<1>6. 0 \in S
  <2> DEFINE f == [p \in A \X G(0) |-> F(0, p)]
  <2>1. \A p \in A \X G(0) : p[2] \in G(0)
    OBVIOUS
  <2>2. \A g \in G(0) : DOMAIN g.groupSigners = {}
    <3> SUFFICES ASSUME NEW g \in G(0) PROVE DOMAIN g.groupSigners = {}
      OBVIOUS
    <3>1. g.groupSigners = <<>>
      BY Layers
    <3>. QED BY <3>1
  <2>3. \A p \in A \X G(0) : DOMAIN p[2].groupSigners = {}
    BY <2>1, <2>2
  <2> HIDE DEF G
  <2>4. \A p \in A \X G(0) : F(f, p) = F(0, p)
    <3> HIDE DEF f
    <3>. QED BY <1>5, <2>3
  <2>5. f = [p \in A \X G(0) |-> F(f, p)]
    BY <2>4
  <2> HIDE DEF f
  <2>6. IsEqual(f, G(0))
    BY <2>5
  <2> HIDE DEF IsEqual
  <2>. QED BY <1>1, <2>6
<1>7. ASSUME NEW n \in 0..MaxDepth, n \in S, n < MaxDepth PROVE n + 1 \in S
  <2>1. PICK u : IsEqual(u, G(n))
    BY <1>7
  <2>2. /\ n + 1 \in 0..MaxDepth /\ G(n) \subseteq G(n + 1)
        /\ \A g \in G(n + 1) : \A k \in DOMAIN g.groupSigners : g.groupSigners[k] \in G(n)
    BY <1>1, <1>4, <1>7, Layers
  <2> HIDE DEF G
  <2> DEFINE v == [p \in A \X G(n + 1) |-> F(u, p)]
  <2>3. \A x \in A, g \in G(n) : v[<<x, g>>] = u[<<x, g>>]
    <3> SUFFICES ASSUME NEW x \in A, NEW g \in G(n) PROVE v[<<x, g>>] = u[<<x, g>>]
      OBVIOUS
    <3>1. <<x, g>> \in A \X G(n) /\ <<x, g>> \in A \X G(n + 1)
      BY <2>2
    <3>2. v[<<x, g>>] = F(u, <<x, g>>)
      BY <3>1
    <3>3. u[<<x, g>>] = F(u, <<x, g>>)
      BY <2>1, <3>1
    <3>. QED BY <3>2, <3>3
  <2>4. \A p \in A \X G(n + 1) : F(v, p) = F(u, p)
    <3> HIDE DEF v
    <3>1. ASSUME NEW p \in A \X G(n + 1), NEW x \in A, NEW j \in DOMAIN p[2].groupSigners
          PROVE  v[<<x, p[2].groupSigners[j]>>] = u[<<x, p[2].groupSigners[j]>>]
      <4>1. p[2] \in G(n + 1)
        OBVIOUS
      <4>2. p[2].groupSigners[j] \in G(n)
        BY <2>2, <4>1
      <4>. QED BY <2>3, <4>2
    <3>. QED BY <1>5, <3>1
  <2>5. v = [p \in A \X G(n + 1) |-> F(v, p)]
    BY <2>4
  <2> HIDE DEF v
  <2>6. IsEqual(v, G(n + 1))
    BY <2>5
  <2> HIDE DEF IsEqual
  <2>. QED BY <2>2, <2>6
<1>8. \A n \in 0..MaxDepth : n \in S
  <2> HIDE DEF S
  <2>. QED BY <1>1, <1>6, <1>7, UpwardInduction
<1>9. \E f : IsEqual(f, Groups(cfg))
  <2>1. MaxDepth \in S
    <3>1. MaxDepth \in 0..MaxDepth
      BY <1>1
    <3> HIDE DEF S
    <3>. QED BY <1>8, <3>1
  <2>2. G(MaxDepth) = Groups(cfg)
    BY Layers
  <2> HIDE DEF IsEqual, G
  <2>. QED BY <2>1, <2>2
<1> HIDE DEF IsEqual
<1>10. IsEqual(EqualGroups(a, cfg), Groups(cfg))
  BY <1>3, <1>9
<1>. QED BY <1>10 DEF IsEqual, F, A

\* The groups below a group of the tree are groups of the tree.
LEMMA TreeIsClosed ==
    ASSUME NEW cc, Accepted(cc)
    PROVE  \A g \in Groups(ToConfig(cc)) : Elements(g.groupSigners) \subseteq Groups(ToConfig(cc))
<1> SUFFICES ASSUME NEW g \in Groups(ToConfig(cc)), NEW x \in Elements(g.groupSigners)
             PROVE  x \in Groups(ToConfig(cc))
  OBVIOUS
<1>1. PICK i \in 1..NumGroups : Enabled(cc, i) /\ g = GroupTree(cc, i)
  BY GroupsOfTree
<1>2. PICK j \in ChildSet(cc, i) : x = GroupTree(cc, j)
  BY <1>1, TreesBelow
<1>. QED BY <1>1, <1>2, GroupsBelow

\* GetConfig reads back the configuration that was stored.
LEMMA StoredIsRead ==
    ASSUME NEW cfg \in Config, NEW cc, Accepted(cc), NEW n, NEW t, NEW q, Stored(cfg, cc, n, t, q)
    PROVE  Equals(ToConfig(cc), cfg)
<1>1. PICK T : T = ToConfig(cc)
  OBVIOUS
<1>2. PICK f : f = EqualGroups(T, cfg)
  OBVIOUS
<1>3. ASSUME NEW g \in Groups(T), NEW h \in Groups(cfg) PROVE f[<<g, h>>] = EqualStep(f, g, h)
  <2>1. \A x \in Groups(T) : Elements(x.groupSigners) \subseteq Groups(T)
    BY <1>1, TreeIsClosed
  <2>2. f = [p \in Groups(T) \X Groups(cfg) |-> EqualStep(f, p[1], p[2])]
    <3>1. EqualGroups(T, cfg) = [p \in Groups(T) \X Groups(cfg) |-> EqualStep(EqualGroups(T, cfg), p[1], p[2])]
      BY <2>1, EqualGroupsExist
    <3>. QED BY <1>2, <3>1
  <2>3. <<g, h>> \in Groups(T) \X Groups(cfg) /\ <<g, h>>[1] = g /\ <<g, h>>[2] = h
    OBVIOUS
  <2>. QED BY <2>2, <2>3
<1>4. /\ n \in 1..NumGroups /\ NumGroups \in Nat /\ t \in [1..n -> Groups(cfg)] /\ t[1] = cfg
      /\ \A m \in 1..NumGroups : Enabled(cc, m) <=> m \in 1..n
      /\ \A m \in 1..n : cc.groupQuorums[m] = t[m].quorum
  BY QuorumAssumption DEF Stored
<1> DEFINE S == {m \in 1..n : f[<<GroupTree(cc, m), t[m]>>]}
<1>5. ASSUME NEW m \in 1..n, \A x \in (m + 1)..n : x \in S PROVE m \in S
  <2>1. m \in 1..NumGroups
    BY <1>4
  <2>2. Enabled(cc, m)
    BY <1>4, <2>1
  <2>3. GroupTree(cc, m) \in Groups(T)
    BY <1>1, <2>1, <2>2, GroupsOfTree
  <2>4. t[m] \in Groups(cfg)
    BY <1>4
  <2>5. PICK C : C = ChildSet(cc, m)
    OBVIOUS
  <2>6. PICK ch : ch = ChildrenOf(cc, m)
    OBVIOUS
  <2>7. PICK g : g = t[m].groupSigners
    OBVIOUS
  <2>8. Lists(ch, C) /\ IsFiniteSet(C)
    BY <2>1, <2>5, <2>6, ChildrenListed DEF Accepted
  <2>9. /\ \A x \in C : q[x] \in DOMAIN g /\ t[x] = g[q[x]]
        /\ \A x, y \in C : q[x] = q[y] => x = y
        /\ \A k \in DOMAIN g : \E x \in C : q[x] = k
    BY <2>5, <2>7 DEF Stored
  <2>10. GroupTree(cc, m).quorum = t[m].quorum
    BY <1>4, <2>1, TreeShape
  <2>11. unorderedArrayEquals(GroupTree(cc, m).signers, t[m].signers)
    BY StoredSignersRead
  <2>12. PICK d : d = GroupTree(cc, m).groupSigners
    OBVIOUS
  <2>13. d = [k \in DOMAIN ch |-> GroupTree(cc, ch[k])]
    <3> HIDE DEF S
    <3>1. GroupTree(cc, m).groupSigners = [k \in DOMAIN ChildrenOf(cc, m) |-> GroupTree(cc, ChildrenOf(cc, m)[k])]
      BY <2>1, TreeShape, ZenonT(60)
    <3>. QED BY <2>6, <2>12, <3>1
  <2>14. ASSUME NEW x \in C PROVE x \in (m + 1)..n
    <3>1. x \in (m + 1)..NumGroups /\ Enabled(cc, x)
      BY <2>1, <2>5, <2>14, ChildIsGreater
    <3>2. x \in 1..NumGroups
      BY <2>1, <3>1
    <3>3. x \in 1..n
      BY <1>4, <3>1, <3>2
    <3>. QED BY <3>1, <3>3
  <2>15. Len(d) = Len(g)
    <3>1. PICK c : c = Cardinality(C)
      OBVIOUS
    <3>2. c \in Nat /\ DOMAIN ch = 1..c
      BY <2>8, <3>1, ListLength DEF Lists
    <3>3. d \in Seq(Elements(d)) /\ DOMAIN d = 1..c
      <4>1. d \in [1..c -> Elements(d)]
        BY <2>13, <3>2 DEF Elements
      <4>. QED BY <3>2, <4>1, IsASeq
    <3>4. Len(d) = c
      BY <3>2, <3>3, LenProperties
    <3>5. g \in Seq(Groups(cfg))
      BY <2>4, <2>7, Layers
    <3>6. Len(g) \in Nat /\ DOMAIN g = 1..Len(g)
      BY <3>5, LenProperties
    <3> DEFINE h == [x \in C |-> q[x]]
    <3>7. h \in [C -> DOMAIN g]
      BY <2>9
    <3>8. \A x, y \in C : h[x] = h[y] => x = y
      BY <2>9
    <3>9. \A k \in DOMAIN g : \E x \in C : h[x] = k
      BY <2>9
    <3> HIDE DEF h
    <3>10. Cardinality(C) = Cardinality(DOMAIN g)
      BY <2>8, <3>7, <3>8, <3>9, SameNumber
    <3>11. Cardinality(DOMAIN g) = Len(g)
      BY <3>6, IntervalCardinality
    <3>. QED BY <3>1, <3>4, <3>10, <3>11
  <2>16. ASSUME NEW i \in DOMAIN d PROVE \E j \in DOMAIN g : f[<<d[i], g[j]>>]
    <3>1. PICK x : x = ch[i]
      OBVIOUS
    <3>2. i \in DOMAIN ch /\ d[i] = GroupTree(cc, x)
      BY <2>13, <3>1
    <3>3. x \in C
      BY <2>8, <3>1, <3>2 DEF Lists
    <3>4. q[x] \in DOMAIN g /\ t[x] = g[q[x]]
      BY <2>9, <3>3
    <3>5. f[<<GroupTree(cc, x), t[x]>>]
      BY <1>5, <2>14, <3>3
    <3>6. f[<<d[i], g[q[x]]>>]
      BY <3>2, <3>4, <3>5
    <3>. QED BY <3>4, <3>6
  <2>17. EqualStep(f, GroupTree(cc, m), t[m])
    BY <2>7, <2>10, <2>11, <2>12, <2>15, <2>16 DEF EqualStep
  <2>18. f[<<GroupTree(cc, m), t[m]>>] = EqualStep(f, GroupTree(cc, m), t[m])
    BY <1>3, <2>3, <2>4
  <2>. QED BY <2>17, <2>18
<1>6. n \in Nat /\ 1 \in 1..n
  BY <1>4
<1>7. \A m \in 1..n : m \in S
  <2> HIDE DEF S
  <2>. QED BY <1>5, <1>6, DownwardInduction
<1>8. f[<<GroupTree(cc, 1), t[1]>>]
  BY <1>6, <1>7
<1>9. GroupTree(cc, 1) = T
  BY <1>1 DEF ToConfig, GroupTree
<1>. QED BY <1>1, <1>2, <1>4, <1>8, <1>9 DEF Equals

-----------------------------------------------------------------------------
(* The arrays are the contract's *)

\* Whatever tree of groups is flattened, quorums, parents and group numbers are numbers
\* and the signers those of the tree.
LEMMA ArraysAreTyped ==
    ASSUME NEW cfg \in Config
    PROVE  ExtractSetConfigInputs(cfg) \in ChainConfig
<1>1. PICK s : s = extractGroupsAndSigners(cfg)
  OBVIOUS
<1>2. s \in Seq(Entry)
  <2>1. PICK n, t, q : Represents(cfg, s, n, t, q)
    BY <1>1, ConfigIsRepresented
  <2>. QED BY <2>1 DEF Represents
<1>3. PICK n : n = Len(s)
  OBVIOUS
<1>4. n \in Nat /\ \A i \in 1..n : s[i].quorum \in Nat /\ s[i].parent \in Nat
  <2>1. n \in Nat /\ DOMAIN s = 1..n
    BY <1>2, <1>3, LenProperties
  <2>2. \A i \in 1..n : s[i] \in Entry
    BY <1>2, <2>1, ElementOfSeq
  <2>. QED BY <2>1, <2>2 DEF Entry
<1>5. PICK z : z = SignersOf(s)
  OBVIOUS
<1>6. z \in Seq(SignerEntry)
  BY <1>2, <1>5, SignersHeld DEF Holds
<1>7. PICK w : w = SortedByAddress(z)
  OBVIOUS
<1>8. w \in Seq(SignerEntry)
  <2>1. /\ DOMAIN w = DOMAIN z
        /\ \E p \in [DOMAIN z -> DOMAIN z] : \A k \in DOMAIN z : w[k] = z[p[k]]
    BY <1>6, <1>7, SortedIsPermutation
  <2>2. PICK p \in [DOMAIN z -> DOMAIN z] : \A k \in DOMAIN z : w[k] = z[p[k]]
    BY <2>1
  <2>3. DOMAIN z = 1..Len(z) /\ Len(z) \in Nat
    BY <1>6, LenProperties
  <2>4. \A k \in DOMAIN z : z[p[k]] \in SignerEntry
    BY <1>6, ElementOfSeq
  <2>5. w = [k \in DOMAIN z |-> w[k]]
    <3>1. w = [k \in DOMAIN z |-> z[CHOOSE i \in DOMAIN z : Position(z, i) = k]]
      BY <1>7 DEF SortedByAddress, Position, NotAfter, Precedes
    <3>. QED BY <3>1
  <2>6. w \in [1..Len(z) -> SignerEntry]
    BY <2>2, <2>3, <2>4, <2>5
  <2>. QED BY <2>3, <2>6, IsASeq
<1>9. ExtractSetConfigInputs(cfg) =
        [groupQuorums |-> [i \in 1..NumGroups |-> IF i <= n THEN s[i].quorum ELSE 0],
         groupParents |-> [i \in 1..NumGroups |-> IF i <= n THEN s[i].parent ELSE 0],
         signers      |-> w]
  BY <1>1, <1>3, <1>5, <1>7 DEF ExtractSetConfigInputs
<1>10. ASSUME NEW i \in 1..NumGroups
       PROVE  (IF i <= n THEN s[i].quorum ELSE 0) \in Nat /\ (IF i <= n THEN s[i].parent ELSE 0) \in Nat
  <2>1. i <= n => i \in 1..n
    BY <1>4, QuorumAssumption
  <2>. QED BY <1>4, <2>1
<1>. QED BY <1>8, <1>9, <1>10 DEF ChainConfig, SignerEntry

-----------------------------------------------------------------------------
(* A configuration means on chain what it means in the client *)

\* For every valid configuration whose arrays setConfig accepts, the config transformer's
\* round trip loses nothing: the contract lets the same signers set a root as CanSetRoot
\* does, and what GetConfig reads back compares equal to it.
THEOREM StoredConfigsMeanTheSame ==
    ASSUME NEW cfg \in Config, ValidateConfig(cfg), setConfigAccepted(ExtractSetConfigInputs(cfg))
    PROVE  /\ \A addrs : SignersAccepted(ExtractSetConfigInputs(cfg), addrs) <=> CanSetRoot(cfg, addrs)
           /\ Equals(ToConfig(ExtractSetConfigInputs(cfg)), cfg)
<1>1. PICK cc : cc = ExtractSetConfigInputs(cfg)
  OBVIOUS
<1>2. Accepted(cc)
  BY <1>1, ArraysAreTyped DEF Accepted
<1>3. PICK n, t, q : Stored(cfg, cc, n, t, q)
  BY <1>1, <1>2, ConfigIsStored
<1>4. ASSUME NEW addrs PROVE SignersAccepted(cc, addrs) <=> CanSetRoot(cfg, addrs)
  <2>1. isGroupAtConsensus(cfg, addrs) = QuorumReached(cc, addrs)
    BY <1>2, <1>3, StoredApproval
  <2>2. GetAllSigners(cfg) = {cc.signers[k].addr : k \in DOMAIN cc.signers}
    BY <1>2, <1>3, StoredSigners
  <2>. QED BY <2>1, <2>2 DEF SignersAccepted, CanSetRoot
<1>5. Equals(ToConfig(cc), cfg)
  BY <1>2, <1>3, StoredIsRead
<1>. QED BY <1>1, <1>4, <1>5

=============================================================================
