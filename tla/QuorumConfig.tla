---------------------------- MODULE QuorumConfig ----------------------------
(***************************************************************************)
(* Signer configurations: trees of groups (types/config.go), and the group *)
(* arrays a contract keeps them in (sdk/confighelpers.go,                  *)
(* sdk/evm/config_transformer.go).                                         *)
(*                                                                         *)
(* The code's recursive methods are recursive functions on the groups of   *)
(* one configuration.  Arrays count from one, group numbers from zero, as  *)
(* the contract's do.                                                      *)
(***************************************************************************)
EXTENDS Naturals, Sequences, FiniteSets, Enumeration

CONSTANTS
    Signer,     \* addresses of signing keys, ordered as common.Address.Cmp
    NumGroups,  \* the length of the group arrays, 32 in the code
    MaxDepth    \* bound: how deep groups are nested, no less than the arrays can hold

ASSUME QuorumAssumption ==
    /\ Signer \subseteq Nat \ {0}
    /\ NumGroups \in Nat \ {0}
    /\ MaxDepth \in Nat /\ NumGroups <= MaxDepth + 1

Elements(s) == {s[i] : i \in DOMAIN s}

-----------------------------------------------------------------------------
(* types.Config: quorum, signers and groupSigners, the groups below *)

\* The configurations with at most d levels of groups below them.
ConfigTrees ==
    LET trees[d \in 0..MaxDepth] ==
          [quorum       : Nat,
           signers      : Seq(Signer),
           groupSigners : IF d = 0 THEN {<<>>} ELSE Seq(trees[d - 1])]
    IN trees

Config == ConfigTrees[MaxDepth]

\* The groups of cfg at each depth, itself at depth zero.
Levels(cfg) ==
    LET level[d \in 0..MaxDepth] ==
          IF d = 0 THEN {cfg} ELSE UNION {Elements(g.groupSigners) : g \in level[d - 1]}
    IN level

Groups(cfg) == UNION {Levels(cfg)[d] : d \in 0..MaxDepth}

GetAllSigners(cfg) == UNION {Elements(g.signers) : g \in Groups(cfg)}

ValidateConfig(cfg) ==
    \A g \in Groups(cfg) :
        g.quorum > 0 /\ Len(g.signers) + Len(g.groupSigners) >= g.quorum

\* For each group of cfg, whether addrs reach its quorum.
Consensus(cfg, addrs) ==
    LET atConsensus[g \in Groups(cfg)] ==
          Cardinality({i \in DOMAIN g.signers : g.signers[i] \in addrs})
            + Cardinality({i \in DOMAIN g.groupSigners : atConsensus[g.groupSigners[i]]})
          >= g.quorum
    IN atConsensus

isGroupAtConsensus(cfg, addrs) == Consensus(cfg, addrs)[cfg]

\* Mutant: an address that no group lists does not stop the others.
CanSetRoot_AnyAddress(cfg, addrs) == isGroupAtConsensus(cfg, addrs)

CanSetRoot(cfg, addrs) == addrs \subseteq GetAllSigners(cfg) /\ isGroupAtConsensus(cfg, addrs)

Occurrences(s, x) == Cardinality({i \in DOMAIN s : s[i] = x})

unorderedArrayEquals(s, t) ==
    Len(s) = Len(t) /\ \A x \in Elements(t) : Occurrences(s, x) = Occurrences(t, x)

\* Mutant: the groups below are counted and not compared.
Equals_CountsGroups(a, b) ==
    /\ a.quorum = b.quorum
    /\ unorderedArrayEquals(a.signers, b.signers)
    /\ Len(a.groupSigners) = Len(b.groupSigners)

\* Every group of a has an equal one in b; the reverse is not asked for.
EqualGroups(a, b) ==
    LET eq[p \in Groups(a) \X Groups(b)] ==
          /\ p[1].quorum = p[2].quorum
          /\ unorderedArrayEquals(p[1].signers, p[2].signers)
          /\ Len(p[1].groupSigners) = Len(p[2].groupSigners)
          /\ \A i \in DOMAIN p[1].groupSigners : \E j \in DOMAIN p[2].groupSigners :
               eq[<<p[1].groupSigners[i], p[2].groupSigners[j]>>]
    IN eq

Equals(a, b) == EqualGroups(a, b)[<<a, b>>]

-----------------------------------------------------------------------------
(* The contract's form *)

ChainConfig ==
    [groupQuorums : [1..NumGroups -> Nat],
     groupParents : [1..NumGroups -> Nat],
     signers      : Seq([addr : Signer, group : Nat])]

\* The groups of a subtree, renumbered to follow n groups that begin with its parent.
Below(groups, n) ==
    [j \in DOMAIN groups |-> [groups[j] EXCEPT !.parent = IF j = 1 THEN 0 ELSE @ + n]]

\* Group g and, for each group below it in turn, what flat has for that one: the arrays
\* up to each of them.
Flattened(g, flat) ==
    LET upTo[k \in 0..Len(g.groupSigners)] ==
          IF k = 0 THEN <<[quorum |-> g.quorum, parent |-> 0, signers |-> g.signers]>>
          ELSE upTo[k - 1] \o Below(flat[g.groupSigners[k]], Len(upTo[k - 1]))
    IN upTo

\* The groups of each group of cfg, each before those below it, with the number of its
\* parent.
FlatGroups(cfg) ==
    LET flat[g \in Groups(cfg)] == Flattened(g, flat)[Len(g.groupSigners)]
    IN flat

extractGroupsAndSigners(cfg) == FlatGroups(cfg)[cfg]

\* Signers in the order of their groups, each with its group, up to each group.
SignersUpTo(groups) ==
    LET upTo[k \in 0..Len(groups)] ==
          IF k = 0 THEN <<>>
          ELSE upTo[k - 1] \o [i \in DOMAIN groups[k].signers |->
                                 [addr |-> groups[k].signers[i], group |-> k - 1]]
    IN upTo

SignersOf(groups) == SignersUpTo(groups)[Len(groups)]

SortedByAddress(s) ==
    LET position(i) == Cardinality({j \in DOMAIN s : s[j].addr < s[i].addr
                                                     \/ (s[j].addr = s[i].addr /\ j <= i)})
    IN [k \in DOMAIN s |-> s[CHOOSE i \in DOMAIN s : position(i) = k]]

\* Arrays padded with zeros, and cut at NumGroups without an error.
ExtractSetConfigInputs(cfg) ==
    LET groups == extractGroupsAndSigners(cfg) IN
    [groupQuorums |-> [i \in 1..NumGroups |-> IF i <= Len(groups) THEN groups[i].quorum ELSE 0],
     groupParents |-> [i \in 1..NumGroups |-> IF i <= Len(groups) THEN groups[i].parent ELSE 0],
     signers      |-> SortedByAddress(SignersOf(groups))]

\* The enabled groups whose parent is group i, in order.
ChildrenOf(cc, i) ==
    Ascending({j \in 2..NumGroups : cc.groupQuorums[j] > 0 /\ cc.groupParents[j] = i - 1})

\* The positions of the signers of group i, in order.
SignersIn(cc, i) == Ascending({k \in DOMAIN cc.signers : cc.signers[k].group = i - 1})

\* The trees that the groups of a well-formed contract stand for.
GroupTrees(cc) ==
    LET tree[i \in 1..NumGroups] ==
          LET own == SignersIn(cc, i)
              children == ChildrenOf(cc, i)
          IN [quorum       |-> cc.groupQuorums[i],
              signers      |-> [k \in DOMAIN own |-> cc.signers[own[k]].addr],
              groupSigners |-> [k \in DOMAIN children |-> tree[children[k]]]]
    IN tree

ToConfig(cc) == GroupTrees(cc)[1]

=============================================================================
