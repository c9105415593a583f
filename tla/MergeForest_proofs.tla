------------------------- MODULE MergeForest_proofs -------------------------
(* Facts about merge pointers, for any number of offers. *)
EXTENDS MergeForest, TLAPS

\* An offer belongs to its own chain, so to its own group (reads.js group).
LEMMA ChainSelf ==
    ASSUME NEW m, NEW o \in DOMAIN m
    PROVE  o \in Chain(m, o)
BY DEF Chain

\* Following a pointer from a chain stays on the chain.
LEMMA ChainClosed ==
    ASSUME NEW m, NEW o \in DOMAIN m
    PROVE  Closed(m, Chain(m, o))
<1> SUFFICES ASSUME NEW x \in Chain(m, o), m[x] \in DOMAIN m,
                    NEW S \in SUBSET DOMAIN m, o \in S, Closed(m, S)
             PROVE  m[x] \in S
  BY DEF Closed, Chain
<1>1. x \in S
  BY DEF Chain
<1> QED BY <1>1 DEF Closed

\* Without cycles every offer resolves to an offer that is not merged: the
\* loop of reads.root ends at a canonical listing.
LEMMA RootsAreRoots ==
    ASSUME NEW m, Acyclic(m), NEW o \in DOMAIN m
    PROVE  /\ Roots(m, o) # {}
           /\ \A r \in Roots(m, o) : IsRoot(m, r)
<1> DEFINE C == Chain(m, o)
<1>1. C \in SUBSET DOMAIN m /\ C # {}
  BY ChainSelf DEF Chain
<1>2. PICK x \in C : m[x] \notin C
  BY <1>1 DEF Acyclic
<1>3. IsRoot(m, x)
  BY <1>1, <1>2, ChainClosed DEF Closed, IsRoot
<1>4. Roots(m, o) = {r \in C : IsRoot(m, r)}
  BY <1>2, <1>3 DEF Roots
<1> QED BY <1>2, <1>3, <1>4

\* A canonical offer that x resolves to is also what every offer on the way
\* resolves to.
LEMMA RootBeyond ==
    ASSUME NEW m, NEW x \in DOMAIN m, NEW r \in Chain(m, x), IsRoot(m, r), NEW y \in Chain(m, x)
    PROVE  r \in Chain(m, y)
<1> DEFINE S == {z \in Chain(m, x) : r \in Chain(m, z)}
<1>1. S \in SUBSET DOMAIN m /\ x \in S
  BY ChainSelf DEF Chain
<1>2. ASSUME NEW z \in S, m[z] \in DOMAIN m
      PROVE  m[z] \in S
  <2>1. m[z] \in Chain(m, x)
    BY <1>2, ChainClosed DEF Closed
  <2>2. z # r
    BY <1>2 DEF IsRoot
  <2>3. ASSUME NEW T \in SUBSET DOMAIN m, m[z] \in T, Closed(m, T)
        PROVE  r \in T
    <3>1. z \in DOMAIN m
      BY <1>1, <1>2
    <3>2. T \cup {z} \in SUBSET DOMAIN m /\ z \in T \cup {z} /\ Closed(m, T \cup {z})
      BY <2>3, <3>1 DEF Closed
    <3>3. r \in T \cup {z}
      BY <1>2, <3>2 DEF Chain
    <3> QED BY <2>2, <3>3
  <2>4. r \in Chain(m, m[z])
    BY <2>3 DEF Chain, IsRoot
  <2> QED BY <2>1, <2>4
<1> QED BY <1>1, <1>2 DEF Chain, Closed

\* The chain of a canonical offer is that offer.
LEMMA RootChain ==
    ASSUME NEW m, NEW r, IsRoot(m, r)
    PROVE  Chain(m, r) = {r}
<1>1. {r} \in SUBSET DOMAIN m /\ Closed(m, {r})
  BY DEF IsRoot, Closed
<1> QED BY <1>1, ChainSelf DEF Chain, IsRoot

\* ...and to only one: which page a merged listing redirects to is not a choice.
LEMMA RootIsUnique ==
    ASSUME NEW m, Acyclic(m), NEW o \in DOMAIN m,
           NEW r1 \in Roots(m, o), NEW r2 \in Roots(m, o)
    PROVE  r1 = r2
<1>1. IsRoot(m, r1) /\ IsRoot(m, r2) /\ r1 \in Chain(m, o) /\ r2 \in Chain(m, o)
  BY RootsAreRoots DEF Roots
<1>2. r1 \in Chain(m, r2)
  BY <1>1, RootBeyond
<1> QED BY <1>1, <1>2, RootChain

\* An offer's canonical offer holds it in its group.
LEMMA RootHoldsGroup ==
    ASSUME NEW m, Acyclic(m), NEW o \in DOMAIN m, NEW r \in DOMAIN m, IsRoot(m, r)
    PROVE  r \in Roots(m, o) <=> o \in Group(m, r)
<1>1. Roots(m, o) = {x \in Chain(m, o) : IsRoot(m, x)}
  <2>1. {x \in Chain(m, o) : IsRoot(m, x)} # {}
    BY RootsAreRoots DEF Roots
  <2> QED BY <2>1 DEF Roots
<1> QED BY <1>1 DEF Group

\* Two groups have no offer in common.
LEMMA GroupsAreDisjoint ==
    ASSUME NEW m, NEW r1, NEW r2, IsRoot(m, r1), IsRoot(m, r2),
           NEW o \in Group(m, r1), o \in Group(m, r2)
    PROVE  r1 = r2
<1>1. o \in DOMAIN m /\ r1 \in Chain(m, o) /\ r2 \in Chain(m, o)
  BY DEF Group
<1>2. r1 \in Chain(m, r2)
  BY <1>1, RootBeyond
<1> QED BY <1>2, RootChain

\* Only the groups an offer's pointer led into or leads into can change with it.
LEMMA GroupGrows ==
    ASSUME NEW m, NEW n, DOMAIN n = DOMAIN m, NEW d, \A x \in DOMAIN m : x # d => n[x] = m[x],
           NEW r, IsRoot(m, r), d \notin Group(m, r)
    PROVE  Group(m, r) \subseteq Group(n, r)
<1> SUFFICES ASSUME NEW x \in Group(m, r)
             PROVE  r \in Chain(n, x)
  BY DEF Group
<1>1. x \in DOMAIN m /\ r \in Chain(m, x)
  BY DEF Group
<1>2. d \notin Chain(m, x)
  <2>1. SUFFICES ASSUME d \in Chain(m, x)
                 PROVE  FALSE
    OBVIOUS
  <2>2. d \in DOMAIN m /\ r \in Chain(m, d)
    BY <1>1, <2>1, RootBeyond DEF Chain
  <2> QED BY <2>2 DEF Group
<1>3. ASSUME NEW S \in SUBSET DOMAIN n, x \in S, Closed(n, S)
      PROVE  r \in S
  <2> DEFINE T == S \cap Chain(m, x)
  <2>1. x \in T /\ T \in SUBSET DOMAIN m
    BY <1>1, <1>3, ChainSelf
  <2>2. Closed(m, T)
    BY <1>1, <1>2, <1>3, ChainClosed DEF Closed, Chain
  <2> QED BY <1>1, <2>1, <2>2 DEF Chain
<1>4. r \in DOMAIN n
  BY DEF IsRoot
<1> QED BY <1>3, <1>4 DEF Chain

LEMMA GroupUnchanged ==
    ASSUME NEW m, NEW n, DOMAIN n = DOMAIN m, NEW d, \A x \in DOMAIN m : x # d => n[x] = m[x],
           NEW r, IsRoot(m, r), IsRoot(n, r), d \notin Group(m, r), d \notin Group(n, r)
    PROVE  Group(n, r) = Group(m, r)
<1>1. Group(m, r) \subseteq Group(n, r)
  BY GroupGrows
<1>2. Group(n, r) \subseteq Group(m, r)
  BY GroupGrows
<1> QED BY <1>1, <1>2

\* A merge changes the group of its target only.
LEMMA MergeChangesOneGroup ==
    ASSUME NEW m, NEW d, NEW t, IsRoot(m, d), IsRoot(m, t), d # t,
           NEW r, r # t, IsRoot([m EXCEPT ![d] = t], r)
    PROVE  IsRoot(m, r) /\ Group([m EXCEPT ![d] = t], r) = Group(m, r)
<1> DEFINE n == [m EXCEPT ![d] = t]
<1>1. d \in DOMAIN m /\ t \in DOMAIN m /\ DOMAIN n = DOMAIN m /\ n[d] = t
      /\ \A x \in DOMAIN m : x # d => n[x] = m[x]
  BY DEF IsRoot
<1>2. r # d /\ IsRoot(m, r) /\ IsRoot(n, t)
  BY <1>1 DEF IsRoot
<1>3. Chain(m, d) = {d}
  BY RootChain
<1>4. Chain(n, d) \subseteq {d, t}
  <2>1. {d, t} \in SUBSET DOMAIN n /\ Closed(n, {d, t})
    BY <1>1, <1>2 DEF Closed, IsRoot
  <2> QED BY <2>1 DEF Chain
<1>5. d \notin Group(m, r) /\ d \notin Group(n, r)
  BY <1>2, <1>3, <1>4 DEF Group
<1> HIDE DEF n
<1>6. IsRoot(n, r)
  BY DEF n
<1>7. Group(n, r) = Group(m, r)
  BY <1>1, <1>2, <1>5, <1>6, GroupUnchanged
<1> QED BY <1>2, <1>7 DEF n

\* An unmerge changes the group it leaves and makes one of its own.
LEMMA UnmergeChangesOneGroup ==
    ASSUME NEW m, Acyclic(m), NEW d \in DOMAIN m, NEW t \in Roots(m, d),
           NEW n, DOMAIN n = DOMAIN m, n[d] \notin DOMAIN m,
           \A x \in DOMAIN m : x # d => n[x] = m[x],
           NEW r, r # t, r # d, IsRoot(n, r)
    PROVE  IsRoot(m, r) /\ Group(n, r) = Group(m, r)
<1>1. DOMAIN n = DOMAIN m /\ n[d] \notin DOMAIN m /\ \A x \in DOMAIN m : x # d => n[x] = m[x]
  OBVIOUS
<1>2. IsRoot(m, r) /\ IsRoot(n, d)
  BY <1>1 DEF IsRoot
<1>3. Chain(n, d) = {d}
  BY <1>2, RootChain
<1>4. d \notin Group(m, r)
  <2>1. SUFFICES ASSUME d \in Group(m, r)
                 PROVE  FALSE
    OBVIOUS
  <2>2. r \in Roots(m, d)
    BY <1>2, <2>1, RootHoldsGroup DEF IsRoot
  <2> QED BY <2>2, RootIsUnique
<1>5. d \notin Group(n, r)
  BY <1>3 DEF Group
<1>6. Group(n, r) = Group(m, r)
  BY <1>1, <1>2, <1>4, <1>5, GroupUnchanged
<1> QED BY <1>2, <1>6

\* Pointing any offer at another one that is not merged makes no cycle: the
\* transaction of merge is safe exactly while its target is still canonical.
LEMMA MergeKeepsAcyclic ==
    ASSUME NEW m, Acyclic(m), NEW dup \in DOMAIN m, NEW target \in DOMAIN m,
           IsRoot(m, target), dup # target
    PROVE  Acyclic([m EXCEPT ![dup] = target])
<1> DEFINE n == [m EXCEPT ![dup] = target]
<1> SUFFICES ASSUME NEW S \in SUBSET DOMAIN m, S # {}
             PROVE  \E x \in S : n[x] \notin S
  BY DEF Acyclic
<1>1. CASE dup \in S /\ target \in S
  <2>1. n[target] = m[target] /\ m[target] \notin S
    BY DEF IsRoot
  <2> QED BY <1>1, <2>1
<1>2. CASE dup \in S /\ target \notin S
  BY <1>2
<1>3. CASE dup \notin S
  BY <1>3 DEF Acyclic
<1> QED BY <1>1, <1>2, <1>3

\* Clearing a pointer makes no cycle.
LEMMA UnmergeKeepsAcyclic ==
    ASSUME NEW m, Acyclic(m), NEW dup \in DOMAIN m, NEW none, none \notin DOMAIN m
    PROVE  Acyclic([m EXCEPT ![dup] = none])
<1> DEFINE n == [m EXCEPT ![dup] = none]
<1> SUFFICES ASSUME NEW S \in SUBSET DOMAIN m, S # {}
             PROVE  \E x \in S : n[x] \notin S
  BY DEF Acyclic
<1>1. CASE dup \in S
  <2>1. n[dup] = none
    OBVIOUS
  <2> QED BY <1>1, <2>1
<1>2. CASE dup \notin S
  BY <1>2 DEF Acyclic
<1> QED BY <1>1, <1>2
=============================================================================
