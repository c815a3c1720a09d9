----------------------------- MODULE TreeProofs -----------------------------
(***************************************************************************)
(* Proofs about the binary search tree of practice/tree.h, for any set of  *)
(* values and any size of memory: after any sequence of calls the tree is  *)
(* an ordered tree of the set of values it stands for.                     *)
(***************************************************************************)
EXTENDS BinaryTree, WellFoundedInduction, FiniteSetTheorems, TLAPS

-----------------------------------------------------------------------------
(* Induction. *)

\* A set of natural numbers has a least one.
LEMMA LeastNatural ==
  ASSUME NEW S \in SUBSET Nat, S # {}
  PROVE  \E n \in S : \A m \in S : n <= m
  <1> DEFINE R == OpToRel(<, Nat)
  <1>1. IsWellFoundedOn(R, Nat)
    BY NatLessThanWellFounded
  <1>2. R = {ss \in Nat \X Nat : ss[1] < ss[2]}
    BY DEF OpToRel
  <1> HIDE DEF R
  <1>3. PICK x \in S : \A y \in S : ~(<<y, x>> \in R)
    BY <1>1, WFMin
  <1>4. ASSUME NEW y \in S PROVE x <= y
    <2>1. <<y, x>> \in Nat \X Nat /\ ~(<<y, x>> \in R)
      BY <1>3
    <2>2. ~(y < x)
      BY <1>2, <2>1
    <2> QED
      BY <2>2
  <1> QED
    BY <1>4

-----------------------------------------------------------------------------
(* What the links of a tree are. *)

BstLinks == {"left", "right"}
BstCells == [left : 0 .. BstAddresses, right : 0 .. BstAddresses, parent : 0 .. BstAddresses,
             value : BstValues \cup {Min(BstValues)}, is_valid : BOOLEAN]

BstMemory(mem) == DOMAIN mem \subseteq BstNodes /\ mem \in [DOMAIN mem -> BstCells]

\* sub gives the nodes of every subtree, 0 being the empty tree: the links from root
\* are those of a tree, in which parent is the inverse of left and right.
IsTree(mem, root, sub) ==
  /\ BstMemory(mem) /\ root \in 0 .. BstAddresses
  /\ sub \in [0 .. BstAddresses -> SUBSET BstNodes] /\ sub[0] = {}
  /\ sub[root] \subseteq DOMAIN mem
  /\ root # 0 => root \in sub[root] /\ mem[root].parent = 0
  /\ \A n \in sub[root] :
       /\ sub[n] = {n} \cup sub[mem[n].left] \cup sub[mem[n].right]
       /\ sub[mem[n].left] \cap sub[mem[n].right] = {}
       /\ \A l \in BstLinks : /\ mem[n][l] \in sub[root] \cup {0} /\ n \notin sub[mem[n][l]]
                              /\ mem[n][l] # 0 => mem[mem[n][l]].parent = n

\* The bounded form of induction on natural numbers.
LEMMA BoundedInduction ==
  ASSUME NEW K \in Nat, NEW Good, 0 \in Good,
         \A k \in 0 .. K : k < K /\ k \in Good => k + 1 \in Good
  PROVE  \A k \in 0 .. K : k \in Good
  <1> DEFINE Bad == {k \in 0 .. K : k \notin Good}
  <1> SUFFICES ASSUME Bad # {} PROVE FALSE
    OBVIOUS
  <1>1. PICK k \in Bad : \A j \in Bad : k <= j
    <2>1. Bad \in SUBSET Nat
      OBVIOUS
    <2> HIDE DEF Bad
    <2> QED
      BY <2>1, LeastNatural
  <1>2. k \in 0 .. K /\ k \notin Good /\ k # 0
    BY <1>1
  <1>3. k - 1 \in 0 .. K /\ k - 1 < K /\ ~(k <= k - 1) /\ (k - 1) + 1 = k
    BY <1>2
  <1>4. k - 1 \in Good
    BY <1>1, <1>3
  <1> QED
    BY <1>2, <1>3, <1>4

\* A function that is iterated from x: the recursive function exists.
Iterates(g, F, x, X, K) == /\ g \in [0 .. K -> X] /\ g[0] = x
                           /\ \A k \in 0 .. K : k # 0 => g[k] = F[g[k - 1]]

\* A recursive function on 0 .. K that applies F to what it was before exists.
LEMMA IterationExists ==
  ASSUME NEW X, NEW F \in [X -> X], NEW x \in X, NEW K \in Nat
  PROVE  \E g : Iterates(g, F, x, X, K)
  <1> DEFINE Is(g, n) == g \in [0 .. n -> X] /\ g[0] = x
                         /\ \A k \in 0 .. n : k # 0 => g[k] = F[g[k - 1]]
             Good == {n \in 0 .. K : \E g : Is(g, n)}
  <1>1. 0 \in Good
    <2>1. Is([k \in 0 .. 0 |-> x], 0)
      OBVIOUS
    <2>2. 0 \in 0 .. K
      OBVIOUS
    <2> HIDE DEF Is
    <2> QED
      BY <2>1, <2>2
  <1>2. ASSUME NEW n \in 0 .. K, n < K, n \in Good PROVE n + 1 \in Good
    <2>1. PICK g : Is(g, n)
      BY <1>2
    <2> DEFINE h == [k \in 0 .. n + 1 |-> IF k = n + 1 THEN F[g[n]] ELSE g[k]]
    <2>2. /\ n \in Nat /\ n + 1 \in 0 .. K /\ n \in 0 .. n
          /\ \A k \in 0 .. n + 1 : k # n + 1 => k \in 0 .. n
      BY <1>2
    <2>3. h \in [0 .. n + 1 -> X]
      BY <2>1, <2>2
    <2>4. 0 \in 0 .. n + 1 /\ 0 # n + 1 /\ h[0] = x
      BY <2>1, <2>2
    <2>5. ASSUME NEW k \in 0 .. n + 1, k # 0 PROVE h[k] = F[h[k - 1]]
      <3>1. k - 1 \in 0 .. n + 1 /\ k - 1 # n + 1 /\ h[k - 1] = g[k - 1]
        BY <2>2, <2>5
      <3>2. k = n + 1 => k - 1 = n
        BY <2>2
      <3> QED
        BY <2>1, <2>2, <2>5, <3>1, <3>2
    <2>6. Is(h, n + 1)
      BY <2>3, <2>4, <2>5
    <2> HIDE DEF h
    <2> QED
      BY <2>2, <2>6
  <1>3. K \in Good
    <2> HIDE DEF Good
    <2>1. \A n \in 0 .. K : n \in Good
      BY <1>1, <1>2, BoundedInduction
    <2> QED
      BY <2>1
  <1> QED
    BY <1>3 DEF Iterates

\* The subtrees of a node are smaller than its own.
LEMMA SubtreeSizes ==
  ASSUME NEW mem, NEW root, NEW sub, IsTree(mem, root, sub)
  PROVE  /\ \A n \in 0 .. BstAddresses : IsFiniteSet(sub[n]) /\ Cardinality(sub[n]) \in Nat
                                         /\ Cardinality(sub[n]) <= BstAddresses
         /\ \A n \in sub[root] :
              /\ n \in sub[n] /\ Cardinality(sub[n]) >= 1
              /\ \A l \in BstLinks : /\ mem[n][l] \in 0 .. BstAddresses /\ sub[mem[n][l]] \subseteq sub[n]
                                     /\ Cardinality(sub[mem[n][l]]) < Cardinality(sub[n])
  <1>1. BstAddresses \in Nat /\ IsFiniteSet(BstNodes) /\ Cardinality(BstNodes) = BstAddresses
    BY BstAssumption, FS_Interval DEF BstNodes
  <1>2. \A n \in 0 .. BstAddresses : sub[n] \in SUBSET BstNodes
    BY DEF IsTree
  <1>3. \A S \in SUBSET BstNodes : /\ IsFiniteSet(S) /\ Cardinality(S) \in Nat
                                   /\ Cardinality(S) <= BstAddresses
    BY <1>1, FS_Subset, FS_CardinalityType
  <1>4. ASSUME NEW n \in sub[root]
        PROVE  /\ n \in sub[n] /\ n \in 0 .. BstAddresses
               /\ \A l \in BstLinks : /\ mem[n][l] \in 0 .. BstAddresses
                                      /\ sub[mem[n][l]] \subseteq sub[n] /\ n \notin sub[mem[n][l]]
    <2>1. sub[root] \in SUBSET BstNodes /\ BstNodes \subseteq 0 .. BstAddresses
      BY <1>1, <1>2 DEF IsTree, BstNodes
    <2>2. sub[n] = {n} \cup sub[mem[n].left] \cup sub[mem[n].right] /\ 0 \in 0 .. BstAddresses
      BY <1>1 DEF IsTree
    <2>3. \A l \in BstLinks : mem[n][l] \in sub[root] \cup {0} /\ n \notin sub[mem[n][l]]
      BY DEF IsTree
    <2>4. \A l \in BstLinks : sub[mem[n][l]] \subseteq sub[n]
      BY <2>2 DEF BstLinks
    <2> QED
      BY <2>1, <2>2, <2>3, <2>4
  <1>5. \A S \in SUBSET BstNodes : \A n \in S : Cardinality(S) >= 1
    <2> SUFFICES ASSUME NEW S \in SUBSET BstNodes, NEW n \in S PROVE Cardinality(S) >= 1
      OBVIOUS
    <2>1. Cardinality(S) # 0
      BY <1>3, FS_EmptySet
    <2> QED
      BY <1>3, <2>1
  <1>6. \A S \in SUBSET BstNodes : \A R \in SUBSET S : \A n \in S :
           n \notin R => Cardinality(R) < Cardinality(S)
    <2> SUFFICES ASSUME NEW S \in SUBSET BstNodes, NEW R \in SUBSET S, NEW n \in S, n \notin R
                 PROVE  Cardinality(R) < Cardinality(S)
      OBVIOUS
    <2>1. IsFiniteSet(S) /\ Cardinality(S) \in Nat /\ Cardinality(R) \in Nat
      BY <1>3
    <2>2. Cardinality(R) <= Cardinality(S) /\ Cardinality(R) # Cardinality(S)
      BY <2>1, FS_Subset
    <2> QED
      BY <2>1, <2>2
  <1> QED
    BY <1>2, <1>3, <1>4, <1>5, <1>6

\* What holds of a node when it holds of its children holds of every node.
LEMMA TreeInduction ==
  ASSUME NEW mem, NEW root, NEW sub, IsTree(mem, root, sub), NEW Good,
         \A n \in sub[root] :
           (\A l \in BstLinks : mem[n][l] # 0 => mem[n][l] \in Good) => n \in Good
  PROVE  \A n \in sub[root] : n \in Good
  <1> DEFINE T == sub[root]
             size(n) == Cardinality(sub[n])
             Sizes == {size(n) : n \in {n \in T : n \notin Good}}
  <1> SUFFICES ASSUME NEW bad \in T, bad \notin Good PROVE FALSE
    OBVIOUS
  <1>1. /\ T \subseteq 0 .. BstAddresses /\ \A n \in 0 .. BstAddresses : size(n) \in Nat
        /\ \A n \in T : \A l \in BstLinks : /\ mem[n][l] \in T \cup {0}
                                            /\ size(mem[n][l]) < size(n)
    <2>1. T \subseteq BstNodes /\ BstNodes \subseteq 0 .. BstAddresses
      BY BstAssumption DEF IsTree, BstNodes
    <2>2. /\ \A n \in 0 .. BstAddresses : size(n) \in Nat
          /\ \A n \in T : \A l \in BstLinks : size(mem[n][l]) < size(n)
      BY SubtreeSizes
    <2>3. \A n \in T : \A l \in BstLinks : mem[n][l] \in T \cup {0}
      BY DEF IsTree
    <2> QED
      BY <2>1, <2>2, <2>3
  <1>2. Sizes \in SUBSET Nat /\ Sizes # {}
    BY <1>1
  <1>3. PICK s \in Sizes : \A r \in Sizes : s <= r
    <2> HIDE DEF Sizes
    <2> QED
      BY <1>2, LeastNatural
  <1>4. PICK n \in T : n \notin Good /\ s = size(n)
    BY <1>3
  <1>5. PICK l \in BstLinks : mem[n][l] # 0 /\ mem[n][l] \notin Good
    BY <1>4
  <1> DEFINE c == mem[n][l]
  <1>6. c \in T /\ size(c) < size(n) /\ size(c) \in Nat /\ size(n) \in Nat
    BY <1>1, <1>5
  <1>7. size(c) \in Sizes
    BY <1>5, <1>6
  <1> HIDE DEF size, c
  <1> QED
    BY <1>3, <1>4, <1>6, <1>7

\* A node of a subtree has its own subtree in it, and its parent, unless it is the
\* root of the subtree.
LEMMA Subtrees ==
  ASSUME NEW mem, NEW root, NEW sub, IsTree(mem, root, sub)
  PROVE  \A a \in sub[root] : \A n \in sub[a] :
           /\ n \in sub[root] /\ sub[n] \subseteq sub[a]
           /\ n # a => /\ mem[n].parent \in sub[a]
                       /\ \E l \in BstLinks : mem[mem[n].parent][l] = n
  <1> DEFINE T == sub[root]
             Good == {a \in T : \A n \in sub[a] :
                        /\ n \in T /\ sub[n] \subseteq sub[a]
                        /\ n # a => /\ mem[n].parent \in sub[a]
                                    /\ \E l \in BstLinks : mem[mem[n].parent][l] = n}
  <1>1. ASSUME NEW a \in T, \A l \in BstLinks : mem[a][l] # 0 => mem[a][l] \in Good
        PROVE  a \in Good
    <2> SUFFICES ASSUME NEW n \in sub[a]
                 PROVE  /\ n \in T /\ sub[n] \subseteq sub[a]
                        /\ n # a => /\ mem[n].parent \in sub[a]
                                    /\ \E l \in BstLinks : mem[mem[n].parent][l] = n
      OBVIOUS
    <2>1. CASE n = a
      BY <2>1
    <2>2. CASE n # a
      <3>1. PICK l \in BstLinks : n \in sub[mem[a][l]]
        <4>1. n \in sub[mem[a].left] \/ n \in sub[mem[a].right]
          BY <2>2 DEF IsTree
        <4> QED
          BY <4>1 DEF BstLinks
      <3> DEFINE c == mem[a][l]
      <3>2. c # 0 /\ c \in T /\ mem[c].parent = a /\ a \in sub[a] /\ sub[c] \subseteq sub[a]
        BY <3>1, SubtreeSizes DEF IsTree
      <3>3. c \in Good
        BY <1>1, <3>2
      <3>4. CASE n = c
        BY <3>2, <3>4
      <3>5. CASE n # c
        <4>1. /\ n \in T /\ sub[n] \subseteq sub[c] /\ mem[n].parent \in sub[c]
              /\ \E k \in BstLinks : mem[mem[n].parent][k] = n
          BY <3>1, <3>3, <3>5
        <4> QED
          BY <2>2, <3>2, <4>1
      <3> QED
        BY <3>4, <3>5
    <2> QED
      BY <2>1, <2>2
  <1> HIDE DEF Good
  <1>2. \A a \in T : a \in Good
    BY <1>1, TreeInduction
  <1> QED
    BY <1>2 DEF Good

\* Every node but the root has a parent, of which it is one child and not the other.
LEMMA Parents ==
  ASSUME NEW mem, NEW root, NEW sub, IsTree(mem, root, sub), NEW n \in sub[root], n # root
  PROVE  /\ mem[n].parent \in sub[root] /\ mem[n].parent # 0 /\ mem[n].parent # n
         /\ LinkTo(mem, n) \in BstLinks /\ mem[mem[n].parent][LinkTo(mem, n)] = n
         /\ \A m \in sub[root] : \A l \in BstLinks :
              mem[m][l] = n => m = mem[n].parent /\ l = LinkTo(mem, n)
  <1> DEFINE p == mem[n].parent
  <1>1. root # 0 /\ root \in sub[root] /\ n # 0 /\ sub[root] \subseteq BstNodes /\ 0 \notin BstNodes
    BY BstAssumption DEF IsTree, BstNodes
  <1>2. p \in sub[root] /\ \E l \in BstLinks : mem[p][l] = n
    BY <1>1, Subtrees
  <1>3. LinkTo(mem, n) \in BstLinks /\ mem[p][LinkTo(mem, n)] = n
    BY <1>2 DEF LinkTo, BstLinks
  <1>4. n \in sub[n] /\ p \in sub[p]
    BY <1>2, SubtreeSizes
  <1>5. p # n
    BY <1>3, <1>2, <1>4 DEF IsTree
  <1>6. p # 0
    BY <1>1, <1>2
  <1>7. ASSUME NEW m \in sub[root], NEW l \in BstLinks, mem[m][l] = n
        PROVE  m = p /\ l = LinkTo(mem, n)
    <2>1. m = p
      BY <1>1, <1>7 DEF IsTree
    <2>2. ~(mem[p].left = n /\ mem[p].right = n)
      BY <1>2, <1>4 DEF IsTree
    <2> QED
      BY <1>7, <2>1, <2>2 DEF LinkTo, BstLinks
  <1> QED
    BY <1>2, <1>3, <1>5, <1>6, <1>7

\* The root is below no node.
LEMMA RootIsTop ==
  ASSUME NEW mem, NEW root, NEW sub, IsTree(mem, root, sub), root # 0,
         NEW a \in sub[root], NEW l \in BstLinks
  PROVE  root \notin sub[mem[a][l]]
  <1> SUFFICES ASSUME root \in sub[mem[a][l]] PROVE FALSE
    OBVIOUS
  <1>1. mem[root].parent = 0 /\ a # 0 /\ sub[root] \subseteq BstNodes /\ 0 \notin BstNodes
    BY BstAssumption DEF IsTree, BstNodes
  <1>2. mem[a][l] # 0 /\ mem[a][l] \in sub[root] /\ mem[mem[a][l]].parent = a
    BY DEF IsTree
  <1>3. root # mem[a][l]
    BY <1>1, <1>2
  <1>4. 0 \in sub[mem[a][l]]
    BY <1>1, <1>2, <1>3, Subtrees
  <1>5. 0 \in sub[root]
    BY <1>2, <1>4, Subtrees
  <1> QED
    BY <1>1, <1>5

\* The values are in order: only an emptied root has none.
IsOrdered(mem, root, sub) ==
  \A n \in sub[root] :
    /\ mem[n].is_valid => mem[n].value \in BstValues
    /\ ~mem[n].is_valid => n = root /\ mem[n].left = 0 /\ mem[n].right = 0
    /\ \A m \in sub[mem[n].left] : mem[m].value < mem[n].value
    /\ \A m \in sub[mem[n].right] : mem[m].value > mem[n].value

Contents(mem, T) == {mem[n].value : n \in {m \in T : mem[m].is_valid}}

\* The memory holds the tree of a set below root, and emptied roots.
StandsFor(mem, root, set, sub) ==
  /\ IsTree(mem, root, sub) /\ IsOrdered(mem, root, sub)
  /\ set = Contents(mem, sub[root])
  /\ \A n \in DOMAIN mem \ sub[root] : ~mem[n].is_valid /\ mem[n].parent = 0

BstInv == \E sub : StandsFor(bst, bst_root, bst_set, sub)

\* Below a valid root all nodes have values, each another one; an invalid one has no
\* nodes below it.
LEMMA OrderedValues ==
  ASSUME NEW mem, NEW root, NEW sub, IsTree(mem, root, sub), IsOrdered(mem, root, sub)
  PROVE  /\ root # 0 /\ ~mem[root].is_valid => sub[root] = {root}
         /\ root # 0 /\ mem[root].is_valid =>
              \A n \in sub[root] : mem[n].is_valid /\ mem[n].value \in BstValues /\ mem[n].value \in Nat
         /\ \A n \in sub[root] : \A m \in sub[root] : mem[n].value = mem[m].value => n = m
  <1> DEFINE T == sub[root]
  <1>1. root # 0 => root \in T
    BY DEF IsTree
  <1>2. root # 0 /\ ~mem[root].is_valid => T = {root}
    <2> SUFFICES ASSUME root # 0, ~mem[root].is_valid PROVE T = {root}
      OBVIOUS
    <2>1. mem[root].left = 0 /\ mem[root].right = 0
      BY <1>1 DEF IsOrdered
    <2> QED
      BY <1>1, <2>1 DEF IsTree
  <1>3. root # 0 /\ mem[root].is_valid =>
          \A n \in T : mem[n].is_valid /\ mem[n].value \in BstValues /\ mem[n].value \in Nat
    BY BstAssumption DEF IsOrdered
  <1>4. root = 0 => T = {}
    BY DEF IsTree
  <1>5. ASSUME root # 0, mem[root].is_valid
        PROVE  \A n \in T : \A m \in T : mem[n].value = mem[m].value => n = m
    <2> DEFINE Good == {a \in T : \A n \in sub[a] : \A m \in sub[a] :
                                    mem[n].value = mem[m].value => n = m}
    <2>1. ASSUME NEW a \in T, \A l \in BstLinks : mem[a][l] # 0 => mem[a][l] \in Good
          PROVE  a \in Good
      <3> SUFFICES ASSUME NEW n \in sub[a], NEW m \in sub[a], mem[n].value = mem[m].value
                   PROVE  n = m
        OBVIOUS
      <3>1. /\ sub[a] = {a} \cup sub[mem[a].left] \cup sub[mem[a].right]
            /\ \A k \in sub[mem[a].left] : mem[k].value < mem[a].value
            /\ \A k \in sub[mem[a].right] : mem[k].value > mem[a].value
        BY DEF IsTree, IsOrdered
      <3>2. n \in T /\ m \in T /\ mem[n].value \in Nat /\ mem[a].value \in Nat
        BY <1>3, <1>5, Subtrees
      <3>3. \A l \in BstLinks : n \in sub[mem[a][l]] /\ m \in sub[mem[a][l]] => n = m
        <4> SUFFICES ASSUME NEW l \in BstLinks, n \in sub[mem[a][l]], m \in sub[mem[a][l]]
                     PROVE  n = m
          OBVIOUS
        <4>1. mem[a][l] # 0
          BY DEF IsTree
        <4> QED
          BY <2>1, <4>1
      <3> QED
        BY <3>1, <3>2, <3>3 DEF BstLinks
    <2> HIDE DEF Good
    <2>2. \A a \in T : a \in Good
      BY <2>1, TreeInduction
    <2>3. root \in Good
      BY <1>1, <1>5, <2>2
    <2> QED
      BY <2>3 DEF Good
  <1> QED
    BY <1>2, <1>3, <1>4, <1>5

\* The nodes that are found level by level below r are its subtree.
IsWalk(g, r) == g = [k \in 0 .. BstAddresses |->
                       IF k = 0 THEN {r} \ {0}
                       ELSE g[k - 1] \cup UNION {{bst[n].left, bst[n].right} \ {0} : n \in g[k - 1]}]

\* The recursive function of Reached and Below exists.
LEMMA WalkExists ==
  ASSUME NEW sub, IsTree(bst, bst_root, sub), NEW r \in sub[bst_root] \cup {0}
  PROVE  \E g : IsWalk(g, r)
  <1> DEFINE T == sub[bst_root]
             Children(S) == UNION {{bst[n].left, bst[n].right} \ {0} : n \in S}
             F == [S \in SUBSET T |-> S \cup Children(S)]
             X == SUBSET T
             x == {r} \ {0}
             K == BstAddresses
  <1>1. F \in [X -> X]
    <2>1. ASSUME NEW S \in SUBSET T, NEW n \in S PROVE {bst[n].left, bst[n].right} \ {0} \subseteq T
      BY DEF IsTree, BstLinks
    <2>2. ASSUME NEW S \in SUBSET T PROVE S \cup Children(S) \in SUBSET T
      BY <2>1
    <2> QED
      BY <2>2
  <1>2. x \in X /\ K \in Nat
    BY BstAssumption
  <1>3. \A S \in X : F[S] = S \cup Children(S)
    OBVIOUS
  <1> HIDE DEF F, X, x, K
  <1>4. PICK g : Iterates(g, F, x, X, K)
    BY <1>1, <1>2, IterationExists
  <1> HIDE DEF Children
  <1>5. \A k \in 0 .. K : g[k] = IF k = 0 THEN x ELSE g[k - 1] \cup Children(g[k - 1])
    <2>1. \A k \in 0 .. K : k # 0 => k - 1 \in 0 .. K
      BY <1>2
    <2> QED
      BY <1>2, <1>3, <1>4, <2>1 DEF Iterates
  <1>6. g = [k \in 0 .. K |-> IF k = 0 THEN x ELSE g[k - 1] \cup Children(g[k - 1])]
    BY <1>4, <1>5 DEF Iterates
  <1> USE DEF Children
  <1>7. IsWalk(g, r)
    BY <1>6 DEF IsWalk, K, x
  <1> QED
    BY <1>7

\* In as many steps as there are addresses it comes to every node of the subtree.
LEMMA WalkIsSubtree ==
  ASSUME NEW sub, IsTree(bst, bst_root, sub), NEW r \in sub[bst_root] \cup {0},
         NEW g, IsWalk(g, r)
  PROVE  g[BstAddresses] = sub[r]
  <1> DEFINE T == sub[bst_root]
             K == BstAddresses
             Children(S) == UNION {{bst[n].left, bst[n].right} \ {0} : n \in S}
  <1>1. K \in Nat /\ 0 \in 0 .. K /\ K \in 0 .. K
    BY BstAssumption
  <1>2. g[0] = {r} \ {0} /\ \A k \in 0 .. K : k # 0 => g[k] = g[k - 1] \cup Children(g[k - 1])
    BY <1>1 DEF IsWalk
  <1>3. \A k \in 0 .. K : k < K => k + 1 \in 0 .. K /\ g[k + 1] = g[k] \cup Children(g[k])
    <2> SUFFICES ASSUME NEW k \in 0 .. K, k < K
                 PROVE  k + 1 \in 0 .. K /\ g[k + 1] = g[k] \cup Children(g[k])
      OBVIOUS
    <2>1. k + 1 \in 0 .. K /\ k + 1 # 0 /\ (k + 1) - 1 = k
      BY <1>1
    <2> HIDE DEF Children
    <2> QED
      BY <1>2, <2>1
  <1>4. r # 0 => r \in T /\ r \in sub[r] /\ 0 \notin T
    BY SubtreeSizes, BstAssumption DEF IsTree, BstNodes
  <1>5. \A k \in 0 .. K : g[k] \subseteq sub[r]
    <2> DEFINE Good == {k \in 0 .. K : g[k] \subseteq sub[r]}
    <2>1. 0 \in Good
      BY <1>1, <1>2, <1>4
    <2>2. ASSUME NEW k \in 0 .. K, k < K, k \in Good PROVE k + 1 \in Good
      <3>1. ASSUME NEW n \in g[k], NEW l \in BstLinks, bst[n][l] # 0 PROVE bst[n][l] \in sub[r]
        <4>1. n \in sub[r] /\ r # 0
          BY <2>2 DEF IsTree
        <4>2. n \in T /\ sub[n] \subseteq sub[r]
          BY <1>4, <4>1, Subtrees
        <4>3. bst[n][l] \in T /\ sub[bst[n][l]] \subseteq sub[n]
          BY <3>1, <4>2, SubtreeSizes DEF IsTree
        <4>4. bst[n][l] \in sub[bst[n][l]]
          BY <4>3, SubtreeSizes
        <4> QED
          BY <4>2, <4>3, <4>4
      <3>2. Children(g[k]) \subseteq sub[r]
        BY <3>1 DEF BstLinks
      <3> QED
        BY <1>3, <2>2, <3>2
    <2> HIDE DEF Good
    <2>3. \A k \in 0 .. K : k \in Good
      BY <1>1, <2>1, <2>2, BoundedInduction
    <2> QED
      BY <2>3 DEF Good
  <1>6. \A k \in 0 .. K : \A j \in 0 .. K : k <= j => g[k] \subseteq g[j]
    <2> DEFINE Good == {j \in 0 .. K : \A k \in 0 .. K : k <= j => g[k] \subseteq g[j]}
    <2>1. 0 \in Good
      BY <1>1
    <2>2. ASSUME NEW j \in 0 .. K, j < K, j \in Good PROVE j + 1 \in Good
      <3>1. g[j] \subseteq g[j + 1] /\ j + 1 \in 0 .. K
        BY <1>3, <2>2
      <3>2. ASSUME NEW k \in 0 .. K, k <= j + 1 PROVE g[k] \subseteq g[j + 1]
        <4>1. k = j + 1 \/ k <= j
          BY <3>2
        <4> QED
          BY <2>2, <3>1, <4>1
      <3> QED
        BY <3>1, <3>2
    <2> HIDE DEF Good
    <2>3. \A j \in 0 .. K : j \in Good
      BY <1>1, <2>1, <2>2, BoundedInduction
    <2> QED
      BY <2>3 DEF Good
  <1>7. ASSUME r # 0 PROVE sub[r] \subseteq g[K]
    <2> DEFINE size(a) == Cardinality(sub[a])
               Good == {a \in T : \A k \in 0 .. K : a \in g[k] /\ k + size(a) <= K => sub[a] \subseteq g[K]}
    <2>0. \A a \in 0 .. K : size(a) \in Nat /\ size(a) <= K
      BY SubtreeSizes
    <2>1. ASSUME NEW a \in T, \A l \in BstLinks : bst[a][l] # 0 => bst[a][l] \in Good
          PROVE  a \in Good
      <3> SUFFICES ASSUME NEW k \in 0 .. K, a \in g[k], k + size(a) <= K PROVE sub[a] \subseteq g[K]
        OBVIOUS
      <3>1. a \in 0 .. K /\ 1 <= size(a)
        <4>1. Cardinality(sub[a]) >= 1
          BY SubtreeSizes
        <4>2. a \in BstNodes /\ a \in 0 .. K
          BY <1>1 DEF IsTree, BstNodes
        <4>3. size(a) \in Nat
          BY <2>0, <4>2
        <4> QED
          BY <4>1, <4>2, <4>3
      <3>2. k < K /\ k <= K
        BY <1>1, <2>0, <3>1
      <3>3. a \in g[K]
        BY <1>1, <1>6, <3>2
      <3>4. ASSUME NEW l \in BstLinks PROVE sub[bst[a][l]] \subseteq g[K]
        <4> DEFINE c == bst[a][l]
        <4>1. CASE c = 0
          BY <4>1 DEF IsTree
        <4>2. CASE c # 0
          <5>1. c \in Good /\ c \in 0 .. K /\ size(c) < size(a)
            BY <2>1, <4>2, SubtreeSizes
          <5>2. k + 1 \in 0 .. K /\ g[k + 1] = g[k] \cup Children(g[k])
            BY <1>3, <3>2
          <5>3. c \in g[k + 1]
            BY <4>2, <5>2 DEF BstLinks
          <5>4. (k + 1) + size(c) <= K
            <6> HIDE DEF size, c, K
            <6> QED
              BY <1>1, <2>0, <3>1, <5>1
          <5> QED
            BY <5>1, <5>2, <5>3, <5>4
        <4> QED
          BY <4>1, <4>2
      <3>5. sub[a] = {a} \cup sub[bst[a].left] \cup sub[bst[a].right]
        BY DEF IsTree
      <3> QED
        BY <3>3, <3>4, <3>5 DEF BstLinks
    <2> HIDE DEF Good
    <2>2. \A a \in T : a \in Good
      BY <2>1, TreeInduction
    <2>3. r \in Good /\ r \in g[0] /\ size(r) \in Nat /\ size(r) <= K
      <3>1. r \in T /\ r \in 0 .. K
        BY <1>1, <1>4, <1>7 DEF IsTree, BstNodes
      <3> QED
        BY <1>2, <1>7, <2>0, <2>2, <3>1
    <2>4. 0 + size(r) <= K
      <3> HIDE DEF size
      <3> QED
        BY <2>3
    <2> QED
      BY <1>1, <2>3, <2>4 DEF Good
  <1>8. r = 0 => sub[r] = {}
    BY DEF IsTree
  <1> QED
    BY <1>1, <1>5, <1>7, <1>8

\* What Reached and Below compute.
LEMMA ReachedIsTree ==
  ASSUME NEW sub, IsTree(bst, bst_root, sub)
  PROVE  /\ Reached = sub[bst_root]
         /\ \A n \in sub[bst_root] : \A l \in BstLinks : Below(n, l) = sub[bst[n][l]]
  <1>1. ASSUME NEW r \in sub[bst_root] \cup {0}
        PROVE  (CHOOSE g : IsWalk(g, r))[BstAddresses] = sub[r]
    <2>1. IsWalk(CHOOSE g : IsWalk(g, r), r)
      BY WalkExists
    <2> QED
      BY <2>1, WalkIsSubtree
  <1>2. bst_root \in sub[bst_root] \cup {0}
    BY DEF IsTree
  <1>3. Reached = (CHOOSE g : IsWalk(g, bst_root))[BstAddresses]
    BY DEF Reached, IsWalk
  <1>4. ASSUME NEW n \in sub[bst_root], NEW l \in BstLinks PROVE Below(n, l) = sub[bst[n][l]]
    <2>1. Below(n, l) = (CHOOSE g : IsWalk(g, bst[n][l]))[BstAddresses]
      BY DEF Below, IsWalk
    <2>2. bst[n][l] \in sub[bst_root] \cup {0}
      BY DEF IsTree
    <2> QED
      BY <1>1, <2>1, <2>2
  <1> QED
    BY <1>1, <1>2, <1>3, <1>4

\* The nodes on the way to v: it begins at the root, goes on as long as there is a
\* link to follow, and turns at every node to the side of v.
Leads(n, v) == IF n = 0 THEN 0 ELSE IF bst[n].value = v THEN 0 ELSE bst[n][Toward(n, v)]

IsPath(at, v) == at = [k \in 0 .. BstAddresses |-> IF k = 0 THEN bst_root ELSE Leads(at[k - 1], v)]

\* The recursive function of SearchPath exists.
LEMMA PathExists ==
  ASSUME NEW sub, IsTree(bst, bst_root, sub), NEW v
  PROVE  \E at : IsPath(at, v)
  <1> DEFINE X == sub[bst_root] \cup {0}
             F == [n \in X |-> Leads(n, v)]
             K == BstAddresses
  <1>1. F \in [X -> X]
    <2>1. ASSUME NEW n \in X PROVE Leads(n, v) \in X
      BY DEF IsTree, BstLinks, Leads, Toward
    <2> QED
      BY <2>1
  <1>2. bst_root \in X /\ K \in Nat
    BY BstAssumption DEF IsTree
  <1>3. \A n \in X : F[n] = Leads(n, v)
    OBVIOUS
  <1> HIDE DEF F, X, K
  <1>4. PICK g : Iterates(g, F, bst_root, X, K)
    BY <1>1, <1>2, IterationExists
  <1>5. \A k \in 0 .. K : g[k] = IF k = 0 THEN bst_root ELSE Leads(g[k - 1], v)
    <2>1. \A k \in 0 .. K : k # 0 => k - 1 \in 0 .. K
      BY <1>2
    <2> QED
      BY <1>2, <1>3, <1>4, <2>1 DEF Iterates
  <1>6. g = [k \in 0 .. K |-> IF k = 0 THEN bst_root ELSE Leads(g[k - 1], v)]
    BY <1>4, <1>5 DEF Iterates
  <1>7. IsPath(g, v)
    BY <1>6 DEF IsPath, K
  <1> QED
    BY <1>7

\* The nodes on the path, and on which side of every node above them they are.
LEMMA Searching ==
  ASSUME NEW sub, IsTree(bst, bst_root, sub), NEW v
  PROVE  /\ SearchPath(v) \subseteq sub[bst_root]
         /\ bst_root # 0 => bst_root \in SearchPath(v)
         /\ \A n \in SearchPath(v) :
              bst[n].value # v /\ bst[n][Toward(n, v)] # 0 => bst[n][Toward(n, v)] \in SearchPath(v)
         /\ \A n \in SearchPath(v) : \A a \in sub[bst_root] : \A l \in BstLinks :
              n \in sub[bst[a][l]] => l = Toward(a, v) /\ bst[a].value # v
  <1> DEFINE T == sub[bst_root]
             K == BstAddresses
             g == CHOOSE at : IsPath(at, v)
             size(n) == Cardinality(sub[n])
             Turns(n) == \A a \in T : \A l \in BstLinks :
                           n \in sub[bst[a][l]] => l = Toward(a, v) /\ bst[a].value # v
  <1>1. SearchPath(v) = {g[k] : k \in 0 .. K} \ {0}
    BY DEF SearchPath, IsPath, Leads
  <1>2. IsPath(g, v)
    BY PathExists
  <1> HIDE DEF g
  <1>3. K \in Nat /\ 0 \in 0 .. K
    BY BstAssumption
  <1>4. g[0] = bst_root /\ \A k \in 0 .. K : k < K => k + 1 \in 0 .. K /\ g[k + 1] = Leads(g[k], v)
    <2>1. g[0] = bst_root
      BY <1>2, <1>3 DEF IsPath
    <2>2. ASSUME NEW k \in 0 .. K, k < K PROVE k + 1 \in 0 .. K /\ g[k + 1] = Leads(g[k], v)
      <3>1. k + 1 \in 0 .. K /\ k + 1 # 0 /\ (k + 1) - 1 = k
        BY <1>3, <2>2
      <3>2. g[k + 1] = Leads(g[(k + 1) - 1], v)
        BY <1>2, <3>1 DEF IsPath
      <3> QED
        BY <3>1, <3>2
    <2> QED
      BY <2>1, <2>2
  <1>5. /\ \A n \in T : n \in 0 .. K /\ n # 0 /\ size(n) \in Nat /\ size(n) >= 1 /\ size(n) <= K
        /\ \A n \in T : \A l \in BstLinks : bst[n][l] # 0 => bst[n][l] \in T /\ size(bst[n][l]) < size(n)
    <2>1. T \subseteq BstNodes /\ BstNodes \subseteq 0 .. K /\ 0 \notin BstNodes
      BY BstAssumption DEF IsTree, BstNodes
    <2>2. \A n \in T : size(n) >= 1
      BY SubtreeSizes
    <2>3. \A n \in T : \A l \in BstLinks : size(bst[n][l]) < size(n)
      BY SubtreeSizes
    <2>4. \A n \in 0 .. K : size(n) \in Nat /\ size(n) <= K
      BY SubtreeSizes
    <2>5. \A n \in T : \A l \in BstLinks : bst[n][l] # 0 => bst[n][l] \in T
      BY DEF IsTree
    <2> QED
      BY <2>1, <2>2, <2>3, <2>4, <2>5
  <1>6. \A n \in T : Toward(n, v) \in BstLinks
    BY DEF Toward, BstLinks
  <1> DEFINE Fine(k) == g[k] # 0 => g[k] \in T /\ k + size(g[k]) <= K /\ Turns(g[k])
             Good == {k \in 0 .. K : Fine(k)}
  <1>7. 0 \in Good
    <2> SUFFICES ASSUME bst_root # 0 PROVE bst_root \in T /\ 0 + size(bst_root) <= K /\ Turns(bst_root)
      BY <1>3, <1>4
    <2>1. bst_root \in T /\ bst[bst_root].parent = 0
      BY DEF IsTree
    <2>2. 0 + size(bst_root) <= K
      <3> HIDE DEF size, K
      <3> QED
        BY <1>5, <2>1
    <2>3. ASSUME NEW a \in T, NEW l \in BstLinks PROVE bst_root \notin sub[bst[a][l]]
      BY RootIsTop
    <2> QED
      BY <2>1, <2>2, <2>3
  <1>8. ASSUME NEW k \in 0 .. K, k < K, k \in Good PROVE k + 1 \in Good
    <2> SUFFICES ASSUME g[k + 1] # 0
                 PROVE  g[k + 1] \in T /\ (k + 1) + size(g[k + 1]) <= K /\ Turns(g[k + 1])
      BY <1>4, <1>8
    <2> DEFINE p == g[k]
               t == Toward(p, v)
               n == g[k + 1]
    <2>1. p # 0 /\ bst[p].value # v /\ n = bst[p][t]
      BY <1>4, <1>8 DEF Leads
    <2>2. p \in T /\ k + size(p) <= K /\ Turns(p) /\ t \in BstLinks
      BY <1>6, <1>8, <2>1
    <2> HIDE DEF p, t, Turns
    <2>3. n \in T /\ size(n) < size(p) /\ size(n) \in Nat /\ size(p) \in Nat
      BY <1>5, <2>1, <2>2
    <2>4. (k + 1) + size(n) <= K
      <3> HIDE DEF size, K, n
      <3> QED
        BY <1>3, <2>2, <2>3
    <2>5. ASSUME NEW a \in T, NEW l \in BstLinks, n \in sub[bst[a][l]]
          PROVE  l = Toward(a, v) /\ bst[a].value # v
      <3>1. bst[n].parent = p /\ n \in sub[n]
        BY <2>1, <2>2, <2>3, SubtreeSizes DEF IsTree
      <3>2. bst[a][l] # 0 /\ bst[a][l] \in T
        BY <2>5 DEF IsTree
      <3>3. CASE n = bst[a][l]
        <4>1. a = p
          BY <3>1, <3>2, <3>3 DEF IsTree
        <4>2. l = t
          <5>1. sub[bst[p].left] \cap sub[bst[p].right] = {}
            BY <2>2 DEF IsTree
          <5> QED
            BY <2>1, <2>2, <2>5, <3>1, <4>1, <5>1 DEF BstLinks
        <4> QED
          BY <2>1, <4>1, <4>2 DEF t
      <3>4. CASE n # bst[a][l]
        <4>1. p \in sub[bst[a][l]]
          BY <2>5, <3>1, <3>2, <3>4, Subtrees
        <4> QED
          BY <2>2, <4>1 DEF Turns
      <3> QED
        BY <3>3, <3>4
    <2> QED
      BY <2>3, <2>4, <2>5 DEF Turns
  <1>9. \A k \in 0 .. K : Fine(k)
    <2> HIDE DEF Fine
    <2>1. \A k \in 0 .. K : k < K /\ k \in Good => k + 1 \in Good
      BY <1>8
    <2> HIDE DEF Good
    <2>2. \A k \in 0 .. K : k \in Good
      BY <1>3, <1>7, <2>1, BoundedInduction
    <2> QED
      BY <2>2 DEF Good
  <1>10. SearchPath(v) \subseteq T /\ \A n \in SearchPath(v) : Turns(n)
    BY <1>1, <1>9
  <1>11. bst_root # 0 => bst_root \in SearchPath(v)
    BY <1>1, <1>3, <1>4
  <1>12. ASSUME NEW n \in SearchPath(v), bst[n].value # v, bst[n][Toward(n, v)] # 0
         PROVE  bst[n][Toward(n, v)] \in SearchPath(v)
    <2>1. PICK k \in 0 .. K : n = g[k] /\ n # 0
      BY <1>1
    <2>2. n \in T /\ k + size(n) <= K
      BY <1>9, <2>1
    <2>3. k < K
      <3>1. size(n) \in Nat /\ size(n) >= 1
        BY <1>5, <2>2
      <3> HIDE DEF size, K
      <3> QED
        BY <1>3, <2>2, <3>1
    <2>4. k + 1 \in 0 .. K /\ g[k + 1] = bst[n][Toward(n, v)]
      BY <1>4, <1>12, <2>1, <2>3 DEF Leads
    <2> QED
      BY <1>1, <1>12, <2>4
  <1> QED
    BY <1>10, <1>11, <1>12

\* find finds the node of the value, if there is one.
LEMMA Finding ==
  ASSUME NEW sub, IsTree(bst, bst_root, sub), IsOrdered(bst, bst_root, sub), bst_root # 0,
         NEW v \in BstValues
  PROVE  BstFind(v) = {n \in sub[bst_root] : bst[n].is_valid /\ bst[n].value = v}
  <1> DEFINE T == sub[bst_root]
             P == SearchPath(v)
  <1>1. P \subseteq T /\ bst_root \in P /\ bst_root \in T /\ v \in Nat
    <2>1. bst_root \in T /\ v \in Nat
      BY BstAssumption DEF IsTree
    <2>2. P \subseteq T /\ bst_root \in P
      BY Searching
    <2> QED
      BY <2>1, <2>2
  <1>2. CASE ~bst[bst_root].is_valid
    <2>1. T = {bst_root}
      BY <1>2, OrderedValues
    <2> QED
      BY <1>2, <2>1 DEF BstFind
  <1>3. CASE bst[bst_root].is_valid
    <2>1. \A n \in T : bst[n].is_valid /\ bst[n].value \in Nat
      BY <1>3, OrderedValues
    <2>2. ASSUME NEW m \in T, bst[m].value = v PROVE m \in P
      <3> DEFINE Good == {a \in T : a \in P /\ m \in sub[a] => m \in P}
      <3>1. ASSUME NEW a \in T, \A l \in BstLinks : bst[a][l] # 0 => bst[a][l] \in Good
            PROVE  a \in Good
        <4> SUFFICES ASSUME a \in P, m \in sub[a], m # a PROVE m \in P
          OBVIOUS
        <4> DEFINE c == bst[a][Toward(a, v)]
        <4>1. Toward(a, v) \in BstLinks
          BY DEF Toward, BstLinks
        <4>2. bst[a].value # v
          BY <2>2, OrderedValues
        <4>3. m \in sub[c]
          <5>1. m \in sub[bst[a].left] \/ m \in sub[bst[a].right]
            BY DEF IsTree
          <5>2. /\ \A k \in sub[bst[a].left] : bst[k].value < bst[a].value
                /\ \A k \in sub[bst[a].right] : bst[k].value > bst[a].value
            BY DEF IsOrdered
          <5>3. bst[a].value \in Nat
            BY <2>1
          <5> QED
            BY <1>1, <2>2, <5>1, <5>2, <5>3 DEF Toward
        <4>4. c # 0
          BY <4>3 DEF IsTree
        <4>5. c \in P
          BY <4>2, <4>4, Searching
        <4>6. c \in Good
          BY <3>1, <4>1, <4>4
        <4> QED
          BY <4>3, <4>5, <4>6
      <3> HIDE DEF Good
      <3>2. \A a \in T : a \in Good
        BY <3>1, TreeInduction
      <3> QED
        BY <1>1, <3>2 DEF Good
    <2> QED
      BY <1>1, <1>3, <2>1, <2>2 DEF BstFind
  <1> QED
    BY <1>2, <1>3

\* insert puts a value that is not there where the search for it ends.
LEMMA InsertPointFits ==
  ASSUME NEW sub, IsTree(bst, bst_root, sub), bst_root # 0, NEW v,
         \A n \in SearchPath(v) : bst[n].value # v
  PROVE  /\ InsertPoint(v) \in SearchPath(v)
         /\ bst[InsertPoint(v)][Toward(InsertPoint(v), v)] = 0
  <1> DEFINE T == sub[bst_root]
             P == SearchPath(v)
             Ends == \E n \in P : bst[n][Toward(n, v)] = 0
             Good == {a \in T : a \in P => Ends}
  <1>1. P \subseteq T /\ bst_root \in P /\ bst_root \in T
    <2>1. bst_root \in T
      BY DEF IsTree
    <2>2. P \subseteq T /\ bst_root \in P
      BY Searching
    <2> QED
      BY <2>1, <2>2
  <1>2. ASSUME NEW a \in T, \A l \in BstLinks : bst[a][l] # 0 => bst[a][l] \in Good
        PROVE  a \in Good
    <2> SUFFICES ASSUME a \in P, bst[a][Toward(a, v)] # 0 PROVE Ends
      OBVIOUS
    <2>1. bst[a][Toward(a, v)] \in P
      BY Searching
    <2>2. Toward(a, v) \in BstLinks
      BY DEF Toward, BstLinks
    <2> QED
      BY <1>2, <2>1, <2>2
  <1> HIDE DEF Good
  <1>3. \A a \in T : a \in Good
    BY <1>2, TreeInduction
  <1>4. Ends
    BY <1>1, <1>3 DEF Good
  <1> QED
    BY <1>4 DEF InsertPoint

\* Rightmost goes to the node of a subtree that has the greatest value.
GoesRight(n) == IF bst[n].right = 0 THEN n ELSE bst[n].right

\* The node has no right child, and all others below r have lesser values.
LEMMA RightmostIsGreatest ==
  ASSUME NEW sub, IsTree(bst, bst_root, sub), IsOrdered(bst, bst_root, sub),
         bst_root # 0, bst[bst_root].is_valid, NEW r \in sub[bst_root]
  PROVE  /\ Rightmost(r) \in sub[r] /\ bst[Rightmost(r)].right = 0
         /\ \A m \in sub[r] : m # Rightmost(r) => bst[m].value < bst[Rightmost(r)].value
  <1> DEFINE T == sub[bst_root]
             K == BstAddresses
             Rights(at) == at = [k \in 0 .. K |-> IF k = 0 THEN r ELSE GoesRight(at[k - 1])]
             g == CHOOSE at : Rights(at)
             size(n) == Cardinality(sub[n])
  <1>1. Rightmost(r) = g[K]
    BY DEF Rightmost, GoesRight
  <1>2. K \in Nat /\ 0 \in 0 .. K /\ K \in 0 .. K
    BY BstAssumption
  <1>3. Rights(g)
    <2> DEFINE F == [n \in T |-> GoesRight(n)]
    <2>1. ASSUME NEW n \in T PROVE GoesRight(n) \in T
      BY DEF GoesRight, IsTree, BstLinks
    <2>2. F \in [T -> T] /\ r \in T
      BY <2>1
    <2>3. \A n \in T : F[n] = GoesRight(n)
      OBVIOUS
    <2> HIDE DEF F, T, K
    <2>4. PICK h : Iterates(h, F, r, T, K)
      BY <1>2, <2>2, IterationExists
    <2>5. \A k \in 0 .. K : k # 0 => k - 1 \in 0 .. K
      BY <1>2
    <2>6. \A k \in 0 .. K : h[k] = IF k = 0 THEN r ELSE GoesRight(h[k - 1])
      BY <1>2, <2>3, <2>4, <2>5 DEF Iterates
    <2>7. h = [k \in 0 .. K |-> IF k = 0 THEN r ELSE GoesRight(h[k - 1])]
      BY <2>4, <2>6 DEF Iterates
    <2> QED
      BY <2>7
  <1> HIDE DEF g
  <1>4. g[0] = r /\ \A k \in 0 .. K : k < K => k + 1 \in 0 .. K /\ g[k + 1] = GoesRight(g[k])
    <2>1. g[0] = r
      BY <1>2, <1>3
    <2>2. ASSUME NEW k \in 0 .. K, k < K PROVE k + 1 \in 0 .. K /\ g[k + 1] = GoesRight(g[k])
      <3>1. k + 1 \in 0 .. K /\ k + 1 # 0 /\ (k + 1) - 1 = k
        BY <1>2, <2>2
      <3>2. g[k + 1] = GoesRight(g[(k + 1) - 1])
        BY <1>3, <3>1
      <3> QED
        BY <3>1, <3>2
    <2> QED
      BY <2>1, <2>2
  <1> HIDE DEF Rights
  <1>5. /\ \A n \in T : n \in sub[n] /\ size(n) \in Nat /\ size(n) >= 1 /\ size(n) <= K
        /\ \A n \in T : bst[n].right # 0 => bst[n].right \in T /\ size(bst[n].right) < size(n)
                                            /\ sub[bst[n].right] \subseteq sub[n]
    <2>1. T \subseteq 0 .. K
      BY BstAssumption DEF IsTree, BstNodes
    <2>2. \A n \in T : n \in sub[n] /\ size(n) >= 1
      BY SubtreeSizes
    <2>3. \A n \in T : \A l \in BstLinks : size(bst[n][l]) < size(n) /\ sub[bst[n][l]] \subseteq sub[n]
      BY SubtreeSizes
    <2>4. \A n \in 0 .. K : size(n) \in Nat /\ size(n) <= K
      BY SubtreeSizes
    <2>5. \A n \in T : bst[n].right # 0 => bst[n].right \in T
      BY DEF IsTree, BstLinks
    <2> QED
      BY <2>1, <2>2, <2>3, <2>4, <2>5 DEF BstLinks
  <1>6. \A n \in T : bst[n].value \in Nat
    BY OrderedValues
  <1> DEFINE Fine(k) == /\ g[k] \in T /\ g[k] \in sub[r]
                        /\ bst[g[k]].right = 0 \/ k + size(g[k]) <= K
                        /\ \A m \in sub[r] \ sub[g[k]] : bst[m].value < bst[g[k]].value
             Good == {k \in 0 .. K : Fine(k)}
  <1>7. 0 \in Good
    <2>1. size(r) \in Nat /\ size(r) <= K /\ r \in sub[r]
      BY <1>5
    <2>2. 0 + size(r) <= K
      <3> HIDE DEF size, K
      <3> QED
        BY <2>1
    <2> QED
      BY <1>2, <1>4, <2>1, <2>2
  <1>8. ASSUME NEW k \in 0 .. K, k < K, k \in Good PROVE k + 1 \in Good
    <2> DEFINE x == g[k]
               y == bst[x].right
    <2>1. k + 1 \in 0 .. K /\ g[k + 1] = GoesRight(x) /\ Fine(k)
      BY <1>4, <1>8
    <2>2. CASE y = 0
      <3>1. g[k + 1] = x
        BY <2>1, <2>2 DEF GoesRight
      <3> QED
        BY <2>1, <2>2, <3>1
    <2>3. CASE y # 0
      <3>1. g[k + 1] = y /\ x \in T /\ x \in sub[r] /\ k + size(x) <= K
        BY <2>1, <2>3 DEF GoesRight
      <3>2. y \in T /\ y \in sub[r] /\ size(y) < size(x) /\ size(x) \in Nat /\ size(y) \in Nat
        <4>1. sub[x] \subseteq sub[r]
          BY <3>1, Subtrees
        <4> QED
          BY <1>5, <2>3, <3>1, <4>1
      <3>3. (k + 1) + size(y) <= K
        <4> HIDE DEF size, K, x, y
        <4> QED
          BY <1>2, <3>1, <3>2
      <3>4. ASSUME NEW m \in sub[r], m \notin sub[y] PROVE bst[m].value < bst[y].value
        <4>1. bst[y].value > bst[x].value
          BY <1>5, <3>1, <3>2 DEF IsOrdered
        <4>2. bst[m].value \in Nat /\ bst[x].value \in Nat /\ bst[y].value \in Nat
          BY <1>6, <3>1, <3>2, Subtrees
        <4>3. bst[m].value < bst[x].value \/ m = x
          <5>1. CASE m \notin sub[x]
            BY <2>1, <5>1
          <5>2. CASE m \in sub[x]
            <6>1. sub[x] = {x} \cup sub[bst[x].left] \cup sub[y]
              BY <3>1 DEF IsTree
            <6>2. \A q \in sub[bst[x].left] : bst[q].value < bst[x].value
              BY <3>1 DEF IsOrdered
            <6> QED
              BY <3>4, <5>2, <6>1, <6>2
          <5> QED
            BY <5>1, <5>2
        <4> QED
          BY <4>1, <4>2, <4>3
      <3>5. Fine(k + 1)
        BY <3>1, <3>2, <3>3, <3>4
      <3> QED
        BY <2>1, <3>5
    <2> QED
      BY <2>2, <2>3
  <1>9. Fine(K)
    <2> HIDE DEF Fine
    <2>1. \A k \in 0 .. K : k < K /\ k \in Good => k + 1 \in Good
      BY <1>8
    <2> HIDE DEF Good
    <2>2. \A k \in 0 .. K : k \in Good
      BY <1>2, <1>7, <2>1, BoundedInduction
    <2> QED
      BY <1>2, <2>2 DEF Good
  <1>10. bst[g[K]].right = 0
    <2>1. g[K] \in T /\ size(g[K]) \in Nat /\ size(g[K]) >= 1
      BY <1>5, <1>9
    <2>2. ~(K + size(g[K]) <= K)
      <3> HIDE DEF size, K
      <3> QED
        BY <1>2, <2>1
    <2> QED
      BY <1>9, <2>2
  <1>11. ASSUME NEW m \in sub[r], m # g[K] PROVE bst[m].value < bst[g[K]].value
    <2>1. CASE m \notin sub[g[K]]
      BY <1>9, <1>11, <2>1
    <2>2. CASE m \in sub[g[K]]
      <3>1. sub[g[K]] = {g[K]} \cup sub[bst[g[K]].left] \cup {}
        BY <1>9, <1>10 DEF IsTree
      <3> QED
        BY <1>9, <1>11, <2>2, <3>1 DEF IsOrdered
    <2> QED
      BY <2>1, <2>2
  <1> QED
    BY <1>1, <1>9, <1>10, <1>11

\* What the invariant says of the tree.
LEMMA InvMeansASet ==
  ASSUME BstInv
  PROVE  BstIsASet
  <1>1. PICK sub : StandsFor(bst, bst_root, bst_set, sub)
    BY DEF BstInv
  <1> DEFINE T == sub[bst_root]
  <1>2. IsTree(bst, bst_root, sub) /\ IsOrdered(bst, bst_root, sub)
    BY <1>1 DEF StandsFor
  <1>3. Reached = T /\ \A n \in T : \A l \in BstLinks : Below(n, l) = sub[bst[n][l]]
    BY <1>2, ReachedIsTree
  <1>4. BstIsOrdered
    <2>1. ASSUME NEW n \in T
          PROVE  /\ Below(n, "left") = sub[bst[n].left] /\ Below(n, "right") = sub[bst[n].right]
                 /\ \A m \in {bst[n].left, bst[n].right} \ {0} : bst[m].parent = n
      <3>1. \A l \in BstLinks : bst[n][l] # 0 => bst[bst[n][l]].parent = n
        BY <1>2 DEF IsTree
      <3> QED
        BY <1>3, <3>1 DEF BstLinks
    <2>2. bst_root # 0 => bst[bst_root].parent = 0
      BY <1>2 DEF IsTree
    <2> QED
      BY <1>2, <1>3, <2>1, <2>2 DEF BstIsOrdered, IsOrdered
  <1>5. BstLeaksOnlyEmptyRoots
    BY <1>1, <1>3 DEF BstLeaksOnlyEmptyRoots, StandsFor
  <1>6. bst_set = {bst[n].value : n \in Visited} /\ Visited \subseteq T
    <2>1. CASE bst_root # 0 /\ bst[bst_root].is_valid
      <3>1. Visited = T /\ \A n \in T : bst[n].is_valid
        BY <1>2, <1>3, <2>1, OrderedValues DEF Visited
      <3> QED
        BY <1>1, <3>1 DEF StandsFor, Contents
    <2>2. CASE bst_root # 0 /\ ~bst[bst_root].is_valid
      <3>1. Visited = {} /\ T = {bst_root}
        BY <1>2, <2>2, OrderedValues DEF Visited
      <3> QED
        BY <1>1, <2>2, <3>1 DEF StandsFor, Contents
    <2>3. CASE bst_root = 0
      <3>1. Visited = {} /\ T = {}
        BY <1>2, <2>3 DEF Visited, IsTree
      <3> QED
        BY <1>1, <3>1 DEF StandsFor, Contents
    <2> QED
      BY <2>1, <2>2, <2>3
  <1>7. Cardinality(Visited) = Cardinality(bst_set)
    <2> DEFINE f == [n \in Visited |-> bst[n].value]
    <2>1. IsFiniteSet(Visited)
      <3>1. IsFiniteSet(BstNodes)
        BY BstAssumption, FS_Interval DEF BstNodes
      <3>2. Visited \subseteq BstNodes
        BY <1>2, <1>6 DEF IsTree
      <3> QED
        BY <3>1, <3>2, FS_Subset
    <2>2. f \in Surjection(Visited, bst_set)
      <3>1. f \in [Visited -> bst_set]
        BY <1>6
      <3>2. \A v \in bst_set : \E n \in Visited : f[n] = v
        BY <1>6
      <3> QED
        BY <3>1, <3>2 DEF Surjection
    <2>3. \A n \in Visited : \A m \in Visited : f[n] = f[m] => n = m
      BY <1>2, <1>6, OrderedValues
    <2> HIDE DEF f
    <2>4. f \in Injection(Visited, bst_set)
      BY <2>2, <2>3 DEF Surjection, Injection, IsInjective
    <2> QED
      BY <2>1, <2>2, <2>4, FS_Surjection
  <1>8. ASSUME bst_root # 0, NEW v \in BstValues PROVE (BstFind(v) # {}) = (v \in bst_set)
    <2>1. BstFind(v) = {n \in T : bst[n].is_valid /\ bst[n].value = v}
      BY <1>2, <1>8, Finding
    <2>2. v \in bst_set <=> \E n \in T : bst[n].is_valid /\ bst[n].value = v
      BY <1>1 DEF StandsFor, Contents
    <2>3. (BstFind(v) # {}) <=> v \in bst_set
      BY <2>1, <2>2
    <2> QED
      BY <2>3
  <1> QED
    BY <1>4, <1>5, <1>6, <1>7, <1>8 DEF BstIsASet, BstContents

-----------------------------------------------------------------------------
(* What the calls do to memory. *)

Fields == BstLinks \cup {"parent"}

\* The cell x of mem2 has the value that the cell y of mem has.
SameValue(mem2, x, mem, y) == mem2[x].value = mem[y].value /\ mem2[x].is_valid = mem[y].is_valid

\* SetLink changes one field of one node.
LEMMA SetLinkCells ==
  ASSUME NEW mem, BstMemory(mem), NEW n \in DOMAIN mem, NEW link \in Fields,
         NEW m \in 0 .. BstAddresses
  PROVE  /\ BstMemory(SetLink(mem, n, link, m)) /\ DOMAIN SetLink(mem, n, link, m) = DOMAIN mem
         /\ \A x \in DOMAIN mem :
              /\ \A f \in Fields :
                   SetLink(mem, n, link, m)[x][f] = IF x = n /\ f = link THEN m ELSE mem[x][f]
              /\ SameValue(SetLink(mem, n, link, m), x, mem, x)
  <1> DEFINE c == [mem[n] EXCEPT ![link] = m]
             new == [mem EXCEPT ![n] = c]
  <1>1. mem[n] \in BstCells /\ mem \in [DOMAIN mem -> BstCells] /\ DOMAIN mem \subseteq BstNodes
    BY DEF BstMemory
  <1>2. /\ c \in BstCells /\ c.value = mem[n].value /\ c.is_valid = mem[n].is_valid
        /\ \A f \in Fields : c[f] = IF f = link THEN m ELSE mem[n][f]
    <2>1. CASE link = "left"
      BY <1>1, <2>1 DEF BstCells, Fields, BstLinks
    <2>2. CASE link = "right"
      BY <1>1, <2>2 DEF BstCells, Fields, BstLinks
    <2>3. CASE link = "parent"
      BY <1>1, <2>3 DEF BstCells, Fields, BstLinks
    <2> QED
      BY <2>1, <2>2, <2>3 DEF Fields, BstLinks
  <1>3. SetLink(mem, n, link, m) = new
    BY DEF SetLink
  <1> HIDE DEF c
  <1>4. /\ DOMAIN new = DOMAIN mem /\ new \in [DOMAIN mem -> BstCells]
        /\ \A x \in DOMAIN mem : new[x] = IF x = n THEN c ELSE mem[x]
    BY <1>1, <1>2
  <1> HIDE DEF new
  <1> QED
    BY <1>1, <1>2, <1>3, <1>4 DEF BstMemory, SameValue

\* Relink does, unless there is no node.
LEMMA RelinkCells ==
  ASSUME NEW mem, BstMemory(mem), NEW n \in DOMAIN mem \cup {0}, NEW p \in 0 .. BstAddresses
  PROVE  /\ BstMemory(Relink(mem, n, p)) /\ DOMAIN Relink(mem, n, p) = DOMAIN mem
         /\ \A x \in DOMAIN mem :
              /\ \A l \in BstLinks : Relink(mem, n, p)[x][l] = mem[x][l]
              /\ Relink(mem, n, p)[x].parent = IF x = n THEN p ELSE mem[x].parent
              /\ SameValue(Relink(mem, n, p), x, mem, x)
  <1>1. CASE n = 0
    <2>1. \A x \in DOMAIN mem : x # n
      BY <1>1, BstAssumption DEF BstMemory, BstNodes
    <2> QED
      BY <1>1, <2>1 DEF Relink, SameValue
  <1>2. CASE n # 0
    <2>1. Relink(mem, n, p) = SetLink(mem, n, "parent", p) /\ n \in DOMAIN mem /\ "parent" \in Fields
      BY <1>2 DEF Relink, Fields
    <2>2. \A l \in BstLinks : l \in Fields /\ l # "parent"
      BY DEF Fields, BstLinks
    <2>3. /\ BstMemory(SetLink(mem, n, "parent", p)) /\ DOMAIN SetLink(mem, n, "parent", p) = DOMAIN mem
          /\ \A x \in DOMAIN mem :
              /\ \A f \in Fields :
                   SetLink(mem, n, "parent", p)[x][f] = IF x = n /\ f = "parent" THEN p ELSE mem[x][f]
              /\ SameValue(SetLink(mem, n, "parent", p), x, mem, x)
      BY <2>1, SetLinkCells
    <2> QED
      BY <2>1, <2>2, <2>3
  <1> QED
    BY <1>1, <1>2

\* Splice takes n out and puts child in its place.
Spliced(mem, n, child, new) ==
  /\ BstMemory(new) /\ DOMAIN new = DOMAIN mem \ {n}
  /\ \A x \in DOMAIN mem \ {n} :
       /\ \A l \in BstLinks :
            new[x][l] = IF x = mem[n].parent /\ l = LinkTo(mem, n) THEN child ELSE mem[x][l]
       /\ new[x].parent = IF x = child THEN mem[n].parent ELSE mem[x].parent
       /\ SameValue(new, x, mem, x)

\* The cells after Splice.
LEMMA SpliceCells ==
  ASSUME NEW mem, BstMemory(mem), NEW n \in DOMAIN mem, mem[n].parent \in DOMAIN mem,
         NEW child \in DOMAIN mem \cup {0}
  PROVE  Spliced(mem, n, child, Splice(mem, n, child))
  <1> DEFINE p == mem[n].parent
             side == LinkTo(mem, n)
             hung == SetLink(mem, p, side, child)
             back == Relink(hung, child, p)
  <1>1. side \in BstLinks /\ side \in Fields /\ side # "parent"
    BY DEF LinkTo, BstLinks, Fields
  <1>2. child \in 0 .. BstAddresses /\ p \in DOMAIN mem /\ p \in 0 .. BstAddresses
    BY BstAssumption DEF BstMemory, BstNodes
  <1> HIDE DEF p, side
  <1>3. /\ BstMemory(hung) /\ DOMAIN hung = DOMAIN mem
        /\ \A x \in DOMAIN mem :
             /\ \A f \in Fields : hung[x][f] = IF x = p /\ f = side THEN child ELSE mem[x][f]
             /\ SameValue(hung, x, mem, x)
    BY <1>1, <1>2, SetLinkCells
  <1> HIDE DEF hung
  <1>4. /\ BstMemory(back) /\ DOMAIN back = DOMAIN hung
        /\ \A x \in DOMAIN hung :
             /\ \A l \in BstLinks : back[x][l] = hung[x][l]
             /\ back[x].parent = IF x = child THEN p ELSE hung[x].parent
             /\ SameValue(back, x, hung, x)
    BY <1>2, <1>3, RelinkCells
  <1>5. Splice(mem, n, child) = [m \in DOMAIN mem \ {n} |-> back[m]]
    BY <1>3, <1>4 DEF Splice, Deleted, back, hung, p, side
  <1> HIDE DEF back
  <1>6. \A x \in DOMAIN mem \ {n} :
          /\ \A l \in BstLinks : back[x][l] = IF x = p /\ l = side THEN child ELSE mem[x][l]
          /\ back[x].parent = IF x = child THEN p ELSE mem[x].parent
          /\ SameValue(back, x, mem, x)
    BY <1>1, <1>3, <1>4 DEF Fields, SameValue
  <1>7. \A x \in DOMAIN mem \ {n} : Splice(mem, n, child)[x] = back[x]
    BY <1>5
  <1>8. BstMemory(Splice(mem, n, child)) /\ DOMAIN Splice(mem, n, child) = DOMAIN mem \ {n}
    BY <1>3, <1>4, <1>5 DEF BstMemory
  <1> QED
    BY <1>6, <1>7, <1>8 DEF p, side, SameValue, Spliced

Without(sub, n) == [x \in 0 .. BstAddresses |-> sub[x] \ {n}]

\* A node that is not the root and has one child or none: the tree without it is a
\* tree, and every subtree is what it was without the node.
SplicedTree(mem, root, sub, n, new) ==
  /\ IsTree(new, root, Without(sub, n)) /\ Without(sub, n)[root] = sub[root] \ {n}
  /\ \A m \in sub[root] \ {n} :
       /\ \A l \in BstLinks : /\ Without(sub, n)[new[m][l]] = sub[mem[m][l]] \ {n}
                              /\ new[m][l] # 0 => mem[m][l] # 0
       /\ SameValue(new, m, mem, m)
  /\ DOMAIN new = DOMAIN mem \ {n}
  /\ \A x \in DOMAIN mem \ sub[root] : new[x].parent = mem[x].parent /\ SameValue(new, x, mem, x)

\* erase of such a node leaves that tree.
LEMMA SpliceTree ==
  ASSUME NEW mem, NEW root, NEW sub, IsTree(mem, root, sub), NEW n \in sub[root], n # root,
         NEW k \in BstLinks, NEW child, child = mem[n][k],
         \A l \in BstLinks : l # k => mem[n][l] = 0
  PROVE  SplicedTree(mem, root, sub, n, Splice(mem, n, child))
  <1> DEFINE T == sub[root]
             new == Splice(mem, n, child)
             p == mem[n].parent
             side == LinkTo(mem, n)
             sub2 == Without(sub, n)
  <1>1. /\ BstMemory(mem) /\ root \in 0 .. BstAddresses /\ T \subseteq DOMAIN mem
        /\ T \subseteq BstNodes /\ 0 \notin T /\ BstNodes \subseteq 0 .. BstAddresses
        /\ root \in T /\ root # 0 /\ mem[root].parent = 0 /\ 0 \in 0 .. BstAddresses
        /\ sub \in [0 .. BstAddresses -> SUBSET BstNodes] /\ sub[0] = {}
    BY BstAssumption DEF IsTree, BstNodes
  <1>2. /\ p \in T /\ p # n /\ side \in BstLinks /\ mem[p][side] = n
        /\ \A m \in T : \A l \in BstLinks : mem[m][l] = n => m = p /\ l = side
    BY Parents
  <1>3. /\ child \in T \cup {0} /\ n \notin sub[child] /\ sub[n] = {n} \cup sub[child]
        /\ child # 0 => mem[child].parent = n /\ child \in sub[child]
    <2>1. child \in T \cup {0} /\ n \notin sub[child] /\ (child # 0 => mem[child].parent = n)
      BY DEF IsTree
    <2>2. child # 0 => child \in sub[child]
      BY <2>1, SubtreeSizes
    <2>3. sub[n] = {n} \cup sub[mem[n].left] \cup sub[mem[n].right]
      BY DEF IsTree
    <2>4. sub[mem[n].left] \cup sub[mem[n].right] = sub[child]
      BY <1>1 DEF BstLinks
    <2> QED
      BY <2>1, <2>2, <2>3, <2>4
  <1>4. /\ BstMemory(new) /\ DOMAIN new = DOMAIN mem \ {n}
        /\ \A x \in DOMAIN mem \ {n} :
             /\ \A l \in BstLinks : new[x][l] = IF x = p /\ l = side THEN child ELSE mem[x][l]
             /\ new[x].parent = IF x = child THEN p ELSE mem[x].parent
             /\ SameValue(new, x, mem, x)
    <2>1. n \in DOMAIN mem /\ mem[n].parent \in DOMAIN mem /\ child \in DOMAIN mem \cup {0}
      BY <1>1, <1>2, <1>3
    <2>2. Spliced(mem, n, child, new)
      BY <1>1, <2>1, SpliceCells
    <2> QED
      BY <2>2 DEF Spliced
  <1> HIDE DEF new, p, side, T
  <1>5. \A x \in 0 .. BstAddresses : sub2[x] = sub[x] \ {n}
    BY DEF Without
  <1> USE DEF T
  <1>6. sub2 \in [0 .. BstAddresses -> SUBSET BstNodes] /\ sub2[0] = {} /\ sub2[root] = T \ {n}
    BY <1>1 DEF Without, T
  <1> HIDE DEF sub2
  <1>7. ASSUME NEW m \in T, m # n, NEW l \in BstLinks
        PROVE  /\ new[m][l] \in (T \ {n}) \cup {0} /\ sub2[new[m][l]] = sub[mem[m][l]] \ {n}
               /\ m \notin sub2[new[m][l]]
               /\ new[m][l] # 0 => mem[m][l] # 0 /\ new[new[m][l]].parent = m
    <2>1. /\ mem[m][l] \in T \cup {0} /\ m \notin sub[mem[m][l]]
          /\ mem[m][l] # 0 => mem[mem[m][l]].parent = m
      BY DEF IsTree
    <2>2. m \in DOMAIN mem \ {n} /\ n # 0
      BY <1>1, <1>7
    <2>3. CASE mem[m][l] = n
      <3>1. new[m][l] = child /\ m = p
        BY <1>2, <1>4, <2>2, <2>3
      <3>2. child # n
        BY <1>1, <1>3
      <3>3. sub2[child] = sub[child] \ {n}
        BY <1>1, <1>3, <1>5
      <3>4. child # 0 => new[child].parent = p
        BY <1>1, <1>3, <1>4, <3>2
      <3> QED
        BY <1>3, <2>1, <2>2, <2>3, <3>1, <3>2, <3>3, <3>4
    <2>4. CASE mem[m][l] # n
      <3>1. new[m][l] = mem[m][l]
        BY <1>2, <1>4, <2>2, <2>4
      <3>2. sub2[mem[m][l]] = sub[mem[m][l]] \ {n}
        BY <1>1, <1>5, <2>1
      <3>3. mem[m][l] # 0 => new[mem[m][l]].parent = m
        <4> SUFFICES ASSUME mem[m][l] # 0 PROVE new[mem[m][l]].parent = m
          OBVIOUS
        <4>1. mem[m][l] # child
          BY <1>3, <1>7, <2>1
        <4>2. mem[m][l] \in DOMAIN mem \ {n}
          BY <1>1, <2>1, <2>4
        <4> QED
          BY <1>4, <2>1, <4>1, <4>2
      <3> QED
        BY <2>1, <2>4, <3>1, <3>2, <3>3
    <2> QED
      BY <2>3, <2>4
  <1>8. ASSUME NEW m \in T, m # n
        PROVE  /\ sub2[m] = {m} \cup sub2[new[m].left] \cup sub2[new[m].right]
               /\ sub2[new[m].left] \cap sub2[new[m].right] = {}
    <2>1. /\ sub[m] = {m} \cup sub[mem[m].left] \cup sub[mem[m].right]
          /\ sub[mem[m].left] \cap sub[mem[m].right] = {}
      BY DEF IsTree
    <2>2. sub2[m] = sub[m] \ {n}
      BY <1>1, <1>5
    <2>3. sub2[new[m].left] = sub[mem[m].left] \ {n} /\ sub2[new[m].right] = sub[mem[m].right] \ {n}
      BY <1>7, <1>8 DEF BstLinks
    <2> QED
      BY <1>8, <2>1, <2>2, <2>3
  <1>9. root \in sub2[root] /\ new[root].parent = 0
    <2>1. root # child
      BY <1>1, <1>3
    <2>2. root \in DOMAIN mem \ {n}
      BY <1>1
    <2> QED
      BY <1>1, <1>4, <1>6, <2>1, <2>2
  <1>10. IsTree(new, root, sub2)
    BY <1>1, <1>4, <1>6, <1>7, <1>8, <1>9 DEF IsTree
  <1>11. \A x \in DOMAIN mem \ T : new[x].parent = mem[x].parent /\ SameValue(new, x, mem, x)
    <2>1. \A x \in DOMAIN mem \ T : x # n /\ x # child
      BY <1>1, <1>3 DEF BstMemory, BstNodes
    <2> QED
      BY <1>4, <2>1
  <1>12. \A m \in T \ {n} : SameValue(new, m, mem, m)
    BY <1>1, <1>4
  <1>13. SplicedTree(mem, root, sub, n, new)
    <2>1. sub2 = Without(sub, n)
      BY DEF sub2
    <2> QED
      BY <1>4, <1>6, <1>7, <1>10, <1>11, <1>12, <2>1 DEF SplicedTree
  <1> QED
    BY <1>13 DEF new

\* A tree is the links of its cells.
LEMMA SameLinks ==
  ASSUME NEW mem, NEW root, NEW sub, IsTree(mem, root, sub), NEW mem2, BstMemory(mem2),
         DOMAIN mem2 = DOMAIN mem, \A x \in DOMAIN mem : \A f \in Fields : mem2[x][f] = mem[x][f]
  PROVE  IsTree(mem2, root, sub)
  <1>1. sub[root] \subseteq DOMAIN mem
    BY DEF IsTree
  <1>2. \A x \in DOMAIN mem : /\ mem2[x].left = mem[x].left /\ mem2[x].right = mem[x].right
                             /\ mem2[x].parent = mem[x].parent
                             /\ \A l \in BstLinks : mem2[x][l] = mem[x][l]
    BY DEF Fields, BstLinks
  <1>3. ASSUME NEW n \in sub[root]
        PROVE  /\ sub[n] = {n} \cup sub[mem2[n].left] \cup sub[mem2[n].right]
               /\ sub[mem2[n].left] \cap sub[mem2[n].right] = {}
    BY <1>1, <1>2 DEF IsTree
  <1>4. ASSUME NEW n \in sub[root], NEW l \in BstLinks
        PROVE  /\ mem2[n][l] \in sub[root] \cup {0} /\ n \notin sub[mem2[n][l]]
               /\ mem2[n][l] # 0 => mem2[mem2[n][l]].parent = n
    <2>1. /\ mem[n][l] \in sub[root] \cup {0} /\ n \notin sub[mem[n][l]]
          /\ mem[n][l] # 0 => mem[mem[n][l]].parent = n
      BY DEF IsTree
    <2> QED
      BY <1>1, <1>2, <2>1
  <1>5. root # 0 => root \in sub[root] /\ mem2[root].parent = 0
    BY <1>1, <1>2 DEF IsTree
  <1> QED
    BY <1>1, <1>3, <1>4, <1>5 DEF IsTree

\* The values of the nodes other than d are in order, in a tree without an invalid node.
OrderedBut(mem, root, sub, d) ==
  /\ sub[0] = {}
  /\ \A m \in sub[root] :
       /\ mem[m].is_valid /\ mem[m].value \in BstValues /\ sub[m] \subseteq sub[root]
       /\ \A l \in BstLinks : mem[m][l] \in sub[root] \cup {0}
       /\ m # d => /\ \A x \in sub[mem[m].left] : x # d => mem[x].value < mem[m].value
                   /\ \A x \in sub[mem[m].right] : x # d => mem[x].value > mem[m].value
  /\ \A x \in DOMAIN mem \ sub[root] : ~mem[x].is_valid /\ mem[x].parent = 0

\* The tree without the node d stands for the values of the other nodes.
LEMMA SpliceStands ==
  ASSUME NEW mem, NEW root, NEW sub, NEW d \in sub[root], NEW new,
         SplicedTree(mem, root, sub, d, new), OrderedBut(mem, root, sub, d)
  PROVE  StandsFor(new, root, {mem[m].value : m \in sub[root] \ {d}}, Without(sub, d))
  <1> DEFINE T == sub[root]
             sub2 == Without(sub, d)
  <1>1. /\ IsTree(new, root, sub2) /\ sub2[root] = T \ {d} /\ DOMAIN new = DOMAIN mem \ {d}
        /\ \A m \in T \ {d} : /\ \A l \in BstLinks : sub2[new[m][l]] = sub[mem[m][l]] \ {d}
                              /\ new[m].value = mem[m].value /\ new[m].is_valid = mem[m].is_valid
        /\ \A x \in DOMAIN mem \ T : new[x].parent = mem[x].parent /\ new[x].is_valid = mem[x].is_valid
    <2>1. IsTree(new, root, sub2) /\ sub2[root] = T \ {d} /\ DOMAIN new = DOMAIN mem \ {d}
      BY DEF SplicedTree
    <2>3. \A m \in T \ {d} : \A l \in BstLinks : sub2[new[m][l]] = sub[mem[m][l]] \ {d}
      BY DEF SplicedTree
    <2>2. /\ \A m \in T \ {d} : SameValue(new, m, mem, m)
          /\ \A x \in DOMAIN mem \ T : new[x].parent = mem[x].parent /\ SameValue(new, x, mem, x)
      BY DEF SplicedTree
    <2> QED
      BY <2>1, <2>2, <2>3 DEF SameValue
  <1>0. /\ sub[0] = {}
        /\ \A m \in T : /\ mem[m].is_valid /\ mem[m].value \in BstValues /\ sub[m] \subseteq T
                        /\ \A l \in BstLinks : mem[m][l] \in T \cup {0}
                        /\ m # d => /\ \A x \in sub[mem[m].left] : x # d => mem[x].value < mem[m].value
                                    /\ \A x \in sub[mem[m].right] : x # d => mem[x].value > mem[m].value
        /\ \A x \in DOMAIN mem \ T : ~mem[x].is_valid /\ mem[x].parent = 0
    BY DEF OrderedBut
  <1> HIDE DEF sub2
  <1>2. ASSUME NEW m \in T \ {d}
        PROVE  /\ new[m].is_valid /\ new[m].value \in BstValues
               /\ \A x \in sub2[new[m].left] : new[x].value < new[m].value
               /\ \A x \in sub2[new[m].right] : new[x].value > new[m].value
    <2>1. sub2[new[m].left] = sub[mem[m].left] \ {d} /\ sub2[new[m].right] = sub[mem[m].right] \ {d}
      BY <1>1 DEF BstLinks
    <2>2. sub[mem[m].left] \subseteq T /\ sub[mem[m].right] \subseteq T
      BY <1>0 DEF BstLinks
    <2>3. \A x \in T \ {d} : new[x].value = mem[x].value
      BY <1>1
    <2> QED
      BY <1>0, <1>1, <2>1, <2>2, <2>3
  <1>3. IsOrdered(new, root, sub2)
    BY <1>1, <1>2 DEF IsOrdered
  <1>4. {mem[m].value : m \in T \ {d}} = Contents(new, T \ {d})
    <2>1. {m \in T \ {d} : new[m].is_valid} = T \ {d}
      BY <1>2
    <2>2. \A m \in T \ {d} : new[m].value = mem[m].value
      BY <1>1
    <2> QED
      BY <2>1, <2>2 DEF Contents
  <1>5. \A x \in DOMAIN new \ sub2[root] : ~new[x].is_valid /\ new[x].parent = 0
    BY <1>0, <1>1
  <1>6. StandsFor(new, root, {mem[m].value : m \in T \ {d}}, sub2)
    BY <1>1, <1>3, <1>4, <1>5 DEF StandsFor
  <1> QED
    BY <1>6 DEF sub2

\* Absorb gives the root the value and the links of its only child.
Absorbed(mem, root, child, new) ==
  /\ BstMemory(new) /\ DOMAIN new = DOMAIN mem \ {child}
  /\ \A x \in DOMAIN mem \ {child} :
       /\ \A l \in BstLinks : new[x][l] = IF x = root THEN mem[child][l] ELSE mem[x][l]
       /\ new[x].parent = IF x \in {mem[child].left, mem[child].right} THEN root ELSE mem[x].parent
       /\ new[x].is_valid = mem[x].is_valid
       /\ new[x].value = IF x = root THEN mem[child].value ELSE mem[x].value

\* The cells after Absorb.
LEMMA AbsorbCells ==
  ASSUME NEW mem, BstMemory(mem), NEW root \in DOMAIN mem, NEW child \in DOMAIN mem,
         mem[child].left \in DOMAIN mem \cup {0}, mem[child].right \in DOMAIN mem \cup {0}
  PROVE  Absorbed(mem, root, child, Absorb(mem, root, child))
  <1> DEFINE c == mem[child]
             cell == [mem[root] EXCEPT !.value = c.value, !.left = c.left, !.right = c.right]
             moved == [mem EXCEPT ![root] = cell]
             first == Relink(moved, c.left, root)
             second == Relink(first, c.right, root)
             new == [m \in DOMAIN mem \ {child} |-> second[m]]
  <1>1. /\ DOMAIN mem \subseteq BstNodes /\ mem \in [DOMAIN mem -> BstCells]
        /\ mem[root] \in BstCells /\ c \in BstCells /\ root \in 0 .. BstAddresses
    BY BstAssumption DEF BstMemory, BstNodes
  <1>2. /\ cell \in BstCells /\ cell.value = c.value /\ cell.left = c.left /\ cell.right = c.right
        /\ cell.parent = mem[root].parent /\ cell.is_valid = mem[root].is_valid
    BY <1>1 DEF BstCells
  <1> HIDE DEF cell
  <1>3. /\ DOMAIN moved = DOMAIN mem /\ moved \in [DOMAIN mem -> BstCells]
        /\ \A x \in DOMAIN mem : moved[x] = IF x = root THEN cell ELSE mem[x]
    BY <1>1, <1>2
  <1>4. BstMemory(moved) /\ c.left \in DOMAIN moved \cup {0} /\ c.right \in DOMAIN moved \cup {0}
    BY <1>1, <1>3 DEF BstMemory
  <1> HIDE DEF moved, c
  <1>5. /\ BstMemory(first) /\ DOMAIN first = DOMAIN moved
        /\ \A x \in DOMAIN moved :
              /\ \A l \in BstLinks : first[x][l] = moved[x][l]
              /\ first[x].parent = IF x = c.left THEN root ELSE moved[x].parent
              /\ SameValue(first, x, moved, x)
    BY <1>1, <1>4, RelinkCells
  <1> HIDE DEF first
  <1>6. /\ BstMemory(second) /\ DOMAIN second = DOMAIN first
        /\ \A x \in DOMAIN first :
              /\ \A l \in BstLinks : second[x][l] = first[x][l]
              /\ second[x].parent = IF x = c.right THEN root ELSE first[x].parent
              /\ SameValue(second, x, first, x)
    BY <1>1, <1>4, <1>5, RelinkCells
  <1>7. Absorb(mem, root, child) = new
    BY <1>3, <1>5, <1>6 DEF Absorb, Deleted, second, first, moved, cell, c
  <1> HIDE DEF second
  <1>8. \A x \in DOMAIN mem \ {child} : new[x] = second[x]
    OBVIOUS
  <1>9. ASSUME NEW x \in DOMAIN mem \ {child}
        PROVE  /\ \A l \in BstLinks : second[x][l] = moved[x][l]
               /\ second[x].parent = IF x \in {c.left, c.right} THEN root ELSE moved[x].parent
               /\ second[x].is_valid = moved[x].is_valid /\ second[x].value = moved[x].value
    <2>1. x \in DOMAIN moved /\ x \in DOMAIN first
      BY <1>3, <1>5
    <2>2. SameValue(second, x, first, x) /\ SameValue(first, x, moved, x)
      BY <1>5, <1>6, <2>1
    <2>3. \A l \in BstLinks : second[x][l] = moved[x][l]
      BY <1>5, <1>6, <2>1
    <2>4. second[x].parent = IF x \in {c.left, c.right} THEN root ELSE moved[x].parent
      BY <1>5, <1>6, <2>1
    <2> QED
      BY <2>2, <2>3, <2>4 DEF SameValue
  <1>10. ASSUME NEW x \in DOMAIN mem
         PROVE  /\ \A l \in BstLinks : moved[x][l] = IF x = root THEN c[l] ELSE mem[x][l]
                /\ moved[x].parent = mem[x].parent /\ moved[x].is_valid = mem[x].is_valid
                /\ moved[x].value = IF x = root THEN c.value ELSE mem[x].value
    BY <1>2, <1>3 DEF BstLinks
  <1>11. BstMemory(new) /\ DOMAIN new = DOMAIN mem \ {child}
    BY <1>3, <1>5, <1>6 DEF BstMemory
  <1> HIDE DEF new
  <1>12. Absorbed(mem, root, child, new)
    BY <1>8, <1>9, <1>10, <1>11 DEF Absorbed, c
  <1> QED
    BY <1>7, <1>12

\* The root with one child, after it: a tree without the child's node.
LEMMA AbsorbTree ==
  ASSUME NEW mem, NEW root, NEW sub, IsTree(mem, root, sub), root # 0,
         NEW k \in BstLinks, NEW child, child = mem[root][k], child # 0,
         \A l \in BstLinks : l # k => mem[root][l] = 0
  PROVE  /\ Absorbed(mem, root, child, Absorb(mem, root, child))
         /\ IsTree(Absorb(mem, root, child), root, Without(sub, child))
         /\ Without(sub, child)[root] = sub[root] \ {child}
         /\ child \in sub[root] /\ child # root
         /\ \A m \in sub[root] \ {child} : \A l \in BstLinks :
              Without(sub, child)[Absorb(mem, root, child)[m][l]] =
                sub[mem[IF m = root THEN child ELSE m][l]]
  <1> DEFINE T == sub[root]
             new == Absorb(mem, root, child)
             sub2 == Without(sub, child)
  <1>1. /\ BstMemory(mem) /\ root \in 0 .. BstAddresses /\ T \subseteq DOMAIN mem
        /\ T \subseteq BstNodes /\ 0 \notin T /\ BstNodes \subseteq 0 .. BstAddresses
        /\ root \in T /\ mem[root].parent = 0 /\ 0 \in 0 .. BstAddresses
        /\ sub \in [0 .. BstAddresses -> SUBSET BstNodes] /\ sub[0] = {}
    BY BstAssumption DEF IsTree, BstNodes
  <1>2. /\ child \in T /\ mem[child].parent = root /\ child \in sub[child] /\ root \notin sub[child]
        /\ child # root
    <2>1. child \in T /\ mem[child].parent = root /\ root \notin sub[child]
      BY <1>1 DEF IsTree
    <2>2. child \in sub[child]
      BY <2>1, SubtreeSizes
    <2> QED
      BY <2>1, <2>2
  <1>3. T = {root} \cup sub[child]
    <2>1. T = {root} \cup sub[mem[root].left] \cup sub[mem[root].right]
      BY <1>1 DEF IsTree
    <2>2. sub[mem[root].left] \cup sub[mem[root].right] = sub[child]
      BY <1>1 DEF BstLinks
    <2> QED
      BY <2>1, <2>2
  <1>4. \A m \in T : \A l \in BstLinks :
          /\ mem[m][l] \in T \cup {0} /\ m \notin sub[mem[m][l]] /\ mem[m][l] # root
          /\ mem[m][l] # 0 => mem[mem[m][l]].parent = m
          /\ m # root => mem[m][l] # child
    <2> SUFFICES ASSUME NEW m \in T, NEW l \in BstLinks
                 PROVE  /\ mem[m][l] \in T \cup {0} /\ m \notin sub[mem[m][l]] /\ mem[m][l] # root
                        /\ mem[m][l] # 0 => mem[mem[m][l]].parent = m
                        /\ m # root => mem[m][l] # child
      OBVIOUS
    <2>1. /\ mem[m][l] \in T \cup {0} /\ m \notin sub[mem[m][l]]
          /\ mem[m][l] # 0 => mem[mem[m][l]].parent = m
      BY DEF IsTree
    <2>2. mem[m][l] # root
      BY <1>1, <2>1
    <2> QED
      BY <1>2, <2>1, <2>2
  <1>5. Absorbed(mem, root, child, new)
    <2>1. /\ root \in DOMAIN mem /\ child \in DOMAIN mem
          /\ mem[child].left \in DOMAIN mem \cup {0} /\ mem[child].right \in DOMAIN mem \cup {0}
      BY <1>1, <1>2, <1>4 DEF BstLinks
    <2> QED
      BY <1>1, <2>1, AbsorbCells
  <1>6. /\ BstMemory(new) /\ DOMAIN new = DOMAIN mem \ {child}
        /\ \A x \in DOMAIN mem \ {child} :
             /\ \A l \in BstLinks : new[x][l] = IF x = root THEN mem[child][l] ELSE mem[x][l]
             /\ new[x].parent = IF x \in {mem[child].left, mem[child].right} THEN root ELSE mem[x].parent
    BY <1>5 DEF Absorbed
  <1> HIDE DEF new
  <1>7. \A x \in 0 .. BstAddresses : sub2[x] = sub[x] \ {child}
    BY DEF Without
  <1>8. sub2 \in [0 .. BstAddresses -> SUBSET BstNodes] /\ sub2[0] = {} /\ sub2[root] = T \ {child}
    BY <1>1 DEF Without
  <1> HIDE DEF sub2
  <1>9. ASSUME NEW m \in T, m # child
        PROVE  child \notin sub[mem[IF m = root THEN child ELSE m].left]
               /\ child \notin sub[mem[IF m = root THEN child ELSE m].right]
    <2>1. CASE m = root
      BY <1>2, <1>4, <2>1 DEF BstLinks
    <2>2. CASE m # root
      <3> SUFFICES ASSUME NEW l \in BstLinks, child \in sub[mem[m][l]] PROVE FALSE
        BY <2>2 DEF BstLinks
      <3>1. mem[m][l] # 0 /\ mem[m][l] \in T /\ mem[m][l] # child
        BY <1>1, <1>4, <2>2
      <3>2. root \in sub[mem[m][l]]
        BY <1>2, <3>1, Subtrees
      <3> QED
        BY <3>2, RootIsTop
    <2> QED
      BY <2>1, <2>2
  <1>10. ASSUME NEW m \in T, m # child, NEW l \in BstLinks
         PROVE  /\ new[m][l] \in (T \ {child}) \cup {0}
                /\ new[m][l] = mem[IF m = root THEN child ELSE m][l]
                /\ sub2[new[m][l]] = sub[mem[IF m = root THEN child ELSE m][l]]
                /\ m \notin sub2[new[m][l]]
                /\ new[m][l] # 0 => new[new[m][l]].parent = m
    <2> DEFINE q == IF m = root THEN child ELSE m
    <2>1. q \in T /\ m \in DOMAIN mem \ {child} /\ (q # root)
      BY <1>1, <1>2, <1>10
    <2>2. new[m][l] = mem[q][l]
      BY <1>6, <2>1
    <2>3. /\ mem[q][l] \in (T \ {child}) \cup {0} /\ q \notin sub[mem[q][l]]
          /\ mem[q][l] # 0 => mem[mem[q][l]].parent = q
      BY <1>4, <2>1, <1>2
    <2>4. sub2[mem[q][l]] = sub[mem[q][l]]
      <3>1. child \notin sub[mem[q][l]]
        BY <1>9, <1>10 DEF BstLinks
      <3>2. mem[q][l] \in 0 .. BstAddresses
        BY <1>1, <2>3
      <3> QED
        BY <1>7, <3>1, <3>2
    <2>5. m \notin sub[mem[q][l]]
      <3>1. CASE m = root
        BY <2>1, <3>1, RootIsTop
      <3>2. CASE m # root
        BY <2>3, <3>2
      <3> QED
        BY <3>1, <3>2
    <2>6. mem[q][l] # 0 => new[mem[q][l]].parent = m
      <3> SUFFICES ASSUME mem[q][l] # 0 PROVE new[mem[q][l]].parent = m
        OBVIOUS
      <3>1. mem[q][l] \in DOMAIN mem \ {child}
        BY <1>1, <2>3
      <3>2. CASE m = root
        <4>1. mem[q][l] \in {mem[child].left, mem[child].right}
          BY <3>2 DEF BstLinks
        <4> QED
          BY <1>6, <3>1, <3>2, <4>1
      <3>3. CASE m # root
        <4>1. mem[q][l] \notin {mem[child].left, mem[child].right}
          BY <1>2, <1>4, <1>10, <2>3, <3>3 DEF BstLinks
        <4> QED
          BY <1>6, <2>3, <3>1, <3>3, <4>1
      <3> QED
        BY <3>2, <3>3
    <2> HIDE DEF q
    <2>7. /\ new[m][l] \in (T \ {child}) \cup {0} /\ sub2[new[m][l]] = sub[mem[q][l]]
          /\ m \notin sub2[new[m][l]] /\ (new[m][l] # 0 => new[new[m][l]].parent = m)
      BY <2>2, <2>3, <2>4, <2>5, <2>6
    <2> QED
      BY <2>2, <2>7 DEF q
  <1>11. ASSUME NEW m \in T, m # child
         PROVE  /\ sub2[m] = {m} \cup sub2[new[m].left] \cup sub2[new[m].right]
                /\ sub2[new[m].left] \cap sub2[new[m].right] = {}
    <2> DEFINE q == IF m = root THEN child ELSE m
    <2>1. /\ sub[q] = {q} \cup sub[mem[q].left] \cup sub[mem[q].right]
          /\ sub[mem[q].left] \cap sub[mem[q].right] = {}
      BY <1>2 DEF IsTree
    <2>2. sub2[m] = sub[m] \ {child} /\ (m = root => sub[m] = {root} \cup sub[child])
      BY <1>1, <1>3, <1>7
    <2>3. sub2[new[m].left] = sub[mem[q].left] /\ sub2[new[m].right] = sub[mem[q].right]
      BY <1>10, <1>11 DEF BstLinks
    <2>4. child \notin sub[mem[q].left] /\ child \notin sub[mem[q].right]
      BY <1>9, <1>11
    <2>5. CASE m = root
      <3> DEFINE L == sub2[new[m].left]
                 R == sub2[new[m].right]
      <3>1. sub2[m] = ({m} \cup sub[child]) \ {child} /\ m # child
        BY <1>11, <2>2, <2>5
      <3>2. sub[child] = {child} \cup L \cup R /\ L \cap R = {}
        BY <2>1, <2>3, <2>5
      <3>3. child \notin L /\ child \notin R
        BY <2>3, <2>4
      <3> HIDE DEF L, R
      <3>4. sub2[m] = {m} \cup L \cup R
        BY <3>1, <3>2, <3>3
      <3> QED
        BY <3>2, <3>4 DEF L, R
    <2>6. CASE m # root
      BY <1>11, <2>1, <2>2, <2>3, <2>4, <2>6
    <2> QED
      BY <2>5, <2>6
  <1>12. root \in sub2[root] /\ new[root].parent = 0
    <2>1. root \notin {mem[child].left, mem[child].right} /\ root \in DOMAIN mem \ {child}
      BY <1>1, <1>2, <1>4 DEF BstLinks
    <2> QED
      BY <1>1, <1>6, <1>8, <2>1
  <1>13. IsTree(new, root, sub2)
    BY <1>1, <1>6, <1>8, <1>10, <1>11, <1>12 DEF IsTree
  <1> QED
    BY <1>2, <1>5, <1>8, <1>10, <1>13 DEF new, sub2

-----------------------------------------------------------------------------
(* The calls keep the invariant. *)

\* What an erasure knows of the node it found.
Holds(sub, n, v) ==
  /\ StandsFor(bst, bst_root, bst_set, sub) /\ bst_root # 0
  /\ n \in sub[bst_root] /\ bst[n].is_valid /\ bst[n].value = v

\* The tree of the node is valid, and without the node it stands for the other values.
LEMMA HoldsFacts ==
  ASSUME NEW sub, NEW n, NEW v, Holds(sub, n, v)
  PROVE  /\ IsTree(bst, bst_root, sub) /\ IsOrdered(bst, bst_root, sub)
         /\ bst[bst_root].is_valid /\ bst_root \in sub[bst_root] /\ sub[bst_root] \subseteq DOMAIN bst
         /\ sub[0] = {} /\ 0 \notin sub[bst_root]
         /\ \A m \in sub[bst_root] :
              /\ bst[m].is_valid /\ bst[m].value \in BstValues /\ bst[m].value \in Nat
              /\ bst[m].value = v => m = n
              /\ sub[m] \subseteq sub[bst_root]
              /\ \A l \in BstLinks : bst[m][l] \in sub[bst_root] \cup {0}
         /\ {bst[m].value : m \in sub[bst_root] \ {n}} = bst_set \ {v}
         /\ \A x \in DOMAIN bst \ sub[bst_root] : ~bst[x].is_valid /\ bst[x].parent = 0
  <1> DEFINE T == sub[bst_root]
  <1>1. /\ IsTree(bst, bst_root, sub) /\ IsOrdered(bst, bst_root, sub)
        /\ bst_set = Contents(bst, T) /\ bst_root # 0
        /\ n \in T /\ bst[n].is_valid /\ bst[n].value = v
        /\ \A x \in DOMAIN bst \ T : ~bst[x].is_valid /\ bst[x].parent = 0
    BY DEF Holds, StandsFor
  <1>2. bst_root \in T /\ T \subseteq DOMAIN bst /\ sub[0] = {} /\ 0 \notin T
    BY <1>1, BstAssumption DEF IsTree, BstNodes
  <1>3. bst[bst_root].is_valid
    <2>1. ~bst[bst_root].is_valid => T = {bst_root}
      BY <1>1, OrderedValues
    <2> QED
      BY <1>1, <2>1
  <1>4. \A m \in T : bst[m].is_valid /\ bst[m].value \in BstValues /\ bst[m].value \in Nat
    BY <1>1, <1>3, OrderedValues
  <1>5. \A m \in T : bst[m].value = v => m = n
    BY <1>1, OrderedValues
  <1>6. \A m \in T : sub[m] \subseteq T
    BY <1>1, <1>2, Subtrees
  <1>7. \A m \in T : \A l \in BstLinks : bst[m][l] \in T \cup {0}
    BY <1>1 DEF IsTree
  <1>8. {bst[m].value : m \in T \ {n}} = bst_set \ {v}
    <2>1. {m \in T : bst[m].is_valid} = T
      BY <1>4
    <2>2. bst_set = {bst[m].value : m \in T}
      BY <1>1, <2>1 DEF Contents
    <2> QED
      BY <1>1, <1>5, <2>2
  <1> QED
    BY <1>1, <1>2, <1>3, <1>4, <1>5, <1>6, <1>7, <1>8

\* erase of a node with one child or none that is not the root.
LEMMA EraseSplices ==
  ASSUME NEW sub, NEW n, NEW v, Holds(sub, n, v), n # bst_root,
         NEW k \in BstLinks, \A l \in BstLinks : l # k => bst[n][l] = 0
  PROVE  StandsFor(Splice(bst, n, bst[n][k]), bst_root, bst_set \ {v}, Without(sub, n))
  <1> DEFINE T == sub[bst_root]
             new == Splice(bst, n, bst[n][k])
  <1>1. n \in T
    BY DEF Holds
  <1>2. SplicedTree(bst, bst_root, sub, n, new)
    BY <1>1, HoldsFacts, SpliceTree
  <1> HIDE DEF new
  <1>3. \A m \in T : m # n =>
            /\ \A x \in sub[bst[m].left] : x # n => bst[x].value < bst[m].value
            /\ \A x \in sub[bst[m].right] : x # n => bst[x].value > bst[m].value
    BY HoldsFacts DEF IsOrdered
  <1>4. /\ \A m \in T : bst[m].is_valid /\ bst[m].value \in BstValues
        /\ \A m \in T : sub[m] \subseteq T
        /\ sub[0] = {}
        /\ \A m \in T : \A l \in BstLinks : bst[m][l] \in T \cup {0}
        /\ \A x \in DOMAIN bst \ T : ~bst[x].is_valid /\ bst[x].parent = 0
        /\ {bst[m].value : m \in T \ {n}} = bst_set \ {v}
    BY HoldsFacts
  <1>5. OrderedBut(bst, bst_root, sub, n)
    BY <1>3, <1>4 DEF OrderedBut
  <1>6. StandsFor(new, bst_root, {bst[m].value : m \in T \ {n}}, Without(sub, n))
    BY <1>1, <1>2, <1>5, SpliceStands
  <1> QED
    BY <1>4, <1>6 DEF new

\* erase of a node with two children.
LEMMA EraseTakesLast ==
  ASSUME NEW sub, NEW n, NEW v, Holds(sub, n, v), bst[n].left # 0
  PROVE  \E sub2 : StandsFor(TakeLast(n), bst_root, bst_set \ {v}, sub2)
  <1> DEFINE T == sub[bst_root]
             first == bst[n].left
             last == Rightmost(first)
             cell == [bst[n] EXCEPT !.value = bst[last].value]
             valued == [bst EXCEPT ![n] = cell]
             new == Splice(valued, last, bst[last].left)
  <1>0. /\ IsTree(bst, bst_root, sub) /\ IsOrdered(bst, bst_root, sub) /\ bst_root # 0
        /\ bst[bst_root].is_valid /\ bst_root \in T /\ T \subseteq DOMAIN bst
        /\ sub[0] = {} /\ 0 \notin T /\ n \in T
    BY HoldsFacts DEF Holds
  <1>1. \A m \in T : /\ bst[m].is_valid /\ bst[m].value \in BstValues /\ bst[m].value \in Nat
                     /\ bst[m].value = v => m = n
                     /\ sub[m] \subseteq T
                     /\ \A l \in BstLinks : bst[m][l] \in T \cup {0}
    BY HoldsFacts
  <1>2. first \in T /\ first = bst[n]["left"] /\ "left" \in BstLinks /\ "right" \in BstLinks
    BY <1>0, <1>1 DEF BstLinks
  <1>3. /\ last \in sub[first] /\ bst[last].right = 0
        /\ \A m \in sub[first] : m # last => bst[m].value < bst[last].value
    BY <1>0, <1>2, RightmostIsGreatest
  <1> HIDE DEF last
  <1>4. last \in T /\ last # n /\ last # bst_root /\ n \notin sub[first]
    <2>1. n \notin sub[first]
      BY <1>0, <1>2 DEF IsTree
    <2>2. bst_root \notin sub[first]
      BY <1>0, <1>2, RootIsTop
    <2> QED
      BY <1>1, <1>2, <1>3, <2>1, <2>2
  <1>5. BstMemory(bst) /\ bst[n] \in BstCells
    BY <1>0 DEF IsTree, BstMemory
  <1>6. /\ cell \in BstCells /\ cell.value = bst[last].value /\ cell.is_valid = bst[n].is_valid
        /\ \A f \in Fields : cell[f] = bst[n][f]
    <2>1. bst[last].value \in BstValues
      BY <1>1, <1>4
    <2> QED
      BY <1>5, <2>1 DEF BstCells, Fields, BstLinks
  <1> HIDE DEF cell
  <1>7. /\ BstMemory(valued) /\ DOMAIN valued = DOMAIN bst
        /\ \A x \in DOMAIN bst : valued[x] = IF x = n THEN cell ELSE bst[x]
    BY <1>5, <1>6 DEF BstMemory
  <1>8. /\ \A x \in DOMAIN bst : \A f \in Fields : valued[x][f] = bst[x][f]
        /\ \A x \in DOMAIN bst : /\ valued[x].is_valid = bst[x].is_valid
                                 /\ valued[x].value = IF x = n THEN bst[last].value ELSE bst[x].value
    BY <1>6, <1>7
  <1>9. TakeLast(n) = new
    BY DEF TakeLast, new, valued, cell, last
  <1> HIDE DEF valued
  <1>10. IsTree(valued, bst_root, sub)
    BY <1>0, <1>7, <1>8, SameLinks
  <1>11. \A x \in DOMAIN bst : \A l \in BstLinks : valued[x][l] = bst[x][l]
    BY <1>8 DEF Fields
  <1>12. SplicedTree(valued, bst_root, sub, last, new)
    <2>1. bst[last].left = valued[last]["left"] /\ \A l \in BstLinks : l # "left" => valued[last][l] = 0
      BY <1>0, <1>2, <1>3, <1>4, <1>11 DEF BstLinks
    <2> QED
      BY <1>2, <1>4, <1>10, <2>1, SpliceTree
  <1> HIDE DEF new
  <1>13. \A m \in T : m # last =>
            /\ \A x \in sub[valued[m].left] : x # last => valued[x].value < valued[m].value
            /\ \A x \in sub[valued[m].right] : x # last => valued[x].value > valued[m].value
    <2> SUFFICES ASSUME NEW m \in T, m # last
                 PROVE  /\ \A x \in sub[bst[m].left] : x # last => valued[x].value < valued[m].value
                        /\ \A x \in sub[bst[m].right] : x # last => valued[x].value > valued[m].value
      BY <1>0, <1>11 DEF BstLinks
    <2>1. /\ \A x \in sub[bst[m].left] : x \in T /\ bst[x].value < bst[m].value
          /\ \A x \in sub[bst[m].right] : x \in T /\ bst[x].value > bst[m].value
          /\ \A x \in sub[bst[m].left] \cup sub[bst[m].right] : sub[x] \subseteq sub[bst[m].left]
                                                               \/ sub[x] \subseteq sub[bst[m].right]
      <3>1. /\ \A x \in sub[bst[m].left] : bst[x].value < bst[m].value
            /\ \A x \in sub[bst[m].right] : bst[x].value > bst[m].value
        BY <1>0 DEF IsOrdered
      <3>2. \A l \in BstLinks : \A x \in sub[bst[m][l]] : x \in T /\ sub[x] \subseteq sub[bst[m][l]]
        <4> SUFFICES ASSUME NEW l \in BstLinks, NEW x \in sub[bst[m][l]]
                     PROVE  x \in T /\ sub[x] \subseteq sub[bst[m][l]]
          OBVIOUS
        <4>1. bst[m][l] \in T
          BY <1>0, <1>1
        <4> QED
          BY <1>0, <4>1, Subtrees
      <3> QED
        BY <3>1, <3>2 DEF BstLinks
    <2>2. \A x \in T : x # n => valued[x].value = bst[x].value
      BY <1>0, <1>8
    <2>3. valued[n].value = bst[last].value /\ bst[last].value < bst[n].value
      <3>1. bst[last].value < bst[n].value
        BY <1>0, <1>3 DEF IsOrdered
      <3> QED
        BY <1>0, <1>8, <3>1
    <2>4. CASE m = n
      <3>1. ASSUME NEW x \in sub[bst[m].left], x # last PROVE valued[x].value < valued[m].value
        <4>1. bst[x].value < bst[last].value /\ x # n
          BY <1>3, <1>4, <2>4, <3>1
        <4> QED
          BY <2>1, <2>2, <2>3, <2>4, <4>1
      <3>2. ASSUME NEW x \in sub[bst[m].right] PROVE valued[x].value > valued[m].value
        <4>1. bst[x].value > bst[n].value /\ x \in T
          BY <2>1, <2>4
        <4>2. x # n /\ bst[x].value \in Nat /\ bst[n].value \in Nat /\ bst[last].value \in Nat
          <5>1. bst[x].value \in Nat /\ bst[n].value \in Nat /\ bst[last].value \in Nat
            BY <1>0, <1>1, <1>4, <4>1
          <5> QED
            BY <4>1, <5>1
        <4>3. valued[x].value = bst[x].value /\ valued[m].value = bst[last].value
          BY <2>2, <2>3, <2>4, <4>1, <4>2
        <4> QED
          BY <2>3, <4>1, <4>2, <4>3
      <3> QED
        BY <3>1, <3>2
    <2>5. CASE m # n
      <3>1. valued[m].value = bst[m].value
        BY <2>2, <2>5
      <3>2. n \in sub[n] /\ first \in T /\ sub[first] \subseteq sub[n]
        BY <1>0, <1>2, SubtreeSizes
      <3>3. last \in sub[n]
        BY <1>3, <3>2
      <3>4. \A l \in BstLinks : n \in sub[bst[m][l]] => last \in sub[bst[m][l]]
        <4> SUFFICES ASSUME NEW l \in BstLinks, n \in sub[bst[m][l]] PROVE last \in sub[bst[m][l]]
          OBVIOUS
        <4>1. bst[m][l] \in T
          BY <1>0, <1>1
        <4>2. sub[n] \subseteq sub[bst[m][l]]
          BY <1>0, <4>1, Subtrees
        <4> QED
          BY <3>3, <4>2
      <3>5. ASSUME NEW x \in sub[bst[m].left] PROVE valued[x].value < valued[m].value
        <4>1. CASE x = n
          <5>1. last \in sub[bst[m].left]
            BY <3>4, <3>5, <4>1 DEF BstLinks
          <5> QED
            BY <2>1, <2>3, <3>1, <4>1, <5>1
        <4>2. CASE x # n
          BY <2>1, <2>2, <3>1, <4>2
        <4> QED
          BY <4>1, <4>2
      <3>6. ASSUME NEW x \in sub[bst[m].right] PROVE valued[x].value > valued[m].value
        <4>1. CASE x = n
          <5>1. last \in sub[bst[m].right]
            BY <3>4, <3>6, <4>1 DEF BstLinks
          <5> QED
            BY <2>1, <2>3, <3>1, <4>1, <5>1
        <4>2. CASE x # n
          BY <2>1, <2>2, <3>1, <4>2
        <4> QED
          BY <4>1, <4>2
      <3> QED
        BY <3>5, <3>6
    <2> QED
      BY <2>4, <2>5
  <1>14. /\ \A m \in T : valued[m].is_valid /\ valued[m].value \in BstValues
         /\ \A m \in T : sub[m] \subseteq T
         /\ \A m \in T : \A l \in BstLinks : valued[m][l] \in T \cup {0}
    <2>1. \A m \in T : valued[m].is_valid /\ valued[m].value \in BstValues
      BY <1>0, <1>1, <1>4, <1>8
    <2> QED
      BY <1>0, <1>1, <1>11, <2>1
  <1>15. \A x \in DOMAIN valued \ T : ~valued[x].is_valid /\ valued[x].parent = 0
    <2>1. \A x \in DOMAIN bst \ T : ~bst[x].is_valid /\ bst[x].parent = 0
      BY HoldsFacts
    <2> QED
      BY <1>7, <1>8, <2>1 DEF Fields
  <1>16. {valued[m].value : m \in T \ {last}} = bst_set \ {v}
    <2>1. {bst[m].value : m \in T \ {n}} = bst_set \ {v}
      BY HoldsFacts
    <2>2. \A m \in T : valued[m].value = IF m = n THEN bst[last].value ELSE bst[m].value
      BY <1>0, <1>8
    <2>3. {valued[m].value : m \in T \ {last}} = {bst[m].value : m \in T \ {n}}
      BY <1>0, <1>4, <2>2
    <2> QED
      BY <2>1, <2>3
  <1>17. StandsFor(new, bst_root, {valued[m].value : m \in T \ {last}}, Without(sub, last))
    <2>1. OrderedBut(valued, bst_root, sub, last)
      BY <1>0, <1>13, <1>14, <1>15 DEF OrderedBut
    <2> QED
      BY <1>4, <1>12, <2>1, SpliceStands
  <1> QED
    BY <1>9, <1>16, <1>17

\* erase of a root with one child.
LEMMA EraseAbsorbs ==
  ASSUME NEW sub, NEW n, NEW v, Holds(sub, n, v), n = bst_root,
         NEW k \in BstLinks, bst[n][k] # 0, \A l \in BstLinks : l # k => bst[n][l] = 0
  PROVE  StandsFor(Absorb(bst, n, bst[n][k]), bst_root, bst_set \ {v}, Without(sub, bst[n][k]))
  <1> DEFINE T == sub[bst_root]
             child == bst[n][k]
             new == Absorb(bst, n, child)
             sub2 == Without(sub, child)
  <1>1. /\ IsTree(bst, bst_root, sub) /\ IsOrdered(bst, bst_root, sub) /\ bst_root # 0
        /\ bst[bst_root].is_valid /\ bst_root \in T /\ T \subseteq DOMAIN bst
        /\ \A m \in T : /\ bst[m].is_valid /\ bst[m].value \in BstValues /\ sub[m] \subseteq T
                        /\ \A l \in BstLinks : bst[m][l] \in T \cup {0}
        /\ \A x \in DOMAIN bst \ T : ~bst[x].is_valid /\ bst[x].parent = 0
        /\ {bst[m].value : m \in T \ {n}} = bst_set \ {v} /\ sub[0] = {} /\ 0 \notin T
    BY HoldsFacts DEF Holds
  <1>2. /\ Absorbed(bst, n, child, new) /\ IsTree(new, n, sub2) /\ sub2[n] = T \ {child}
        /\ child \in T /\ child # n
        /\ \A m \in T \ {child} : \A l \in BstLinks :
              sub2[new[m][l]] = sub[bst[IF m = n THEN child ELSE m][l]]
    BY <1>1, AbsorbTree
  <1>3. /\ DOMAIN new = DOMAIN bst \ {child}
        /\ \A x \in DOMAIN bst \ {child} :
             /\ new[x].parent = IF x \in {bst[child].left, bst[child].right} THEN n ELSE bst[x].parent
             /\ new[x].is_valid = bst[x].is_valid
             /\ new[x].value = IF x = n THEN bst[child].value ELSE bst[x].value
    BY <1>2 DEF Absorbed
  <1> HIDE DEF child, new, sub2
  <1>4. ASSUME NEW m \in T \ {child}
        PROVE  /\ new[m].is_valid /\ new[m].value \in BstValues
               /\ \A x \in sub2[new[m].left] : new[x].value < new[m].value
               /\ \A x \in sub2[new[m].right] : new[x].value > new[m].value
    <2> DEFINE q == IF m = n THEN child ELSE m
    <2>1. q \in T /\ m \in DOMAIN bst \ {child}
      BY <1>1, <1>2
    <2>2. new[m].is_valid /\ new[m].value = bst[q].value
      BY <1>1, <1>3, <2>1
    <2>3. sub2[new[m].left] = sub[bst[q].left] /\ sub2[new[m].right] = sub[bst[q].right]
      BY <1>2 DEF BstLinks
    <2>4. \A l \in BstLinks : \A x \in sub[bst[q][l]] : x \in T /\ x # n /\ x # child
      <3> SUFFICES ASSUME NEW l \in BstLinks, NEW x \in sub[bst[q][l]]
                   PROVE  x \in T /\ x # n /\ x # child
        OBVIOUS
      <3>1. x # n
        BY <1>1, <2>1, RootIsTop
      <3>2. bst[q][l] \in T
        BY <1>1, <2>1
      <3>3. x \in T
        BY <1>1, <3>2
      <3>4. x # child
        <4>1. sub2[new[m][l]] = sub[bst[q][l]]
          BY <1>2
        <4>2. IsTree(new, n, sub2) /\ m \in sub2[n]
          BY <1>2
        <4>3. new[m][l] \in sub2[n] \cup {0} /\ sub2[0] = {}
          BY <4>2 DEF IsTree
        <4>4. sub2[new[m][l]] \subseteq sub2[n]
          BY <4>2, <4>3, Subtrees
        <4> QED
          BY <1>2, <4>1, <4>4
      <3> QED
        BY <3>1, <3>3, <3>4
    <2>5. /\ \A x \in sub[bst[q].left] : bst[x].value < bst[q].value /\ x \in T /\ x # n /\ x # child
          /\ \A x \in sub[bst[q].right] : bst[x].value > bst[q].value /\ x \in T /\ x # n /\ x # child
      <3>1. /\ \A x \in sub[bst[q].left] : bst[x].value < bst[q].value
            /\ \A x \in sub[bst[q].right] : bst[x].value > bst[q].value
        BY <1>1, <2>1 DEF IsOrdered
      <3> QED
        BY <2>4, <3>1 DEF BstLinks
    <2>6. \A x \in T : x # n /\ x # child => new[x].value = bst[x].value
      BY <1>1, <1>3
    <2>7. bst[q].value \in BstValues
      BY <1>1, <2>1
    <2> HIDE DEF q
    <2> QED
      BY <2>2, <2>3, <2>5, <2>6, <2>7
  <1>5. IsOrdered(new, n, sub2)
    BY <1>2, <1>4 DEF IsOrdered
  <1>6. bst_set \ {v} = Contents(new, T \ {child})
    <2>1. {m \in T \ {child} : new[m].is_valid} = T \ {child}
      BY <1>4
    <2>2. \A m \in T \ {child} : new[m].value = IF m = n THEN bst[child].value ELSE bst[m].value
      BY <1>1, <1>3
    <2>3. {new[m].value : m \in T \ {child}} = {bst[m].value : m \in T \ {n}}
      BY <1>1, <1>2, <2>2
    <2> QED
      BY <1>1, <2>1, <2>3 DEF Contents
  <1>7. \A x \in DOMAIN new \ sub2[n] : ~new[x].is_valid /\ new[x].parent = 0
    <2> SUFFICES ASSUME NEW x \in DOMAIN new \ sub2[n] PROVE ~new[x].is_valid /\ new[x].parent = 0
      OBVIOUS
    <2>1. x \in DOMAIN bst \ T /\ x \in DOMAIN bst \ {child}
      BY <1>2, <1>3
    <2>2. x \notin {bst[child].left, bst[child].right}
      <3>1. x # 0
        BY <1>1, <2>1, BstAssumption DEF IsTree, BstMemory, BstNodes
      <3>2. bst[child].left \in T \cup {0} /\ bst[child].right \in T \cup {0}
        BY <1>1, <1>2 DEF BstLinks
      <3> QED
        BY <2>1, <3>1, <3>2
    <2> QED
      BY <1>1, <1>3, <2>1, <2>2
  <1>8. StandsFor(new, n, bst_set \ {v}, sub2)
    BY <1>2, <1>5, <1>6, <1>7 DEF StandsFor
  <1> QED
    BY <1>8 DEF new, sub2, child

\* A change of the root's value, or of its mark, where it is all there is.
LEMMA RootAlone ==
  ASSUME NEW sub, StandsFor(bst, bst_root, bst_set, sub), bst_root # 0, sub[bst_root] = {bst_root},
         NEW new, BstMemory(new), DOMAIN new = DOMAIN bst,
         \A f \in Fields : new[bst_root][f] = bst[bst_root][f],
         new[bst_root].is_valid => new[bst_root].value \in BstValues,
         \A x \in DOMAIN bst : x # bst_root => new[x] = bst[x]
  PROVE  StandsFor(new, bst_root, {new[m].value : m \in {m \in {bst_root} : new[m].is_valid}}, sub)
  <1>1. /\ IsTree(bst, bst_root, sub) /\ bst_root \in DOMAIN bst /\ sub[0] = {}
        /\ \A x \in DOMAIN bst \ sub[bst_root] : ~bst[x].is_valid /\ bst[x].parent = 0
    <2>1. IsTree(bst, bst_root, sub)
      BY DEF StandsFor
    <2> QED
      BY <2>1 DEF StandsFor, IsTree
  <1>2. IsTree(new, bst_root, sub)
    <2>1. \A x \in DOMAIN bst : \A f \in Fields : new[x][f] = bst[x][f]
      OBVIOUS
    <2> QED
      BY <1>1, <2>1, SameLinks
  <1>3. \A l \in BstLinks : bst[bst_root][l] = 0 /\ new[bst_root][l] = 0
    <2> SUFFICES ASSUME NEW l \in BstLinks PROVE bst[bst_root][l] = 0
      BY DEF Fields
    <2>1. /\ bst[bst_root][l] \in {bst_root, 0}
          /\ bst[bst_root][l] # 0 => bst[bst[bst_root][l]].parent = bst_root
      BY <1>1 DEF IsTree
    <2>2. bst[bst_root].parent = 0
      BY <1>1 DEF IsTree
    <2> QED
      BY <2>1, <2>2
  <1>4. IsOrdered(new, bst_root, sub)
    BY <1>1, <1>3 DEF IsOrdered, BstLinks
  <1>5. \A x \in DOMAIN new \ sub[bst_root] : ~new[x].is_valid /\ new[x].parent = 0
    BY <1>1
  <1> QED
    BY <1>2, <1>4, <1>5 DEF StandsFor, Contents

\* erase, of a value that is there and of one that is not.
LEMMA BstEraseKeeps ==
  ASSUME BstInv, NEW v \in BstValues, BstErase(v)
  PROVE  BstInv'
  <1>1. PICK sub : StandsFor(bst, bst_root, bst_set, sub)
    BY DEF BstInv
  <1> DEFINE T == sub[bst_root]
             n == CHOOSE n \in BstFind(v) : TRUE
  <1>2. /\ bst_root # 0 /\ bst_root' = bst_root /\ bst_set' = bst_set \ {v}
        /\ bst' = IF BstFind(v) = {} THEN bst ELSE EraseNode(n)
    BY DEF BstErase
  <1>3. /\ IsTree(bst, bst_root, sub) /\ IsOrdered(bst, bst_root, sub)
        /\ bst_set = Contents(bst, T)
    BY <1>1 DEF StandsFor
  <1>4. BstFind(v) = {m \in T : bst[m].is_valid /\ bst[m].value = v}
    BY <1>2, <1>3, Finding
  <1>5. ASSUME NEW new, NEW sub2, bst' = new, StandsFor(new, bst_root, bst_set \ {v}, sub2)
        PROVE  BstInv'
    BY <1>2, <1>5 DEF BstInv
  <1>6. CASE BstFind(v) = {}
    <2>1. bst_set \ {v} = bst_set
      BY <1>3, <1>4, <1>6 DEF Contents
    <2> QED
      BY <1>1, <1>2, <1>5, <1>6, <2>1
  <1>7. CASE BstFind(v) # {}
    <2>1. n \in BstFind(v)
      BY <1>7
    <2>2. Holds(sub, n, v)
      BY <1>1, <1>2, <1>4, <2>1 DEF Holds
    <2>3. bst' = EraseNode(n) /\ n \in T /\ bst[n].is_valid /\ bst[n].value = v
      BY <1>2, <1>4, <1>7, <2>1
    <2> HIDE DEF n
    <2>4. bst[n].left = bst[n]["left"] /\ bst[n].right = bst[n]["right"]
      OBVIOUS
    <2>5. CASE bst[n].left # 0 /\ bst[n].right # 0
      <3>1. bst' = TakeLast(n)
        BY <2>3, <2>5 DEF EraseNode
      <3>2. PICK sub2 : StandsFor(TakeLast(n), bst_root, bst_set \ {v}, sub2)
        BY <2>2, <2>5, EraseTakesLast
      <3> QED
        BY <1>5, <3>1, <3>2
    <2>6. CASE ~(bst[n].left # 0 /\ bst[n].right # 0) /\ n # bst_root
      <3>1. PICK k \in BstLinks : /\ \A l \in BstLinks : l # k => bst[n][l] = 0
                                  /\ EraseNode(n) = Splice(bst, n, bst[n][k])
        <4>1. CASE bst[n].left # 0
          <5>1. EraseNode(n) = Splice(bst, n, bst[n]["left"])
            BY <2>6, <4>1 DEF EraseNode
          <5>2. "left" \in BstLinks /\ \A l \in BstLinks : l # "left" => bst[n][l] = 0
            BY <2>6, <4>1 DEF BstLinks
          <5> QED
            BY <5>1, <5>2
        <4>2. CASE bst[n].left = 0
          <5>1. EraseNode(n) = Splice(bst, n, bst[n]["right"])
            BY <2>6, <4>2 DEF EraseNode
          <5>2. "right" \in BstLinks /\ \A l \in BstLinks : l # "right" => bst[n][l] = 0
            BY <2>6, <4>2 DEF BstLinks
          <5> QED
            BY <5>1, <5>2
        <4> QED
          BY <4>1, <4>2
      <3>2. StandsFor(Splice(bst, n, bst[n][k]), bst_root, bst_set \ {v}, Without(sub, n))
        BY <2>2, <2>6, <3>1, EraseSplices
      <3> QED
        BY <1>5, <2>3, <3>1, <3>2
    <2>7. CASE /\ ~(bst[n].left # 0 /\ bst[n].right # 0) /\ n = bst_root
               /\ bst[n].left # 0 \/ bst[n].right # 0
      <3>1. PICK k \in BstLinks : /\ \A l \in BstLinks : l # k => bst[n][l] = 0
                                  /\ bst[n][k] # 0 /\ EraseNode(n) = Absorb(bst, n, bst[n][k])
        <4>1. CASE bst[n].left # 0
          <5>1. EraseNode(n) = Absorb(bst, n, bst[n]["left"])
            BY <2>7, <4>1 DEF EraseNode
          <5>2. "left" \in BstLinks /\ \A l \in BstLinks : l # "left" => bst[n][l] = 0
            BY <2>7, <4>1 DEF BstLinks
          <5> QED
            BY <4>1, <5>1, <5>2
        <4>2. CASE bst[n].left = 0
          <5>1. EraseNode(n) = Absorb(bst, n, bst[n]["right"])
            BY <2>7, <4>2 DEF EraseNode
          <5>2. "right" \in BstLinks /\ \A l \in BstLinks : l # "right" => bst[n][l] = 0
            BY <2>7, <4>2 DEF BstLinks
          <5> QED
            BY <2>7, <4>2, <5>1, <5>2
        <4> QED
          BY <4>1, <4>2
      <3>2. StandsFor(Absorb(bst, n, bst[n][k]), bst_root, bst_set \ {v}, Without(sub, bst[n][k]))
        BY <2>2, <2>7, <3>1, EraseAbsorbs
      <3> QED
        BY <1>5, <2>3, <3>1, <3>2
    <2>8. CASE n = bst_root /\ bst[n].left = 0 /\ bst[n].right = 0
      <3> DEFINE cell == [bst[n] EXCEPT !.is_valid = FALSE]
                 new == [bst EXCEPT ![n] = cell]
      <3>1. bst' = new
        BY <2>3, <2>8 DEF EraseNode
      <3>2. T = {n} /\ n \in DOMAIN bst /\ BstMemory(bst) /\ bst[n] \in BstCells
        <4>1. T = {n} /\ n \in DOMAIN bst /\ BstMemory(bst)
          BY <1>3, <2>3, <2>8 DEF IsTree
        <4> QED
          BY <4>1 DEF BstMemory
      <3>3. cell \in BstCells /\ cell.is_valid = FALSE /\ \A f \in Fields : cell[f] = bst[n][f]
        BY <3>2 DEF BstCells, Fields, BstLinks
      <3> HIDE DEF cell
      <3>4. BstMemory(new) /\ DOMAIN new = DOMAIN bst /\ new[n] = cell
            /\ \A x \in DOMAIN bst : x # n => new[x] = bst[x]
        BY <3>2, <3>3 DEF BstMemory
      <3> HIDE DEF new
      <3>5. StandsFor(new, bst_root, {new[m].value : m \in {m \in {bst_root} : new[m].is_valid}}, sub)
        BY <1>1, <1>2, <2>8, <3>2, <3>3, <3>4, RootAlone
      <3>6. {new[m].value : m \in {m \in {bst_root} : new[m].is_valid}} = bst_set \ {v}
        <4>1. bst_set \ {v} = {}
          BY <1>3, <2>3, <3>2 DEF Contents
        <4> QED
          BY <2>8, <3>3, <3>4, <4>1
      <3> QED
        BY <1>5, <3>1, <3>5, <3>6
    <2> QED
      BY <2>5, <2>6, <2>7, <2>8
  <1> QED
    BY <1>6, <1>7

\* Memory with a new node.
LEMMA WithCells ==
  ASSUME NEW mem, BstMemory(mem), NEW n \in BstNodes, n \notin DOMAIN mem, NEW r \in BstCells
  PROVE  /\ BstMemory(With(mem, n, r)) /\ DOMAIN With(mem, n, r) = DOMAIN mem \cup {n}
         /\ With(mem, n, r)[n] = r /\ \A x \in DOMAIN mem : With(mem, n, r)[x] = mem[x]
  <1>1. mem \in [DOMAIN mem -> BstCells] /\ DOMAIN mem \subseteq BstNodes
    BY DEF BstMemory
  <1>2. /\ DOMAIN With(mem, n, r) = DOMAIN mem \cup {n} /\ With(mem, n, r)[n] = r
        /\ \A x \in DOMAIN mem : With(mem, n, r)[x] = mem[x]
        /\ With(mem, n, r) \in [DOMAIN mem \cup {n} -> BstCells]
    BY <1>1 DEF With
  <1> QED
    BY <1>1, <1>2 DEF BstMemory

\* new takes an address that is free.
LEMMA NewAddress ==
  ASSUME Free # {}
  PROVE  Min(Free) \in BstNodes /\ Min(Free) \notin DOMAIN bst /\ Min(Free) \in 1 .. BstAddresses
  <1>1. Free \in SUBSET Nat
    BY BstAssumption DEF Free, BstNodes
  <1>2. PICK n \in Free : \A m \in Free : n <= m
    BY <1>1, LeastNatural
  <1>3. Min(Free) \in Free
    BY <1>2 DEF Min
  <1> QED
    BY <1>3 DEF Free, BstNodes

\* A new node below p where p had no node: the subtrees that p is in have it too.
Attached(sub, n, p) ==
  [x \in 0 .. BstAddresses |-> IF x = n THEN {n} ELSE IF p \in sub[x] THEN sub[x] \cup {n} ELSE sub[x]]

\* The cells are those of mem, with a new one that the link t of p leads to.
HangsBelow(mem, n, p, t, new) ==
  /\ BstMemory(new) /\ DOMAIN new = DOMAIN mem \cup {n}
  /\ \A l \in BstLinks : new[n][l] = 0
  /\ new[n].parent = p
  /\ \A x \in DOMAIN mem : /\ \A l \in BstLinks : new[x][l] = IF x = p /\ l = t THEN n ELSE mem[x][l]
                           /\ new[x].parent = mem[x].parent

AttachedTree(mem, root, sub, n, p, t, new) ==
  /\ IsTree(new, root, Attached(sub, n, p))
  /\ Attached(sub, n, p)[root] = sub[root] \cup {n}
  /\ Attached(sub, n, p)[0] = {}
  /\ \A m \in sub[root] : \A l \in BstLinks : \A x \in Attached(sub, n, p)[new[m][l]] :
       \/ x \in sub[mem[m][l]]
       \/ x = n /\ ((m = p /\ l = t) \/ p \in sub[mem[m][l]])

\* insert leaves that tree.
LEMMA AttachTree ==
  ASSUME NEW mem, NEW root, NEW sub, IsTree(mem, root, sub), root # 0,
         NEW n \in BstNodes, n \notin DOMAIN mem,
         NEW p \in sub[root], NEW t \in BstLinks, mem[p][t] = 0,
         NEW new, HangsBelow(mem, n, p, t, new)
  PROVE  AttachedTree(mem, root, sub, n, p, t, new)
  <1>0. /\ BstMemory(new) /\ DOMAIN new = DOMAIN mem \cup {n}
        /\ \A l \in BstLinks : new[n][l] = 0
        /\ new[n].parent = p
        /\ \A x \in DOMAIN mem : /\ \A l \in BstLinks : new[x][l] = IF x = p /\ l = t THEN n ELSE mem[x][l]
                                 /\ new[x].parent = mem[x].parent
    BY DEF HangsBelow
  <1> DEFINE T == sub[root]
             sub2 == Attached(sub, n, p)
  <1>1. /\ BstMemory(mem) /\ root \in 0 .. BstAddresses /\ T \subseteq DOMAIN mem
        /\ T \subseteq BstNodes /\ 0 \notin T /\ BstNodes \subseteq 0 .. BstAddresses
        /\ root \in T /\ mem[root].parent = 0 /\ 0 \in 0 .. BstAddresses /\ n # 0 /\ n \notin T
        /\ sub \in [0 .. BstAddresses -> SUBSET BstNodes] /\ sub[0] = {}
    BY BstAssumption DEF IsTree, BstNodes
  <1>2. \A x \in 0 .. BstAddresses :
          sub2[x] = IF x = n THEN {n} ELSE IF p \in sub[x] THEN sub[x] \cup {n} ELSE sub[x]
    BY DEF Attached
  <1>3. sub2 \in [0 .. BstAddresses -> SUBSET BstNodes]
    BY <1>1 DEF Attached
  <1>4. sub2[0] = {} /\ sub2[root] = T \cup {n} /\ sub2[n] = {n}
    BY <1>1, <1>2
  <1> HIDE DEF sub2
  <1>5. \A m \in T : /\ sub[m] = {m} \cup sub[mem[m].left] \cup sub[mem[m].right]
                     /\ sub[mem[m].left] \cap sub[mem[m].right] = {}
                     /\ \A l \in BstLinks : /\ mem[m][l] \in T \cup {0} /\ m \notin sub[mem[m][l]]
                                            /\ mem[m][l] # 0 => mem[mem[m][l]].parent = m
    BY DEF IsTree
  <1>6. ASSUME NEW m \in T, NEW l \in BstLinks
        PROVE  /\ new[m][l] \in T \cup {n, 0} /\ m \notin sub2[new[m][l]]
               /\ new[m][l] # 0 => new[new[m][l]].parent = m
               /\ sub2[new[m][l]] = sub[mem[m][l]]
                                    \cup (IF (m = p /\ l = t) \/ p \in sub[mem[m][l]] THEN {n} ELSE {})
    <2>1. m \in DOMAIN mem /\ m # n
      BY <1>1
    <2>2. CASE m = p /\ l = t
      <3>1. new[m][l] = n /\ mem[m][l] = 0
        BY <1>0, <2>1, <2>2
      <3> QED
        BY <1>0, <1>1, <1>4, <2>1, <2>2, <3>1
    <2>3. CASE ~(m = p /\ l = t)
      <3>1. new[m][l] = mem[m][l]
        BY <1>0, <2>1, <2>3
      <3>2. mem[m][l] \in T \cup {0} /\ m \notin sub[mem[m][l]] /\ mem[m][l] # n
            /\ mem[m][l] \in 0 .. BstAddresses
        <4>1. mem[m][l] \in T \cup {0} /\ m \notin sub[mem[m][l]]
          BY <1>5
        <4>2. T \subseteq 0 .. BstAddresses
          BY <1>1
        <4> QED
          BY <1>1, <4>1, <4>2
      <3>3. sub2[mem[m][l]] = IF p \in sub[mem[m][l]] THEN sub[mem[m][l]] \cup {n} ELSE sub[mem[m][l]]
        BY <1>2, <3>2
      <3>4. mem[m][l] # 0 => new[mem[m][l]].parent = m
        BY <1>0, <1>1, <1>5, <3>2
      <3> QED
        BY <2>1, <2>3, <3>1, <3>2, <3>3, <3>4
    <2> QED
      BY <2>2, <2>3
  <1>7. ASSUME NEW m \in T
        PROVE  /\ sub2[m] = {m} \cup sub2[new[m].left] \cup sub2[new[m].right]
               /\ sub2[new[m].left] \cap sub2[new[m].right] = {}
    <2> DEFINE L == sub[mem[m].left]
               R == sub[mem[m].right]
    <2>1. /\ sub[m] = {m} \cup L \cup R /\ L \cap R = {} /\ m \notin L /\ m \notin R
          /\ L \subseteq T /\ R \subseteq T
      <3>1. sub[m] = {m} \cup L \cup R /\ L \cap R = {} /\ m \notin L /\ m \notin R
        BY <1>5 DEF BstLinks
      <3>2. sub[m] \subseteq T
        <4>1. root \in T
          BY <1>1
        <4> QED
          BY <4>1, Subtrees
      <3> QED
        BY <3>1, <3>2
    <2>2. /\ sub2[new[m].left] = L \cup (IF (m = p /\ "left" = t) \/ p \in L THEN {n} ELSE {})
          /\ sub2[new[m].right] = R \cup (IF (m = p /\ "right" = t) \/ p \in R THEN {n} ELSE {})
      BY <1>6 DEF BstLinks
    <2>3. sub2[m] = IF p \in sub[m] THEN sub[m] \cup {n} ELSE sub[m]
      BY <1>1, <1>2
    <2>4. t = "left" \/ t = "right"
      BY DEF BstLinks
    <2>5. n \notin L /\ n \notin R /\ n # m
      BY <1>1, <2>1
    <2> HIDE DEF L, R
    <2>6. CASE m = p
      BY <2>1, <2>2, <2>3, <2>4, <2>5, <2>6
    <2>7. CASE m # p
      BY <2>1, <2>2, <2>3, <2>5, <2>7
    <2> QED
      BY <2>6, <2>7
  <1>8. /\ sub2[n] = {n} \cup sub2[new[n].left] \cup sub2[new[n].right]
        /\ sub2[new[n].left] \cap sub2[new[n].right] = {}
        /\ \A l \in BstLinks : new[n][l] = 0 /\ n \notin sub2[new[n][l]]
    <2>1. new[n].left = 0 /\ new[n].right = 0
      BY <1>0 DEF BstLinks
    <2> QED
      BY <1>0, <1>4, <2>1
  <1>9. root \in sub2[root] /\ new[root].parent = 0 /\ sub2[root] \subseteq DOMAIN new
    BY <1>0, <1>1, <1>4
  <1>10. \A m \in sub2[root] :
           /\ sub2[m] = {m} \cup sub2[new[m].left] \cup sub2[new[m].right]
           /\ sub2[new[m].left] \cap sub2[new[m].right] = {}
           /\ \A l \in BstLinks : /\ new[m][l] \in sub2[root] \cup {0} /\ m \notin sub2[new[m][l]]
                                  /\ new[m][l] # 0 => new[new[m][l]].parent = m
    <2> SUFFICES ASSUME NEW m \in sub2[root]
                 PROVE  /\ sub2[m] = {m} \cup sub2[new[m].left] \cup sub2[new[m].right]
                        /\ sub2[new[m].left] \cap sub2[new[m].right] = {}
                        /\ \A l \in BstLinks : /\ new[m][l] \in sub2[root] \cup {0} /\ m \notin sub2[new[m][l]]
                                               /\ new[m][l] # 0 => new[new[m][l]].parent = m
      OBVIOUS
    <2>1. CASE m = n
      BY <1>8, <2>1
    <2>2. CASE m \in T
      <3>1. \A l \in BstLinks : /\ new[m][l] \in sub2[root] \cup {0} /\ m \notin sub2[new[m][l]]
                                /\ new[m][l] # 0 => new[new[m][l]].parent = m
        BY <1>4, <1>6, <2>2
      <3> QED
        BY <1>7, <2>2, <3>1
    <2> QED
      BY <1>4, <2>1, <2>2
  <1>11. IsTree(new, root, sub2)
    BY <1>0, <1>1, <1>3, <1>4, <1>9, <1>10 DEF IsTree
  <1>12. ASSUME NEW m \in T, NEW l \in BstLinks, NEW x \in sub2[new[m][l]]
         PROVE  \/ x \in sub[mem[m][l]]
                \/ x = n /\ ((m = p /\ l = t) \/ p \in sub[mem[m][l]])
    BY <1>6
  <1> QED
    BY <1>4, <1>11, <1>12 DEF sub2, AttachedTree

\* insert, into an emptied root, of a value that is there, and of a new one.
LEMMA BstInsertKeeps ==
  ASSUME BstInv, NEW v \in BstValues, BstInsert(v)
  PROVE  BstInv'
  <1>1. PICK sub : StandsFor(bst, bst_root, bst_set, sub)
    BY DEF BstInv
  <1> DEFINE T == sub[bst_root]
  <1>2. bst_root # 0 /\ bst_root' = bst_root /\ bst_set' = bst_set \cup {v} /\ v \in Nat
    BY BstAssumption DEF BstInsert
  <1>3. /\ IsTree(bst, bst_root, sub) /\ IsOrdered(bst, bst_root, sub)
        /\ bst_set = Contents(bst, T)
        /\ \A x \in DOMAIN bst \ T : ~bst[x].is_valid /\ bst[x].parent = 0
    BY <1>1 DEF StandsFor
  <1>4. /\ bst_root \in T /\ T \subseteq DOMAIN bst /\ BstMemory(bst) /\ 0 \notin T
        /\ DOMAIN bst \subseteq 0 .. BstAddresses /\ sub[0] = {}
    BY <1>2, <1>3, BstAssumption DEF IsTree, BstMemory, BstNodes
  <1>5. ASSUME NEW new, NEW sub2, bst' = new, StandsFor(new, bst_root, bst_set \cup {v}, sub2)
        PROVE  BstInv'
    BY <1>2, <1>5 DEF BstInv
  <1>6. CASE ~bst[bst_root].is_valid
    <2> DEFINE cell == [bst[bst_root] EXCEPT !.is_valid = TRUE, !.value = v]
               new == [bst EXCEPT ![bst_root] = cell]
    <2>1. bst[bst_root] \in BstCells
      BY <1>4 DEF BstMemory
    <2>2. bst' = new
      BY <1>6 DEF BstInsert
    <2>3. /\ cell \in BstCells /\ cell.is_valid = TRUE /\ cell.value = v
          /\ \A f \in Fields : cell[f] = bst[bst_root][f]
      BY <2>1 DEF BstCells, Fields, BstLinks
    <2> HIDE DEF cell
    <2>4. BstMemory(new) /\ DOMAIN new = DOMAIN bst /\ new[bst_root] = cell
          /\ \A x \in DOMAIN bst : x # bst_root => new[x] = bst[x]
      BY <1>4, <2>3 DEF BstMemory
    <2> HIDE DEF new
    <2>5. T = {bst_root}
      BY <1>2, <1>3, <1>6, OrderedValues
    <2>6. StandsFor(new, bst_root, {new[m].value : m \in {m \in {bst_root} : new[m].is_valid}}, sub)
      BY <1>1, <1>2, <2>3, <2>4, <2>5, RootAlone
    <2>7. {new[m].value : m \in {m \in {bst_root} : new[m].is_valid}} = bst_set \cup {v}
      <3>1. bst_set = {}
        BY <1>3, <1>6, <2>5 DEF Contents
      <3> QED
        BY <2>3, <2>4, <3>1
    <2> QED
      BY <1>5, <2>2, <2>6, <2>7
  <1>7. CASE bst[bst_root].is_valid /\ BstFind(v) # {}
    <2>1. bst' = bst
      BY <1>7 DEF BstInsert
    <2>2. BstFind(v) = {m \in T : bst[m].is_valid /\ bst[m].value = v}
      BY <1>2, <1>3, Finding
    <2>3. bst_set \cup {v} = bst_set
      BY <1>3, <1>7, <2>2 DEF Contents
    <2> QED
      BY <1>1, <1>5, <2>1, <2>3
  <1>8. CASE bst[bst_root].is_valid /\ BstFind(v) = {}
    <2> DEFINE p == InsertPoint(v)
               n == Min(Free)
               t == Toward(p, v)
               node == NewNode(v, p)
               held == With(bst, n, node)
               new == SetLink(held, p, t, n)
               sub2 == Attached(sub, n, p)
    <2>1. Free # {} /\ bst' = new
      BY <1>8 DEF BstInsert
    <2>2. n \in BstNodes /\ n \notin DOMAIN bst /\ n \in 0 .. BstAddresses /\ n # 0
      BY <2>1, NewAddress, BstAssumption DEF BstNodes
    <2>3. \A m \in SearchPath(v) : bst[m].value # v
      BY <1>8 DEF BstFind
    <2>4. p \in SearchPath(v) /\ bst[p][t] = 0
      BY <1>2, <1>3, <2>3, InsertPointFits
    <2> HIDE DEF p, n
    <2>5. p \in T /\ t \in BstLinks /\ bst[p].value # v
      <3>1. SearchPath(v) \subseteq T
        BY <1>3, Searching
      <3> QED
        BY <2>3, <2>4, <3>1 DEF Toward, BstLinks
    <2>6. \A a \in T : \A l \in BstLinks :
            (a = p /\ l = t) \/ p \in sub[bst[a][l]] => l = Toward(a, v) /\ bst[a].value # v
      BY <1>3, <2>4, <2>5, Searching
    <2> HIDE DEF t
    <2>7. /\ node \in BstCells /\ node.left = 0 /\ node.right = 0 /\ node.parent = p
          /\ node.value = v /\ node.is_valid = TRUE
      BY <1>4, <2>5, BstAssumption DEF NewNode, BstCells
    <2> HIDE DEF node
    <2>8. /\ BstMemory(held) /\ DOMAIN held = DOMAIN bst \cup {n}
          /\ held[n] = node /\ \A x \in DOMAIN bst : held[x] = bst[x]
      BY <1>4, <2>2, <2>7, WithCells
    <2> HIDE DEF held
    <2>9. /\ BstMemory(new) /\ DOMAIN new = DOMAIN held
          /\ \A x \in DOMAIN held :
               /\ \A f \in Fields : new[x][f] = IF x = p /\ f = t THEN n ELSE held[x][f]
               /\ SameValue(new, x, held, x)
      <3>1. p \in DOMAIN held /\ t \in Fields
        BY <1>4, <2>5, <2>8 DEF Fields
      <3> QED
        BY <2>2, <2>8, <3>1, SetLinkCells
    <2> HIDE DEF new
    <2>10. /\ DOMAIN new = DOMAIN bst \cup {n} /\ \A l \in BstLinks : new[n][l] = 0
           /\ new[n].parent = p /\ new[n].value = v /\ new[n].is_valid
           /\ \A x \in DOMAIN bst :
                /\ \A l \in BstLinks : new[x][l] = IF x = p /\ l = t THEN n ELSE bst[x][l]
                /\ new[x].parent = bst[x].parent
                /\ new[x].value = bst[x].value /\ new[x].is_valid = bst[x].is_valid
      <3>1. n # p /\ t # "parent" /\ \A l \in BstLinks : l \in Fields
        BY <1>4, <2>2, <2>5 DEF BstLinks, Fields
      <3>2. \A l \in BstLinks : new[n][l] = 0
        BY <2>7, <2>8, <2>9, <3>1 DEF BstLinks
      <3>3. new[n].parent = p
        BY <2>7, <2>8, <2>9, <3>1 DEF Fields
      <3>4. new[n].value = v /\ new[n].is_valid
        BY <2>7, <2>8, <2>9 DEF SameValue
      <3>5. ASSUME NEW x \in DOMAIN bst
            PROVE  /\ \A l \in BstLinks : new[x][l] = IF x = p /\ l = t THEN n ELSE bst[x][l]
                   /\ new[x].parent = bst[x].parent
        BY <2>8, <2>9, <3>1 DEF Fields
      <3>6. ASSUME NEW x \in DOMAIN bst
            PROVE  new[x].value = bst[x].value /\ new[x].is_valid = bst[x].is_valid
        BY <2>8, <2>9 DEF SameValue
      <3> QED
        BY <2>8, <2>9, <3>2, <3>3, <3>4, <3>5, <3>6
    <2>11. /\ IsTree(new, bst_root, sub2) /\ sub2[bst_root] = T \cup {n} /\ sub2[0] = {}
           /\ \A m \in T : \A l \in BstLinks : \A x \in sub2[new[m][l]] :
                \/ x \in sub[bst[m][l]]
                \/ x = n /\ ((m = p /\ l = t) \/ p \in sub[bst[m][l]])
      <3>1. HangsBelow(bst, n, p, t, new)
        BY <2>9, <2>10 DEF HangsBelow
      <3>2. AttachedTree(bst, bst_root, sub, n, p, t, new)
        BY <1>2, <1>3, <2>2, <2>4, <2>5, <3>1, AttachTree
      <3> QED
        BY <3>2 DEF AttachedTree
    <2> HIDE DEF sub2
    <2>12. \A m \in T : /\ bst[m].is_valid /\ bst[m].value \in BstValues /\ bst[m].value \in Nat
                        /\ sub[m] \subseteq T
      <3>1. \A m \in T : bst[m].is_valid /\ bst[m].value \in BstValues /\ bst[m].value \in Nat
        BY <1>2, <1>3, <1>8, OrderedValues
      <3>2. \A m \in T : sub[m] \subseteq T
        BY <1>3, <1>4, Subtrees
      <3> QED
        BY <3>1, <3>2
    <2>13. ASSUME NEW m \in T
           PROVE  /\ \A x \in sub2[new[m].left] : new[x].value < new[m].value
                  /\ \A x \in sub2[new[m].right] : new[x].value > new[m].value
      <3>1. new[m].value = bst[m].value /\ bst[m].value \in Nat
        BY <1>4, <2>10, <2>12
      <3>2. /\ \A x \in sub[bst[m].left] : x \in T /\ bst[x].value < bst[m].value
            /\ \A x \in sub[bst[m].right] : x \in T /\ bst[x].value > bst[m].value
        <4>1. \A l \in BstLinks : sub[bst[m][l]] \subseteq T
          <5> SUFFICES ASSUME NEW l \in BstLinks PROVE sub[bst[m][l]] \subseteq T
            OBVIOUS
          <5>1. bst[m][l] \in T \cup {0}
            BY <1>3 DEF IsTree
          <5> QED
            BY <1>4, <2>12, <5>1
        <4>2. /\ \A x \in sub[bst[m].left] : bst[x].value < bst[m].value
              /\ \A x \in sub[bst[m].right] : bst[x].value > bst[m].value
          BY <1>3 DEF IsOrdered
        <4> QED
          BY <4>1, <4>2 DEF BstLinks
      <3>3. ASSUME NEW x \in sub2[new[m].left] PROVE new[x].value < new[m].value
        <4>1. CASE x \in sub[bst[m].left]
          BY <1>4, <2>10, <3>1, <3>2, <4>1
        <4>2. CASE x = n /\ ((m = p /\ "left" = t) \/ p \in sub[bst[m].left])
          <5>1. "left" = Toward(m, v)
            BY <2>6, <4>2 DEF BstLinks
          <5>2. bst[m].value > v
            BY <5>1 DEF Toward
          <5> QED
            BY <1>2, <2>10, <3>1, <4>2, <5>2
        <4> QED
          BY <2>11, <3>3, <4>1, <4>2 DEF BstLinks
      <3>4. ASSUME NEW x \in sub2[new[m].right] PROVE new[x].value > new[m].value
        <4>1. CASE x \in sub[bst[m].right]
          BY <1>4, <2>10, <3>1, <3>2, <4>1
        <4>2. CASE x = n /\ ((m = p /\ "right" = t) \/ p \in sub[bst[m].right])
          <5>1. "right" = Toward(m, v) /\ bst[m].value # v
            BY <2>6, <4>2 DEF BstLinks
          <5>2. ~(bst[m].value > v)
            BY <5>1 DEF Toward
          <5> QED
            BY <1>2, <2>10, <3>1, <4>2, <5>1, <5>2
        <4> QED
          BY <2>11, <3>4, <4>1, <4>2 DEF BstLinks
      <3> QED
        BY <3>3, <3>4
    <2>14. IsOrdered(new, bst_root, sub2)
      <3>1. /\ \A x \in sub2[new[n].left] : new[x].value < new[n].value
            /\ \A x \in sub2[new[n].right] : new[x].value > new[n].value
        BY <2>10, <2>11 DEF BstLinks
      <3>2. \A m \in T \cup {n} : new[m].is_valid /\ new[m].value \in BstValues
        BY <1>4, <2>10, <2>12
      <3> QED
        BY <2>11, <2>13, <3>1, <3>2 DEF IsOrdered
    <2>15. bst_set \cup {v} = Contents(new, T \cup {n})
      <3>1. {m \in T \cup {n} : new[m].is_valid} = T \cup {n} /\ {m \in T : bst[m].is_valid} = T
        BY <1>4, <2>10, <2>12
      <3>2. \A m \in T : new[m].value = bst[m].value
        BY <1>4, <2>10
      <3>3. /\ bst_set = {bst[m].value : m \in T}
            /\ Contents(new, T \cup {n}) = {new[m].value : m \in T \cup {n}}
        BY <1>3, <3>1 DEF Contents
      <3>4. {new[m].value : m \in T \cup {n}} = {bst[m].value : m \in T} \cup {v}
        <4>1. {new[m].value : m \in T \cup {n}} = {new[m].value : m \in T} \cup {new[n].value}
          OBVIOUS
        <4>2. {new[m].value : m \in T} = {bst[m].value : m \in T}
          BY <3>2
        <4> QED
          BY <2>10, <4>1, <4>2
      <3> QED
        BY <3>3, <3>4
    <2>16. \A x \in DOMAIN new \ sub2[bst_root] : ~new[x].is_valid /\ new[x].parent = 0
      BY <1>3, <2>10, <2>11
    <2>17. StandsFor(new, bst_root, bst_set \cup {v}, sub2)
      BY <2>11, <2>14, <2>15, <2>16 DEF StandsFor
    <2> QED
      BY <1>5, <2>1, <2>17
  <1> QED
    BY <1>6, <1>7, <1>8

\* create_root makes a tree of one node, with a value or without.
LEMMA BstCreateKeeps ==
  ASSUME BstInv, bst_root = 0, Free # {}, NEW r \in BstCells, r.left = 0, r.right = 0, r.parent = 0,
         r.is_valid => r.value \in BstValues,
         bst_root' = Min(Free), bst' = With(bst, Min(Free), r),
         bst_set' = IF r.is_valid THEN {r.value} ELSE {}
  PROVE  BstInv'
  <1>1. PICK sub : StandsFor(bst, bst_root, bst_set, sub)
    BY DEF BstInv
  <1> DEFINE n == Min(Free)
             new == With(bst, n, r)
             sub2 == [x \in 0 .. BstAddresses |-> IF x = n THEN {n} ELSE {}]
  <1>2. n \in BstNodes /\ n \notin DOMAIN bst
    BY NewAddress
  <1> HIDE DEF n
  <1>3. /\ IsTree(bst, bst_root, sub)
        /\ \A x \in DOMAIN bst \ sub[bst_root] : ~bst[x].is_valid /\ bst[x].parent = 0
    BY <1>1 DEF StandsFor
  <1>4. BstMemory(bst) /\ sub[bst_root] = {}
    BY <1>3 DEF IsTree
  <1>5. /\ BstMemory(new) /\ DOMAIN new = DOMAIN bst \cup {n}
        /\ new[n] = r /\ \A x \in DOMAIN bst : new[x] = bst[x]
    BY <1>2, <1>4, WithCells
  <1> HIDE DEF new
  <1>6. /\ n \in 0 .. BstAddresses /\ n # 0 /\ 0 \in 0 .. BstAddresses
        /\ BstNodes \subseteq 0 .. BstAddresses
    BY <1>2, BstAssumption DEF BstNodes
  <1>7. sub2 \in [0 .. BstAddresses -> SUBSET BstNodes] /\ sub2[0] = {} /\ sub2[n] = {n}
    BY <1>2, <1>6
  <1> HIDE DEF sub2
  <1>8. new[n].left = 0 /\ new[n].right = 0 /\ new[n].parent = 0 /\ \A l \in BstLinks : new[n][l] = 0
    BY <1>5 DEF BstLinks
  <1>9. IsTree(new, n, sub2)
    BY <1>5, <1>6, <1>7, <1>8 DEF IsTree
  <1>10. IsOrdered(new, n, sub2)
    BY <1>5, <1>7, <1>8 DEF IsOrdered
  <1>11. bst_set' = Contents(new, {n})
    BY <1>5 DEF Contents
  <1>12. \A x \in DOMAIN new \ sub2[n] : ~new[x].is_valid /\ new[x].parent = 0
    BY <1>3, <1>4, <1>5, <1>7
  <1>13. StandsFor(new, n, bst_set', sub2)
    BY <1>7, <1>9, <1>10, <1>11, <1>12 DEF StandsFor
  <1>14. bst' = new /\ bst_root' = n
    BY DEF new, n
  <1> QED
    BY <1>13, <1>14 DEF BstInv

\* destroy deletes the nodes of a tree with values, and leaves an emptied root.
LEMMA BstDestroyKeeps ==
  ASSUME BstInv, BstDestroy
  PROVE  BstInv'
  <1>1. PICK sub : StandsFor(bst, bst_root, bst_set, sub)
    BY DEF BstInv
  <1> DEFINE T == sub[bst_root]
             new == [n \in DOMAIN bst \ Visited |-> bst[n]]
             sub2 == [x \in 0 .. BstAddresses |-> {}]
  <1>2. bst_root # 0 /\ bst' = new /\ bst_root' = 0 /\ bst_set' = {}
    BY DEF BstDestroy
  <1>3. /\ IsTree(bst, bst_root, sub) /\ IsOrdered(bst, bst_root, sub)
        /\ \A x \in DOMAIN bst \ T : ~bst[x].is_valid /\ bst[x].parent = 0
    BY <1>1 DEF StandsFor
  <1>4. /\ BstMemory(new) /\ DOMAIN new = DOMAIN bst \ Visited
        /\ \A x \in DOMAIN new : new[x] = bst[x]
    BY <1>3 DEF IsTree, BstMemory
  <1>5. \A x \in DOMAIN bst \ Visited : ~bst[x].is_valid /\ bst[x].parent = 0
    <2>1. CASE bst[bst_root].is_valid
      <3>1. Visited = T
        BY <1>2, <1>3, <2>1, ReachedIsTree DEF Visited
      <3> QED
        BY <1>3, <3>1
    <2>2. CASE ~bst[bst_root].is_valid
      <3>1. T = {bst_root} /\ Visited = {}
        BY <1>2, <1>3, <2>2, OrderedValues DEF Visited
      <3>2. bst[bst_root].parent = 0
        BY <1>2, <1>3 DEF IsTree
      <3> QED
        BY <1>3, <2>2, <3>1, <3>2
    <2> QED
      BY <2>1, <2>2
  <1> HIDE DEF new
  <1>6. sub2 \in [0 .. BstAddresses -> SUBSET BstNodes] /\ sub2[0] = {} /\ 0 \in 0 .. BstAddresses
    BY BstAssumption
  <1> HIDE DEF sub2
  <1>7. StandsFor(new, 0, {}, sub2)
    BY <1>4, <1>5, <1>6 DEF StandsFor, IsTree, IsOrdered, Contents
  <1> QED
    BY <1>2, <1>7 DEF BstInv

\* create_root, insert, erase and destroy keep the invariant.
LEMMA BstInvHolds == BstSpec => []BstInv
  <1>1. BstInit => BstInv
    <2> SUFFICES ASSUME BstInit PROVE BstInv
      OBVIOUS
    <2> DEFINE sub == [x \in 0 .. BstAddresses |-> {}]
    <2>1. DOMAIN bst = {} /\ bst_root = 0 /\ bst_set = {} /\ bst = << >>
      BY DEF BstInit
    <2>2. BstMemory(bst)
      BY <2>1 DEF BstMemory
    <2>3. sub \in [0 .. BstAddresses -> SUBSET BstNodes] /\ sub[0] = {} /\ 0 \in 0 .. BstAddresses
      BY BstAssumption
    <2> HIDE DEF sub
    <2>4. StandsFor(bst, bst_root, bst_set, sub)
      BY <2>1, <2>2, <2>3 DEF StandsFor, IsTree, IsOrdered, Contents
    <2> QED
      BY <2>4 DEF BstInv
  <1>2. BstInv /\ [BstNext]_bstVars => BstInv'
    <2> SUFFICES ASSUME BstInv, [BstNext]_bstVars PROVE BstInv'
      OBVIOUS
    <2>1. CASE \E v \in BstValues : BstCreate(v)
      <3>1. PICK v \in BstValues : BstCreate(v)
        BY <2>1
      <3> DEFINE r == NewNode(v, 0)
      <3>2. /\ r \in BstCells /\ r.left = 0 /\ r.right = 0 /\ r.parent = 0
            /\ r.value = v /\ r.is_valid = TRUE
        BY BstAssumption DEF NewNode, BstCells
      <3>3. /\ bst_root = 0 /\ Free # {} /\ bst_root' = Min(Free)
            /\ bst' = With(bst, Min(Free), r) /\ bst_set' = {v}
        BY <3>1 DEF BstCreate
      <3> HIDE DEF r
      <3> QED
        BY <3>2, <3>3, BstCreateKeeps
    <2>2. CASE BstCreateEmpty
      <3> DEFINE c == NewNode(Min(BstValues), 0)
                 r == [c EXCEPT !.is_valid = FALSE]
      <3>0. c \in BstCells /\ c.left = 0 /\ c.right = 0 /\ c.parent = 0
        BY BstAssumption DEF NewNode, BstCells
      <3>1. r \in BstCells /\ r.left = 0 /\ r.right = 0 /\ r.parent = 0 /\ r.is_valid = FALSE
        <4> HIDE DEF c
        <4> QED
          BY <3>0 DEF BstCells
      <3>2. /\ bst_root = 0 /\ Free # {} /\ bst_root' = Min(Free)
            /\ bst' = With(bst, Min(Free), r) /\ bst_set' = {}
        BY <2>2 DEF BstCreateEmpty
      <3> HIDE DEF r
      <3> QED
        BY <3>1, <3>2, BstCreateKeeps
    <2>3. CASE \E v \in BstValues : BstInsert(v)
      BY <2>3, BstInsertKeeps
    <2>4. CASE \E v \in BstValues : BstErase(v)
      BY <2>4, BstEraseKeeps
    <2>5. CASE BstDestroy
      BY <2>5, BstDestroyKeeps
    <2>6. CASE UNCHANGED bstVars
      BY <2>6 DEF BstInv, bstVars
    <2> QED
      BY <2>1, <2>2, <2>3, <2>4, <2>5, <2>6 DEF BstNext
  <1> QED
    BY <1>1, <1>2, PTL DEF BstSpec

\* After any sequence of create_root, insert, erase and destroy, for every set of values
\* and any size of memory, the tree is an ordered tree of the set of values it stands
\* for, find and the traversals agree with that set, and nothing but emptied roots is
\* leaked (tree.h:16-298).
THEOREM TreeStaysASet == BstSpec => []BstIsASet
  <1>1. BstInv => BstIsASet
    BY InvMeansASet
  <1> QED
    BY <1>1, BstInvHolds, PTL
=============================================================================
