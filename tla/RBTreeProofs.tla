---------------------------- MODULE RBTreeProofs ----------------------------
(***************************************************************************)
(* The red-black tree stays one, for any number of nodes and of nodes with *)
(* the same value: in every iteration of both repair loops the traversal   *)
(* is in order, the black nodes are balanced, red nodes are apart, and     *)
(* between two calls every value is found.                                 *)
(*                                                                         *)
(* The invariant numbers the nodes in the order of the traversal.  The     *)
(* subtree of a node is then an interval of numbers, rotations change only *)
(* the ends of two intervals, and no recursive function over the tree has  *)
(* to be reasoned about until the end, where the traversal, the ways down  *)
(* and the searches are shown to compute what the numbers say.             *)
(***************************************************************************)
EXTENDS RBTree, FiniteSetTheorems, TLAPS

-----------------------------------------------------------------------------
(* The cells of a tree after each of the operators. *)

\* What the fields of a tree are.
Trees == [root : Pointers, parent : [Nodes -> Pointers],
          child : [Sides -> [Nodes -> Pointers]], red : SUBSET Nodes]

\* The null pointer is no node.
LEMMA NodeFacts == /\ 0 \notin Nodes /\ nullptr = 0 /\ Pointers = Nodes \cup {0} /\ 0 \in Pointers
                   /\ Nodes \subseteq Nat
                   /\ Sides = {"left", "right"}
                   /\ \A s \in Sides : Other(s) \in Sides /\ Other(s) # s /\ Other(Other(s)) = s
  BY RBTreeAssumption DEF Nodes, nullptr, Pointers, Sides, Other

\* The cells after SetParent, Replace and two changes of a child.
ParentSet(t, n, p, u) ==
  /\ u \in Trees /\ u.root = t.root /\ u.child = t.child /\ u.red = t.red
  /\ \A m \in Nodes : u.parent[m] = IF m = n THEN p ELSE t.parent[m]

\* After Replace: the link that led to n leads to m.
Replaced(t, n, m, u) ==
  /\ u \in Trees /\ u.parent = t.parent /\ u.red = t.red
  /\ u.root = IF t.parent[n] = 0 THEN m ELSE t.root
  /\ \A a \in Sides : \A x \in Nodes :
       u.child[a][x] = IF x = t.parent[n] /\ a = SideOf(t, t.parent[n], n) THEN m ELSE t.child[a][x]

\* After a change of the child a of x and then of the child c of y.
ChildrenSet(t, a, x, z, c, y, w, u) ==
  /\ u \in Trees /\ u.root = t.root /\ u.parent = t.parent /\ u.red = t.red
  /\ \A s \in Sides : \A n \in Nodes :
       u.child[s][n] = IF s = c /\ n = y THEN w ELSE IF s = a /\ n = x THEN z ELSE t.child[s][n]

\* SetParent changes the parent of one node, if it is one.
LEMMA SetParentCells ==
  ASSUME NEW t \in Trees, NEW n \in Pointers, NEW p \in Pointers
  PROVE  ParentSet(t, n, p, SetParent(t, n, p))
  <1>1. CASE n = nullptr
    BY <1>1, NodeFacts DEF SetParent, ParentSet, Trees
  <1>2. CASE n # nullptr
    <2>1. n \in Nodes /\ SetParent(t, n, p) = [t EXCEPT !.parent[n] = p]
      BY <1>2, NodeFacts DEF SetParent
    <2> QED
      BY <2>1 DEF Trees, ParentSet
  <1> QED
    BY <1>1, <1>2

\* Replace changes the link that leads to the node.
LEMMA ReplaceCells ==
  ASSUME NEW t \in Trees, NEW n \in Nodes, NEW m \in Pointers
  PROVE  Replaced(t, n, m, Replace(t, n, m))
  <1> DEFINE p == t.parent[n]
             a == SideOf(t, p, n)
             u == Replace(t, n, m)
  <1>1. p \in Pointers /\ a \in Sides
    BY DEF Trees, SideOf, Sides
  <1>2. CASE p = 0
    <2>1. u = [t EXCEPT !.root = m]
      BY <1>2, NodeFacts DEF Replace
    <2> QED
      BY <1>2, <2>1, NodeFacts DEF Trees, Replaced
  <1>3. CASE p # 0
    <2>1. u = [t EXCEPT !.child[a][p] = m] /\ p \in Nodes
      BY <1>1, <1>3, NodeFacts DEF Replace
    <2> HIDE DEF a, p
    <2>2. u = [t EXCEPT !.child = [t.child EXCEPT ![a] = [t.child[a] EXCEPT ![p] = m]]]
      BY <2>1 DEF Trees
    <2>3. u \in Trees
      <3>1. t.child \in [Sides -> [Nodes -> Pointers]]
        BY DEF Trees
      <3>2. [t.child EXCEPT ![a] = [t.child[a] EXCEPT ![p] = m]] \in [Sides -> [Nodes -> Pointers]]
        BY <1>1, <2>1, <3>1
      <3> QED
        BY <2>2, <3>2 DEF Trees
    <2>4. \A s \in Sides : \A x \in Nodes : u.child[s][x] = IF x = p /\ s = a THEN m ELSE t.child[s][x]
      BY <1>1, <2>1, <2>2 DEF Trees
    <2> QED
      BY <1>3, <2>2, <2>3, <2>4 DEF Trees, Replaced, a, p
  <1> QED
    BY <1>2, <1>3

\* Two links are changed.
SetChild(t, a, x, z, c, y, w) == [t EXCEPT !.child[a][x] = z, !.child[c][y] = w]

\* The cells after it.
LEMMA SetChildCells ==
  ASSUME NEW t \in Trees, NEW a \in Sides, NEW x \in Nodes, NEW z \in Pointers,
         NEW c \in Sides, NEW y \in Nodes, NEW w \in Pointers
  PROVE  ChildrenSet(t, a, x, z, c, y, w, SetChild(t, a, x, z, c, y, w))
  <1> DEFINE u == SetChild(t, a, x, z, c, y, w)
             k1 == [t.child EXCEPT ![a] = [t.child[a] EXCEPT ![x] = z]]
             k2 == [k1 EXCEPT ![c] = [k1[c] EXCEPT ![y] = w]]
  <1>1. u = [t EXCEPT !.child = k2]
    BY DEF Trees, SetChild
  <1>2. t.child \in [Sides -> [Nodes -> Pointers]]
    BY DEF Trees
  <1>3. /\ k1 \in [Sides -> [Nodes -> Pointers]]
        /\ \A s \in Sides : \A n \in Nodes : k1[s][n] = IF s = a /\ n = x THEN z ELSE t.child[s][n]
    BY <1>2
  <1> HIDE DEF k1
  <1>4. /\ k2 \in [Sides -> [Nodes -> Pointers]]
        /\ \A s \in Sides : \A n \in Nodes : k2[s][n] = IF s = c /\ n = y THEN w ELSE k1[s][n]
    BY <1>3
  <1> HIDE DEF k2
  <1>5. u \in Trees /\ u.root = t.root /\ u.parent = t.parent /\ u.red = t.red /\ u.child = k2
    BY <1>1, <1>4 DEF Trees
  <1> QED
    BY <1>3, <1>4, <1>5 DEF ChildrenSet

\* The cells after a rotation: y, the child of x on the other side, takes its place.
Revolved(t, x, s, y, u) ==
  /\ u \in Trees /\ u.red = t.red
  /\ u.root = IF t.parent[x] = 0 THEN y ELSE t.root
  /\ \A n \in Nodes :
       u.parent[n] = IF n = x THEN y ELSE IF n = y THEN t.parent[x]
                     ELSE IF n = t.child[s][y] THEN x ELSE t.parent[n]
  /\ \A a \in Sides : \A n \in Nodes :
       u.child[a][n] = IF n = x /\ a = Other(s) THEN t.child[s][y]
                       ELSE IF n = y /\ a = s THEN x
                       ELSE IF n = t.parent[x] /\ a = SideOf(t, t.parent[x], x) THEN y
                       ELSE t.child[a][n]

\* What Revolve changes.
LEMMA RevolveCells ==
  ASSUME NEW t \in Trees, NEW x \in Nodes, NEW s \in Sides, NEW y \in Nodes,
         y = t.child[Other(s)][x], x # y, t.child[s][y] \notin {x, y}, t.parent[x] \notin {x, y}
  PROVE  Revolved(t, x, s, y, Revolve(t, x, s))
  <1> DEFINE z == t.child[s][y]
             p == t.parent[x]
             t1 == SetParent(t, z, x)
             t2 == Replace(t1, x, y)
             t3 == SetParent(t2, y, p)
             t4 == SetChild(t3, Other(s), x, z, s, y, x)
             t5 == SetParent(t4, x, y)
  <1>1. Revolve(t, x, s) = t5
    BY DEF Revolve, SetChild
  <1>2. /\ z \in Pointers /\ p \in Pointers /\ x \in Pointers /\ y \in Pointers /\ Other(s) \in Sides
        /\ z \notin {x, y} /\ p \notin {x, y} /\ Other(s) # s
    BY NodeFacts DEF Trees
  <1> HIDE DEF z, p
  <1>3. ParentSet(t, z, x, t1)
    BY <1>2, SetParentCells
  <1> HIDE DEF t1
  <1>4. t1 \in Trees /\ t1.parent[x] = p /\ SideOf(t1, p, x) = SideOf(t, p, x)
    BY <1>2, <1>3 DEF SideOf, p, ParentSet
  <1>5. Replaced(t1, x, y, t2)
    BY <1>2, <1>4, ReplaceCells
  <1> HIDE DEF t2
  <1>12. t2 \in Trees
    BY <1>5 DEF Replaced
  <1>6. ParentSet(t2, y, p, t3)
    BY <1>2, <1>12, SetParentCells
  <1> HIDE DEF t3
  <1>13. t3 \in Trees
    BY <1>6 DEF ParentSet
  <1>7. ChildrenSet(t3, Other(s), x, z, s, y, x, t4)
    BY <1>2, <1>13, SetChildCells
  <1> HIDE DEF t4
  <1>11. t4 \in Trees
    BY <1>7 DEF ChildrenSet
  <1>8. ParentSet(t4, x, y, t5)
    BY <1>2, <1>11, SetParentCells
  <1> HIDE DEF t5
  <1>14. /\ t5 \in Trees /\ t5.red = t.red /\ t5.root = IF p = 0 THEN y ELSE t.root
    BY <1>3, <1>4, <1>5, <1>6, <1>7, <1>8 DEF ParentSet, Replaced, ChildrenSet
  <1>9. \A a \in Sides : \A n \in Nodes :
           t5.child[a][n] = IF n = x /\ a = Other(s) THEN z
                            ELSE IF n = y /\ a = s THEN x
                            ELSE IF n = p /\ a = SideOf(t, p, x) THEN y
                            ELSE t.child[a][n]
    BY <1>2, <1>3, <1>4, <1>5, <1>6, <1>7, <1>8 DEF ParentSet, Replaced, ChildrenSet
  <1>10. \A n \in Nodes : t5.parent[n] = IF n = x THEN y ELSE IF n = y THEN p
                                         ELSE IF n = z THEN x ELSE t.parent[n]
    BY <1>2, <1>3, <1>5, <1>6, <1>7, <1>8 DEF ParentSet, Replaced, ChildrenSet
  <1> QED
    BY <1>1, <1>9, <1>10, <1>14 DEF Revolved, z, p

-----------------------------------------------------------------------------
(* Trees: the nodes are numbered in the order of the traversal, and the    *)
(* subtree of a node is an interval of numbers.                            *)

\* The same links in other colors.
Painted(t, u) == u \in Trees /\ u.root = t.root /\ u.parent = t.parent /\ u.child = t.child

\* What the colors are after a change of one.
LEMMA SetRedCells ==
  ASSUME NEW t \in Trees, NEW n \in Nodes
  PROVE  Painted(t, SetRed(t, n)) /\ SetRed(t, n) \in Trees /\ SetRed(t, n).red = t.red \cup {n}
  BY DEF Trees, SetRed, Painted

\* The same for black.
LEMMA SetBlackCells ==
  ASSUME NEW t \in Trees, NEW n
  PROVE  Painted(t, SetBlack(t, n)) /\ SetBlack(t, n) \in Trees /\ SetBlack(t, n).red = t.red \ {n}
  BY DEF Trees, SetBlack, Painted

\* And for the color of another node.
LEMMA CopyColorCells ==
  ASSUME NEW t \in Trees, NEW n \in Nodes, NEW m
  PROVE  /\ Painted(t, CopyColor(t, n, m)) /\ CopyColor(t, n, m) \in Trees
         /\ CopyColor(t, n, m).red = IF m \in t.red THEN t.red \cup {n} ELSE t.red \ {n}
  BY SetRedCells, SetBlackCells DEF CopyColor, IsRed

\* The position next to i on a side.
Beside(s, i) == IF s = "left" THEN i - 1 ELSE i + 1

\* The nodes of T, numbered in the order of the traversal.
Numbered(T, N, at, pos) ==
  /\ T \subseteq Nodes /\ N \in Nat
  /\ at \in [1 .. N -> T] /\ pos \in [T -> 1 .. N]
  /\ \A n \in T : at[pos[n]] = n
  /\ \A i \in 1 .. N : pos[at[i]] = i

\* The subtree of n is the positions from b["left"][n] to b["right"][n].
SpansAt(t, T, pos, b, n, s) ==
  IF t.child[s][n] = 0 THEN b[s][n] = pos[n]
  ELSE /\ t.child[s][n] \in T /\ t.parent[t.child[s][n]] = n
       /\ b[s][t.child[s][n]] = b[s][n] /\ b[Other(s)][t.child[s][n]] = Beside(s, pos[n])

\* Every subtree is the interval that its ends tell.
Spans(t, T, N, pos, b) ==
  /\ b \in [Sides -> [T -> 1 .. N]]
  /\ \A n \in T : /\ b["left"][n] <= pos[n] /\ pos[n] <= b["right"][n]
                  /\ \A s \in Sides : SpansAt(t, T, pos, b, n, s)

\* Every node is the root or a child of its parent.
Hangs(t, T) ==
  \A n \in T : IF t.parent[n] = 0 THEN n = t.root
               ELSE t.parent[n] \in T /\ \E s \in Sides : t.child[s][t.parent[n]] = n

\* The tree of the root is all of T.
Rooted(t, T, N, b) ==
  IF T = {} THEN t.root = 0
  ELSE t.root \in T /\ t.parent[t.root] = 0 /\ b["left"][t.root] = 1 /\ b["right"][t.root] = N

\* The links of t are those of a tree of the nodes of T.
Shape(t, T, N, at, pos, b) ==
  t \in Trees /\ Numbered(T, N, at, pos) /\ Spans(t, T, N, pos, b) /\ Hangs(t, T) /\ Rooted(t, T, N, b)

\* Colors do not matter for it.
LEMMA PaintShape ==
  ASSUME NEW t, NEW u, NEW T, NEW N, NEW at, NEW pos, NEW b, Shape(t, T, N, at, pos, b), Painted(t, u)
  PROVE  Shape(u, T, N, at, pos, b)
  BY DEF Shape, Painted, Spans, SpansAt, Hangs, Rooted

\* What the neighbors of a node in the tree are.
ChildFacts(t, T, n, s) ==
  LET c == t.child[s][n]
  IN  c # 0 => /\ c \in T /\ c # n /\ t.parent[c] = n /\ c # t.root
               /\ t.child[Other(s)][n] # c /\ SideOf(t, n, c) = s
               /\ t.child["left"][c] # n /\ t.child["right"][c] # n
               /\ t.parent[n] # c

\* And of its parent.
ParentFacts(t, T, n) ==
  LET p == t.parent[n]
  IN  IF p = 0 THEN n = t.root
      ELSE p \in T /\ p # n /\ SideOf(t, p, n) \in Sides /\ t.child[SideOf(t, p, n)][p] = n
           /\ t.parent[p] # n

\* A node is told apart from its children and its parent.
LEMMA Neighbors ==
  ASSUME NEW t, NEW T, NEW N, NEW at, NEW pos, NEW b, Shape(t, T, N, at, pos, b)
  PROVE  \A n \in T : /\ n \in Nodes /\ n # 0 /\ ParentFacts(t, T, n)
                      /\ \A s \in Sides : ChildFacts(t, T, n, s)
  <1>1. /\ T \subseteq Nodes /\ 0 \notin T
        /\ pos \in [T -> Nat] /\ b["left"] \in [T -> Nat] /\ b["right"] \in [T -> Nat]
        /\ \A n \in T : /\ b["left"][n] <= pos[n] /\ pos[n] <= b["right"][n]
                        /\ \A s \in Sides : SpansAt(t, T, pos, b, n, s)
        /\ Hangs(t, T) /\ Rooted(t, T, N, b)
    BY NodeFacts DEF Shape, Numbered, Spans, Sides
  <1>2. ASSUME NEW n \in T, NEW s \in Sides PROVE ChildFacts(t, T, n, s)
    <2> DEFINE c == t.child[s][n]
    <2> SUFFICES ASSUME c # 0 PROVE ChildFacts(t, T, n, s)
      BY DEF ChildFacts
    <2>1. /\ c \in T /\ t.parent[c] = n
          /\ b[s][c] = b[s][n] /\ b[Other(s)][c] = Beside(s, pos[n])
      BY <1>1 DEF SpansAt
    <2>2. /\ b["left"][c] <= pos[c] /\ pos[c] <= b["right"][c] /\ b["left"][n] <= pos[n] /\ pos[n] <= b["right"][n]
          /\ pos[c] \in Nat /\ pos[n] \in Nat /\ \A a \in Sides : b[a][c] \in Nat /\ b[a][n] \in Nat
      BY <1>1, <2>1 DEF Sides
    <2>3. c # n /\ IF s = "left" THEN pos[c] < pos[n] ELSE pos[c] > pos[n]
      BY <2>1, <2>2 DEF Beside, Sides, Other
    <2>4. ASSUME NEW m \in T, NEW a \in Sides, t.child[a][m] # 0
          PROVE  /\ t.child[a][m] \in T /\ t.parent[t.child[a][m]] = m
                 /\ IF a = "left" THEN pos[t.child[a][m]] < pos[m] ELSE pos[t.child[a][m]] > pos[m]
                 /\ b["left"][m] <= b["left"][t.child[a][m]] /\ b["right"][t.child[a][m]] <= b["right"][m]
      <3> DEFINE d == t.child[a][m]
      <3>1. /\ d \in T /\ t.parent[d] = m
            /\ b[a][d] = b[a][m] /\ b[Other(a)][d] = Beside(a, pos[m])
        BY <1>1, <2>4 DEF SpansAt
      <3>2. /\ b["left"][d] <= pos[d] /\ pos[d] <= b["right"][d] /\ b["left"][m] <= pos[m] /\ pos[m] <= b["right"][m]
            /\ pos[d] \in Nat /\ pos[m] \in Nat /\ \A k \in Sides : b[k][d] \in Nat /\ b[k][m] \in Nat
        BY <1>1, <3>1 DEF Sides
      <3> HIDE DEF d
      <3>3. IF a = "left" THEN pos[d] < pos[m] ELSE pos[d] > pos[m]
        BY <3>1, <3>2 DEF Beside, Sides, Other
      <3>4. b["left"][m] <= b["left"][d] /\ b["right"][d] <= b["right"][m]
        BY <3>1, <3>2 DEF Beside, Sides, Other
      <3> QED
        BY <3>1, <3>3, <3>4 DEF d
    <2>5. c # t.root
      BY <1>1, <2>1, NodeFacts DEF Rooted
    <2>6. t.child[Other(s)][n] # c
      <3> SUFFICES ASSUME t.child[Other(s)][n] = c PROVE FALSE
        OBVIOUS
      <3>1. Other(s) \in Sides /\ (Other(s) = "left") # (s = "left")
        BY DEF Other, Sides
      <3>2. IF Other(s) = "left" THEN pos[c] < pos[n] ELSE pos[c] > pos[n]
        BY <2>4, <3>1
      <3> QED
        BY <2>2, <2>3, <3>1, <3>2
    <2>7. SideOf(t, n, c) = s
      BY <2>6 DEF SideOf, Other, Sides
    <2>8. \A a \in Sides : t.child[a][c] # n
      <3> SUFFICES ASSUME NEW a \in Sides, t.child[a][c] = n PROVE FALSE
        OBVIOUS
      <3>1. n # 0
        BY <1>1
      <3>2. b["left"][c] <= b["left"][n] /\ b["right"][n] <= b["right"][c]
        BY <2>1, <2>4, <3>1
      <3> QED
        BY <2>1, <2>2, <3>2 DEF Beside, Sides, Other
    <2>9. t.parent[n] # c
      BY <1>1, <2>1, <2>8 DEF Hangs
    <2> QED
      BY <2>1, <2>3, <2>5, <2>6, <2>7, <2>8, <2>9 DEF ChildFacts, Sides
  <1>3. ASSUME NEW n \in T PROVE ParentFacts(t, T, n)
    <2>1. CASE t.parent[n] = 0
      BY <1>1, <2>1 DEF ParentFacts, Hangs
    <2>2. CASE t.parent[n] # 0
      <3> DEFINE p == t.parent[n]
      <3>3. p \in T /\ n # 0
        BY <1>1, <2>2 DEF Hangs
      <3>1. PICK s \in Sides : t.child[s][p] = n
        BY <1>1, <2>2 DEF Hangs
      <3>2. ChildFacts(t, T, p, s)
        BY <1>2, <3>1, <3>3
      <3> QED
        BY <2>2, <3>1, <3>2, <3>3 DEF ChildFacts, ParentFacts
    <2> QED
      BY <2>1, <2>2
  <1> QED
    BY <1>1, <1>2, <1>3

-----------------------------------------------------------------------------
(* Rotations keep the numbers. *)

\* The intervals after a rotation: those of x and y have changed.
Turned(T, pos, b, x, s, y) ==
  [a \in Sides |-> [n \in T |-> IF a = Other(s) /\ n = x THEN Beside(s, pos[y])
                                ELSE IF a = s /\ n = y THEN b[s][x] ELSE b[a][n]]]

\* A rotation of nodes of the tree changes the cells it should.
LEMMA RevolveTree ==
  ASSUME NEW t, NEW T, NEW N, NEW at, NEW pos, NEW b, Shape(t, T, N, at, pos, b),
         NEW x \in T, NEW s \in Sides, t.child[Other(s)][x] # 0
  PROVE  Revolved(t, x, s, t.child[Other(s)][x], Revolve(t, x, s))
  <1> DEFINE y == t.child[Other(s)][x]
             z == t.child[s][y]
  <1>1. /\ \A n \in T : /\ n \in Nodes /\ n # 0 /\ ParentFacts(t, T, n)
                        /\ \A a \in Sides : ChildFacts(t, T, n, a)
        /\ t \in Trees
    BY Neighbors DEF Shape
  <1>2. Other(s) \in Sides /\ ChildFacts(t, T, x, Other(s)) /\ ParentFacts(t, T, x)
    BY <1>1, NodeFacts
  <1>3. y \in T /\ y # x /\ t.parent[x] \notin {x, y}
    BY <1>1, <1>2 DEF ChildFacts, ParentFacts
  <1>4. z # 0 => ChildFacts(t, T, y, s)
    BY <1>1, <1>3
  <1>5. z \notin {x, y}
    <2>1. z # y
      BY <1>1, <1>3, <1>4 DEF ChildFacts
    <2>2. z # x
      BY <1>1, <1>2, <1>3 DEF ChildFacts, Sides
    <2> QED
      BY <2>1, <2>2
  <1> QED
    BY <1>1, <1>3, <1>5, RevolveCells

\* It leaves a tree with the nodes in the same order (rbtree.h:153-204).
LEMMA RevolveShape ==
  ASSUME NEW t, NEW T, NEW N, NEW at, NEW pos, NEW b, Shape(t, T, N, at, pos, b),
         NEW x \in T, NEW s \in Sides, t.child[Other(s)][x] # 0
  PROVE  Shape(Revolve(t, x, s), T, N, at, pos, Turned(T, pos, b, x, s, t.child[Other(s)][x]))
  <1> DEFINE y == t.child[Other(s)][x]
             z == t.child[s][y]
             p == t.parent[x]
             u == Revolve(t, x, s)
             o == Other(s)
             b2 == Turned(T, pos, b, x, s, y)
  <1>1. /\ \A n \in T : /\ n \in Nodes /\ n # 0 /\ ParentFacts(t, T, n)
                        /\ \A a \in Sides : ChildFacts(t, T, n, a)
        /\ t \in Trees /\ Numbered(T, N, at, pos) /\ Spans(t, T, N, pos, b) /\ Hangs(t, T) /\ Rooted(t, T, N, b)
    BY Neighbors DEF Shape
  <1>2. /\ Other(s) \in Sides /\ Other(s) # s /\ Other(o) = s
        /\ Sides = {"left", "right"} /\ {s, o} = Sides
    BY NodeFacts DEF Other
  <1>3. /\ y \in T /\ y # x /\ y # 0 /\ x # 0 /\ p \notin {x, y} /\ t.parent[y] = x /\ y # t.root
        /\ t.child[s][x] # y /\ t.child[s][y] # x /\ t.child[o][y] # x /\ p # y
    BY <1>1, <1>2 DEF ChildFacts, ParentFacts
  <1>4. z # 0 => z \in T /\ z # x /\ z # y /\ t.parent[z] = y /\ z # t.root
    <2>1. z # 0 => ChildFacts(t, T, y, s) /\ z # x
      BY <1>1, <1>3
    <2> QED
      BY <2>1 DEF ChildFacts
  <1>5. Revolved(t, x, s, y, u)
    BY RevolveTree
  <1>6. /\ T \subseteq Nodes /\ pos \in [T -> 1 .. N] /\ b \in [Sides -> [T -> 1 .. N]] /\ N \in Nat
        /\ \A n \in T : /\ b["left"][n] <= pos[n] /\ pos[n] <= b["right"][n]
                        /\ \A a \in Sides : SpansAt(t, T, pos, b, n, a)
    BY <1>1 DEF Numbered, Spans
  <1>7. p # 0 => p \in T /\ SideOf(t, p, x) \in Sides /\ t.child[SideOf(t, p, x)][p] = x
    BY <1>1 DEF ParentFacts
  <1>8. p = 0 => x = t.root
    BY <1>1 DEF ParentFacts
  <1> DEFINE d == SideOf(t, p, x)
  <1>9. /\ b[o][y] = b[o][x] /\ b[s][y] = Beside(o, pos[x])
        /\ IF z = 0 THEN b[s][y] = pos[y]
           ELSE b[s][z] = b[s][y] /\ b[o][z] = Beside(s, pos[y])
        /\ p # 0 => b[d][x] = b[d][p] /\ b[Other(d)][x] = Beside(d, pos[p])
    BY <1>2, <1>3, <1>4, <1>6, <1>7 DEF SpansAt
  <1> HIDE DEF p, d, z, y, o, u
  <1>10. \A a \in Sides : \A n \in T :
           b2[a][n] = IF a = o /\ n = x THEN Beside(s, pos[y]) ELSE IF a = s /\ n = y THEN b[s][x] ELSE b[a][n]
    BY DEF Turned, o
  <1>11. /\ pos[x] \in 1 .. N /\ pos[y] \in 1 .. N /\ b[s][x] \in 1 .. N /\ b[s][y] \in 1 .. N
         /\ b[o][x] \in 1 .. N /\ b[o][y] \in 1 .. N /\ b["left"][y] <= pos[y] /\ pos[y] <= b["right"][y]
         /\ b["left"][x] <= pos[x] /\ pos[x] <= b["right"][x]
    BY <1>2, <1>3, <1>6
  <1>12. /\ Beside(s, pos[y]) \in 1 .. N
         /\ s = "left" => pos[x] <= Beside(s, pos[y]) /\ b[s][x] <= pos[y]
         /\ s = "right" => pos[x] >= Beside(s, pos[y]) /\ b[s][x] >= pos[y]
         /\ (pos[y] = Beside(o, pos[x])) => Beside(s, pos[y]) = pos[x]
    BY <1>2, <1>6, <1>9, <1>11 DEF Beside
  <1>13. b2 \in [Sides -> [T -> 1 .. N]]
    BY <1>2, <1>3, <1>6, <1>12 DEF Turned
  <1>14. ASSUME NEW n \in T PROVE b2["left"][n] <= pos[n] /\ pos[n] <= b2["right"][n]
    <2>1. "left" \in Sides /\ "right" \in Sides
      BY <1>2
    <2>2. /\ b2["left"][n] = IF "left" = o /\ n = x THEN Beside(s, pos[y])
                             ELSE IF "left" = s /\ n = y THEN b[s][x] ELSE b["left"][n]
          /\ b2["right"][n] = IF "right" = o /\ n = x THEN Beside(s, pos[y])
                             ELSE IF "right" = s /\ n = y THEN b[s][x] ELSE b["right"][n]
      BY <1>10, <2>1
    <2>3. b["left"][n] <= pos[n] /\ pos[n] <= b["right"][n]
      BY <1>6
    <2> HIDE DEF b2
    <2> QED
      BY <1>2, <1>12, <2>2, <2>3
  <1> HIDE DEF b2
  <1>15. /\ u \in Trees
         /\ u.root = IF p = 0 THEN y ELSE t.root
         /\ \A n \in Nodes :
              u.parent[n] = IF n = x THEN y ELSE IF n = y THEN p ELSE IF n = z THEN x ELSE t.parent[n]
         /\ \A a \in Sides : \A n \in Nodes :
              u.child[a][n] = IF n = x /\ a = o THEN z ELSE IF n = y /\ a = s THEN x
                              ELSE IF n = p /\ a = d THEN y ELSE t.child[a][n]
    BY <1>5 DEF Revolved, p, d, z, o
  <1>16. ASSUME NEW n \in T, NEW a \in Sides PROVE SpansAt(u, T, pos, b2, n, a)
    <2>1. CASE n = x /\ a = o
      <3>1. u.child[a][n] = z
        BY <1>6, <1>15, <2>1
      <3>2. CASE z = 0
        BY <1>2, <1>3, <1>9, <1>10, <1>12, <2>1, <3>1, <3>2 DEF SpansAt
      <3>3. CASE z # 0
        <4>1. u.parent[z] = x /\ z \in T /\ z # x /\ z # y
          BY <1>4, <1>6, <1>15, <3>3
        <4>2. b2[o][z] = b[o][z] /\ b2[s][z] = b[s][z] /\ b2[o][x] = Beside(s, pos[y])
          BY <1>2, <1>3, <1>10, <4>1
        <4> QED
          BY <1>2, <1>9, <2>1, <3>1, <3>3, <4>1, <4>2 DEF SpansAt
      <3> QED
        BY <3>2, <3>3
    <2>2. CASE n = y /\ a = s
      <3>1. u.child[a][n] = x /\ u.parent[x] = y
        BY <1>3, <1>6, <1>15, <2>2
      <3>2. b2[s][y] = b[s][x] /\ b2[s][x] = b[s][x] /\ b2[o][x] = Beside(s, pos[y])
        BY <1>2, <1>3, <1>10
      <3>3. Other(s) = o /\ x # 0
        BY <1>3 DEF o
      <3> QED
        BY <2>2, <3>1, <3>2, <3>3 DEF SpansAt
    <2>3. CASE n = p /\ a = d
      <3>1. p # 0 /\ p \in T /\ p \notin {x, y} /\ d \in Sides
        BY <1>1, <1>3, <1>7, <2>3 DEF d
      <3>2. u.child[d][p] = y /\ u.parent[y] = p
        BY <1>3, <1>6, <1>15, <3>1
      <3>3. \A k \in Sides : b2[k][p] = b[k][p] /\ b2[k][y] = b[k][x]
        BY <1>2, <1>3, <1>9, <1>10, <3>1
      <3>4. Other(d) \in Sides
        BY <3>1, NodeFacts
      <3> QED
        BY <1>3, <1>9, <2>3, <3>1, <3>2, <3>3, <3>4 DEF SpansAt
    <2>4. CASE ~(n = x /\ a = o) /\ ~(n = y /\ a = s) /\ ~(n = p /\ a = d)
      <3> DEFINE c == t.child[a][n]
      <3>1. u.child[a][n] = c /\ SpansAt(t, T, pos, b, n, a) /\ ChildFacts(t, T, n, a)
        BY <1>1, <1>6, <1>15, <2>4
      <3>2. b2[a][n] = b[a][n]
        BY <1>10, <2>4
      <3>3. CASE c = 0
        BY <3>1, <3>2, <3>3 DEF SpansAt
      <3>4. CASE c # 0
        <4>1. c \in T /\ t.parent[c] = n /\ SideOf(t, n, c) = a
              /\ b[a][c] = b[a][n] /\ b[Other(a)][c] = Beside(a, pos[n])
          BY <3>1, <3>4 DEF SpansAt, ChildFacts
        <4>2. c # y
          <5>1. c = y => n = x
            BY <1>3, <4>1
          <5>2. c = y => a = o
            BY <1>2, <1>3, <2>4, <5>1
          <5> QED
            BY <2>4, <5>1, <5>2
        <4>3. c # x
          BY <2>4, <4>1 DEF p, d
        <4>4. c # z
          <5>1. c = z => n = y
            BY <1>4, <3>4, <4>1
          <5>2. c = z => ChildFacts(t, T, y, s)
            BY <1>1, <1>3
          <5>3. c = z => SideOf(t, y, z) = s
            BY <3>4, <5>2 DEF ChildFacts, z
          <5> QED
            BY <2>4, <4>1, <5>1, <5>3
        <4>5. u.parent[c] = n
          BY <1>6, <1>15, <4>1, <4>2, <4>3, <4>4
        <4>6. Other(a) \in Sides /\ b2[a][c] = b[a][c] /\ b2[Other(a)][c] = b[Other(a)][c]
          BY <1>10, <4>1, <4>2, <4>3, NodeFacts
        <4> QED
          BY <3>1, <3>2, <4>1, <4>5, <4>6 DEF SpansAt
      <3> QED
        BY <3>3, <3>4
    <2> QED
      BY <2>1, <2>2, <2>3, <2>4
  <1>17. Hangs(u, T)
    <2> SUFFICES ASSUME NEW n \in T
                 PROVE  IF u.parent[n] = 0 THEN n = u.root
                        ELSE u.parent[n] \in T /\ \E a \in Sides : u.child[a][u.parent[n]] = n
      BY DEF Hangs
    <2>1. n \in Nodes /\ p \notin {x, y} /\ x \in Nodes /\ y \in Nodes
      BY <1>1, <1>3
    <2>2. CASE n = x
      <3>1. u.parent[n] = y /\ u.child[s][y] = x
        BY <1>3, <1>15, <2>1, <2>2
      <3> QED
        BY <1>3, <2>2, <3>1
    <2>3. CASE n = y
      <3>1. u.parent[n] = p
        BY <1>3, <1>15, <2>1, <2>3
      <3>2. CASE p = 0
        BY <1>15, <2>3, <3>1, <3>2
      <3>3. CASE p # 0
        <4>1. p \in T /\ p \in Nodes /\ d \in Sides
          BY <1>1, <1>7, <3>3 DEF d
        <4>2. u.child[d][p] = y
          BY <1>15, <2>1, <4>1
        <4> QED
          BY <2>3, <3>1, <3>3, <4>1, <4>2
      <3> QED
        BY <3>2, <3>3
    <2>4. CASE n \notin {x, y} /\ n = z
      <3>1. u.parent[n] = x /\ u.child[o][x] = z
        BY <1>2, <1>3, <1>15, <2>1, <2>4
      <3> QED
        BY <1>2, <1>3, <2>4, <3>1
    <2>5. CASE n \notin {x, y, z}
      <3>1. u.parent[n] = t.parent[n] /\ ParentFacts(t, T, n)
        BY <1>1, <1>15, <2>1, <2>5
      <3>2. CASE t.parent[n] = 0
        <4>1. n = t.root
          BY <3>1, <3>2 DEF ParentFacts
        <4> QED
          BY <1>8, <1>15, <2>5, <3>1, <3>2, <4>1
      <3>3. CASE t.parent[n] # 0
        <4> DEFINE q == t.parent[n]
                   a == SideOf(t, q, n)
        <4>1. q \in T /\ a \in Sides /\ t.child[a][q] = n /\ q \in Nodes
          BY <1>1, <3>1, <3>3 DEF ParentFacts
        <4> HIDE DEF q, a
        <4>2. ~(q = x /\ a = o) /\ ~(q = y /\ a = s)
          BY <2>5, <4>1 DEF y, z, o
        <4>3. ~(q = p /\ a = d)
          <5>1. q = p => p # 0
            BY <3>3 DEF q
          <5> QED
            BY <1>7, <2>5, <4>1, <5>1 DEF d
        <4>4. u.child[a][q] = n
          BY <1>15, <4>1, <4>2, <4>3
        <4>5. u.parent[n] = q /\ q # 0
          BY <3>1, <3>3 DEF q
        <4> QED
          BY <4>1, <4>4, <4>5
      <3> QED
        BY <3>2, <3>3
    <2> QED
      BY <2>2, <2>3, <2>4, <2>5
  <1>18. Rooted(u, T, N, b2)
    <2>1. /\ T # {} /\ t.root \in T /\ t.parent[t.root] = 0 /\ t.root # 0
          /\ b["left"][t.root] = 1 /\ b["right"][t.root] = N /\ t.root \in Nodes
      BY <1>1 DEF Rooted
    <2>2. CASE p = 0
      <3>1. x = t.root /\ u.root = y
        BY <1>8, <1>15, <2>2
      <3>2. \A k \in Sides : b2[k][y] = b[k][x]
        BY <1>2, <1>3, <1>9, <1>10
      <3>3. u.parent[y] = 0
        BY <1>1, <1>3, <1>15, <2>2
      <3> QED
        BY <1>2, <1>3, <2>1, <3>1, <3>2, <3>3 DEF Rooted
    <2>3. CASE p # 0
      <3>1. t.root # x /\ t.root # y
        BY <1>3, <2>1, <2>3 DEF p
      <3>2. t.root # z
        BY <1>3, <1>4, <2>1 
      <3>3. u.root = t.root /\ u.parent[t.root] = 0
        BY <1>15, <2>1, <2>3, <3>1, <3>2
      <3>4. \A k \in Sides : b2[k][t.root] = b[k][t.root]
        BY <1>10, <2>1, <3>1
      <3> QED
        BY <1>2, <2>1, <3>3, <3>4 DEF Rooted
    <2> QED
      BY <2>2, <2>3
  <1>19. Spans(u, T, N, pos, b2)
    BY <1>13, <1>14, <1>16 DEF Spans
  <1> QED
    BY <1>1, <1>15, <1>17, <1>18, <1>19 DEF Shape, u, y, b2

\* The nodes that are not in the tree keep their links.
LinksKept(t, u, T) ==
  \A n \in Nodes \ T : u.parent[n] = t.parent[n] /\ \A s \in Sides : u.child[s][n] = t.child[s][n]

\* A rotation changes the links of nodes of the tree only.
LEMMA RevolveKeeps ==
  ASSUME NEW t, NEW T, NEW N, NEW at, NEW pos, NEW b, Shape(t, T, N, at, pos, b),
         NEW x \in T, NEW s \in Sides, NEW y, y = t.child[Other(s)][x], y # 0, NEW t1, Painted(t, t1)
  PROVE  LinksKept(t, Revolve(t1, x, s), T)
  <1>1. Shape(t1, T, N, at, pos, b) /\ t1.child = t.child /\ t1.parent = t.parent
    BY PaintShape DEF Painted
  <1>2. Revolved(t1, x, s, y, Revolve(t1, x, s))
    BY <1>1, RevolveTree
  <1>3. /\ Other(s) \in Sides /\ ChildFacts(t, T, x, Other(s)) /\ ParentFacts(t, T, x)
    BY Neighbors, NodeFacts
  <1>4. y \in T /\ ChildFacts(t, T, y, s)
    <2>1. y \in T
      BY <1>3 DEF ChildFacts
    <2> QED
      BY <2>1, Neighbors
  <1>5. 0 \notin Nodes
    BY NodeFacts
  <1> QED
    BY <1>1, <1>2, <1>3, <1>4, <1>5 DEF Revolved, ChildFacts, ParentFacts, LinksKept

-----------------------------------------------------------------------------
(* Heights: the number of black nodes on the ways down from a node, counted as *)
(* if the one were there that erase_fixup is to make up for.               *)

\* The black nodes on the way down from a child, and the one that is missing below a
\* link (hp, hs), of which there is at most one.
Ht(t, h, n, a) == IF t.child[a][n] = 0 THEN 0 ELSE h[t.child[a][n]]
\* A black node is missing below hp on the side hs.
Hole(hp, hs, n, a) == IF n = hp /\ a = hs THEN 1 ELSE 0
\* What a node adds to the height.
Black(t, n) == IF n \in t.red THEN 0 ELSE 1

\* h[n] is the number of black nodes on every way from n down.
BalancedAt(t, h, hp, hs, n) ==
  \A a \in Sides : h[n] = Ht(t, h, n, a) + Hole(hp, hs, n, a) + Black(t, n)

\* All nodes have the height h.
Balanced(t, T, h, hp, hs) == h \in [T -> Nat] /\ \A n \in T : BalancedAt(t, h, hp, hs, n)

\* Except for the nodes of X, a red node has a black parent.
RedBut(t, T, X) == \A n \in T : n \in t.red => n \in X \/ (t.parent[n] # 0 /\ t.parent[n] \notin t.red)

\* The subtrees of children are smaller.
Width(b, n) == b["right"][n] - b["left"][n]

\* The subtree of a child is smaller than that of its parent.
LEMMA ChildWidth ==
  ASSUME NEW t, NEW T, NEW N, NEW at, NEW pos, NEW b, Shape(t, T, N, at, pos, b)
  PROVE  \A n \in T : /\ Width(b, n) \in 0 .. N
                      /\ \A s \in Sides : t.child[s][n] # 0 => Width(b, t.child[s][n]) < Width(b, n)
                      /\ t.parent[n] # 0 => Width(b, n) < Width(b, t.parent[n])
  <1>1. /\ N \in Nat /\ T \subseteq Nodes /\ 0 \notin T
        /\ pos \in [T -> 1 .. N] /\ b["left"] \in [T -> 1 .. N] /\ b["right"] \in [T -> 1 .. N]
        /\ \A n \in T : /\ b["left"][n] <= pos[n] /\ pos[n] <= b["right"][n]
                        /\ \A s \in Sides : SpansAt(t, T, pos, b, n, s)
    BY NodeFacts DEF Shape, Numbered, Spans, Sides
  <1>2. \A n \in T : /\ b["left"][n] \in 1 .. N /\ b["right"][n] \in 1 .. N /\ pos[n] \in 1 .. N
                     /\ b["left"][n] <= b["right"][n]
    BY <1>1
  <1>3. \A n \in T : Width(b, n) \in 0 .. N
    BY <1>1, <1>2 DEF Width
  <1>4. ASSUME NEW n \in T, NEW s \in Sides, t.child[s][n] # 0
        PROVE  Width(b, t.child[s][n]) < Width(b, n)
    <2> DEFINE c == t.child[s][n]
    <2>1. /\ c \in T /\ b[s][c] = b[s][n] /\ b[Other(s)][c] = Beside(s, pos[n])
      BY <1>1, <1>4 DEF SpansAt
    <2> HIDE DEF c
    <2>2. /\ b["left"][c] \in 1 .. N /\ b["right"][c] \in 1 .. N /\ b["left"][n] <= pos[n]
          /\ b["left"][n] \in 1 .. N /\ b["right"][n] \in 1 .. N /\ pos[n] \in 1 .. N
          /\ pos[n] <= b["right"][n]
      BY <1>1, <1>2, <2>1
    <2>3. CASE s = "left"
      BY <1>1, <2>1, <2>2, <2>3 DEF Beside, Other, Width, c
    <2>4. CASE s = "right"
      BY <1>1, <2>1, <2>2, <2>4 DEF Beside, Other, Width, c
    <2> QED
      BY <2>3, <2>4 DEF Sides
  <1>5. ASSUME NEW n \in T, t.parent[n] # 0 PROVE Width(b, n) < Width(b, t.parent[n])
    <2>1. ParentFacts(t, T, n) /\ n # 0
      BY Neighbors
    <2> QED
      BY <1>4, <1>5, <2>1 DEF ParentFacts
  <1> QED
    BY <1>3, <1>4, <1>5

\* Heights are numbers.
LEMMA HtFacts ==
  ASSUME NEW t, NEW T, NEW N, NEW at, NEW pos, NEW b, Shape(t, T, N, at, pos, b),
         NEW h \in [T -> Nat], NEW n \in T, NEW a \in Sides
  PROVE  /\ Ht(t, h, n, a) \in Nat
         /\ \A hp, hs : Hole(hp, hs, n, a) \in {0, 1}
         /\ Black(t, n) \in {0, 1}
         /\ t.child[a][n] # 0 => t.child[a][n] \in T /\ Ht(t, h, n, a) = h[t.child[a][n]]
         /\ t.child[a][n] = 0 => Ht(t, h, n, a) = 0
  <1>1. ChildFacts(t, T, n, a)
    BY Neighbors
  <1> QED
    BY <1>1 DEF ChildFacts, Ht, Hole, Black

\* The heights of the children after a rotation that gives x the height hx and y that
\* which x had.
TurnedHeights(h, x, y, hx) == [h EXCEPT ![x] = hx, ![y] = h[x]]

\* The heights fit the links after the rotation.
RevolvedHeights(t, T, h, x, s, y, hx, u) ==
  LET h2 == TurnedHeights(h, x, y, hx)
  IN  /\ h2 \in [T -> Nat] /\ h2[x] = hx /\ h2[y] = h[x]
      /\ \A n \in T \ {x, y} : h2[n] = h[n] /\ \A a \in Sides : Ht(u, h2, n, a) = Ht(t, h, n, a)
      /\ Ht(u, h2, x, s) = Ht(t, h, x, s) /\ Ht(u, h2, x, Other(s)) = Ht(t, h, y, s)
      /\ Ht(u, h2, y, s) = hx /\ Ht(u, h2, y, Other(s)) = Ht(t, h, y, Other(s))

\* What a rotation does to them.
LEMMA RevolveHeights ==
  ASSUME NEW t, NEW T, NEW N, NEW at, NEW pos, NEW b, Shape(t, T, N, at, pos, b),
         NEW x \in T, NEW s \in Sides, t.child[Other(s)][x] # 0,
         NEW t1, Painted(t, t1), NEW h \in [T -> Nat], NEW hx \in Nat
  PROVE  RevolvedHeights(t, T, h, x, s, t.child[Other(s)][x], hx, Revolve(t1, x, s))
  <1> DEFINE y == t.child[Other(s)][x]
             z == t.child[s][y]
             p == t.parent[x]
             d == SideOf(t, p, x)
             o == Other(s)
             u == Revolve(t1, x, s)
             h2 == TurnedHeights(h, x, y, hx)
  <1>1. /\ \A n \in T : /\ n \in Nodes /\ n # 0 /\ ParentFacts(t, T, n)
                        /\ \A a \in Sides : ChildFacts(t, T, n, a)
    BY Neighbors
  <1>2. o \in Sides /\ o # s /\ Other(o) = s /\ {s, o} = Sides
    BY NodeFacts
  <1>3. /\ y \in T /\ y # x /\ p \notin {x, y} /\ t.parent[y] = x /\ t.child[s][x] # y
        /\ t.child[s][y] # x /\ t.child[o][y] # x
    <2>1. ChildFacts(t, T, x, o) /\ ParentFacts(t, T, x)
      BY <1>1, <1>2
    <2>2. y \in T /\ y # x /\ t.parent[y] = x /\ t.child["left"][y] # x /\ t.child["right"][y] # x
          /\ t.child[Other(o)][x] # y /\ p # y
      BY <2>1 DEF ChildFacts
    <2>3. p # x
      BY <1>1, <2>1 DEF ParentFacts
    <2> QED
      BY <1>2, <2>2, <2>3 DEF Sides
  <1>4. z # 0 => z \in T /\ z # x /\ z # y
    <2>1. ChildFacts(t, T, y, s)
      BY <1>1, <1>3
    <2> QED
      BY <1>3, <2>1 DEF ChildFacts
  <1>5. Shape(t1, T, N, at, pos, b) /\ t1.child = t.child /\ t1.parent = t.parent
    BY PaintShape DEF Painted
  <1>6. Revolved(t1, x, s, y, u)
    BY <1>5, RevolveTree
  <1>7. \A a \in Sides : \A n \in Nodes :
          u.child[a][n] = IF n = x /\ a = o THEN z ELSE IF n = y /\ a = s THEN x
                          ELSE IF n = p /\ a = d THEN y ELSE t.child[a][n]
    BY <1>5, <1>6 DEF Revolved, SideOf
  <1>8. p # 0 => t.child[d][p] = x
    BY <1>1 DEF ParentFacts
  <1> HIDE DEF p, d, z, y, o, u
  <1>9. /\ h2 \in [T -> Nat] /\ h2[x] = hx /\ h2[y] = h[x]
        /\ \A n \in T \ {x, y} : h2[n] = h[n]
    BY <1>3 DEF TurnedHeights
  <1> HIDE DEF h2
  <1>10. ASSUME NEW n \in T \ {x, y}, NEW a \in Sides PROVE Ht(u, h2, n, a) = Ht(t, h, n, a)
    <2>1. CASE n = p /\ a = d
      <3>1. u.child[a][n] = y /\ t.child[a][n] = x
        BY <1>1, <1>7, <1>8, <2>1
      <3> QED
        BY <1>1, <1>3, <1>9, <3>1 DEF Ht
    <2>2. CASE ~(n = p /\ a = d)
      <3>1. u.child[a][n] = t.child[a][n] /\ ChildFacts(t, T, n, a)
        BY <1>1, <1>7, <2>2
      <3>2. t.child[a][n] # 0 => t.child[a][n] \in T /\ t.child[a][n] # y /\ t.child[a][n] # x
        BY <1>3, <2>2, <3>1 DEF ChildFacts, p, d
      <3> QED
        BY <1>9, <3>1, <3>2 DEF Ht
    <2> QED
      BY <2>1, <2>2
  <1>11. Ht(u, h2, x, s) = Ht(t, h, x, s)
    <2>1. u.child[s][x] = t.child[s][x] /\ ChildFacts(t, T, x, s)
      BY <1>1, <1>2, <1>3, <1>7
    <2>2. t.child[s][x] # 0 => t.child[s][x] \in T \ {x, y}
      BY <1>3, <2>1 DEF ChildFacts
    <2> QED
      BY <1>9, <2>1, <2>2 DEF Ht
  <1>12. Ht(u, h2, x, o) = Ht(t, h, y, s)
    <2>1. u.child[o][x] = z
      BY <1>1, <1>2, <1>7
    <2> QED
      BY <1>4, <1>9, <2>1 DEF Ht, z
  <1>13. Ht(u, h2, y, s) = hx
    <2>1. u.child[s][y] = x
      BY <1>1, <1>2, <1>3, <1>7
    <2> QED
      BY <1>1, <1>9, <2>1 DEF Ht
  <1>14. Ht(u, h2, y, o) = Ht(t, h, y, o)
    <2>1. u.child[o][y] = t.child[o][y] /\ ChildFacts(t, T, y, o)
      BY <1>1, <1>2, <1>3, <1>7
    <2>2. t.child[o][y] # 0 => t.child[o][y] \in T \ {x, y}
      BY <1>3, <2>1 DEF ChildFacts
    <2> QED
      BY <1>9, <2>1, <2>2 DEF Ht
  <1> QED
    BY <1>9, <1>10, <1>11, <1>12, <1>13, <1>14 DEF RevolvedHeights, h2, y, o, u

\* The tree before a rotation is balanced except at x and y, and painting has changed
\* no other colors; the new height of x and the old one of x fit.
CanTurn(t, T, h, hp, hs, x, s, y, t1, hp2, hs2, hx) ==
  /\ h \in [T -> Nat] /\ hx \in Nat
  /\ \A n \in T \ {x, y} : /\ BalancedAt(t, h, hp, hs, n) /\ (n \in t1.red <=> n \in t.red)
                           /\ \A a \in Sides : Hole(hp2, hs2, n, a) = Hole(hp, hs, n, a)
  /\ hx = Ht(t, h, x, s) + Hole(hp2, hs2, x, s) + Black(t1, x)
  /\ hx = Ht(t, h, y, s) + Hole(hp2, hs2, x, Other(s)) + Black(t1, x)
  /\ h[x] = hx + Hole(hp2, hs2, y, s) + Black(t1, y)
  /\ h[x] = Ht(t, h, y, Other(s)) + Hole(hp2, hs2, y, Other(s)) + Black(t1, y)

\* Then it is balanced after it.
LEMMA RevolveBalanced ==
  ASSUME NEW t, NEW T, NEW N, NEW at, NEW pos, NEW b, Shape(t, T, N, at, pos, b),
         NEW x \in T, NEW s \in Sides, t.child[Other(s)][x] # 0,
         NEW t1, Painted(t, t1), NEW h, NEW hp, NEW hs, NEW hp2, NEW hs2, NEW hx,
         CanTurn(t, T, h, hp, hs, x, s, t.child[Other(s)][x], t1, hp2, hs2, hx)
  PROVE  Balanced(Revolve(t1, x, s), T, TurnedHeights(h, x, t.child[Other(s)][x], hx), hp2, hs2)
  <1> DEFINE y == t.child[Other(s)][x]
             o == Other(s)
             u == Revolve(t1, x, s)
             h2 == TurnedHeights(h, x, y, hx)
  <1>1. h \in [T -> Nat] /\ hx \in Nat
    BY DEF CanTurn
  <1>2. RevolvedHeights(t, T, h, x, s, y, hx, u)
    BY <1>1, RevolveHeights
  <1>3. Revolved(t1, x, s, y, u)
    <2>1. Shape(t1, T, N, at, pos, b) /\ t1.child = t.child
      BY PaintShape DEF Painted
    <2> QED
      BY <2>1, RevolveTree
  <1>4. u.red = t1.red
    BY <1>3 DEF Revolved
  <1>5. Sides = {s, o} /\ o # s /\ y # x
    <2>1. ChildFacts(t, T, x, o)
      BY Neighbors, NodeFacts
    <2> QED
      BY <2>1, NodeFacts DEF ChildFacts
  <1> HIDE DEF u, h2, y, o
  <1>6. ASSUME NEW n \in T \ {x, y} PROVE BalancedAt(u, h2, hp2, hs2, n)
    <2>1. /\ BalancedAt(t, h, hp, hs, n) /\ (n \in t1.red <=> n \in t.red)
          /\ \A a \in Sides : Hole(hp2, hs2, n, a) = Hole(hp, hs, n, a)
      BY DEF CanTurn, y
    <2>2. h2[n] = h[n] /\ \A a \in Sides : Ht(u, h2, n, a) = Ht(t, h, n, a)
      BY <1>2 DEF RevolvedHeights, h2
    <2> QED
      BY <1>4, <2>1, <2>2 DEF BalancedAt, Black
  <1>7. /\ hx = Ht(t, h, x, s) + Hole(hp2, hs2, x, s) + Black(t1, x)
        /\ hx = Ht(t, h, y, s) + Hole(hp2, hs2, x, o) + Black(t1, x)
        /\ h[x] = hx + Hole(hp2, hs2, y, s) + Black(t1, y)
        /\ h[x] = Ht(t, h, y, o) + Hole(hp2, hs2, y, o) + Black(t1, y)
    BY DEF CanTurn, y, o
  <1>8. /\ h2 \in [T -> Nat] /\ h2[x] = hx /\ h2[y] = h[x]
        /\ Ht(u, h2, x, s) = Ht(t, h, x, s) /\ Ht(u, h2, x, o) = Ht(t, h, y, s)
        /\ Ht(u, h2, y, s) = hx /\ Ht(u, h2, y, o) = Ht(t, h, y, o)
    BY <1>2 DEF RevolvedHeights, h2, o
  <1>9. Black(u, x) = Black(t1, x) /\ Black(u, y) = Black(t1, y)
    BY <1>4 DEF Black
  <1>10. BalancedAt(u, h2, hp2, hs2, x) /\ BalancedAt(u, h2, hp2, hs2, y)
    BY <1>5, <1>7, <1>8, <1>9 DEF BalancedAt
  <1> QED
    BY <1>6, <1>8, <1>10 DEF Balanced, h2, u, y

\* What rotation does to the colors of nodes and parents.
LEMMA RevolveRed ==
  ASSUME NEW t, NEW T, NEW N, NEW at, NEW pos, NEW b, Shape(t, T, N, at, pos, b),
         NEW x \in T, NEW s \in Sides, NEW y, y = t.child[Other(s)][x], y # 0,
         NEW t1, Painted(t, t1), NEW X,
         \A n \in T \ {x, y, t.child[s][y]} :
           n \in t1.red => n \in X \/ (t.parent[n] # 0 /\ t.parent[n] \notin t1.red),
         x \in t1.red => x \in X \/ y \notin t1.red,
         y \in t1.red => y \in X \/ (t.parent[x] # 0 /\ t.parent[x] \notin t1.red),
         t.child[s][y] \in t1.red => t.child[s][y] \in X \/ x \notin t1.red
  PROVE  RedBut(Revolve(t1, x, s), T, X) /\ Revolve(t1, x, s).red = t1.red
  <1>1. Shape(t1, T, N, at, pos, b) /\ t1.child = t.child /\ t1.parent = t.parent
    BY PaintShape DEF Painted
  <1>2. Revolved(t1, x, s, y, Revolve(t1, x, s))
    BY <1>1, RevolveTree
  <1>3. /\ \A n \in T : n \in Nodes /\ n # 0
        /\ x # 0 /\ y \in T
    <2>1. ChildFacts(t, T, x, Other(s))
      BY Neighbors, NodeFacts
    <2> QED
      BY <2>1, Neighbors DEF ChildFacts
  <1> QED
    BY <1>1, <1>2, <1>3 DEF RedBut, Revolved

-----------------------------------------------------------------------------
(* The loop of insert_fixup. *)

\* The tree in the loop of insert_fixup: everything is right but that the node nd, which
\* is red, may have a red parent.
InsertState(t, T, h, nd) ==
  /\ Balanced(t, T, h, 0, "left") /\ RedBut(t, T, {nd})
  /\ nd \in T /\ nd \in t.red /\ t.red \subseteq Nodes

\* No link is missing a black node.
LEMMA NoHole ==
  ASSUME NEW t, NEW T, NEW N, NEW at, NEW pos, NEW b, Shape(t, T, N, at, pos, b),
         NEW h, Balanced(t, T, h, 0, "left")
  PROVE  \A n \in T : \A a \in Sides : /\ h[n] = Ht(t, h, n, a) + Black(t, n) /\ h[n] \in Nat
                                       /\ Ht(t, h, n, a) \in Nat /\ Hole(0, "left", n, a) = 0
  <1> SUFFICES ASSUME NEW n \in T, NEW a \in Sides
               PROVE  /\ h[n] = Ht(t, h, n, a) + Black(t, n) /\ h[n] \in Nat
                      /\ Ht(t, h, n, a) \in Nat /\ Hole(0, "left", n, a) = 0
    OBVIOUS
  <1>1. Hole(0, "left", n, a) = 0
    <2>1. T \subseteq Nodes
      BY DEF Shape, Numbered
    <2> QED
      BY <2>1, NodeFacts DEF Hole
  <1>2. h[n] = Ht(t, h, n, a) + Hole(0, "left", n, a) + Black(t, n) /\ h[n] \in Nat
    BY DEF Balanced, BalancedAt
  <1>3. Ht(t, h, n, a) \in Nat /\ Black(t, n) \in Nat
    BY HtFacts DEF Balanced
  <1> QED
    BY <1>1, <1>2, <1>3

\* The kin of a node whose father f is red: the grandfather g is black, and so are the
\* children of the node and its sibling.
Kin(t, T, nd, f, g, a) ==
  /\ f \in T /\ g \in T /\ f # nd /\ g # nd /\ g # f
  /\ t.parent[nd] = f /\ t.parent[f] = g /\ t.child[a][g] = f /\ a \in Sides /\ a = SideOf(t, g, f)
  /\ f \in t.red /\ g \notin t.red
  /\ \A s \in Sides : /\ t.child[s][nd] \notin t.red /\ t.child[s][nd] \notin {f, g, nd}
                      /\ t.child[s][f] # nd => t.child[s][f] \notin t.red
                      /\ t.child[s][f] \notin {f, g}
  /\ \E s \in Sides : t.child[s][f] = nd
  /\ t.child[Other(a)][g] \notin {f, g, nd}
  /\ \A s \in Sides : t.child[s][nd] # 0 => t.parent[t.child[s][nd]] = nd
  /\ t.parent[g] \notin {g, f}

\* The father is not the root.
LEMMA KinFacts ==
  ASSUME NEW t, NEW T, NEW N, NEW at, NEW pos, NEW b, Shape(t, T, N, at, pos, b),
         NEW h, NEW nd, InsertState(t, T, h, nd), t.parent[nd] \in t.red
  PROVE  Kin(t, T, nd, t.parent[nd], t.parent[t.parent[nd]],
             SideOf(t, t.parent[t.parent[nd]], t.parent[nd]))
  <1> DEFINE f == t.parent[nd]
             g == t.parent[f]
             a == SideOf(t, g, f)
  <1>1. /\ nd \in T /\ nd \in t.red /\ t.red \subseteq Nodes /\ f \in T
        /\ \A n \in T : n \in t.red /\ n # nd => t.parent[n] # 0 /\ t.parent[n] \notin t.red
    <2>1. nd \in T /\ t.red \subseteq Nodes /\ f # 0
      BY NodeFacts DEF InsertState
    <2>2. ParentFacts(t, T, nd)
      BY <2>1, Neighbors
    <2>3. f \in T
      BY <2>1, <2>2 DEF ParentFacts
    <2> QED
      BY <2>1, <2>3 DEF InsertState, RedBut
  <1>2. /\ \A n \in T : /\ n \in Nodes /\ n # 0 /\ ParentFacts(t, T, n)
                        /\ \A s \in Sides : ChildFacts(t, T, n, s)
    BY Neighbors
  <1>3. f # nd /\ f # 0 /\ g # nd /\ \E s \in Sides : t.child[s][f] = nd
    <2>1. f # 0 /\ ParentFacts(t, T, nd)
      BY <1>1, <1>2
    <2> QED
      BY <2>1 DEF ParentFacts
  <1>4. g # 0 /\ g \notin t.red
    BY <1>1, <1>3
  <1>5. g \in T /\ g # f /\ t.child[a][g] = f /\ a \in Sides /\ t.parent[g] # f
    <2>1. ParentFacts(t, T, f)
      BY <1>1, <1>2
    <2> QED
      BY <1>4, <2>1 DEF ParentFacts
  <1> HIDE DEF a
  <1>6. ASSUME NEW s \in Sides
        PROVE  /\ t.child[s][nd] \notin t.red /\ t.child[s][nd] \notin {f, g, nd}
               /\ t.child[s][f] # nd => t.child[s][f] \notin t.red
               /\ t.child[s][f] \notin {f, g}
               /\ t.child[s][nd] # 0 => t.parent[t.child[s][nd]] = nd
    <2> DEFINE c == t.child[s][nd]
               e == t.child[s][f]
    <2>1. ChildFacts(t, T, nd, s) /\ ChildFacts(t, T, f, s)
      BY <1>1, <1>2
    <2>2. 0 \notin t.red /\ nd # 0 /\ f # 0 /\ g # 0
      BY <1>1, <1>2, <1>5, NodeFacts
    <2>3. c # 0 => c \in T /\ c # nd /\ t.parent[c] = nd /\ c # f
      BY <2>1 DEF ChildFacts
    <2>4. e # 0 => e \in T /\ e # f /\ t.parent[e] = f /\ e # g
      BY <2>1 DEF ChildFacts
    <2>5. c \notin t.red
      BY <1>1, <2>2, <2>3
    <2>6. e # nd => e \notin t.red
      BY <1>1, <2>2, <2>4
    <2>7. c # g
      <3> SUFFICES ASSUME c = g PROVE FALSE
        OBVIOUS
      <3>1. Width(b, g) < Width(b, nd) /\ Width(b, nd) < Width(b, f) /\ Width(b, f) < Width(b, g)
        BY <1>1, <1>3, <1>5, <2>2, ChildWidth
      <3>2. Width(b, g) \in Nat /\ Width(b, nd) \in Nat /\ Width(b, f) \in Nat
        BY <1>1, <1>5, ChildWidth
      <3> QED
        BY <3>1, <3>2
    <2> QED
      BY <2>2, <2>3, <2>4, <2>5, <2>6, <2>7
  <1>7. t.parent[g] # g
    <2>1. ParentFacts(t, T, g) /\ g # 0
      BY <1>2, <1>5
    <2> QED
      BY <2>1 DEF ParentFacts
  <1>8. t.child[Other(a)][g] \notin {f, g, nd}
    <2>1. ChildFacts(t, T, g, Other(a)) /\ Other(Other(a)) = a
      BY <1>2, <1>5, NodeFacts
    <2>2. f # 0 /\ g # 0 /\ nd # 0
      BY <1>1, <1>2, <1>5
    <2> QED
      BY <1>5, <2>1, <2>2, <1>3 DEF ChildFacts
  <1> QED
    BY <1>1, <1>3, <1>4, <1>5, <1>6, <1>7, <1>8 DEF Kin, a

\* Case 2 of insert_fixup: the node and its father change places (rbtree.h:226-231, 254-262).
LEMMA InsertTurnsOut ==
  ASSUME NEW t, NEW T, NEW N, NEW at, NEW pos, NEW b, Shape(t, T, N, at, pos, b),
         NEW h, NEW nd, InsertState(t, T, h, nd), t.parent[nd] \in t.red,
         NEW f, NEW g, NEW a, Kin(t, T, nd, f, g, a), nd = t.child[Other(a)][f]
  PROVE  LET u == Revolve(t, f, a)
         IN  /\ Shape(u, T, N, at, pos, Turned(T, pos, b, f, a, nd))
             /\ InsertState(u, T, TurnedHeights(h, f, nd, Ht(t, h, f, a)), f)
             /\ u.red = t.red /\ u.parent[f] = nd /\ u.parent[nd] = g
             /\ u.child[a][nd] = f /\ u.child[a][g] = nd
             /\ u.child[Other(a)][g] = t.child[Other(a)][g] /\ LinksKept(t, u, T)
  <1> DEFINE u == Revolve(t, f, a)
             hx == Ht(t, h, f, a)
             z == t.child[a][nd]
  <1>1. /\ f \in T /\ g \in T /\ nd \in T /\ f # nd /\ g # nd /\ g # f /\ a \in Sides /\ nd # 0
        /\ \A n \in T : n \in Nodes /\ n # 0
        /\ t \in Trees /\ T \subseteq Nodes
    BY Neighbors DEF Kin, InsertState, Shape, Numbered
  <1>2. Painted(t, t)
    BY <1>1 DEF Painted
  <1>3. /\ Balanced(t, T, h, 0, "left") /\ h \in [T -> Nat] /\ nd \in t.red /\ t.red \subseteq Nodes
        /\ RedBut(t, T, {nd})
    BY DEF InsertState, Balanced
  <1>4. \A n \in T : \A s \in Sides : h[n] = Ht(t, h, n, s) + Black(t, n) /\ h[n] \in Nat
    BY <1>3, NoHole
  <1>5. \A n \in T : \A s \in Sides : Ht(t, h, n, s) \in Nat /\ Hole(0, "left", n, s) = 0
    BY <1>3, NoHole
  <1>6. CanTurn(t, T, h, 0, "left", f, a, nd, t, 0, "left", hx)
    <2>1. Other(a) \in Sides /\ Sides = {a, Other(a)}
      BY <1>1, NodeFacts
    <2>2. Black(t, f) = 0 /\ Black(t, nd) = 0
      BY <1>3 DEF Kin, Black
    <2>3. /\ h[f] = Ht(t, h, f, a) + 0 /\ h[f] = Ht(t, h, f, Other(a)) + 0
          /\ h[nd] = Ht(t, h, nd, a) + 0 /\ h[nd] = Ht(t, h, nd, Other(a)) + 0
      BY <1>1, <1>4, <2>1, <2>2
    <2>4. Ht(t, h, f, Other(a)) = h[nd]
      BY <1>1 DEF Ht
    <2>5. /\ Ht(t, h, f, a) \in Nat /\ Ht(t, h, nd, a) \in Nat /\ Ht(t, h, nd, Other(a)) \in Nat
          /\ h[f] \in Nat
      BY <1>1, <1>4, <1>5, <2>1
    <2>6. /\ Hole(0, "left", f, a) = 0 /\ Hole(0, "left", f, Other(a)) = 0
          /\ Hole(0, "left", nd, a) = 0 /\ Hole(0, "left", nd, Other(a)) = 0
      BY <1>1, <1>5, <2>1
    <2>7. \A n \in T : BalancedAt(t, h, 0, "left", n)
      BY <1>3 DEF Balanced
    <2>8. /\ hx = Ht(t, h, f, a) + Hole(0, "left", f, a) + Black(t, f)
          /\ hx = Ht(t, h, nd, a) + Hole(0, "left", f, Other(a)) + Black(t, f)
          /\ h[f] = hx + Hole(0, "left", nd, a) + Black(t, nd)
          /\ h[f] = Ht(t, h, nd, Other(a)) + Hole(0, "left", nd, Other(a)) + Black(t, nd)
      BY <2>2, <2>3, <2>4, <2>5, <2>6
    <2> QED
      BY <1>3, <2>5, <2>7, <2>8 DEF CanTurn
  <1>7. Balanced(u, T, TurnedHeights(h, f, nd, hx), 0, "left")
    BY <1>1, <1>2, <1>6, RevolveBalanced
  <1>8. Shape(u, T, N, at, pos, Turned(T, pos, b, f, a, nd))
    BY <1>1, RevolveShape
  <1>9. Revolved(t, f, a, nd, u)
    BY <1>1, RevolveTree
  <1>10. u.red = t.red
    BY <1>9 DEF Revolved
  <1>11. /\ z \notin t.red /\ z \notin {f, g, nd} /\ t.parent[f] = g /\ t.parent[nd] = f
         /\ g \notin t.red /\ f \in t.red /\ t.child[a][g] = f /\ a = SideOf(t, g, f)
    BY <1>1 DEF Kin
  <1>12. /\ u.parent[f] = nd /\ u.parent[nd] = g /\ u.child[a][nd] = f /\ u.child[a][g] = nd
         /\ u.child[Other(a)][g] = t.child[Other(a)][g]
    BY <1>1, <1>9, <1>11, NodeFacts DEF Revolved
  <1>13. RedBut(u, T, {f})
    <2> SUFFICES ASSUME NEW n \in T, n \in u.red, n # f
                 PROVE  u.parent[n] # 0 /\ u.parent[n] \notin u.red
      BY DEF RedBut
    <2>1. CASE n = nd
      BY <1>1, <1>10, <1>11, <1>12, <2>1
    <2>2. CASE n # nd
      <3>1. n # z /\ t.parent[n] # 0 /\ t.parent[n] \notin t.red
        BY <1>3, <1>10, <1>11, <2>2 DEF RedBut
      <3>2. u.parent[n] = t.parent[n]
        BY <1>1, <1>9, <2>2, <3>1 DEF Revolved
      <3> QED
        BY <1>10, <3>1, <3>2
    <2> QED
      BY <2>1, <2>2
  <1>14. LinksKept(t, u, T)
    BY <1>1, <1>2, RevolveKeeps
  <1> QED
    BY <1>1, <1>3, <1>7, <1>8, <1>10, <1>11, <1>12, <1>13, <1>14 DEF InsertState

\* Case 3 of insert_fixup: the father takes the place of the grandfather, and nothing is
\* wrong any more (rbtree.h:233-239, 264-267).
LEMMA InsertTurnsUp ==
  ASSUME NEW t, NEW T, NEW N, NEW at, NEW pos, NEW b, Shape(t, T, N, at, pos, b),
         NEW h, NEW nd, InsertState(t, T, h, nd), t.parent[nd] \in t.red,
         NEW f, NEW g, NEW a, Kin(t, T, nd, f, g, a), nd = t.child[a][f],
         t.child[Other(a)][g] \notin t.red
  PROVE  LET u == InsertRotate(t, f, g)
         IN  /\ Shape(u, T, N, at, pos, Turned(T, pos, b, g, Other(a), f))
             /\ \E h2 : Balanced(u, T, h2, 0, "left")
             /\ RedBut(u, T, {}) /\ u.red = (t.red \ {f}) \cup {g} /\ LinksKept(t, u, T)
  <1> DEFINE o == Other(a)
             t1 == SetRed(SetBlack(t, f), g)
             u == Revolve(t1, g, o)
             hx == Ht(t, h, g, o)
             z == t.child[o][f]
  <1>1. /\ f \in T /\ g \in T /\ nd \in T /\ f # nd /\ g # nd /\ g # f /\ a \in Sides /\ nd # 0
        /\ \A n \in T : n \in Nodes /\ n # 0
        /\ t \in Trees /\ T \subseteq Nodes
    BY Neighbors DEF Kin, InsertState, Shape, Numbered
  <1>2. Painted(t, t1) /\ t1.red = (t.red \ {f}) \cup {g}
    <2>1. f \in Pointers /\ g \in Nodes /\ f \in Nodes
      BY <1>1, NodeFacts
    <2>2. Painted(t, SetBlack(t, f)) /\ SetBlack(t, f).red = t.red \ {f} /\ SetBlack(t, f) \in Trees
      BY <1>1, SetBlackCells
    <2> HIDE DEF t1
    <2>3. Painted(SetBlack(t, f), t1) /\ t1.red = SetBlack(t, f).red \cup {g}
      BY <2>1, <2>2, SetRedCells DEF t1
    <2> QED
      BY <2>2, <2>3 DEF Painted
  <1>3. InsertRotate(t, f, g) = u
    BY DEF InsertRotate, Kin
  <1>4. /\ Balanced(t, T, h, 0, "left") /\ h \in [T -> Nat] /\ nd \in t.red /\ t.red \subseteq Nodes
        /\ RedBut(t, T, {nd})
    BY DEF InsertState, Balanced
  <1>5. \A n \in T : \A s \in Sides : h[n] = Ht(t, h, n, s) + Black(t, n) /\ h[n] \in Nat
    BY <1>4, NoHole
  <1>6. \A n \in T : \A s \in Sides : Ht(t, h, n, s) \in Nat /\ Hole(0, "left", n, s) = 0
    BY <1>4, NoHole
  <1>7. /\ z \notin t.red /\ z \notin {f, g} /\ t.parent[f] = g /\ t.parent[nd] = f
        /\ g \notin t.red /\ f \in t.red /\ t.child[a][g] = f /\ a = SideOf(t, g, f)
        /\ o \in Sides /\ o # a /\ Other(o) = a /\ Sides = {a, o} /\ z # nd
        /\ t.child[o][g] \notin {f, g, nd}
    <2>1. o \in Sides /\ o # a /\ Other(o) = a /\ Sides = {a, o}
      BY <1>1, NodeFacts
    <2>2. z # nd
      <3>1. ChildFacts(t, T, f, a)
        BY <1>1, Neighbors
      <3> QED
        BY <1>1, <3>1 DEF ChildFacts
    <2> QED
      BY <1>1, <2>1, <2>2 DEF Kin
  <1>8. CanTurn(t, T, h, 0, "left", g, o, f, t1, 0, "left", hx)
    <2>1. Black(t, f) = 0 /\ Black(t, g) = 1 /\ Black(t1, f) = 1 /\ Black(t1, g) = 0
      BY <1>2, <1>7, <1>1 DEF Black
    <2>2. /\ h[f] = Ht(t, h, f, a) + 0 /\ h[f] = Ht(t, h, f, o) + 0
          /\ h[g] = Ht(t, h, g, a) + 1 /\ h[g] = Ht(t, h, g, o) + 1
      BY <1>1, <1>5, <1>7, <2>1
    <2>3. Ht(t, h, g, a) = h[f]
      BY <1>1, <1>7 DEF Ht
    <2>4. /\ Ht(t, h, f, a) \in Nat /\ Ht(t, h, f, o) \in Nat /\ Ht(t, h, g, a) \in Nat
          /\ Ht(t, h, g, o) \in Nat /\ h[f] \in Nat /\ h[g] \in Nat
      BY <1>1, <1>5, <1>6, <1>7
    <2>5. /\ Hole(0, "left", f, a) = 0 /\ Hole(0, "left", f, o) = 0
          /\ Hole(0, "left", g, a) = 0 /\ Hole(0, "left", g, o) = 0
      BY <1>1, <1>6, <1>7
    <2>6. \A n \in T : BalancedAt(t, h, 0, "left", n)
      BY <1>4 DEF Balanced
    <2>7. \A n \in T \ {g, f} : n \in t1.red <=> n \in t.red
      BY <1>2
    <2>8. /\ hx = Ht(t, h, g, o) + Hole(0, "left", g, o) + Black(t1, g)
          /\ hx = Ht(t, h, f, o) + Hole(0, "left", g, Other(o)) + Black(t1, g)
          /\ h[g] = hx + Hole(0, "left", f, o) + Black(t1, f)
          /\ h[g] = Ht(t, h, f, Other(o)) + Hole(0, "left", f, Other(o)) + Black(t1, f)
      BY <1>7, <2>1, <2>2, <2>3, <2>4, <2>5
    <2> HIDE DEF t1
    <2> QED
      BY <1>4, <2>4, <2>6, <2>7, <2>8 DEF CanTurn
  <1>9. t.child[Other(o)][g] = f /\ f # 0
    BY <1>1, <1>7
  <1> HIDE DEF t1, hx
  <1>10. Balanced(u, T, TurnedHeights(h, g, f, hx), 0, "left")
    BY <1>1, <1>2, <1>7, <1>8, <1>9, RevolveBalanced
  <1>11. Shape(u, T, N, at, pos, Turned(T, pos, b, g, o, f))
    <2>1. Shape(t1, T, N, at, pos, b) /\ t1.child = t.child
      BY <1>2, PaintShape DEF Painted
    <2> QED
      BY <1>1, <1>7, <1>9, <2>1, RevolveShape
  <1>12. RedBut(u, T, {}) /\ u.red = t1.red
    <2>1. \A n \in T \ {g, f, t.child[o][f]} :
             n \in t1.red => n \in {} \/ (t.parent[n] # 0 /\ t.parent[n] \notin t1.red)
      <3> SUFFICES ASSUME NEW n \in T \ {g, f, z}, n \in t1.red
                   PROVE  t.parent[n] # 0 /\ t.parent[n] \notin t1.red
        OBVIOUS
      <3>1. CASE n = nd
        BY <1>1, <1>2, <1>7, <3>1
      <3>2. CASE n # nd
        <4>1. n \in t.red /\ t.parent[n] # 0 /\ t.parent[n] \notin t.red
          BY <1>2, <1>4, <3>2 DEF RedBut
        <4>2. t.parent[n] # g
          <5> SUFFICES ASSUME t.parent[n] = g PROVE FALSE
            OBVIOUS
          <5>1. ParentFacts(t, T, n)
            BY Neighbors
          <5>2. \E s \in Sides : t.child[s][g] = n
            BY <4>1, <5>1 DEF ParentFacts
          <5>3. n = t.child[o][g]
            BY <1>7, <5>2
          <5> QED
            BY <4>1, <5>3
        <4> QED
          BY <1>2, <4>1, <4>2
      <3> QED
        BY <3>1, <3>2
    <2>2. f \notin t1.red /\ t.child[o][f] \notin t1.red
      BY <1>2, <1>7
    <2> QED
      BY <1>1, <1>2, <1>7, <1>9, <2>1, <2>2, RevolveRed
  <1>13. LinksKept(t, u, T)
    BY <1>1, <1>2, <1>7, <1>9, RevolveKeeps
  <1> QED
    BY <1>2, <1>3, <1>10, <1>11, <1>12, <1>13

\* Other colors and other heights of nodes that are not below n leave those below n.
LEMMA PaintHeights ==
  ASSUME NEW t, NEW u, Painted(t, u), NEW h, NEW h2, NEW n, NEW a,
         t.child[a][n] # 0 => h2[t.child[a][n]] = h[t.child[a][n]]
  PROVE  Ht(u, h2, n, a) = Ht(t, h, n, a)
  BY DEF Painted, Ht

\* Case 1 of insert_fixup: the red is pushed up to the grandfather (rbtree.h:215-224, 243-252).
LEMMA InsertPushesUp ==
  ASSUME NEW t, NEW T, NEW N, NEW at, NEW pos, NEW b, Shape(t, T, N, at, pos, b),
         NEW h, NEW nd, InsertState(t, T, h, nd), t.parent[nd] \in t.red,
         NEW f, NEW g, NEW a, Kin(t, T, nd, f, g, a),
         NEW un, un = t.child[Other(a)][g], un \in t.red
  PROVE  LET u == SetRed(SetBlack(SetBlack(t, un), f), g)
         IN  /\ Shape(u, T, N, at, pos, b)
             /\ \E h2 : InsertState(u, T, h2, g)
             /\ u.red = (t.red \ {un, f}) \cup {g}
  <1> DEFINE u == SetRed(SetBlack(SetBlack(t, un), f), g)
             h2 == [h EXCEPT ![f] = h[f] + 1, ![un] = h[un] + 1]
  <1>1. /\ f \in T /\ g \in T /\ nd \in T /\ f # nd /\ g # nd /\ g # f /\ a \in Sides
        /\ t.parent[f] = g /\ t.parent[nd] = f /\ un \notin {f, g, nd} /\ t.child[a][g] = f
        /\ f \in t.red /\ g \notin t.red
        /\ t \in Trees /\ T \subseteq Nodes
    BY DEF Kin, InsertState, Shape, Numbered
  <1>2. /\ Balanced(t, T, h, 0, "left") /\ h \in [T -> Nat] /\ nd \in t.red /\ t.red \subseteq Nodes
        /\ RedBut(t, T, {nd})
    BY DEF InsertState, Balanced
  <1>3. un \in T /\ un # 0 /\ f # 0 /\ g \in Nodes
    <2>1. un # 0 /\ Other(a) \in Sides
      BY <1>1, <1>2, NodeFacts
    <2>2. ChildFacts(t, T, g, Other(a)) /\ f # 0 /\ g \in Nodes
      BY <1>1, <2>1, Neighbors
    <2> QED
      BY <2>1, <2>2 DEF ChildFacts
  <1>4. Painted(t, u) /\ u.red = (t.red \ {un, f}) \cup {g}
    <2> DEFINE t1 == SetBlack(t, un)
               t2 == SetBlack(t1, f)
    <2>1. Painted(t, t1) /\ t1.red = t.red \ {un} /\ t1 \in Trees
      BY <1>1, SetBlackCells
    <2> HIDE DEF t1
    <2>2. Painted(t1, t2) /\ t2.red = t1.red \ {f} /\ t2 \in Trees
      BY <2>1, SetBlackCells
    <2> HIDE DEF t2
    <2>3. Painted(t2, SetRed(t2, g)) /\ SetRed(t2, g).red = t2.red \cup {g}
      BY <1>3, <2>2, SetRedCells
    <2>4. u = SetRed(t2, g)
      BY DEF t1, t2
    <2> HIDE DEF u
    <2> QED
      BY <2>1, <2>2, <2>3, <2>4 DEF Painted
  <1> HIDE DEF u
  <1>5. /\ h2 \in [T -> Nat] /\ h2[f] = h[f] + 1 /\ h2[un] = h[un] + 1
        /\ \A n \in T \ {f, un} : h2[n] = h[n]
    BY <1>1, <1>2, <1>3
  <1> HIDE DEF h2
  <1>6. \A n \in T : \A s \in Sides : h[n] = Ht(t, h, n, s) + Black(t, n) /\ h[n] \in Nat
    BY <1>2, NoHole
  <1>7. \A n \in T : \A s \in Sides : Hole(0, "left", n, s) = 0 /\ Ht(t, h, n, s) \in Nat
    BY <1>2, NoHole
  <1>8. ASSUME NEW n \in T, NEW s \in Sides
        PROVE  h2[n] = Ht(u, h2, n, s) + Hole(0, "left", n, s) + Black(u, n)
    <2>1. ChildFacts(t, T, n, s) /\ ChildFacts(t, T, g, Other(a)) /\ ChildFacts(t, T, g, s)
      BY <1>1, Neighbors, NodeFacts
    <2>2. t.parent[un] = g
      BY <1>3, <2>1 DEF ChildFacts
    <2>3. CASE n = g
      <3>1. t.child[s][g] \in {f, un}
        BY <1>1 DEF Sides, Other
      <3>2. Ht(u, h2, g, s) = h[t.child[s][g]] + 1 /\ Ht(t, h, g, s) = h[t.child[s][g]]
        BY <1>3, <1>4, <1>5, <3>1 DEF Painted, Ht
      <3>3. Black(t, g) = 1 /\ Black(u, g) = 0
        BY <1>1, <1>4 DEF Black
      <3>4. h[g] = h[t.child[s][g]] + 1 /\ h2[g] = h[g] /\ h[t.child[s][g]] \in Nat
        BY <1>1, <1>3, <1>5, <1>6, <3>1, <3>2, <3>3
      <3> QED
        BY <1>7, <2>3, <3>2, <3>3, <3>4
    <2>4. CASE n # g
      <3>1. t.child[s][n] # 0 => h2[t.child[s][n]] = h[t.child[s][n]]
        BY <1>1, <1>5, <2>1, <2>2, <2>4 DEF ChildFacts
      <3>2. Ht(u, h2, n, s) = Ht(t, h, n, s)
        BY <1>4, <3>1, PaintHeights
      <3>3. h2[n] = h[n] + (IF n \in {f, un} THEN 1 ELSE 0)
        BY <1>5, <1>6
      <3>4. Black(u, n) = Black(t, n) + (IF n \in {f, un} THEN 1 ELSE 0)
        BY <1>1, <1>4, <2>4 DEF Black
      <3>5. Black(t, n) \in Nat /\ Hole(0, "left", n, s) = 0 /\ Ht(t, h, n, s) \in Nat
            /\ h[n] = Ht(t, h, n, s) + Black(t, n)
        BY <1>6, <1>7 DEF Black
      <3> QED
        BY <3>2, <3>3, <3>4, <3>5
    <2> QED
      BY <2>3, <2>4
  <1>9. Balanced(u, T, h2, 0, "left")
    BY <1>5, <1>8 DEF Balanced, BalancedAt
  <1>10. RedBut(u, T, {g})
    <2> SUFFICES ASSUME NEW n \in T, n \in u.red, n # g
                 PROVE  u.parent[n] # 0 /\ u.parent[n] \notin u.red
      BY DEF RedBut
    <2>1. u.parent = t.parent
      BY <1>4 DEF Painted
    <2>2. CASE n = nd
      BY <1>1, <1>3, <1>4, <2>1, <2>2
    <2>3. CASE n # nd
      <3>1. n \in t.red /\ n \notin {f, un} /\ t.parent[n] # 0 /\ t.parent[n] \notin t.red
        BY <1>2, <1>4, <2>3 DEF RedBut
      <3>2. t.parent[n] # g
        <4> SUFFICES ASSUME t.parent[n] = g PROVE FALSE
          OBVIOUS
        <4>1. ParentFacts(t, T, n)
          BY Neighbors
        <4>2. \E s \in Sides : t.child[s][g] = n
          BY <3>1, <4>1 DEF ParentFacts
        <4>3. n \in {f, un}
          BY <1>1, <4>2 DEF Sides, Other
        <4> QED
          BY <3>1, <4>3
      <3> QED
        BY <1>4, <2>1, <3>1, <3>2
    <2> QED
      BY <2>2, <2>3
  <1>11. Shape(u, T, N, at, pos, b)
    BY <1>4, PaintShape
  <1> QED
    BY <1>1, <1>2, <1>4, <1>9, <1>10, <1>11 DEF InsertState, u

\* A red node is painted black, and the black node that was missing above it is there.
LEMMA BlackenBalanced ==
  ASSUME NEW t, NEW T, NEW N, NEW at, NEW pos, NEW b, Shape(t, T, N, at, pos, b),
         NEW h, NEW hp, NEW hs \in Sides, Balanced(t, T, h, hp, hs), NEW nd \in T, nd \in t.red,
         IF hp = 0 THEN nd = t.root ELSE hp \in T /\ t.child[hs][hp] = nd
  PROVE  \E h2 : Balanced(SetBlack(t, nd), T, h2, 0, "left")
  <1> DEFINE u == SetBlack(t, nd)
             h2 == [h EXCEPT ![nd] = h[nd] + 1]
  <1>1. /\ t \in Trees /\ T \subseteq Nodes /\ h \in [T -> Nat] /\ 0 \notin T
        /\ \A n \in T : BalancedAt(t, h, hp, hs, n)
    BY NodeFacts DEF Shape, Numbered, Balanced
  <1>2. Painted(t, u) /\ u.red = t.red \ {nd}
    BY <1>1, SetBlackCells
  <1> HIDE DEF u
  <1>3. h2 \in [T -> Nat] /\ h2[nd] = h[nd] + 1 /\ \A n \in T \ {nd} : h2[n] = h[n]
    BY <1>1
  <1> HIDE DEF h2
  <1>4. ASSUME NEW n \in T, NEW s \in Sides
        PROVE  h2[n] = Ht(u, h2, n, s) + Hole(0, "left", n, s) + Black(u, n)
    <2>1. /\ h[n] = Ht(t, h, n, s) + Hole(hp, hs, n, s) + Black(t, n)
          /\ Ht(t, h, n, s) \in Nat /\ h[n] \in Nat /\ h[nd] \in Nat
          /\ Black(t, n) \in {0, 1} /\ Hole(hp, hs, n, s) \in {0, 1}
      BY <1>1, HtFacts DEF BalancedAt
    <2>2. Hole(0, "left", n, s) = 0
      BY <1>1 DEF Hole
    <2>3. h2[n] = h[n] + (IF n = nd THEN 1 ELSE 0) /\ Black(u, n) = Black(t, n) + (IF n = nd THEN 1 ELSE 0)
      BY <1>2, <1>3, <2>1 DEF Black
    <2>4. ChildFacts(t, T, n, s) /\ nd # 0
      BY <1>1, Neighbors
    <2>5. CASE t.child[s][n] = nd
      <3>1. hp = n /\ hs = s
        <4>1. hp # 0
          BY <2>4, <2>5 DEF ChildFacts
        <4>2. ChildFacts(t, T, hp, hs)
          BY <4>1, Neighbors
        <4> QED
          BY <2>4, <2>5, <4>1, <4>2 DEF ChildFacts
      <3>2. Hole(hp, hs, n, s) = 1
        BY <3>1 DEF Hole
      <3>3. Ht(u, h2, n, s) = h[nd] + 1 /\ Ht(t, h, n, s) = h[nd]
        BY <1>2, <1>3, <2>4, <2>5 DEF Painted, Ht
      <3> QED
        BY <2>1, <2>2, <2>3, <3>2, <3>3
    <2>6. CASE t.child[s][n] # nd
      <3>1. Hole(hp, hs, n, s) = 0
        BY <1>1, <2>6 DEF Hole
      <3>2. t.child[s][n] # 0 => h2[t.child[s][n]] = h[t.child[s][n]]
        BY <1>3, <2>4, <2>6 DEF ChildFacts
      <3>3. Ht(u, h2, n, s) = Ht(t, h, n, s)
        BY <1>2, <3>2, PaintHeights
      <3> QED
        BY <2>1, <2>2, <2>3, <3>1, <3>3
    <2> QED
      BY <2>5, <2>6
  <1> QED
    BY <1>3, <1>4 DEF Balanced, BalancedAt, u

\* The end of insert_fixup: the root is painted black (rbtree.h:270).
LEMMA InsertEnds ==
  ASSUME NEW t, NEW T, NEW N, NEW at, NEW pos, NEW b, Shape(t, T, N, at, pos, b),
         NEW h, NEW nd, InsertState(t, T, h, nd), t.parent[nd] \notin t.red
  PROVE  LET u == SetBlack(t, t.root)
         IN  /\ Shape(u, T, N, at, pos, b) /\ \E h2 : Balanced(u, T, h2, 0, "left")
             /\ RedBut(u, T, {}) /\ u.red = t.red \ {t.root}
  <1> DEFINE u == SetBlack(t, t.root)
  <1>1. t \in Trees /\ t.root \in T /\ t.parent[t.root] = 0
    BY DEF Shape, Rooted, InsertState
  <1>2. Painted(t, u) /\ u.red = t.red \ {t.root} /\ Shape(u, T, N, at, pos, b)
    BY <1>1, SetBlackCells, PaintShape
  <1>3. \E h2 : Balanced(u, T, h2, 0, "left")
    <2>1. Balanced(t, T, h, 0, "left") /\ "left" \in Sides
      BY DEF InsertState, Sides
    <2>2. CASE t.root \in t.red
      BY <1>1, <2>1, <2>2, BlackenBalanced
    <2>3. CASE t.root \notin t.red
      <3>1. u.red = t.red
        BY <1>2, <2>3
      <3>2. Balanced(u, T, h, 0, "left")
        BY <1>2, <2>1, <3>1 DEF Painted, Balanced, BalancedAt, Ht, Black
      <3> QED
        BY <3>2
    <2> QED
      BY <2>2, <2>3
  <1>4. RedBut(u, T, {})
    <2> SUFFICES ASSUME NEW n \in T, n \in u.red PROVE u.parent[n] # 0 /\ u.parent[n] \notin u.red
      BY DEF RedBut
    <2>1. u.parent = t.parent
      BY <1>2 DEF Painted
    <2>2. CASE n = nd
      <3>1. ParentFacts(t, T, n)
        BY Neighbors
      <3>2. t.parent[n] # 0
        BY <1>2, <3>1 DEF ParentFacts
      <3> QED
        BY <1>2, <2>1, <2>2, <3>2
    <2>3. CASE n # nd
      BY <1>2, <2>1, <2>3 DEF InsertState, RedBut
    <2> QED
      BY <2>2, <2>3
  <1> QED
    BY <1>2, <1>3, <1>4

-----------------------------------------------------------------------------
(* The loop of erase_fixup. *)

\* The tree in the loop of erase_fixup: everything is right but that a black node is
\* missing below the link (hp, hs), which leads to nd.  Only nd and the children of nd may
\* be red below a red parent.
EraseState(t, T, h, hp, hs, nd) ==
  /\ Balanced(t, T, h, hp, hs) /\ hs \in Sides /\ t.red \subseteq Nodes
  /\ RedBut(t, T, {n \in T : n = nd \/ (nd # 0 /\ t.parent[n] = nd)})
  /\ nd \in T \cup {0} /\ (nd = 0 => hp # 0)
  /\ IF hp = 0 THEN nd = t.root ELSE hp \in T /\ t.child[hs][hp] = nd

\* In the loop the node is neither the root nor red: then it has a sibling.
EraseGoesOn(t, T, h, hp, hs, nd) == EraseState(t, T, h, hp, hs, nd) /\ nd # t.root /\ nd \notin t.red

\* What holds of the sibling sb, on the other side o, of its children and of the rest.
SiblingFacts(t, T, h, hp, hs, nd, sb, o) ==
  /\ h \in [T -> Nat] /\ \A n \in T : BalancedAt(t, h, hp, hs, n)
  /\ t \in Trees /\ T \subseteq Nodes /\ t.red \subseteq Nodes /\ RedBut(t, T, {})
  /\ hp \in T /\ hs \in Sides /\ t.child[hs][hp] = nd
  /\ o \in Sides /\ o # hs /\ Other(o) = hs /\ Other(hs) = o /\ Sides = {hs, o}
  /\ sb \in T /\ t.child[o][hp] = sb /\ sb # 0 /\ sb # hp /\ sb # nd /\ t.parent[sb] = hp /\ t.parent[hp] # sb
  /\ SideOf(t, hp, sb) = o
  /\ \A k \in Sides : /\ t.child[k][sb] \notin {sb, hp}
                      /\ t.child[k][sb] # 0 => t.child[k][sb] \in T /\ t.child[k][sb] # nd
                                               /\ t.parent[t.child[k][sb]] = sb
  /\ t.child[hs][sb] # 0 => t.child[o][sb] # t.child[hs][sb]
  /\ h[sb] = Ht(t, h, hp, hs) + 1 /\ h[hp] = h[sb] + Black(t, hp)
  /\ \A n \in T : h[n] \in Nat /\ \A k \in Sides : Ht(t, h, n, k) \in Nat
  /\ \A k \in Sides : h[sb] = Ht(t, h, sb, k) + Black(t, sb)
  /\ \A n \in T : n \in t.red => t.parent[n] # 0 /\ t.parent[n] \notin t.red
  /\ nd \notin t.red
  /\ \A n \in T : t.parent[n] = hp => n \in {nd, sb}
  /\ \A n \in T : t.parent[n] = sb => n \in {t.child[hs][sb], t.child[o][sb]}

\* The sibling exists, because something black is below it.
LEMMA SiblingIsThere ==
  ASSUME NEW t, NEW T, NEW N, NEW at, NEW pos, NEW b, Shape(t, T, N, at, pos, b),
         NEW h, NEW hp, NEW hs, NEW nd, EraseGoesOn(t, T, h, hp, hs, nd)
  PROVE  SiblingFacts(t, T, h, hp, hs, nd, t.child[Other(hs)][hp], Other(hs))
  <1> DEFINE o == Other(hs)
             sb == t.child[o][hp]
  <1>1. /\ Balanced(t, T, h, hp, hs) /\ hs \in Sides /\ t.red \subseteq Nodes
        /\ nd # t.root /\ nd \notin t.red /\ nd \in T \cup {0}
        /\ hp \in T /\ hp # 0 /\ t.child[hs][hp] = nd
        /\ h \in [T -> Nat] /\ t \in Trees /\ T \subseteq Nodes
        /\ \A n \in T : BalancedAt(t, h, hp, hs, n)
    BY DEF EraseGoesOn, EraseState, Balanced, Shape, Numbered
  <1>2. RedBut(t, T, {})
    <2>1. RedBut(t, T, {n \in T : n = nd \/ (nd # 0 /\ t.parent[n] = nd)})
      BY DEF EraseGoesOn, EraseState
    <2> QED
      BY <1>1, <2>1 DEF RedBut
  <1>3. o \in Sides /\ o # hs /\ Other(o) = hs /\ Sides = {hs, o}
    BY <1>1, NodeFacts
  <1>4. \A n \in T : /\ n \in Nodes /\ n # 0 /\ ParentFacts(t, T, n)
                     /\ \A a \in Sides : ChildFacts(t, T, n, a)
    BY Neighbors
  <1>5. /\ h[hp] = Ht(t, h, hp, hs) + 1 + Black(t, hp)
        /\ h[hp] = Ht(t, h, hp, o) + Black(t, hp)
        /\ Ht(t, h, hp, hs) \in Nat /\ Ht(t, h, hp, o) \in Nat /\ Black(t, hp) \in {0, 1}
    <2>1. /\ h[hp] = Ht(t, h, hp, hs) + Hole(hp, hs, hp, hs) + Black(t, hp)
          /\ h[hp] = Ht(t, h, hp, o) + Hole(hp, hs, hp, o) + Black(t, hp)
      BY <1>1, <1>3 DEF BalancedAt
    <2>2. Hole(hp, hs, hp, hs) = 1 /\ Hole(hp, hs, hp, o) = 0
      BY <1>3 DEF Hole
    <2>3. Ht(t, h, hp, hs) \in Nat /\ Ht(t, h, hp, o) \in Nat /\ Black(t, hp) \in {0, 1}
      BY <1>1, <1>3, HtFacts
    <2> QED
      BY <2>1, <2>2, <2>3
  <1>6. Ht(t, h, hp, o) = Ht(t, h, hp, hs) + 1
    BY <1>5
  <1>7. sb # 0 /\ Ht(t, h, hp, o) = h[sb]
    <2>1. Ht(t, h, hp, o) # 0
      BY <1>5, <1>6
    <2> HIDE DEF o
    <2> QED
      BY <2>1 DEF Ht
  <1>8. /\ sb \in T /\ sb # hp /\ t.parent[sb] = hp /\ SideOf(t, hp, sb) = o /\ t.parent[hp] # sb
        /\ t.child[Other(o)][hp] # sb
        /\ t.child["left"][sb] # hp /\ t.child["right"][sb] # hp
    BY <1>1, <1>3, <1>4, <1>7 DEF ChildFacts
  <1>9. sb # nd
    BY <1>1, <1>3, <1>8
  <1> HIDE DEF sb, o
  <1>10. nd # 0 => t.parent[nd] = hp
    <2>1. ChildFacts(t, T, hp, hs)
      BY <1>1, <1>4
    <2> QED
      BY <1>1, <2>1 DEF ChildFacts
  <1>11. \A k \in Sides : /\ t.child[k][sb] \notin {sb, hp}
                          /\ t.child[k][sb] # 0 => t.child[k][sb] \in T /\ t.child[k][sb] # nd
                                                   /\ t.parent[t.child[k][sb]] = sb
    <2> SUFFICES ASSUME NEW k \in Sides
                 PROVE  /\ t.child[k][sb] \notin {sb, hp}
                        /\ t.child[k][sb] # 0 => t.child[k][sb] \in T /\ t.child[k][sb] # nd
                                                 /\ t.parent[t.child[k][sb]] = sb
      OBVIOUS
    <2>1. ChildFacts(t, T, sb, k)
      BY <1>4, <1>8
    <2> QED
      BY <1>1, <1>7, <1>8, <1>10, <2>1 DEF ChildFacts, Sides
  <1>12. t.child[hs][sb] # 0 => t.child[o][sb] # t.child[hs][sb]
    <2>1. ChildFacts(t, T, sb, hs)
      BY <1>1, <1>4, <1>8
    <2> QED
      BY <2>1 DEF ChildFacts, o
  <1>13. \A n \in T : h[n] \in Nat /\ \A k \in Sides : Ht(t, h, n, k) \in Nat
    BY <1>1, HtFacts
  <1>14. \A k \in Sides : h[sb] = Ht(t, h, sb, k) + Black(t, sb)
    <2> SUFFICES ASSUME NEW k \in Sides PROVE h[sb] = Ht(t, h, sb, k) + Black(t, sb)
      OBVIOUS
    <2>1. h[sb] = Ht(t, h, sb, k) + Hole(hp, hs, sb, k) + Black(t, sb)
      BY <1>1, <1>8 DEF BalancedAt
    <2>2. Hole(hp, hs, sb, k) = 0 /\ Ht(t, h, sb, k) \in Nat /\ Black(t, sb) \in {0, 1}
      BY <1>8, <1>13 DEF Hole, Black
    <2> QED
      BY <2>1, <2>2
  <1>15. ASSUME NEW m \in T, NEW n \in T, t.parent[n] = m PROVE n \in {t.child[hs][m], t.child[o][m]}
    <2>1. \E s \in Sides : t.child[s][m] = n
      BY <1>4, <1>15 DEF ParentFacts
    <2> QED
      BY <1>3, <2>1
  <1>16. h[sb] = Ht(t, h, hp, hs) + 1 /\ h[hp] = h[sb] + Black(t, hp)
    BY <1>5, <1>6, <1>7
  <1>17. Other(hs) = o /\ t.child[o][hp] = sb
    BY DEF o, sb
  <1>18. \A n \in T : n \in t.red => t.parent[n] # 0 /\ t.parent[n] \notin t.red
    BY <1>2 DEF RedBut
  <1>19. \A n \in T : t.parent[n] = hp => n \in {nd, sb}
    BY <1>1, <1>15, <1>17
  <1>20. \A n \in T : t.parent[n] = sb => n \in {t.child[hs][sb], t.child[o][sb]}
    BY <1>8, <1>15
  <1> QED
    BY <1>1, <1>2, <1>3, <1>7, <1>8, <1>9, <1>11, <1>12, <1>13, <1>14, <1>16, <1>17, <1>18, <1>19, <1>20
       DEF SiblingFacts, sb, o

\* Case 1 of erase_fixup: a red sibling goes up (rbtree.h:332-340, 372-379).
LEMMA EraseTurnsSibling ==
  ASSUME NEW t, NEW T, NEW N, NEW at, NEW pos, NEW b, Shape(t, T, N, at, pos, b),
         NEW h, NEW hp, NEW hs, NEW nd, EraseGoesOn(t, T, h, hp, hs, nd),
         NEW sb, sb = t.child[Other(hs)][hp], sb \in t.red
  PROVE  LET u == Revolve(SetRed(SetBlack(t, sb), hp), hp, hs)
         IN  /\ Shape(u, T, N, at, pos, Turned(T, pos, b, hp, hs, sb))
             /\ \E h2 : EraseState(u, T, h2, hp, hs, nd)
             /\ u.red = (t.red \ {sb}) \cup {hp} /\ LinksKept(t, u, T)
  <1> DEFINE o == Other(hs)
             t1 == SetRed(SetBlack(t, sb), hp)
             u == Revolve(t1, hp, hs)
             hx == Ht(t, h, hp, hs) + 1
             z == t.child[hs][sb]
  <1>1. SiblingFacts(t, T, h, hp, hs, nd, sb, o)
    BY SiblingIsThere
  <1>2. Painted(t, t1) /\ t1.red = (t.red \ {sb}) \cup {hp}
    <2>1. t \in Trees /\ hp \in Nodes
      BY <1>1 DEF SiblingFacts
    <2>2. Painted(t, SetBlack(t, sb)) /\ SetBlack(t, sb).red = t.red \ {sb} /\ SetBlack(t, sb) \in Trees
      BY <2>1, SetBlackCells
    <2> HIDE DEF t1
    <2>3. Painted(SetBlack(t, sb), t1) /\ t1.red = SetBlack(t, sb).red \cup {hp}
      BY <2>1, <2>2, SetRedCells DEF t1
    <2> QED
      BY <2>2, <2>3 DEF Painted
  <1> HIDE DEF t1
  <1>3. hp \notin t.red /\ z \notin t.red
    <2>1. hp \notin t.red
      BY <1>1 DEF SiblingFacts
    <2>2. z = 0 => z \notin t.red
      BY <1>1, NodeFacts DEF SiblingFacts
    <2>3. z # 0 => z \in T /\ t.parent[z] = sb
      BY <1>1 DEF SiblingFacts
    <2>4. \A n \in T : n \in t.red => t.parent[n] \notin t.red
      BY <1>1 DEF SiblingFacts
    <2> QED
      BY <2>1, <2>2, <2>3, <2>4
  <1>4. CanTurn(t, T, h, hp, hs, hp, hs, sb, t1, hp, hs, hx)
    <2>1. Black(t, sb) = 0 /\ Black(t, hp) = 1 /\ Black(t1, sb) = 1 /\ Black(t1, hp) = 0
      BY <1>1, <1>2, <1>3 DEF Black, SiblingFacts
    <2>2. /\ h[sb] = hx /\ h[hp] = h[sb] + Black(t, hp)
          /\ h[sb] = Ht(t, h, sb, hs) + Black(t, sb) /\ h[sb] = Ht(t, h, sb, o) + Black(t, sb)
          /\ h[hp] \in Nat /\ h[sb] \in Nat /\ Ht(t, h, sb, hs) \in Nat /\ Ht(t, h, sb, o) \in Nat
          /\ Ht(t, h, hp, hs) \in Nat
      BY <1>1 DEF SiblingFacts
    <2>3. /\ Hole(hp, hs, hp, hs) = 1 /\ Hole(hp, hs, hp, o) = 0 /\ Hole(hp, hs, sb, hs) = 0
          /\ Hole(hp, hs, sb, o) = 0
      BY <1>1 DEF SiblingFacts, Hole
    <2>4. /\ hx = Ht(t, h, hp, hs) + Hole(hp, hs, hp, hs) + Black(t1, hp)
          /\ hx = Ht(t, h, sb, hs) + Hole(hp, hs, hp, o) + Black(t1, hp)
          /\ h[hp] = hx + Hole(hp, hs, sb, hs) + Black(t1, sb)
          /\ h[hp] = Ht(t, h, sb, o) + Hole(hp, hs, sb, o) + Black(t1, sb)
      BY <2>1, <2>2, <2>3
    <2>5. \A n \in T \ {hp, sb} : n \in t1.red <=> n \in t.red
      BY <1>2
    <2>6. h \in [T -> Nat] /\ hx \in Nat /\ \A n \in T : BalancedAt(t, h, hp, hs, n)
      BY <1>1, <2>2 DEF SiblingFacts
    <2> HIDE DEF hx
    <2> QED
      BY <2>4, <2>5, <2>6 DEF CanTurn
  <1>5. hp \in T /\ hs \in Sides /\ t.child[Other(hs)][hp] = sb /\ sb # 0
    BY <1>1 DEF SiblingFacts
  <1> HIDE DEF hx
  <1>6. Balanced(u, T, TurnedHeights(h, hp, sb, hx), hp, hs)
    BY <1>2, <1>4, <1>5, RevolveBalanced
  <1>7. Shape(t1, T, N, at, pos, b) /\ t1.child = t.child /\ t1.parent = t.parent
    BY <1>2, PaintShape DEF Painted
  <1>8. Shape(u, T, N, at, pos, Turned(T, pos, b, hp, hs, sb))
    BY <1>5, <1>7, RevolveShape
  <1>9. Revolved(t1, hp, hs, sb, u)
    BY <1>5, <1>7, RevolveTree
  <1>10. RedBut(u, T, {}) /\ u.red = t1.red
    <2>1. \A n \in T \ {hp, sb, t.child[hs][sb]} :
             n \in t1.red => n \in {} \/ (t.parent[n] # 0 /\ t.parent[n] \notin t1.red)
      BY <1>1, <1>2 DEF SiblingFacts
    <2>2. sb \notin t1.red /\ t.child[hs][sb] \notin t1.red
      BY <1>1, <1>2, <1>3 DEF SiblingFacts
    <2> QED
      BY <1>2, <1>5, <2>1, <2>2, RevolveRed
  <1>11. u.child[hs][hp] = nd
    <2>1. hp \in Nodes /\ hp # sb /\ o # hs /\ t.child[hs][hp] = nd /\ t.parent[hp] # hp
      <3>1. hp \in T /\ ParentFacts(t, T, hp) /\ hp # 0
        BY <1>5, Neighbors
      <3> QED
        BY <1>1, <3>1 DEF SiblingFacts, ParentFacts
    <2> QED
      BY <1>5, <1>7, <1>9, <2>1 DEF Revolved
  <1>12. u.red \subseteq Nodes /\ nd \in T \cup {0} /\ hp # 0
    BY <1>1, <1>2, <1>10, NodeFacts DEF SiblingFacts, EraseGoesOn, EraseState
  <1>13. EraseState(u, T, TurnedHeights(h, hp, sb, hx), hp, hs, nd)
    BY <1>5, <1>6, <1>10, <1>11, <1>12 DEF EraseState, RedBut
  <1>14. LinksKept(t, u, T)
    BY <1>2, <1>5, RevolveKeeps
  <1> QED
    BY <1>2, <1>8, <1>10, <1>13, <1>14 DEF t1

\* The same for a named child, and with the colors that fit in one predicate.
RedFits(t, T, x, y, z, t1, X) ==
  /\ \A n \in T \ {x, y, z} : n \in t1.red => n \in X \/ (t.parent[n] # 0 /\ t.parent[n] \notin t1.red)
  /\ x \in t1.red => x \in X \/ y \notin t1.red
  /\ y \in t1.red => y \in X \/ (t.parent[x] # 0 /\ t.parent[x] \notin t1.red)
  /\ z \in t1.red => z \in X \/ x \notin t1.red

\* The rotation of x to the side s brings its child y up and hands z over.
Turning(t, T, N, at, pos, b, x, s, y, z, t1) ==
  /\ Shape(t, T, N, at, pos, b) /\ x \in T /\ s \in Sides /\ Painted(t, t1)
  /\ y = t.child[Other(s)][x] /\ y # 0 /\ z = t.child[s][y]

\* The rotation leaves red nodes apart if the colors fit (rbtree.h:153-204).
LEMMA RevolveRedAt ==
  ASSUME NEW t, NEW T, NEW N, NEW at, NEW pos, NEW b, NEW x, NEW s, NEW y, NEW z, NEW t1, NEW X,
         Turning(t, T, N, at, pos, b, x, s, y, z, t1), RedFits(t, T, x, y, z, t1, X)
  PROVE  RedBut(Revolve(t1, x, s), T, X) /\ Revolve(t1, x, s).red = t1.red
  <1>1. /\ Shape(t, T, N, at, pos, b) /\ x \in T /\ s \in Sides /\ Painted(t, t1)
        /\ y = t.child[Other(s)][x] /\ y # 0 /\ z = t.child[s][y]
    BY DEF Turning
  <1> QED
    BY <1>1, RevolveRed DEF RedFits

\* The rotation leaves the heights right if they can turn (rbtree.h:153-204).
LEMMA RevolveBalancedAt ==
  ASSUME NEW t, NEW T, NEW N, NEW at, NEW pos, NEW b, NEW x, NEW s, NEW y, NEW z, NEW t1,
         Turning(t, T, N, at, pos, b, x, s, y, z, t1), NEW h, NEW hp, NEW hs, NEW hp2, NEW hs2, NEW hx,
         CanTurn(t, T, h, hp, hs, x, s, y, t1, hp2, hs2, hx)
  PROVE  Balanced(Revolve(t1, x, s), T, TurnedHeights(h, x, y, hx), hp2, hs2)
  <1>1. /\ Shape(t, T, N, at, pos, b) /\ x \in T /\ s \in Sides /\ Painted(t, t1)
        /\ y = t.child[Other(s)][x] /\ y # 0 /\ z = t.child[s][y]
    BY DEF Turning
  <1> QED
    BY <1>1, RevolveBalanced

\* The sibling sb is black and its near child nr red, but its far child is not.
IsNear(t, hp, hs, sb, nr) ==
  /\ sb = t.child[Other(hs)][hp] /\ sb \notin t.red
  /\ nr = t.child[hs][sb] /\ nr \in t.red /\ t.child[Other(hs)][sb] \notin t.red

\* Case 3 of erase_fixup: a red near child of the sibling is turned to the far side
\* (rbtree.h:351-358, 389-395).
LEMMA EraseTurnsNear ==
  ASSUME NEW t, NEW T, NEW N, NEW at, NEW pos, NEW b, Shape(t, T, N, at, pos, b),
         NEW h, NEW hp, NEW hs, NEW nd, EraseGoesOn(t, T, h, hp, hs, nd),
         NEW sb, NEW nr, IsNear(t, hp, hs, sb, nr)
  PROVE  LET u == Revolve(SetRed(SetBlack(t, nr), sb), sb, Other(hs))
         IN  /\ Shape(u, T, N, at, pos, Turned(T, pos, b, sb, Other(hs), nr))
             /\ \E h2 : EraseState(u, T, h2, hp, hs, nd)
             /\ u.red = (t.red \ {nr}) \cup {sb} /\ LinksKept(t, u, T)
  <1> DEFINE o == Other(hs)
             t1 == SetRed(SetBlack(t, nr), sb)
             u == Revolve(t1, sb, o)
             hx == Ht(t, h, sb, o)
             z == t.child[o][nr]
  <1>0. sb = t.child[o][hp] /\ nr = t.child[hs][sb]
    BY DEF IsNear
  <1>a. sb \notin t.red /\ nr \in t.red /\ t.child[o][sb] \notin t.red
    BY DEF IsNear
  <1>1. SiblingFacts(t, T, h, hp, hs, nd, sb, o)
    BY <1>0, SiblingIsThere
  <1> HIDE DEF o
  <1>b. /\ t \in Trees /\ T \subseteq Nodes /\ t.red \subseteq Nodes
        /\ sb \in T /\ sb # 0 /\ sb # hp /\ sb # nd /\ t.parent[sb] = hp /\ hp \in T /\ hp \in Nodes
        /\ hs \in Sides /\ o \in Sides /\ o # hs /\ Other(o) = hs /\ nd \notin t.red
        /\ t.child[hs][hp] = nd /\ SideOf(t, hp, sb) = o
    BY <1>1 DEF SiblingFacts
  <1>c. /\ \A n \in T : n \in t.red => t.parent[n] # 0 /\ t.parent[n] \notin t.red
        /\ \A n \in T : t.parent[n] = sb => n \in {t.child[hs][sb], t.child[o][sb]}
    BY <1>1 DEF SiblingFacts
  <1>d. /\ h[sb] = Ht(t, h, sb, hs) + Black(t, sb) /\ h[sb] = Ht(t, h, sb, o) + Black(t, sb)
        /\ h \in [T -> Nat] /\ \A n \in T : BalancedAt(t, h, hp, hs, n)
        /\ \A n \in T : h[n] \in Nat /\ \A k \in Sides : Ht(t, h, n, k) \in Nat
    BY <1>1 DEF SiblingFacts
  <1>e. t.child[hs][sb] # 0 => /\ t.child[hs][sb] \in T /\ t.child[hs][sb] # nd /\ t.parent[t.child[hs][sb]] = sb
                               /\ t.child[hs][sb] \notin {sb, hp}
    BY <1>1 DEF SiblingFacts
  <1>2. Painted(t, t1) /\ t1.red = (t.red \ {nr}) \cup {sb}
    <2>1. t \in Trees /\ sb \in Nodes
      BY <1>b
    <2>2. Painted(t, SetBlack(t, nr)) /\ SetBlack(t, nr).red = t.red \ {nr} /\ SetBlack(t, nr) \in Trees
      BY <2>1, SetBlackCells
    <2> HIDE DEF t1
    <2>3. Painted(SetBlack(t, nr), t1) /\ t1.red = SetBlack(t, nr).red \cup {sb}
      BY <2>1, <2>2, SetRedCells DEF t1
    <2> QED
      BY <2>2, <2>3 DEF Painted
  <1> HIDE DEF t1
  <1>3. /\ nr \in T /\ nr # 0 /\ nr # sb /\ nr # hp /\ nr # nd /\ t.parent[nr] = sb
        /\ ChildFacts(t, T, nr, o) /\ o \in Sides /\ hs \in Sides
    <2>1. nr # 0 /\ nr = t.child[hs][sb]
      BY <1>0, <1>a, <1>b, NodeFacts
    <2>2. nr \in T /\ nr # nd /\ nr # sb /\ nr # hp /\ t.parent[nr] = sb
      BY <1>e, <2>1
    <2>3. ChildFacts(t, T, nr, o)
      BY <1>b, <2>2, Neighbors
    <2> QED
      BY <1>b, <2>1, <2>2, <2>3
  <1>4. z \notin t.red
    <2>1. z = 0 => z \notin t.red
      BY <1>b, NodeFacts
    <2>2. z # 0 => z \in T /\ t.parent[z] = nr
      BY <1>3 DEF ChildFacts
    <2> HIDE DEF z
    <2>3. z \in t.red => FALSE
      BY <1>3, <1>a, <1>c, <2>1, <2>2
    <2> QED
      BY <2>3
  <1>5. CanTurn(t, T, h, hp, hs, sb, o, nr, t1, hp, hs, hx)
    <2>1. Black(t, sb) = 1 /\ Black(t, nr) = 0 /\ Black(t1, sb) = 0 /\ Black(t1, nr) = 1
      BY <1>2, <1>3, <1>a DEF Black
    <2>2. /\ h[sb] = Ht(t, h, sb, hs) + Black(t, sb) /\ h[sb] = Ht(t, h, sb, o) + Black(t, sb)
          /\ h[sb] \in Nat /\ Ht(t, h, sb, hs) \in Nat /\ Ht(t, h, sb, o) \in Nat
          /\ h[nr] \in Nat /\ Ht(t, h, nr, hs) \in Nat /\ Ht(t, h, nr, o) \in Nat
      BY <1>3, <1>b, <1>d
    <2>3. /\ Hole(hp, hs, sb, hs) = 0 /\ Hole(hp, hs, sb, o) = 0 /\ Hole(hp, hs, nr, hs) = 0
          /\ Hole(hp, hs, nr, o) = 0
      BY <1>3, <1>b DEF Hole
    <2>4. Ht(t, h, sb, hs) = h[nr]
      BY <1>0, <1>3 DEF Ht
    <2>5. h[nr] = Ht(t, h, nr, hs) + 0 /\ h[nr] = Ht(t, h, nr, o) + 0
      <3>1. BalancedAt(t, h, hp, hs, nr)
        BY <1>3, <1>d
      <3>2. /\ h[nr] = Ht(t, h, nr, hs) + Hole(hp, hs, nr, hs) + Black(t, nr)
            /\ h[nr] = Ht(t, h, nr, o) + Hole(hp, hs, nr, o) + Black(t, nr)
        BY <1>3, <3>1 DEF BalancedAt
      <3> QED
        BY <2>1, <2>2, <2>3, <3>2
    <2>6. /\ hx = Ht(t, h, sb, o) + Hole(hp, hs, sb, o) + Black(t1, sb)
          /\ hx = Ht(t, h, nr, o) + Hole(hp, hs, sb, hs) + Black(t1, sb)
          /\ h[sb] = hx + Hole(hp, hs, nr, o) + Black(t1, nr)
          /\ h[sb] = Ht(t, h, nr, hs) + Hole(hp, hs, nr, hs) + Black(t1, nr)
      BY <2>1, <2>2, <2>3, <2>4, <2>5
    <2>7. \A n \in T \ {sb, nr} : n \in t1.red <=> n \in t.red
      BY <1>2
    <2>8. h \in [T -> Nat] /\ hx \in Nat /\ \A n \in T : BalancedAt(t, h, hp, hs, n)
      BY <1>d, <2>2
    <2>9. Other(o) = hs
      BY <1>b
    <2> HIDE DEF hx
    <2> QED
      BY <2>6, <2>7, <2>8, <2>9 DEF CanTurn
  <1>6. sb \in T /\ o \in Sides /\ t.child[Other(o)][sb] = nr /\ nr # 0
    BY <1>0, <1>3, <1>b
  <1> HIDE DEF hx
  <1>7. Balanced(u, T, TurnedHeights(h, sb, nr, hx), hp, hs)
    <2>1. Turning(t, T, N, at, pos, b, sb, o, nr, t.child[o][nr], t1)
      BY <1>2, <1>6 DEF Turning
    <2> QED
      BY <1>5, <2>1, RevolveBalancedAt
  <1>8. Shape(t1, T, N, at, pos, b) /\ t1.child = t.child /\ t1.parent = t.parent
    BY <1>2, PaintShape DEF Painted
  <1>9. Shape(u, T, N, at, pos, Turned(T, pos, b, sb, o, nr))
    BY <1>6, <1>8, RevolveShape
  <1>10. Revolved(t1, sb, o, nr, u)
    BY <1>6, <1>8, RevolveTree
  <1>11. RedBut(u, T, {}) /\ u.red = t1.red
    <2>1. \A n \in T \ {sb, nr, t.child[o][nr]} :
             n \in t1.red => n \in {} \/ (t.parent[n] # 0 /\ t.parent[n] \notin t1.red)
      <3> SUFFICES ASSUME NEW n \in T \ {sb, nr}, n \in t1.red
                   PROVE  t.parent[n] # 0 /\ t.parent[n] \notin t1.red
        OBVIOUS
      <3>1. n \in t.red /\ t.parent[n] # 0 /\ t.parent[n] \notin t.red
        BY <1>2, <1>c
      <3>2. t.parent[n] # sb
        BY <1>0, <1>a, <1>c, <3>1
      <3> QED
        BY <1>2, <3>1, <3>2
    <2>2. nr \notin t1.red
      BY <1>2, <1>3
    <2>3. t.child[o][nr] \in t1.red => t.child[o][nr] = sb
      BY <1>2, <1>4
    <2>4. t.child[o][nr] # sb
      <3>1. t.child[o][nr] # 0 => t.parent[t.child[o][nr]] = nr
        BY <1>3 DEF ChildFacts
      <3> QED
        BY <1>3, <1>b, <3>1
    <2>5. RedFits(t, T, sb, nr, t.child[o][nr], t1, {})
      BY <2>1, <2>2, <2>3, <2>4 DEF RedFits
    <2>6. Turning(t, T, N, at, pos, b, sb, o, nr, t.child[o][nr], t1)
      BY <1>2, <1>6 DEF Turning
    <2> HIDE DEF u
    <2>7. RedBut(Revolve(t1, sb, o), T, {})
      BY <2>5, <2>6, RevolveRedAt
    <2> QED
      BY <1>10, <2>7 DEF u, Revolved
  <1>12. u.child[hs][hp] = nd
    <2>1. /\ hp \in Nodes /\ hp # sb /\ hp # nr /\ t.child[hs][hp] = nd /\ t.parent[sb] = hp
          /\ SideOf(t, hp, sb) = o /\ o # hs /\ hs \in Sides /\ SideOf(t1, hp, sb) = SideOf(t, hp, sb)
      BY <1>3, <1>8, <1>b DEF SideOf
    <2>2. t1.parent[sb] = hp /\ SideOf(t1, hp, sb) = o /\ t1.child[hs][hp] = nd
      BY <1>8, <2>1
    <2>3. u.child[hs][hp] = t1.child[hs][hp]
      BY <1>10, <2>1, <2>2 DEF Revolved
    <2> QED
      BY <2>2, <2>3
  <1>13. u.red \subseteq Nodes /\ nd \in T \cup {0} /\ hp # 0 /\ hp \in T
    <2>1. t.red \subseteq Nodes /\ hp \in T /\ T \subseteq Nodes
      BY <1>b
    <2>2. nd \in T \cup {0}
      BY DEF EraseGoesOn, EraseState
    <2> QED
      BY <1>2, <1>3, <1>6, <1>11, <2>1, <2>2, NodeFacts
  <1>14. EraseState(u, T, TurnedHeights(h, sb, nr, hx), hp, hs, nd)
    BY <1>3, <1>7, <1>11, <1>12, <1>13 DEF EraseState, RedBut
  <1>15. LinksKept(t, u, T)
    BY <1>2, <1>6, RevolveKeeps
  <1> QED
    BY <1>2, <1>9, <1>11, <1>14, <1>15 DEF t1, o

\* Case 4 of erase_fixup: a red far child of the sibling becomes the missing black node
\* (rbtree.h:360-368, 397-404).
LEMMA EraseBorrows ==
  ASSUME NEW t, NEW T, NEW N, NEW at, NEW pos, NEW b, Shape(t, T, N, at, pos, b),
         NEW h, NEW hp, NEW hs, NEW nd, EraseGoesOn(t, T, h, hp, hs, nd),
         NEW sb, sb = t.child[Other(hs)][hp], sb \notin t.red,
         NEW fr, fr = t.child[Other(hs)][sb], fr \in t.red
  PROVE  LET u == Revolve(SetBlack(SetBlack(CopyColor(t, sb, hp), hp), fr), hp, hs)
         IN  /\ Shape(u, T, N, at, pos, Turned(T, pos, b, hp, hs, sb))
             /\ \E h2 : Balanced(u, T, h2, 0, "left")
             /\ RedBut(u, T, {}) /\ nd \notin u.red /\ LinksKept(t, u, T)
  <1> DEFINE o == Other(hs)
             tb == SetBlack(t, fr)
             t1 == SetBlack(SetBlack(CopyColor(t, sb, hp), hp), fr)
             u == Revolve(t1, hp, hs)
             h1 == [h EXCEPT ![fr] = h[fr] + 1]
             hx == Ht(tb, h1, hp, hs) + 1
             z == t.child[hs][sb]
  <1>1. SiblingFacts(t, T, h, hp, hs, nd, sb, o)
    BY SiblingIsThere
  <1>2. /\ fr \in T /\ fr # 0 /\ fr # sb /\ fr # hp /\ fr # nd /\ t.parent[fr] = sb
        /\ o \in Sides /\ hs \in Sides /\ hp \in T /\ sb \in T /\ sb # 0 /\ sb # hp /\ h \in [T -> Nat]
        /\ o # hs /\ t.child[hs][hp] # fr /\ t.child[hs][sb] # fr /\ t.child[o][hp] = sb
        /\ t \in Trees /\ T \subseteq Nodes /\ t.red \subseteq Nodes
    <2>1. fr \in T
      <3>1. fr # 0
        BY <1>1, NodeFacts DEF SiblingFacts
      <3> QED
        BY <1>1, <3>1 DEF SiblingFacts
    <2>2. fr # 0
      BY <2>1, Neighbors
    <2> QED
      BY <1>1, <2>1, <2>2 DEF SiblingFacts
  <1>3. /\ Painted(t, tb) /\ tb.red = t.red \ {fr} /\ tb \in Trees
    BY <1>2, SetBlackCells
  <1>4. /\ Painted(t, t1)
        /\ t1.red = ((IF hp \in t.red THEN t.red \cup {sb} ELSE t.red \ {sb}) \ {hp}) \ {fr}
    <2> DEFINE c1 == CopyColor(t, sb, hp)
               c2 == SetBlack(c1, hp)
               c3 == SetBlack(c2, fr)
    <2>1. /\ Painted(t, c1) /\ c1 \in Trees
          /\ c1.red = IF hp \in t.red THEN t.red \cup {sb} ELSE t.red \ {sb}
      <3>1. sb \in Nodes
        BY <1>2
      <3> QED
        BY <1>2, <3>1, CopyColorCells
    <2> HIDE DEF c1
    <2>2. Painted(c1, c2) /\ c2.red = c1.red \ {hp} /\ c2 \in Trees
      BY <2>1, SetBlackCells
    <2> HIDE DEF c2
    <2>3. Painted(c2, c3) /\ c3.red = c2.red \ {fr}
      BY <2>2, SetBlackCells
    <2>4. t1 = c3
      BY DEF c1, c2
    <2> HIDE DEF t1, c3
    <2> QED
      BY <2>1, <2>2, <2>3, <2>4 DEF Painted
  <1> HIDE DEF t1, tb, u
  <1>5. Painted(tb, t1) /\ Shape(tb, T, N, at, pos, b) /\ tb.child = t.child
    BY <1>3, <1>4, PaintShape DEF Painted
  <1>6. h1 \in [T -> Nat] /\ h1[fr] = h[fr] + 1 /\ \A n \in T \ {fr} : h1[n] = h[n]
    BY <1>2
  <1> HIDE DEF h1
  <1>7. /\ \A n \in T : h[n] \in Nat /\ \A k \in Sides : Ht(t, h, n, k) \in Nat
        /\ \A n \in T : BalancedAt(t, h, hp, hs, n)
        /\ h[sb] = Ht(t, h, hp, hs) + 1 /\ h[hp] = h[sb] + Black(t, hp)
        /\ \A k \in Sides : h[sb] = Ht(t, h, sb, k) + Black(t, sb)
        /\ \A n \in T : t.parent[n] = sb => n \in {t.child[hs][sb], t.child[o][sb]}
    BY <1>1 DEF SiblingFacts
  <1>8. ASSUME NEW n \in T, n # sb, NEW k \in Sides PROVE Ht(tb, h1, n, k) = Ht(t, h, n, k)
    <2>1. ChildFacts(t, T, n, k)
      BY Neighbors
    <2>2. t.child[k][n] # 0 => h1[t.child[k][n]] = h[t.child[k][n]]
      BY <1>2, <1>6, <1>8, <2>1 DEF ChildFacts
    <2> QED
      BY <1>3, <2>2, PaintHeights
  <1>9. Ht(tb, h1, sb, hs) = Ht(t, h, sb, hs)
    <2>1. ChildFacts(t, T, sb, hs)
      BY <1>2, Neighbors
    <2>2. t.child[hs][sb] # 0 => h1[t.child[hs][sb]] = h[t.child[hs][sb]]
      BY <1>2, <1>6, <2>1 DEF ChildFacts
    <2> QED
      BY <1>3, <2>2, PaintHeights
  <1>10. Ht(tb, h1, sb, o) = h[fr] + 1 /\ Ht(t, h, sb, o) = h[fr]
    BY <1>2, <1>3, <1>6 DEF Ht, Painted
  <1>11. ASSUME NEW n \in T \ {hp, sb} PROVE BalancedAt(tb, h1, hp, hs, n)
    <2> SUFFICES ASSUME NEW k \in Sides
                 PROVE  h1[n] = Ht(tb, h1, n, k) + Hole(hp, hs, n, k) + Black(tb, n)
      BY DEF BalancedAt
    <2>1. /\ h[n] = Ht(t, h, n, k) + Hole(hp, hs, n, k) + Black(t, n)
          /\ Ht(t, h, n, k) \in Nat /\ h[n] \in Nat /\ Ht(tb, h1, n, k) = Ht(t, h, n, k)
      BY <1>7, <1>8 DEF BalancedAt
    <2>2. Hole(hp, hs, n, k) = 0
      BY DEF Hole
    <2>3. Black(tb, n) = Black(t, n) + (IF n = fr THEN 1 ELSE 0) /\ Black(t, n) \in {0, 1}
      BY <1>3 DEF Black
    <2>4. h1[n] = h[n] + (IF n = fr THEN 1 ELSE 0)
      BY <1>6, <2>1
    <2> QED
      BY <2>1, <2>2, <2>3, <2>4
  <1>12. CanTurn(tb, T, h1, hp, hs, hp, hs, sb, t1, 0, "left", hx)
    <2>1. Black(t, sb) = 1 /\ Black(t1, hp) = 1 /\ Black(t1, sb) = Black(t, hp) /\ Black(t, hp) \in {0, 1}
      BY <1>2, <1>4 DEF Black
    <2>2. /\ Ht(tb, h1, hp, hs) = Ht(t, h, hp, hs) /\ h1[hp] = h[hp]
          /\ Ht(t, h, hp, hs) \in Nat /\ Ht(t, h, sb, hs) \in Nat /\ h[hp] \in Nat /\ h[fr] \in Nat
          /\ h[sb] \in Nat
      BY <1>2, <1>6, <1>7, <1>8
    <2>3. /\ h[sb] = Ht(t, h, hp, hs) + 1 /\ h[hp] = h[sb] + Black(t, hp)
          /\ h[sb] = Ht(t, h, sb, hs) + 1 /\ h[sb] = h[fr] + 1
      BY <1>2, <1>7, <1>10, <2>1
    <2>4. \A n \in T : \A k \in Sides : Hole(0, "left", n, k) = 0
      BY <1>2, NodeFacts DEF Hole
    <2>5. \A n \in T \ {hp, sb} : /\ BalancedAt(tb, h1, hp, hs, n) /\ (n \in t1.red <=> n \in tb.red)
                                  /\ \A k \in Sides : Hole(0, "left", n, k) = Hole(hp, hs, n, k)
      BY <1>3, <1>4, <1>11, <2>4 DEF Hole
    <2>6. /\ Hole(0, "left", hp, hs) = 0 /\ Hole(0, "left", hp, o) = 0
          /\ Hole(0, "left", sb, hs) = 0 /\ Hole(0, "left", sb, o) = 0
      BY <1>2, <2>4
    <2>7. /\ hx = Ht(tb, h1, hp, hs) + Hole(0, "left", hp, hs) + Black(t1, hp)
          /\ hx = Ht(tb, h1, sb, hs) + Hole(0, "left", hp, o) + Black(t1, hp)
          /\ h1[hp] = hx + Hole(0, "left", sb, hs) + Black(t1, sb)
          /\ h1[hp] = Ht(tb, h1, sb, o) + Hole(0, "left", sb, o) + Black(t1, sb)
      BY <1>9, <1>10, <2>1, <2>2, <2>3, <2>6
    <2>8. hx \in Nat
      BY <2>2
    <2> HIDE DEF hx
    <2> QED
      BY <1>6, <2>5, <2>7, <2>8 DEF CanTurn
  <1>13. t.child[Other(hs)][hp] = sb /\ tb.child[Other(hs)][hp] = sb
    BY <1>3, <1>2 DEF Painted
  <1> HIDE DEF hx, o
  <1>14. Balanced(u, T, TurnedHeights(h1, hp, sb, hx), 0, "left")
    BY <1>2, <1>5, <1>12, <1>13, RevolveBalanced DEF u
  <1>15. Shape(u, T, N, at, pos, Turned(T, pos, b, hp, hs, sb))
    <2>1. Shape(t1, T, N, at, pos, b) /\ t1.child = t.child
      BY <1>4, PaintShape DEF Painted
    <2> QED
      BY <1>2, <1>13, <2>1, RevolveShape DEF u
  <1>16. RedBut(u, T, {}) /\ u.red = t1.red
    <2>1. /\ \A n \in T : n \in t.red => t.parent[n] # 0 /\ t.parent[n] \notin t.red
          /\ t.parent[hp] # sb
      BY <1>1 DEF SiblingFacts
    <2>2. \A n \in T \ {hp, sb, t.child[hs][sb]} :
             n \in t1.red => n \in {} \/ (t.parent[n] # 0 /\ t.parent[n] \notin t1.red)
      <3> SUFFICES ASSUME NEW n \in T \ {hp, sb, t.child[hs][sb]}, n \in t1.red
                   PROVE  t.parent[n] # 0 /\ t.parent[n] \notin t1.red
        OBVIOUS
      <3>1. n \in t.red /\ n # fr
        BY <1>4
      <3>2. t.parent[n] # sb
        BY <1>7, <3>1 DEF o
      <3> QED
        BY <1>4, <2>1, <3>1, <3>2
    <2>3. hp \notin t1.red /\ (sb \in t1.red => t.parent[hp] # 0 /\ t.parent[hp] \notin t1.red)
      BY <1>2, <1>4, <2>1
    <2>4. t.child[hs][sb] \in t1.red => t.child[hs][sb] \in {} \/ hp \notin t1.red
      BY <2>3
    <2>5. RedFits(t, T, hp, sb, t.child[hs][sb], t1, {})
      BY <2>2, <2>3, <2>4 DEF RedFits
    <2> QED
      <3>1. Turning(t, T, N, at, pos, b, hp, hs, sb, t.child[hs][sb], t1)
        BY <1>2, <1>4, <1>13 DEF Turning
      <3> QED
        BY <2>5, <3>1, RevolveRedAt DEF u
  <1>17. t1.red \subseteq Nodes /\ nd \notin t1.red
    <2>1. nd \notin t.red /\ nd # sb
      BY <1>1 DEF SiblingFacts
    <2>2. t.red \subseteq Nodes /\ sb \in Nodes
      BY <1>2
    <2>3. t1.red \subseteq t.red \cup {sb}
      BY <1>4
    <2> HIDE DEF t1
    <2> QED
      BY <2>1, <2>2, <2>3
  <1>18. LinksKept(t, u, T)
    BY <1>2, <1>4, <1>13, RevolveKeeps DEF u
  <1> QED
    BY <1>14, <1>15, <1>16, <1>17, <1>18 DEF u, t1

\* Case 2 of erase_fixup: the sibling becomes red, and the black node is missing above
\* (rbtree.h:342-349, 381-387).
LEMMA ErasePushesUp ==
  ASSUME NEW t, NEW T, NEW N, NEW at, NEW pos, NEW b, Shape(t, T, N, at, pos, b),
         NEW h, NEW hp, NEW hs, NEW nd, EraseGoesOn(t, T, h, hp, hs, nd),
         NEW sb, sb = t.child[Other(hs)][hp], sb \notin t.red,
         t.child[hs][sb] \notin t.red, t.child[Other(hs)][sb] \notin t.red
  PROVE  LET u == SetRed(t, sb)
         IN  /\ Shape(u, T, N, at, pos, b)
             /\ \E h2 : EraseState(u, T, h2, t.parent[hp], SideOf(t, t.parent[hp], hp), hp)
             /\ u.red = t.red \cup {sb}
  <1> DEFINE o == Other(hs)
             u == SetRed(t, sb)
             p == t.parent[hp]
             d == SideOf(t, p, hp)
             h2 == [h EXCEPT ![hp] = h[hp] - 1, ![sb] = h[sb] - 1]
  <1>1. SiblingFacts(t, T, h, hp, hs, nd, sb, o)
    BY SiblingIsThere
  <1>2. /\ t \in Trees /\ T \subseteq Nodes /\ t.red \subseteq Nodes /\ h \in [T -> Nat]
        /\ \A n \in T : BalancedAt(t, h, hp, hs, n)
        /\ hp \in T /\ hs \in Sides /\ t.child[hs][hp] = nd
        /\ o \in Sides /\ o # hs /\ Other(o) = hs /\ Sides = {hs, o}
        /\ sb \in T /\ t.child[o][hp] = sb /\ sb # 0 /\ sb # hp /\ sb # nd /\ t.parent[sb] = hp
        /\ \A n \in T : n \in t.red => t.parent[n] # 0 /\ t.parent[n] \notin t.red
        /\ \A n \in T : t.parent[n] = sb => n \in {t.child[hs][sb], t.child[o][sb]}
        /\ \A n \in T : h[n] \in Nat /\ \A k \in Sides : Ht(t, h, n, k) \in Nat
    BY <1>1 DEF SiblingFacts
  <1>3. /\ h[sb] = Ht(t, h, hp, hs) + 1 /\ h[hp] = h[sb] + Black(t, hp)
        /\ \A k \in Sides : h[sb] = Ht(t, h, sb, k) + 1
    <2>1. Black(t, sb) = 1
      BY DEF Black
    <2> QED
      BY <1>1, <2>1 DEF SiblingFacts
  <1>4. Painted(t, u) /\ u.red = t.red \cup {sb} /\ Shape(u, T, N, at, pos, b)
    <2>1. sb \in Nodes
      BY <1>2
    <2> QED
      BY <1>2, <2>1, SetRedCells, PaintShape
  <1>5. \A n \in T : /\ n # 0 /\ ParentFacts(t, T, n) /\ \A k \in Sides : ChildFacts(t, T, n, k)
    BY Neighbors
  <1>6. Black(t, hp) \in {0, 1}
    BY DEF Black
  <1>7. /\ h2 \in [T -> Nat] /\ h2[hp] = h[hp] - 1 /\ h2[sb] = h[sb] - 1
        /\ \A n \in T \ {hp, sb} : h2[n] = h[n]
    <2>1. h[hp] - 1 \in Nat /\ h[sb] - 1 \in Nat
      BY <1>2, <1>3, <1>6
    <2> QED
      BY <1>2, <2>1
  <1>8. p # 0 => p \in T /\ t.child[d][p] = hp
    BY <1>2, <1>5 DEF ParentFacts
  <1>9. d \in Sides /\ p # hp /\ p # sb
    <2>1. ParentFacts(t, T, hp) /\ ChildFacts(t, T, hp, o) /\ hp # 0
      BY <1>2, <1>5
    <2>2. p # hp
      BY <2>1 DEF ParentFacts
    <2>3. p # sb
      BY <1>2, <2>1 DEF ChildFacts
    <2> QED
      BY <2>2, <2>3 DEF SideOf, Sides
  <1> HIDE DEF u, h2, o, p, d
  <1>10. ASSUME NEW n \in T, NEW k \in Sides, ~(n = hp /\ k = o), ~(n = p /\ k = d)
         PROVE  Ht(u, h2, n, k) = Ht(t, h, n, k)
    <2>1. ChildFacts(t, T, n, k)
      BY <1>5
    <2>2. t.child[k][n] # 0 => t.child[k][n] \in T /\ t.child[k][n] \notin {hp, sb}
      <3>1. t.child[k][n] # 0 => /\ t.child[k][n] \in T /\ t.parent[t.child[k][n]] = n
                                 /\ SideOf(t, n, t.child[k][n]) = k
        BY <2>1 DEF ChildFacts
      <3>2. t.child[k][n] = sb => n = hp /\ k = o
        BY <1>2, <3>1 DEF SiblingFacts, SideOf, ChildFacts, o
      <3>3. t.child[k][n] = hp => n = p /\ k = d
        BY <1>2, <1>5, <3>1 DEF p, d
      <3> QED
        BY <1>10, <3>1, <3>2, <3>3
    <2> QED
      BY <1>4, <1>7, <2>2, PaintHeights
  <1>11. Ht(u, h2, hp, o) = h[sb] - 1 /\ (p # 0 => Ht(u, h2, p, d) = h[hp] - 1)
    BY <1>2, <1>4, <1>5, <1>7, <1>8 DEF Ht, Painted
  <1>12. ASSUME NEW n \in T, n \notin {hp, sb} PROVE BalancedAt(u, h2, p, d, n)
    <2> SUFFICES ASSUME NEW k \in Sides
                 PROVE  h2[n] = Ht(u, h2, n, k) + Hole(p, d, n, k) + Black(u, n)
      BY DEF BalancedAt
    <2>1. h[n] = Ht(t, h, n, k) + Hole(hp, hs, n, k) + Black(t, n) /\ Hole(hp, hs, n, k) = 0
      BY <1>2, <1>12 DEF BalancedAt, Hole
    <2>2. h2[n] = h[n] /\ Black(u, n) = Black(t, n) /\ Black(t, n) \in {0, 1} /\ Ht(t, h, n, k) \in Nat
      BY <1>2, <1>4, <1>7, <1>12 DEF Black
    <2>3. CASE n = p /\ k = d
      <3>1. Hole(p, d, n, k) = 1 /\ Ht(u, h2, n, k) = h[hp] - 1
        BY <1>5, <1>11, <2>3 DEF Hole
      <3>2. Ht(t, h, n, k) = h[hp] /\ h[hp] \in Nat
        BY <1>2, <1>5, <1>8, <2>3 DEF Ht
      <3> QED
        BY <2>1, <2>2, <3>1, <3>2
    <2>4. CASE ~(n = p /\ k = d)
      <3>1. Hole(p, d, n, k) = 0 /\ Ht(u, h2, n, k) = Ht(t, h, n, k)
        BY <1>10, <1>12, <2>4 DEF Hole
      <3> QED
        BY <2>1, <2>2, <3>1
    <2> QED
      BY <2>3, <2>4
  <1>13. BalancedAt(u, h2, p, d, sb)
    <2> SUFFICES ASSUME NEW k \in Sides
                 PROVE  h2[sb] = Ht(u, h2, sb, k) + Hole(p, d, sb, k) + Black(u, sb)
      BY DEF BalancedAt
    <2>1. Hole(p, d, sb, k) = 0 /\ Black(u, sb) = 0 /\ Ht(u, h2, sb, k) = Ht(t, h, sb, k)
      BY <1>2, <1>4, <1>9, <1>10 DEF Hole, Black
    <2>2. h[sb] = Ht(t, h, sb, k) + 1 /\ Ht(t, h, sb, k) \in Nat
      BY <1>2, <1>3
    <2> QED
      BY <1>7, <2>1, <2>2
  <1>14. BalancedAt(u, h2, p, d, hp)
    <2>1. /\ Hole(p, d, hp, hs) = 0 /\ Hole(p, d, hp, o) = 0 /\ Black(u, hp) = Black(t, hp)
          /\ Ht(u, h2, hp, hs) = Ht(t, h, hp, hs)
      BY <1>2, <1>4, <1>9, <1>10 DEF Hole, Black
    <2>2. /\ h2[hp] = Ht(u, h2, hp, hs) + Hole(p, d, hp, hs) + Black(u, hp)
          /\ h2[hp] = Ht(u, h2, hp, o) + Hole(p, d, hp, o) + Black(u, hp)
      BY <1>2, <1>3, <1>6, <1>7, <1>11, <2>1
    <2> QED
      BY <1>2, <2>2 DEF BalancedAt
  <1>15. Balanced(u, T, h2, p, d)
    BY <1>7, <1>12, <1>13, <1>14 DEF Balanced
  <1>16. RedBut(u, T, {n \in T : n = hp \/ (hp # 0 /\ u.parent[n] = hp)})
    <2> SUFFICES ASSUME NEW n \in T, n \in u.red, n # hp, t.parent[n] # hp
                 PROVE  t.parent[n] # 0 /\ t.parent[n] \notin u.red
      BY <1>2, <1>4, <1>5 DEF RedBut, Painted
    <2>1. n \in t.red
      BY <1>2, <1>4
    <2>2. t.parent[n] # sb
      BY <1>2, <2>1 DEF o
    <2> QED
      BY <1>2, <1>4, <2>1, <2>2
  <1>17. u.red \subseteq Nodes /\ IF p = 0 THEN hp = u.root ELSE p \in T /\ u.child[d][p] = hp
    <2>1. p = 0 => hp = t.root
      BY <1>2, <1>5 DEF ParentFacts, p
    <2> QED
      BY <1>2, <1>4, <1>8, <2>1 DEF Painted
  <1>18. EraseState(u, T, h2, p, d, hp)
    BY <1>2, <1>5, <1>9, <1>15, <1>16, <1>17 DEF EraseState
  <1> QED
    BY <1>4, <1>18 DEF u, p, d

\* The end of erase_fixup: the node becomes black (rbtree.h:407-410).
LEMMA EraseEnds ==
  ASSUME NEW t, NEW T, NEW N, NEW at, NEW pos, NEW b, Shape(t, T, N, at, pos, b),
         NEW h, NEW hp, NEW hs, NEW nd, EraseState(t, T, h, hp, hs, nd), nd = t.root \/ nd \in t.red
  PROVE  LET u == SetBlack(t, nd)
         IN  /\ nd # 0 /\ Shape(u, T, N, at, pos, b) /\ \E h2 : Balanced(u, T, h2, 0, "left")
             /\ RedBut(u, T, {}) /\ u.red = t.red \ {nd}
  <1> DEFINE u == SetBlack(t, nd)
  <1>1. /\ t \in Trees /\ T \subseteq Nodes /\ Balanced(t, T, h, hp, hs) /\ hs \in Sides /\ t.red \subseteq Nodes
        /\ RedBut(t, T, {n \in T : n = nd \/ (nd # 0 /\ t.parent[n] = nd)})
        /\ nd \in T \cup {0} /\ (nd = 0 => hp # 0)
        /\ IF hp = 0 THEN nd = t.root ELSE hp \in T /\ t.child[hs][hp] = nd
    BY DEF EraseState, Shape, Numbered
  <1>2. Painted(t, u) /\ u.red = t.red \ {nd} /\ Shape(u, T, N, at, pos, b)
    BY <1>1, SetBlackCells, PaintShape
  <1>3. Rooted(t, T, N, b) /\ 0 \notin T
    BY <1>1, NodeFacts DEF Shape
  <1>4. nd \in T /\ nd # 0
    BY <1>1, <1>3, NodeFacts DEF Rooted
  <1>5. \E h2 : Balanced(u, T, h2, 0, "left")
    <2>1. CASE nd \in t.red
      BY <1>1, <1>4, <2>1, BlackenBalanced
    <2>2. CASE nd \notin t.red
      <3>1. nd = t.root
        BY <2>2
      <3>2. hp = 0
        <4>1. hp # 0 => ChildFacts(t, T, hp, hs)
          BY <1>1, Neighbors
        <4> QED
          BY <1>1, <1>4, <3>1, <4>1 DEF ChildFacts
      <3>3. u.red = t.red
        BY <1>2, <2>2
      <3>4. \A n \in T : \A k \in Sides : Hole(hp, hs, n, k) = 0 /\ Hole(0, "left", n, k) = 0
        BY <1>3, <3>2 DEF Hole
      <3>5. \A n \in T : \A k \in Sides : Ht(u, h, n, k) = Ht(t, h, n, k) /\ Black(u, n) = Black(t, n)
        BY <1>2, <3>3 DEF Ht, Black, Painted
      <3> HIDE DEF u
      <3>6. Balanced(u, T, h, 0, "left")
        BY <1>1, <3>4, <3>5 DEF Balanced, BalancedAt
      <3> QED
        BY <3>6
    <2> QED
      BY <2>1, <2>2
  <1>6. RedBut(u, T, {})
    BY <1>1, <1>2, <1>4 DEF RedBut, Painted
  <1> QED
    BY <1>2, <1>4, <1>5, <1>6

-----------------------------------------------------------------------------
(* The inductive invariant, and the steps of the loops. *)

\* The values are in order.
Sorted(N, at) == \A i, j \in 1 .. N : i <= j => Value(at[i]) <= Value(at[j])

\* A node that is not in the tree has no links, but for the one that is about to be deleted.
Stray(t, T, d) ==
  \A n \in Nodes \ T :
    IF n = d THEN t.parent[n] \in T \cup {0} /\ \A s \in Sides : t.child[s][n] \in T \cup {0}
    ELSE t.parent[n] = 0 /\ \A s \in Sides : t.child[s][n] = 0

\* What holds in the phases of a call.
Phase(t, T, h, hs, p, nd, pr) ==
  /\ p = "insert_fixup" => InsertState(t, T, h, nd)
  /\ p = "erase_fixup" => EraseState(t, T, h, pr, hs, nd)
  /\ p \in {"idle", "delete"} => Balanced(t, T, h, 0, "left") /\ RedBut(t, T, {})

\* What there is besides the tree: doomed is set while a call erases.
Calls == /\ live \subseteq Nodes /\ pc \in {"idle", "insert_fixup", "erase_fixup", "delete"}
         /\ IF pc \in {"idle", "insert_fixup"} THEN doomed = 0 ELSE doomed \in live

\* The inductive invariant: the nodes of the tree can be numbered, and the subtrees are
\* intervals of numbers and have heights.
Red(t, T, N, at, pos, b, h, hs, p, nd, pr) ==
  Shape(t, T, N, at, pos, b) /\ Sorted(N, at) /\ Phase(t, T, h, hs, p, nd, pr)

\* A tree of that kind, in the state that the phase of the call wants.
RBInv == /\ Calls /\ Stray(tree, InTree, doomed)
         /\ \E N, at, pos, b, h, hs : Red(tree, InTree, N, at, pos, b, h, hs, pc, node, parent)

\* A step of a loop leaves the nodes of the tree and their order.
LEMMA LoopKeeps ==
  ASSUME NEW T, T = InTree, UNCHANGED <<live, doomed>>,
         Calls, Stray(tree, T, doomed), LinksKept(tree, tree', T),
         IF pc = "insert_fixup" THEN pc' \in {"idle", "insert_fixup"} ELSE pc' \in {"erase_fixup", "delete"},
         pc \in {"insert_fixup", "erase_fixup"},
         NEW N, NEW at, NEW pos, NEW b, Shape(tree', T, N, at, pos, b), Sorted(N, at),
         \E h, hs : Phase(tree', T, h, hs, pc', node', parent')
  PROVE  RBInv'
  <1>1. InTree' = T
    BY DEF InTree
  <1>2. Calls'
    BY DEF Calls
  <1>3. Stray(tree', T, doomed')
    BY DEF Stray, LinksKept
  <1>4. \E h, hs : Red(tree', T, N, at, pos, b, h, hs, pc', node', parent')
    BY DEF Red
  <1> QED
    BY <1>1, <1>2, <1>3, <1>4 DEF RBInv

\* What holds in the loop of insert_fixup, and in that of erase_fixup.
LEMMA InInsertLoop ==
  ASSUME RBInv, pc = "insert_fixup"
  PROVE  /\ Calls /\ Stray(tree, InTree, doomed)
         /\ \E N, at, pos, b, h : /\ Shape(tree, InTree, N, at, pos, b) /\ Sorted(N, at)
                                  /\ InsertState(tree, InTree, h, node)
  BY DEF RBInv, Red, Phase

\* The same for the loop of erase_fixup.
LEMMA InEraseLoop ==
  ASSUME RBInv, pc = "erase_fixup"
  PROVE  /\ Calls /\ Stray(tree, InTree, doomed)
         /\ \E N, at, pos, b, h, hs : /\ Shape(tree, InTree, N, at, pos, b) /\ Sorted(N, at)
                                      /\ EraseState(tree, InTree, h, parent, hs, node)
  BY DEF RBInv, Red, Phase

\* Painting leaves all links.
LEMMA PaintKeeps ==
  ASSUME NEW t \in Trees, NEW T
  PROVE  \A n \in Pointers : LinksKept(t, SetRed(t, n), T) /\ LinksKept(t, SetBlack(t, n), T)
                             /\ SetRed(t, n).parent = t.parent /\ SetRed(t, n).child = t.child
                             /\ SetBlack(t, n).parent = t.parent /\ SetBlack(t, n).child = t.child
  BY DEF LinksKept, SetRed, SetBlack, Trees

\* The iterations of insert_fixup keep the invariant.
LEMMA InsertCase1Keeps == ASSUME RBInv, InsertCase1 PROVE RBInv'
  <1> DEFINE T == InTree
             g == tree.parent[Father]
             a == SideOf(tree, g, Father)
  <1>1. pc = "insert_fixup" /\ Father \in tree.red /\ Uncle \in tree.red
    BY DEF InsertCase1, InsertLoop, IsRed
  <1>2. PICK N, at, pos, b, h : /\ Shape(tree, T, N, at, pos, b) /\ Sorted(N, at)
                                /\ InsertState(tree, T, h, node)
    BY <1>1, InInsertLoop
  <1>3. Kin(tree, T, node, Father, g, a)
    BY <1>1, <1>2, KinFacts DEF Father
  <1>4. tree' = SetRed(SetBlack(SetBlack(tree, Uncle), Father), g)
    BY DEF InsertCase1, Grand
  <1>5. Uncle = tree.child[Other(a)][g]
    BY DEF Uncle, FatherSide, Grand
  <1>6. Shape(tree', T, N, at, pos, b) /\ \E h2 : InsertState(tree', T, h2, g)
    <2> DEFINE f == Father
               un == Uncle
               u == SetRed(SetBlack(SetBlack(tree, un), f), g)
    <2>1. tree.parent[node] = f
      BY DEF Father
    <2> HIDE DEF f, un, g, a, T
    <2>2. Shape(u, T, N, at, pos, b) /\ \E h2 : InsertState(u, T, h2, g)
      BY <1>1, <1>2, <1>3, <1>5, <2>1, InsertPushesUp DEF f, un
    <2> QED
      BY <1>4, <2>2 DEF f, un
  <1>7. LinksKept(tree, tree', T)
    <2>1. tree \in Trees
      BY <1>2 DEF Shape
    <2>2. tree'.parent = tree.parent /\ tree'.child = tree.child
      BY <1>4, <2>1 DEF Trees, SetRed, SetBlack
    <2> QED
      BY <2>2 DEF LinksKept
  <1>8. pc' = pc /\ node' = g /\ UNCHANGED <<live, doomed>>
    BY DEF InsertCase1, Grand
  <1>9. \E h2, hs : Phase(tree', T, h2, hs, pc', node', parent')
    BY <1>1, <1>6, <1>8 DEF Phase
  <1> HIDE DEF T
  <1>10. Calls /\ Stray(tree, T, doomed) /\ T = InTree
    BY <1>1, InInsertLoop DEF T
  <1> QED
    BY <1>1, <1>2, <1>6, <1>7, <1>8, <1>9, <1>10, LoopKeeps

\* The same for the second and third case.
LEMMA InsertCase2Keeps == ASSUME RBInv, InsertCase2Left PROVE RBInv'
  <1> DEFINE T == InTree
             f == Father
             g == tree.parent[f]
             a == SideOf(tree, g, f)
  <1>1. pc = "insert_fixup" /\ f \in tree.red /\ a = "left" /\ node = tree.child["right"][f]
    BY DEF InsertCase2Left, InsertLoop, IsRed, FatherSide, Grand
  <1>2. PICK N, at, pos, b, h : /\ Shape(tree, T, N, at, pos, b) /\ Sorted(N, at)
                                /\ InsertState(tree, T, h, node)
    BY <1>1, InInsertLoop
  <1>3. Kin(tree, T, node, f, g, a)
    BY <1>1, <1>2, KinFacts DEF Father
  <1>4. tree' = Revolve(tree, f, a) /\ pc' = pc /\ node' = f /\ UNCHANGED <<live, doomed>>
    BY <1>1 DEF InsertCase2Left
  <1>5. node = tree.child[Other(a)][f] /\ tree.parent[node] \in tree.red
    BY <1>1 DEF Other, Father
  <1> HIDE DEF f, g, a
  <1>6. /\ Shape(tree', T, N, at, pos, Turned(T, pos, b, f, a, node)) /\ LinksKept(tree, tree', T)
        /\ \E h2 : InsertState(tree', T, h2, f)
    BY <1>2, <1>3, <1>4, <1>5, InsertTurnsOut
  <1>7. \E h2, hs : Phase(tree', T, h2, hs, pc', node', parent')
    BY <1>1, <1>4, <1>6 DEF Phase
  <1> HIDE DEF T
  <1>8. Calls /\ Stray(tree, T, doomed) /\ T = InTree
    BY <1>1, InInsertLoop DEF T
  <1> QED
    BY <1>1, <1>2, <1>4, <1>6, <1>7, <1>8, LoopKeeps

\* What a turn of the father over the grandfather keeps.
LEMMA TurnUpKeeps ==
  ASSUME NEW T, T = InTree, pc = "insert_fixup", pc' = pc, UNCHANGED <<live, doomed>>,
         Calls, Stray(tree, T, doomed),
         NEW t, LinksKept(tree, t, T), NEW N, NEW at, NEW pos, NEW b, NEW h, NEW nd, NEW f, NEW g, NEW a,
         Shape(t, T, N, at, pos, b), Sorted(N, at), InsertState(t, T, h, nd),
         t.parent[nd] \in t.red, Kin(t, T, nd, f, g, a), nd = t.child[a][f],
         t.child[Other(a)][g] \notin t.red, tree' = InsertRotate(t, f, g), node' = nd
  PROVE  RBInv'
  <1>1. /\ Shape(tree', T, N, at, pos, Turned(T, pos, b, g, Other(a), f)) /\ LinksKept(t, tree', T)
        /\ \E h2 : Balanced(tree', T, h2, 0, "left")
        /\ RedBut(tree', T, {}) /\ tree'.red = (t.red \ {f}) \cup {g}
    BY InsertTurnsUp
  <1>2. LinksKept(tree, tree', T)
    BY <1>1 DEF LinksKept
  <1>3. nd \in T /\ nd \in t.red /\ nd # f
    BY DEF InsertState, Kin
  <1>4. tree' \in Trees /\ nd \in tree'.red
    BY <1>1, <1>3 DEF Shape
  <1>5. RedBut(tree', T, {nd}) /\ tree'.red \subseteq Nodes
    BY <1>1, <1>4 DEF RedBut, Trees
  <1>6. PICK h2 : Balanced(tree', T, h2, 0, "left")
    BY <1>1
  <1>7. InsertState(tree', T, h2, nd)
    BY <1>3, <1>4, <1>5, <1>6 DEF InsertState
  <1>8. \E h3, hs : Phase(tree', T, h3, hs, pc', node', parent')
    <2>1. Phase(tree', T, h2, "left", pc', node', parent')
      BY <1>7 DEF Phase
    <2> QED
      BY <2>1
  <1> QED
    BY <1>1, <1>2, <1>8, LoopKeeps

\* Case 3 on the left ends the loop (rbtree.h:233-239).
LEMMA InsertCase3LeftKeeps == ASSUME RBInv, InsertCase3Left PROVE RBInv'
  <1> DEFINE T == InTree
             f == Father
             g == tree.parent[f]
             a == SideOf(tree, g, f)
  <1>1. /\ pc = "insert_fixup" /\ tree.parent[node] \in tree.red /\ a = "left" /\ node = tree.child["left"][f]
        /\ tree.child[Other(a)][g] \notin tree.red
    BY DEF InsertCase3Left, InsertLoop, IsRed, FatherSide, Grand, Uncle, Father
  <1>2. PICK N, at, pos, b, h : /\ Shape(tree, T, N, at, pos, b) /\ Sorted(N, at)
                                /\ InsertState(tree, T, h, node)
    BY <1>1, InInsertLoop
  <1>3. Kin(tree, T, node, f, g, a)
    BY <1>1, <1>2, KinFacts DEF Father
  <1>4. /\ tree' = InsertRotate(tree, f, g) /\ pc' = pc /\ node' = node /\ UNCHANGED <<live, doomed>>
        /\ node = tree.child[a][f]
    BY <1>1 DEF InsertCase3Left, Grand
  <1> HIDE DEF f, g, a
  <1>5. LinksKept(tree, tree, T)
    BY DEF LinksKept
  <1> HIDE DEF T
  <1>6. Calls /\ Stray(tree, T, doomed) /\ T = InTree
    BY <1>1, InInsertLoop DEF T
  <1> QED
    BY <1>1, <1>2, <1>3, <1>4, <1>5, <1>6, TurnUpKeeps

\* On the right, case 2 is a part of the same iteration (rbtree.h:254-267).
LEMMA InsertCase3RightKeeps == ASSUME RBInv, InsertCase3Right PROVE RBInv'
  <1> DEFINE T == InTree
             f == Father
             g == tree.parent[f]
             a == SideOf(tree, g, f)
  <1>1. /\ pc = "insert_fixup" /\ tree.parent[node] \in tree.red /\ a = "right"
        /\ tree.child["left"][g] \notin tree.red
    BY DEF InsertCase3Right, InsertLoop, IsRed, FatherSide, Grand, Uncle, Father, Other
  <1>2. PICK N, at, pos, b, h : /\ Shape(tree, T, N, at, pos, b) /\ Sorted(N, at)
                                /\ InsertState(tree, T, h, node)
    BY <1>1, InInsertLoop
  <1>3. Kin(tree, T, node, f, g, a)
    BY <1>1, <1>2, KinFacts DEF Father
  <1>4. /\ IF node = tree.child["left"][f]
             THEN tree' = InsertRotate(Revolve(tree, f, a), node, g) /\ node' = f
             ELSE tree' = InsertRotate(tree, f, g) /\ node' = node
        /\ pc' = pc /\ UNCHANGED <<live, doomed>>
    BY <1>1 DEF InsertCase3Right, Grand
  <1>5. f \in tree.red /\ Other(a) = "left" /\ "left" \in Sides /\ "right" \in Sides
    BY <1>1 DEF Father, Other, Sides
  <1>6. node \in {tree.child["left"][f], tree.child["right"][f]}
    BY <1>3 DEF Kin, Sides
  <1>7. Kin(tree, T, node, f, g, "right")
    BY <1>1, <1>3
  <1> HIDE DEF f, g, a
  <1>8. LinksKept(tree, tree, T)
    BY DEF LinksKept
  <1>9. Calls /\ Stray(tree, T, doomed)
    BY <1>1, InInsertLoop
  <1>10. CASE node = tree.child["left"][f]
    <2> DEFINE t == Revolve(tree, f, "right")
    <2>1. /\ Shape(t, T, N, at, pos, Turned(T, pos, b, f, "right", node)) /\ LinksKept(tree, t, T)
          /\ InsertState(t, T, TurnedHeights(h, f, node, Ht(tree, h, f, "right")), f)
          /\ t.red = tree.red /\ t.parent[f] = node /\ t.parent[node] = g
          /\ t.child["right"][node] = f /\ t.child["right"][g] = node
          /\ t.child["left"][g] = tree.child["left"][g]
      BY <1>1, <1>2, <1>5, <1>7, <1>10, InsertTurnsOut
    <2>2. tree' = InsertRotate(t, node, g) /\ node' = f
      BY <1>1, <1>4, <1>10
    <2> HIDE DEF t
    <2>3. t.parent[f] \in t.red
      BY <1>2, <2>1 DEF InsertState
    <2>4. Kin(t, T, f, node, g, SideOf(t, g, node))
      BY <2>1, <2>3, KinFacts
    <2>5. SideOf(t, g, node) = "right"
      <3>1. /\ ChildFacts(t, T, g, "right") /\ node # 0
        <4>1. g \in T /\ node \in T
          BY <1>2, <1>3 DEF Kin, InsertState
        <4> QED
          BY <1>2, <1>5, <2>1, <4>1, Neighbors
      <3> QED
        BY <2>1, <3>1 DEF ChildFacts
    <2>6. Kin(t, T, f, node, g, "right") /\ t.child[Other("right")][g] \notin t.red
      BY <1>1, <2>1, <2>4, <2>5 DEF Other
    <2> HIDE DEF T
    <2>7. T = InTree
      BY DEF T
    <2>8. /\ pc = "insert_fixup" /\ pc' = pc /\ UNCHANGED <<live, doomed>> /\ f = t.child["right"][node]
      BY <1>1, <1>4, <2>1
    <2>9. /\ Shape(t, T, N, at, pos, Turned(T, pos, b, f, "right", node)) /\ Sorted(N, at) /\ LinksKept(tree, t, T)
          /\ InsertState(t, T, TurnedHeights(h, f, node, Ht(tree, h, f, "right")), f)
      BY <1>2, <2>1
    <2> QED
      BY <1>9, <2>2, <2>3, <2>6, <2>7, <2>8, <2>9, TurnUpKeeps
  <1>11. CASE node # tree.child["left"][f]
    <2>1. tree' = InsertRotate(tree, f, g) /\ node' = node /\ node = tree.child["right"][f]
      BY <1>4, <1>6, <1>11
    <2>2. tree.child[Other("right")][g] \notin tree.red
      BY <1>1 DEF Other
    <2> HIDE DEF T
    <2>3. T = InTree
      BY DEF T
    <2> QED
      BY <1>1, <1>2, <1>4, <1>7, <1>8, <1>9, <2>1, <2>2, <2>3, TurnUpKeeps
  <1> QED
    BY <1>10, <1>11

\* After the loop the root is painted black.
LEMMA InsertDoneKeeps == ASSUME RBInv, InsertDone PROVE RBInv'
  <1> DEFINE T == InTree
  <1>1. /\ pc = "insert_fixup" /\ tree.parent[node] \notin tree.red /\ tree' = SetBlack(tree, tree.root)
        /\ pc' = "idle" /\ UNCHANGED <<live, doomed>>
    BY DEF InsertDone, IsRed, Father
  <1>2. PICK N, at, pos, b, h : /\ Shape(tree, T, N, at, pos, b) /\ Sorted(N, at)
                                /\ InsertState(tree, T, h, node)
    BY <1>1, InInsertLoop
  <1>3. /\ Shape(tree', T, N, at, pos, b) /\ \E h2 : Balanced(tree', T, h2, 0, "left")
        /\ RedBut(tree', T, {})
    BY <1>1, <1>2, InsertEnds
  <1>4. LinksKept(tree, tree', T)
    <2>1. tree \in Trees /\ tree.root \in Pointers
      BY <1>2 DEF Shape, Trees
    <2> QED
      BY <1>1, <2>1, PaintKeeps
  <1>5. \E h2, hs : Phase(tree', T, h2, hs, pc', node', parent')
    BY <1>1, <1>3 DEF Phase
  <1> HIDE DEF T
  <1>6. Calls /\ Stray(tree, T, doomed) /\ T = InTree
    BY <1>1, InInsertLoop DEF T
  <1> QED
    BY <1>1, <1>2, <1>3, <1>4, <1>5, <1>6, LoopKeeps

\* The node of erase_fixup's loop hangs on the side that the code computes.
LEMMA EraseSide ==
  ASSUME NEW T, NEW N, NEW at, NEW pos, NEW b, Shape(tree, T, N, at, pos, b),
         NEW h, NEW hs, EraseState(tree, T, h, parent, hs, node), EraseLoop
  PROVE  /\ EraseGoesOn(tree, T, h, parent, hs, node) /\ Side = hs
         /\ Sibling = tree.child[Other(hs)][parent]
         /\ Near = tree.child[hs][Sibling] /\ Far = tree.child[Other(hs)][Sibling]
  <1>1. EraseGoesOn(tree, T, h, parent, hs, node)
    BY DEF EraseGoesOn, EraseLoop, IsRed
  <1>2. SiblingFacts(tree, T, h, parent, hs, node, tree.child[Other(hs)][parent], Other(hs))
    BY <1>1, SiblingIsThere
  <1>3. Side = hs
    BY <1>2, NodeFacts DEF SiblingFacts, Side, SideOf, Sides, Other
  <1> QED
    BY <1>1, <1>3 DEF Sibling, Near, Far

\* An iteration of erase_fixup keeps the invariant when the loop goes on, and when it ends.
LEMMA EraseGoesOnKeeps ==
  ASSUME NEW T, T = InTree, pc = "erase_fixup", pc' = pc, UNCHANGED <<live, doomed>>,
         Calls, Stray(tree, T, doomed), LinksKept(tree, tree', T),
         NEW N, NEW at, NEW pos, NEW b, Shape(tree', T, N, at, pos, b), Sorted(N, at),
         \E h, hs : EraseState(tree', T, h, parent', hs, node')
  PROVE  RBInv'
  <1>1. \E h, hs : Phase(tree', T, h, hs, pc', node', parent')
    BY DEF Phase
  <1> QED
    BY <1>1, LoopKeeps

\* The same for the iteration that ends the loop.
LEMMA EraseEndKeeps ==
  ASSUME NEW T, T = InTree, pc = "erase_fixup", pc' = "delete", UNCHANGED <<live, doomed>>,
         Calls, Stray(tree, T, doomed), LinksKept(tree, tree', T),
         NEW N, NEW at, NEW pos, NEW b, Shape(tree', T, N, at, pos, b), Sorted(N, at),
         \E h : Balanced(tree', T, h, 0, "left"), RedBut(tree', T, {})
  PROVE  RBInv'
  <1>1. \E h, hs : Phase(tree', T, h, hs, pc', node', parent')
    BY DEF Phase
  <1> QED
    BY <1>1, LoopKeeps

\* The red sibling is turned up, and the loop goes on (rbtree.h:332-340, 372-379).
LEMMA EraseCase1Keeps == ASSUME RBInv, EraseCase1 PROVE RBInv'
  <1> DEFINE T == InTree
  <1>1. pc = "erase_fixup" /\ EraseLoop /\ Sibling \in tree.red
    BY DEF EraseCase1, EraseLoop, IsRed
  <1>2. PICK N, at, pos, b, h, hs : /\ Shape(tree, T, N, at, pos, b) /\ Sorted(N, at)
                                    /\ EraseState(tree, T, h, parent, hs, node)
    BY <1>1, InEraseLoop
  <1>3. /\ EraseGoesOn(tree, T, h, parent, hs, node) /\ Side = hs
        /\ Sibling = tree.child[Other(hs)][parent]
    BY <1>1, <1>2, EraseSide
  <1>4. /\ tree' = Revolve(SetRed(SetBlack(tree, Sibling), parent), parent, hs)
        /\ UNCHANGED <<pc, live, doomed, node, parent>>
    BY <1>3 DEF EraseCase1
  <1>5. /\ Shape(tree', T, N, at, pos, Turned(T, pos, b, parent, hs, Sibling))
        /\ \E h2 : EraseState(tree', T, h2, parent, hs, node)
        /\ LinksKept(tree, tree', T)
    BY <1>1, <1>2, <1>3, <1>4, EraseTurnsSibling
  <1> HIDE DEF T
  <1>6. Calls /\ Stray(tree, T, doomed) /\ T = InTree
    BY <1>1, InEraseLoop DEF T
  <1> QED
    BY <1>1, <1>2, <1>4, <1>5, <1>6, EraseGoesOnKeeps

\* The sibling is painted red, and the loop goes on with the parent (rbtree.h:342-349, 381-387).
LEMMA EraseCase2Keeps == ASSUME RBInv, EraseCase2 PROVE RBInv'
  <1> DEFINE T == InTree
  <1>1. pc = "erase_fixup" /\ EraseLoop /\ Sibling \notin tree.red /\ Near \notin tree.red /\ Far \notin tree.red
    BY DEF EraseCase2, EraseLoop, IsRed
  <1>2. PICK N, at, pos, b, h, hs : /\ Shape(tree, T, N, at, pos, b) /\ Sorted(N, at)
                                    /\ EraseState(tree, T, h, parent, hs, node)
    BY <1>1, InEraseLoop
  <1>3. /\ EraseGoesOn(tree, T, h, parent, hs, node) /\ Side = hs
        /\ Sibling = tree.child[Other(hs)][parent]
        /\ tree.child[hs][Sibling] \notin tree.red /\ tree.child[Other(hs)][Sibling] \notin tree.red
    BY <1>1, <1>2, EraseSide
  <1>4. /\ tree' = SetRed(tree, Sibling) /\ node' = parent /\ parent' = tree.parent[parent]
        /\ UNCHANGED <<pc, live, doomed>>
    BY DEF EraseCase2
  <1>5. /\ Shape(tree', T, N, at, pos, b)
        /\ \E h2 : EraseState(tree', T, h2, parent', SideOf(tree, tree.parent[parent], parent), node')
    BY <1>1, <1>2, <1>3, <1>4, ErasePushesUp
  <1>6. LinksKept(tree, tree', T)
    <2>1. tree \in Trees
      BY <1>2 DEF Shape
    <2>2. tree'.parent = tree.parent /\ tree'.child = tree.child
      BY <1>4, <2>1 DEF Trees, SetRed
    <2> QED
      BY <2>2 DEF LinksKept
  <1> HIDE DEF T
  <1>7. Calls /\ Stray(tree, T, doomed) /\ T = InTree
    BY <1>1, InEraseLoop DEF T
  <1> QED
    BY <1>1, <1>2, <1>4, <1>5, <1>6, <1>7, EraseGoesOnKeeps

\* The near child is turned to the far side (rbtree.h:351-358, 389-395).
LEMMA EraseCase3Keeps == ASSUME RBInv, EraseCase3 PROVE RBInv'
  <1> DEFINE T == InTree
  <1>1. pc = "erase_fixup" /\ EraseLoop /\ Sibling \notin tree.red /\ Near \in tree.red /\ Far \notin tree.red
    BY DEF EraseCase3, EraseLoop, IsRed
  <1>2. PICK N, at, pos, b, h, hs : /\ Shape(tree, T, N, at, pos, b) /\ Sorted(N, at)
                                    /\ EraseState(tree, T, h, parent, hs, node)
    BY <1>1, InEraseLoop
  <1>3. /\ EraseGoesOn(tree, T, h, parent, hs, node) /\ Side = hs
        /\ Sibling = tree.child[Other(hs)][parent] /\ Near = tree.child[hs][Sibling]
        /\ tree.child[Other(hs)][Sibling] \notin tree.red
    BY <1>1, <1>2, EraseSide
  <1>4. /\ tree' = Revolve(SetRed(SetBlack(tree, Near), Sibling), Sibling, Other(hs))
        /\ UNCHANGED <<pc, live, doomed, node, parent>>
    BY <1>3 DEF EraseCase3
  <1>5. /\ Shape(tree', T, N, at, pos, Turned(T, pos, b, Sibling, Other(hs), Near))
        /\ \E h2 : EraseState(tree', T, h2, parent, hs, node)
        /\ LinksKept(tree, tree', T)
    <2>1. IsNear(tree, parent, hs, Sibling, Near)
      BY <1>1, <1>3 DEF IsNear
    <2> QED
      BY <1>1, <1>2, <1>3, <1>4, <2>1, EraseTurnsNear
  <1> HIDE DEF T
  <1>6. Calls /\ Stray(tree, T, doomed) /\ T = InTree
    BY <1>1, InEraseLoop DEF T
  <1> QED
    BY <1>1, <1>2, <1>4, <1>5, <1>6, EraseGoesOnKeeps

\* The far child is borrowed, and the loop ends (rbtree.h:360-368, 397-404).
LEMMA EraseCase4Keeps == ASSUME RBInv, EraseCase4 PROVE RBInv'
  <1> DEFINE T == InTree
  <1>1. pc = "erase_fixup" /\ EraseLoop /\ Sibling \notin tree.red /\ Far \in tree.red
    BY DEF EraseCase4, EraseLoop, IsRed
  <1>2. PICK N, at, pos, b, h, hs : /\ Shape(tree, T, N, at, pos, b) /\ Sorted(N, at)
                                    /\ EraseState(tree, T, h, parent, hs, node)
    BY <1>1, InEraseLoop
  <1>3. /\ EraseGoesOn(tree, T, h, parent, hs, node) /\ Side = hs
        /\ Sibling = tree.child[Other(hs)][parent] /\ Far = tree.child[Other(hs)][Sibling]
    BY <1>1, <1>2, EraseSide
  <1> DEFINE u == Revolve(SetBlack(SetBlack(CopyColor(tree, Sibling, parent), parent), Far), parent, hs)
  <1>4. /\ Shape(u, T, N, at, pos, Turned(T, pos, b, parent, hs, Sibling))
        /\ \E h2 : Balanced(u, T, h2, 0, "left")
        /\ RedBut(u, T, {}) /\ node \notin u.red /\ LinksKept(tree, u, T)
    BY <1>1, <1>2, <1>3, EraseBorrows
  <1>5. tree' = Blacken(u) /\ pc' = "delete" /\ UNCHANGED <<live, doomed, node, parent>>
    BY <1>3 DEF EraseCase4
  <1> HIDE DEF u
  <1>6. tree' = u
    <2>1. u \in Trees
      BY <1>4 DEF Shape
    <2>2. SetBlack(u, node) = u
      <3>1. u.red \ {node} = u.red
        BY <1>4
      <3> QED
        BY <2>1, <3>1 DEF SetBlack, Trees
    <2> QED
      BY <1>5, <2>2 DEF Blacken
  <1> HIDE DEF T
  <1>7. Calls /\ Stray(tree, T, doomed) /\ T = InTree
    BY <1>1, InEraseLoop DEF T
  <1> QED
    BY <1>1, <1>2, <1>4, <1>5, <1>6, <1>7, EraseEndKeeps

\* The end of the loop paints the node black (rbtree.h:407-410).
LEMMA EraseDoneKeeps == ASSUME RBInv, EraseDone PROVE RBInv'
  <1> DEFINE T == InTree
  <1>1. pc = "erase_fixup" /\ (node = tree.root \/ node \in tree.red)
    BY DEF EraseDone, IsRed
  <1>2. PICK N, at, pos, b, h, hs : /\ Shape(tree, T, N, at, pos, b) /\ Sorted(N, at)
                                    /\ EraseState(tree, T, h, parent, hs, node)
    BY <1>1, InEraseLoop
  <1> DEFINE u == SetBlack(tree, node)
  <1>3. /\ node # 0 /\ Shape(u, T, N, at, pos, b) /\ \E h2 : Balanced(u, T, h2, 0, "left")
        /\ RedBut(u, T, {})
    BY <1>1, <1>2, EraseEnds
  <1>4. tree' = u /\ pc' = "delete" /\ UNCHANGED <<live, doomed, node, parent>>
    BY <1>3 DEF EraseDone, Blacken, nullptr
  <1>5. LinksKept(tree, u, T)
    <2>1. tree \in Trees /\ node \in Pointers
      <3>1. tree \in Trees /\ T \subseteq Nodes /\ node \in T \cup {0}
        BY <1>2 DEF Shape, Numbered, EraseState
      <3> QED
        BY <3>1, NodeFacts
    <2> QED
      BY <2>1, PaintKeeps
  <1> HIDE DEF T, u
  <1>6. Calls /\ Stray(tree, T, doomed) /\ T = InTree
    BY <1>1, InEraseLoop DEF T
  <1> QED
    BY <1>1, <1>2, <1>3, <1>4, <1>5, <1>6, EraseEndKeeps

\* The deleted node was out of the tree already.
LEMMA DeleteKeeps == ASSUME RBInv, Delete PROVE RBInv'
  <1> DEFINE T == InTree
  <1>1. pc = "delete" /\ Calls /\ Stray(tree, T, doomed) /\ doomed \in Nodes /\ doomed \notin T /\ doomed \in live
    BY DEF Delete, RBInv, Calls, InTree
  <1>2. PICK N, at, pos, b, h : /\ Shape(tree, T, N, at, pos, b) /\ Sorted(N, at)
                                /\ Balanced(tree, T, h, 0, "left") /\ RedBut(tree, T, {})
    BY <1>1 DEF RBInv, Red, Phase
  <1>3. tree \in Trees /\ T \subseteq Nodes /\ 0 \in Pointers
    BY <1>2, NodeFacts DEF Shape, Numbered
  <1>4. /\ live' = live \ {doomed} /\ pc' = "idle" /\ doomed' = 0
        /\ tree' = [tree EXCEPT !.red = @ \ {doomed}, !.parent[doomed] = 0,
                                !.child["left"][doomed] = 0, !.child["right"][doomed] = 0]
    BY DEF Delete, nullptr
  <1>5. InTree' = T
    BY <1>1, <1>4, NodeFacts DEF InTree, Calls
  <1>6. /\ tree' \in Trees /\ tree'.root = tree.root /\ tree'.red = tree.red \ {doomed}
        /\ \A n \in Nodes : tree'.parent[n] = IF n = doomed THEN 0 ELSE tree.parent[n]
        /\ \A s \in Sides : \A n \in Nodes : tree'.child[s][n] = IF n = doomed THEN 0 ELSE tree.child[s][n]
    <2> DEFINE t1 == SetBlack(tree, doomed)
               t2 == SetParent(t1, doomed, 0)
               t3 == SetChild(t2, "left", doomed, 0, "right", doomed, 0)
    <2>1. tree' = t3
      BY <1>1, <1>4, NodeFacts DEF SetBlack, SetParent, SetChild
    <2>2. t1 \in Trees /\ Painted(tree, t1) /\ t1.red = tree.red \ {doomed}
      BY <1>3, SetBlackCells
    <2>5. doomed \in Pointers /\ "left" \in Sides /\ "right" \in Sides /\ Sides = {"left", "right"}
      BY <1>1, NodeFacts
    <2> HIDE DEF t1
    <2>3. ParentSet(t1, doomed, 0, t2)
      BY <1>3, <2>2, <2>5, SetParentCells
    <2> HIDE DEF t2
    <2>6. t2 \in Trees
      BY <2>3 DEF ParentSet
    <2>4. ChildrenSet(t2, "left", doomed, 0, "right", doomed, 0, t3)
      BY <1>1, <1>3, <2>6, <2>5, SetChildCells
    <2> HIDE DEF t3
    <2> QED
      BY <2>1, <2>2, <2>3, <2>4, <2>5 DEF Painted, ParentSet, ChildrenSet
  <1>7. \A n \in T : /\ n # doomed /\ tree'.parent[n] = tree.parent[n]
                     /\ \A s \in Sides : tree'.child[s][n] = tree.child[s][n]
    BY <1>1, <1>3, <1>6
  <1> HIDE DEF T
  <1>8. Shape(tree', T, N, at, pos, b)
    <2>1. Numbered(T, N, at, pos)
      BY <1>2 DEF Shape
    <2>2. Spans(tree', T, N, pos, b)
      BY <1>2, <1>7 DEF Shape, Spans, SpansAt
    <2>3. Hangs(tree', T)
      BY <1>2, <1>6, <1>7 DEF Shape, Hangs
    <2>4. Rooted(tree', T, N, b)
      BY <1>2, <1>6, <1>7 DEF Shape, Rooted
    <2> QED
      BY <1>6, <2>1, <2>2, <2>3, <2>4 DEF Shape
  <1>9. Balanced(tree', T, h, 0, "left")
    BY <1>2, <1>6, <1>7 DEF Balanced, BalancedAt, Ht, Black
  <1>10. RedBut(tree', T, {})
    BY <1>2, <1>6, <1>7 DEF RedBut
  <1>11. Stray(tree', T, 0)
    BY <1>1, <1>6 DEF Stray
  <1>12. Calls'
    BY <1>1, <1>4 DEF Calls
  <1>13. Red(tree', T, N, at, pos, b, h, "left", pc', node', parent')
    BY <1>2, <1>4, <1>8, <1>9, <1>10 DEF Red, Phase
  <1> QED
    BY <1>4, <1>5, <1>11, <1>12, <1>13 DEF RBInv

\* The empty tree.
LEMMA EmptyTree ==
  ASSUME NEW t \in Trees, t.root = 0, \A n \in Nodes : t.parent[n] = 0 /\ \A s \in Sides : t.child[s][n] = 0
  PROVE  /\ \E N, at, pos, b, h, hs : \A nd, pr : Red(t, {}, N, at, pos, b, h, hs, "idle", nd, pr)
         /\ Stray(t, {}, 0)
         /\ \A nd, pr : \E N, at, pos, b, h, hs : Red(t, {}, N, at, pos, b, h, hs, "delete", nd, pr)
  <1> DEFINE e == [x \in {} |-> x]
             b == [s \in Sides |-> e]
  <1>1. 1 .. 0 = {} /\ e \in [1 .. 0 -> {}] /\ e \in [{} -> 1 .. 0] /\ b \in [Sides -> [{} -> 1 .. 0]]
        /\ e \in [{} -> Nat]
    OBVIOUS
  <1> HIDE DEF e, b
  <1>2. Shape(t, {}, 0, e, e, b)
    BY <1>1 DEF Shape, Numbered, Spans, Hangs, Rooted
  <1>3. Sorted(0, e) /\ Balanced(t, {}, e, 0, "left") /\ RedBut(t, {}, {})
    BY <1>1 DEF Sorted, Balanced, RedBut
  <1>4. \A nd, pr : /\ Red(t, {}, 0, e, e, b, e, "left", "idle", nd, pr)
                    /\ Red(t, {}, 0, e, e, b, e, "left", "delete", nd, pr)
    BY <1>2, <1>3 DEF Red, Phase
  <1>5. Stray(t, {}, 0)
    BY NodeFacts DEF Stray
  <1> QED
    BY <1>4, <1>5

\* The invariant holds at the beginning and when the tree was destroyed.
LEMMA InitHolds == ASSUME Init PROVE RBInv
  <1>1. /\ tree.root = 0 /\ \A n \in Nodes : tree.parent[n] = 0 /\ \A s \in Sides : tree.child[s][n] = 0
        /\ tree \in Trees
    BY NodeFacts DEF Init, nullptr, Trees
  <1>2. live = {} /\ pc = "idle" /\ doomed = 0 /\ InTree = {}
    BY NodeFacts DEF Init, InTree
  <1>3. Calls
    BY <1>2 DEF Calls
  <1> QED
    BY <1>1, <1>2, <1>3, EmptyTree DEF RBInv

\* destroy leaves the empty tree (rbtree.h:144-151).
LEMMA DestroyKeeps == ASSUME RBInv, Destroy PROVE RBInv'
  <1>1. tree \in Trees
    BY DEF RBInv, Red, Shape
  <1>2. /\ tree'.root = 0 /\ \A n \in Nodes : tree'.parent[n] = 0 /\ \A s \in Sides : tree'.child[s][n] = 0
        /\ tree' \in Trees
    BY <1>1, NodeFacts DEF Destroy, nullptr, Trees
  <1>3. live' = {} /\ pc' = "idle" /\ doomed' = 0 /\ InTree' = {}
    BY NodeFacts DEF Destroy, RBInv, Calls, InTree
  <1>4. Calls'
    BY <1>3 DEF Calls
  <1> QED
    BY <1>2, <1>3, <1>4, EmptyTree DEF RBInv

-----------------------------------------------------------------------------
(* Loops that follow the pointers come to an end, and what holds of a node *)
(* when it holds of its children, or of its parent, holds of every node.   *)

\* A set of natural numbers has a least one.
LEMMA LeastNatural ==
  ASSUME NEW S \in SUBSET Nat, S # {}
  PROVE  \E n \in S : \A m \in S : n <= m
  <1> DEFINE R == OpToRel(<, Nat)
  <1>1. IsWellFoundedOn(R, Nat)
    BY NatLessThanWellFounded
  <1>2. R = {ss \in Nat \X Nat : ss[1] < ss[2]}
    BY DEF OpToRel
  <1> HIDE DEF R
  <1>3. PICK x \in S : \A y \in S : ~(<<y, x>> \in R)
    BY <1>1, WFMin
  <1>4. ASSUME NEW y \in S PROVE x <= y
    <2>1. <<y, x>> \in Nat \X Nat /\ ~(<<y, x>> \in R)
      BY <1>3
    <2>2. ~(y < x)
      BY <1>2, <2>1
    <2> QED
      BY <2>2
  <1> QED
    BY <1>4

\* The bounded form of induction on natural numbers.
LEMMA BoundedInduction ==
  ASSUME NEW K \in Nat, NEW Good, 0 \in Good,
         \A k \in 0 .. K : k < K /\ k \in Good => k + 1 \in Good
  PROVE  \A k \in 0 .. K : k \in Good
  <1> DEFINE Bad == {k \in 0 .. K : k \notin Good}
  <1> SUFFICES ASSUME Bad # {} PROVE FALSE
    OBVIOUS
  <1>1. PICK k \in Bad : \A j \in Bad : k <= j
    <2>1. Bad \in SUBSET Nat
      OBVIOUS
    <2> HIDE DEF Bad
    <2> QED
      BY <2>1, LeastNatural
  <1>2. k \in 0 .. K /\ k \notin Good /\ k # 0
    BY <1>1
  <1>3. k - 1 \in 0 .. K /\ k - 1 < K /\ ~(k <= k - 1) /\ (k - 1) + 1 = k
    BY <1>2
  <1>4. k - 1 \in Good
    BY <1>1, <1>3
  <1> QED
    BY <1>2, <1>3, <1>4

\* What holds of a node when it holds of its children holds of every node.
LEMMA FromBelow ==
  ASSUME NEW t, NEW T, NEW N, NEW at, NEW pos, NEW b, Shape(t, T, N, at, pos, b), NEW Good,
         \A n \in T : (\A s \in Sides : t.child[s][n] # 0 => t.child[s][n] \in Good) => n \in Good
  PROVE  \A n \in T : n \in Good
  <1> SUFFICES ASSUME NEW bad \in T, bad \notin Good PROVE FALSE
    OBVIOUS
  <1> DEFINE Bad == {n \in T : n \notin Good}
             Ws == {Width(b, n) : n \in Bad}
  <1>1. \A n \in T : /\ Width(b, n) \in Nat
                     /\ \A s \in Sides : t.child[s][n] # 0 => /\ t.child[s][n] \in T
                                                              /\ Width(b, t.child[s][n]) < Width(b, n)
    <2>1. N \in Nat
      BY DEF Shape, Numbered
    <2>2. \A n \in T : \A s \in Sides : t.child[s][n] # 0 => t.child[s][n] \in T
      BY Neighbors DEF ChildFacts
    <2> QED
      BY <2>1, <2>2, ChildWidth
  <1>2. Ws \in SUBSET Nat /\ Ws # {}
    BY <1>1
  <1>3. PICK w \in Ws : \A v \in Ws : w <= v
    <2> HIDE DEF Ws
    <2> QED
      BY <1>2, LeastNatural
  <1>4. PICK n \in Bad : Width(b, n) = w
    BY <1>3
  <1>5. ASSUME NEW s \in Sides, t.child[s][n] # 0 PROVE t.child[s][n] \in Good
    <2> DEFINE c == t.child[s][n]
    <2>1. c \in T /\ Width(b, c) < Width(b, n) /\ Width(b, c) \in Nat /\ Width(b, n) \in Nat
      BY <1>1, <1>5
    <2> HIDE DEF c
    <2>2. c \in Bad => w <= Width(b, c)
      BY <1>3
    <2> HIDE DEF Bad
    <2>3. c \notin Bad
      BY <1>4, <2>1, <2>2
    <2> QED
      BY <2>1, <2>3 DEF Bad, c
  <1> QED
    BY <1>4, <1>5

\* What holds of a node when it holds of its parent holds of every node.
LEMMA FromAbove ==
  ASSUME NEW t, NEW T, NEW N, NEW at, NEW pos, NEW b, Shape(t, T, N, at, pos, b), NEW Good,
         \A n \in T : (t.parent[n] # 0 => t.parent[n] \in Good) => n \in Good
  PROVE  \A n \in T : n \in Good
  <1> SUFFICES ASSUME NEW bad \in T, bad \notin Good PROVE FALSE
    OBVIOUS
  <1> DEFINE Bad == {n \in T : n \notin Good}
             Ws == {N - Width(b, n) : n \in Bad}
  <1>1. \A n \in T : /\ Width(b, n) \in 0 .. N
                     /\ t.parent[n] # 0 => t.parent[n] \in T /\ Width(b, n) < Width(b, t.parent[n])
    <2>1. \A n \in T : t.parent[n] # 0 => t.parent[n] \in T
      BY Neighbors DEF ParentFacts
    <2> QED
      BY <2>1, ChildWidth
  <1>2. N \in Nat
    BY DEF Shape, Numbered
  <1>3. Ws \in SUBSET Nat /\ Ws # {}
    <2>1. \A n \in T : N - Width(b, n) \in Nat
      BY <1>1, <1>2
    <2> QED
      BY <2>1
  <1>4. PICK w \in Ws : \A v \in Ws : w <= v
    <2> HIDE DEF Ws
    <2> QED
      BY <1>3, LeastNatural
  <1>5. PICK n \in Bad : N - Width(b, n) = w
    BY <1>4
  <1>6. ASSUME t.parent[n] # 0 PROVE t.parent[n] \in Good
    <2> DEFINE c == t.parent[n]
    <2>1. c \in T /\ Width(b, n) < Width(b, c) /\ Width(b, c) \in 0 .. N /\ Width(b, n) \in 0 .. N
      BY <1>1, <1>6
    <2> HIDE DEF c
    <2>2. c \in Bad => w <= N - Width(b, c)
      BY <1>4
    <2> HIDE DEF Bad
    <2>3. c \notin Bad
      BY <1>2, <1>5, <2>1, <2>2
    <2> QED
      BY <2>1, <2>3 DEF Bad, c
  <1> QED
    BY <1>5, <1>6

\* A loop that follows next until it stops, while a rank falls.
Falls(S, next, Stop, K, rank) ==
  /\ next \in [S -> S] /\ K \in Nat /\ rank \in [S -> 0 .. K]
  /\ \A x \in S : x \notin Stop => rank[next[x]] < rank[x]

\* Such a loop computes something.
LEMMA DescentExists ==
  ASSUME NEW S, NEW next, NEW Stop, NEW K, NEW rank, Falls(S, next, Stop, K, rank)
  PROVE  \E f : f = [x \in S |-> IF x \in Stop THEN x ELSE f[next[x]]]
  <1>0. /\ next \in [S -> S] /\ K \in Nat /\ rank \in [S -> 0 .. K]
        /\ \A x \in S : x \notin Stop => rank[next[x]] < rank[x]
    BY DEF Falls
  <1> USE <1>0
  <1> DEFINE Holds(f, k) == \A x \in S : rank[x] <= k => f[x] = IF x \in Stop THEN x ELSE f[next[x]]
             Good == {k \in 0 .. K : \E f \in [S -> S] : Holds(f, k)}
             Step(f) == [x \in S |-> IF x \in Stop THEN x ELSE f[next[x]]]
  <1>1. ASSUME NEW k \in 0 .. K, NEW f \in [S -> S], Holds(f, k) PROVE Holds(Step(f), k + 1)
    <2> SUFFICES ASSUME NEW x \in S, rank[x] <= k + 1, x \notin Stop
                 PROVE  Step(f)[x] = Step(f)[next[x]]
      OBVIOUS
    <2>1. next[x] \in S /\ rank[next[x]] <= k
      <3>1. rank[next[x]] < rank[x] /\ rank[next[x]] \in 0 .. K /\ rank[x] \in 0 .. K /\ next[x] \in S
        OBVIOUS
      <3> HIDE DEF Step
      <3> QED
        BY <3>1
    <2>2. Step(f)[x] = f[next[x]]
      OBVIOUS
    <2> DEFINE y == next[x]
    <2>3. f[y] = IF y \in Stop THEN y ELSE f[next[y]]
      BY <1>1, <2>1
    <2>4. Step(f)[y] = IF y \in Stop THEN y ELSE f[next[y]]
      BY <2>1
    <2> QED
      BY <2>2, <2>3, <2>4
  <1>2. 0 \in Good
    <2> DEFINE f == [x \in S |-> x]
    <2>1. \A x \in S : rank[x] <= 0 => x \in Stop
      <3> SUFFICES ASSUME NEW x \in S, rank[x] <= 0, x \notin Stop PROVE FALSE
        OBVIOUS
      <3>1. rank[next[x]] < rank[x] /\ rank[next[x]] \in 0 .. K /\ rank[x] \in 0 .. K
        OBVIOUS
      <3> QED
        BY <3>1
    <2>2. Holds(f, 0) /\ f \in [S -> S] /\ 0 \in 0 .. K
      BY <2>1
    <2> QED
      BY <2>2
  <1>3. ASSUME NEW k \in 0 .. K, k < K, k \in Good PROVE k + 1 \in Good
    <2>1. PICK f \in [S -> S] : Holds(f, k)
      BY <1>3
    <2>2. Holds(Step(f), k + 1)
      BY <1>1, <2>1
    <2>3. Step(f) \in [S -> S] /\ k + 1 \in 0 .. K
      BY <1>3
    <2> HIDE DEF Holds, Step
    <2> QED
      BY <2>2, <2>3
  <1> HIDE DEF Good
  <1>4. K \in Good
    <2>1. \A k \in 0 .. K : k \in Good
      BY <1>2, <1>3, BoundedInduction
    <2> QED
      BY <2>1
  <1>5. PICK f \in [S -> S] : Holds(f, K)
    BY <1>4 DEF Good
  <1>6. \A x \in S : rank[x] <= K
    OBVIOUS
  <1>7. f = [x \in S |-> IF x \in Stop THEN x ELSE f[next[x]]]
    BY <1>5, <1>6
  <1> QED
    BY <1>7

\* The same for a loop that collects the nodes it meets.
LEMMA ClimbExists ==
  ASSUME NEW S, NEW next, NEW Stop, NEW K, NEW rank, Falls(S, next, Stop, K, rank)
  PROVE  \E f : f = [x \in S |-> IF x \in Stop THEN {} ELSE {x} \cup f[next[x]]]
  <1>0. /\ next \in [S -> S] /\ K \in Nat /\ rank \in [S -> 0 .. K]
        /\ \A x \in S : x \notin Stop => rank[next[x]] < rank[x]
    BY DEF Falls
  <1> USE <1>0
  <1> DEFINE Holds(f, k) == \A x \in S : rank[x] <= k => f[x] = IF x \in Stop THEN {} ELSE {x} \cup f[next[x]]
             X == SUBSET S
             Good == {k \in 0 .. K : \E f \in [S -> X] : Holds(f, k)}
             Step(f) == [x \in S |-> IF x \in Stop THEN {} ELSE {x} \cup f[next[x]]]
  <1>1. ASSUME NEW k \in 0 .. K, NEW f \in [S -> X], Holds(f, k) PROVE Holds(Step(f), k + 1)
    <2> SUFFICES ASSUME NEW x \in S, rank[x] <= k + 1, x \notin Stop
                 PROVE  Step(f)[x] = {x} \cup Step(f)[next[x]]
      OBVIOUS
    <2>1. next[x] \in S /\ rank[next[x]] <= k
      <3>1. rank[next[x]] < rank[x] /\ rank[next[x]] \in 0 .. K /\ rank[x] \in 0 .. K /\ next[x] \in S
        OBVIOUS
      <3> HIDE DEF Step
      <3> QED
        BY <3>1
    <2>2. Step(f)[x] = {x} \cup f[next[x]]
      OBVIOUS
    <2> DEFINE y == next[x]
    <2>3. f[y] = IF y \in Stop THEN {} ELSE {y} \cup f[next[y]]
      BY <1>1, <2>1
    <2>4. Step(f)[y] = IF y \in Stop THEN {} ELSE {y} \cup f[next[y]]
      BY <2>1
    <2> QED
      BY <2>2, <2>3, <2>4
  <1>2. 0 \in Good
    <2> DEFINE f == [x \in S |-> {}]
    <2>1. \A x \in S : rank[x] <= 0 => x \in Stop
      <3> SUFFICES ASSUME NEW x \in S, rank[x] <= 0, x \notin Stop PROVE FALSE
        OBVIOUS
      <3>1. rank[next[x]] < rank[x] /\ rank[next[x]] \in 0 .. K /\ rank[x] \in 0 .. K
        OBVIOUS
      <3> QED
        BY <3>1
    <2>2. Holds(f, 0) /\ f \in [S -> X] /\ 0 \in 0 .. K
      BY <2>1
    <2> QED
      BY <2>2
  <1>3. ASSUME NEW k \in 0 .. K, k < K, k \in Good PROVE k + 1 \in Good
    <2>1. PICK f \in [S -> X] : Holds(f, k)
      BY <1>3
    <2>3. Step(f) \in [S -> X] /\ k + 1 \in 0 .. K
      BY <1>3
    <2> HIDE DEF Holds, Step, X
    <2>2. Holds(Step(f), k + 1)
      BY <1>1, <2>1
    <2> QED
      BY <2>2, <2>3
  <1> HIDE DEF Good
  <1>4. K \in Good
    <2>1. \A k \in 0 .. K : k \in Good
      BY <1>2, <1>3, BoundedInduction
    <2> QED
      BY <2>1
  <1>5. PICK f \in [S -> X] : Holds(f, K)
    BY <1>4 DEF Good
  <1>6. \A x \in S : rank[x] <= K
    OBVIOUS
  <1>7. f = [x \in S |-> IF x \in Stop THEN {} ELSE {x} \cup f[next[x]]]
    BY <1>5, <1>6
  <1> QED
    BY <1>7

\* Values can be compared.
LEMMA ValueFacts == \A n \in Nodes : Value(n) \in Int
  BY RBTreeAssumption DEF Nodes, Value

\* A step to a child leads to a smaller subtree, and one to the parent to a larger one;
\* a node outside the tree is left for one in the tree.
DownRank(t, K, rank) ==
  /\ K \in Nat /\ rank \in [Pointers -> 0 .. K] /\ rank[0] = 0
  /\ \A n \in Nodes : \A s \in Sides : t.child[s][n] \in Pointers /\ rank[t.child[s][n]] < rank[n]

\* The same for the parent pointers.
UpRank(t, K, rank) ==
  /\ K \in Nat /\ rank \in [Pointers -> 0 .. K] /\ rank[0] = 0
  /\ \A n \in Nodes : t.parent[n] \in Pointers /\ rank[t.parent[n]] < rank[n]

\* Every loop that follows child or parent pointers comes to an end.
LEMMA Ranks ==
  ASSUME NEW t, NEW T, NEW N, NEW at, NEW pos, NEW b, Shape(t, T, N, at, pos, b),
         NEW d, Stray(t, T, d)
  PROVE  /\ \E K, rank : DownRank(t, K, rank)
         /\ \E K, rank : UpRank(t, K, rank)
  <1>1. /\ T \subseteq Nodes /\ N \in Nat /\ 0 \notin T /\ t \in Trees /\ 0 \notin Nodes
        /\ Pointers = Nodes \cup {0}
    BY NodeFacts DEF Shape, Numbered
  <1>2. \A n \in T : /\ Width(b, n) \in 0 .. N
                     /\ \A s \in Sides : t.child[s][n] # 0 =>
                          t.child[s][n] \in T /\ Width(b, t.child[s][n]) < Width(b, n)
                     /\ t.parent[n] # 0 => t.parent[n] \in T /\ Width(b, n) < Width(b, t.parent[n])
    <2>1. \A n \in T : /\ \A s \in Sides : t.child[s][n] # 0 => t.child[s][n] \in T
                       /\ t.parent[n] # 0 => t.parent[n] \in T
      BY Neighbors DEF ChildFacts, ParentFacts
    <2> QED
      BY <2>1, ChildWidth
  <1>3. \A n \in Nodes \ T : t.parent[n] \in T \cup {0} /\ \A s \in Sides : t.child[s][n] \in T \cup {0}
    BY DEF Stray
  <1>4. \A n \in Nodes : t.parent[n] \in Pointers /\ \A s \in Sides : t.child[s][n] \in Pointers
    BY <1>1 DEF Trees
  <1> DEFINE w == [x \in T |-> Width(b, x)]
             down == [x \in Pointers |-> IF x = 0 THEN 0 ELSE IF x \in T THEN w[x] + 1 ELSE N + 2]
             up == [x \in Pointers |-> IF x = 0 THEN 0 ELSE IF x \in T THEN N + 1 - w[x] ELSE N + 2]
  <1>5. /\ w \in [T -> 0 .. N]
        /\ \A n \in T : /\ \A s \in Sides : t.child[s][n] # 0 => t.child[s][n] \in T /\ w[t.child[s][n]] < w[n]
                        /\ t.parent[n] # 0 => t.parent[n] \in T /\ w[n] < w[t.parent[n]]
    BY <1>2
  <1> HIDE DEF w
  <1>6. \A n \in T : w[n] \in Nat /\ w[n] <= N /\ w[n] + 1 \in 0 .. N + 2 /\ N + 1 - w[n] \in 0 .. N + 2
                     /\ N + 1 - w[n] > 0
    BY <1>1, <1>5
  <1>7. down \in [Pointers -> 0 .. N + 2] /\ up \in [Pointers -> 0 .. N + 2] /\ N + 2 \in Nat
        /\ down[0] = 0 /\ up[0] = 0
    BY <1>1, <1>6
  <1>8. ASSUME NEW n \in Nodes, NEW s \in Sides PROVE down[t.child[s][n]] < down[n]
    <2> DEFINE c == t.child[s][n]
    <2>1. c \in Pointers /\ n # 0 /\ n \in Pointers
      BY <1>1, <1>4
    <2>2. n \in T => c = 0 \/ (c \in T /\ w[c] < w[n])
      BY <1>5
    <2>3. n \notin T => c \in T \cup {0}
      BY <1>3
    <2> HIDE DEF c
    <2>4. CASE c = 0
      BY <1>1, <1>6, <2>1, <2>4 DEF c
    <2>5. CASE c # 0
      <3>1. c \in T /\ down[c] = w[c] + 1
        BY <1>1, <2>1, <2>2, <2>3, <2>5
      <3>2. down[n] = IF n \in T THEN w[n] + 1 ELSE N + 2
        BY <2>1
      <3> HIDE DEF down
      <3> QED
        BY <1>1, <1>6, <2>2, <3>1, <3>2 DEF c
    <2> QED
      BY <2>4, <2>5
  <1>9. ASSUME NEW n \in Nodes PROVE up[t.parent[n]] < up[n]
    <2> DEFINE c == t.parent[n]
    <2>1. c \in Pointers /\ n # 0 /\ n \in Pointers
      BY <1>1, <1>4
    <2>2. n \in T => c = 0 \/ (c \in T /\ w[n] < w[c])
      BY <1>5
    <2>3. n \notin T => c \in T \cup {0}
      BY <1>3
    <2> HIDE DEF c
    <2>4. CASE c = 0
      BY <1>1, <1>6, <2>1, <2>4 DEF c
    <2>5. CASE c # 0
      <3>1. c \in T /\ up[c] = N + 1 - w[c]
        BY <1>1, <2>1, <2>2, <2>3, <2>5
      <3>2. up[n] = IF n \in T THEN N + 1 - w[n] ELSE N + 2
        BY <2>1
      <3> HIDE DEF up
      <3> QED
        BY <1>1, <1>6, <2>2, <3>1, <3>2 DEF c
    <2> QED
      BY <2>4, <2>5
  <1> HIDE DEF down, up
  <1>10. DownRank(t, N + 2, down)
    BY <1>4, <1>7, <1>8 DEF DownRank
  <1>11. UpRank(t, N + 2, up)
    BY <1>4, <1>7, <1>9 DEF UpRank
  <1> QED
    BY <1>10, <1>11

\* The loop that goes down to the last node there is in the direction dir.
IsWalkDown(f, t, dir) ==
  f = [x \in Nodes |-> LET next == t.child[dir[x]][x] IN IF next = 0 THEN x ELSE f[next]]

\* It computes something.
LEMMA WalkDownExists ==
  ASSUME NEW t, NEW T, NEW N, NEW at, NEW pos, NEW b, Shape(t, T, N, at, pos, b),
         NEW d, Stray(t, T, d), NEW dir \in [Nodes -> Sides]
  PROVE  \E f : IsWalkDown(f, t, dir)
  <1>1. PICK K, rank : DownRank(t, K, rank)
    BY Ranks
  <1> DEFINE next == [x \in Nodes |-> IF t.child[dir[x]][x] = 0 THEN x ELSE t.child[dir[x]][x]]
             Stop == {x \in Nodes : t.child[dir[x]][x] = 0}
             r == [x \in Nodes |-> rank[x]]
  <1>2. K \in Nat /\ r \in [Nodes -> 0 .. K]
    BY <1>1, NodeFacts DEF DownRank
  <1>3. next \in [Nodes -> Nodes]
    BY <1>1, NodeFacts DEF DownRank
  <1>4. \A x \in Nodes : x \notin Stop => r[next[x]] < r[x]
    BY <1>1, NodeFacts DEF DownRank
  <1>7. \A x \in Nodes : /\ (x \in Stop) = (t.child[dir[x]][x] = 0)
                         /\ t.child[dir[x]][x] # 0 => next[x] = t.child[dir[x]][x]
    OBVIOUS
  <1> HIDE DEF next, Stop, r
  <1>8. Falls(Nodes, next, Stop, K, r)
    BY <1>2, <1>3, <1>4 DEF Falls
  <1>5. PICK f : f = [x \in Nodes |-> IF x \in Stop THEN x ELSE f[next[x]]]
    BY <1>8, DescentExists
  <1>6. IsWalkDown(f, t, dir)
    <2>1. DOMAIN f = Nodes /\ \A x \in Nodes : f[x] = IF x \in Stop THEN x ELSE f[next[x]]
      BY <1>5
    <2>2. f = [x \in Nodes |-> f[x]]
      BY <1>5
    <2>3. \A x \in Nodes : f[x] = IF t.child[dir[x]][x] = 0 THEN x ELSE f[t.child[dir[x]][x]]
      BY <2>1, <1>7
    <2> QED
      BY <2>2, <2>3 DEF IsWalkDown
  <1> QED
    BY <1>6

\* The loop that stops at a node of Stop, or at the null pointer.
IsWalkTo(f, t, dir, Stop) ==
  f = [x \in Pointers |-> IF x = 0 \/ x \in Stop THEN x ELSE f[t.child[dir[x]][x]]]

\* It computes something.
LEMMA WalkToExists ==
  ASSUME NEW t, NEW T, NEW N, NEW at, NEW pos, NEW b, Shape(t, T, N, at, pos, b),
         NEW d, Stray(t, T, d), NEW dir \in [Nodes -> Sides], NEW Stop
  PROVE  \E f : IsWalkTo(f, t, dir, Stop)
  <1>1. PICK K, rank : DownRank(t, K, rank)
    BY Ranks
  <1> DEFINE next == [x \in Pointers |-> IF x = 0 THEN 0 ELSE t.child[dir[x]][x]]
             St == {x \in Pointers : x = 0 \/ x \in Stop}
  <1>2. K \in Nat /\ rank \in [Pointers -> 0 .. K]
    BY <1>1 DEF DownRank
  <1>3. next \in [Pointers -> Pointers]
    BY <1>1, NodeFacts DEF DownRank
  <1>4. \A x \in Pointers : x \notin St => rank[next[x]] < rank[x]
    BY <1>1, NodeFacts DEF DownRank
  <1>7. \A x \in Pointers : /\ (x \in St) = (x = 0 \/ x \in Stop)
                            /\ x # 0 => next[x] = t.child[dir[x]][x]
    OBVIOUS
  <1> HIDE DEF next, St
  <1>8. Falls(Pointers, next, St, K, rank)
    BY <1>2, <1>3, <1>4 DEF Falls
  <1>5. PICK f : f = [x \in Pointers |-> IF x \in St THEN x ELSE f[next[x]]]
    BY <1>8, DescentExists
  <1>6. IsWalkTo(f, t, dir, Stop)
    <2>1. \A x \in Pointers : f[x] = IF x \in St THEN x ELSE f[next[x]]
      BY <1>5
    <2>2. f = [x \in Pointers |-> f[x]]
      BY <1>5
    <2>3. \A x \in Pointers : f[x] = IF x = 0 \/ x \in Stop THEN x ELSE f[t.child[dir[x]][x]]
      BY <2>1, <1>7
    <2> QED
      BY <2>2, <2>3 DEF IsWalkTo
  <1> QED
    BY <1>6

\* The loop that collects the nodes on the way up.
IsClimb(f, t) == f = [x \in Pointers |-> IF x = 0 THEN {} ELSE {x} \cup f[t.parent[x]]]

\* It computes something.
LEMMA ClimbingExists ==
  ASSUME NEW t, NEW T, NEW N, NEW at, NEW pos, NEW b, Shape(t, T, N, at, pos, b),
         NEW d, Stray(t, T, d)
  PROVE  \E f : IsClimb(f, t)
  <1>1. PICK K, rank : UpRank(t, K, rank)
    BY Ranks
  <1> DEFINE next == [x \in Pointers |-> IF x = 0 THEN 0 ELSE t.parent[x]]
             St == {0}
  <1>2. K \in Nat /\ rank \in [Pointers -> 0 .. K]
    BY <1>1 DEF UpRank
  <1>3. next \in [Pointers -> Pointers]
    BY <1>1, NodeFacts DEF UpRank
  <1>4. \A x \in Pointers : x \notin St => rank[next[x]] < rank[x]
    BY <1>1, NodeFacts DEF UpRank
  <1>7. \A x \in Pointers : x # 0 => next[x] = t.parent[x]
    OBVIOUS
  <1> HIDE DEF next
  <1>8. Falls(Pointers, next, St, K, rank)
    BY <1>2, <1>3, <1>4 DEF Falls
  <1>5. PICK f : f = [x \in Pointers |-> IF x \in St THEN {} ELSE {x} \cup f[next[x]]]
    BY <1>8, ClimbExists
  <1>6. IsClimb(f, t)
    <2>1. \A x \in Pointers : f[x] = IF x \in St THEN {} ELSE {x} \cup f[next[x]]
      BY <1>5
    <2>2. f = [x \in Pointers |-> f[x]]
      BY <1>5
    <2>3. \A x \in Pointers : f[x] = IF x = 0 THEN {} ELSE {x} \cup f[t.parent[x]]
      BY <2>1, <1>7
    <2> QED
      BY <2>2, <2>3 DEF IsClimb
  <1> QED
    BY <1>6

-----------------------------------------------------------------------------
(* What the searches find. *)

\* The shape in numbers.
LEMMA ShapeFacts ==
  ASSUME NEW t, NEW T, NEW N, NEW at, NEW pos, NEW b, Shape(t, T, N, at, pos, b)
  PROVE  /\ N \in Nat /\ T \subseteq Nodes /\ t \in Trees
         /\ at \in [1 .. N -> T] /\ pos \in [T -> 1 .. N]
         /\ \A n \in T : at[pos[n]] = n
         /\ \A i \in 1 .. N : pos[at[i]] = i
         /\ \A n \in T : /\ n \in Nodes /\ n # 0 /\ pos[n] \in 1 .. N /\ b["left"][n] \in 1 .. N /\ b["right"][n] \in 1 .. N
                         /\ b["left"][n] <= pos[n] /\ pos[n] <= b["right"][n]
                         /\ \A s \in Sides : /\ SpansAt(t, T, pos, b, n, s)
                                             /\ t.child[s][n] # 0 => t.child[s][n] \in T
                         /\ t.parent[n] # 0 => t.parent[n] \in T
  <1>1. \A n \in T : n # 0 /\ (t.parent[n] # 0 => t.parent[n] \in T)
    BY Neighbors DEF ParentFacts
  <1>2. \A n \in T : n \in Nodes /\ \A s \in Sides : t.child[s][n] # 0 => t.child[s][n] \in T
    BY Neighbors DEF ChildFacts
  <1>3. "left" \in Sides /\ "right" \in Sides
    BY DEF Sides
  <1>4. /\ N \in Nat /\ T \subseteq Nodes /\ t \in Trees
        /\ at \in [1 .. N -> T] /\ pos \in [T -> 1 .. N]
        /\ \A n \in T : at[pos[n]] = n
        /\ \A i \in 1 .. N : pos[at[i]] = i
    BY DEF Shape, Numbered
  <1>5. /\ b \in [Sides -> [T -> 1 .. N]]
        /\ \A n \in T : /\ b["left"][n] <= pos[n] /\ pos[n] <= b["right"][n]
                        /\ \A s \in Sides : SpansAt(t, T, pos, b, n, s)
    BY DEF Shape, Spans
  <1>6. \A n \in T : b["left"][n] \in 1 .. N /\ b["right"][n] \in 1 .. N /\ pos[n] \in 1 .. N
    BY <1>3, <1>4, <1>5
  <1> QED
    BY <1>1, <1>2, <1>4, <1>5, <1>6

\* The position at which a node would be that is put under y on the side s.
Gap(pos, s, y) == IF s = "left" THEN pos[y] ELSE pos[y] + 1

\* The value v fits before position i, as far as the positions from lo to hi tell.
Fits(N, at, v, i, lo, hi) ==
  \A j \in 1 .. N : /\ lo <= j /\ j < i => Value(at[j]) <= v
                    /\ i <= j /\ j <= hi => v <= Value(at[j])

\* Where the search from x for the place of v comes to.
Lands(t, T, N, at, pos, b, v, dir, x, y) ==
  /\ y \in T /\ t.child[dir[y]][y] = 0
  /\ b["left"][x] <= Gap(pos, dir[y], y) /\ Gap(pos, dir[y], y) <= b["right"][x] + 1
  /\ Fits(N, at, v, Gap(pos, dir[y], y), b["left"][x], b["right"][x])

\* It comes to a place where the value fits (rbtree.h:277-302).
LEMMA InsertLands ==
  ASSUME NEW t, NEW T, NEW N, NEW at, NEW pos, NEW b, Shape(t, T, N, at, pos, b), Sorted(N, at),
         NEW v \in Int, NEW dir, dir = [x \in Nodes |-> IF v < Value(x) THEN "left" ELSE "right"],
         NEW f, IsWalkDown(f, t, dir)
  PROVE  \A x \in T : Lands(t, T, N, at, pos, b, v, dir, x, f[x])
  <1> DEFINE Good == {x \in T : Lands(t, T, N, at, pos, b, v, dir, x, f[x])}
  <1>1. ASSUME NEW x \in T, \A s \in Sides : t.child[s][x] # 0 => t.child[s][x] \in Good
        PROVE  Lands(t, T, N, at, pos, b, v, dir, x, f[x])
    <2> DEFINE s == dir[x]
               c == t.child[s][x]
               y == f[x]
               i == Gap(pos, dir[y], y)
               l == b["left"][x]
               r == b["right"][x]
               p == pos[x]
    <2>1. x \in Nodes /\ s \in Sides /\ (s = "left") = (v < Value(x)) /\ (s # "left" => s = "right") /\ Value(x) \in Int
      BY ShapeFacts, ValueFacts DEF Sides
    <2>2. f[x] = IF c = 0 THEN x ELSE f[c]
      BY <2>1 DEF IsWalkDown
    <2>3. /\ l \in 1 .. N /\ r \in 1 .. N /\ p \in 1 .. N /\ l <= p /\ p <= r /\ N \in Nat
          /\ SpansAt(t, T, pos, b, x, s) /\ at[p] = x
      BY <2>1, ShapeFacts
    <2>4. \A j \in 1 .. N : /\ at[j] \in Nodes /\ Value(at[j]) \in Int
                            /\ j <= p => Value(at[j]) <= Value(x)
                            /\ p <= j => Value(x) <= Value(at[j])
      <3>1. \A j \in 1 .. N : at[j] \in Nodes
        <4>1. at \in [1 .. N -> T] /\ T \subseteq Nodes
          BY ShapeFacts
        <4> HIDE DEF Good
        <4> QED
          BY <4>1
      <3> QED
        BY <2>3, <3>1, ValueFacts DEF Sorted
    <2> HIDE DEF s, l, r, p
    <2>5. CASE c = 0
      <3>1. y = x /\ i = IF s = "left" THEN p ELSE p + 1
        BY <2>2, <2>5 DEF Gap, s, p
      <3>2. IF s = "left" THEN l = p ELSE r = p
        BY <2>1, <2>3, <2>5 DEF SpansAt, l, r, p
      <3> HIDE DEF i, y
      <3>3. l <= i /\ i <= r + 1
        BY <2>3, <3>1, <3>2
      <3>4. Fits(N, at, v, i, l, r)
        <4>1. CASE s = "left"
          <5>1. \A j \in 1 .. N : ~(l <= j /\ j < i)
            BY <2>3, <3>1, <3>2, <4>1
          <5>2. \A j \in 1 .. N : i <= j => v <= Value(at[j])
            <6> SUFFICES ASSUME NEW j \in 1 .. N, i <= j PROVE v <= Value(at[j])
              OBVIOUS
            <6>1. Value(x) <= Value(at[j]) /\ Value(at[j]) \in Int
              BY <2>4, <3>1, <4>1
            <6> QED
              BY <2>1, <4>1, <6>1
          <5> QED
            BY <5>1, <5>2 DEF Fits
        <4>2. CASE s # "left"
          <5>1. \A j \in 1 .. N : ~(i <= j /\ j <= r)
            BY <2>3, <3>1, <3>2, <4>2
          <5>2. \A j \in 1 .. N : j < i => Value(at[j]) <= v
            <6> SUFFICES ASSUME NEW j \in 1 .. N, j < i PROVE Value(at[j]) <= v
              OBVIOUS
            <6>0. j <= p
              BY <2>3, <3>1, <4>2
            <6>1. Value(at[j]) <= Value(x) /\ Value(at[j]) \in Int
              BY <2>4, <6>0
            <6> QED
              BY <2>1, <4>2, <6>1
          <5> QED
            BY <5>1, <5>2 DEF Fits
        <4> QED
          BY <4>1, <4>2
      <3> QED
        BY <2>5, <3>1, <3>3, <3>4 DEF Lands, c, s, i, l, r, y
    <2>6. CASE c # 0
      <3>1. c \in T /\ Lands(t, T, N, at, pos, b, v, dir, c, y)
        BY <1>1, <2>1, <2>2, <2>6
      <3>2. /\ b["left"][c] = IF s = "left" THEN l ELSE p + 1
            /\ b["right"][c] = IF s = "left" THEN p - 1 ELSE r
        BY <2>1, <2>3, <2>6 DEF SpansAt, Beside, Other, l, r, p
      <3>3. /\ y \in T /\ t.child[dir[y]][y] = 0 /\ b["left"][c] <= i /\ i <= b["right"][c] + 1
            /\ Fits(N, at, v, i, b["left"][c], b["right"][c])
        BY <3>1 DEF Lands
      <3>6. i \in Int
        <4>1. pos[y] \in Int
          BY <3>3, ShapeFacts
        <4> QED
          BY <4>1 DEF Gap
      <3> HIDE DEF i, y, c
      <3>4. l <= i /\ i <= r + 1
        BY <2>3, <3>2, <3>3, <3>6
      <3>5. Fits(N, at, v, i, l, r)
        <4> SUFFICES ASSUME NEW j \in 1 .. N
                     PROVE  /\ l <= j /\ j < i => Value(at[j]) <= v
                            /\ i <= j /\ j <= r => v <= Value(at[j])
          BY DEF Fits
        <4>1. /\ b["left"][c] <= j /\ j < i => Value(at[j]) <= v
              /\ i <= j /\ j <= b["right"][c] => v <= Value(at[j])
          BY <3>3 DEF Fits
        <4>2. /\ Value(at[j]) \in Int
              /\ j <= p => Value(at[j]) <= Value(x)
              /\ p <= j => Value(x) <= Value(at[j])
          BY <2>4
        <4>3. CASE s = "left"
          BY <2>1, <2>3, <3>2, <3>6, <4>1, <4>2, <4>3
        <4>4. CASE s # "left"
          BY <2>1, <2>3, <3>2, <3>6, <4>1, <4>2, <4>4
        <4> QED
          BY <4>3, <4>4
      <3> QED
        BY <3>3, <3>4, <3>5 DEF Lands, i, l, r, y
    <2> QED
      BY <2>5, <2>6
  <1>2. \A x \in T : (\A s \in Sides : t.child[s][x] # 0 => t.child[s][x] \in Good) => x \in Good
    BY <1>1
  <1> HIDE DEF Good
  <1>3. \A x \in T : x \in Good
    BY <1>2, FromBelow
  <1> QED
    BY <1>3 DEF Good

\* The leftmost node of a subtree is the first of its interval (rbtree.h:468-473).
LEMMA LeftmostIsFirst ==
  ASSUME NEW t, NEW T, NEW N, NEW at, NEW pos, NEW b, Shape(t, T, N, at, pos, b),
         NEW dir, dir = [x \in Nodes |-> "left"], NEW f, IsWalkDown(f, t, dir)
  PROVE  \A x \in T : f[x] \in T /\ t.child["left"][f[x]] = 0 /\ pos[f[x]] = b["left"][x]
  <1> DEFINE Good == {x \in T : f[x] \in T /\ t.child["left"][f[x]] = 0 /\ pos[f[x]] = b["left"][x]}
  <1>1. ASSUME NEW x \in T, \A s \in Sides : t.child[s][x] # 0 => t.child[s][x] \in Good
        PROVE  x \in Good
    <2>1. x \in Nodes /\ "left" \in Sides /\ SpansAt(t, T, pos, b, x, "left")
      BY ShapeFacts DEF Sides
    <2>2. f[x] = IF t.child["left"][x] = 0 THEN x ELSE f[t.child["left"][x]]
      BY <2>1 DEF IsWalkDown
    <2>3. CASE t.child["left"][x] = 0
      BY <2>1, <2>2, <2>3 DEF SpansAt
    <2>4. CASE t.child["left"][x] # 0
      BY <1>1, <2>1, <2>2, <2>4 DEF SpansAt
    <2> QED
      BY <2>3, <2>4
  <1> HIDE DEF Good
  <1>3. \A x \in T : x \in Good
    BY <1>1, FromBelow
  <1> QED
    BY <1>3 DEF Good

\* The search of find: it finds the value if it is in the interval of the subtree.
Finds(T, N, at, b, v, x, y) ==
  /\ y \in T \cup {0} /\ (y # 0 => Value(y) = v)
  /\ \A j \in 1 .. N : b["left"][x] <= j /\ j <= b["right"][x] /\ Value(at[j]) = v => y # 0

\* It does so wherever rotations have taken equal values (rbtree.h:110-129).
LEMMA FindFinds ==
  ASSUME NEW t, NEW T, NEW N, NEW at, NEW pos, NEW b, Shape(t, T, N, at, pos, b), Sorted(N, at),
         NEW v \in Int, NEW dir, dir = [x \in Nodes |-> IF Value(x) > v THEN "left" ELSE "right"],
         NEW f, IsWalkTo(f, t, dir, {x \in Nodes : Value(x) = v})
  PROVE  \A x \in T : Finds(T, N, at, b, v, x, f[x])
  <1> DEFINE Good == {x \in T : Finds(T, N, at, b, v, x, f[x])}
  <1>0. f[0] = 0
    BY NodeFacts DEF IsWalkTo
  <1>1. ASSUME NEW x \in T, \A s \in Sides : t.child[s][x] # 0 => t.child[s][x] \in Good
        PROVE  Finds(T, N, at, b, v, x, f[x])
    <2> DEFINE s == dir[x]
               c == t.child[s][x]
               y == f[x]
               l == b["left"][x]
               r == b["right"][x]
               p == pos[x]
    <2>1. /\ x \in Nodes /\ x \in Pointers /\ x # 0 /\ s \in Sides
          /\ (s = "left") = (v < Value(x)) /\ (s # "left" => s = "right") /\ Value(x) \in Int
      <3>1. x \in Nodes /\ x \in Pointers /\ x # 0 /\ Value(x) \in Int
        <4>1. x \in Nodes /\ x # 0
          BY ShapeFacts
        <4> QED
          BY <4>1, ValueFacts, NodeFacts
      <3>2. s = IF Value(x) > v THEN "left" ELSE "right"
        BY <3>1
      <3>3. (Value(x) > v) = (v < Value(x))
        BY <3>1
      <3> HIDE DEF s
      <3> QED
        BY <3>1, <3>2, <3>3 DEF Sides
    <2>2. f[x] = IF Value(x) = v THEN x ELSE f[c]
      BY <2>1 DEF IsWalkTo
    <2>3. /\ l \in 1 .. N /\ r \in 1 .. N /\ p \in 1 .. N /\ l <= p /\ p <= r /\ N \in Nat
          /\ SpansAt(t, T, pos, b, x, s) /\ at[p] = x
      BY <2>1, ShapeFacts
    <2>4. \A j \in 1 .. N : /\ at[j] \in Nodes /\ Value(at[j]) \in Int
                            /\ j <= p => Value(at[j]) <= Value(x)
                            /\ p <= j => Value(x) <= Value(at[j])
      <3>1. \A j \in 1 .. N : at[j] \in Nodes
        <4>1. at \in [1 .. N -> T] /\ T \subseteq Nodes
          BY ShapeFacts
        <4> HIDE DEF Good
        <4> QED
          BY <4>1
      <3> QED
        BY <2>3, <3>1, ValueFacts DEF Sorted
    <2>5. CASE Value(x) = v
      <3>1. y = x
        BY <2>2, <2>5
      <3>2. Finds(T, N, at, b, v, x, x)
        <4>1. x \in T \cup {0} /\ x # 0
          BY <2>1
        <4> HIDE DEF y, l, r, p, s, c
        <4> QED
          BY <2>5, <4>1 DEF Finds
      <3> QED
        BY <3>1, <3>2
    <2>6. CASE Value(x) # v
      <3>1. ASSUME NEW j \in 1 .. N, l <= j, j <= r, Value(at[j]) = v
            PROVE  IF s = "left" THEN j < p ELSE p < j
        BY <2>1, <2>3, <2>4, <2>6, <3>1
      <3>2. CASE c = 0
        <4>1. y = 0
          BY <1>0, <2>2, <2>6, <3>2
        <4>2. IF s = "left" THEN l = p ELSE r = p
          BY <2>1, <2>3, <3>2 DEF SpansAt
        <4> HIDE DEF l, r, s, p, y
        <4>3. \A j \in 1 .. N : ~(l <= j /\ j <= r /\ Value(at[j]) = v)
          <5> SUFFICES ASSUME NEW j \in 1 .. N, l <= j, j <= r, Value(at[j]) = v PROVE FALSE
            OBVIOUS
          <5>1. IF s = "left" THEN j < p ELSE p < j
            BY <3>1
          <5> QED
            BY <2>3, <4>2, <5>1
        <4> QED
          BY <4>1, <4>3 DEF Finds, l, r, y
      <3>3. CASE c # 0
        <4>1. c \in T /\ Finds(T, N, at, b, v, c, y)
          BY <1>1, <2>1, <2>2, <2>6, <3>3
        <4>2. /\ b["left"][c] = IF s = "left" THEN l ELSE p + 1
              /\ b["right"][c] = IF s = "left" THEN p - 1 ELSE r
          BY <2>1, <2>3, <3>3 DEF SpansAt, Beside, Other
        <4> HIDE DEF l, r, s, p, y, c
        <4>3. ASSUME NEW j \in 1 .. N, l <= j, j <= r, Value(at[j]) = v PROVE y # 0
          <5>1. IF s = "left" THEN j < p ELSE p < j
            BY <3>1, <4>3
          <5>2. b["left"][c] <= j /\ j <= b["right"][c]
            BY <2>3, <4>2, <4>3, <5>1
          <5> QED
            BY <4>1, <4>3, <5>2 DEF Finds
        <4> QED
          BY <4>1, <4>3 DEF Finds, l, r, y
      <3> QED
        BY <3>2, <3>3
    <2> QED
      BY <2>5, <2>6
  <1>2. \A x \in T : (\A s \in Sides : t.child[s][x] # 0 => t.child[s][x] \in Good) => x \in Good
    BY <1>1
  <1> HIDE DEF Good
  <1>3. \A x \in T : x \in Good
    BY <1>2, FromBelow
  <1> QED
    BY <1>3 DEF Good

-----------------------------------------------------------------------------
(* insert. *)

\* A red leaf n hangs below y on the side s.
LeafAdded(t, n, y, s, u) ==
  /\ u \in Trees /\ u.root = t.root /\ u.red = t.red \cup {n}
  /\ \A m \in Nodes : u.parent[m] = IF m = n THEN y ELSE t.parent[m]
  /\ \A a \in Sides : \A m \in Nodes :
       u.child[a][m] = IF m = n THEN 0 ELSE IF m = y /\ a = s THEN n ELSE t.child[a][m]

\* The numbers after that: those from the gap on move up.
AtWith(at, N, n, i) == [j \in 1 .. N + 1 |-> IF j < i THEN at[j] ELSE IF j = i THEN n ELSE at[j - 1]]
\* The positions after it, and the ends of the subtrees, among them those that end next to it.
PosWith(T, pos, n, i) == [m \in T \cup {n} |-> IF m = n THEN i ELSE IF pos[m] >= i THEN pos[m] + 1 ELSE pos[m]]
EndsWith(T, b, n, i, q) ==
  [a \in Sides |-> [m \in T \cup {n} |->
     IF m = n THEN i
     ELSE IF a = "left" THEN IF b[a][m] > q THEN b[a][m] + 1 ELSE b[a][m]
     ELSE IF b[a][m] >= q THEN b[a][m] + 1 ELSE b[a][m]]]

\* They number the nodes, and the values stay in order.
LEMMA NumberedWith ==
  ASSUME NEW T, NEW N, NEW at, NEW pos, Numbered(T, N, at, pos), NEW n \in Nodes, n \notin T, NEW i \in 1 .. N + 1
  PROVE  Numbered(T \cup {n}, N + 1, AtWith(at, N, n, i), PosWith(T, pos, n, i))
  <1> DEFINE T2 == T \cup {n}
             at2 == AtWith(at, N, n, i)
             pos2 == PosWith(T, pos, n, i)
  <1>1. /\ T \subseteq Nodes /\ N \in Nat /\ at \in [1 .. N -> T] /\ pos \in [T -> 1 .. N]
        /\ (\A m \in T : at[pos[m]] = m) /\ \A j \in 1 .. N : pos[at[j]] = j
    BY DEF Numbered
  <1>2. \A j \in 1 .. N + 1 : /\ j < i => j \in 1 .. N
                              /\ j > i => j - 1 \in 1 .. N
                              /\ ~(j < i) /\ j # i => j > i
    BY <1>1
  <1>3. at2 \in [1 .. N + 1 -> T2]
    <2>1. \A j \in 1 .. N + 1 : (IF j < i THEN at[j] ELSE IF j = i THEN n ELSE at[j - 1]) \in T2
      BY <1>1, <1>2
    <2> QED
      BY <2>1 DEF AtWith
  <1>4. \A m \in T : /\ pos[m] >= i => pos[m] + 1 \in 1 .. N + 1 /\ pos[m] + 1 > i /\ (pos[m] + 1) - 1 = pos[m]
                     /\ ~(pos[m] >= i) => pos[m] \in 1 .. N + 1 /\ pos[m] < i
    BY <1>1
  <1>5. pos2 \in [T2 -> 1 .. N + 1]
    BY <1>4 DEF PosWith
  <1>6. ASSUME NEW m \in T2 PROVE at2[pos2[m]] = m
    <2>1. CASE m = n
      BY <2>1 DEF AtWith, PosWith
    <2>2. CASE m # n
      <3>1. m \in T /\ pos2[m] = IF pos[m] >= i THEN pos[m] + 1 ELSE pos[m]
        BY <2>2 DEF PosWith
      <3>2. \A j \in 1 .. N + 1 : at2[j] = IF j < i THEN at[j] ELSE IF j = i THEN n ELSE at[j - 1]
        BY DEF AtWith
      <3>3. pos2[m] \in 1 .. N + 1 /\ ~(pos2[m] = i)
            /\ IF pos2[m] < i THEN pos2[m] = pos[m] ELSE pos2[m] - 1 = pos[m]
        BY <1>4, <3>1
      <3> HIDE DEF pos2, at2
      <3>4. at2[pos2[m]] = at[pos[m]]
        BY <3>2, <3>3
      <3> QED
        BY <1>1, <3>1, <3>4
    <2> QED
      BY <2>1, <2>2
  <1>7. ASSUME NEW j \in 1 .. N + 1 PROVE pos2[at2[j]] = j
    <2>1. at2[j] = IF j < i THEN at[j] ELSE IF j = i THEN n ELSE at[j - 1]
      BY DEF AtWith
    <2>2. \A m \in T : pos2[m] = IF pos[m] >= i THEN pos[m] + 1 ELSE pos[m]
      BY DEF PosWith
    <2>3. pos2[n] = i
      BY DEF PosWith
    <2> HIDE DEF pos2, at2
    <2>4. CASE j < i
      <3>1. at2[j] = at[j] /\ at[j] \in T /\ pos[at[j]] = j
        BY <1>1, <1>2, <2>1, <2>4
      <3> QED
        BY <2>2, <2>4, <3>1
    <2>5. CASE j = i
      BY <2>1, <2>3, <2>5
    <2>6. CASE j > i
      <3>1. at2[j] = at[j - 1] /\ at[j - 1] \in T /\ pos[at[j - 1]] = j - 1
        BY <1>1, <1>2, <2>1, <2>6
      <3> QED
        BY <2>2, <2>6, <3>1
    <2> QED
      BY <1>2, <2>4, <2>5, <2>6
  <1>8. T2 \subseteq Nodes /\ N + 1 \in Nat
    BY <1>1
  <1> HIDE DEF at2, pos2, T2
  <1>9. Numbered(T2, N + 1, at2, pos2)
    BY <1>3, <1>5, <1>6, <1>7, <1>8 DEF Numbered
  <1> QED
    BY <1>9 DEF at2, pos2, T2

\* The values stay in order if the new one fits.
LEMMA SortedWith ==
  ASSUME NEW T, NEW N, NEW at, NEW pos, Numbered(T, N, at, pos), Sorted(N, at), NEW n \in Nodes,
         NEW i \in 1 .. N + 1, Fits(N, at, Value(n), i, 1, N)
  PROVE  Sorted(N + 1, AtWith(at, N, n, i))
  <1> DEFINE at2 == AtWith(at, N, n, i)
             v == Value(n)
  <1>1. /\ N \in Nat /\ \A j \in 1 .. N : at[j] \in Nodes
    BY DEF Numbered
  <1>2. v \in Int /\ \A j \in 1 .. N : Value(at[j]) \in Int
    BY <1>1, ValueFacts
  <1>3. \A j \in 1 .. N : /\ j < i => Value(at[j]) <= v
                          /\ i <= j => v <= Value(at[j])
    BY <1>1 DEF Fits
  <1>4. \A j \in 1 .. N + 1 : /\ j < i => j \in 1 .. N /\ Value(at2[j]) = Value(at[j])
                              /\ j = i => Value(at2[j]) = v
                              /\ j > i => j - 1 \in 1 .. N /\ Value(at2[j]) = Value(at[j - 1])
    BY <1>1 DEF AtWith
  <1> HIDE DEF v, at2
  <1>5. ASSUME NEW j \in 1 .. N + 1, NEW k \in 1 .. N + 1, j <= k PROVE Value(at2[j]) <= Value(at2[k])
    <2>1. CASE k < i
      BY <1>1, <1>4, <1>5, <2>1 DEF Sorted
    <2>2. CASE k = i
      <3>1. CASE j = i
        BY <1>2, <1>4, <2>2, <3>1
      <3>2. CASE j < i
        BY <1>3, <1>4, <2>2, <3>2
      <3> QED
        BY <1>5, <2>2, <3>1, <3>2
    <2>3. CASE k > i
      <3>0. k - 1 \in 1 .. N /\ Value(at2[k]) = Value(at[k - 1]) /\ i <= k - 1
        BY <1>4, <2>3
      <3>1. CASE j = i
        BY <1>3, <1>4, <3>0, <3>1
      <3>2. CASE j < i
        <4>1. j \in 1 .. N /\ Value(at2[j]) = Value(at[j]) /\ j <= k - 1
          BY <1>4, <3>0, <3>2
        <4> QED
          BY <3>0, <4>1 DEF Sorted
      <3>3. CASE j > i
        <4>1. j - 1 \in 1 .. N /\ Value(at2[j]) = Value(at[j - 1]) /\ j - 1 <= k - 1
          BY <1>4, <1>5, <3>3
        <4> QED
          BY <3>0, <4>1 DEF Sorted
      <3> QED
        BY <3>1, <3>2, <3>3
    <2> QED
      BY <2>1, <2>2, <2>3
  <1> QED
    BY <1>5 DEF Sorted, at2

\* The links of the tree with the leaf (rbtree.h:291-307).
LEMMA LeafShape ==
  ASSUME NEW t, NEW T, NEW N, NEW at, NEW pos, NEW b, Shape(t, T, N, at, pos, b),
         NEW n \in Nodes, n \notin T, NEW y \in T, NEW s \in Sides, t.child[s][y] = 0,
         NEW u, LeafAdded(t, n, y, s, u)
  PROVE  /\ Gap(pos, s, y) \in 1 .. N + 1
         /\ Shape(u, T \cup {n}, N + 1, AtWith(at, N, n, Gap(pos, s, y)), PosWith(T, pos, n, Gap(pos, s, y)),
                  EndsWith(T, b, n, Gap(pos, s, y), pos[y]))
  <1> DEFINE q == pos[y]
             i == Gap(pos, s, y)
             T2 == T \cup {n}
             p2 == PosWith(T, pos, n, i)
             b2 == EndsWith(T, b, n, i, q)
  <1>1. /\ N \in Nat /\ T \subseteq Nodes /\ pos \in [T -> 1 .. N] /\ \A m \in T : at[pos[m]] = m
        /\ \A m \in T : /\ m \in Nodes /\ m # 0 /\ pos[m] \in 1 .. N /\ b["left"][m] \in 1 .. N /\ b["right"][m] \in 1 .. N
                        /\ b["left"][m] <= pos[m] /\ pos[m] <= b["right"][m]
                        /\ \A a \in Sides : /\ SpansAt(t, T, pos, b, m, a)
                                            /\ t.child[a][m] # 0 => t.child[a][m] \in T
                        /\ t.parent[m] # 0 => t.parent[m] \in T
    BY ShapeFacts
  <1>2. q \in 1 .. N /\ i = IF s = "left" THEN q ELSE q + 1
    BY <1>1 DEF Gap
  <1>3. i \in 1 .. N + 1
    BY <1>1, <1>2
  <1>4. Numbered(T2, N + 1, AtWith(at, N, n, i), p2)
    BY <1>3, NumberedWith DEF Shape
  <1>5. \A m \in T : (m = y) = (pos[m] = q)
    BY <1>1
  <1>6. /\ \A m \in T : p2[m] = IF pos[m] >= i THEN pos[m] + 1 ELSE pos[m]
        /\ p2[n] = i
    BY DEF PosWith
  <1>7. /\ \A m \in T : /\ b2["left"][m] = IF b["left"][m] > q THEN b["left"][m] + 1 ELSE b["left"][m]
                        /\ b2["right"][m] = IF b["right"][m] >= q THEN b["right"][m] + 1 ELSE b["right"][m]
        /\ \A a \in Sides : b2[a][n] = i
    BY DEF EndsWith, Sides
  <1>8. b2 \in [Sides -> [T2 -> 1 .. N + 1]]
    <2>1. \A a \in Sides : \A m \in T : b[a][m] \in 1 .. N
      BY <1>1 DEF Sides
    <2>2. \A a \in Sides : \A m \in T2 :
             (IF m = n THEN i
              ELSE IF a = "left" THEN IF b[a][m] > q THEN b[a][m] + 1 ELSE b[a][m]
              ELSE IF b[a][m] >= q THEN b[a][m] + 1 ELSE b[a][m]) \in 1 .. N + 1
      <3> HIDE DEF i, q
      <3> QED
        BY <1>1, <1>3, <2>1
    <2> HIDE DEF i, q
    <2> QED
      BY <2>2 DEF EndsWith
  <1>9. /\ u \in Trees /\ u.root = t.root
        /\ \A m \in Nodes : u.parent[m] = IF m = n THEN y ELSE t.parent[m]
        /\ \A a \in Sides : \A m \in Nodes :
             u.child[a][m] = IF m = n THEN 0 ELSE IF m = y /\ a = s THEN n ELSE t.child[a][m]
        /\ n # 0 /\ n # y
    BY NodeFacts DEF LeafAdded
  <1> HIDE DEF q, i, p2, b2
  <1>10. ASSUME NEW m \in T2 PROVE b2["left"][m] <= p2[m] /\ p2[m] <= b2["right"][m]
    <2>1. CASE m = n
      BY <1>3, <1>6, <1>7, <2>1 DEF Sides
    <2>2. CASE m # n
      <3>1. m \in T
        BY <2>2
      <3>2. /\ b2["left"][m] = IF b["left"][m] > q THEN b["left"][m] + 1 ELSE b["left"][m]
            /\ b2["right"][m] = IF b["right"][m] >= q THEN b["right"][m] + 1 ELSE b["right"][m]
            /\ p2[m] = IF pos[m] >= i THEN pos[m] + 1 ELSE pos[m]
            /\ pos[m] \in 1 .. N /\ b["left"][m] \in 1 .. N /\ b["right"][m] \in 1 .. N
            /\ b["left"][m] <= pos[m] /\ pos[m] <= b["right"][m]
        BY <1>1, <1>6, <1>7, <3>1
      <3> QED
        BY <1>2, <3>2
    <2> QED
      BY <2>1, <2>2
  <1>11. ASSUME NEW m \in T2, NEW a \in Sides PROVE SpansAt(u, T2, p2, b2, m, a)
    <2>1. CASE m = n
      <3>1. u.child[a][m] = 0 /\ b2[a][m] = p2[m]
        BY <1>6, <1>7, <1>9, <2>1
      <3> QED
        BY <3>1 DEF SpansAt
    <2>2. CASE m = y /\ a = s
      <3>1. u.child[a][m] = n /\ n # 0 /\ u.parent[n] = m
        BY <1>1, <1>9, <2>2
      <3>2. t.child[a][m] = 0 /\ b[a][m] = q
        BY <1>1, <2>2 DEF SpansAt, q
      <3>3. b2[a][n] = i /\ b2[Other(a)][n] = i
        BY <1>7, NodeFacts
      <3>4. b2[a][m] = i
        BY <1>2, <1>7, <2>2, <3>2 DEF Sides
      <3>5. Beside(a, p2[m]) = i
        <4>1. pos[m] = q
          BY <2>2 DEF q
        <4> QED
          BY <1>2, <1>6, <2>2, <4>1 DEF Beside
      <3> QED
        BY <3>1, <3>3, <3>4, <3>5 DEF SpansAt
    <2>3. CASE m # n /\ ~(m = y /\ a = s)
      <3> DEFINE c == t.child[a][m]
      <3>1. m \in T /\ u.child[a][m] = c /\ SpansAt(t, T, pos, b, m, a)
        BY <1>1, <1>9, <2>3
      <3>2. /\ b2["left"][m] = IF b["left"][m] > q THEN b["left"][m] + 1 ELSE b["left"][m]
            /\ b2["right"][m] = IF b["right"][m] >= q THEN b["right"][m] + 1 ELSE b["right"][m]
            /\ p2[m] = IF pos[m] >= i THEN pos[m] + 1 ELSE pos[m]
            /\ pos[m] \in 1 .. N /\ b["left"][m] \in 1 .. N /\ b["right"][m] \in 1 .. N
            /\ b["left"][m] <= pos[m] /\ pos[m] <= b["right"][m]
            /\ pos[m] = q => a # s
        BY <1>1, <1>5, <1>6, <1>7, <2>3, <3>1
      <3> HIDE DEF c
      <3>3. CASE c = 0
        <4>1. b[a][m] = pos[m]
          BY <3>1, <3>3 DEF SpansAt, c
        <4>2. b2[a][m] = p2[m]
          BY <1>2, <3>2, <4>1 DEF Sides
        <4> QED
          BY <3>1, <3>3, <4>2 DEF SpansAt, c
      <3>4. CASE c # 0
        <4>1. c \in T /\ t.parent[c] = m /\ b[a][c] = b[a][m] /\ b[Other(a)][c] = Beside(a, pos[m])
          BY <3>1, <3>4 DEF SpansAt, c
        <4>2. /\ b2["left"][c] = IF b["left"][c] > q THEN b["left"][c] + 1 ELSE b["left"][c]
              /\ b2["right"][c] = IF b["right"][c] >= q THEN b["right"][c] + 1 ELSE b["right"][c]
              /\ b["left"][c] \in 1 .. N /\ b["right"][c] \in 1 .. N
              /\ c \in T2 /\ c \in Nodes /\ c # n
          BY <1>1, <1>7, <4>1
        <4>3. u.parent[c] = m
          BY <1>9, <4>1, <4>2
        <4>4. b2[a][c] = b2[a][m]
          BY <3>2, <4>1, <4>2 DEF Sides
        <4>5. b2[Other(a)][c] = Beside(a, p2[m])
          <5>1. CASE a = "left"
            BY <1>2, <3>2, <4>1, <4>2, <5>1 DEF Beside, Other
          <5>2. CASE a # "left"
            <6>1. a = "right"
              BY <5>2 DEF Sides
            <6> QED
              BY <1>2, <3>2, <4>1, <4>2, <6>1 DEF Beside, Other, Sides
          <5> QED
            BY <5>1, <5>2
        <4> QED
          BY <3>1, <3>4, <4>2, <4>3, <4>4, <4>5 DEF SpansAt
      <3> QED
        BY <3>3, <3>4
    <2> QED
      BY <2>1, <2>2, <2>3
  <1>12. Spans(u, T2, N + 1, p2, b2)
    BY <1>8, <1>10, <1>11 DEF Spans
  <1>13. Hangs(u, T2)
    <2> SUFFICES ASSUME NEW m \in T2
                 PROVE  IF u.parent[m] = 0 THEN m = u.root
                        ELSE u.parent[m] \in T2 /\ \E a \in Sides : u.child[a][u.parent[m]] = m
      BY DEF Hangs
    <2>1. CASE m = n
      BY <1>1, <1>9, <2>1
    <2>2. CASE m # n
      <3>1. m \in T /\ u.parent[m] = t.parent[m] /\ m # 0
        BY <1>1, <1>9, <2>2
      <3>2. IF t.parent[m] = 0 THEN m = t.root
            ELSE t.parent[m] \in T /\ \E a \in Sides : t.child[a][t.parent[m]] = m
        BY <3>1 DEF Shape, Hangs
      <3>3. CASE t.parent[m] # 0
        <4>1. PICK a \in Sides : t.child[a][t.parent[m]] = m
          BY <3>2, <3>3
        <4>2. u.child[a][t.parent[m]] = m
          BY <1>1, <1>9, <3>1, <3>2, <3>3, <4>1
        <4> QED
          BY <3>1, <3>2, <3>3, <4>2
      <3> QED
        BY <1>9, <3>1, <3>2, <3>3
    <2> QED
      BY <2>1, <2>2
  <1>14. Rooted(u, T2, N + 1, b2)
    <2>1. t.root \in T /\ t.parent[t.root] = 0 /\ b["left"][t.root] = 1 /\ b["right"][t.root] = N
      BY DEF Shape, Rooted
    <2>2. u.parent[u.root] = 0 /\ u.root \in T2
      BY <1>1, <1>9, <2>1
    <2>3. b2["left"][t.root] = 1 /\ b2["right"][t.root] = N + 1
      BY <1>2, <1>7, <2>1
    <2> QED
      BY <1>9, <2>2, <2>3 DEF Rooted
  <1>15. Shape(u, T2, N + 1, AtWith(at, N, n, i), p2, b2)
    BY <1>4, <1>9, <1>12, <1>13, <1>14 DEF Shape
  <1> QED
    BY <1>3, <1>15 DEF q, i, p2, b2

\* One link is changed.
ChildSet(t, a, x, z, u) ==
  /\ u \in Trees /\ u.root = t.root /\ u.parent = t.parent /\ u.red = t.red
  /\ \A s \in Sides : \A n \in Nodes : u.child[s][n] = IF s = a /\ n = x THEN z ELSE t.child[s][n]

\* The cells after it.
LEMMA ChildSetCells ==
  ASSUME NEW t \in Trees, NEW a \in Sides, NEW x \in Nodes, NEW z \in Pointers
  PROVE  ChildSet(t, a, x, z, [t EXCEPT !.child[a][x] = z])
  <1> DEFINE u == [t EXCEPT !.child[a][x] = z]
             k1 == [t.child EXCEPT ![a] = [t.child[a] EXCEPT ![x] = z]]
  <1>1. u = [t EXCEPT !.child = k1]
    BY DEF Trees
  <1>2. t.child \in [Sides -> [Nodes -> Pointers]]
    BY DEF Trees
  <1>3. /\ k1 \in [Sides -> [Nodes -> Pointers]]
        /\ \A s \in Sides : \A n \in Nodes : k1[s][n] = IF s = a /\ n = x THEN z ELSE t.child[s][n]
    BY <1>2
  <1> HIDE DEF k1
  <1>5. u \in Trees /\ u.root = t.root /\ u.parent = t.parent /\ u.red = t.red /\ u.child = k1
    BY <1>1, <1>3 DEF Trees
  <1> HIDE DEF u
  <1>6. ChildSet(t, a, x, z, u)
    BY <1>3, <1>5 DEF ChildSet
  <1> QED
    BY <1>6 DEF u

\* A red leaf leaves the number of black nodes on all ways.
LEMMA LeafBalanced ==
  ASSUME NEW t, NEW T, NEW N, NEW at, NEW pos, NEW b, Shape(t, T, N, at, pos, b),
         NEW n \in Nodes, n \notin T, NEW y \in T, NEW s \in Sides, t.child[s][y] = 0,
         NEW u, LeafAdded(t, n, y, s, u), NEW h, Balanced(t, T, h, 0, "left"), RedBut(t, T, {})
  PROVE  \E h2 : InsertState(u, T \cup {n}, h2, n)
  <1> DEFINE T2 == T \cup {n}
             h2 == [m \in T2 |-> IF m = n THEN 0 ELSE h[m]]
  <1>1. \A m \in T : \A a \in Sides : /\ h[m] = Ht(t, h, m, a) + Black(t, m) /\ h[m] \in Nat
                                      /\ Hole(0, "left", m, a) = 0 /\ Ht(t, h, m, a) \in Nat
    BY NoHole
  <1>2. /\ u \in Trees /\ u.root = t.root /\ u.red = t.red \cup {n}
        /\ \A m \in Nodes : u.parent[m] = IF m = n THEN y ELSE t.parent[m]
        /\ \A a \in Sides : \A m \in Nodes :
             u.child[a][m] = IF m = n THEN 0 ELSE IF m = y /\ a = s THEN n ELSE t.child[a][m]
        /\ n # 0 /\ n # y
    BY NodeFacts DEF LeafAdded
  <1>3. T \subseteq Nodes /\ \A m \in T : /\ m # 0 /\ (t.parent[m] # 0 => t.parent[m] \in T)
                                          /\ \A a \in Sides : t.child[a][m] # 0 => t.child[a][m] \in T
    BY ShapeFacts
  <1>4. h2 \in [T2 -> Nat] /\ h2[n] = 0 /\ \A m \in T : h2[m] = h[m]
    BY <1>1 DEF Balanced
  <1> HIDE DEF h2
  <1>5. ASSUME NEW m \in T2 PROVE BalancedAt(u, h2, 0, "left", m)
    <2> SUFFICES ASSUME NEW a \in Sides
                 PROVE  h2[m] = Ht(u, h2, m, a) + Hole(0, "left", m, a) + Black(u, m)
      BY DEF BalancedAt
    <2>1. CASE m = n
      <3>1. u.child[a][n] = 0 /\ n \in u.red
        BY <1>2
      <3> QED
        BY <1>2, <1>4, <2>1, <3>1 DEF Ht, Hole, Black
    <2>2. CASE m # n
      <3>1. m \in T /\ Black(u, m) = Black(t, m)
        BY <1>2, <2>2 DEF Black
      <3>2. Ht(u, h2, m, a) = Ht(t, h, m, a)
        <4>1. CASE m = y /\ a = s
          BY <1>2, <1>3, <1>4, <2>2, <3>1, <4>1 DEF Ht
        <4>2. CASE ~(m = y /\ a = s)
          <5>1. u.child[a][m] = t.child[a][m]
            BY <1>2, <1>3, <2>2, <3>1, <4>2
          <5> QED
            BY <1>3, <1>4, <3>1, <5>1 DEF Ht
        <4> QED
          BY <4>1, <4>2
      <3>3. h[m] = Ht(t, h, m, a) + Black(t, m) /\ Hole(0, "left", m, a) = 0 /\ Ht(t, h, m, a) \in Nat
        BY <1>1, <3>1
      <3>4. Black(t, m) \in {0, 1}
        BY DEF Black
      <3>5. h2[m] = h[m]
        BY <1>4, <3>1
      <3> QED
        BY <3>1, <3>2, <3>3, <3>4, <3>5
    <2> QED
      BY <2>1, <2>2
  <1>6. Balanced(u, T2, h2, 0, "left")
    BY <1>4, <1>5 DEF Balanced
  <1>7. RedBut(u, T2, {n})
    <2> SUFFICES ASSUME NEW m \in T2, m \in u.red, m # n
                 PROVE  u.parent[m] # 0 /\ u.parent[m] \notin u.red
      BY DEF RedBut
    <2>1. m \in T /\ m \in t.red /\ m \in Nodes
      BY <1>2, <1>3
    <2>2. t.parent[m] # 0 /\ t.parent[m] \notin t.red /\ t.parent[m] \in T
      BY <1>3, <2>1 DEF RedBut
    <2> QED
      BY <1>2, <2>1, <2>2
  <1>8. InsertState(u, T2, h2, n)
    <2>1. n \in T2 /\ n \in u.red /\ u.red \subseteq Nodes
      BY <1>2 DEF Trees
    <2> QED
      BY <1>6, <1>7, <2>1 DEF InsertState
  <1> QED
    BY <1>8

\* The first node.
LEMMA FirstNode ==
  ASSUME NEW n \in Nodes, NEW u \in Trees, u.root = n, n \in u.red, u.parent[n] = 0,
         \A a \in Sides : u.child[a][n] = 0
  PROVE  \E N, at, pos, b, h : Shape(u, {n}, N, at, pos, b) /\ Sorted(N, at) /\ InsertState(u, {n}, h, n)
  <1> DEFINE at == [j \in 1 .. 1 |-> n]
             pos == [m \in {n} |-> 1]
             b == [a \in Sides |-> [m \in {n} |-> 1]]
             h == [m \in {n} |-> 0]
  <1>1. Numbered({n}, 1, at, pos)
    <2>1. \A j \in 1 .. 1 : j = 1
      OBVIOUS
    <2> QED
      BY <2>1 DEF Numbered
  <1>2. Spans(u, {n}, 1, pos, b)
    BY DEF Spans, SpansAt, Sides
  <1>3. Shape(u, {n}, 1, at, pos, b)
    BY <1>1, <1>2 DEF Shape, Hangs, Rooted, Sides
  <1>4. Sorted(1, at)
    BY ValueFacts DEF Sorted
  <1>5. InsertState(u, {n}, h, n)
    <2>1. Balanced(u, {n}, h, 0, "left")
      BY NodeFacts DEF Balanced, BalancedAt, Ht, Hole, Black
    <2> QED
      BY <2>1 DEF InsertState, RedBut, Trees
  <1> QED
    BY <1>3, <1>4, <1>5

\* The search of insert.
IsSearch(f, v) ==
  f = [x \in Nodes |-> LET next == tree.child[IF v < Value(x) THEN "left" ELSE "right"][x]
                       IN  IF next = nullptr THEN x ELSE f[next]]

\* It ends where a leaf can be added.
LEMMA InsertPlace ==
  ASSUME NEW T, NEW N, NEW at, NEW pos, NEW b, Shape(tree, T, N, at, pos, b), Sorted(N, at),
         NEW d, Stray(tree, T, d), NEW n \in Nodes, tree.root # 0
  PROVE  LET y == InsertParent(Value(n))
             s == IF Value(n) < Value(y) THEN "left" ELSE "right"
         IN  y \in T /\ tree.child[s][y] = 0 /\ Fits(N, at, Value(n), Gap(pos, s, y), 1, N)
  <1> DEFINE v == Value(n)
             dir == [x \in Nodes |-> IF v < Value(x) THEN "left" ELSE "right"]
             f == CHOOSE g : IsSearch(g, v)
             y == InsertParent(v)
  <1>1. y = f[tree.root]
    BY NodeFacts DEF InsertParent, IsSearch
  <1>2. dir \in [Nodes -> Sides] /\ v \in Int
    BY ValueFacts DEF Sides
  <1>3. \A x \in Nodes : dir[x] = IF v < Value(x) THEN "left" ELSE "right"
    OBVIOUS
  <1>4. \A g : IsSearch(g, v) <=> IsWalkDown(g, tree, dir)
    <2> SUFFICES ASSUME NEW g PROVE IsSearch(g, v) <=> IsWalkDown(g, tree, dir)
      OBVIOUS
    <2> HIDE DEF dir
    <2>1. [x \in Nodes |-> LET next == tree.child[IF v < Value(x) THEN "left" ELSE "right"][x]
                           IN  IF next = nullptr THEN x ELSE g[next]]
          = [x \in Nodes |-> LET next == tree.child[dir[x]][x] IN IF next = 0 THEN x ELSE g[next]]
      BY <1>3, NodeFacts
    <2> QED
      BY <2>1 DEF IsSearch, IsWalkDown
  <1> HIDE DEF dir
  <1>5. \E g : IsSearch(g, v)
    <2>1. \E g : IsWalkDown(g, tree, dir)
      BY <1>2, WalkDownExists
    <2> QED
      BY <1>4, <2>1
  <1>6. IsWalkDown(f, tree, dir)
    <2>1. IsSearch(f, v)
      BY <1>5
    <2> QED
      BY <1>4, <2>1
  <1> HIDE DEF f, y
  <1>7. dir = [x \in Nodes |-> IF v < Value(x) THEN "left" ELSE "right"]
    BY DEF dir
  <1> HIDE DEF v
  <1>8. tree.root \in T /\ b["left"][tree.root] = 1 /\ b["right"][tree.root] = N
    BY DEF Shape, Rooted
  <1>9. \A x \in T : Lands(tree, T, N, at, pos, b, v, dir, x, f[x])
    BY <1>2, <1>6, <1>7, InsertLands
  <1>10. Lands(tree, T, N, at, pos, b, v, dir, tree.root, y)
    BY <1>1, <1>8, <1>9
  <1>11. y \in T /\ dir[y] = (IF v < Value(y) THEN "left" ELSE "right")
    <2>1. y \in T /\ T \subseteq Nodes
      BY <1>10, ShapeFacts DEF Lands
    <2> QED
      BY <1>3, <2>1 DEF v
  <1>12. tree.child[dir[y]][y] = 0 /\ Fits(N, at, v, Gap(pos, dir[y], y), 1, N)
    BY <1>8, <1>10 DEF Lands
  <1> QED
    BY <1>11, <1>12 DEF v, y

\* A leaf that is put into the empty tree, or below y.
LeafLinked(t, n, y, s) ==
  LET fresh == [t EXCEPT !.parent[n] = y, !.child["left"][n] = nullptr, !.child["right"][n] = nullptr]
  IN  SetRed(IF y = nullptr THEN [fresh EXCEPT !.root = n] ELSE [fresh EXCEPT !.child[s][y] = n], n)

\* The cells after it.
LEMMA LeafCells ==
  ASSUME NEW t \in Trees, NEW n \in Nodes, NEW y \in Pointers, NEW s \in Sides, y # n
  PROVE  /\ y # 0 => LeafAdded(t, n, y, s, LeafLinked(t, n, y, s))
         /\ y = 0 => /\ LeafLinked(t, n, y, s) \in Trees /\ LeafLinked(t, n, y, s).root = n
                     /\ LeafLinked(t, n, y, s).red = t.red \cup {n}
                     /\ \A m \in Nodes : LeafLinked(t, n, y, s).parent[m] = IF m = n THEN 0 ELSE t.parent[m]
                     /\ \A a \in Sides : \A m \in Nodes :
                          LeafLinked(t, n, y, s).child[a][m] = IF m = n THEN 0 ELSE t.child[a][m]
  <1> DEFINE t1 == SetParent(t, n, y)
             t2 == SetChild(t1, "left", n, 0, "right", n, 0)
             t3 == IF y = 0 THEN [t2 EXCEPT !.root = n] ELSE [t2 EXCEPT !.child[s][y] = n]
             u == LeafLinked(t, n, y, s)
  <1>1. u = SetRed(t3, n)
    <2>1. nullptr = 0 /\ n # nullptr
      BY NodeFacts
    <2>2. t1 = [t EXCEPT !.parent[n] = y]
      BY <2>1 DEF SetParent
    <2> HIDE DEF t1
    <2>3. t2 = [t EXCEPT !.parent[n] = y, !.child["left"][n] = nullptr, !.child["right"][n] = nullptr]
      BY <2>1, <2>2 DEF SetChild
    <2> HIDE DEF t2
    <2> QED
      BY <2>1, <2>3 DEF LeafLinked
  <1>2. n \in Pointers /\ "left" \in Sides /\ "right" \in Sides /\ 0 \in Pointers /\ n # 0
        /\ \A a \in Sides : a = "left" \/ a = "right"
    BY NodeFacts
  <1> HIDE DEF u
  <1>3. ParentSet(t, n, y, t1)
    BY <1>2, SetParentCells
  <1> HIDE DEF t1
  <1>4. t1 \in Trees
    BY <1>3 DEF ParentSet
  <1>5. ChildrenSet(t1, "left", n, 0, "right", n, 0, t2)
    BY <1>2, <1>4, SetChildCells
  <1> HIDE DEF t2
  <1>6. t2 \in Trees
    BY <1>5 DEF ChildrenSet
  <1>7. /\ t2.root = t.root /\ t2.red = t.red
        /\ \A m \in Nodes : t2.parent[m] = IF m = n THEN y ELSE t.parent[m]
        /\ \A a \in Sides : \A m \in Nodes : t2.child[a][m] = IF m = n THEN 0 ELSE t.child[a][m]
    BY <1>2, <1>3, <1>5 DEF ParentSet, ChildrenSet
  <1>8. CASE y = 0
    <2>1. t3 = [t2 EXCEPT !.root = n]
      BY <1>8
    <2> HIDE DEF t3
    <2>2. t3 \in Trees /\ t3.root = n /\ t3.parent = t2.parent /\ t3.child = t2.child /\ t3.red = t2.red
      BY <1>2, <1>6, <2>1 DEF Trees
    <2>3. Painted(t3, u) /\ u \in Trees /\ u.red = t3.red \cup {n}
      BY <1>1, <2>2, SetRedCells
    <2> QED
      BY <1>7, <1>8, <2>2, <2>3 DEF Painted, u
  <1>9. CASE y # 0
    <2>1. t3 = [t2 EXCEPT !.child[s][y] = n] /\ y \in Nodes
      BY <1>9, NodeFacts
    <2> HIDE DEF t3
    <2>2. ChildSet(t2, s, y, n, t3)
      BY <1>2, <1>6, <2>1, ChildSetCells
    <2>4. t3 \in Trees
      BY <2>2 DEF ChildSet
    <2>3. Painted(t3, u) /\ u \in Trees /\ u.red = t3.red \cup {n}
      BY <1>1, <2>4, SetRedCells
    <2>5. LeafAdded(t, n, y, s, u)
      <3>1. u.root = t.root /\ u.red = t.red \cup {n}
        BY <1>7, <2>2, <2>3 DEF Painted, ChildSet
      <3>2. \A m \in Nodes : u.parent[m] = IF m = n THEN y ELSE t.parent[m]
        BY <1>7, <2>2, <2>3 DEF Painted, ChildSet
      <3>3. \A a \in Sides : \A m \in Nodes :
              u.child[a][m] = IF m = n THEN 0 ELSE IF m = y /\ a = s THEN n ELSE t.child[a][m]
        BY <1>7, <2>2, <2>3 DEF Painted, ChildSet
      <3> QED
        BY <2>3, <3>1, <3>2, <3>3 DEF LeafAdded
    <2> QED
      BY <1>9, <2>5 DEF u
  <1> QED
    BY <1>8, <1>9

\* insert puts the node where its value belongs, and begins the loop.
LEMMA InsertKeeps == ASSUME RBInv, NEW n \in Nodes, Insert(n) PROVE RBInv'
  <1> DEFINE T == InTree
             y == InsertParent(Value(n))
             s == IF Value(n) < Value(y) THEN "left" ELSE "right"
  <1>1. pc = "idle" /\ n \notin live /\ Calls /\ Stray(tree, T, doomed) /\ doomed = 0 /\ T = live /\ T \subseteq Nodes
    BY NodeFacts DEF Insert, RBInv, Calls, InTree
  <1>2. PICK N, at, pos, b, h : /\ Shape(tree, T, N, at, pos, b) /\ Sorted(N, at)
                                /\ Balanced(tree, T, h, 0, "left") /\ RedBut(tree, T, {})
    BY <1>1 DEF RBInv, Red, Phase
  <1>3. /\ tree' = LeafLinked(tree, n, y, s) /\ live' = live \cup {n} /\ pc' = "insert_fixup" /\ node' = n
        /\ UNCHANGED <<parent, doomed>>
    BY DEF Insert, LeafLinked
  <1>4. InTree' = T \cup {n} /\ Calls'
    BY <1>1, <1>3, NodeFacts DEF InTree, Calls
  <1>5. tree \in Trees /\ s \in Sides /\ n \notin T
    BY <1>1, <1>2 DEF Shape, Sides
  <1>6. tree.root # 0 => y \in T /\ tree.child[s][y] = 0 /\ Fits(N, at, Value(n), Gap(pos, s, y), 1, N)
    BY <1>1, <1>2, InsertPlace
  <1>7. tree.root = 0 => y = 0
    BY NodeFacts DEF InsertParent
  <1>8. (tree.root = 0) = (T = {})
    BY <1>1, <1>2, NodeFacts DEF Shape, Rooted
  <1> HIDE DEF y, s, T
  <1>9. CASE tree.root = 0
    <2>1. y = 0 /\ T = {} /\ y \in Pointers /\ y # n
      BY <1>7, <1>8, <1>9, NodeFacts
    <2>2. /\ tree' \in Trees /\ tree'.root = n /\ tree'.red = tree.red \cup {n}
          /\ \A m \in Nodes : tree'.parent[m] = IF m = n THEN 0 ELSE tree.parent[m]
          /\ \A a \in Sides : \A m \in Nodes : tree'.child[a][m] = IF m = n THEN 0 ELSE tree.child[a][m]
      BY <1>3, <1>5, <2>1, LeafCells
    <2>3. n \in tree'.red /\ tree'.parent[n] = 0 /\ \A a \in Sides : tree'.child[a][n] = 0
      BY <2>2
    <2>4. PICK N2, at2, pos2, b2, h2 : /\ Shape(tree', {n}, N2, at2, pos2, b2) /\ Sorted(N2, at2)
                                       /\ InsertState(tree', {n}, h2, n)
      BY <2>2, <2>3, FirstNode
    <2>5. Stray(tree', {n}, 0)
      BY <1>1, <2>1, <2>2, NodeFacts DEF Stray
    <2>6. Red(tree', {n}, N2, at2, pos2, b2, h2, "left", pc', node', parent')
      BY <1>3, <2>4 DEF Red, Phase
    <2>7. InTree' = {n} /\ doomed' = 0
      BY <1>1, <1>3, <1>4, <2>1
    <2> QED
      BY <1>4, <2>5, <2>6, <2>7 DEF RBInv
  <1>10. CASE tree.root # 0
    <2> DEFINE T2 == T \cup {n}
               i == Gap(pos, s, y)
    <2>1. y \in T /\ y \in Pointers /\ y # 0 /\ y # n /\ tree.child[s][y] = 0
      BY <1>1, <1>5, <1>6, <1>10, NodeFacts
    <2>2. LeafAdded(tree, n, y, s, tree')
      BY <1>3, <1>5, <2>1, LeafCells
    <2>3. /\ i \in 1 .. N + 1
          /\ Shape(tree', T2, N + 1, AtWith(at, N, n, i), PosWith(T, pos, n, i), EndsWith(T, b, n, i, pos[y]))
      BY <1>2, <1>5, <2>1, <2>2, LeafShape
    <2>4. Sorted(N + 1, AtWith(at, N, n, i))
      <3>1. Fits(N, at, Value(n), i, 1, N) /\ Numbered(T, N, at, pos)
        BY <1>2, <1>6, <1>10 DEF Shape
      <3> HIDE DEF i
      <3> QED
        BY <1>2, <2>3, <3>1, SortedWith
    <2>5. PICK h2 : InsertState(tree', T2, h2, n)
      BY <1>2, <1>5, <2>1, <2>2, LeafBalanced
    <2>6. Stray(tree', T2, 0)
      BY <1>1, <1>5, <2>1, <2>2 DEF Stray, LeafAdded
    <2>7. Red(tree', T2, N + 1, AtWith(at, N, n, i), PosWith(T, pos, n, i), EndsWith(T, b, n, i, pos[y]), h2,
              "left", pc', node', parent')
      BY <1>3, <2>3, <2>4, <2>5 DEF Red, Phase
    <2>8. InTree' = T2 /\ doomed' = 0
      BY <1>1, <1>3, <1>4
    <2> HIDE DEF T2, i
    <2> QED
      BY <1>4, <2>6, <2>7, <2>8 DEF RBInv
  <1> QED
    BY <1>9, <1>10

-----------------------------------------------------------------------------
(* erase: a node with at most one child is taken out. *)

\* The node n, which has at most one child c, is taken out: c takes its place.
CutOut(t, n, c, u) ==
  LET p == t.parent[n]
  IN  /\ u \in Trees /\ u.red = t.red
      /\ u.root = IF p = 0 THEN c ELSE t.root
      /\ \A x \in Nodes : u.parent[x] = IF x = c THEN p ELSE t.parent[x]
      /\ \A a \in Sides : \A x \in Nodes :
           u.child[a][x] = IF x = p /\ a = SideOf(t, p, n) THEN c ELSE t.child[a][x]

\* The numbers after that.
AtWithout(at, N, i) == [j \in 1 .. N - 1 |-> IF j < i THEN at[j] ELSE at[j + 1]]
\* The positions without it, and the ends of the subtrees.
PosWithout(T, pos, n) == [m \in T \ {n} |-> IF pos[m] > pos[n] THEN pos[m] - 1 ELSE pos[m]]
EndsWithout(T, b, n, i) ==
  [a \in Sides |-> [m \in T \ {n} |->
     IF a = "left" THEN IF b[a][m] > i THEN b[a][m] - 1 ELSE b[a][m]
     ELSE IF b[a][m] >= i THEN b[a][m] - 1 ELSE b[a][m]]]

\* They number the nodes that are left.
LEMMA NumberedWithout ==
  ASSUME NEW T, NEW N, NEW at, NEW pos, Numbered(T, N, at, pos), NEW n \in T
  PROVE  Numbered(T \ {n}, N - 1, AtWithout(at, N, pos[n]), PosWithout(T, pos, n))
  <1> DEFINE T2 == T \ {n}
             i == pos[n]
             at2 == AtWithout(at, N, i)
             pos2 == PosWithout(T, pos, n)
  <1>1. /\ T \subseteq Nodes /\ N \in Nat /\ at \in [1 .. N -> T] /\ pos \in [T -> 1 .. N]
        /\ (\A m \in T : at[pos[m]] = m) /\ \A j \in 1 .. N : pos[at[j]] = j
    BY DEF Numbered
  <1>2. i \in 1 .. N /\ at[i] = n
    BY <1>1
  <1>3. \A m \in T2 : m \in T /\ pos[m] \in 1 .. N /\ pos[m] # i
    BY <1>1, <1>2
  <1>4. \A j \in 1 .. N : j # i => at[j] \in T2
    BY <1>1
  <1> HIDE DEF i
  <1>5. \A j \in 1 .. N - 1 : /\ j \in 1 .. N /\ j + 1 \in 1 .. N
                              /\ at2[j] = IF j < i THEN at[j] ELSE at[j + 1]
    BY <1>1 DEF AtWithout
  <1>6. \A m \in T2 : pos2[m] = IF pos[m] > i THEN pos[m] - 1 ELSE pos[m]
    BY DEF PosWithout, i
  <1>7. at2 \in [1 .. N - 1 -> T2]
    <2>1. \A j \in 1 .. N - 1 : (IF j < i THEN at[j] ELSE at[j + 1]) \in T2
      BY <1>1, <1>2, <1>4, <1>5
    <2> QED
      BY <2>1 DEF AtWithout
  <1>8. pos2 \in [T2 -> 1 .. N - 1]
    <2>1. \A m \in T2 : pos2[m] \in 1 .. N - 1
      BY <1>1, <1>2, <1>3, <1>6
    <2>2. pos2 = [m \in T2 |-> pos2[m]]
      BY DEF PosWithout
    <2> HIDE DEF pos2
    <2> QED
      BY <2>1, <2>2
  <1> HIDE DEF at2, pos2, T2
  <1>9. ASSUME NEW m \in T2 PROVE at2[pos2[m]] = m
    <2>1. pos2[m] \in 1 .. N - 1 /\ pos[m] \in 1 .. N /\ pos[m] # i /\ at[pos[m]] = m
      BY <1>1, <1>3, <1>8
    <2>2. pos2[m] = IF pos[m] > i THEN pos[m] - 1 ELSE pos[m]
      BY <1>6
    <2>3. at2[pos2[m]] = IF pos2[m] < i THEN at[pos2[m]] ELSE at[pos2[m] + 1]
      BY <1>5, <2>1
    <2>4. IF pos2[m] < i THEN pos2[m] = pos[m] ELSE pos2[m] + 1 = pos[m]
      BY <1>1, <1>2, <2>1, <2>2
    <2> QED
      BY <2>1, <2>3, <2>4
  <1>10. ASSUME NEW j \in 1 .. N - 1 PROVE pos2[at2[j]] = j
    <2>1. at2[j] = IF j < i THEN at[j] ELSE at[j + 1]
      BY <1>5
    <2>2. at2[j] \in T2
      BY <1>7
    <2>3. pos2[at2[j]] = IF pos[at2[j]] > i THEN pos[at2[j]] - 1 ELSE pos[at2[j]]
      BY <1>6, <2>2
    <2>4. pos[at2[j]] = IF j < i THEN j ELSE j + 1
      BY <1>1, <1>5, <2>1
    <2> QED
      BY <1>1, <1>2, <2>3, <2>4
  <1>11. T2 \subseteq Nodes /\ N - 1 \in Nat
    BY <1>1, <1>2 DEF T2
  <1>12. Numbered(T2, N - 1, at2, pos2)
    BY <1>7, <1>8, <1>9, <1>10, <1>11 DEF Numbered
  <1> QED
    BY <1>12 DEF at2, pos2, T2, i

\* The values stay in order.
LEMMA SortedWithout ==
  ASSUME NEW N \in Nat, NEW at, Sorted(N, at), NEW i \in 1 .. N
  PROVE  Sorted(N - 1, AtWithout(at, N, i))
  <1> DEFINE at2 == AtWithout(at, N, i)
  <1> SUFFICES ASSUME NEW j \in 1 .. N - 1, NEW k \in 1 .. N - 1, j <= k PROVE Value(at2[j]) <= Value(at2[k])
    BY DEF Sorted
  <1> DEFINE j2 == IF j < i THEN j ELSE j + 1
             k2 == IF k < i THEN k ELSE k + 1
  <1>1. at2[j] = at[j2] /\ at2[k] = at[k2]
    BY DEF AtWithout
  <1>2. j2 \in 1 .. N /\ k2 \in 1 .. N /\ j2 <= k2
    OBVIOUS
  <1> HIDE DEF j2, k2, at2
  <1>3. Value(at[j2]) <= Value(at[k2])
    BY <1>2 DEF Sorted
  <1> QED
    BY <1>1, <1>3

\* The links of the tree that is left (rbtree.h:416-458).
LEMMA CutShape ==
  ASSUME NEW t, NEW T, NEW N, NEW at, NEW pos, NEW b, Shape(t, T, N, at, pos, b),
         NEW n \in T, NEW k \in Sides, t.child[k][n] = 0, NEW c, c = t.child[Other(k)][n],
         NEW u, CutOut(t, n, c, u)
  PROVE  Shape(u, T \ {n}, N - 1, AtWithout(at, N, pos[n]), PosWithout(T, pos, n), EndsWithout(T, b, n, pos[n]))
  <1> DEFINE i == pos[n]
             T2 == T \ {n}
             p2 == PosWithout(T, pos, n)
             b2 == EndsWithout(T, b, n, i)
             p == t.parent[n]
             d == SideOf(t, p, n)
  <1>1. /\ N \in Nat /\ T \subseteq Nodes /\ pos \in [T -> 1 .. N] /\ (\A m \in T : at[pos[m]] = m)
        /\ \A m \in T : /\ m \in Nodes /\ m # 0 /\ pos[m] \in 1 .. N /\ b["left"][m] \in 1 .. N /\ b["right"][m] \in 1 .. N
                        /\ b["left"][m] <= pos[m] /\ pos[m] <= b["right"][m]
                        /\ \A a \in Sides : /\ SpansAt(t, T, pos, b, m, a)
                                            /\ t.child[a][m] # 0 => t.child[a][m] \in T
                        /\ t.parent[m] # 0 => t.parent[m] \in T
    BY ShapeFacts
  <1>2. i \in 1 .. N /\ \A m \in T2 : m \in T /\ pos[m] # i
    BY <1>1
  <1>3. Other(k) \in Sides /\ Other(k) # k /\ Other(Other(k)) = k /\ Sides = {"left", "right"}
        /\ \A a \in Sides : a = k \/ a = Other(k)
    BY NodeFacts DEF Other
  <1>4. c # 0 => c \in T /\ c # n /\ t.parent[c] = n /\ c # p /\ c # t.root
    <2>1. ChildFacts(t, T, n, Other(k))
      BY <1>3, Neighbors
    <2> QED
      BY <2>1 DEF ChildFacts
  <1>5. IF p = 0 THEN n = t.root
        ELSE p \in T /\ p # n /\ d \in Sides /\ t.child[d][p] = n /\ t.child[Other(d)][p] # n /\ Other(d) \in Sides
    <2>1. ParentFacts(t, T, n)
      BY Neighbors
    <2>2. p # 0 => p \in T /\ d \in Sides /\ t.child[d][p] = n /\ n # 0 /\ p # n
      BY <1>1, <2>1 DEF ParentFacts
    <2>3. p # 0 => ChildFacts(t, T, p, d)
      BY <2>2, Neighbors
    <2>4. p # 0 => t.child[Other(d)][p] # n /\ Other(d) \in Sides
      BY <2>2, <2>3, NodeFacts DEF ChildFacts
    <2> QED
      BY <2>1, <2>2, <2>4 DEF ParentFacts
  <1>6. /\ u \in Trees /\ u.root = IF p = 0 THEN c ELSE t.root
        /\ \A x \in Nodes : u.parent[x] = IF x = c THEN p ELSE t.parent[x]
        /\ \A a \in Sides : \A x \in Nodes : u.child[a][x] = IF x = p /\ a = d THEN c ELSE t.child[a][x]
    BY DEF CutOut
  <1>7. Numbered(T2, N - 1, AtWithout(at, N, i), p2)
    BY NumberedWithout DEF Shape
  <1>8. \A m \in T2 : p2[m] = IF pos[m] > i THEN pos[m] - 1 ELSE pos[m]
    BY DEF PosWithout
  <1>9. \A m \in T2 : /\ b2["left"][m] = IF b["left"][m] > i THEN b["left"][m] - 1 ELSE b["left"][m]
                      /\ b2["right"][m] = IF b["right"][m] >= i THEN b["right"][m] - 1 ELSE b["right"][m]
    BY <1>3 DEF EndsWithout
  <1> HIDE DEF i, p, d
  <1>10. b2 \in [Sides -> [T2 -> 1 .. N - 1]]
    <2>1. \A m \in T2 : b2["left"][m] \in 1 .. N - 1 /\ b2["right"][m] \in 1 .. N - 1
      <3> SUFFICES ASSUME NEW m \in T2
                   PROVE  b2["left"][m] \in 1 .. N - 1 /\ b2["right"][m] \in 1 .. N - 1
        OBVIOUS
      <3>1. /\ pos[m] \in 1 .. N /\ b["left"][m] \in 1 .. N /\ b["right"][m] \in 1 .. N
            /\ b["left"][m] <= pos[m] /\ pos[m] <= b["right"][m] /\ pos[m] # i
        BY <1>1, <1>2
      <3>2. /\ b2["left"][m] = IF b["left"][m] > i THEN b["left"][m] - 1 ELSE b["left"][m]
            /\ b2["right"][m] = IF b["right"][m] >= i THEN b["right"][m] - 1 ELSE b["right"][m]
        BY <1>9
      <3> HIDE DEF b2
      <3> QED
        BY <1>1, <1>2, <3>1, <3>2
    <2>2. b2 = [a \in Sides |-> [m \in T2 |-> b2[a][m]]]
      BY DEF EndsWithout
    <2> HIDE DEF b2, T2
    <2>3. \A a \in Sides : [m \in T2 |-> b2[a][m]] \in [T2 -> 1 .. N - 1]
      BY <1>3, <2>1
    <2> QED
      BY <2>2, <2>3
  <1> HIDE DEF p2, b2
  <1>11. ASSUME NEW m \in T2 PROVE b2["left"][m] <= p2[m] /\ p2[m] <= b2["right"][m]
    <2>1. /\ pos[m] \in 1 .. N /\ b["left"][m] \in 1 .. N /\ b["right"][m] \in 1 .. N
          /\ b["left"][m] <= pos[m] /\ pos[m] <= b["right"][m] /\ pos[m] # i
      BY <1>1, <1>2
    <2>2. /\ b2["left"][m] = IF b["left"][m] > i THEN b["left"][m] - 1 ELSE b["left"][m]
          /\ b2["right"][m] = IF b["right"][m] >= i THEN b["right"][m] - 1 ELSE b["right"][m]
          /\ p2[m] = IF pos[m] > i THEN pos[m] - 1 ELSE pos[m]
      BY <1>8, <1>9
    <2> QED
      BY <1>2, <2>1, <2>2
  <1>12. /\ b[k][n] = i
         /\ IF c = 0 THEN b[Other(k)][n] = i
            ELSE b[Other(k)][c] = b[Other(k)][n] /\ b[k][c] = Beside(Other(k), i)
    BY <1>1, <1>3 DEF SpansAt, i
  <1>13. ASSUME NEW m \in T2, NEW a \in Sides PROVE SpansAt(u, T2, p2, b2, m, a)
    <2>0. /\ pos[m] \in 1 .. N /\ b["left"][m] \in 1 .. N /\ b["right"][m] \in 1 .. N
          /\ b["left"][m] <= pos[m] /\ pos[m] <= b["right"][m] /\ pos[m] # i /\ m \in Nodes /\ m \in T
          /\ SpansAt(t, T, pos, b, m, a)
          /\ b2["left"][m] = IF b["left"][m] > i THEN b["left"][m] - 1 ELSE b["left"][m]
          /\ b2["right"][m] = IF b["right"][m] >= i THEN b["right"][m] - 1 ELSE b["right"][m]
          /\ p2[m] = IF pos[m] > i THEN pos[m] - 1 ELSE pos[m]
      BY <1>1, <1>2, <1>8, <1>9
    <2>1. CASE m = p /\ a = d
      <3>1. u.child[a][m] = c /\ t.child[a][m] = n /\ n # 0
        BY <1>1, <1>5, <1>6, <2>0, <2>1
      <3>2. b[a][n] = b[a][m] /\ b[Other(a)][n] = Beside(a, pos[m])
        BY <2>0, <3>1 DEF SpansAt
      <3>3. CASE c = 0
        <4>1. b[a][n] = i /\ b[Other(a)][n] = i
          BY <1>3, <1>12, <3>3 DEF Other
        <4>2. b2[a][m] = p2[m]
          <5>1. b[a][m] = i /\ Beside(a, pos[m]) = i
            BY <3>2, <4>1
          <5>2. CASE a = "left"
            BY <1>2, <2>0, <5>1, <5>2 DEF Beside
          <5>3. CASE a = "right"
            BY <1>2, <2>0, <5>1, <5>3 DEF Beside
          <5> QED
            BY <1>3, <5>2, <5>3
        <4> QED
          BY <3>1, <3>3, <4>2 DEF SpansAt
      <3>4. CASE c # 0
        <4>1. c \in T2 /\ c \in T /\ c \in Nodes /\ u.parent[c] = m
          BY <1>1, <1>4, <1>6, <2>1, <3>4
        <4>2. /\ b["left"][c] \in 1 .. N /\ b["right"][c] \in 1 .. N /\ b["left"][c] <= b["right"][c]
              /\ b2["left"][c] = IF b["left"][c] > i THEN b["left"][c] - 1 ELSE b["left"][c]
              /\ b2["right"][c] = IF b["right"][c] >= i THEN b["right"][c] - 1 ELSE b["right"][c]
          <5>1. /\ b["left"][c] \in 1 .. N /\ b["right"][c] \in 1 .. N /\ b["left"][c] <= pos[c]
                /\ pos[c] \in 1 .. N /\ pos[c] <= b["right"][c]
            BY <1>1, <4>1
          <5> QED
            BY <1>9, <4>1, <5>1
        <4>3. b[k][n] = i /\ b[Other(k)][c] = b[Other(k)][n] /\ b[k][c] = Beside(Other(k), i)
          BY <1>12, <3>4
        <4>4. b2[a][c] = b2[a][m] /\ b2[Other(a)][c] = Beside(a, p2[m])
          <5>1. CASE a = "left" /\ k = "left"
            BY <1>2, <2>0, <3>2, <4>2, <4>3, <5>1 DEF Beside, Other
          <5>2. CASE a = "left" /\ k = "right"
            BY <1>2, <2>0, <3>2, <4>2, <4>3, <5>2 DEF Beside, Other
          <5>3. CASE a = "right" /\ k = "left"
            BY <1>2, <2>0, <3>2, <4>2, <4>3, <5>3 DEF Beside, Other
          <5>4. CASE a = "right" /\ k = "right"
            BY <1>2, <2>0, <3>2, <4>2, <4>3, <5>4 DEF Beside, Other
          <5> QED
            BY <1>3, <5>1, <5>2, <5>3, <5>4
        <4> QED
          BY <3>1, <3>4, <4>1, <4>4 DEF SpansAt
      <3> QED
        BY <3>3, <3>4
    <2>2. CASE ~(m = p /\ a = d)
      <3> DEFINE e == t.child[a][m]
      <3>1. u.child[a][m] = e
        BY <1>6, <2>0, <2>2
      <3>2. e # 0 => e \in T /\ t.parent[e] = m /\ b[a][e] = b[a][m] /\ b[Other(a)][e] = Beside(a, pos[m])
        BY <2>0 DEF SpansAt
      <3>3. e = 0 => b[a][m] = pos[m]
        BY <2>0 DEF SpansAt
      <3>4. e # n
        <4> SUFFICES ASSUME e = n PROVE FALSE
          OBVIOUS
        <4>1. p = m /\ p # 0
          BY <1>1, <2>0, <3>2 DEF p
        <4>2. t.child[Other(d)][p] # n /\ d \in Sides
          BY <1>5, <4>1
        <4>3. a = Other(d)
          BY <1>3, <2>2, <4>1, <4>2 DEF Other
        <4> QED
          BY <4>1, <4>2, <4>3
      <3> HIDE DEF e
      <3>5. CASE e = 0
        <4>1. b2[a][m] = p2[m]
          BY <1>2, <1>3, <2>0, <3>3, <3>5
        <4> QED
          BY <3>1, <3>5, <4>1 DEF SpansAt
      <3>6. CASE e # 0
        <4>1. e \in T2 /\ e \in Nodes /\ e # c
          BY <1>1, <1>4, <3>2, <3>4, <3>6
        <4>2. u.parent[e] = m
          BY <1>6, <3>2, <3>6, <4>1
        <4>3. /\ b["left"][e] \in 1 .. N /\ b["right"][e] \in 1 .. N
              /\ b2["left"][e] = IF b["left"][e] > i THEN b["left"][e] - 1 ELSE b["left"][e]
              /\ b2["right"][e] = IF b["right"][e] >= i THEN b["right"][e] - 1 ELSE b["right"][e]
          BY <1>1, <1>9, <4>1
        <4>4. b2[a][e] = b2[a][m] /\ b2[Other(a)][e] = Beside(a, p2[m])
          <5>1. CASE a = "left"
            BY <1>2, <2>0, <3>2, <3>6, <4>3, <5>1 DEF Beside, Other
          <5>2. CASE a = "right"
            BY <1>2, <2>0, <3>2, <3>6, <4>3, <5>2 DEF Beside, Other
          <5> QED
            BY <1>3, <5>1, <5>2
        <4> QED
          BY <3>1, <3>6, <4>1, <4>2, <4>4 DEF SpansAt
      <3> QED
        BY <3>5, <3>6
    <2> QED
      BY <2>1, <2>2
  <1>14. Spans(u, T2, N - 1, p2, b2)
    BY <1>10, <1>11, <1>13 DEF Spans
  <1>15. Hangs(u, T2)
    <2> SUFFICES ASSUME NEW m \in T2
                 PROVE  IF u.parent[m] = 0 THEN m = u.root
                        ELSE u.parent[m] \in T2 /\ \E a \in Sides : u.child[a][u.parent[m]] = m
      BY DEF Hangs
    <2>1. CASE m = c
      <3>1. u.parent[m] = p /\ m # 0
        BY <1>1, <1>2, <1>6, <2>1
      <3>2. p # 0 => p \in T2 /\ p \in Nodes /\ d \in Sides
        BY <1>1, <1>5
      <3> QED
        BY <1>6, <2>1, <3>1, <3>2
    <2>2. CASE m # c
      <3> DEFINE q == t.parent[m]
      <3>1. m \in T /\ m \in Nodes /\ m # n /\ u.parent[m] = q
        BY <1>1, <1>6, <2>2
      <3>2. IF q = 0 THEN m = t.root ELSE q \in T /\ \E a \in Sides : t.child[a][q] = m
        BY <3>1 DEF Shape, Hangs
      <3> HIDE DEF q
      <3>3. CASE q = 0
        <4>1. p # 0
          <5> SUFFICES ASSUME p = 0 PROVE FALSE
            OBVIOUS
          <5> QED
            BY <1>5, <3>1, <3>2, <3>3
        <4> QED
          BY <1>6, <3>1, <3>2, <3>3, <4>1
      <3>4. CASE q # 0
        <4>1. PICK a \in Sides : t.child[a][q] = m
          BY <3>2, <3>4
        <4>2. q # n
          <5> SUFFICES ASSUME q = n PROVE FALSE
            OBVIOUS
          <5> QED
            BY <1>1, <1>3, <2>2, <3>1, <4>1
        <4>3. u.child[a][q] = m
          <5>1. ~(q = p /\ a = d)
            BY <1>5, <3>1, <3>4, <4>1
          <5> QED
            BY <1>1, <1>6, <3>2, <3>4, <4>1, <5>1
        <4> QED
          BY <3>1, <3>2, <3>4, <4>2, <4>3
      <3> QED
        BY <3>3, <3>4
    <2> QED
      BY <2>1, <2>2
  <1>16. Rooted(u, T2, N - 1, b2)
    <2>1. t.root \in T /\ t.parent[t.root] = 0 /\ b["left"][t.root] = 1 /\ b["right"][t.root] = N
      BY DEF Shape, Rooted
    <2>2. CASE p # 0
      <3>1. t.root # n /\ t.root # c /\ t.root \in T2 /\ t.root \in Nodes
        BY <1>1, <1>4, <2>1, <2>2 DEF p
      <3>2. u.root = t.root /\ u.parent[u.root] = 0
        BY <1>6, <2>1, <2>2, <3>1
      <3>3. b2["left"][t.root] = 1 /\ b2["right"][t.root] = N - 1
        BY <1>2, <1>9, <2>1, <3>1
      <3> QED
        BY <3>1, <3>2, <3>3 DEF Rooted
    <2>3. CASE p = 0
      <3>1. n = t.root /\ u.root = c
        BY <1>5, <1>6, <2>3
      <3>2. CASE c = 0
        <4>1. i = 1 /\ i = N
          BY <1>3, <1>12, <2>1, <3>1, <3>2
        <4>2. T2 = {}
          <5> SUFFICES ASSUME NEW m \in T2 PROVE FALSE
            OBVIOUS
          <5>1. pos[m] \in 1 .. N /\ pos[m] # i
            BY <1>1, <1>2
          <5> QED
            BY <4>1, <5>1
        <4> QED
          BY <3>1, <3>2, <4>2 DEF Rooted
      <3>3. CASE c # 0
        <4>1. c \in T2 /\ c \in Nodes /\ u.parent[c] = 0 /\ T2 # {}
          BY <1>1, <1>4, <1>6, <2>3, <3>3
        <4>2. b[k][n] = i /\ b[Other(k)][c] = b[Other(k)][n] /\ b[k][c] = Beside(Other(k), i)
          BY <1>12, <3>3
        <4>3. /\ b2["left"][c] = IF b["left"][c] > i THEN b["left"][c] - 1 ELSE b["left"][c]
              /\ b2["right"][c] = IF b["right"][c] >= i THEN b["right"][c] - 1 ELSE b["right"][c]
          BY <1>9, <4>1
        <4>4. b2["left"][c] = 1 /\ b2["right"][c] = N - 1
          <5>1. CASE k = "left"
            BY <1>1, <1>2, <2>1, <3>1, <4>2, <4>3, <5>1 DEF Beside, Other
          <5>2. CASE k = "right"
            BY <1>1, <1>2, <2>1, <3>1, <4>2, <4>3, <5>2 DEF Beside, Other
          <5> QED
            BY <1>3, <5>1, <5>2
        <4> QED
          BY <3>1, <4>1, <4>4 DEF Rooted
      <3> QED
        BY <3>2, <3>3
    <2> QED
      BY <2>2, <2>3
  <1>17. Shape(u, T2, N - 1, AtWithout(at, N, i), p2, b2)
    BY <1>6, <1>7, <1>14, <1>15, <1>16 DEF Shape
  <1> QED
    BY <1>17 DEF i, p2, b2

\* The tree without n: in the loop of erase_fixup, or ready for the deletion of n.
CutStateOf(u, T, h, hp, hs, nd, black) ==
  IF black /\ u.root # 0 THEN EraseState(u, T, h, hp, hs, nd)
  ELSE Balanced(u, T, h, 0, "left") /\ RedBut(u, T, {})

\* A black node is missing where n was, if n was black (rbtree.h:432-436, 459-463, 521-525).
LEMMA CutState ==
  ASSUME NEW t, NEW T, NEW N, NEW at, NEW pos, NEW b, Shape(t, T, N, at, pos, b),
         NEW n \in T, NEW k \in Sides, t.child[k][n] = 0, NEW c, c = t.child[Other(k)][n],
         NEW u, CutOut(t, n, c, u), NEW h, Balanced(t, T, h, 0, "left"), RedBut(t, T, {}),
         NEW N2, NEW at2, NEW pos2, NEW b2, Shape(u, T \ {n}, N2, at2, pos2, b2)
  PROVE  \E h2 : CutStateOf(u, T \ {n}, h2, t.parent[n], SideOf(t, t.parent[n], n), c, n \notin t.red)
  <1> DEFINE T2 == T \ {n}
             p == t.parent[n]
             d == SideOf(t, p, n)
             h2 == [x \in T2 |-> h[x]]
  <1>1. /\ T \subseteq Nodes /\ 0 \notin T
        /\ \A x \in T : /\ x \in Nodes /\ x # 0
                        /\ \A a \in Sides : t.child[a][x] # 0 => t.child[a][x] \in T
                        /\ t.parent[x] # 0 => t.parent[x] \in T
    BY ShapeFacts
  <1>2. Other(k) \in Sides /\ Other(k) # k /\ \A a \in Sides : a = k \/ a = Other(k)
    BY NodeFacts DEF Sides, Other
  <1>3. c # 0 => c \in T2 /\ t.parent[c] = n /\ c # p
    <2>1. ChildFacts(t, T, n, Other(k))
      BY <1>2, Neighbors
    <2> QED
      BY <2>1 DEF ChildFacts
  <1>4. /\ d \in Sides
        /\ IF p = 0 THEN n = t.root ELSE p \in T2 /\ t.child[d][p] = n
    <2>1. ParentFacts(t, T, n)
      BY Neighbors
    <2> QED
      BY <2>1 DEF ParentFacts, SideOf, Sides
  <1>5. /\ u \in Trees /\ u.red = t.red /\ u.root = IF p = 0 THEN c ELSE t.root
        /\ \A x \in Nodes : u.parent[x] = IF x = c THEN p ELSE t.parent[x]
        /\ \A a \in Sides : \A x \in Nodes : u.child[a][x] = IF x = p /\ a = d THEN c ELSE t.child[a][x]
    BY DEF CutOut
  <1>6. \A x \in T : \A a \in Sides : /\ h[x] = Ht(t, h, x, a) + Black(t, x) /\ h[x] \in Nat
                                      /\ Ht(t, h, x, a) \in Nat
    BY NoHole
  <1> HIDE DEF p, d
  <1>7. h2 \in [T2 -> Nat] /\ \A x \in T2 : h2[x] = h[x]
    BY <1>6
  <1> HIDE DEF h2
  <1>8. \A x \in T2 : \A a \in Sides : ~(x = p /\ a = d) => Ht(u, h2, x, a) = Ht(t, h, x, a)
    <2> SUFFICES ASSUME NEW x \in T2, NEW a \in Sides, ~(x = p /\ a = d)
                 PROVE  Ht(u, h2, x, a) = Ht(t, h, x, a)
      OBVIOUS
    <2>1. u.child[a][x] = t.child[a][x] /\ x \in T
      BY <1>1, <1>5
    <2>2. t.child[a][x] # n
      <3> SUFFICES ASSUME t.child[a][x] = n PROVE FALSE
        OBVIOUS
      <3>1. ChildFacts(t, T, x, a) /\ n # 0
        BY <1>1, <2>1, Neighbors
      <3>2. t.parent[n] = x /\ SideOf(t, x, n) = a
        BY <3>1 DEF ChildFacts
      <3> QED
        BY <3>2 DEF p, d
    <2>3. t.child[a][x] # 0 => t.child[a][x] \in T2
      BY <1>1, <2>1, <2>2
    <2> QED
      BY <1>7, <2>1, <2>3 DEF Ht
  <1>9. p # 0 => Ht(t, h, p, d) = Ht(u, h2, p, d) + Black(t, n) /\ Ht(u, h2, p, d) \in Nat
    <2> SUFFICES ASSUME p # 0
                 PROVE  Ht(t, h, p, d) = Ht(u, h2, p, d) + Black(t, n) /\ Ht(u, h2, p, d) \in Nat
      OBVIOUS
    <2>1. p \in T2 /\ t.child[d][p] = n /\ d \in Sides /\ u.child[d][p] = c
      BY <1>1, <1>4, <1>5
    <2>2. Ht(t, h, p, d) = h[n]
      BY <1>1, <2>1 DEF Ht
    <2>3. h[n] = Ht(t, h, n, Other(k)) + Black(t, n) /\ Ht(t, h, n, Other(k)) \in Nat
      BY <1>2, <1>6
    <2>4. Ht(u, h2, p, d) = Ht(t, h, n, Other(k))
      BY <1>3, <1>7, <2>1 DEF Ht
    <2> QED
      BY <2>2, <2>3, <2>4
  <1>10. \A x \in T2 : Black(u, x) = Black(t, x) /\ Black(t, x) \in {0, 1}
    BY <1>5 DEF Black
  <1>11. ASSUME NEW x \in T2, NEW a \in Sides, NEW hp, NEW hs,
                IF n \in t.red THEN hp = 0 ELSE hp = p /\ hs = d
         PROVE  h2[x] = Ht(u, h2, x, a) + Hole(hp, hs, x, a) + Black(u, x)
    <2>1. h[x] = Ht(t, h, x, a) + Black(t, x) /\ h2[x] = h[x] /\ Black(u, x) = Black(t, x) /\ Black(t, x) \in {0, 1}
          /\ Ht(t, h, x, a) \in Nat
      BY <1>6, <1>7, <1>10
    <2>2. CASE x = p /\ a = d
      <3>1. p # 0
        BY <1>1, <2>2
      <3>2. Hole(hp, hs, x, a) = Black(t, n)
        BY <1>11, <2>2, <3>1 DEF Hole, Black
      <3>3. Black(t, n) \in {0, 1}
        BY DEF Black
      <3> QED
        BY <1>9, <2>1, <2>2, <3>1, <3>2, <3>3
    <2>3. CASE ~(x = p /\ a = d)
      <3>1. Hole(hp, hs, x, a) = 0
        BY <1>1, <1>11, <2>3 DEF Hole
      <3>2. Ht(u, h2, x, a) = Ht(t, h, x, a)
        BY <1>8, <2>3
      <3> QED
        BY <2>1, <3>1, <3>2
    <2> QED
      BY <2>2, <2>3
  <1>12. n \notin t.red => Balanced(u, T2, h2, p, d)
    BY <1>7, <1>11 DEF Balanced, BalancedAt
  <1>13. n \in t.red => Balanced(u, T2, h2, 0, "left")
    BY <1>7, <1>11 DEF Balanced, BalancedAt
  <1>14. ASSUME NEW x \in T2, x \in u.red, x # c PROVE u.parent[x] # 0 /\ u.parent[x] \notin u.red
    BY <1>1, <1>5, <1>14 DEF RedBut
  <1>15. n \in t.red => c \notin u.red
    <2> SUFFICES ASSUME n \in t.red, c \in u.red PROVE FALSE
      OBVIOUS
    <2>1. c # 0
      BY <1>5, NodeFacts DEF Trees
    <2> QED
      BY <1>3, <1>5, <2>1 DEF RedBut
  <1>16. CASE n \in t.red
    <2>1. RedBut(u, T2, {})
      BY <1>14, <1>15, <1>16 DEF RedBut
    <2> QED
      BY <1>13, <1>16, <2>1 DEF CutStateOf
  <1>17. CASE u.root = 0
    <2>1. T2 = {}
      BY <1>1, <1>17 DEF Shape, Rooted
    <2>2. Balanced(u, T2, h2, 0, "left") /\ RedBut(u, T2, {})
      BY <1>7, <2>1 DEF Balanced, RedBut
    <2> QED
      BY <1>17, <2>2 DEF CutStateOf
  <1>18. CASE n \notin t.red /\ u.root # 0
    <2>1. RedBut(u, T2, {x \in T2 : x = c \/ (c # 0 /\ u.parent[x] = c)})
      BY <1>14 DEF RedBut
    <2>2. u.red \subseteq Nodes
      BY <1>5 DEF Trees
    <2>3. c \in T2 \cup {0} /\ (c = 0 => p # 0)
      BY <1>3, <1>5, <1>18
    <2>4. IF p = 0 THEN c = u.root ELSE p \in T2 /\ u.child[d][p] = c
      BY <1>1, <1>4, <1>5
    <2>5. EraseState(u, T2, h2, p, d, c)
      BY <1>4, <1>12, <1>18, <2>1, <2>2, <2>3, <2>4 DEF EraseState
    <2> QED
      BY <1>18, <2>5 DEF CutStateOf, p, d
  <1> QED
    BY <1>16, <1>17, <1>18

\* The node n of the tree v is replaced by m, with its links and its color.
As(n, m, x) == IF x = n THEN m ELSE x
\* The set with m in the place of n.
Put(S, n, m) == (S \ {n}) \cup {m}

\* The tree u is v with m in the place of n.
Renamed(v, S, n, m, u) ==
  /\ n \in S /\ m \in Nodes /\ m \notin S
  /\ u \in Trees /\ u.root = As(n, m, v.root)
  /\ \A x \in S : /\ u.parent[As(n, m, x)] = As(n, m, v.parent[x])
                  /\ \A a \in Sides : u.child[a][As(n, m, x)] = As(n, m, v.child[a][x])
                  /\ (As(n, m, x) \in u.red) = (x \in v.red)

\* It is the same tree under other names.
LEMMA RenameShape ==
  ASSUME NEW v, NEW S, NEW N, NEW at, NEW pos, NEW b, Shape(v, S, N, at, pos, b),
         NEW n, NEW m, NEW u, Renamed(v, S, n, m, u)
  PROVE  Shape(u, Put(S, n, m), N, [j \in 1 .. N |-> As(n, m, at[j])],
               [x \in Put(S, n, m) |-> pos[As(m, n, x)]],
               [a \in Sides |-> [x \in Put(S, n, m) |-> b[a][As(m, n, x)]]])
  <1> DEFINE S2 == Put(S, n, m)
             at2 == [j \in 1 .. N |-> As(n, m, at[j])]
             p2 == [x \in S2 |-> pos[As(m, n, x)]]
             b2 == [a \in Sides |-> [x \in S2 |-> b[a][As(m, n, x)]]]
  <1>1. /\ n \in S /\ m \in Nodes /\ m \notin S /\ m # 0 /\ n # 0 /\ n # m
        /\ S \subseteq Nodes /\ 0 \notin S /\ N \in Nat
        /\ at \in [1 .. N -> S] /\ pos \in [S -> 1 .. N]
        /\ \A x \in S : at[pos[x]] = x
        /\ \A j \in 1 .. N : pos[at[j]] = j
        /\ b \in [Sides -> [S -> 1 .. N]]
    <2>1. n \in S /\ m \in Nodes /\ m \notin S
      BY DEF Renamed
    <2>2. S \subseteq Nodes
      BY DEF Shape, Numbered
    <2> QED
      BY <2>1, <2>2, NodeFacts DEF Shape, Numbered, Spans
  <1>2. \A x \in S2 : /\ As(m, n, x) \in S /\ As(n, m, As(m, n, x)) = x /\ x \in Nodes /\ x # 0
    BY <1>1 DEF Put, As
  <1>3. \A x \in S : As(n, m, x) \in S2 /\ As(m, n, As(n, m, x)) = x
    BY <1>1 DEF Put, As
  <1>4. /\ u \in Trees /\ u.root = As(n, m, v.root)
        /\ \A x \in S2 : /\ u.parent[x] = As(n, m, v.parent[As(m, n, x)])
                         /\ \A a \in Sides : u.child[a][x] = As(n, m, v.child[a][As(m, n, x)])
    BY <1>2 DEF Renamed
  <1>5. Numbered(S2, N, at2, p2)
    <2>1. at2 \in [1 .. N -> S2] /\ p2 \in [S2 -> 1 .. N] /\ S2 \subseteq Nodes
      BY <1>1, <1>2, <1>3
    <2>2. \A x \in S2 : at2[p2[x]] = x
      BY <1>1, <1>2
    <2>3. \A j \in 1 .. N : p2[at2[j]] = j
      BY <1>1, <1>3
    <2> QED
      BY <1>1, <2>1, <2>2, <2>3 DEF Numbered
  <1>6. /\ \A x \in S2 : p2[x] = pos[As(m, n, x)]
        /\ \A a \in Sides : \A x \in S2 : b2[a][x] = b[a][As(m, n, x)]
    OBVIOUS
  <1>7. b2 \in [Sides -> [S2 -> 1 .. N]]
    BY <1>1, <1>2
  <1> HIDE DEF S2, at2, p2, b2
  <1>8. \A x \in S : /\ b["left"][x] <= pos[x] /\ pos[x] <= b["right"][x]
                     /\ \A a \in Sides : SpansAt(v, S, pos, b, x, a)
    BY DEF Shape, Spans
  <1>9. ASSUME NEW x \in S2, NEW a \in Sides PROVE SpansAt(u, S2, p2, b2, x, a)
    <2> DEFINE y == As(m, n, x)
               c == v.child[a][y]
    <2>1. y \in S /\ SpansAt(v, S, pos, b, y, a) /\ Other(a) \in Sides /\ As(n, m, y) = x
      BY <1>2, <1>8, NodeFacts
    <2>2. u.child[a][x] = As(n, m, c)
      BY <1>4
    <2>3. CASE c = 0
      <3>1. u.child[a][x] = 0
        BY <1>1, <2>2, <2>3 DEF As
      <3>2. b2[a][x] = p2[x]
        BY <1>6, <2>1, <2>3 DEF SpansAt
      <3> QED
        BY <3>1, <3>2 DEF SpansAt
    <2>4. CASE c # 0
      <3>1. c \in S /\ v.parent[c] = y /\ b[a][c] = b[a][y] /\ b[Other(a)][c] = Beside(a, pos[y])
        BY <2>1, <2>4 DEF SpansAt
      <3> DEFINE e == As(n, m, c)
      <3>2. e \in S2 /\ As(m, n, e) = c /\ e # 0
        BY <1>2, <1>3, <3>1
      <3> HIDE DEF e, c, y
      <3>3. u.parent[e] = x
        BY <1>4, <2>1, <3>1, <3>2
      <3>4. b2[a][e] = b2[a][x] /\ b2[Other(a)][e] = Beside(a, p2[x])
        BY <1>6, <2>1, <3>1, <3>2 DEF y
      <3> QED
        BY <2>2, <3>2, <3>3, <3>4 DEF SpansAt, e
    <2> QED
      BY <2>3, <2>4
  <1>10. Spans(u, S2, N, p2, b2)
    <2>1. \A x \in S2 : b2["left"][x] <= p2[x] /\ p2[x] <= b2["right"][x]
      BY <1>2, <1>6, <1>8, NodeFacts
    <2> QED
      BY <1>7, <1>9, <2>1 DEF Spans
  <1>11. Hangs(u, S2)
    <2> SUFFICES ASSUME NEW x \in S2
                 PROVE  IF u.parent[x] = 0 THEN x = u.root
                        ELSE u.parent[x] \in S2 /\ \E a \in Sides : u.child[a][u.parent[x]] = x
      BY DEF Hangs
    <2> DEFINE y == As(m, n, x)
               q == v.parent[y]
    <2>1. /\ y \in S /\ As(n, m, y) = x /\ u.parent[x] = As(n, m, q)
      BY <1>2, <1>4
    <2>2. IF q = 0 THEN y = v.root ELSE q \in S /\ \E a \in Sides : v.child[a][q] = y
      BY <2>1 DEF Shape, Hangs
    <2> HIDE DEF y, q
    <2>3. CASE q = 0
      <3>1. u.parent[x] = 0
        BY <1>1, <2>1, <2>3 DEF As
      <3>2. x = u.root
        BY <1>4, <2>1, <2>2, <2>3
      <3> QED
        BY <3>1, <3>2
    <2>4. CASE q # 0
      <3>1. PICK a \in Sides : v.child[a][q] = y
        BY <2>2, <2>4
      <3> DEFINE e == As(n, m, q)
      <3>2. e \in S2 /\ As(m, n, e) = q /\ e # 0
        BY <1>2, <1>3, <2>2, <2>4
      <3> HIDE DEF e
      <3>3. u.child[a][e] = x
        BY <1>4, <2>1, <3>1, <3>2
      <3> QED
        BY <2>1, <3>2, <3>3 DEF e
    <2> QED
      BY <2>3, <2>4
  <1>12. Rooted(u, S2, N, b2)
    <2>1. v.root \in S /\ v.parent[v.root] = 0 /\ b["left"][v.root] = 1 /\ b["right"][v.root] = N
      BY <1>1 DEF Shape, Rooted
    <2>2. u.root \in S2 /\ As(m, n, u.root) = v.root
      BY <1>3, <1>4, <2>1
    <2>3. u.parent[u.root] = 0
      BY <1>1, <1>4, <2>1, <2>2 DEF As
    <2>4. b2["left"][u.root] = 1 /\ b2["right"][u.root] = N
      BY <1>6, <2>1, <2>2, NodeFacts
    <2> QED
      BY <2>2, <2>3, <2>4 DEF Rooted
  <1>13. Shape(u, S2, N, at2, p2, b2)
    BY <1>4, <1>5, <1>10, <1>11, <1>12 DEF Shape
  <1> QED
    BY <1>13 DEF S2, at2, p2, b2

\* The colors are the same too.
LEMMA RenameState ==
  ASSUME NEW v, NEW S, NEW N, NEW at, NEW pos, NEW b, Shape(v, S, N, at, pos, b),
         NEW n, NEW m, NEW u, Renamed(v, S, n, m, u), NEW h, NEW hp, NEW hs, NEW nd, nd # n, NEW black,
         CutStateOf(v, S, h, hp, hs, nd, black)
  PROVE  \E h2 : CutStateOf(u, Put(S, n, m), h2, As(n, m, hp), hs, nd, black)
  <1> DEFINE S2 == Put(S, n, m)
             h2 == [x \in S2 |-> h[As(m, n, x)]]
             ep == As(n, m, hp)
  <1>1. /\ n \in S /\ m \in Nodes /\ m \notin S /\ m # 0 /\ n # 0 /\ n # m
        /\ S \subseteq Nodes /\ 0 \notin S
        /\ \A x \in S : /\ \A a \in Sides : v.child[a][x] # 0 => v.child[a][x] \in S
                        /\ v.parent[x] # 0 => v.parent[x] \in S
    <2>1. n \in S /\ m \in Nodes /\ m \notin S
      BY DEF Renamed
    <2>2. S \subseteq Nodes
      BY DEF Shape, Numbered
    <2>3. \A x \in S : /\ \A a \in Sides : v.child[a][x] # 0 => v.child[a][x] \in S
                       /\ v.parent[x] # 0 => v.parent[x] \in S
      BY ShapeFacts
    <2> QED
      BY <2>1, <2>2, <2>3, NodeFacts
  <1>2. \A x \in S2 : /\ As(m, n, x) \in S /\ As(n, m, As(m, n, x)) = x /\ x \in Nodes /\ x # 0
    BY <1>1 DEF Put, As
  <1>3. \A x \in S : As(n, m, x) \in S2 /\ As(m, n, As(n, m, x)) = x
    BY <1>1 DEF Put, As
  <1>4. /\ u \in Trees /\ u.root = As(n, m, v.root)
        /\ \A x \in S2 : /\ u.parent[x] = As(n, m, v.parent[As(m, n, x)])
                         /\ \A a \in Sides : u.child[a][x] = As(n, m, v.child[a][As(m, n, x)])
                         /\ (x \in u.red) = (As(m, n, x) \in v.red)
    BY <1>2 DEF Renamed
  <1>5. \A x \in S2 : h2[x] = h[As(m, n, x)]
    OBVIOUS
  <1>6. ASSUME NEW e, NEW es, e # m, Balanced(v, S, h, e, es)
        PROVE  Balanced(u, S2, h2, As(n, m, e), es)
    <2>1. h \in [S -> Nat]
      BY <1>6 DEF Balanced
    <2>2. h2 \in [S2 -> Nat]
      BY <1>2, <2>1
    <2> HIDE DEF h2
    <2>3. ASSUME NEW x \in S2, NEW a \in Sides
          PROVE  h2[x] = Ht(u, h2, x, a) + Hole(As(n, m, e), es, x, a) + Black(u, x)
      <3> DEFINE y == As(m, n, x)
                 c == v.child[a][y]
      <3>1. y \in S /\ As(n, m, y) = x /\ (x \in u.red) = (y \in v.red) /\ u.child[a][x] = As(n, m, c)
        BY <1>2, <1>4
      <3>2. h[y] = Ht(v, h, y, a) + Hole(e, es, y, a) + Black(v, y)
        BY <1>6, <3>1 DEF Balanced, BalancedAt
      <3>3. Black(u, x) = Black(v, y)
        BY <3>1 DEF Black
      <3>4. Hole(As(n, m, e), es, x, a) = Hole(e, es, y, a)
        <4>1. (x = As(n, m, e)) = (y = e)
          BY <1>1, <1>6, <3>1 DEF As
        <4> QED
          BY <4>1 DEF Hole
      <3>5. Ht(u, h2, x, a) = Ht(v, h, y, a)
        <4>1. c # 0 => c \in S
          BY <1>1, <3>1
        <4>2. CASE c = 0
          <5>1. u.child[a][x] = 0
            BY <1>1, <3>1, <4>2 DEF As
          <5> QED
            BY <4>2, <5>1 DEF Ht
        <4>3. CASE c # 0
          <5>1. As(n, m, c) \in S2 /\ As(m, n, As(n, m, c)) = c /\ As(n, m, c) # 0
            BY <1>2, <1>3, <4>1, <4>3
          <5> QED
            BY <1>5, <3>1, <4>3, <5>1 DEF Ht
        <4> QED
          BY <4>2, <4>3
      <3>6. h2[x] = h[y]
        BY <1>5
      <3> QED
        BY <3>2, <3>3, <3>4, <3>5, <3>6
    <2> QED
      BY <2>2, <2>3 DEF Balanced, BalancedAt
  <1>7. ASSUME NEW x \in S2, NEW y, y = As(m, n, x), v.parent[y] # 0, v.parent[y] \notin v.red
        PROVE  u.parent[x] # 0 /\ u.parent[x] \notin u.red
    <2> DEFINE q == v.parent[y]
    <2>1. y \in S /\ q \in S /\ u.parent[x] = As(n, m, q)
      BY <1>1, <1>2, <1>4, <1>7
    <2>2. As(n, m, q) \in S2 /\ As(m, n, As(n, m, q)) = q
      BY <1>3, <2>1
    <2>3. As(n, m, q) # 0 /\ As(n, m, q) \notin u.red
      BY <1>2, <1>4, <1>7, <2>2
    <2> QED
      BY <2>1, <2>3
  <1> HIDE DEF h2
  <1>8. (u.root = 0) = (v.root = 0)
    BY <1>1, <1>4 DEF As
  <1>9. CASE ~(black /\ v.root # 0)
    <2>1. Balanced(v, S, h, 0, "left") /\ RedBut(v, S, {})
      BY <1>9 DEF CutStateOf
    <2>2. Balanced(u, S2, h2, 0, "left")
      <3>1. As(n, m, 0) = 0
        BY <1>1 DEF As
      <3> QED
        BY <1>1, <1>6, <2>1, <3>1
    <2>3. RedBut(u, S2, {})
      <3> SUFFICES ASSUME NEW x \in S2, x \in u.red PROVE u.parent[x] # 0 /\ u.parent[x] \notin u.red
        BY DEF RedBut
      <3>1. As(m, n, x) \in S /\ As(m, n, x) \in v.red
        BY <1>2, <1>4
      <3>2. v.parent[As(m, n, x)] # 0 /\ v.parent[As(m, n, x)] \notin v.red
        BY <2>1, <3>1 DEF RedBut
      <3> QED
        BY <1>7, <3>2
    <2> QED
      BY <1>8, <1>9, <2>2, <2>3 DEF CutStateOf
  <1>10. CASE black /\ v.root # 0
    <2>1. EraseState(v, S, h, hp, hs, nd)
      BY <1>10 DEF CutStateOf
    <2>2. /\ Balanced(v, S, h, hp, hs) /\ hs \in Sides
          /\ RedBut(v, S, {x \in S : x = nd \/ (nd # 0 /\ v.parent[x] = nd)})
          /\ nd \in S \cup {0} /\ (nd = 0 => hp # 0)
          /\ IF hp = 0 THEN nd = v.root ELSE hp \in S /\ v.child[hs][hp] = nd
      BY <2>1 DEF EraseState
    <2>3. hp # m /\ nd # m /\ As(n, m, nd) = nd
      BY <1>1, <2>2 DEF As
    <2>4. Balanced(u, S2, h2, ep, hs)
      BY <1>6, <2>2, <2>3
    <2>5. nd \in S2 \cup {0}
      BY <1>3, <2>2, <2>3
    <2>6. nd = 0 => ep # 0
      BY <1>1, <2>2 DEF As
    <2>7. IF ep = 0 THEN nd = u.root ELSE ep \in S2 /\ u.child[hs][ep] = nd
      <3>1. CASE hp = 0
        <4>1. ep = 0 /\ nd = u.root
          BY <1>1, <1>4, <2>2, <2>3, <3>1 DEF As
        <4> QED
          BY <4>1
      <3>2. CASE hp # 0
        <4>1. ep \in S2 /\ As(m, n, ep) = hp
          BY <1>3, <2>2, <3>2
        <4>2. u.child[hs][ep] = nd /\ ep # 0
          BY <1>2, <1>4, <2>2, <2>3, <3>2, <4>1
        <4> QED
          BY <4>1, <4>2
      <3> QED
        BY <3>1, <3>2
    <2>8. RedBut(u, S2, {x \in S2 : x = nd \/ (nd # 0 /\ u.parent[x] = nd)})
      <3> SUFFICES ASSUME NEW x \in S2, x \in u.red, x # nd, ~(nd # 0 /\ u.parent[x] = nd)
                   PROVE  u.parent[x] # 0 /\ u.parent[x] \notin u.red
        BY DEF RedBut
      <3> DEFINE y == As(m, n, x)
      <3>1. y \in S /\ y \in v.red /\ As(n, m, y) = x /\ u.parent[x] = As(n, m, v.parent[y])
        BY <1>2, <1>4
      <3>2. y # nd
        BY <2>3, <3>1
      <3>3. ~(nd # 0 /\ v.parent[y] = nd)
        BY <2>3, <3>1
      <3>4. v.parent[y] # 0 /\ v.parent[y] \notin v.red
        BY <2>2, <3>1, <3>2, <3>3 DEF RedBut
      <3> QED
        BY <1>7, <3>4
    <2>9. u.red \subseteq Nodes
      BY <1>4 DEF Trees
    <2>10. EraseState(u, S2, h2, ep, hs, nd)
      BY <2>2, <2>4, <2>5, <2>6, <2>7, <2>8, <2>9 DEF EraseState
    <2> QED
      BY <1>8, <1>10, <2>10 DEF CutStateOf
  <1> QED
    BY <1>9, <1>10

\* The code that takes out a node with at most one child (rbtree.h:416-458).
Splice(t, n, c) == SetParent(Replace(t, n, c), c, t.parent[n])

\* The cells after it.
LEMMA SpliceIsCut ==
  ASSUME NEW t \in Trees, NEW n \in Nodes, NEW c \in Pointers
  PROVE  CutOut(t, n, c, Splice(t, n, c))
  <1> DEFINE u1 == Replace(t, n, c)
             p == t.parent[n]
             u == Splice(t, n, c)
  <1>1. Replaced(t, n, c, u1)
    BY ReplaceCells
  <1>2. p \in Pointers
    BY DEF Trees
  <1>3. u = SetParent(u1, c, p)
    BY DEF Splice
  <1> HIDE DEF u1, u, p
  <1>4. u1 \in Trees
    BY <1>1 DEF Replaced
  <1>5. ParentSet(u1, c, p, u)
    BY <1>2, <1>3, <1>4, SetParentCells
  <1>6. CutOut(t, n, c, u)
    BY <1>1, <1>5 DEF ParentSet, Replaced, CutOut, p
  <1> QED
    BY <1>6 DEF u

-----------------------------------------------------------------------------
(* erase: the successor takes the place of a node with two children. *)

\* The node n with two children l and r, its successor m, with parent q and right child
\* c, and the parent p of n.
Succession(t, T, n, l, r, m, q, c, p) ==
  /\ n \in T /\ l \in T /\ r \in T /\ m \in T /\ q \in T /\ 0 \notin T
  /\ l = t.child["left"][n] /\ r = t.child["right"][n] /\ c = t.child["right"][m]
  /\ q = t.parent[m] /\ p = t.parent[n] /\ t.child["left"][m] = 0
  /\ l # n /\ r # n /\ l # r /\ m # n /\ m # l /\ t.parent[l] = n /\ t.parent[r] = n
  /\ c \in T \cup {0} /\ c \notin {n, l, r, m} /\ (c # 0 => t.parent[c] = m)
  /\ q \notin {m, l, p} /\ p \notin {n, m, l, r}
  /\ (q = n) = (m = r) /\ SideOf(t, q, m) = (IF q = n THEN "right" ELSE "left")
  /\ IF p = 0 THEN n = t.root ELSE p \in T /\ SideOf(t, p, n) \in Sides /\ t.child[SideOf(t, p, n)][p] = n
  /\ \A x \in T : t.parent[x] = n => x \in {l, r}
  /\ \A x \in T : \A a \in Sides : t.child[a][x] = n => x = p /\ a = SideOf(t, p, n)
  /\ t.parent[t.root] = 0

\* They are told apart by their positions.
LEMMA SuccessorFacts ==
  ASSUME NEW t, NEW T, NEW N, NEW at, NEW pos, NEW b, Shape(t, T, N, at, pos, b),
         NEW n \in T, t.child["left"][n] # 0, t.child["right"][n] # 0,
         NEW m \in T, t.child["left"][m] = 0, pos[m] = b["left"][t.child["right"][n]]
  PROVE  /\ Succession(t, T, n, t.child["left"][n], t.child["right"][n], m, t.parent[m], t.child["right"][m],
                       t.parent[n])
         /\ pos[m] = pos[n] + 1
  <1> DEFINE l == t.child["left"][n]
             r == t.child["right"][n]
             q == t.parent[m]
             c == t.child["right"][m]
             p == t.parent[n]
  <1>1. /\ N \in Nat /\ T \subseteq Nodes /\ 0 \notin T
        /\ \A x \in T : /\ pos[x] \in 1 .. N /\ b["left"][x] \in 1 .. N /\ b["right"][x] \in 1 .. N
                        /\ b["left"][x] <= pos[x] /\ pos[x] <= b["right"][x]
                        /\ \A a \in Sides : SpansAt(t, T, pos, b, x, a)
    BY ShapeFacts
  <1>2. \A x \in T : ParentFacts(t, T, x) /\ \A a \in Sides : ChildFacts(t, T, x, a)
    BY Neighbors
  <1>3. "left" \in Sides /\ "right" \in Sides /\ Other("left") = "right" /\ Other("right") = "left"
        /\ \A a \in Sides : a = "left" \/ a = "right"
    BY DEF Sides, Other
  <1>4. /\ l \in T /\ l # n /\ t.parent[l] = n /\ r # l /\ p # l
        /\ r \in T /\ r # n /\ t.parent[r] = n /\ p # r
    BY <1>2, <1>3 DEF ChildFacts
  <1>5. /\ b["right"][l] = pos[n] - 1 /\ b["left"][r] = pos[n] + 1
    BY <1>1, <1>3 DEF SpansAt, Beside
  <1>6. pos[m] = pos[n] + 1 /\ b["left"][m] = pos[m]
    BY <1>1, <1>3, <1>5 DEF SpansAt
  <1>7. m # n /\ m # l
    BY <1>1, <1>4, <1>5, <1>6
  <1>8. p # n /\ (IF p = 0 THEN n = t.root ELSE p \in T /\ SideOf(t, p, n) \in Sides /\ t.child[SideOf(t, p, n)][p] = n)
    BY <1>1, <1>2 DEF ParentFacts
  <1>9. \A x \in T : \A a \in Sides : t.child[a][x] # 0 =>
           /\ t.child[a][x] \in T
           /\ a = "left" => pos[t.child[a][x]] < pos[x] /\ b["left"][t.child[a][x]] = b["left"][x]
           /\ a = "right" => pos[x] < pos[t.child[a][x]] /\ b["left"][t.child[a][x]] = pos[x] + 1
    <2> SUFFICES ASSUME NEW x \in T, NEW a \in Sides, t.child[a][x] # 0
                 PROVE  /\ t.child[a][x] \in T
                        /\ a = "left" => pos[t.child[a][x]] < pos[x] /\ b["left"][t.child[a][x]] = b["left"][x]
                        /\ a = "right" => pos[x] < pos[t.child[a][x]] /\ b["left"][t.child[a][x]] = pos[x] + 1
      OBVIOUS
    <2> DEFINE e == t.child[a][x]
    <2>1. e \in T /\ b[a][e] = b[a][x] /\ b[Other(a)][e] = Beside(a, pos[x])
      BY <1>1 DEF SpansAt
    <2>2. /\ pos[x] \in 1 .. N /\ pos[e] \in 1 .. N /\ b["left"][e] \in 1 .. N /\ b["right"][e] \in 1 .. N
          /\ b["left"][e] <= pos[e] /\ pos[e] <= b["right"][e]
      BY <1>1, <2>1
    <2> HIDE DEF e
    <2>3. CASE a = "left"
      <3>1. b["left"][e] = b["left"][x] /\ b["right"][e] = pos[x] - 1
        BY <1>3, <2>1, <2>3 DEF Beside
      <3> QED
        BY <1>1, <2>1, <2>2, <2>3, <3>1 DEF e
    <2>4. CASE a = "right"
      <3>1. b["left"][e] = pos[x] + 1
        BY <1>3, <2>1, <2>4 DEF Beside
      <3> QED
        BY <1>1, <2>1, <2>2, <2>4, <3>1 DEF e
    <2> QED
      BY <1>3, <2>3, <2>4
  <1>15. t.parent[t.root] = 0
    BY DEF Shape, Rooted
  <1>10. m # t.root
    <2> SUFFICES ASSUME m = t.root PROVE FALSE
      OBVIOUS
    <2>1. b["left"][m] = 1
      BY DEF Shape, Rooted
    <2> QED
      BY <1>1, <1>6, <2>1
  <1>11. q # 0 /\ q \in T /\ q # m /\ SideOf(t, q, m) \in Sides /\ t.child[SideOf(t, q, m)][q] = m
    BY <1>1, <1>2, <1>10 DEF ParentFacts
  <1> DEFINE k == SideOf(t, q, m)
  <1>12. c # 0 => c \in T /\ c # m /\ t.parent[c] = m
    BY <1>2, <1>3 DEF ChildFacts
  <1> HIDE DEF k, q, c, p
  <1>13. CASE k = "right"
    <2>1. b["left"][m] = pos[q] + 1
      <3>1. t.child["right"][q] = m /\ m # 0
        BY <1>1, <1>11, <1>13 DEF k
      <3> QED
        BY <1>3, <1>9, <1>11, <3>1
    <2>2. pos[q] = pos[n]
      BY <1>1, <1>6, <1>11, <2>1
    <2>3. q = n
      <3>1. at[pos[q]] = q /\ at[pos[n]] = n
        BY <1>11, ShapeFacts
      <3> QED
        BY <2>2, <3>1
    <2>4. m = r
      BY <1>11, <1>13, <2>3 DEF k
    <2>5. q # l /\ q # p
      BY <1>4, <1>8, <2>3
    <2> QED
      <3>1. m # p
        <4>1. t.parent[m] = n /\ n # 0
          BY <1>1, <2>3 DEF q
        <4>2. p # r
          BY <1>4 DEF p
        <4> QED
          BY <2>4, <4>2
      <3>2. c \notin {n, l, r}
        BY <1>1, <1>4, <1>7, <1>12, <2>4, <3>1 DEF p
      <3>3. Succession(t, T, n, l, r, m, q, c, p)
        <4>1. \A x \in T : t.parent[x] = n => x \in {l, r}
          BY <1>1, <1>2, <1>3 DEF ParentFacts
        <4>2. \A x \in T : \A a \in Sides : t.child[a][x] = n => x = p /\ a = SideOf(t, p, n)
          BY <1>1, <1>2 DEF ChildFacts, p
        <4>3. /\ l = t.child["left"][n] /\ r = t.child["right"][n] /\ c = t.child["right"][m]
              /\ q = t.parent[m] /\ p = t.parent[n] /\ t.child["left"][m] = 0
          BY DEF q, c, p
        <4>4. SideOf(t, q, m) = "right" /\ p \notin {n, m, l, r} /\ q \notin {m, l, p}
          BY <1>4, <1>8, <1>11, <1>13, <2>5, <3>1 DEF k, p
        <4> HIDE DEF l, r
        <4>5. (q = n) = (m = r)
          BY <2>3, <2>4
        <4>6. SideOf(t, q, m) = (IF q = n THEN "right" ELSE "left")
          BY <2>3, <4>4
        <4> QED
          BY <1>1, <1>4, <1>7, <1>8, <1>11, <1>12, <1>15, <3>2, <4>1, <4>2, <4>3, <4>4, <4>5, <4>6 DEF Succession
      <3> QED
        BY <1>6, <3>3 DEF q, c, p
  <1>14. CASE k = "left"
    <2>1. pos[m] < pos[q] /\ t.child["left"][q] = m
      <3>1. t.child["left"][q] = m /\ m # 0
        BY <1>1, <1>11, <1>14 DEF k
      <3> QED
        BY <1>3, <1>9, <1>11, <3>1
    <2>2. pos[q] \in 1 .. N /\ pos[n] \in 1 .. N /\ pos[l] \in 1 .. N /\ pos[n] < pos[q] /\ pos[l] < pos[n]
      <3>1. pos[q] \in 1 .. N /\ pos[n] \in 1 .. N /\ pos[m] \in 1 .. N /\ pos[l] \in 1 .. N
        BY <1>1, <1>4, <1>11
      <3>2. pos[l] <= b["right"][l] /\ b["right"][l] \in 1 .. N
        BY <1>1, <1>4
      <3> HIDE DEF l, r
      <3> QED
        BY <1>5, <1>6, <2>1, <3>1, <3>2
    <2>3. q # n /\ q # l
      BY <2>2
    <2>4. m # r
      BY <2>3, <1>4 DEF q
    <2>5. q # p
      <3> SUFFICES ASSUME q = p PROVE FALSE
        OBVIOUS
      <3>1. p # 0 /\ SideOf(t, p, n) \in Sides /\ t.child[SideOf(t, p, n)][p] = n /\ p \in T /\ n # 0
        BY <1>1, <1>8, <1>11
      <3>2. t.child["left"][p] # n
        BY <1>7, <2>1
      <3>3. t.child["right"][p] = n
        BY <1>3, <3>1, <3>2
      <3>4. pos[p] < pos[n]
        BY <1>3, <1>9, <3>1, <3>3
      <3> QED
        BY <2>2, <3>4
    <2>6. m # p
      <3> SUFFICES ASSUME m = p PROVE FALSE
        OBVIOUS
      <3>1. p # 0 /\ SideOf(t, p, n) \in Sides /\ t.child[SideOf(t, p, n)][p] = n /\ p \in T /\ n # 0
        BY <1>1, <1>8
      <3>2. t.child["right"][p] = n
        BY <1>3, <3>1
      <3>3. pos[p] < pos[n]
        BY <1>3, <1>9, <3>1, <3>2
      <3>4. pos[n] \in 1 .. N
        BY <1>1
      <3> HIDE DEF l, r
      <3> QED
        BY <1>6, <3>3, <3>4
    <2>7. c \notin {n, l, r}
      BY <1>1, <1>4, <1>7, <1>12, <2>6 DEF p
    <2>8. Succession(t, T, n, l, r, m, q, c, p)
      <4>1. \A x \in T : t.parent[x] = n => x \in {l, r}
        BY <1>1, <1>2, <1>3 DEF ParentFacts
      <4>2. \A x \in T : \A a \in Sides : t.child[a][x] = n => x = p /\ a = SideOf(t, p, n)
        BY <1>1, <1>2 DEF ChildFacts, p
      <4>3. /\ l = t.child["left"][n] /\ r = t.child["right"][n] /\ c = t.child["right"][m]
            /\ q = t.parent[m] /\ p = t.parent[n] /\ t.child["left"][m] = 0
        BY DEF q, c, p
      <4>4. SideOf(t, q, m) = "left" /\ p \notin {n, m, l, r} /\ q \notin {m, l, p}
        BY <1>4, <1>8, <1>11, <1>14, <2>3, <2>5, <2>6 DEF k, p
      <4> HIDE DEF l, r
      <4>5. (q = n) = (m = r)
        BY <2>3, <2>4
      <4>6. SideOf(t, q, m) = (IF q = n THEN "right" ELSE "left")
        BY <2>3, <4>4
      <4> QED
        BY <1>1, <1>4, <1>7, <1>8, <1>11, <1>12, <1>15, <2>7, <4>1, <4>2, <4>3, <4>4, <4>5, <4>6 DEF Succession
    <2> QED
      BY <1>6, <2>8 DEF q, c, p
  <1> QED
    BY <1>3, <1>11, <1>13, <1>14 DEF k

\* The code that takes out a node n with two children: its successor m takes its place
\* and its color (rbtree.h:466-519).
Succeed(t, n, l, r, m, q, c, p) ==
  LET out == IF q = n THEN t
             ELSE SetParent([SetParent(t, c, q) EXCEPT !.child["left"][q] = c, !.child["right"][m] = r], r, m)
      in == SetParent([Replace(out, n, m) EXCEPT !.child["left"][m] = l, !.parent[m] = p], l, m)
  IN  CopyColor(in, m, n)

\* The cells after it.
Succeeded(t, n, l, r, m, q, c, p, u) ==
  /\ u \in Trees /\ u.root = IF p = 0 THEN m ELSE t.root
  /\ \A x \in Nodes : (x \in u.red) = IF x = m THEN n \in t.red ELSE x \in t.red
  /\ \A x \in Nodes :
       u.parent[x] = IF x = l THEN m ELSE IF x = m THEN p
                     ELSE IF q # n /\ x = r THEN m ELSE IF q # n /\ x = c THEN q ELSE t.parent[x]
  /\ \A a \in Sides : \A x \in Nodes :
       u.child[a][x] = IF a = "left" /\ x = m THEN l
                       ELSE IF x = p /\ a = SideOf(t, p, n) THEN m
                       ELSE IF q # n /\ a = "right" /\ x = m THEN r
                       ELSE IF q # n /\ a = "left" /\ x = q THEN c ELSE t.child[a][x]

\* The assignments of the code come to that (rbtree.h:466-519).
LEMMA SucceedCells ==
  ASSUME NEW t \in Trees, NEW T \in SUBSET Nodes, NEW n, NEW l, NEW r, NEW m, NEW q, NEW c, NEW p,
         Succession(t, T, n, l, r, m, q, c, p)
  PROVE  Succeeded(t, n, l, r, m, q, c, p, Succeed(t, n, l, r, m, q, c, p))
  <1> DEFINE o1 == SetParent(t, c, q)
             o2 == SetChild(o1, "left", q, c, "right", m, r)
             o3 == SetParent(o2, r, m)
             out == IF q = n THEN t ELSE o3
             i1 == Replace(out, n, m)
             i2 == [i1 EXCEPT !.child["left"][m] = l]
             i3 == SetParent(i2, m, p)
             i4 == SetParent(i3, l, m)
             u == CopyColor(i4, m, n)
  <1>1. /\ n \in Nodes /\ l \in Nodes /\ r \in Nodes /\ m \in Nodes /\ q \in Nodes
        /\ n \in Pointers /\ l \in Pointers /\ r \in Pointers /\ m \in Pointers /\ q \in Pointers
        /\ c \in Pointers /\ p \in Pointers /\ m # 0
        /\ "left" \in Sides /\ "right" \in Sides
    BY NodeFacts DEF Succession
  <1>2. /\ l # n /\ r # n /\ l # r /\ m # n /\ m # l
        /\ c \notin {n, l, r, m} /\ q \notin {m, l, p} /\ p \notin {n, m, l, r} /\ p = t.parent[n]
    BY DEF Succession
  <1>3. /\ out \in Trees /\ out.root = t.root /\ out.red = t.red
        /\ \A x \in Nodes :
             out.parent[x] = IF q # n /\ x = r THEN m ELSE IF q # n /\ x = c THEN q ELSE t.parent[x]
        /\ \A a \in Sides : \A x \in Nodes :
             out.child[a][x] = IF q # n /\ a = "right" /\ x = m THEN r
                               ELSE IF q # n /\ a = "left" /\ x = q THEN c ELSE t.child[a][x]
    <2>1. CASE q = n
      BY <2>1
    <2>2. CASE q # n
      <3>1. out = o3
        BY <2>2
      <3> HIDE DEF out
      <3>2. ParentSet(t, c, q, o1)
        BY <1>1, SetParentCells
      <3> HIDE DEF o1
      <3>3. o1 \in Trees
        BY <3>2 DEF ParentSet
      <3>4. ChildrenSet(o1, "left", q, c, "right", m, r, o2)
        BY <1>1, <3>3, SetChildCells
      <3> HIDE DEF o2
      <3>5. o2 \in Trees
        BY <3>4 DEF ChildrenSet
      <3>6. ParentSet(o2, r, m, o3)
        BY <1>1, <3>5, SetParentCells
      <3> HIDE DEF o3
      <3>7. out \in Trees /\ out.root = t.root /\ out.red = t.red
        BY <3>1, <3>2, <3>4, <3>6 DEF ParentSet, ChildrenSet
      <3>8. \A x \in Nodes : out.parent[x] = IF x = r THEN m ELSE IF x = c THEN q ELSE t.parent[x]
        BY <3>1, <3>2, <3>4, <3>6 DEF ParentSet, ChildrenSet
      <3>9. \A a \in Sides : \A x \in Nodes :
              out.child[a][x] = IF a = "right" /\ x = m THEN r
                                ELSE IF a = "left" /\ x = q THEN c ELSE t.child[a][x]
        BY <3>1, <3>2, <3>4, <3>6 DEF ParentSet, ChildrenSet
      <3> QED
        BY <2>2, <3>7, <3>8, <3>9
    <2> QED
      BY <2>1, <2>2
  <1>4. Succeed(t, n, l, r, m, q, c, p) = u
    <2>1. out = IF q = n THEN t
                ELSE SetParent([SetParent(t, c, q) EXCEPT !.child["left"][q] = c, !.child["right"][m] = r], r, m)
      BY DEF SetChild
    <2> HIDE DEF out
    <2>2. m # nullptr
      BY <1>1 DEF nullptr
    <2>3. i3 = [i1 EXCEPT !.child["left"][m] = l, !.parent[m] = p]
      BY <2>2 DEF SetParent
    <2> HIDE DEF i3
    <2>4. u = CopyColor(SetParent([Replace(out, n, m) EXCEPT !.child["left"][m] = l, !.parent[m] = p], l, m), m, n)
      BY <2>3
    <2> QED
      BY <2>1, <2>4 DEF Succeed
  <1> HIDE DEF out
  <1>5. Replaced(out, n, m, i1)
    BY <1>1, <1>3, ReplaceCells
  <1>6. out.parent[n] = p /\ (p # 0 => SideOf(out, p, n) = SideOf(t, p, n))
    <2>1. out.parent[n] = p
      BY <1>1, <1>2, <1>3
    <2>2. p # 0 => out.child["left"][p] = t.child["left"][p]
      <3>1. p # 0 => p \in Nodes
        BY <1>1, NodeFacts
      <3> QED
        BY <1>1, <1>2, <1>3, <3>1
    <2> QED
      BY <2>1, <2>2 DEF SideOf
  <1> HIDE DEF i1
  <1>7. i1 \in Trees
    BY <1>5 DEF Replaced
  <1>8. ChildSet(i1, "left", m, l, i2)
    BY <1>1, <1>7, ChildSetCells
  <1> HIDE DEF i2
  <1>9. i2 \in Trees
    BY <1>8 DEF ChildSet
  <1>10. ParentSet(i2, m, p, i3)
    BY <1>1, <1>9, SetParentCells
  <1> HIDE DEF i3
  <1>11. i3 \in Trees
    BY <1>10 DEF ParentSet
  <1>12. ParentSet(i3, l, m, i4)
    BY <1>1, <1>11, SetParentCells
  <1> HIDE DEF i4
  <1>13. i4 \in Trees
    BY <1>12 DEF ParentSet
  <1>14. Painted(i4, u) /\ u \in Trees /\ u.red = IF n \in i4.red THEN i4.red \cup {m} ELSE i4.red \ {m}
    BY <1>1, <1>13, CopyColorCells
  <1> HIDE DEF u
  <1>15. u.root = (IF p = 0 THEN m ELSE t.root) /\ i4.red = t.red
    BY <1>3, <1>5, <1>6, <1>8, <1>10, <1>12, <1>14 DEF Painted, ParentSet, ChildSet, Replaced
  <1>16. \A x \in Nodes :
           u.parent[x] = IF x = l THEN m ELSE IF x = m THEN p
                         ELSE IF q # n /\ x = r THEN m ELSE IF q # n /\ x = c THEN q ELSE t.parent[x]
    BY <1>3, <1>5, <1>8, <1>10, <1>12, <1>14 DEF Painted, ParentSet, ChildSet, Replaced
  <1>17. \A a \in Sides : \A x \in Nodes :
           u.child[a][x] = IF a = "left" /\ x = m THEN l ELSE IF x = p /\ a = SideOf(t, p, n) THEN m
                           ELSE out.child[a][x]
    <2>1. \A a \in Sides : \A x \in Nodes : u.child[a][x] = IF a = "left" /\ x = m THEN l ELSE i1.child[a][x]
      BY <1>8, <1>10, <1>12, <1>14 DEF Painted, ParentSet, ChildSet
    <2>2. \A a \in Sides : \A x \in Nodes :
            i1.child[a][x] = IF x = p /\ a = SideOf(out, p, n) THEN m ELSE out.child[a][x]
      BY <1>5, <1>6 DEF Replaced
    <2>3. \A x \in Nodes : x = p => p # 0
      BY NodeFacts
    <2> QED
      BY <1>6, <2>1, <2>2, <2>3
  <1>18. \A x \in Nodes : (x \in u.red) = IF x = m THEN n \in t.red ELSE x \in t.red
    BY <1>14, <1>15
  <1>19. Succeeded(t, n, l, r, m, q, c, p, u)
    <2>1. \A a \in Sides : \A x \in Nodes :
           u.child[a][x] = IF a = "left" /\ x = m THEN l
                           ELSE IF x = p /\ a = SideOf(t, p, n) THEN m
                           ELSE IF q # n /\ a = "right" /\ x = m THEN r
                           ELSE IF q # n /\ a = "left" /\ x = q THEN c ELSE t.child[a][x]
      BY <1>3, <1>17
    <2> QED
      BY <1>14, <1>15, <1>16, <1>18, <2>1 DEF Succeeded
  <1> QED
    BY <1>4, <1>19

\* It is the tree without m, with m in the place of n.
LEMMA SucceedRenames ==
  ASSUME NEW t \in Trees, NEW T \in SUBSET Nodes, NEW n, NEW l, NEW r, NEW m, NEW q, NEW c, NEW p,
         Succession(t, T, n, l, r, m, q, c, p),
         NEW u, Succeeded(t, n, l, r, m, q, c, p, u), NEW v, CutOut(t, m, c, v)
  PROVE  Renamed(v, T \ {m}, n, m, u)
  <1>1. /\ n \in T /\ l \in T /\ r \in T /\ m \in T /\ q \in T /\ 0 \notin T /\ q # 0 /\ n # 0 /\ m # 0
        /\ l = t.child["left"][n] /\ r = t.child["right"][n] /\ c = t.child["right"][m]
        /\ q = t.parent[m] /\ p = t.parent[n] /\ t.child["left"][m] = 0
        /\ l # n /\ r # n /\ l # r /\ m # n /\ m # l /\ t.parent[l] = n /\ t.parent[r] = n
        /\ c \in T \cup {0} /\ c \notin {n, l, r, m} /\ (c # 0 => t.parent[c] = m)
        /\ q \notin {m, l, p} /\ p \notin {n, m, l, r}
        /\ (q = n) = (m = r) /\ SideOf(t, q, m) = (IF q = n THEN "right" ELSE "left")
        /\ \A a \in Sides : a = "left" \/ a = "right"
        /\ "left" \in Sides /\ "right" \in Sides /\ "left" # "right"
    BY DEF Succession, Sides
  <1>2. /\ IF p = 0 THEN n = t.root ELSE p \in T /\ SideOf(t, p, n) \in Sides /\ t.child[SideOf(t, p, n)][p] = n
        /\ \A x \in T : t.parent[x] = n => x \in {l, r}
        /\ \A x \in T : \A a \in Sides : t.child[a][x] = n => x = p /\ a = SideOf(t, p, n)
    BY DEF Succession
  <1>3. /\ v.red = t.red /\ v.root = t.root
        /\ \A x \in Nodes : v.parent[x] = IF x = c THEN q ELSE t.parent[x]
        /\ \A a \in Sides : \A x \in Nodes :
             v.child[a][x] = IF x = q /\ a = (IF q = n THEN "right" ELSE "left") THEN c ELSE t.child[a][x]
    BY <1>1 DEF CutOut
  <1>4. /\ u \in Trees /\ u.root = IF p = 0 THEN m ELSE t.root
        /\ \A x \in Nodes : (x \in u.red) = IF x = m THEN n \in t.red ELSE x \in t.red
        /\ \A x \in Nodes :
             u.parent[x] = IF x = l THEN m ELSE IF x = m THEN p
                           ELSE IF q # n /\ x = r THEN m ELSE IF q # n /\ x = c THEN q ELSE t.parent[x]
        /\ \A a \in Sides : \A x \in Nodes :
             u.child[a][x] = IF a = "left" /\ x = m THEN l
                             ELSE IF x = p /\ a = SideOf(t, p, n) THEN m
                             ELSE IF q # n /\ a = "right" /\ x = m THEN r
                             ELSE IF q # n /\ a = "left" /\ x = q THEN c ELSE t.child[a][x]
    BY DEF Succeeded
  <1>5. u.root = As(n, m, v.root)
    <2>1. p # 0 => t.root # n
      <3>1. t.parent[t.root] = 0
        BY DEF Succession
      <3> QED
        BY <1>1, <3>1
    <2> QED
      BY <1>2, <1>3, <1>4, <2>1 DEF As
  <1>6. ASSUME NEW x \in T \ {m} PROVE u.parent[As(n, m, x)] = As(n, m, v.parent[x])
    <2>1. CASE x = n
      BY <1>1, <1>3, <1>4, <2>1 DEF As
    <2>2. CASE x # n
      <3>1. t.parent[x] = n => x \in {l, r}
        BY <1>2
      <3>2. x \in Nodes /\ x # m /\ As(n, m, x) = x
        BY <2>2 DEF As
      <3> QED
        BY <1>1, <1>3, <1>4, <2>2, <3>1, <3>2 DEF As
    <2> QED
      BY <2>1, <2>2
  <1>7. ASSUME NEW x \in T \ {m}, NEW a \in Sides PROVE u.child[a][As(n, m, x)] = As(n, m, v.child[a][x])
    <2>1. CASE x = n
      BY <1>1, <1>3, <1>4, <2>1 DEF As
    <2>2. CASE x # n
      <3>1. t.child[a][x] = n => x = p /\ a = SideOf(t, p, n)
        BY <1>2
      <3>2. x \in Nodes /\ x # m /\ As(n, m, x) = x
        BY <2>2 DEF As
      <3>3. x = p /\ a = SideOf(t, p, n) => t.child[a][x] = n
        BY <1>1, <1>2
      <3> QED
        BY <1>1, <1>3, <1>4, <2>2, <3>1, <3>2, <3>3 DEF As
    <2> QED
      BY <2>1, <2>2
  <1>8. ASSUME NEW x \in T \ {m} PROVE (As(n, m, x) \in u.red) = (x \in v.red)
    <2>1. x \in Nodes /\ x # m /\ m \in Nodes
      BY <1>1
    <2> QED
      BY <1>3, <1>4, <2>1 DEF As
  <1> QED
    BY <1>1, <1>4, <1>5, <1>6, <1>7, <1>8 DEF Renamed

-----------------------------------------------------------------------------
(* erase. *)

\* The search for the least node of a subtree.
IsLeft(f) == f = [x \in Nodes |-> IF tree.child["left"][x] = nullptr THEN x ELSE f[tree.child["left"][x]]]

\* It finds the first node of its interval.
LEMMA LeftmostFacts ==
  ASSUME NEW T, NEW N, NEW at, NEW pos, NEW b, Shape(tree, T, N, at, pos, b),
         NEW d, Stray(tree, T, d), NEW r \in T
  PROVE  Leftmost(r) \in T /\ tree.child["left"][Leftmost(r)] = 0 /\ pos[Leftmost(r)] = b["left"][r]
  <1> DEFINE dir == [x \in Nodes |-> "left"]
             f == CHOOSE g : IsLeft(g)
  <1>1. Leftmost(r) = f[r]
    BY DEF Leftmost, IsLeft
  <1>2. dir \in [Nodes -> Sides]
    BY DEF Sides
  <1>3. \A x \in Nodes : dir[x] = "left"
    OBVIOUS
  <1>4. \A g : IsLeft(g) <=> IsWalkDown(g, tree, dir)
    <2> SUFFICES ASSUME NEW g PROVE IsLeft(g) <=> IsWalkDown(g, tree, dir)
      OBVIOUS
    <2> HIDE DEF dir
    <2>1. [x \in Nodes |-> IF tree.child["left"][x] = nullptr THEN x ELSE g[tree.child["left"][x]]]
          = [x \in Nodes |-> LET next == tree.child[dir[x]][x] IN IF next = 0 THEN x ELSE g[next]]
      BY <1>3, NodeFacts
    <2> QED
      BY <2>1 DEF IsLeft, IsWalkDown
  <1> HIDE DEF dir
  <1>5. \E g : IsLeft(g)
    <2>1. \E g : IsWalkDown(g, tree, dir)
      BY <1>2, WalkDownExists
    <2> QED
      BY <1>4, <2>1
  <1>6. IsWalkDown(f, tree, dir)
    <2>1. IsLeft(f)
      BY <1>5
    <2> QED
      BY <1>4, <2>1
  <1> HIDE DEF f
  <1>7. dir = [x \in Nodes |-> "left"]
    BY DEF dir
  <1>8. \A x \in T : f[x] \in T /\ tree.child["left"][f[x]] = 0 /\ pos[f[x]] = b["left"][x]
    BY <1>6, <1>7, LeftmostIsFirst
  <1> QED
    BY <1>1, <1>8

\* The search of find.
IsFind(f, v) ==
  f = [x \in Pointers |-> IF x = nullptr \/ Value(x) = v THEN x
                          ELSE f[tree.child[IF Value(x) > v THEN "left" ELSE "right"][x]]]

\* It finds a node with the value if there is one.
LEMMA FindFacts ==
  ASSUME NEW T, NEW N, NEW at, NEW pos, NEW b, Shape(tree, T, N, at, pos, b), Sorted(N, at),
         NEW d, Stray(tree, T, d), NEW v \in Int
  PROVE  /\ Find(v) \in T \cup {0} /\ (Find(v) # 0 => Value(Find(v)) = v)
         /\ \A x \in T : Value(x) = v => Find(v) # 0
  <1> DEFINE dir == [x \in Nodes |-> IF Value(x) > v THEN "left" ELSE "right"]
             St == {x \in Nodes : Value(x) = v}
             f == CHOOSE g : IsFind(g, v)
  <1>1. Find(v) = f[tree.root]
    BY DEF Find, IsFind
  <1>2. dir \in [Nodes -> Sides]
    BY DEF Sides
  <1>3. \A x \in Nodes : /\ dir[x] = IF Value(x) > v THEN "left" ELSE "right"
                         /\ (x \in St) = (Value(x) = v)
    OBVIOUS
  <1>4. \A g : IsFind(g, v) <=> IsWalkTo(g, tree, dir, St)
    <2> SUFFICES ASSUME NEW g PROVE IsFind(g, v) <=> IsWalkTo(g, tree, dir, St)
      OBVIOUS
    <2> HIDE DEF dir, St
    <2>0. \A x \in Pointers : x = 0 \/ x \in Nodes
      BY NodeFacts
    <2>1. [x \in Pointers |-> IF x = nullptr \/ Value(x) = v THEN x
                              ELSE g[tree.child[IF Value(x) > v THEN "left" ELSE "right"][x]]]
          = [x \in Pointers |-> IF x = 0 \/ x \in St THEN x ELSE g[tree.child[dir[x]][x]]]
      BY <1>3, <2>0 DEF nullptr
    <2> QED
      BY <2>1 DEF IsFind, IsWalkTo
  <1> HIDE DEF dir, St
  <1>5. \E g : IsFind(g, v)
    <2>1. \E g : IsWalkTo(g, tree, dir, St)
      BY <1>2, WalkToExists
    <2> QED
      BY <1>4, <2>1
  <1>6. IsWalkTo(f, tree, dir, St)
    <2>1. IsFind(f, v)
      BY <1>5
    <2> QED
      BY <1>4, <2>1
  <1> HIDE DEF f
  <1>7. dir = [x \in Nodes |-> IF Value(x) > v THEN "left" ELSE "right"] /\ St = {x \in Nodes : Value(x) = v}
    BY DEF dir, St
  <1>8. \A x \in T : Finds(T, N, at, b, v, x, f[x])
    <2>1. IsWalkTo(f, tree, dir, {x \in Nodes : Value(x) = v})
      BY <1>6, <1>7
    <2> HIDE DEF dir
    <2> QED
      BY <1>7, <2>1, FindFinds
  <1>9. CASE T = {}
    <2>1. tree.root = 0
      BY <1>9 DEF Shape, Rooted
    <2>2. f[0] = 0
      BY <1>6, NodeFacts DEF IsWalkTo
    <2> QED
      BY <1>1, <1>9, <2>1, <2>2
  <1>10. CASE T # {}
    <2>1. tree.root \in T /\ b["left"][tree.root] = 1 /\ b["right"][tree.root] = N
      BY <1>10 DEF Shape, Rooted
    <2>2. Finds(T, N, at, b, v, tree.root, Find(v))
      BY <1>1, <1>8, <2>1
    <2>3. Find(v) \in T \cup {0} /\ (Find(v) # 0 => Value(Find(v)) = v)
      BY <2>2 DEF Finds
    <2>4. ASSUME NEW x \in T, Value(x) = v PROVE Find(v) # 0
      <3>1. pos[x] \in 1 .. N /\ at[pos[x]] = x
        BY ShapeFacts
      <3>2. 1 <= pos[x] /\ pos[x] <= N /\ Value(at[pos[x]]) = v
        BY <2>4, <3>1
      <3> QED
        BY <2>1, <2>2, <3>1, <3>2 DEF Finds
    <2> QED
      BY <2>3, <2>4
  <1> QED
    BY <1>9, <1>10

\* The tree u without n, and the state in which the loop begins.
Unlinked(t, T, n, u, nd, pr, black) ==
  /\ \E N, at, pos, b : Shape(u, T \ {n}, N, at, pos, b) /\ Sorted(N, at)
  /\ \E h, hs : CutStateOf(u, T \ {n}, h, pr, hs, nd, black)
  /\ \A x \in Nodes \ T : u.parent[x] = t.parent[x] /\ \A a \in Sides : u.child[a][x] = t.child[a][x]
  /\ u.parent[n] \in (T \ {n}) \cup {0} /\ \A a \in Sides : u.child[a][n] \in (T \ {n}) \cup {0}

\* A node with at most one child.
LEMMA UnlinkOne ==
  ASSUME NEW t, NEW T, NEW N, NEW at, NEW pos, NEW b, Shape(t, T, N, at, pos, b), Sorted(N, at),
         NEW h, Balanced(t, T, h, 0, "left"), RedBut(t, T, {}),
         NEW n \in T, NEW k \in Sides, t.child[k][n] = 0, NEW c, c = t.child[Other(k)][n]
  PROVE  Unlinked(t, T, n, Splice(t, n, c), c, t.parent[n], n \notin t.red)
  <1> DEFINE u == Splice(t, n, c)
             T2 == T \ {n}
             p == t.parent[n]
  <1>1. /\ t \in Trees /\ T \subseteq Nodes /\ 0 \notin T /\ n \in Nodes /\ N \in Nat /\ pos[n] \in 1 .. N
        /\ \A x \in T : \A a \in Sides : t.child[a][x] # 0 => t.child[a][x] \in T /\ t.child[a][x] # x
        /\ p # 0 => p \in T /\ p # n
        /\ Other(k) \in Sides
    <2>1. \A x \in T : \A a \in Sides : t.child[a][x] # 0 => t.child[a][x] \in T /\ t.child[a][x] # x
      BY Neighbors DEF ChildFacts
    <2>2. p # 0 => p \in T /\ p # n
      BY Neighbors DEF ParentFacts
    <2> QED
      BY <2>1, <2>2, ShapeFacts, NodeFacts
  <1>2. c \in Pointers /\ c \in T2 \cup {0}
    BY <1>1, NodeFacts
  <1>3. CutOut(t, n, c, u)
    BY <1>1, <1>2, SpliceIsCut
  <1> HIDE DEF u
  <1>4. Shape(u, T2, N - 1, AtWithout(at, N, pos[n]), PosWithout(T, pos, n), EndsWithout(T, b, n, pos[n]))
    BY <1>3, CutShape
  <1>5. Sorted(N - 1, AtWithout(at, N, pos[n]))
    BY <1>1, SortedWithout
  <1>6. \E h2 : CutStateOf(u, T2, h2, p, SideOf(t, p, n), c, n \notin t.red)
    BY <1>3, <1>4, CutState
  <1>7. /\ \A x \in Nodes : u.parent[x] = IF x = c THEN p ELSE t.parent[x]
        /\ \A a \in Sides : \A x \in Nodes : u.child[a][x] = IF x = p /\ a = SideOf(t, p, n) THEN c ELSE t.child[a][x]
    BY <1>3 DEF CutOut
  <1>8. \A x \in Nodes \ T : u.parent[x] = t.parent[x] /\ \A a \in Sides : u.child[a][x] = t.child[a][x]
    <2> SUFFICES ASSUME NEW x \in Nodes, x \notin T
                 PROVE  u.parent[x] = t.parent[x] /\ \A a \in Sides : u.child[a][x] = t.child[a][x]
      OBVIOUS
    <2>1. x # 0
      BY NodeFacts
    <2>2. x # c
      BY <1>2, <2>1
    <2>3. x # p
      BY <1>1, <2>1
    <2> QED
      BY <1>7, <2>2, <2>3
  <1>9. u.parent[n] \in T2 \cup {0} /\ \A a \in Sides : u.child[a][n] \in T2 \cup {0}
    BY <1>1, <1>2, <1>7
  <1>10. Unlinked(t, T, n, u, c, p, n \notin t.red)
    BY <1>4, <1>5, <1>6, <1>8, <1>9 DEF Unlinked
  <1> QED
    BY <1>10 DEF u, p

\* A node with two children.
LEMMA UnlinkTwo ==
  ASSUME NEW t, NEW T, NEW N, NEW at, NEW pos, NEW b, Shape(t, T, N, at, pos, b), Sorted(N, at),
         NEW h, Balanced(t, T, h, 0, "left"), RedBut(t, T, {}),
         NEW n, NEW l, NEW r, NEW m, NEW q, NEW c, NEW p, Succession(t, T, n, l, r, m, q, c, p),
         pos[m] = pos[n] + 1
  PROVE  Unlinked(t, T, n, Succeed(t, n, l, r, m, q, c, p), c, IF q = n THEN m ELSE q, m \notin t.red)
  <1> DEFINE u == Succeed(t, n, l, r, m, q, c, p)
             v == Splice(t, m, c)
             S == T \ {m}
             T2 == T \ {n}
             at1 == AtWithout(at, N, pos[m])
             p1 == PosWithout(T, pos, m)
             b1 == EndsWithout(T, b, m, pos[m])
             at2 == [j \in 1 .. N - 1 |-> As(n, m, at1[j])]
  <1>1. /\ t \in Trees /\ T \in SUBSET Nodes /\ N \in Nat /\ 0 \notin T
        /\ at \in [1 .. N -> T] /\ pos \in [T -> 1 .. N] /\ \A x \in T : at[pos[x]] = x
        /\ \A j \in 1 .. N : pos[at[j]] = j
    BY ShapeFacts, NodeFacts
  <1>2. /\ n \in T /\ m \in T /\ l \in T /\ r \in T /\ q \in T /\ m # n /\ t.child["left"][m] = 0
        /\ c = t.child["right"][m] /\ q = t.parent[m] /\ p = t.parent[n]
        /\ c \in T \cup {0} /\ c \notin {n, m, l, r} /\ p \in T \cup {0} /\ p \notin {n, m, l, r} /\ l # n /\ r # n
        /\ q \notin {m, l, p} /\ l = t.child["left"][n] /\ r = t.child["right"][n]
    BY DEF Succession
  <1>3. m \in Nodes /\ c \in Pointers /\ "left" \in Sides /\ Other("left") = "right"
        /\ \A a \in Sides : a = "left" \/ a = "right"
    BY <1>1, <1>2, NodeFacts DEF Other
  <1>4. CutOut(t, m, c, v)
    BY <1>1, <1>3, SpliceIsCut
  <1> HIDE DEF v
  <1>5. c = t.child[Other("left")][m]
    BY <1>2, <1>3
  <1>6. Shape(v, S, N - 1, at1, p1, b1)
    BY <1>2, <1>3, <1>4, <1>5, CutShape
  <1>7. PICK h1 : CutStateOf(v, S, h1, t.parent[m], SideOf(t, t.parent[m], m), c, m \notin t.red)
    <2> HIDE DEF at1, p1, b1
    <2> QED
      BY <1>2, <1>3, <1>4, <1>5, <1>6, CutState
  <1>8. Succeeded(t, n, l, r, m, q, c, p, u)
    BY <1>1, SucceedCells
  <1> HIDE DEF u
  <1>9. Renamed(v, S, n, m, u)
    BY <1>1, <1>4, <1>8, SucceedRenames
  <1>10. Put(S, n, m) = T2
    BY <1>2 DEF Put
  <1> DEFINE P2 == [x \in Put(S, n, m) |-> p1[As(m, n, x)]]
             B2 == [a \in Sides |-> [x \in Put(S, n, m) |-> b1[a][As(m, n, x)]]]
  <1>11. Shape(u, T2, N - 1, at2, P2, B2)
    <2> HIDE DEF at1, p1, b1, S, T2
    <2>1. Shape(u, Put(S, n, m), N - 1, at2, P2, B2)
      BY <1>6, <1>9, RenameShape
    <2> HIDE DEF P2, B2, at2
    <2> QED
      BY <1>10, <2>1
  <1>12. PICK h2 : CutStateOf(u, T2, h2, As(n, m, q), SideOf(t, q, m), c, m \notin t.red)
    <2> HIDE DEF at1, p1, b1, S, T2
    <2>1. c # n
      BY <1>2
    <2>2. CutStateOf(v, S, h1, q, SideOf(t, q, m), c, m \notin t.red)
      BY <1>2, <1>7
    <2>3. \E h2 : CutStateOf(u, Put(S, n, m), h2, As(n, m, q), SideOf(t, q, m), c, m \notin t.red)
      BY <1>6, <1>9, <2>1, <2>2, RenameState
    <2> QED
      BY <1>10, <2>3
  <1> HIDE DEF P2, B2
  <1>13. Sorted(N - 1, at2)
    <2> DEFINE at3 == AtWithout(at, N, pos[n])
    <2>1. pos[n] \in 1 .. N /\ pos[m] \in 1 .. N /\ at[pos[n]] = n /\ at[pos[m]] = m
      BY <1>1, <1>2
    <2>2. Sorted(N - 1, at3)
      BY <1>1, <2>1, SortedWithout
    <2>3. ASSUME NEW j \in 1 .. N - 1 PROVE at2[j] = at3[j]
      <3>1. at2[j] = As(n, m, IF j < pos[m] THEN at[j] ELSE at[j + 1]) /\ j \in 1 .. N /\ j + 1 \in 1 .. N
        BY <1>1 DEF AtWithout
      <3>2. at3[j] = IF j < pos[n] THEN at[j] ELSE at[j + 1]
        BY DEF AtWithout
      <3>3. pos[at[j]] = j /\ pos[at[j + 1]] = j + 1
        BY <1>1, <3>1
      <3>4. CASE j < pos[n]
        <4>1. j < pos[m] /\ at[j] # n
          BY <2>1, <3>3, <3>4
        <4> QED
          BY <3>1, <3>2, <3>4, <4>1 DEF As
      <3>5. CASE j = pos[n]
        <4>1. j < pos[m] /\ at[j] = n /\ j + 1 = pos[m] /\ at[j + 1] = m /\ ~(j < pos[n])
          BY <2>1, <3>5
        <4> QED
          BY <3>1, <3>2, <4>1 DEF As
      <3>6. CASE j > pos[n]
        <4>1. ~(j < pos[m]) /\ at[j + 1] # n /\ ~(j < pos[n])
          BY <2>1, <3>3, <3>6
        <4> QED
          BY <3>1, <3>2, <4>1 DEF As
      <3> QED
        BY <2>1, <3>4, <3>5, <3>6
    <2> HIDE DEF at2, at3
    <2> QED
      BY <2>2, <2>3 DEF Sorted
  <1> HIDE DEF at2
  <1>14. /\ \A x \in Nodes :
              u.parent[x] = IF x = l THEN m ELSE IF x = m THEN p
                            ELSE IF q # n /\ x = r THEN m ELSE IF q # n /\ x = c THEN q ELSE t.parent[x]
         /\ \A a \in Sides : \A x \in Nodes :
              u.child[a][x] = IF a = "left" /\ x = m THEN l
                              ELSE IF x = p /\ a = SideOf(t, p, n) THEN m
                              ELSE IF q # n /\ a = "right" /\ x = m THEN r
                              ELSE IF q # n /\ a = "left" /\ x = q THEN c ELSE t.child[a][x]
    BY <1>8 DEF Succeeded
  <1>15. \A x \in Nodes \ T : u.parent[x] = t.parent[x] /\ \A a \in Sides : u.child[a][x] = t.child[a][x]
    <2> SUFFICES ASSUME NEW x \in Nodes \ T
                 PROVE  u.parent[x] = t.parent[x] /\ \A a \in Sides : u.child[a][x] = t.child[a][x]
      OBVIOUS
    <2>0. x # 0 /\ x \notin T
      BY NodeFacts
    <2>1. x \notin {l, m, r, c, p, q}
      BY <1>2, <2>0
    <2> QED
      BY <1>14, <2>1
  <1>16. u.parent[n] \in T2 \cup {0} /\ \A a \in Sides : u.child[a][n] \in T2 \cup {0}
    <2>1. u.parent[n] = p
      BY <1>1, <1>2, <1>14
    <2>2. \A a \in Sides : u.child[a][n] = t.child[a][n]
      BY <1>1, <1>2, <1>14
    <2> QED
      BY <1>2, <1>3, <2>1, <2>2
  <1>17. Unlinked(t, T, n, u, c, As(n, m, q), m \notin t.red)
    BY <1>11, <1>12, <1>13, <1>15, <1>16 DEF Unlinked
  <1>18. As(n, m, q) = IF q = n THEN m ELSE q
    BY DEF As
  <1> QED
    BY <1>17, <1>18 DEF u

\* What Unlink computes is the tree without the node, and where the loop begins.
LEMMA UnlinkIsRight ==
  ASSUME NEW T, NEW N, NEW at, NEW pos, NEW b, Shape(tree, T, N, at, pos, b), Sorted(N, at),
         NEW h, Balanced(tree, T, h, 0, "left"), RedBut(tree, T, {}), Stray(tree, T, 0), NEW n \in T
  PROVE  LET u == Unlink(tree, n) IN Unlinked(tree, T, n, u.tree, u.node, u.parent, u.black)
  <1> DEFINE l == tree.child["left"][n]
             r == tree.child["right"][n]
             u == Unlink(tree, n)
  <1>1. "left" \in Sides /\ "right" \in Sides /\ Other("left") = "right" /\ Other("right") = "left"
    BY DEF Sides, Other
  <1>2. CASE l = 0
    <2> DEFINE only == IF l # nullptr THEN l ELSE r
    <2>1. only = r
      BY <1>2, NodeFacts
    <2>2. u = [tree |-> Splice(tree, n, r), node |-> r, parent |-> tree.parent[n], black |-> n \notin tree.red]
      BY <1>2, NodeFacts DEF Unlink, Splice, IsRed
    <2>3. Unlinked(tree, T, n, Splice(tree, n, r), r, tree.parent[n], n \notin tree.red)
      BY <1>1, <1>2, UnlinkOne
    <2> HIDE DEF u
    <2> QED
      BY <2>2, <2>3 DEF u
  <1>3. CASE l # 0 /\ r = 0
    <2>2. u = [tree |-> Splice(tree, n, l), node |-> l, parent |-> tree.parent[n], black |-> n \notin tree.red]
      BY <1>3, NodeFacts DEF Unlink, Splice, IsRed
    <2>3. Unlinked(tree, T, n, Splice(tree, n, l), l, tree.parent[n], n \notin tree.red)
      BY <1>1, <1>3, UnlinkOne
    <2> HIDE DEF u
    <2> QED
      BY <2>2, <2>3 DEF u
  <1>4. CASE l # 0 /\ r # 0
    <2> DEFINE m == Leftmost(r)
               q == tree.parent[m]
               c == tree.child["right"][m]
               p == tree.parent[n]
    <2>1. r \in T
      BY <1>1, <1>4, ShapeFacts
    <2>2. m \in T /\ tree.child["left"][m] = 0 /\ pos[m] = b["left"][r]
      BY <2>1, LeftmostFacts
    <2>3. u = [tree |-> Succeed(tree, n, l, r, m, q, c, p), node |-> c,
               parent |-> IF q = n THEN m ELSE q, black |-> m \notin tree.red]
      BY <1>4, NodeFacts DEF Unlink, Succeed, IsRed
    <2> HIDE DEF m
    <2>4. Succession(tree, T, n, l, r, m, q, c, p) /\ pos[m] = pos[n] + 1
      BY <1>4, <2>2, SuccessorFacts
    <2> HIDE DEF l, r, q, c, p, u
    <2>5. Unlinked(tree, T, n, Succeed(tree, n, l, r, m, q, c, p), c, IF q = n THEN m ELSE q, m \notin tree.red)
      BY <2>4, UnlinkTwo
    <2> QED
      BY <2>3, <2>5 DEF u
  <1> QED
    BY <1>2, <1>3, <1>4

\* erase takes one node with the value out and begins the loop (rbtree.h:413-528).
LEMMA EraseKeeps == ASSUME RBInv, NEW v \in Values, Erase(v) PROVE RBInv'
  <1> DEFINE T == InTree
             n == Find(v)
             u == Unlink(tree, n)
             T2 == T \ {n}
  <1>1. pc = "idle" /\ Calls /\ Stray(tree, T, doomed) /\ doomed = 0 /\ T = live /\ T \subseteq Nodes
    BY NodeFacts DEF Erase, RBInv, Calls, InTree
  <1>2. PICK N, at, pos, b, h : /\ Shape(tree, T, N, at, pos, b) /\ Sorted(N, at)
                                /\ Balanced(tree, T, h, 0, "left") /\ RedBut(tree, T, {})
    BY <1>1 DEF RBInv, Red, Phase
  <1>3. v \in Int
    BY ValueFacts DEF Values
  <1>4. n \in T
    <2>1. n # 0
      BY NodeFacts DEF Erase
    <2>2. n \in T \cup {0}
      BY <1>1, <1>2, <1>3, FindFacts
    <2> QED
      BY <2>1, <2>2
  <1>5. /\ tree' = u.tree /\ doomed' = n /\ live' = live
        /\ IF u.black /\ u.tree.root # 0 THEN pc' = "erase_fixup" /\ node' = u.node /\ parent' = u.parent
           ELSE pc' = "delete"
    BY NodeFacts DEF Erase
  <1> HIDE DEF T, n
  <1>6. Unlinked(tree, T, n, u.tree, u.node, u.parent, u.black)
    BY <1>1, <1>2, <1>4, UnlinkIsRight
  <1> HIDE DEF u
  <1>7. InTree' = T2 /\ Calls'
    BY <1>1, <1>4, <1>5 DEF InTree, Calls
  <1>8. Stray(tree', T2, n)
    <2> SUFFICES ASSUME NEW x \in Nodes \ T2
                 PROVE  IF x = n THEN tree'.parent[x] \in T2 \cup {0} /\ \A s \in Sides : tree'.child[s][x] \in T2 \cup {0}
                        ELSE tree'.parent[x] = 0 /\ \A s \in Sides : tree'.child[s][x] = 0
      BY DEF Stray
    <2>1. CASE x = n
      BY <1>5, <1>6, <2>1 DEF Unlinked
    <2>2. CASE x # n
      <3>1. x \in Nodes \ T /\ x # 0
        BY <2>2, NodeFacts
      <3>2. tree.parent[x] = 0 /\ \A s \in Sides : tree.child[s][x] = 0
        BY <1>1, <3>1 DEF Stray
      <3> QED
        BY <1>5, <1>6, <2>2, <3>1, <3>2 DEF Unlinked
    <2> QED
      BY <2>1, <2>2
  <1>9. PICK N2, at2, pos2, b2, h2, hs : /\ Shape(tree', T2, N2, at2, pos2, b2) /\ Sorted(N2, at2)
                                         /\ CutStateOf(tree', T2, h2, u.parent, hs, u.node, u.black)
    BY <1>5, <1>6 DEF Unlinked
  <1>10. Phase(tree', T2, h2, hs, pc', node', parent')
    BY <1>5, <1>9 DEF Phase, CutStateOf
  <1>11. Red(tree', T2, N2, at2, pos2, b2, h2, hs, pc', node', parent')
    BY <1>9, <1>10 DEF Red
  <1> HIDE DEF T2
  <1> QED
    BY <1>5, <1>7, <1>8, <1>11 DEF RBInv

\* The invariant holds in every state.
LEMMA RBInvHolds == Spec => []RBInv
  <1>1. RBInv /\ [Next]_vars => RBInv'
    <2> SUFFICES ASSUME RBInv, [Next]_vars PROVE RBInv'
      OBVIOUS
    <2>1. CASE \E n \in Nodes : Insert(n)
      BY <2>1, InsertKeeps
    <2>2. CASE \E v \in Values : Erase(v)
      BY <2>2, EraseKeeps
    <2>3. CASE Destroy
      BY <2>3, DestroyKeeps
    <2>4. CASE Fixup
      BY <2>4, InsertCase1Keeps, InsertCase2Keeps, InsertCase3LeftKeeps, InsertCase3RightKeeps, InsertDoneKeeps,
         EraseCase1Keeps, EraseCase2Keeps, EraseCase3Keeps, EraseCase4Keeps, EraseDoneKeeps, DeleteKeeps
         DEF Fixup
    <2>5. CASE UNCHANGED vars
      BY <2>5 DEF vars, RBInv, Calls, InTree
    <2> QED
      BY <2>1, <2>2, <2>3, <2>4, <2>5 DEF Next
  <1> QED
    BY <1>1, InitHolds, PTL DEF Spec

-----------------------------------------------------------------------------
(* What follows from the invariant. *)

\* Between two calls every value in the tree is found.
LEMMA InvFindsValues == ASSUME RBInv PROVE EveryValueIsFound
  <1> SUFFICES ASSUME pc = "idle", NEW n \in live PROVE Find(Value(n)) \in {m \in live : Value(m) = Value(n)}
    BY DEF EveryValueIsFound
  <1>1. InTree = live /\ doomed = 0 /\ live \subseteq Nodes
    BY NodeFacts DEF RBInv, Calls, InTree
  <1>2. PICK N, at, pos, b : Shape(tree, live, N, at, pos, b) /\ Sorted(N, at)
    BY <1>1 DEF RBInv, Red
  <1>3. Stray(tree, live, 0)
    BY <1>1 DEF RBInv
  <1>4. Value(n) \in Int
    BY <1>1, ValueFacts
  <1>5. /\ Find(Value(n)) \in live \cup {0}
        /\ Find(Value(n)) # 0 => Value(Find(Value(n))) = Value(n)
        /\ \A x \in live : Value(x) = Value(n) => Find(Value(n)) # 0
    BY <1>2, <1>3, <1>4, FindFacts
  <1>6. Find(Value(n)) # 0
    BY <1>5
  <1> QED
    BY <1>5, <1>6

\* Red nodes are apart, except where the loops are at work.
LEMMA InvSeparatesRed == ASSUME RBInv PROVE RedSeparated
  <1> SUFFICES ASSUME NEW n \in InTree, n \in tree.red
               PROVE  \/ tree.parent[n] # nullptr /\ ~IsRed(tree, tree.parent[n])
                      \/ pc = "insert_fixup" /\ n = node
                      \/ pc = "erase_fixup" /\ node \in {n, tree.parent[n]}
    BY DEF RedSeparated
  <1>1. PICK h, hs : Phase(tree, InTree, h, hs, pc, node, parent)
    BY DEF RBInv, Red
  <1>2. pc \in {"idle", "insert_fixup", "erase_fixup", "delete"}
    BY DEF RBInv, Calls
  <1>3. CASE pc = "insert_fixup"
    <2>1. RedBut(tree, InTree, {node})
      BY <1>1, <1>3 DEF Phase, InsertState
    <2> QED
      BY <1>3, <2>1 DEF RedBut, IsRed, nullptr
  <1>4. CASE pc = "erase_fixup"
    <2>1. RedBut(tree, InTree, {x \in InTree : x = node \/ (node # 0 /\ tree.parent[x] = node)})
      BY <1>1, <1>4 DEF Phase, EraseState
    <2> QED
      BY <1>4, <2>1 DEF RedBut, IsRed, nullptr
  <1>5. CASE pc \in {"idle", "delete"}
    <2>1. RedBut(tree, InTree, {})
      BY <1>1, <1>5 DEF Phase
    <2> QED
      BY <2>1 DEF RedBut, IsRed, nullptr
  <1> QED
    BY <1>2, <1>3, <1>4, <1>5

\* The nodes at the positions from lo to hi.
Slice(at, lo, hi) == [j \in 1 .. hi - lo + 1 |-> at[lo + j - 1]]

\* The elements of a concatenation of length k + l.
Joined(T, s, v, k, l, w) ==
  /\ w \in Seq(T) /\ Len(w) = k + l
  /\ \A j \in 1 .. k + l : w[j] = IF j <= k THEN s[j] ELSE v[j - k]

\* The code's concatenation is such a one.
LEMMA ConcatCells ==
  ASSUME NEW T, NEW s \in Seq(T), NEW v \in Seq(T)
  PROVE  Joined(T, s, v, Len(s), Len(v), s \o v)
  BY DEF Joined

\* Two slices and the element between them make a slice.
SlicesMeet(at, lo, p, hi) ==
  Slice(at, lo, p - 1) \o <<at[p]>> \o Slice(at, p + 1, hi) = Slice(at, lo, hi)

\* They do if they are next to it.
LEMMA SliceJoins ==
  ASSUME NEW T, NEW N \in Nat, NEW at \in [1 .. N -> T], NEW p \in 1 .. N,
         NEW lo \in 1 .. N, NEW hi \in 1 .. N, lo <= p, p <= hi
  PROVE  SlicesMeet(at, lo, p, hi)
  <1> DEFINE s1 == Slice(at, lo, p - 1)
             s2 == Slice(at, p + 1, hi)
             s == Slice(at, lo, hi)
             n1 == p - lo
             n2 == hi - p
  <1>1. n1 \in Nat /\ n2 \in Nat /\ (p - 1) - lo + 1 = n1 /\ hi - (p + 1) + 1 = n2 /\ hi - lo + 1 = n1 + 1 + n2
    OBVIOUS
  <1>2. s1 \in [1 .. n1 -> T] /\ \A j \in 1 .. n1 : s1[j] = at[lo + j - 1]
    BY <1>1 DEF Slice
  <1>3. s2 \in [1 .. n2 -> T] /\ \A j \in 1 .. n2 : s2[j] = at[p + j]
    BY <1>1 DEF Slice
  <1>4. s \in [1 .. n1 + 1 + n2 -> T] /\ \A j \in 1 .. n1 + 1 + n2 : s[j] = at[lo + j - 1]
    BY <1>1 DEF Slice
  <1>5. lo + n1 = p
    OBVIOUS
  <1> HIDE DEF s1, s2, s, n1, n2
  <1>6. s1 \in Seq(T) /\ Len(s1) = n1 /\ s2 \in Seq(T) /\ Len(s2) = n2 /\ s \in Seq(T) /\ Len(s) = n1 + 1 + n2
    BY <1>1, <1>2, <1>3, <1>4
  <1> DEFINE m == <<at[p]>>
  <1>7. m \in Seq(T) /\ Len(m) = 1 /\ m[1] = at[p]
    OBVIOUS
  <1> HIDE DEF m
  <1> DEFINE u == s1 \o m
             w == u \o s2
  <1> HIDE DEF u, w
  <1>8. u \in Seq(T) /\ Len(u) = n1 + 1 /\ \A j \in 1 .. n1 + 1 : u[j] = IF j <= n1 THEN s1[j] ELSE at[p]
    <2>1. u \in Seq(T) /\ Len(u) = n1 + 1 /\ \A j \in 1 .. n1 + 1 : u[j] = IF j <= n1 THEN s1[j] ELSE m[j - n1]
      <3>1. Joined(T, s1, m, n1, 1, u)
        <4>1. Joined(T, s1, m, Len(s1), Len(m), s1 \o m)
          BY <1>6, <1>7, ConcatCells
        <4> QED
          BY <1>6, <1>7, <4>1 DEF u
      <3> QED
        BY <3>1 DEF Joined
    <2>2. \A j \in 1 .. n1 + 1 : ~(j <= n1) => j - n1 = 1
      BY <1>1
    <2> QED
      BY <1>7, <2>1, <2>2
  <1>9. w \in Seq(T) /\ Len(w) = n1 + 1 + n2
        /\ \A j \in 1 .. n1 + 1 + n2 : w[j] = IF j <= n1 + 1 THEN u[j] ELSE s2[j - (n1 + 1)]
    <2>1. Joined(T, u, s2, n1 + 1, n2, w)
      <3>1. Joined(T, u, s2, Len(u), Len(s2), u \o s2)
        BY <1>6, <1>8, ConcatCells
      <3> QED
        BY <1>6, <1>8, <3>1 DEF w
    <2> QED
      BY <2>1 DEF Joined
  <1>10. ASSUME NEW j \in 1 .. n1 + 1 + n2 PROVE w[j] = s[j]
    <2>1. CASE j <= n1
      BY <1>1, <1>2, <1>4, <1>8, <1>9, <2>1
    <2>2. CASE j = n1 + 1
      <3>1. w[j] = at[p] /\ s[j] = at[lo + (n1 + 1) - 1] /\ lo + (n1 + 1) - 1 = p
        BY <1>1, <1>4, <1>5, <1>8, <1>9, <2>2
      <3> QED
        BY <3>1
    <2>3. CASE j > n1 + 1
      <3>1. j - (n1 + 1) \in 1 .. n2 /\ p + (j - (n1 + 1)) = lo + j - 1
        BY <1>1, <1>5, <2>3
      <3>2. w[j] = s2[j - (n1 + 1)]
        BY <1>1, <1>9, <2>3
      <3> QED
        BY <1>3, <1>4, <3>1, <3>2
    <2> QED
      BY <1>1, <2>1, <2>2, <2>3
  <1>11. w = s
    BY <1>1, <1>6, <1>9, <1>10
  <1> QED
    BY <1>11 DEF w, u, m, s, s1, s2, SlicesMeet

\* The traversal of foreach_middle.
IsVisit(f) ==
  f = [x \in Pointers |-> IF x = nullptr THEN << >>
                          ELSE f[tree.child["left"][x]] \o <<x>> \o f[tree.child["right"][x]]]

\* What it meets below a node of the tree, and below no node.
Part(T, at, b, x) == IF x \in T THEN Slice(at, b["left"][x], b["right"][x]) ELSE << >>

\* The part below a node is made of those of its children and the node.
PartsMeet(T, at, b, x) ==
  Part(T, at, b, x) = Part(T, at, b, tree.child["left"][x]) \o <<x>> \o Part(T, at, b, tree.child["right"][x])

\* It is for every node of the tree.
LEMMA PartJoins ==
  ASSUME NEW T, NEW N, NEW at, NEW pos, NEW b, Shape(tree, T, N, at, pos, b), NEW x \in T
  PROVE  PartsMeet(T, at, b, x)
  <1> DEFINE l == tree.child["left"][x]
             r == tree.child["right"][x]
             p == pos[x]
             lo == b["left"][x]
             hi == b["right"][x]
  <1>1. /\ N \in Nat /\ at \in [1 .. N -> T] /\ p \in 1 .. N /\ lo \in 1 .. N /\ hi \in 1 .. N /\ lo <= p /\ p <= hi
        /\ at[p] = x /\ 0 \notin T
    BY ShapeFacts
  <1>2. "left" \in Sides /\ "right" \in Sides /\ Other("left") = "right" /\ Other("right") = "left"
    BY DEF Sides, Other
  <1>3. SpansAt(tree, T, pos, b, x, "left") /\ SpansAt(tree, T, pos, b, x, "right")
    BY <1>2, ShapeFacts
  <1>4. Part(T, at, b, l) = Slice(at, lo, p - 1)
    <2>1. CASE l = 0
      <3>1. lo = p
        BY <1>3, <2>1 DEF SpansAt
      <3>2. (p - 1) - p + 1 = 0
        BY <1>1
      <3> HIDE DEF lo, p
      <3>3. Slice(at, lo, p - 1) = << >>
        BY <3>1, <3>2 DEF Slice
      <3> QED
        BY <1>1, <2>1, <3>3 DEF Part
    <2>2. CASE l # 0
      <3>1. l \in T /\ b["left"][l] = lo /\ b["right"][l] = p - 1
        BY <1>2, <1>3, <2>2 DEF SpansAt, Beside
      <3> QED
        BY <3>1 DEF Part
    <2> QED
      BY <2>1, <2>2
  <1>5. Part(T, at, b, r) = Slice(at, p + 1, hi)
    <2>1. CASE r = 0
      <3>1. hi = p
        BY <1>3, <2>1 DEF SpansAt
      <3>2. p - (p + 1) + 1 = 0
        BY <1>1
      <3> HIDE DEF hi, p
      <3>3. Slice(at, p + 1, hi) = << >>
        BY <3>1, <3>2 DEF Slice
      <3> QED
        BY <1>1, <2>1, <3>3 DEF Part
    <2>2. CASE r # 0
      <3>1. r \in T /\ b["right"][r] = hi /\ b["left"][r] = p + 1
        BY <1>2, <1>3, <2>2 DEF SpansAt, Beside
      <3> QED
        BY <3>1 DEF Part
    <2> QED
      BY <2>1, <2>2
  <1>6. Part(T, at, b, x) = Slice(at, lo, hi)
    BY DEF Part
  <1> HIDE DEF l, r, p, lo, hi
  <1>7. SlicesMeet(at, lo, p, hi)
    BY <1>1, SliceJoins
  <1>8. Part(T, at, b, x) = Part(T, at, b, l) \o <<x>> \o Part(T, at, b, r)
    <2> DEFINE s1 == Slice(at, lo, p - 1)
               s2 == Slice(at, p + 1, hi)
    <2>1. Part(T, at, b, l) = s1 /\ Part(T, at, b, r) = s2
      BY <1>4, <1>5
    <2>2. Part(T, at, b, x) = s1 \o <<at[p]>> \o s2
      BY <1>6, <1>7 DEF SlicesMeet
    <2>3. at[p] = x
      BY <1>1
    <2> HIDE DEF s1, s2
    <2> QED
      BY <2>1, <2>2, <2>3
  <1> QED
    BY <1>8 DEF l, r, PartsMeet

\* The traversal comes to an end.
LEMMA VisitExists ==
  ASSUME NEW T, NEW N, NEW at, NEW pos, NEW b, Shape(tree, T, N, at, pos, b), NEW d, Stray(tree, T, d)
  PROVE  \E f : IsVisit(f)
  <1> DEFINE left(x) == tree.child["left"][x]
             right(x) == tree.child["right"][x]
             P(x) == Part(T, at, b, x)
             f == [x \in Pointers |-> IF x = 0 \/ x \in T THEN P(x) ELSE P(left(x)) \o <<x>> \o P(right(x))]
  <1>1. T \subseteq Nodes /\ 0 \notin T /\ Pointers = Nodes \cup {0} /\ nullptr = 0 /\ "left" \in Sides /\ "right" \in Sides
    BY ShapeFacts, NodeFacts
  <1>2. \A x \in Nodes : left(x) \in T \cup {0} /\ right(x) \in T \cup {0}
    <2>1. \A x \in T : left(x) \in T \cup {0} /\ right(x) \in T \cup {0}
      BY <1>1, ShapeFacts
    <2>2. \A x \in Nodes \ T : left(x) \in T \cup {0} /\ right(x) \in T \cup {0}
      BY <1>1 DEF Stray
    <2> QED
      BY <2>1, <2>2
  <1>3. \A x \in T : P(x) = P(left(x)) \o <<x>> \o P(right(x))
    <2> SUFFICES ASSUME NEW x \in T PROVE P(x) = P(left(x)) \o <<x>> \o P(right(x))
      OBVIOUS
    <2>1. PartsMeet(T, at, b, x)
      BY PartJoins
    <2> QED
      BY <2>1 DEF PartsMeet
  <1>4. P(0) = << >>
    BY <1>1 DEF Part
  <1> HIDE DEF P, left, right
  <1>5. \A x \in T \cup {0} : f[x] = P(x)
    BY <1>1
  <1>6. \A x \in Nodes : f[x] = P(left(x)) \o <<x>> \o P(right(x))
    <2> SUFFICES ASSUME NEW x \in Nodes PROVE f[x] = P(left(x)) \o <<x>> \o P(right(x))
      OBVIOUS
    <2>1. x \in Pointers /\ x # 0
      BY <1>1, NodeFacts
    <2>2. CASE x \in T
      <3>1. f[x] = P(x)
        BY <1>5, <2>2
      <3> HIDE DEF f
      <3> QED
        BY <1>3, <2>2, <3>1
    <2>3. CASE x \notin T
      BY <2>1, <2>3
    <2> QED
      BY <2>2, <2>3
  <1>7. f[0] = << >>
    BY <1>1, <1>4
  <1>8. f = [x \in Pointers |-> f[x]]
    OBVIOUS
  <1> HIDE DEF f
  <1>9. \A x \in Pointers : f[x] = IF x = nullptr THEN << >> ELSE f[left(x)] \o <<x>> \o f[right(x)]
    BY <1>1, <1>2, <1>5, <1>6, <1>7
  <1>10. f = [x \in Pointers |-> IF x = nullptr THEN << >> ELSE f[left(x)] \o <<x>> \o f[right(x)]]
    BY <1>8, <1>9
  <1>11. IsVisit(f)
    BY <1>10 DEF IsVisit, left, right
  <1> QED
    BY <1>11

\* It meets the nodes of the tree as they are numbered.
LEMMA VisitMeets ==
  ASSUME NEW T, NEW N, NEW at, NEW pos, NEW b, Shape(tree, T, N, at, pos, b), NEW f, IsVisit(f)
  PROVE  \A x \in T : f[x] = Part(T, at, b, x)
  <1> DEFINE Good == {x \in T : f[x] = Part(T, at, b, x)}
  <1>1. T \subseteq Nodes /\ 0 \notin T /\ Pointers = Nodes \cup {0} /\ nullptr = 0 /\ "left" \in Sides /\ "right" \in Sides
    BY ShapeFacts, NodeFacts
  <1>2. ASSUME NEW x \in T, \A s \in Sides : tree.child[s][x] # 0 => tree.child[s][x] \in Good
        PROVE  x \in Good
    <2> DEFINE l == tree.child["left"][x]
               r == tree.child["right"][x]
    <2>1. f[0] = << >> /\ Part(T, at, b, 0) = << >>
      BY <1>1 DEF IsVisit, Part
    <2>2. f[l] = Part(T, at, b, l) /\ f[r] = Part(T, at, b, r)
      BY <1>1, <1>2, <2>1
    <2>3. f[x] = f[l] \o <<x>> \o f[r]
      BY <1>1 DEF IsVisit
    <2>4. Part(T, at, b, x) = Part(T, at, b, l) \o <<x>> \o Part(T, at, b, r)
      <3>1. PartsMeet(T, at, b, x)
        BY PartJoins
      <3> QED
        BY <3>1 DEF PartsMeet
    <2> HIDE DEF l, r
    <2>5. f[x] = Part(T, at, b, x)
      BY <2>2, <2>3, <2>4
    <2> QED
      BY <2>5
  <1> HIDE DEF Good
  <1>3. \A x \in T : x \in Good
    BY <1>2, FromBelow
  <1> QED
    BY <1>3 DEF Good

\* The traversal of the whole tree.
LEMMA InorderFacts ==
  ASSUME NEW T, NEW N, NEW at, NEW pos, NEW b, Shape(tree, T, N, at, pos, b), NEW d, Stray(tree, T, d)
  PROVE  Inorder = Slice(at, 1, N)
  <1> DEFINE f == CHOOSE g : IsVisit(g)
  <1>1. Inorder = f[tree.root]
    BY DEF Inorder, IsVisit
  <1>2. IsVisit(f)
    BY VisitExists
  <1> HIDE DEF f
  <1>3. \A x \in T : f[x] = Part(T, at, b, x)
    BY <1>2, VisitMeets
  <1>4. CASE T = {}
    <2>1. tree.root = 0 /\ N = 0
      <3>1. N \in Nat /\ at \in [1 .. N -> {}]
        BY <1>4, ShapeFacts
      <3>2. N = 0
        <4> SUFFICES ASSUME N # 0 PROVE FALSE
          OBVIOUS
        <4>1. 1 \in 1 .. N
          BY <3>1
        <4> QED
          BY <3>1, <4>1
      <3> QED
        BY <1>4, <3>2 DEF Shape, Rooted
    <2>2. f[0] = << >>
      BY <1>2, NodeFacts DEF IsVisit
    <2>3. Slice(at, 1, 0) = << >>
      BY DEF Slice
    <2> QED
      BY <1>1, <2>1, <2>2, <2>3
  <1>5. CASE T # {}
    <2>1. tree.root \in T /\ b["left"][tree.root] = 1 /\ b["right"][tree.root] = N
      BY <1>5 DEF Shape, Rooted
    <2> QED
      BY <1>1, <1>3, <2>1 DEF Part
  <1> QED
    BY <1>4, <1>5

\* The traversal meets every node once and in the order of the values.
LEMMA InvOrders == ASSUME RBInv PROVE Ordered
  <1> DEFINE T == InTree
             seq == Inorder
  <1>1. PICK N, at, pos, b : Shape(tree, T, N, at, pos, b) /\ Sorted(N, at)
    BY DEF RBInv, Red
  <1>2. seq = Slice(at, 1, N)
    BY <1>1, InorderFacts DEF RBInv
  <1>3. /\ N \in Nat /\ at \in [1 .. N -> T] /\ pos \in [T -> 1 .. N] /\ \A n \in T : at[pos[n]] = n
        /\ \A i \in 1 .. N : pos[at[i]] = i
    BY <1>1, ShapeFacts
  <1> HIDE DEF T, seq
  <1>4. seq \in Seq(T) /\ Len(seq) = N /\ \A i \in 1 .. N : seq[i] = at[i]
    <2>1. seq = [j \in 1 .. N |-> at[j]]
      BY <1>2, <1>3 DEF Slice
    <2> QED
      BY <1>3, <2>1
  <1>5. {seq[i] : i \in 1 .. Len(seq)} = T
    <2>1. \A i \in 1 .. N : seq[i] \in T
      BY <1>3, <1>4
    <2>2. \A n \in T : pos[n] \in 1 .. N /\ seq[pos[n]] = n
      BY <1>3, <1>4
    <2> QED
      BY <1>4, <2>1, <2>2
  <1>6. Cardinality(T) = N
    <2>1. at \in Bijection(1 .. N, T)
      BY <1>3 DEF Bijection, Injection, Surjection, IsInjective
    <2> QED
      BY <1>3, <2>1, FS_CountingElements DEF ExistsBijection
  <1>7. \A i \in 1 .. Len(seq) - 1 : Value(seq[i]) <= Value(seq[i + 1])
    <2> SUFFICES ASSUME NEW i \in 1 .. N - 1 PROVE Value(seq[i]) <= Value(seq[i + 1])
      BY <1>4
    <2>1. i \in 1 .. N /\ i + 1 \in 1 .. N /\ i <= i + 1
      BY <1>3
    <2> QED
      BY <1>1, <1>4, <2>1 DEF Sorted
  <1>8. \A n \in T : LET p == tree.parent[n]
                     IN  IF p = nullptr THEN tree.root = n ELSE tree.child[SideOf(tree, p, n)][p] = n
    BY <1>1, Neighbors, NodeFacts DEF ParentFacts
  <1> QED
    BY <1>4, <1>5, <1>6, <1>7, <1>8 DEF Ordered, T, seq

\* The place at which a black node is missing, if there is one: the link to nd.
Lacks(t, T, hp, hs, nd) ==
  /\ hs \in Sides /\ nd \in T \cup {0}
  /\ IF hp = 0 THEN nd \in {0, t.root} ELSE hp \in T /\ t.child[hs][hp] = nd

\* The way down to n, with the node that stands for the missing one counted in, and the
\* height of n make up the same number for every node.
Weighs(t, h, f, nd, H, n) ==
  /\ IsFiniteSet(f[n] \ t.red)
  /\ Cardinality(f[n] \ t.red) + h[n] + (IF nd # 0 /\ nd \in f[n] THEN 1 ELSE 0) = H + Black(t, n)

\* The way down to a node does not meet the nodes below it.
LEMMA ClimbFacts ==
  ASSUME NEW t, NEW T, NEW N, NEW at, NEW pos, NEW b, Shape(t, T, N, at, pos, b), NEW f, IsClimb(f, t)
  PROVE  \A n \in T : /\ f[n] = {n} \cup f[t.parent[n]]
                      /\ f[n] \subseteq T /\ \A y \in f[n] : Width(b, n) <= Width(b, y)
                      /\ n \notin f[t.parent[n]]
  <1> DEFINE Good == {n \in T : f[n] \subseteq T /\ \A y \in f[n] : Width(b, n) <= Width(b, y)}
  <1>1. T \subseteq Nodes /\ 0 \notin T /\ Pointers = Nodes \cup {0} /\ N \in Nat
    BY ShapeFacts, NodeFacts
  <1>2. \A n \in T : /\ Width(b, n) \in Nat
                     /\ t.parent[n] # 0 => t.parent[n] \in T /\ Width(b, n) < Width(b, t.parent[n])
    BY <1>1, ChildWidth, ShapeFacts
  <1>3. f[0] = {}
    BY <1>1 DEF IsClimb
  <1>4. \A n \in T : f[n] = {n} \cup f[t.parent[n]]
    BY <1>1 DEF IsClimb
  <1>5. ASSUME NEW n \in T, t.parent[n] # 0 => t.parent[n] \in Good
        PROVE  n \in Good /\ n \notin f[t.parent[n]]
    <2>1. CASE t.parent[n] = 0
      <3>1. f[n] = {n}
        BY <1>3, <1>4, <2>1
      <3> QED
        BY <1>2, <1>3, <2>1, <3>1
    <2>2. CASE t.parent[n] # 0
      <3> DEFINE p == t.parent[n]
      <3>1. p \in T /\ f[p] \subseteq T /\ \A y \in f[p] : Width(b, p) <= Width(b, y)
        BY <1>5, <2>2
      <3>2. Width(b, n) < Width(b, p) /\ Width(b, n) \in Nat /\ Width(b, p) \in Nat
        BY <1>2, <2>2, <3>1
      <3>3. f[n] = {n} \cup f[p]
        BY <1>4
      <3> HIDE DEF p
      <3>4. \A y \in f[p] : Width(b, n) < Width(b, y)
        BY <1>2, <3>1, <3>2
      <3>5. n \notin f[p]
        BY <3>2, <3>4
      <3>6. f[n] \subseteq T /\ \A y \in f[n] : Width(b, n) <= Width(b, y)
        BY <1>2, <3>1, <3>2, <3>3, <3>4
      <3> QED
        BY <3>5, <3>6 DEF p
    <2> QED
      BY <2>1, <2>2
  <1> HIDE DEF Good
  <1>6. \A n \in T : n \in Good
    BY <1>5, FromAbove
  <1>7. \A n \in T : n \notin f[t.parent[n]]
    <2> SUFFICES ASSUME NEW n \in T PROVE n \notin f[t.parent[n]]
      OBVIOUS
    <2>1. t.parent[n] # 0 => t.parent[n] \in Good
      BY <1>2, <1>6
    <2> QED
      BY <1>5, <2>1
  <1> QED
    BY <1>4, <1>6, <1>7 DEF Good

\* The root carries the weight, and a child weighs what its parent does.
LEMMA AllWeigh ==
  ASSUME NEW t, NEW T, NEW N, NEW at, NEW pos, NEW b, Shape(t, T, N, at, pos, b), NEW f, IsClimb(f, t),
         NEW h, NEW hp, NEW hs, NEW nd, Balanced(t, T, h, hp, hs), Lacks(t, T, hp, hs, nd)
  PROVE  \E H \in Nat : \A n \in T : Weighs(t, h, f, nd, H, n)
  <1> DEFINE H == h[t.root] + (IF nd # 0 /\ nd = t.root THEN 1 ELSE 0)
             E(n) == IF nd # 0 /\ nd \in f[n] THEN 1 ELSE 0
             B(n) == Cardinality(f[n] \ t.red)
  <1>1. CASE T = {}
    BY <1>1
  <1>2. CASE T # {}
    <2>1. t.root \in T /\ h \in [T -> Nat] /\ 0 \notin T
      BY <1>2, ShapeFacts DEF Shape, Rooted, Balanced
    <2>2. H \in Nat
      BY <2>1
    <2>3. \A n \in T : /\ f[n] = {n} \cup f[t.parent[n]] /\ n \notin f[t.parent[n]]
                       /\ h[n] \in Nat /\ Black(t, n) \in {0, 1}
      BY <2>1, ClimbFacts DEF Black
    <2> DEFINE Good == {n \in T : Weighs(t, h, f, nd, H, n)}
    <2>4. ASSUME NEW n \in T, t.parent[n] # 0 => t.parent[n] \in Good PROVE n \in Good
      <3> DEFINE p == t.parent[n]
      <3>1. CASE p = 0
        <4>1. n = t.root
          BY <3>1, Neighbors DEF ParentFacts
        <4>2. f[0] = {}
          BY NodeFacts DEF IsClimb
        <4>3. f[n] = {n}
          BY <2>3, <3>1, <4>2
        <4>4. IsFiniteSet(f[n] \ t.red) /\ Cardinality(f[n] \ t.red) = Black(t, n)
          <5>1. CASE n \in t.red
            <6>1. f[n] \ t.red = {}
              BY <4>3, <5>1
            <6> QED
              BY <5>1, <6>1, FS_EmptySet DEF Black
          <5>2. CASE n \notin t.red
            <6>1. f[n] \ t.red = {n}
              BY <4>3, <5>2
            <6> QED
              BY <5>2, <6>1, FS_Singleton DEF Black
          <5> QED
            BY <5>1, <5>2
        <4>5. E(n) = IF nd # 0 /\ nd = t.root THEN 1 ELSE 0
          BY <4>1, <4>3
        <4>6. Black(t, n) + h[n] + E(n) = H + Black(t, n)
          <5>1. H = h[n] + E(n) /\ E(n) \in Nat /\ h[n] \in Nat /\ Black(t, n) \in Nat
            BY <2>3, <4>1, <4>5
          <5> HIDE DEF H, E
          <5> QED
            BY <5>1
        <4> HIDE DEF H
        <4> QED
          BY <4>4, <4>6 DEF Weighs
      <3>2. CASE p # 0
        <4>1. p \in T /\ Weighs(t, h, f, nd, H, p)
          BY <2>4, <3>2
        <4>2. PICK a \in Sides : t.child[a][p] = n /\ SideOf(t, p, n) = a
          <5>1. ParentFacts(t, T, n)
            BY Neighbors
          <5> QED
            BY <3>2, <5>1 DEF ParentFacts
        <4>3. f[n] = {n} \cup f[p] /\ n \notin f[p] /\ n # 0
          BY <2>1, <2>3
        <4>4. B(n) = B(p) + Black(t, n) /\ IsFiniteSet(f[n] \ t.red) /\ B(p) \in Nat
          <5>0. IsFiniteSet(f[p] \ t.red)
            BY <4>1 DEF Weighs
          <5>1. B(p) \in Nat
            BY <5>0, FS_CardinalityType
          <5>2. CASE n \in t.red
            <6>1. f[n] \ t.red = f[p] \ t.red
              BY <4>3, <5>2
            <6> QED
              BY <5>0, <5>1, <5>2, <6>1 DEF Black
          <5>3. CASE n \notin t.red
            <6>1. f[n] \ t.red = (f[p] \ t.red) \cup {n} /\ n \notin f[p] \ t.red
              BY <4>3, <5>3
            <6> DEFINE S == f[p] \ t.red
            <6>2. f[n] \ t.red = S \cup {n} /\ n \notin S /\ IsFiniteSet(S)
              BY <5>0, <6>1
            <6>3. Cardinality(S) = B(p) /\ B(n) = Cardinality(f[n] \ t.red) /\ Black(t, n) = 1
              BY <5>3 DEF Black
            <6> HIDE DEF S, B, p
            <6>4. IsFiniteSet(S \cup {n}) /\ Cardinality(S \cup {n}) = Cardinality(S) + 1
              BY <6>2, FS_AddElement
            <6> QED
              BY <5>1, <6>2, <6>3, <6>4
          <5> QED
            BY <5>2, <5>3
        <4>5. h[p] = h[n] + Hole(hp, hs, p, a) + Black(t, p)
          <5>1. Ht(t, h, p, a) = h[n]
            BY <4>2, <4>3 DEF Ht
          <5> QED
            BY <4>1, <4>2, <5>1 DEF Balanced, BalancedAt
        <4>6. E(n) = E(p) + Hole(hp, hs, p, a)
          <5>1. (nd # 0 /\ nd = n) = (p = hp /\ a = hs)
            <6>1. ASSUME p = hp, a = hs PROVE nd # 0 /\ nd = n
              BY <3>2, <4>2, <4>3, <6>1 DEF Lacks
            <6>2. ASSUME nd # 0, nd = n PROVE p = hp /\ a = hs
              <7>1. hp # 0
                <8>1. t.parent[t.root] = 0
                  BY <1>2 DEF Shape, Rooted
                <8> QED
                  BY <3>2, <6>2, <8>1 DEF Lacks
              <7>2. hp \in T /\ hs \in Sides /\ t.child[hs][hp] = n
                BY <6>2, <7>1 DEF Lacks
              <7>3. ChildFacts(t, T, hp, hs)
                BY <7>2, Neighbors
              <7> QED
                BY <4>2, <4>3, <7>2, <7>3 DEF ChildFacts
            <6> QED
              BY <6>1, <6>2
          <5>2. CASE p = hp /\ a = hs
            BY <4>3, <5>1, <5>2 DEF Hole
          <5>3. CASE ~(p = hp /\ a = hs)
            BY <4>3, <5>1, <5>3 DEF Hole
          <5> QED
            BY <5>2, <5>3
        <4>7. B(p) + h[p] + E(p) = H + Black(t, p)
          BY <4>1 DEF Weighs
        <4>8. /\ h[p] \in Nat /\ h[n] \in Nat /\ E(p) \in Nat /\ E(n) \in Nat /\ Hole(hp, hs, p, a) \in Nat
              /\ Black(t, p) \in Nat /\ Black(t, n) \in Nat
          BY <2>3, <4>1 DEF Hole
        <4> HIDE DEF H, E, B, p
        <4>9. B(n) + h[n] + E(n) = H + Black(t, n)
          BY <2>2, <4>4, <4>5, <4>6, <4>7, <4>8
        <4> QED
          BY <4>4, <4>9 DEF Weighs, B, E
      <3> QED
        BY <3>1, <3>2
    <2> HIDE DEF Good
    <2>5. \A n \in T : n \in Good
      BY <2>4, FromAbove
    <2> HIDE DEF H
    <2> QED
      BY <2>2, <2>5 DEF Good
  <1> QED
    BY <1>1, <1>2

\* The climb of Above is the one along the parent pointers.
LEMMA AboveFacts ==
  ASSUME NEW T, NEW N, NEW at, NEW pos, NEW b, Shape(tree, T, N, at, pos, b), NEW d, Stray(tree, T, d)
  PROVE  \E f : IsClimb(f, tree) /\ \A n : Above(n) = f[n]
  <1> DEFINE Is(g) == g = [x \in Pointers |-> IF x = nullptr THEN {} ELSE {x} \cup g[tree.parent[x]]]
             f == CHOOSE g : Is(g)
  <1>1. \A n : Above(n) = f[n]
    BY DEF Above
  <1>2. \A g : Is(g) <=> IsClimb(g, tree)
    BY NodeFacts DEF IsClimb
  <1> HIDE DEF Is
  <1>3. \E g : Is(g)
    <2>1. \E g : IsClimb(g, tree)
      BY ClimbingExists
    <2> QED
      BY <1>2, <2>1
  <1>4. IsClimb(f, tree)
    <2>1. Is(f)
      BY <1>3
    <2> QED
      BY <1>2, <2>1
  <1> HIDE DEF f
  <1> QED
    BY <1>1, <1>4

\* The number H of black nodes on the way to a null pointer, the missing one counted in.
Counts(t, f, hp, hs, nd, H, n, a) ==
  Cardinality(f[n] \ t.red) + (IF nd # 0 /\ nd \in f[n] THEN 1 ELSE 0) + Hole(hp, hs, n, a) = H

\* Above a null pointer the weight is all in the black nodes on the way to it.
LEMMA DepthIsWeight ==
  ASSUME NEW t, NEW T, NEW N, NEW at, NEW pos, NEW b, Shape(t, T, N, at, pos, b), NEW f,
         NEW h, NEW hp, NEW hs, NEW nd, Balanced(t, T, h, hp, hs), NEW H \in Nat,
         NEW n \in T, Weighs(t, h, f, nd, H, n), NEW a \in Sides, t.child[a][n] = 0
  PROVE  Counts(t, f, hp, hs, nd, H, n, a)
  <1>1. h[n] = 0 + Hole(hp, hs, n, a) + Black(t, n) /\ h[n] \in Nat
    BY DEF Balanced, BalancedAt, Ht
  <1>2. /\ Cardinality(f[n] \ t.red) \in Nat
        /\ Cardinality(f[n] \ t.red) + h[n] + (IF nd # 0 /\ nd \in f[n] THEN 1 ELSE 0) = H + Black(t, n)
    BY FS_CardinalityType DEF Weighs
  <1>3. Hole(hp, hs, n, a) \in Nat /\ Black(t, n) \in Nat /\ (IF nd # 0 /\ nd \in f[n] THEN 1 ELSE 0) \in Nat
    BY DEF Hole, Black
  <1> QED
    BY <1>1, <1>2, <1>3 DEF Counts

\* Every way to a null pointer has the same number of black nodes.
LEMMA InvBalances == ASSUME RBInv PROVE BlackBalanced
  <1> DEFINE T == InTree
             ends == {e \in T \X Sides : tree.child[e[2]][e[1]] = nullptr}
             D == {BlackDepth(e[1], e[2]) : e \in ends}
  <1>1. PICK N, at, pos, b, h, hs : Red(tree, T, N, at, pos, b, h, hs, pc, node, parent)
    BY DEF RBInv
  <1>2. Shape(tree, T, N, at, pos, b) /\ Phase(tree, T, h, hs, pc, node, parent)
    BY <1>1 DEF Red
  <1>3. PICK f : IsClimb(f, tree) /\ \A n : Above(n) = f[n]
    <2>1. Stray(tree, T, doomed)
      BY DEF RBInv
    <2> HIDE DEF T
    <2> QED
      BY <1>2, <2>1, AboveFacts
  <1>4. pc \in {"idle", "insert_fixup", "erase_fixup", "delete"}
    BY DEF RBInv, Calls
  <1> HIDE DEF T
  <1>0. T \subseteq Nodes /\ 0 \notin T
    BY <1>2, ShapeFacts
  <1>5. \E H \in Nat : \A n \in T : \A s \in Sides : tree.child[s][n] = 0 => BlackDepth(n, s) = H
    <2>1. CASE pc # "erase_fixup"
      <3>1. Balanced(tree, T, h, 0, "left")
        BY <1>2, <1>4, <2>1 DEF Phase, InsertState
      <3>2. Lacks(tree, T, 0, "left", 0)
        BY DEF Lacks, Sides
      <3>3. PICK H \in Nat : \A n \in T : Weighs(tree, h, f, 0, H, n)
        BY <1>2, <1>3, <3>1, <3>2, AllWeigh
      <3>4. ASSUME NEW n \in T, NEW s \in Sides, tree.child[s][n] = 0 PROVE BlackDepth(n, s) = H
        <4>1. Cardinality(f[n] \ tree.red) + (IF 0 # 0 /\ 0 \in f[n] THEN 1 ELSE 0) + Hole(0, "left", n, s) = H
          BY <1>2, <3>1, <3>3, <3>4, DepthIsWeight DEF Counts
        <4>2. Hole(0, "left", n, s) = 0
          BY <1>0 DEF Hole
        <4>3. BlackDepth(n, s) = Cardinality(f[n] \ tree.red) + 0
          BY <1>3, <2>1 DEF BlackDepth
        <4>4. Cardinality(f[n] \ tree.red) \in Nat
          BY <3>3, FS_CardinalityType DEF Weighs
        <4> QED
          BY <4>1, <4>2, <4>3, <4>4
      <3> QED
        BY <3>4
    <2>2. CASE pc = "erase_fixup"
      <3>1. EraseState(tree, T, h, parent, hs, node)
        BY <1>2, <2>2 DEF Phase
      <3>2. Balanced(tree, T, h, parent, hs) /\ Lacks(tree, T, parent, hs, node)
        BY <3>1 DEF EraseState, Lacks
      <3>3. PICK H \in Nat : \A n \in T : Weighs(tree, h, f, node, H, n)
        BY <1>2, <1>3, <3>2, AllWeigh
      <3>4. ASSUME NEW n \in T, NEW s \in Sides, tree.child[s][n] = 0 PROVE BlackDepth(n, s) = H
        <4> DEFINE c == Cardinality(f[n] \ tree.red)
        <4>0. Counts(tree, f, parent, hs, node, H, n, s)
          BY <1>2, <3>2, <3>3, <3>4, DepthIsWeight
        <4>1. c + (IF node # 0 /\ node \in f[n] THEN 1 ELSE 0) + Hole(parent, hs, n, s) = H
          BY <4>0 DEF Counts
        <4>2. c \in Nat
          BY <3>3, FS_CardinalityType DEF Weighs
        <4>3. BlackDepth(n, s) = c + IF (IF node = 0 THEN n = parent /\ s = Side ELSE node \in f[n]) THEN 1 ELSE 0
          BY <1>3, <2>2, NodeFacts DEF BlackDepth
        <4> HIDE DEF c
        <4>4. CASE node # 0
          <5>1. Hole(parent, hs, n, s) = 0
            <6>1. ~(n = parent /\ s = hs)
              BY <1>0, <3>1, <3>4, <4>4 DEF EraseState
            <6> QED
              BY <6>1 DEF Hole
          <5> QED
            BY <4>1, <4>2, <4>3, <4>4, <5>1
        <4>5. CASE node = 0
          <5>1. EraseLoop
            <6>1. node # tree.root
              BY <1>2, <3>4, <4>5, <1>0 DEF Shape, Rooted
            <6>2. 0 \notin tree.red
              BY <3>1, NodeFacts DEF EraseState
            <6> QED
              BY <2>2, <4>5, <6>1, <6>2 DEF EraseLoop, IsRed
          <5>2. Side = hs
            BY <1>2, <3>1, <5>1, EraseSide
          <5>3. Hole(parent, hs, n, s) = IF n = parent /\ s = Side THEN 1 ELSE 0
            BY <5>2 DEF Hole
          <5> QED
            BY <4>1, <4>2, <4>3, <4>5, <5>3
        <4> QED
          BY <4>4, <4>5
      <3> QED
        BY <3>4
    <2> QED
      BY <2>1, <2>2
  <1>6. PICK H \in Nat : \A n \in T : \A s \in Sides : tree.child[s][n] = 0 => BlackDepth(n, s) = H
    BY <1>5
  <1>7. D \subseteq {H}
    <2> SUFFICES ASSUME NEW e \in ends PROVE BlackDepth(e[1], e[2]) = H
      OBVIOUS
    <2>1. e[1] \in T /\ e[2] \in Sides /\ tree.child[e[2]][e[1]] = 0
      BY NodeFacts
    <2> QED
      BY <1>6, <2>1
  <1> HIDE DEF D
  <1>8. Cardinality(D) <= 1
    <2>1. D = {} \/ D = {H}
      BY <1>7
    <2>2. Cardinality(D) \in {0, 1}
      BY <2>1, FS_EmptySet, FS_Singleton
    <2> QED
      BY <2>2
  <1> QED
    BY <1>8 DEF BlackBalanced, D, T

\* The tree is a red-black tree that holds what was inserted and not erased, in every
\* iteration of both repair loops (rbtree.h:206-537).
THEOREM TreeStaysRedBlack == Spec => []RedBlack
  <1>1. RBInv => RedBlack
    BY InvOrders, InvBalances, InvSeparatesRed, InvFindsValues DEF RedBlack
  <1> QED
    BY <1>1, RBInvHolds, PTL

=============================================================================
