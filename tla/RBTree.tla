------------------------------- MODULE RBTree -------------------------------
(***************************************************************************)
(* The red-black tree of practice/rbtree.h.  One step is one iteration of  *)
(* the loop of insert_fixup or erase_fixup, or the code before or after    *)
(* it, so that the invariants speak of the loops as well as of the tree    *)
(* between two calls.                                                      *)
(*                                                                         *)
(* A node is an address; its value is fixed, and Copies nodes have the     *)
(* same value, so that equal values occur in the tree.  A search is a      *)
(* recursive function that follows the pointers the loop follows.          *)
(***************************************************************************)
EXTENDS Naturals, Sequences, FiniteSets

CONSTANTS MaxNodes,  \* nodes that can be in the tree at the same time
          Copies     \* nodes that have the same value

ASSUME RBTreeAssumption == MaxNodes \in Nat \ {0} /\ Copies \in Nat \ {0}

Nodes == 1 .. MaxNodes
nullptr == 0
Pointers == Nodes \cup {nullptr}
Value(n) == (n - 1) \div Copies
Values == {Value(n) : n \in Nodes}

Sides == {"left", "right"}
Other(side) == IF side = "left" THEN "right" ELSE "left"

VARIABLES
  tree,    \* root, and per node parent, children and color
  live,    \* the nodes that were allocated and not deleted
  pc,      \* between calls, in one of the loops, or about to delete
  node,    \* the loop's node
  parent,  \* erase_fixup's parent
  doomed   \* the node erase will delete

vars == <<tree, live, pc, node, parent, doomed>>

Init == /\ tree = [root |-> nullptr, parent |-> [n \in Nodes |-> nullptr],
                   child |-> [s \in Sides |-> [n \in Nodes |-> nullptr]], red |-> {}]
        /\ live = {} /\ pc = "idle"
        /\ node = nullptr /\ parent = nullptr /\ doomed = nullptr

-----------------------------------------------------------------------------
(* Operators on trees. *)

IsRed(t, n) == n \in t.red             \* no null pointer is red
SetRed(t, n) == [t EXCEPT !.red = @ \cup {n}]
SetBlack(t, n) == [t EXCEPT !.red = @ \ {n}]
CopyColor(t, to, from) == IF IsRed(t, from) THEN SetRed(t, to) ELSE SetBlack(t, to)

\* Which child of p the node n is; a null pointer is looked for on the left first.
SideOf(t, p, n) == IF t.child["left"][p] = n THEN "left" ELSE "right"

\* The node that had n as a child, or the root, gets m in its place.
Replace(t, n, m) ==
  LET p == t.parent[n]
  IN  IF p = nullptr THEN [t EXCEPT !.root = m]
      ELSE [t EXCEPT !.child[SideOf(t, p, n)][p] = m]

SetParent(t, n, p) == IF n = nullptr THEN t ELSE [t EXCEPT !.parent[n] = p]

\* left_revolve for side "left", right_revolve for side "right": the child y of
\* x on the other side takes the place of x, and x goes down on this side.
Revolve(t, x, side) ==
  LET y == t.child[Other(side)][x]
      z == t.child[side][y]
      up == SetParent(Replace(SetParent(t, z, x), x, y), y, t.parent[x])
  IN  SetParent([up EXCEPT !.child[Other(side)][x] = z, !.child[side][y] = x], x, y)

-----------------------------------------------------------------------------
(* Searches. *)

\* The node under which insert puts the value v.
InsertParent(v) ==
  LET walk[x \in Nodes] ==
        LET next == tree.child[IF v < Value(x) THEN "left" ELSE "right"][x]
        IN  IF next = nullptr THEN x ELSE walk[next]
  IN  IF tree.root = nullptr THEN nullptr ELSE walk[tree.root]

\* find(root, v)
Find(v) ==
  LET walk[x \in Pointers] ==
        IF x = nullptr \/ Value(x) = v THEN x
        ELSE walk[tree.child[IF Value(x) > v THEN "left" ELSE "right"][x]]
  IN  walk[tree.root]

\* The least node of the subtree at n.
Leftmost(n) ==
  LET walk[x \in Nodes] ==
        IF tree.child["left"][x] = nullptr THEN x ELSE walk[tree.child["left"][x]]
  IN  walk[n]

\* foreach_middle(root)
Inorder ==
  LET visit[x \in Pointers] ==
        IF x = nullptr THEN << >>
        ELSE visit[tree.child["left"][x]] \o <<x>> \o visit[tree.child["right"][x]]
  IN  visit[tree.root]

-----------------------------------------------------------------------------
(* insert *)

\* insert(root, t): a new red leaf, then the loop.
Insert(n) ==
  /\ pc = "idle" /\ n \notin live
  /\ LET y == InsertParent(Value(n))
         fresh == [tree EXCEPT !.parent[n] = y, !.child["left"][n] = nullptr,
                               !.child["right"][n] = nullptr]
         linked == IF y = nullptr THEN [fresh EXCEPT !.root = n]
                   ELSE [fresh EXCEPT !.child[IF Value(n) < Value(y) THEN "left" ELSE "right"][y] = n]
     IN  tree' = SetRed(linked, n)
  /\ live' = live \cup {n} /\ pc' = "insert_fixup" /\ node' = n
  /\ UNCHANGED <<parent, doomed>>

\* Of the loop's node: father, grandfather, the side of the father, the uncle.
Father == tree.parent[node]
Grand == tree.parent[Father]
FatherSide == SideOf(tree, Grand, Father)
Uncle == tree.child[Other(FatherSide)][Grand]

InsertLoop == pc = "insert_fixup" /\ IsRed(tree, Father)

\* Case 1: a red uncle; the problem moves to the grandfather.
InsertCase1 ==
  /\ InsertLoop /\ IsRed(tree, Uncle)
  /\ tree' = SetRed(SetBlack(SetBlack(tree, Uncle), Father), Grand)
  /\ node' = Grand
  /\ UNCHANGED <<live, pc, parent, doomed>>

\* Case 2 on the left: the inner grandchild is rotated out, and the loop goes on
\* with the old father.
InsertCase2Left ==
  /\ InsertLoop /\ ~IsRed(tree, Uncle) /\ FatherSide = "left"
  /\ node = tree.child["right"][Father]
  /\ tree' = Revolve(tree, Father, "left")
  /\ node' = Father
  /\ UNCHANGED <<live, pc, parent, doomed>>

\* Case 3: the father p takes the place of the grandfather g.
InsertRotate(t, p, g) ==
  Revolve(SetRed(SetBlack(t, p), g), g, Other(SideOf(t, g, p)))

InsertCase3Left ==
  /\ InsertLoop /\ ~IsRed(tree, Uncle) /\ FatherSide = "left"
  /\ node = tree.child["left"][Father]
  /\ tree' = InsertRotate(tree, Father, Grand)
  /\ UNCHANGED <<live, pc, node, parent, doomed>>

\* Cases 2 and 3 on the right, in one iteration: an inner grandchild is rotated
\* out first and changes roles with the father.
InsertCase3Right ==
  /\ InsertLoop /\ ~IsRed(tree, Uncle) /\ FatherSide = "right"
  /\ IF node = tree.child["left"][Father]
       THEN /\ tree' = InsertRotate(Revolve(tree, Father, "right"), node, Grand)
            /\ node' = Father
       ELSE tree' = InsertRotate(tree, Father, Grand) /\ UNCHANGED node
  /\ UNCHANGED <<live, pc, parent, doomed>>

InsertDone ==
  /\ pc = "insert_fixup" /\ ~IsRed(tree, Father)
  /\ tree' = SetBlack(tree, tree.root)
  /\ pc' = "idle" /\ node' = nullptr
  /\ UNCHANGED <<live, parent, doomed>>

-----------------------------------------------------------------------------
(* erase *)

\* What erase does to the tree t when it takes n out, with the node and the
\* parent with which the loop starts, and whether a black node was lost.
Unlink(t, n) ==
  LET l == t.child["left"][n]
      r == t.child["right"][n]
      only == IF l # nullptr THEN l ELSE r
      m == Leftmost(r)
      mchild == t.child["right"][m]
      mparent == t.parent[m]
      \* m leaves its place, unless it is a child of n, and takes that of n.
      out == IF mparent = n THEN t
             ELSE SetParent([SetParent(t, mchild, mparent) EXCEPT
                               !.child["left"][mparent] = mchild, !.child["right"][m] = r], r, m)
      in == SetParent([Replace(out, n, m) EXCEPT !.child["left"][m] = l, !.parent[m] = t.parent[n]], l, m)
  IN  IF l = nullptr \/ r = nullptr
        THEN [tree |-> SetParent(Replace(t, n, only), only, t.parent[n]),
              node |-> only, parent |-> t.parent[n], black |-> ~IsRed(t, n)]
        ELSE [tree |-> CopyColor(in, m, n), node |-> mchild,
              parent |-> IF mparent = n THEN m ELSE mparent, black |-> ~IsRed(t, m)]

\* erase(root, t) of a value that is there, up to the loop.  The last node is
\* deleted at once.
Erase(v) ==
  /\ pc = "idle" /\ Find(v) # nullptr
  /\ LET n == Find(v)
         u == Unlink(tree, n)
     IN  /\ tree' = u.tree /\ doomed' = n
         /\ IF u.black /\ u.tree.root # nullptr
              THEN pc' = "erase_fixup" /\ node' = u.node /\ parent' = u.parent
              ELSE pc' = "delete" /\ UNCHANGED <<node, parent>>
  /\ UNCHANGED live

\* The sibling of the loop's node, and its children next to the node and away
\* from it.
Side == SideOf(tree, parent, node)
Sibling == tree.child[Other(Side)][parent]
Near == tree.child[Side][Sibling]
Far == tree.child[Other(Side)][Sibling]

EraseLoop == pc = "erase_fixup" /\ node # tree.root /\ ~IsRed(tree, node)

\* Case 1: a red sibling; the rotation gives the node a black one.
EraseCase1 ==
  /\ EraseLoop /\ IsRed(tree, Sibling)
  /\ tree' = Revolve(SetRed(SetBlack(tree, Sibling), parent), parent, Side)
  /\ UNCHANGED <<live, pc, node, parent, doomed>>

\* Case 2: no red child to borrow; the problem moves to the parent.
EraseCase2 ==
  /\ EraseLoop /\ ~IsRed(tree, Sibling) /\ ~IsRed(tree, Near) /\ ~IsRed(tree, Far)
  /\ tree' = SetRed(tree, Sibling)
  /\ node' = parent /\ parent' = tree.parent[parent]
  /\ UNCHANGED <<live, pc, doomed>>

\* Mutant: the colors are not exchanged.
EraseCase3_KeepColors ==
  /\ EraseLoop /\ ~IsRed(tree, Sibling) /\ IsRed(tree, Near) /\ ~IsRed(tree, Far)
  /\ tree' = Revolve(tree, Sibling, Other(Side))
  /\ UNCHANGED <<live, pc, node, parent, doomed>>

\* Mutant: the mirror image of the case is missing.
EraseCase3_LeftOnly ==
  /\ EraseLoop /\ Side = "left"
  /\ ~IsRed(tree, Sibling) /\ IsRed(tree, Near) /\ ~IsRed(tree, Far)
  /\ tree' = Revolve(SetRed(SetBlack(tree, Near), Sibling), Sibling, Other(Side))
  /\ UNCHANGED <<live, pc, node, parent, doomed>>

\* Case 3: only the near child is red; it is rotated to the far side.
EraseCase3 ==
  /\ EraseLoop /\ ~IsRed(tree, Sibling) /\ IsRed(tree, Near) /\ ~IsRed(tree, Far)
  /\ tree' = Revolve(SetRed(SetBlack(tree, Near), Sibling), Sibling, Other(Side))
  /\ UNCHANGED <<live, pc, node, parent, doomed>>

\* The end of erase_fixup.
Blacken(t) == IF node = nullptr THEN t ELSE SetBlack(t, node)

\* Case 4: the far child is borrowed, and the loop ends.
EraseCase4 ==
  /\ EraseLoop /\ ~IsRed(tree, Sibling) /\ IsRed(tree, Far)
  /\ tree' = Blacken(Revolve(SetBlack(SetBlack(CopyColor(tree, Sibling, parent), parent), Far),
                             parent, Side))
  /\ pc' = "delete"
  /\ UNCHANGED <<live, node, parent, doomed>>

EraseDone ==
  /\ pc = "erase_fixup" /\ (node = tree.root \/ IsRed(tree, node))
  /\ tree' = Blacken(tree)
  /\ pc' = "delete"
  /\ UNCHANGED <<live, node, parent, doomed>>

Delete == /\ pc = "delete"
          /\ live' = live \ {doomed}
          /\ pc' = "idle" /\ node' = nullptr /\ parent' = nullptr /\ doomed' = nullptr
          /\ tree' = [tree EXCEPT !.red = @ \ {doomed}, !.parent[doomed] = nullptr,
                                  !.child["left"][doomed] = nullptr,
                                  !.child["right"][doomed] = nullptr]

\* destroy(root), after which the caller forgets the root.
Destroy == /\ pc = "idle" /\ tree.root # nullptr
           /\ tree' = [tree EXCEPT !.root = nullptr, !.red = {},
                                   !.parent = [n \in Nodes |-> nullptr],
                                   !.child = [s \in Sides |-> [n \in Nodes |-> nullptr]]]
           /\ live' = {}
           /\ UNCHANGED <<pc, node, parent, doomed>>

-----------------------------------------------------------------------------
Fixup == \/ InsertCase1 \/ InsertCase2Left \/ InsertCase3Left \/ InsertCase3Right \/ InsertDone
         \/ EraseCase1 \/ EraseCase2 \/ EraseCase3 \/ EraseCase4 \/ EraseDone
         \/ Delete

Next == \/ \E n \in Nodes : Insert(n)
        \/ \E v \in Values : Erase(v)
        \/ Destroy \/ Fixup

\* A call that was begun is carried on.
Spec == Init /\ [][Next]_vars /\ WF_vars(Fixup)

-----------------------------------------------------------------------------
(* Correctness. *)

\* The nodes of the tree: the one that is being erased is out of it already.
InTree == live \ {doomed}

\* At every step, the rotations of the loops included, the traversal meets every
\* node of the tree once and in the order of the values, and the parent
\* pointers mirror the child pointers (rbtree.h:53-64, 153-204, 413-527).
Ordered ==
  LET seq == Inorder
  IN  /\ {seq[i] : i \in 1 .. Len(seq)} = InTree /\ Len(seq) = Cardinality(InTree)
      /\ \A i \in 1 .. Len(seq) - 1 : Value(seq[i]) <= Value(seq[i + 1])
      /\ \A n \in InTree : LET p == tree.parent[n]
                           IN  IF p = nullptr THEN tree.root = n
                               ELSE tree.child[SideOf(tree, p, n)][p] = n

\* The nodes of the way from the root down to n.
Above(n) ==
  LET up[x \in Pointers] == IF x = nullptr THEN {} ELSE {x} \cup up[tree.parent[x]]
  IN  up[n]

\* The black nodes on the way to the null pointer below n on a side.  In
\* erase_fixup the place of the loop's node stands for the black node it lost.
BlackDepth(n, side) ==
  Cardinality(Above(n) \ tree.red)
    + IF pc = "erase_fixup" /\ (IF node = nullptr THEN n = parent /\ side = Side ELSE node \in Above(n))
        THEN 1 ELSE 0

\* All ways from the root to a null pointer have the same number of black nodes,
\* in the tree between two calls and in every iteration of both loops
\* (rbtree.h:206-272, 319-411).
BlackBalanced ==
  LET ends == {e \in InTree \X Sides : tree.child[e[2]][e[1]] = nullptr}
  IN  Cardinality({BlackDepth(e[1], e[2]) : e \in ends}) <= 1

\* No red node has a red father or is the root, except where the loop is about to
\* repair it: insert_fixup at its node, erase_fixup at its node, which it paints
\* black, and at the nephew it has just painted red (rbtree.h:206-411).
RedSeparated ==
  \A n \in InTree \cap tree.red :
    \/ tree.parent[n] # nullptr /\ ~IsRed(tree, tree.parent[n])
    \/ pc = "insert_fixup" /\ n = node
    \/ pc = "erase_fixup" /\ node \in {n, tree.parent[n]}

\* Every value in the tree is found, from wherever equal values were rotated to
\* (rbtree.h:110-129, the assertion at rbtree.cpp:102).
EveryValueIsFound ==
  pc = "idle" => \A n \in live : Find(Value(n)) \in {m \in live : Value(m) = Value(n)}

\* The tree is a red-black tree that holds what was inserted and not erased, in every
\* iteration of both repair loops (rbtree.h:206-537).
RedBlack == Ordered /\ BlackBalanced /\ RedSeparated /\ EveryValueIsFound

\* The loops end: every call returns (rbtree.h:210, 324).
CallsReturn == pc # "idle" ~> pc = "idle"
=============================================================================
