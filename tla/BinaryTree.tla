----------------------------- MODULE BinaryTree -----------------------------
(***************************************************************************)
(* The binary search tree of practice/tree.h.  The caller keeps a pointer  *)
(* to the root, which no operation may change: an emptied root stays and   *)
(* is marked invalid, and an erasure at the root moves values instead of   *)
(* nodes.  Every call is one step.                                         *)
(*                                                                         *)
(* A node is an address, 0 is nullptr.  new takes the least free address.  *)
(* The tree is compared with the set of values it stands for.              *)
(***************************************************************************)
EXTENDS Naturals, Sequences, FiniteSets, FiniteSetsExt

CONSTANTS BstValues,    \* the values that are inserted: numbers
          BstAddresses  \* bound: the number of nodes that fit into memory

ASSUME BstAssumption == BstValues \subseteq Nat /\ BstAddresses \in Nat \ {0}

BstNodes == 1 .. BstAddresses

VARIABLES
  bst,      \* the contents of memory: a function on the nodes that were not deleted
  bst_root, \* the caller's pointer, 0 if it has no tree
  bst_set   \* the values that were inserted and not erased since

bstVars == <<bst, bst_root, bst_set>>

BstInit == bst = << >> /\ bst_root = 0 /\ bst_set = {}

\* Memory with the node n added or changed, and without it.
With(mem, n, r) == [m \in DOMAIN mem \cup {n} |-> IF m = n THEN r ELSE mem[m]]
Deleted(mem, n) == [m \in DOMAIN mem \ {n} |-> mem[m]]

Free == BstNodes \ DOMAIN bst
NewNode(v, p) == [left |-> 0, right |-> 0, parent |-> p, value |-> v, is_valid |-> TRUE]

SetLink(mem, n, link, m) == [mem EXCEPT ![n] = [@ EXCEPT ![link] = m]]
Relink(mem, n, p) == IF n = 0 THEN mem ELSE SetLink(mem, n, "parent", p)

\* Which link of its parent leads to n.
LinkTo(mem, n) == IF mem[mem[n].parent].left = n THEN "left" ELSE "right"

-----------------------------------------------------------------------------
(* The searches. *)

\* The link an insertion, a search or an erasure of v follows from n.
Toward(n, v) == IF bst[n].value > v THEN "left" ELSE "right"

\* The nodes from n on the way to v: the last one is v's, or has no link to follow.
SearchPath(v) ==
  LET at[k \in 0 .. BstAddresses] ==
        IF k = 0 THEN bst_root
        ELSE IF at[k - 1] = 0 THEN 0
        ELSE IF bst[at[k - 1]].value = v THEN 0
        ELSE bst[at[k - 1]][Toward(at[k - 1], v)]
  IN  {at[k] : k \in 0 .. BstAddresses} \ {0}

\* find: an invalid root has nothing below it.
BstFind(v) ==
  IF ~bst[bst_root].is_valid THEN {} ELSE {n \in SearchPath(v) : bst[n].value = v}

\* The node below which insert puts v.
InsertPoint(v) == CHOOSE n \in SearchPath(v) : bst[n][Toward(n, v)] = 0

-----------------------------------------------------------------------------
(* The calls. *)

\* create_root with and without a value.
BstCreate(v) ==
  /\ bst_root = 0 /\ Free # {}
  /\ bst_root' = Min(Free)
  /\ bst' = With(bst, Min(Free), NewNode(v, 0))
  /\ bst_set' = {v}

BstCreateEmpty ==
  /\ bst_root = 0 /\ Free # {}
  /\ bst_root' = Min(Free)
  /\ bst' = With(bst, Min(Free), [NewNode(Min(BstValues), 0) EXCEPT !.is_valid = FALSE])
  /\ bst_set' = {}

\* insert: an invalid root takes the value, a value that is there is dropped.
BstInsert(v) ==
  /\ bst_root # 0
  /\ \/ /\ ~bst[bst_root].is_valid
        /\ bst' = [bst EXCEPT ![bst_root].is_valid = TRUE, ![bst_root].value = v]
     \/ /\ bst[bst_root].is_valid /\ BstFind(v) # {}
        /\ UNCHANGED bst
     \/ /\ bst[bst_root].is_valid /\ BstFind(v) = {} /\ Free # {}
        /\ LET p == InsertPoint(v)
               n == Min(Free)
           IN  bst' = SetLink(With(bst, n, NewNode(v, p)), p, Toward(p, v), n)
  /\ bst_set' = bst_set \cup {v}
  /\ UNCHANGED bst_root

\* The node's only child takes its place below the node's parent.
Splice(mem, n, child) ==
  Deleted(Relink(SetLink(mem, mem[n].parent, LinkTo(mem, n), child), child, mem[n].parent), n)

\* A root with one child takes over the child's value and children.
Absorb(mem, root, child) ==
  LET c == mem[child]
      moved == [mem EXCEPT ![root] = [@ EXCEPT !.value = c.value, !.left = c.left,
                                               !.right = c.right]]
  IN  Deleted(Relink(Relink(moved, c.left, root), c.right, root), child)

\* The rightmost node below n.
Rightmost(n) ==
  LET at[k \in 0 .. BstAddresses] ==
        IF k = 0 THEN n ELSE IF bst[at[k - 1]].right = 0 THEN at[k - 1] ELSE bst[at[k - 1]].right
  IN  at[BstAddresses]

\* Mutant: the node that gave its value is unlinked as if it had no child.
TakeLast_DropChild(n) ==
  LET last == Rightmost(bst[n].left)
      valued == [bst EXCEPT ![n].value = bst[last].value]
  IN  Deleted(SetLink(valued, bst[last].parent, LinkTo(bst, last), 0), last)

\* A node with two children takes the greatest value on its left.
TakeLast(n) ==
  LET last == Rightmost(bst[n].left)
  IN  Splice([bst EXCEPT ![n].value = bst[last].value], last, bst[last].left)

EraseNode(n) ==
  LET l == bst[n].left
      r == bst[n].right
      child == IF l # 0 THEN l ELSE r
  IN  IF l # 0 /\ r # 0 THEN TakeLast(n)
      ELSE IF n # bst_root THEN Splice(bst, n, child)
      ELSE IF child # 0 THEN Absorb(bst, n, child)
      ELSE [bst EXCEPT ![n].is_valid = FALSE]

BstErase(v) ==
  /\ bst_root # 0
  /\ bst' = IF BstFind(v) = {} THEN bst ELSE EraseNode(CHOOSE n \in BstFind(v) : TRUE)
  /\ bst_set' = bst_set \ {v}
  /\ UNCHANGED bst_root

\* The nodes below the root, with it; every traversal stops at an invalid root.
Reached ==
  LET below[k \in 0 .. BstAddresses] ==
        IF k = 0 THEN {bst_root} \ {0}
        ELSE below[k - 1] \cup UNION {{bst[n].left, bst[n].right} \ {0} : n \in below[k - 1]}
  IN  below[BstAddresses]
Visited == IF bst_root # 0 /\ bst[bst_root].is_valid THEN Reached ELSE {}

\* destroy: foreach_back deletes what it visits, and the caller drops its pointer; an
\* invalid root is not visited and stays in memory.
BstDestroy ==
  /\ bst_root # 0
  /\ bst' = [n \in DOMAIN bst \ Visited |-> bst[n]]
  /\ bst_root' = 0 /\ bst_set' = {}

BstNext == \/ \E v \in BstValues : BstCreate(v) \/ BstInsert(v) \/ BstErase(v)
           \/ BstCreateEmpty \/ BstDestroy

BstSpec == BstInit /\ [][BstNext]_bstVars

-----------------------------------------------------------------------------
(* Correctness. *)

\* All values below link of n are on one side of n's.
Below(n, link) == LET sub[k \in 0 .. BstAddresses] ==
                        IF k = 0 THEN {bst[n][link]} \ {0}
                        ELSE sub[k - 1] \cup UNION {{bst[m].left, bst[m].right} \ {0} : m \in sub[k - 1]}
                  IN  sub[BstAddresses]

\* The tree stays a search tree after any sequence of calls: on the left of a node
\* are the lesser values and on the right the greater, parent is the inverse of left
\* and right, only a root without children is invalid, and the caller's root is
\* still the root (tree.h:123-255).
BstIsOrdered ==
  /\ \A n \in Reached :
       /\ \A m \in Below(n, "left") : bst[m].value < bst[n].value
       /\ \A m \in Below(n, "right") : bst[m].value > bst[n].value
       /\ \A m \in {bst[n].left, bst[n].right} \ {0} : bst[m].parent = n
       /\ ~bst[n].is_valid => n = bst_root /\ bst[n].left = 0 /\ bst[n].right = 0
  /\ bst_root # 0 => bst[bst_root].parent = 0

\* The tree is the set of the values inserted and not erased since: the traversals
\* visit each once, find finds these and no others (tree.h:32-69, 101-120, 279-288).
BstContents ==
  /\ {bst[n].value : n \in Visited} = bst_set
  /\ Cardinality(Visited) = Cardinality(bst_set)
  /\ bst_root # 0 => \A v \in BstValues : (BstFind(v) # {}) = (v \in bst_set)

\* No node leaks but the roots that were invalid when their tree was destroyed
\* (tree.h:183-188, 291-298).
BstLeaksOnlyEmptyRoots ==
  \A n \in DOMAIN bst \ Reached : ~bst[n].is_valid /\ bst[n].parent = 0

\* After any sequence of calls the tree is an ordered tree of the set of values it
\* stands for, and nothing but emptied roots is leaked (tree.h:16-298).
BstIsASet == BstIsOrdered /\ BstContents /\ BstLeaksOnlyEmptyRoots
=============================================================================
