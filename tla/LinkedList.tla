----------------------------- MODULE LinkedList -----------------------------
(***************************************************************************)
(* The linked list of memory/my_link.c, compared with a sequence of nodes. *)
(* A node is an address and 0 is NULL; calls that return -1 change nothing *)
(* and are left out.                                                       *)
(*                                                                         *)
(* link_delect uses pparent before it is assigned if the node is the first *)
(* one, and both it and link_destroy follow the next of a node they have   *)
(* freed: from then on the program may do anything, or go on if the memory *)
(* is still intact.                                                        *)
(***************************************************************************)
EXTENDS Naturals, Sequences, FiniteSets, FiniteSetsExt, SequencesExt

CONSTANTS MaxListNodes   \* bound on the number of nodes

ASSUME ListAssumption == MaxListNodes \in Nat \ {0}

ListNodes == 1 .. MaxListNodes
ListHead == MaxListNodes + 1

VARIABLES
  next,      \* of the head and of every node
  nodes,     \* the nodes that were created and not freed
  wild,      \* the program has left what the language defines
  sequence   \* the nodes that should be in the list

llVars == <<next, nodes, wild, sequence>>

ListInit == /\ next = [n \in ListNodes \cup {ListHead} |-> 0]
            /\ nodes = {} /\ wild = FALSE /\ sequence = << >>

\* The nodes in the order in which a loop from head->next meets them, up to one more
\* than there are: a list that runs in a circle is seen to be too long.
Walk ==
  LET at[k \in 0 .. MaxListNodes + 1] ==
        IF k = 0 THEN << >>
        ELSE LET n == next[IF at[k - 1] = << >> THEN ListHead ELSE Last(at[k - 1])]
             IN  IF n = 0 THEN at[k - 1] ELSE Append(at[k - 1], n)
  IN  at[MaxListNodes + 1]

LinkIsset(n) == n \in Range(Walk)
Position(n) == CHOOSE k \in DOMAIN Walk : Walk[k] = n

NodeCreate ==
  /\ ~wild /\ nodes # ListNodes
  /\ LET n == Min(ListNodes \ nodes)
     IN  nodes' = nodes \cup {n} /\ next' = [next EXCEPT ![n] = 0]
  /\ UNCHANGED <<wild, sequence>>

LinkInsert(prev, n) ==
  /\ ~wild /\ LinkIsset(prev) /\ ~LinkIsset(n)
  /\ next' = [next EXCEPT ![n] = next[prev], ![prev] = n]
  /\ sequence' = InsertAt(sequence, Position(prev) + 1, n)
  /\ UNCHANGED <<nodes, wild>>

LinkInsertTail(n) ==
  /\ ~wild /\ ~LinkIsset(n)
  /\ next' = [next EXCEPT ![IF Walk = << >> THEN ListHead ELSE Last(Walk)] = n]
  /\ sequence' = Append(sequence, n)
  /\ UNCHANGED <<nodes, wild>>

LinkInsertHead(n) ==
  /\ ~wild /\ ~LinkIsset(n)
  /\ next' = [next EXCEPT ![n] = IF next[ListHead] # 0 THEN next[ListHead] ELSE @,
                          ![ListHead] = n]
  /\ sequence' = <<n>> \o sequence
  /\ UNCHANGED <<nodes, wild>>

\* The program does something undefined.
GoWild == wild' = TRUE /\ UNCHANGED <<next, nodes, sequence>>

\* link_delect of a node in the list.
LinkDelect(n) ==
  /\ ~wild /\ LinkIsset(n)
  /\ \/ GoWild
     \/ /\ n # Walk[1]
        /\ next' = [next EXCEPT ![Walk[Position(n) - 1]] = next[n]]
        /\ nodes' = nodes \ {n}
        /\ sequence' = RemoveAt(sequence, Position(n))
        /\ UNCHANGED wild

\* Mutant: the first node keeps its next.
LinkReversal_Circle ==
  /\ ~wild /\ Len(Walk) > 1
  /\ next' = [n \in DOMAIN next |->
                IF n = ListHead THEN Last(Walk)
                ELSE IF LinkIsset(n) /\ n # Walk[1] THEN Walk[Position(n) - 1] ELSE next[n]]
  /\ sequence' = Reverse(sequence)
  /\ UNCHANGED <<nodes, wild>>

\* link_reversal: recursion_reversal points every node but the first at the one before
\* it, the first one becomes the last.
LinkReversal ==
  /\ ~wild /\ Len(Walk) > 1
  /\ next' = [n \in DOMAIN next |->
                IF n = ListHead THEN Last(Walk)
                ELSE IF n = Walk[1] THEN 0
                ELSE IF LinkIsset(n) THEN Walk[Position(n) - 1] ELSE next[n]]
  /\ sequence' = Reverse(sequence)
  /\ UNCHANGED <<nodes, wild>>

\* link_destroy, and head_init for a new list.
LinkDestroy ==
  /\ ~wild
  /\ \/ Walk # << >> /\ GoWild
     \/ /\ nodes' = nodes \ Range(Walk)
        /\ next' = [next EXCEPT ![ListHead] = 0]
        /\ sequence' = << >>
        /\ UNCHANGED wild

ListNext == \/ NodeCreate \/ LinkReversal \/ LinkDestroy
            \/ \E n \in nodes : \/ LinkInsertTail(n) \/ LinkInsertHead(n) \/ LinkDelect(n)
                                \/ \E prev \in nodes : LinkInsert(prev, n)

ListSpec == ListInit /\ [][ListNext]_llVars

-----------------------------------------------------------------------------
(* Correctness. *)

\* As long as the program is defined the list is the sequence its calls describe: it
\* ends, no node is in it twice and all its nodes are allocated, through insertions
\* at every place, deletions and reversals (my_link.c:31-168).
ListIsSequence == ~wild => Walk = sequence /\ IsInjective(Walk) /\ Range(Walk) \subseteq nodes
=============================================================================
