---------------------------- MODULE MCComponents ----------------------------
(***************************************************************************)
(* Instance for TLC of the components that do not meet each other, among   *)
(* them the programs of practice/ and memory/: a behaviour is one of them, *)
(* chosen at the start.                                                    *)
(***************************************************************************)
EXTENDS PriorityQueues, Event, Account, Uri, LuaJson, RBTree, BinaryTree, Exercises, LinkedList

VARIABLE running

Components == {"queues", "event", "account", "uri", "lua",
               "rbtree", "tree", "quicksort", "decompress", "atoi", "my_link"}

\* The sorts only compare: one array of each order of its elements, equal ones included.
OneOfItsOrder(a) == Range(a) = 1 .. Cardinality(Range(a))

\* The components that do not run have one initial state.
MCInit ==
  /\ PqInit /\ EventInit /\ AccountInit /\ UriInit /\ LuaInit
  /\ Init /\ BstInit /\ QuickInit /\ PackInit /\ AtoiInit /\ ListInit
  /\ running \in Components
  /\ running # "account" => ~m_op_flag
  /\ running # "uri" => parts.host = <<"h">>
  /\ running # "lua" => doc.value = Null
  /\ OneOfItsOrder(array.input)
  /\ running # "quicksort" => array.input = <<1, 1>>

libraryVars == <<pqVars, evVars, acVars, parts, doc>>
programVars == <<vars, bstVars, qsVars, packed, numeral, llVars>>

LibraryNext ==
  \/ running = "queues" /\ PqNext /\ UNCHANGED <<evVars, acVars, parts, doc>>
  \/ running = "event" /\ EventNext /\ UNCHANGED <<pqVars, acVars, parts, doc>>
  \/ running = "account" /\ AccountNext /\ UNCHANGED <<pqVars, evVars, parts, doc>>
  \/ running = "uri" /\ UriNext /\ UNCHANGED <<pqVars, evVars, acVars, doc>>
  \/ running = "lua" /\ LuaNext /\ UNCHANGED <<pqVars, evVars, acVars, parts>>

ProgramNext ==
  \/ running = "rbtree" /\ Next /\ UNCHANGED <<bstVars, qsVars, packed, numeral, llVars>>
  \/ running = "tree" /\ BstNext /\ UNCHANGED <<vars, qsVars, packed, numeral, llVars>>
  \/ running = "quicksort" /\ QuickNext /\ UNCHANGED <<vars, bstVars, packed, numeral, llVars>>
  \/ running = "decompress" /\ PackNext /\ UNCHANGED <<vars, bstVars, qsVars, numeral, llVars>>
  \/ running = "atoi" /\ AtoiNext /\ UNCHANGED <<vars, bstVars, qsVars, packed, llVars>>
  \/ running = "my_link" /\ ListNext /\ UNCHANGED <<vars, bstVars, qsVars, packed, numeral>>

MCNext == /\ \/ LibraryNext /\ UNCHANGED programVars
             \/ ProgramNext /\ UNCHANGED libraryVars
          /\ UNCHANGED running

\* The fairness of the event and of calls of the trees and of quick_sort that are under
\* way, for the component that runs; the others have no liveness properties.
MCFairness == /\ \A w \in Writers : WF_evVars(running = "event" /\ WriterStep(w))
              /\ \A r \in Readers : WF_evVars(running = "event" /\ ReaderStep(r))
              /\ WF_vars(Fixup)
              /\ WF_qsVars(running = "quicksort" /\ QuickNext)

MCSpec == MCInit /\ [][MCNext]_<<libraryVars, programVars, running>> /\ MCFairness
=============================================================================
