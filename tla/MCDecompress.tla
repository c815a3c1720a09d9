---------------------------- MODULE MCDecompress ----------------------------
(***************************************************************************)
(* Instance for TLC of decompression alone, with the counts of the task    *)
(* that its comment states.                                                *)
(***************************************************************************)
EXTENDS Exercises

\* The other exercises stay in one of their initial states.
DecompressInit == PackInit /\ QuickInit /\ AtoiInit /\ array.input = <<1>>
DecompressSpec ==
  DecompressInit /\ [][PackNext /\ UNCHANGED <<qsVars, numeral>>]_<<qsVars, packed, numeral>>
=============================================================================
