-------------------------- MODULE MCLockfreeQueue --------------------------
(* Instances of the lock-free queue for TLC. *)
EXTENDS LockfreeQueue, TLC

Symmetric == Permutations(Items) \cup Permutations(Producers) \cup Permutations(Consumers)
=============================================================================
