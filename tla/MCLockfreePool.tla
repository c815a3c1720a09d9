--------------------------- MODULE MCLockfreePool ---------------------------
(* Instance of the lock-free thread pool for TLC. *)
EXTENDS LockfreePool
=============================================================================
