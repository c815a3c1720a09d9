---------------------------- MODULE MCThreadPool ----------------------------
(* Instance of the thread pool for TLC. *)
EXTENDS ThreadPool
=============================================================================
