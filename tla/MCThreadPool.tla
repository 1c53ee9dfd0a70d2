---------------------------- MODULE MCThreadPool ----------------------------
(* ThreadPool for TLC: the values of the constants are in ThreadPool.cfg. *)
EXTENDS ThreadPool
=============================================================================
