-------------------------- MODULE MCEventLoopThread --------------------------
(* EventLoopThread for TLC: the values of the constants are in EventLoopThread.cfg. *)
EXTENDS EventLoopThread
=============================================================================
