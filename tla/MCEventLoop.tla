----------------------------- MODULE MCEventLoop -----------------------------
(* EventLoop for TLC: the values of the constants are in EventLoop.cfg. *)
EXTENDS EventLoop
=============================================================================
