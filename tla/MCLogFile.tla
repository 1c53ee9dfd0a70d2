------------------------------ MODULE MCLogFile ------------------------------
(* LogFile for TLC: the values of the constants are in LogFile.cfg. *)
EXTENDS LogFile
=============================================================================
