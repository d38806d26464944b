------------------------------ MODULE MCEventLog ------------------------------
(* EventLog for TLC: the device thread and the signal thread log, and a    *)
(* client asks for the last two lines.                                     *)
EXTENDS EventLog
=============================================================================
