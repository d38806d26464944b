----------------------------- MODULE MCSmartDriver -----------------------------
(* SmartDriver for TLC: a UPS that may be two commands behind, so that answers come *)
(* to other commands; a command is sent twice, a third time adds nothing new.       *)
EXTENDS SmartDriver
=============================================================================
