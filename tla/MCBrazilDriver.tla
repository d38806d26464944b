---------------------------- MODULE MCBrazilDriver ----------------------------
(* BrazilDriver for TLC.  The configurations know one model number, and    *)
(* the pad byte looks like it, so that a message may seem to begin in the  *)
(* middle of another.                                                      *)
EXTENDS BrazilDriver
=============================================================================
