----------------------------- MODULE MCNisServer -----------------------------
(* NisServer for TLC: two clients, of which one may hold up the other, and *)
(* a buffer in which the last line of the report finds no room.            *)
EXTENDS NisServer
=============================================================================
