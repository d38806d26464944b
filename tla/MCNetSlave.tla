------------------------------ MODULE MCNetSlave ------------------------------
(* A small instance of NetSlave for TLC. *)
EXTENDS NetSlave

Master(bits, charge) ==
    [onbatt |-> "onbatt" \in bits, shutdown |-> "shutdown" \in bits,
     shut_remote |-> "shut_remote" \in bits, commlost |-> "commlost" \in bits,
     fastpoll |-> "fastpoll" \in bits, BattChg |-> charge]

\* On mains, without its UPS and back from a fast poll, on batteries, shutting down.
SomeMasters ==
    {Master({}, 2), Master({"fastpoll", "commlost"}, 1), Master({"onbatt", "fastpoll"}, 1),
     Master({"onbatt", "fastpoll", "shutdown"}, 1)}
=============================================================================
