------------------------------ MODULE MCLockFile ------------------------------
(* Small instances of LockFile for TLC. *)
EXTENDS LockFile, TLC

PidSymmetry == Permutations(Pids)
=============================================================================
