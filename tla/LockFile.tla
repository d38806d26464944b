------------------------------- MODULE LockFile -------------------------------
(***************************************************************************)
(* The serial port lock file (lib/apclock.c): create_lockfile() at the     *)
(* start of a daemon, delete_lockfile() when it stops, when it fails to    *)
(* start and when it shuts the system down, and check_stale_lockfile(),    *)
(* which both go through and which is several system calls.                *)
(*                                                                         *)
(* A process is its pid; pids are used again, by a daemon or by any other  *)
(* program.  The cable is not APC_NET, and the daemon is not run with      *)
(* --killpower or --power-off: those take no lock.                         *)
(***************************************************************************)
EXTENDS Integers, FiniteSets

CONSTANTS
    Pids,
    None,            \* no file, no pid
    Alone            \* whether at most one process at a time uses the lock file

ASSUME LockAssumption == None \notin Pids /\ Alone \in BOOLEAN

VARIABLES
    proc,            \* what each process is doing
    aim,             \* why it looks at the lock: "start", "drop" or "leave"
    stalepid,        \* the pid it has read from the file
    maker,           \* which process made the file at lockpath, None if there is none
    written          \* whether that file holds the pid of its maker

vars == <<proc, aim, stalepid, maker, written>>

Busy == {"check", "judge", "unlink", "create", "write", "remove"}

Init ==
    /\ proc = [p \in Pids |-> "off"]
    /\ aim = [p \in Pids |-> "start"]
    /\ stalepid = [p \in Pids |-> None]
    /\ maker = None /\ written = FALSE

Goes(p, where) == proc' = [proc EXCEPT ![p] = where]
KeepFile == UNCHANGED <<maker, written>>
NoFile   == maker' = None /\ written' = FALSE

\* Where a process goes once check_stale_lockfile() has given up or succeeded.
\* A start that fails ends in Error_abort(), which deletes the lock if it is ours.
AfterCheck(p) == CASE aim[p] = "drop"  -> "halting"
                   [] aim[p] = "leave" -> "off"
                   [] OTHER            -> "fail"

\* The lock is looked at to start, to give it up in do_shutdown(), to leave.
Begin(p, from, why) ==
    /\ proc[p] \in from
    /\ Alone => \A q \in Pids : proc[q] \notin Busy \cup {"fail"}
    /\ Goes(p, "check")
    /\ aim' = [aim EXCEPT ![p] = why]
    /\ UNCHANGED stalepid /\ KeepFile

Start(p)     == Begin(p, {"off"}, "start")
Shutdown(p)  == Begin(p, {"run"}, "drop")
Terminate(p) == Begin(p, {"run", "halting"}, "leave")

\* Error_abort() after a failed start.
Abort(p) ==
    /\ proc[p] = "fail"
    /\ Goes(p, "check")
    /\ aim' = [aim EXCEPT ![p] = "leave"]
    /\ UNCHANGED stalepid /\ KeepFile

\* open() and read(): no file, no data, our own pid, or the pid of another.
Check(p) ==
    /\ proc[p] = "check"
    /\ Goes(p, CASE maker = None -> IF aim[p] = "start" THEN "create" ELSE AfterCheck(p)
                 [] maker # None /\ ~written -> AfterCheck(p)
                 [] written /\ maker = p -> IF aim[p] = "start" THEN "run" ELSE "remove"
                 [] OTHER -> "judge")
    /\ stalepid' = [stalepid EXCEPT ![p] = IF written THEN maker ELSE None]
    /\ UNCHANGED aim /\ KeepFile

\* (fault) every lock of another process is taken for stale
FaultStale(q) == TRUE

\* kill(pid, 0) says ESRCH.
Stale(q) == proc[q] = "off"

Judge(p) ==
    /\ proc[p] = "judge"
    /\ Goes(p, IF Stale(stalepid[p]) THEN "unlink" ELSE AfterCheck(p))
    /\ UNCHANGED <<aim, stalepid>> /\ KeepFile

\* The stale lock is removed, whichever file is at lockpath by now.
Unlink(p) ==
    /\ proc[p] = "unlink"
    /\ Goes(p, IF aim[p] = "start" /\ maker # None THEN "create" ELSE AfterCheck(p))
    /\ NoFile
    /\ UNCHANGED <<aim, stalepid>>

\* open() with O_CREAT and O_EXCL.
Create(p) ==
    /\ proc[p] = "create"
    /\ IF maker = None THEN /\ Goes(p, "write")
                            /\ maker' = p /\ written' = FALSE
       ELSE Goes(p, "fail") /\ KeepFile
    /\ UNCHANGED <<aim, stalepid>>

\* The pid is written, to a file that may not be at lockpath any more; a full
\* disk leaves it empty.
Write(p) ==
    /\ proc[p] = "write"
    /\ \/ Goes(p, "run") /\ written' = (written \/ maker = p)
       \/ Goes(p, "fail") /\ UNCHANGED written
    /\ UNCHANGED <<aim, stalepid, maker>>

\* delete_lockfile(): the lock was ours.
Remove(p) ==
    /\ proc[p] = "remove"
    /\ Goes(p, AfterCheck(p))
    /\ NoFile
    /\ UNCHANGED <<aim, stalepid>>

\* The process is killed, or the machine crashes.
Die(p) ==
    /\ proc[p] # "off"
    /\ Goes(p, "off")
    /\ UNCHANGED <<aim, stalepid>> /\ KeepFile

\* Another program gets the pid.
Reuse(p) ==
    /\ proc[p] = "off"
    /\ Goes(p, "other")
    /\ UNCHANGED <<aim, stalepid>> /\ KeepFile

Next == \E p \in Pids :
    \/ Start(p) \/ Shutdown(p) \/ Terminate(p) \/ Abort(p)
    \/ Check(p) \/ Judge(p) \/ Unlink(p) \/ Create(p) \/ Write(p) \/ Remove(p)
    \/ Die(p) \/ Reuse(p)

Spec == Init /\ [][Next]_vars

-----------------------------------------------------------------------------
(* Properties *)

States == Busy \cup {"off", "other", "fail", "run", "halting"}

\* The values every variable may take.
TypeOK ==
    /\ proc \in [Pids -> States]
    /\ aim \in [Pids -> {"start", "drop", "leave"}]
    /\ stalepid \in [Pids -> Pids \cup {None}]
    /\ maker \in Pids \cup {None}
    /\ written \in BOOLEAN

\* "apcctrl _must_ have a lock file" (apcconfig.c): while it runs, the file holds
\* its pid, so that every other program that looks refuses the device.
LockHeld == \A p \in Pids : proc[p] = "run" => maker = p /\ written

\* "If apcctrl or apctest is already running, please stop it and run this program
\* again" (apcctrl.c): no two of them run on one device.
Exclusive == Cardinality({p \in Pids : proc[p] = "run"}) <= 1
=============================================================================
