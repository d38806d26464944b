---------------------------- MODULE LockFileProofs ----------------------------
(***************************************************************************)
(* While one process at a time uses the lock file, a daemon that runs has  *)
(* its pid in it, however daemons die, restart and have their pids reused. *)
(*                                                                         *)
(* LockHeld alone is not inductive: that the file removed as stale is not  *)
(* a running daemon's follows from what the remover has read and judged,   *)
(* which Progress records for each step of the way.                        *)
(***************************************************************************)
EXTENDS LockFile, TLAPS

Engaged == Busy \cup {"fail"}

\* What the process that is using the lock file may rely on, step by step.
Progress(p) ==
    /\ proc[p] \in {"judge", "unlink"} => maker = stalepid[p] /\ maker # p /\ maker # None
    /\ proc[p] = "unlink" => proc[maker] # "run"
    /\ proc[p] = "create" => maker = None
    /\ proc[p] \in {"write", "remove"} => maker = p

LockInv ==
    /\ TypeOK
    /\ LockHeld
    /\ \A p, q \in Pids : proc[p] \in Engaged /\ proc[q] \in Engaged => p = q
    /\ \A p \in Pids : Progress(p)

LEMMA LockInit == Init => LockInv
  BY LockAssumption DEF Init, LockInv, TypeOK, LockHeld, Engaged, Progress, Busy, States

\* A step of a process inside the lock file code, which goes to a place: nobody else is
\* inside, so that the invariant is about this process and the daemons that run.
LEMMA EngagedStep ==
    ASSUME LockInv, NEW p \in Pids, proc[p] \in Engaged, NEW w \in States, Goes(p, w),
           stalepid' \in [Pids -> Pids \cup {None}], aim' \in [Pids -> {"start", "drop", "leave"}],
           maker' \in Pids \cup {None}, written' \in BOOLEAN,
           Progress(p)',
           w = "run" => maker' = p /\ written',
           \A q \in Pids : q # p /\ proc[q] = "run" => maker' = maker /\ written' = written
    PROVE  LockInv'
<1>1. /\ proc' \in [Pids -> States] /\ proc'[p] = w
      /\ \A q \in Pids : q # p => proc'[q] = proc[q] /\ proc[q] \notin Engaged
  BY DEF LockInv, TypeOK, Goes
<1>2. TypeOK'
  BY <1>1 DEF TypeOK
<1>3. LockHeld'
  BY <1>1 DEF LockInv, LockHeld
<1>4. \A q, r \in Pids : proc'[q] \in Engaged /\ proc'[r] \in Engaged => q = r
  BY <1>1
<1>5. \A q \in Pids : Progress(q)'
  BY <1>1 DEF Progress, Engaged, Busy
<1>6. QED
  BY <1>2, <1>3, <1>4, <1>5 DEF LockInv

\* Where a process goes after its look at the lock, nothing of the file is needed.
LEMMA AfterCheckPlain ==
    ASSUME NEW p \in Pids
    PROVE  AfterCheck(p) \in {"halting", "off", "fail"} /\ AfterCheck(p) \in States
BY DEF AfterCheck, States

\* check_stale_lockfile() reads the pid: if it goes on to judge it, the file is that
\* process's, and another's.
LEMMA CheckStep ==
    ASSUME LockInv, NEW p \in Pids, Check(p)
    PROVE  LockInv'
<1>1. /\ TypeOK /\ proc[p] = "check" /\ UNCHANGED <<aim, maker, written>>
      /\ stalepid' = [stalepid EXCEPT ![p] = IF written THEN maker ELSE None]
      /\ AfterCheck(p) \in {"halting", "off", "fail"}
  BY AfterCheckPlain DEF Check, KeepFile, LockInv
<1>2. stalepid' \in [Pids -> Pids \cup {None}]
  BY <1>1 DEF TypeOK
<1>3. PICK w : /\ Goes(p, w)
               /\ w = CASE maker = None -> IF aim[p] = "start" THEN "create" ELSE AfterCheck(p)
                        [] maker # None /\ ~written -> AfterCheck(p)
                        [] written /\ maker = p -> IF aim[p] = "start" THEN "run" ELSE "remove"
                        [] OTHER -> "judge"
  BY DEF Check
<1>4. /\ w = "create" => maker = None
      /\ w \in {"run", "remove"} => maker = p /\ written
      /\ w = "judge" => written /\ maker # None /\ maker # p
      /\ w \in {"create", "run", "remove", "judge", "halting", "off", "fail"}
  <2>1. CASE maker = None
    BY <1>1, <1>3, <2>1, LockAssumption
  <2>2. CASE maker # None /\ ~written
    BY <1>1, <1>3, <2>2
  <2>3. CASE maker # None /\ written /\ maker = p
    BY <1>1, <1>3, <2>3
  <2>4. CASE maker # None /\ written /\ maker # p
    BY <1>1, <1>3, <2>4
  <2>5. QED
    BY <1>1, <2>1, <2>2, <2>3, <2>4 DEF TypeOK
<1>5. w \in States /\ proc'[p] = w
  BY <1>1, <1>3, <1>4 DEF States, Busy, Goes, TypeOK
<1>6. Progress(p)'
  BY <1>1, <1>4, <1>5 DEF Progress, TypeOK
<1>7. QED
  BY <1>1, <1>2, <1>3, <1>4, <1>5, <1>6, EngagedStep DEF TypeOK, Engaged, Busy

\* kill(pid, 0): a daemon that runs is found.
LEMMA JudgeStep ==
    ASSUME LockInv, NEW p \in Pids, Judge(p)
    PROVE  LockInv'
<1>1. /\ TypeOK /\ Progress(p) /\ proc[p] = "judge"
      /\ UNCHANGED <<aim, stalepid, maker, written>>
      /\ AfterCheck(p) \in {"halting", "off", "fail"}
  BY AfterCheckPlain DEF Judge, KeepFile, LockInv
<1>2. PICK w : Goes(p, w) /\ w = IF Stale(stalepid[p]) THEN "unlink" ELSE AfterCheck(p)
  BY DEF Judge
<1>3. /\ maker = stalepid[p] /\ maker # p /\ maker # None /\ maker \in Pids
      /\ proc'[p] = w /\ proc'[maker] = proc[maker]
  BY <1>1, <1>2 DEF Progress, Goes, TypeOK
<1>4. w \in {"unlink", "halting", "off", "fail"} /\ (w = "unlink" => proc[maker] = "off")
  BY <1>1, <1>2, <1>3 DEF Stale
<1>5. w \in States
  BY <1>4 DEF States, Busy
<1>6. Progress(p)'
  BY <1>1, <1>3, <1>4 DEF Progress
<1>7. QED
  BY <1>1, <1>2, <1>3, <1>4, <1>5, <1>6, EngagedStep DEF TypeOK, Engaged, Busy

\* The stale file is removed: nobody runs on it.
LEMMA UnlinkStep ==
    ASSUME LockInv, NEW p \in Pids, Unlink(p)
    PROVE  LockInv'
<1>1. /\ TypeOK /\ Progress(p) /\ proc[p] = "unlink" /\ UNCHANGED <<aim, stalepid>>
      /\ maker' = None /\ written' = FALSE
      /\ AfterCheck(p) \in {"halting", "off", "fail"}
  BY AfterCheckPlain DEF Unlink, NoFile, LockInv
<1>2. PICK w : Goes(p, w) /\ w = IF aim[p] = "start" /\ maker # None THEN "create" ELSE AfterCheck(p)
  BY DEF Unlink
<1>3. w \in {"create", "halting", "off", "fail"} /\ proc'[p] = w
  BY <1>1, <1>2 DEF Goes, TypeOK
<1>4. w \in States
  BY <1>3 DEF States, Busy
<1>5. Progress(p)'
  BY <1>1, <1>3 DEF Progress
<1>6. \A q \in Pids : q # p => proc[q] # "run"
  BY <1>1 DEF LockInv, LockHeld, Progress
<1>7. QED
  BY <1>1, <1>2, <1>3, <1>4, <1>5, <1>6, EngagedStep DEF TypeOK, Engaged, Busy

\* open() with O_EXCL finds no file: nobody has one, so that nobody runs.
LEMMA CreateStep ==
    ASSUME LockInv, NEW p \in Pids, Create(p)
    PROVE  LockInv'
<1>1. /\ TypeOK /\ Progress(p) /\ proc[p] = "create" /\ UNCHANGED <<aim, stalepid>>
      /\ maker = None /\ Goes(p, "write") /\ maker' = p /\ written' = FALSE
  BY DEF Create, LockInv, Progress
<1>2. proc'[p] = "write" /\ "write" \in States
  BY <1>1 DEF Goes, TypeOK, States, Busy
<1>3. Progress(p)'
  BY <1>1, <1>2 DEF Progress
<1>4. \A q \in Pids : proc[q] # "run"
  BY <1>1, LockAssumption DEF LockInv, LockHeld
<1>5. QED
  BY <1>1, <1>2, <1>3, <1>4, EngagedStep DEF TypeOK, Engaged, Busy

\* The pid goes into the file this process has just made, or the disk is full.
LEMMA WriteStep ==
    ASSUME LockInv, NEW p \in Pids, Write(p)
    PROVE  LockInv'
<1>1. /\ TypeOK /\ proc[p] = "write" /\ maker = p /\ UNCHANGED <<aim, stalepid, maker>>
      /\ written' \in BOOLEAN
  BY DEF Write, LockInv, Progress, TypeOK
<1>2. PICK w \in {"run", "fail"} : Goes(p, w) /\ (w = "run" => written')
  BY <1>1 DEF Write
<1>3. w \in States /\ proc'[p] = w
  BY <1>1, <1>2 DEF States, Busy, Goes, TypeOK
<1>4. Progress(p)'
  BY <1>2, <1>3 DEF Progress
<1>5. \A q \in Pids : q # p => proc[q] # "run"
  BY <1>1 DEF LockInv, LockHeld
<1>6. QED
  BY <1>1, <1>2, <1>3, <1>4, <1>5, EngagedStep DEF TypeOK, Engaged, Busy

\* delete_lockfile() removes a file that is this process's own.
LEMMA RemoveStep ==
    ASSUME LockInv, NEW p \in Pids, Remove(p)
    PROVE  LockInv'
<1>1. /\ TypeOK /\ proc[p] = "remove" /\ maker = p /\ UNCHANGED <<aim, stalepid>>
      /\ Goes(p, AfterCheck(p)) /\ maker' = None /\ written' = FALSE
      /\ AfterCheck(p) \in {"halting", "off", "fail"} /\ AfterCheck(p) \in States
  BY AfterCheckPlain DEF Remove, NoFile, LockInv, Progress
<1>2. proc'[p] = AfterCheck(p)
  BY <1>1 DEF Goes, TypeOK
<1>3. Progress(p)'
  BY <1>1, <1>2 DEF Progress
<1>4. \A q \in Pids : q # p => proc[q] # "run"
  BY <1>1 DEF LockInv, LockHeld
<1>5. QED
  BY <1>1, <1>2, <1>3, <1>4, EngagedStep DEF TypeOK, Engaged, Busy

\* A step by which a process goes in to look at the lock, or dies, or by which a pid
\* is used again: the file is let alone.
LEMMA OutsideStep ==
    ASSUME LockInv, NEW p \in Pids, NEW w \in {"check", "off", "other"}, Goes(p, w),
           aim' \in [Pids -> {"start", "drop", "leave"}],
           UNCHANGED <<stalepid, maker, written>>,
           proc[p] # "run" \/ w # "other",
           w = "check" => \A q \in Pids : q # p => proc[q] \notin Engaged
    PROVE  LockInv'
<1>1. /\ proc' \in [Pids -> States] /\ proc'[p] = w
      /\ \A q \in Pids : q # p => proc'[q] = proc[q]
  BY DEF LockInv, TypeOK, Goes, States, Busy
<1>2. TypeOK'
  BY <1>1 DEF LockInv, TypeOK
<1>3. LockHeld'
  BY <1>1 DEF LockInv, LockHeld
<1>4. \A q, r \in Pids : proc'[q] \in Engaged /\ proc'[r] \in Engaged => q = r
  <2>1. CASE w = "check"
    BY <1>1, <2>1
  <2>2. CASE w \in {"off", "other"}
    BY <1>1, <2>2 DEF LockInv, Engaged, Busy
  <2>3. QED
    BY <2>1, <2>2
<1>5. ASSUME NEW q \in Pids PROVE Progress(q)'
  <2>1. CASE q = p
    BY <1>1, <2>1 DEF Progress
  <2>2. CASE q # p
    <3>1. Progress(q) /\ proc'[q] = proc[q]
      BY <1>1, <2>2 DEF LockInv
    <3>2. proc[q] = "unlink" => w \in {"off", "other"}
      BY <2>2 DEF Engaged, Busy
    <3>3. proc[q] = "unlink" => maker \in Pids /\ proc'[maker] # "run"
      BY <1>1, <3>1, <3>2 DEF Progress, LockInv, TypeOK
    <3>4. QED
      BY <3>1, <3>3 DEF Progress
  <2>3. QED
    BY <2>1, <2>2
<1>6. QED
  BY <1>2, <1>3, <1>4, <1>5 DEF LockInv

\* Every step of every process keeps the invariant.
LEMMA LockStep == ASSUME Alone, LockInv, [Next]_vars PROVE LockInv'
<1>. TypeOK
  BY DEF LockInv
<1>1. ASSUME NEW p \in Pids, NEW from, NEW why \in {"start", "drop", "leave"}, Begin(p, from, why)
      PROVE  LockInv'
  <2>1. aim' \in [Pids -> {"start", "drop", "leave"}]
    BY <1>1 DEF Begin, TypeOK
  <2>2. QED
    BY <1>1, <2>1, OutsideStep DEF Begin, KeepFile, Engaged
<1>2. ASSUME NEW p \in Pids, Abort(p) PROVE LockInv'
  <2>1. aim' \in [Pids -> {"start", "drop", "leave"}]
    BY <1>2 DEF Abort, TypeOK
  <2>2. \A q \in Pids : q # p => proc[q] \notin Engaged
    BY <1>2 DEF LockInv, Abort, Engaged
  <2>3. QED
    BY <1>2, <2>1, <2>2, OutsideStep DEF Abort, KeepFile
<1>3. ASSUME NEW p \in Pids, Die(p) PROVE LockInv'
  BY <1>3, OutsideStep DEF Die, KeepFile, TypeOK
<1>4. ASSUME NEW p \in Pids, Reuse(p) PROVE LockInv'
  BY <1>4, OutsideStep DEF Reuse, KeepFile, TypeOK
<1>5. CASE UNCHANGED vars
  BY <1>5 DEF vars, LockInv, TypeOK, LockHeld, Progress
<1>. QED
  BY <1>1, <1>2, <1>3, <1>4, <1>5,
     CheckStep, JudgeStep, UnlinkStep, CreateStep, WriteStep, RemoveStep
  DEF Next, Start, Shutdown, Terminate

\* A daemon that runs has its pid in the lock file, so that every program that
\* follows create_lockfile() leaves the UPS to it: as long as no two of them
\* are inside create_lockfile() or delete_lockfile() at once.
THEOREM RunnerHoldsLock == ASSUME Alone PROVE Spec => []LockHeld
<1>1. LockInv /\ [Next]_vars => LockInv'
  BY LockStep
<1>2. LockInv => LockHeld
  BY DEF LockInv
<1>. QED
  BY LockInit, <1>1, <1>2, PTL DEF Spec
=============================================================================
