------------------------------ MODULE SmartDriver ------------------------------
(***************************************************************************)
(* The driver of smart UPSes (drivers/apcsmart): one character asks, one   *)
(* line answers, and nothing in the line says what it answers.  The device *)
(* thread opens the port, discovers the capabilities, reads the static     *)
(* values and then runs the loop of do_device(): do_action(), fillUPS(),   *)
(* do_action(), check_state().  When an answer is missing UPSlinkCheck()   *)
(* asks 'Y' until it is answered by "SM", with the lock of UPSINFO given   *)
(* up; after a while it declares COMMLOST and reopens the port each turn.  *)
(*                                                                         *)
(* Three commands stand for all: "Y", "Q" (the status byte, of which the   *)
(* battery bit is kept) and "W" (the reason of the last transfer, for every  *)
(* other value and for the list of commands).  The UPS knows them all and  *)
(* answers in the order it was asked, perhaps after the driver has stopped *)
(* waiting; it makes no self test.  '!' and '$' stand for the alert        *)
(* characters.  Lines arrive whole or not at all.                          *)
(*                                                                         *)
(* Other threads of the daemon (NIS server) only take the lock, read, and  *)
(* give it back.                                                           *)
(*                                                                         *)
(* Not modelled: lines broken off in the middle, the EEPROM, kill_power()  *)
(* and shutdown(), the ten-minute log message, slaves (fd = -1 for good).  *)
(***************************************************************************)
EXTENDS Integers, Sequences

CONSTANTS
    Behind,        \* commands the UPS may be behind with
    Tries,         \* 3: times a command is sent
    SetupTries,    \* 5: times setup() asks
    StatusTries,   \* 5: times "SM" is not taken for a status
    ReasonTries,   \* 5: times CHECK_SELFTEST asks for the reason
    Unread,        \* alert characters that may wait in the port
    LostAfter      \* COMMLOST_TIMEOUT_MS, and the grace period, in turns of the loop

Commands == {"Y", "Q", "W"}

ASSUME SmartAssumption ==
    /\ {Behind, Tries, SetupTries} \subseteq Nat \ {0}
    /\ {StatusTries, ReasonTries, Unread, LostAfter} \subseteq Nat

VARIABLES
    link,      \* "up", "slow" (also lossy), "cut", "gone" (the device node too)
    battery,   \* the UPS is on batteries
    asked,     \* commands that the UPS has not answered yet
    wire,      \* lines and alerts that wait in the port
    fd,        \* "none", "open", "stale" (its device is gone)
    job,       \* what the device thread is at
    todo,      \* commands it still has to send there
    pc,        \* where in smart_poll() and UPSlinkCheck() it stands
    tries,     \* times the command may still be sent
    sm,        \* retries left of the status byte
    turns,     \* turns of the waiting loop, up to LostAfter
    cap,       \* UPS_Cap
    onbatt,    \* UPS_onbatt in Status
    selftest,  \* lastxfer is XFER_SELFTEST
    commlost,  \* UPS_commlost
    announced, \* COMMFAILURE was given, COMMOK not yet
    mutex,     \* the lock of UPSINFO is taken
    reader,    \* another thread is inside the lock
    astray,    \* history: UPSlinkCheck() gave up a lock it did not have
    late       \* history: an answer was not waited for

line   == <<link, asked, wire, fd>>
info   == <<cap, onbatt, selftest>>
comm   == <<turns, commlost, announced>>
locks  == <<mutex, reader, astray>>
work   == <<job, todo, sm>>
vars   == <<battery, line, info, comm, locks, work, pc, tries, late>>

Lines  == [is : {"SM", "status", "reason"}, on : BOOLEAN]
Alerts == [is : {"alert"}, on : BOOLEAN]
None   == [is |-> "none", on |-> FALSE]

\* Jobs of the device thread in the order of do_device(), and those for which
\* it takes the lock.
After == [setup |-> "caps", caps |-> "static", static |-> "first", first |-> "act1",
          act1 |-> "fill", fill |-> "act2", act2 |-> "check", check |-> "act1"]
Filling == {"first", "fill"}
Acting  == {"act1", "act2"}
Locking == {"caps"} \cup Filling \cup Acting

Inside    == job \in Locking /\ pc \in {"ask", "answer", "try", "tried", "done"}
Listening == pc \in {"answer", "tried", "looped"}

\* write() of one character: the port may have lost its device, the UPS may not
\* get it.
Write(c) ==
    \E hears \in IF link = "slow" THEN BOOLEAN ELSE {link = "up"} :
        asked' = IF hears /\ fd = "open" THEN Append(asked, c) ELSE asked

\* select() runs out: nothing has come, and a UPS that is not slow has answered.
Overdue == /\ \/ asked = <<>>
              \/ link = "slow" /\ Len(asked) < Behind
           /\ late' = (late \/ asked # <<>>)

\* A line ends getline() with an answer, a timeout without one.
Gets(l) == wire # <<>> /\ l = Head(wire) /\ l \in Lines /\ UNCHANGED late
Misses  == wire = <<>> /\ Overdue

(***************************************************************************)
(* open_ups(): until the port opens the link is lost, which is announced   *)
(* only after a grace period.                                              *)
(***************************************************************************)
Open ==
    /\ job = "open"
    /\ IF link = "gone"
         THEN /\ turns' = IF turns < LostAfter THEN turns + 1 ELSE turns
              /\ commlost' = TRUE
              /\ announced' = (turns = LostAfter)
              /\ UNCHANGED <<line, work, pc>>
         ELSE /\ fd' = "open" /\ wire' = <<>> /\ UNCHANGED <<link, asked>>
              /\ turns' = 0 /\ commlost' = FALSE /\ announced' = FALSE
              /\ job' = "setup" /\ pc' = "start" /\ UNCHANGED <<todo, sm>>
    /\ UNCHANGED <<battery, info, locks, tries, late>>

(***************************************************************************)
(* A job begins: the lock, and the commands to send.  fillUPS() checks the *)
(* link first; setup() sends one 'Y' whose answer it throws away.          *)
(***************************************************************************)
TriesOf(c) == IF c = "Y" THEN 1 ELSE Tries

Polls(c) == IF c \in cap THEN <<c>> ELSE <<>>
Lists(j) ==
    CASE j = "setup"     -> {<<"Y">>}
      [] j = "caps"      -> {<<"Q", "W">>}
      [] j = "static"    -> {Polls("W")}
      [] j \in Filling   -> {Polls("Q") \o Polls("W") \o <<"Y", "Y">>}
      [] OTHER           -> {[i \in 1 .. n |-> "W"] : n \in IF "W" \in cap THEN 0 .. ReasonTries ELSE {0}}

Start ==
    /\ pc = "start" /\ job \in DOMAIN After \ {"check"}
    /\ job \in Locking => ~ mutex
    /\ mutex' = (mutex \/ job \in Locking)
    /\ todo' \in Lists(job)
    /\ sm' = IF job \in Filling /\ "Q" \in cap THEN StatusTries ELSE 0
    /\ tries' = IF job = "setup" THEN SetupTries ELSE IF todo' = <<>> THEN 0 ELSE TriesOf(Head(todo'))
    /\ pc' = CASE job = "setup" -> "flush"
               [] job \in Filling -> "try"
               [] OTHER -> IF todo' = <<>> THEN "done" ELSE "ask"
    /\ IF job = "setup" THEN Write("Y") ELSE UNCHANGED asked
    /\ UNCHANGED <<battery, link, wire, fd, info, comm, reader, astray, job, late>>

\* (fault) The port is not flushed.
FaultFlush ==
    /\ pc = "flush"
    /\ Overdue
    /\ pc' = "ask"
    /\ UNCHANGED <<battery, line, info, comm, locks, work, tries>>

\* The answer to the first 'Y' of setup(), if it has come within the second.
Flush ==
    /\ pc = "flush"
    /\ Overdue
    /\ wire' = <<>>
    /\ pc' = "ask"
    /\ UNCHANGED <<battery, link, asked, fd, info, comm, locks, work, tries>>

Finish ==
    /\ pc = "done"
    /\ mutex' = (mutex /\ job \notin Locking)
    /\ job' = After[job] /\ pc' = "start" /\ todo' = <<>>
    /\ UNCHANGED <<battery, line, info, comm, reader, astray, sm, tries, late>>

(***************************************************************************)
(* smart_poll(): the command is sent up to Tries times, 'Y' once, with a   *)
(* check of the link after each missing answer.                            *)
(***************************************************************************)
Ask ==
    /\ pc = "ask"
    /\ Write(Head(todo))
    /\ tries' = tries - 1
    /\ pc' = "answer"
    /\ UNCHANGED <<battery, link, wire, fd, info, comm, locks, work, late>>

Then(rest) ==
    /\ todo' = rest
    /\ pc' = IF rest = <<>> THEN "done" ELSE "ask"
    /\ tries' = IF rest = <<>> THEN 0 ELSE TriesOf(Head(rest))

\* get_capabilities(): a command is supported when it is answered at all.
Discover(c, l) ==
    /\ cap' = IF l.is # "none" THEN cap \cup {c} ELSE cap
    /\ Then(Tail(todo))
    /\ UNCHANGED <<onbatt, selftest, sm>>

\* (fault) "SM" is never taken for a status, however often it comes.
FaultStatus(l) ==
    IF l.is = "SM"
      THEN /\ sm' = sm - 1 /\ tries' = Tries /\ pc' = "ask"
           /\ UNCHANGED <<info, todo>>
      ELSE /\ onbatt' = (l.is = "status" /\ l.on)
           /\ sm' = 0
           /\ Then(Tail(todo))
           /\ UNCHANGED <<cap, selftest>>

\* read_volatile_data(): "SM" instead of the status byte is not believed at first;
\* an answer that is no number counts as zero, which is not on batteries.
Status(l) ==
    IF l.is = "SM" /\ sm > 0
      THEN /\ sm' = sm - 1 /\ tries' = Tries /\ pc' = "ask"
           /\ UNCHANGED <<info, todo>>
      ELSE /\ onbatt' = (l.is = "status" /\ l.on)
           /\ sm' = 0
           /\ Then(Tail(todo))
           /\ UNCHANGED <<cap, selftest>>

\* The reason of the last transfer; decode_lastxfer() takes the S of "SM" for a
\* self test.  CHECK_SELFTEST asks again until the UPS gives one.
Reason(l) ==
    /\ selftest' = (l.is = "SM")
    /\ Then(Tail(todo))
    /\ UNCHANGED <<cap, onbatt, sm>>

Value(l) == Then(Tail(todo)) /\ UNCHANGED <<info, sm>>

Use(c, l) ==
    CASE job = "caps"                            -> Discover(c, l)
      [] c = "Q" /\ job \in Filling              -> Status(l)
      [] c = "W" /\ job \in Filling \cup Acting  -> Reason(l)
      [] OTHER                                   -> Value(l)

Answered ==
    /\ pc = "answer" /\ job # "setup"
    /\ \E l \in Lines : Gets(l) /\ Use(Head(todo), l)
    /\ wire' = Tail(wire)
    /\ UNCHANGED <<battery, link, asked, fd, comm, locks, job>>

NoAnswer ==
    /\ pc = "answer" /\ job # "setup"
    /\ Misses
    /\ pc' = "try"
    /\ UNCHANGED <<battery, line, info, comm, locks, work, tries>>

\* setup() wants "SM" and ends the daemon without it.
SetupAnswer ==
    /\ pc = "answer" /\ job = "setup"
    /\ \/ \E l \in Lines : /\ Gets(l) /\ wire' = Tail(wire)
                           /\ pc' = IF l.is = "SM" THEN "done" ELSE IF tries > 0 THEN "ask" ELSE "dead"
       \/ Misses /\ UNCHANGED wire /\ pc' = IF tries > 0 THEN "ask" ELSE "dead"
    /\ UNCHANGED <<battery, link, asked, fd, info, comm, locks, work, tries>>

(***************************************************************************)
(* UPSlinkCheck(): one 'Y' under the lock; then 'Y' after 'Y' without it,  *)
(* each time with an empty port, until "SM" comes.                         *)
(***************************************************************************)
Try ==
    /\ pc = "try"
    /\ wire' = <<>>
    /\ Write("Y")
    /\ pc' = "tried"
    /\ UNCHANGED <<battery, link, fd, info, comm, locks, work, tries, late>>

\* The link is there: smart_poll() sends its command again, or has no answer.
Checked ==
    IF tries > 0 THEN pc' = "ask" /\ UNCHANGED <<info, todo, sm, tries>>
                 ELSE Use(Head(todo), None)

LinkThere ==
    /\ pc = "tried"
    /\ \E l \in Lines : Gets(l) /\ l.is = "SM"
    /\ wire' = Tail(wire)
    /\ commlost' = FALSE
    /\ Checked
    /\ UNCHANGED <<battery, link, asked, fd, turns, announced, locks, job>>

\* (fault) The lock is kept while the UPS is away.
FaultLinkMissing ==
    /\ pc = "tried"
    /\ (\E l \in Lines : Gets(l) /\ l.is # "SM") \/ Misses
    /\ wire' = <<>>
    /\ turns' = 0
    /\ pc' = "loop"
    /\ UNCHANGED <<battery, link, asked, fd, info, commlost, announced, locks, work, tries>>

LinkMissing ==
    /\ pc = "tried"
    /\ (\E l \in Lines : Gets(l) /\ l.is # "SM") \/ Misses
    /\ wire' = <<>>
    /\ mutex' = FALSE
    /\ astray' = (astray \/ job \notin Locking)
    /\ turns' = 0
    /\ pc' = "loop"
    /\ UNCHANGED <<battery, link, asked, fd, info, commlost, announced, reader, work, tries>>

LoopAsk ==
    /\ pc = "loop"
    /\ IF fd = "none" THEN pc' = "turn" /\ UNCHANGED asked
                      ELSE pc' = "looped" /\ Write("Y")
    /\ UNCHANGED <<battery, link, wire, fd, info, comm, locks, work, tries, late>>

LoopAnswer ==
    /\ pc = "looped"
    /\ \/ \E l \in Lines : /\ Gets(l) /\ wire' = Tail(wire)
                           /\ pc' = IF l.is = "SM" THEN "relock" ELSE "turn"
       \/ Misses /\ UNCHANGED wire /\ pc' = "turn"
    /\ UNCHANGED <<battery, link, asked, fd, info, comm, locks, work, tries>>

\* (fault) The port is not opened again.
FaultTurn ==
    /\ pc = "turn"
    /\ turns' = IF turns < LostAfter THEN turns + 1 ELSE turns
    /\ commlost' = (commlost \/ turns = LostAfter)
    /\ announced' = commlost'
    /\ wire' = <<>>
    /\ pc' = "loop"
    /\ UNCHANGED <<battery, link, asked, fd, info, locks, work, tries, late>>

\* No answer for COMMLOST_TIMEOUT_MS: COMMLOST, and from then on the port is
\* closed and opened in every turn.
Turn ==
    /\ pc = "turn"
    /\ turns' = IF turns < LostAfter THEN turns + 1 ELSE turns
    /\ commlost' = (commlost \/ turns = LostAfter)
    /\ announced' = commlost'
    /\ fd' = IF ~ commlost' THEN fd ELSE IF link = "gone" THEN "none" ELSE "open"
    /\ wire' = <<>>
    /\ pc' = "loop"
    /\ UNCHANGED <<battery, link, asked, info, locks, work, tries, late>>

Relock ==
    /\ pc = "relock" /\ ~ mutex
    /\ mutex' = TRUE
    /\ turns' = 0 /\ commlost' = FALSE /\ announced' = FALSE
    /\ Checked
    /\ UNCHANGED <<battery, line, reader, astray, job, late>>

(***************************************************************************)
(* Alert characters are obeyed wherever getline() meets them, inside an    *)
(* answer without taking the lock; check_state() waits for one.            *)
(***************************************************************************)
Obey(l) == wire # <<>> /\ l = Head(wire) /\ l \in Alerts
           /\ onbatt' = l.on /\ wire' = Tail(wire)
           /\ UNCHANGED <<cap, selftest>>

Alert ==
    /\ Listening
    /\ \E l \in Alerts : Obey(l)
    /\ UNCHANGED <<battery, link, asked, fd, comm, locks, work, pc, tries, late>>

CheckState ==
    /\ job = "check"
    /\ \/ /\ \E l \in Lines : Gets(l) /\ wire' = Tail(wire)
          /\ UNCHANGED <<info, job>>
       \/ /\ ~ mutex
          /\ \E l \in Alerts : Obey(l)
          /\ job' = After[job] /\ UNCHANGED late
       \/ /\ Misses
          /\ job' = After[job] /\ UNCHANGED <<wire, info>>
    /\ UNCHANGED <<battery, link, asked, fd, comm, locks, todo, sm, pc, tries>>

(***************************************************************************)
(* The UPS, the link and the other threads.                                *)
(***************************************************************************)
Reply(c) ==
    CASE c = "Y" -> [is |-> "SM", on |-> FALSE]
      [] c = "Q" -> [is |-> "status", on |-> battery]
      [] c = "W" -> [is |-> "reason", on |-> FALSE]

Answer ==
    /\ asked # <<>>
    /\ wire' = Append(wire, Reply(Head(asked)))
    /\ asked' = Tail(asked)
    /\ UNCHANGED <<battery, link, fd, info, comm, locks, work, pc, tries, late>>

Mains ==
    /\ Len(SelectSeq(wire, LAMBDA l : l \in Alerts)) < Unread
    /\ battery' = ~ battery
    /\ \/ /\ link \in {"up", "slow"} /\ fd = "open"
          /\ wire' = Append(wire, [is |-> "alert", on |-> battery'])
       \/ /\ link # "up" \/ fd # "open"
          /\ UNCHANGED wire
    /\ UNCHANGED <<link, asked, fd, info, comm, locks, work, pc, tries, late>>

Link ==
    /\ link' \in {"up", "slow", "cut", "gone"} \ {link}
    /\ asked' = IF link' \in {"cut", "gone"} THEN <<>> ELSE asked
    /\ wire' = IF link' = "gone" THEN <<>> ELSE wire
    /\ fd' = IF link' = "gone" /\ fd = "open" THEN "stale" ELSE fd
    /\ UNCHANGED <<battery, info, comm, locks, work, pc, tries, late>>

Enter == /\ ~ reader /\ ~ mutex /\ pc # "dead"
         /\ mutex' = TRUE /\ reader' = TRUE
         /\ UNCHANGED <<battery, line, info, comm, astray, work, pc, tries, late>>
Leave == /\ reader /\ pc # "dead"
         /\ mutex' = FALSE /\ reader' = FALSE
         /\ UNCHANGED <<battery, line, info, comm, astray, work, pc, tries, late>>

(***************************************************************************)
(* Specification.                                                          *)
(***************************************************************************)
Init ==
    /\ link \in {"up", "gone"} /\ battery = FALSE
    /\ asked = <<>> /\ wire = <<>> /\ fd = "none"
    /\ job = "open" /\ todo = <<>> /\ pc = "start" /\ tries = 0 /\ sm = 0
    /\ cap = {} /\ onbatt = FALSE /\ selftest = FALSE
    /\ turns = 0 /\ commlost = FALSE /\ announced = FALSE
    /\ mutex = FALSE /\ reader = FALSE /\ astray = FALSE /\ late = FALSE

Device == \/ Open \/ Start \/ Flush \/ Finish \/ Ask \/ Answered \/ NoAnswer
          \/ SetupAnswer \/ Try \/ LinkThere \/ LinkMissing \/ LoopAsk
          \/ LoopAnswer \/ Turn \/ Relock \/ CheckState
Others == Answer \/ Mains \/ Link \/ Enter \/ Leave
Next   == Device \/ Alert \/ Others

\* The device thread and a thread that waits for the lock get on in the end (alert
\* characters do not keep getline() from its second of silence for ever), a thread
\* that has the lock gives it back, and a UPS that hears answers.
Fairness == /\ SF_vars(Device) /\ WF_vars(Alert) /\ SF_vars(Enter)
            /\ WF_vars(Leave) /\ WF_vars(Answer)
Spec == Init /\ [][Next]_vars /\ Fairness

TypeOK ==
    /\ link \in {"up", "slow", "cut", "gone"}
    /\ asked \in Seq(Commands) /\ wire \in Seq(Lines \cup Alerts)
    /\ fd \in {"none", "open", "stale"}
    /\ job \in DOMAIN After \cup {"open"} /\ todo \in Seq(Commands)
    /\ pc \in {"start", "flush", "done", "ask", "answer", "try", "tried",
               "loop", "looped", "turn", "relock", "dead"}
    /\ tries \in 0 .. (Tries + SetupTries) /\ sm \in 0 .. StatusTries
    /\ cap \subseteq Commands
    /\ turns \in 0 .. LostAfter
    /\ {battery, onbatt, selftest, commlost, announced, mutex, reader, astray, late} \subseteq BOOLEAN

\* Nothing says what a line answers: a late "SM" is taken for a self test
\* (smart.c:116, 835) and a late anything for the status byte.  That takes an answer
\* that was not waited for; without one every line is read as the answer it is.
AnswersMatch ==
    /\ ~ late /\ pc = "answer" /\ wire # <<>> /\ Head(wire) \in Lines
         => Head(wire).is = Reply(Head(todo)).is
    /\ selftest => late

\* UPSlinkCheck() says "Note this routine MUST be called with the UPS write lock held!"
\* (smart.c:338): however often the link is lost and found, the lock is taken exactly
\* while the device thread or another thread is inside.  read_static_data() calls it
\* without the lock: refuted by the run SmartStray.
LockSound ==
    /\ ~ (Inside /\ reader)
    /\ mutex <=> Inside \/ reader

\* What that call leads to: the device thread waits for the lock that it has
\* itself.  Or setup() has ended the daemon.
Waits == \/ pc = "start" /\ job \in Locking \cup {"check"}
         \/ pc = "relock"
Stuck == \/ pc = "dead"
         \/ astray /\ mutex /\ ~ reader /\ Waits

\* However long the UPS is away, other threads get at UPSINFO: the lock is given up
\* while the link is looked for, and by every job that takes it.  Only the call
\* without the lock keeps them out for good, or the end of the daemon.
Served == []<>reader \/ <>[]Stuck

\* A link that stays lost is announced.  A link that is back, whatever happened to
\* the port meanwhile, is announced too, and the driver knows whether it is on mains;
\* except when the answers that show that the UPS has a status byte were lost at
\* the start (smartsetup2.c:133).
Deaf == \/ Stuck
        \/ job \notin {"open", "setup", "caps"} /\ "Q" \notin cap
LineFollowed ==
    /\ <>[](link \in {"cut", "gone"}) => <>[]announced \/ <>[]Stuck
    /\ <>[](link = "up") /\ <>[][UNCHANGED battery]_vars
         => <>[](onbatt = battery /\ ~ announced) \/ <>[]Deaf
=============================================================================
