----------------------------- MODULE BrazilDriver -----------------------------
(***************************************************************************)
(* The driver for Brazilian UPSes (drivers/brazil): ReadData(), which      *)
(* looks for messages in the bytes the UPS sends and reopens a port that   *)
(* died, and the commands that are sent and read back until the UPS        *)
(* reports their effect.  The caller is the device thread: open_ups(),     *)
(* then reads, kill_power() or shutdown(), and check_state() for ever.     *)
(*                                                                         *)
(* A message is four bytes long: its number of the UPS model, its report,  *)
(* a byte that may look like a model number, and the end byte.  The        *)
(* checksum is taken to catch every message that was not sent as it is.    *)
(* The model object is the last report it was given, Null if there is no   *)
(* object.  The receive ring is the sequence of the bytes it holds.        *)
(*                                                                         *)
(* Operators named Fault... are wrong on purpose: each replaces the        *)
(* definition it precedes when a property is checked for noticing it.      *)
(*                                                                         *)
(* Not modelled: event logs of the UPS (getEventsStr(), used by apctest    *)
(* only), the one-shot modes, ports without select().                      *)
(***************************************************************************)
EXTENDS Integers, Sequences

CONSTANTS
    Numbers,              \* the model numbers that are known
    Pad, End, Garbage,    \* other bytes; Pad may be one of Numbers
    Null,                 \* no model object
    CommTimeout,          \* 5 s: without a message for longer, the line is lost
    SetupTries,           \* 60: reads setup() tries before it gives up
    CmdTries,             \* 10: times a command is sent
    NoiseMax, UnplugMax,  \* bounds: bytes lost or garbled, times the port dies
    MayFallSilent,        \* whether the UPS may stop sending, the port staying up
    OpenMayFail           \* whether open() may fail though the device is there

Report == [number : Numbers, line : BOOLEAN, sched : BOOLEAN, output : BOOLEAN]
Byte   == Numbers \cup {Pad, End, Garbage} \cup Report
MSGLEN == 4
Retried == {"program", "clear", "line", "output"}
Todo    == Retried \cup {"static", "kill", "auto", "continue"}

ASSUME BrazilAssumption ==
    /\ {CommTimeout, NoiseMax, UnplugMax} \subseteq Nat
    /\ {SetupTries, CmdTries} \subseteq Nat \ {0}
    /\ {MayFallSilent, OpenMayFail} \subseteq BOOLEAN
    /\ Null \notin Report
    /\ (Numbers \cup {Pad, End, Garbage}) \cap Report = {}

VARIABLES
    pc,           \* where the device thread stands
    op,           \* on whose behalf it reads, or what it sends
    tries,        \* attempts of op so far
    todo,         \* commands still to be given
    model,        \* the model object
    buffer,       \* bytes in the receive ring
    age,          \* seconds since _received, up to CommTimeout + 1
    late,         \* what ReadData() computed from it when it was entered
    autosetup,    \* _autosetup
    commlost, online,     \* UPSINFO: is_commlost(), is_online()
    claim,        \* programmation() last answered that the schedule is set
    fd,           \* "ok", "dead" once unplugged, "closed" when it is -1
    device,       \* the device node is there
    ups,          \* the UPS: number, line, output, and which schedule it keeps
    wire,         \* what is left of the message it is sending
    silent,       \* it sends nothing
    noise, unplugs        \* bytes still to be garbled, unpluggings still to come

thread  == <<pc, op, tries, todo, claim, autosetup>>
port    == <<fd, device, unplugs>>
outside == <<ups, silent>>
vars == <<thread, model, buffer, age, late, commlost, online, port, outside, wire, noise>>

Aged(n) == IF age + n > CommTimeout THEN CommTimeout + 1 ELSE age + n
Older   == Aged(1)

\* What the UPS says of itself, and the message it says it with.
Says    == [number |-> ups.number, line |-> ups.line,
            sched |-> ups.sched # "none", output |-> ups.output]
Message(r) == <<r.number, r, Pad, End>>

FaultTest(b) ==
    IF b[1] \notin Numbers THEN -1
    ELSE IF \E r \in Report : b = Message(r) THEN 1 ELSE 0

\* testBuffer(): 1 for a message, -1 for what cannot become one, else 0.
testBuffer(b) ==
    IF b[1] \notin Numbers THEN -1
    ELSE IF Len(b) # MSGLEN THEN 0
    ELSE IF \E r \in Report : b = Message(r) THEN 1 ELSE -1

\* tcflush() loses what has arrived: bytes of this message, maybe of the next.
Flush ==
    \/ \E n \in 0 .. Len(wire) : wire' = SubSeq(wire, n + 1, Len(wire))
    \/ \E n \in 2 .. MSGLEN : wire' = SubSeq(Message(Says), n, MSGLEN)

Init ==
    /\ pc = "open" /\ op = "check" /\ tries = 0 /\ todo = <<>>
    /\ claim = FALSE /\ autosetup = TRUE
    /\ model = Null /\ buffer = <<>> /\ age = 0 /\ late = FALSE
    /\ commlost = FALSE /\ online = FALSE
    /\ fd = "closed" /\ device \in BOOLEAN
    /\ ups \in [number : Numbers, line : BOOLEAN, sched : {"none", "old"}, output : BOOLEAN]
    /\ wire = <<>> /\ silent = FALSE
    /\ noise = NoiseMax /\ unplugs = UnplugMax

-----------------------------------------------------------------------------
(* Opening, and the loop of the device thread *)

OpenUps ==
    /\ pc = "open"
    /\ \/ /\ device /\ age' = Aged(3)
          /\ fd' = "ok" /\ commlost' = FALSE /\ model' = Null
          /\ pc' = "setup" /\ op' = "setup" /\ tries' = 0 /\ todo' = <<"static">>
       \/ /\ ~ device \/ OpenMayFail
          /\ commlost' = TRUE /\ age' = Aged(5)
          /\ UNCHANGED <<fd, model, pc, op, tries, todo>>
    /\ Flush
    /\ UNCHANGED <<claim, autosetup, buffer, late, online, device, unplugs, outside, noise>>

\* ReadData() is entered: now - _received is judged once.
Enter(o, secs) ==
    /\ pc' = "read" /\ op' = o
    /\ age' = secs
    /\ late' = (secs > CommTimeout)

\* fillUPS(): with no model read_volatile_data() leaves the status alone.
Fill ==
    /\ pc = "fill"
    /\ online' = IF model = Null THEN online ELSE model.line
    /\ pc' = "act"
    /\ UNCHANGED <<op, tries, todo, claim, autosetup, model, buffer, age, late, commlost,
                   port, outside, wire, noise>>

FaultAct ==
    /\ pc = "act"
    /\ age' \in {age, Older}
    /\ \/ pc' = "check" /\ UNCHANGED <<op, tries, todo>>
       \/ pc' = "next" /\ op' = "setup" /\ tries' = 0 /\ todo' = <<"kill">>
    /\ UNCHANGED <<claim, autosetup, model, buffer, late, commlost, online,
                   port, outside, wire, noise>>

\* do_action() may take its time, and may kill the power: kill_power() sets the
\* UPS up unless it has a model.
Act ==
    /\ pc = "act"
    /\ age' \in {age, Older}
    /\ \/ /\ pc' = "check"
          /\ UNCHANGED <<op, tries, todo>>
       \/ /\ pc' = IF model = Null THEN "setup" ELSE "next"
          /\ op' = "setup" /\ tries' = 0 /\ todo' = <<"kill">>
    /\ UNCHANGED <<claim, autosetup, model, buffer, late, commlost, online,
                   port, outside, wire, noise>>

CheckState ==
    /\ pc = "check"
    /\ Enter("check", age)
    /\ UNCHANGED <<tries, todo, claim, autosetup, model, buffer, commlost, online,
                   port, outside, wire, noise>>

SetupTry ==
    /\ pc = "setup"
    /\ Enter("setup", Older)
    /\ tries' = tries + 1
    /\ UNCHANGED <<todo, claim, autosetup, model, buffer, commlost, online,
                   port, outside, wire, noise>>

-----------------------------------------------------------------------------
(* ReadData() *)

\* (fault) a schedule is taken to be set once it is sent
FaultConfirms(o, m) == CASE o = "program" -> TRUE
                    [] o = "clear"   -> ~ m.sched
                    [] o = "line"    -> m.line
                    [] o = "output"  -> m.output

\* programmation(), turnLineOn() and turnOutputOn() look at the model after each
\* read, whatever the read returned.
Confirms(o, m) == CASE o = "program" -> m.sched
                    [] o = "clear"   -> ~ m.sched
                    [] o = "line"    -> m.line
                    [] o = "output"  -> m.output

Autosetup == <<"clear", "line", "output", "continue">>

\* ReadData() returns ok to its caller, leaving model m.
Return(ok, m) ==
    /\ late' = FALSE
    /\ \/ /\ op = "check"
          /\ pc' = "fill"
          /\ UNCHANGED <<op, tries, todo, claim, autosetup>>
       \/ /\ op = "setup"
          /\ IF ~ ok /\ tries < SetupTries
             THEN pc' = "setup" /\ UNCHANGED <<tries, todo, autosetup>>
             ELSE /\ pc' = "next" /\ tries' = 0
                  /\ autosetup' = (autosetup /\ m = Null)
                  /\ todo' = IF m # Null
                             THEN (IF autosetup THEN Autosetup ELSE <<>>) \o todo
                             ELSE IF todo = <<"static">> THEN todo ELSE <<>>
          /\ UNCHANGED <<op, claim>>
       \/ /\ op \in Retried
          /\ IF m = Null
             THEN pc' = "crashed" /\ UNCHANGED <<tries, claim>>
             ELSE IF Confirms(op, m) \/ tries = CmdTries
             THEN /\ pc' = "next" /\ tries' = 0
                  /\ claim' = (op = "program" /\ Confirms(op, m))
             ELSE pc' = "send" /\ tries' = tries + 1 /\ UNCHANGED claim
          /\ UNCHANGED <<op, todo, autosetup>>

\* The bytes that may come next; the UPS begins a message when it has sent the last.
Sending == IF wire = <<>> THEN Message(Says) ELSE wire

\* setBuffer() on the model object, made for the first number that comes.
SetBuffer(r) == IF model = Null THEN r ELSE [r EXCEPT !.number = model.number]

\* (fault) what cannot become a message is dropped as a whole
FaultTake(c) ==
    LET b == Append(buffer, c)
    IN  CASE testBuffer(b) = 0  -> /\ buffer' = b /\ wire' = Tail(Sending)
                                   /\ UNCHANGED <<thread, model, age, late, commlost>>
          [] testBuffer(b) = -1 -> /\ buffer' = <<>> /\ wire' = Tail(Sending)
                                   /\ UNCHANGED <<thread, model, age, late, commlost>>
          [] OTHER -> /\ model' = SetBuffer(b[2]) /\ buffer' = <<>>
                      /\ age' = 0 /\ commlost' = FALSE
                      /\ Flush
                      /\ Return(TRUE, SetBuffer(b[2]))

Take(c) ==
    LET b == Append(buffer, c)
    IN  CASE testBuffer(b) = 0  -> /\ buffer' = b /\ wire' = Tail(Sending)
                                   /\ UNCHANGED <<thread, model, age, late, commlost>>
          [] testBuffer(b) = -1 -> /\ buffer' = Tail(b) /\ wire' = Tail(Sending)
                                   /\ UNCHANGED <<thread, model, age, late, commlost>>
          [] OTHER -> /\ model' = SetBuffer(b[2]) /\ buffer' = <<>>
                      /\ age' = 0 /\ commlost' = FALSE
                      /\ Flush
                      /\ Return(TRUE, SetBuffer(b[2]))

ReadByte ==
    /\ pc = "read" /\ fd = "ok" /\ ~ silent
    /\ \/ Take(Head(Sending)) /\ UNCHANGED noise
       \/ noise > 0 /\ noise' = noise - 1 /\ Take(Garbage)
    /\ UNCHANGED <<online, port, outside>>

\* IGNPAR: a byte with a parity error is dropped.
DropByte ==
    /\ pc = "read" /\ fd = "ok" /\ ~ silent
    /\ noise > 0 /\ noise' = noise - 1
    /\ wire' = Tail(Sending)
    /\ UNCHANGED <<thread, model, buffer, age, late, commlost, online, port, outside>>

\* select() runs out of time, or has no descriptor to look at: the loop goes on.
\* FD_SET() of -1 is undefined: it sets a bit nobody looks at, or aborts.
Wait ==
    /\ pc = "read"
    /\ \/ fd = "ok" /\ silent /\ UNCHANGED pc
       \/ fd = "closed" /\ pc' \in {"read", "aborted"}
    /\ age' = Older
    /\ UNCHANGED <<op, tries, todo, claim, autosetup, model, buffer, late, commlost, online,
                   port, outside, wire, noise>>

\* ReadData() on a dead port: it announces the loss and opens the port again, on
\* conditions that are its parameters, and returns to its caller.
DeadPort(announces, reopens) ==
    /\ pc = "read" /\ fd = "dead"
    /\ commlost' = (commlost \/ announces)
    /\ IF reopens
       THEN /\ model' = Null
            /\ \/ fd' = "ok" /\ age' = Aged(3)
               \/ OpenMayFail /\ fd' = "closed" /\ age' = Older
       ELSE age' = Older /\ UNCHANGED <<model, fd>>
    /\ Return(FALSE, model')
    /\ UNCHANGED <<buffer, online, device, unplugs, outside, wire, noise>>

FaultReopens   == DeadPort(late, late /\ device /\ ~ commlost)

\* A dead port: read() fails at once.  One step stands for the calls of a second.
\* A line lost for too long is announced, and closed and opened again if the
\* device is there.
ReadFails == DeadPort(late, late /\ device)

-----------------------------------------------------------------------------
(* Commands *)

NoCommand ==
    /\ pc = "next" /\ todo = <<>>
    /\ pc' = "check" /\ op' = "check"
    /\ UNCHANGED <<tries, todo, claim, autosetup, model, buffer, age, late, commlost,
                   online, port, outside, wire, noise>>

\* read_static_data() at the start clears the status, if there is a model.
ReadStatic ==
    /\ pc = "next" /\ todo = <<"static">>
    /\ online' = (model = Null /\ online)
    /\ pc' = "fill" /\ op' = "check" /\ todo' = <<>>
    /\ UNCHANGED <<tries, claim, autosetup, model, buffer, age, late, commlost,
                   port, outside, wire, noise>>

\* Autosetup clears the schedule if none is set, and switches on what is off.
Needed(c) == CASE c = "clear"  -> ~ model.sched
               [] c = "line"   -> ~ model.line
               [] c = "output" -> ~ model.output
               [] OTHER        -> TRUE

\* A schedule the UPS keeps from before is an old one once a new one is wanted.
Outdated(c) == IF c = "program" /\ ups.sched # "none" THEN "old" ELSE ups.sched

\* Where the model is missing the code follows a null pointer.
Command ==
    /\ pc = "next" /\ todo \notin {<<>>, <<"static">>}
    /\ LET c == Head(todo)
       IN  IF model = Null
           THEN pc' = "crashed" /\ UNCHANGED <<op, tries, todo, ups>>
           ELSE \/ /\ c \in Retried /\ Needed(c)
                   /\ pc' = "send" /\ op' = c /\ tries' = 1 /\ todo' = Tail(todo)
                   /\ ups' = [ups EXCEPT !.sched = Outdated(c)]
                \/ /\ c \in Retried /\ ~ Needed(c)
                   /\ todo' = Tail(todo)
                   /\ UNCHANGED <<pc, op, tries, ups>>
                \/ /\ c = "kill"
                   /\ todo' = IF model.line THEN <<"program">> ELSE <<"auto">>
                   /\ UNCHANGED <<pc, op, tries, ups>>
    /\ UNCHANGED <<claim, autosetup, model, buffer, age, late, commlost, online,
                   port, silent, wire, noise>>

\* What the UPS does if the command reaches it.
Obey(c) ==
    \/ UNCHANGED ups
    \/ /\ fd = "ok" /\ ~ silent
       /\ ups' = CASE c = "program" -> [ups EXCEPT !.sched = "new"]
                   [] c = "clear"   -> [ups EXCEPT !.sched = "none"]
                   [] c = "line"    -> [ups EXCEPT !.line = TRUE]
                   [] c = "output"  -> [ups EXCEPT !.output = TRUE]

\* send(), then ReadData(), or refresh() which flushes and sleeps first;
\* programmation() has slept before it sends again.
Send ==
    /\ pc = "send"
    /\ Flush /\ Obey(op)
    /\ claim' = FALSE
    /\ Enter(op, IF tries > 1 \/ op \in {"line", "output"} THEN Older ELSE age)
    /\ UNCHANGED <<tries, todo, autosetup, model, buffer, commlost, online, port, silent, noise>>

\* shutdownAuto() and turnContinueMode() send without reading back.  What a Solis
\* does then is up to it; a BackUPS is only sent the schedule, and no mode.
SendOnce ==
    /\ pc = "next" /\ todo # <<>> /\ model # Null
    /\ Flush
    /\ \/ /\ Head(todo) = "auto"
          /\ Obey("clear") /\ age' = Older /\ claim' = FALSE
       \/ /\ Head(todo) = "continue"
          /\ UNCHANGED <<ups, age, claim>>
    /\ todo' = Tail(todo)
    /\ UNCHANGED <<pc, op, tries, autosetup, model, buffer, late, commlost, online,
                   port, silent, noise>>

-----------------------------------------------------------------------------
(* The outside *)

MainsChange == /\ ups' = [ups EXCEPT !.line = ~ @]
               /\ UNCHANGED silent /\ UNCHANGED port

Hush == /\ MayFallSilent /\ silent' = ~ silent
        /\ UNCHANGED ups /\ UNCHANGED port

\* The plug is pulled; the descriptor stays dead when it is put in again.
Unplug == /\ device /\ unplugs > 0
          /\ device' = FALSE /\ unplugs' = unplugs - 1
          /\ fd' = IF fd = "ok" THEN "dead" ELSE fd
          /\ UNCHANGED outside

Plug == /\ ~ device /\ device' = TRUE
        /\ UNCHANGED <<fd, unplugs, outside>>

Outside == /\ MainsChange \/ Hush \/ Unplug \/ Plug
           /\ UNCHANGED <<thread, model, buffer, age, late, commlost, online, wire, noise>>

Thread == \/ OpenUps \/ Fill \/ Act \/ CheckState \/ SetupTry
          \/ ReadByte \/ DropByte \/ Wait \/ ReadFails
          \/ NoCommand \/ ReadStatic \/ Command \/ Send \/ SendOnce

Next == Thread \/ Outside

\* The device thread runs; nothing else has to happen.
Spec == Init /\ [][Next]_vars /\ WF_vars(Thread)

-----------------------------------------------------------------------------
(* Properties *)

\* Types; no call but ReadData() sees a whole message in the ring (brazildriver.c:566-596).
TypeOK ==
    /\ pc \in {"open", "setup", "fill", "act", "check", "read", "next", "send",
               "crashed", "aborted"}
    /\ op \in Retried \cup {"check", "setup"}
    /\ tries \in Nat
    /\ todo \in Seq(Todo)
    /\ model \in Report \cup {Null}
    /\ buffer \in Seq(Byte) /\ Len(buffer) < MSGLEN
    /\ age \in 0 .. CommTimeout + 1
    /\ {late, autosetup, commlost, online, claim, device, silent} \subseteq BOOLEAN
    /\ fd \in {"ok", "dead", "closed"}
    /\ ups \in [number : Numbers, line : BOOLEAN, sched : {"none", "old", "new"},
                output : BOOLEAN]
    /\ wire \in Seq(Byte) /\ Len(wire) < MSGLEN
    /\ noise \in 0 .. NoiseMax /\ unplugs \in 0 .. UnplugMax

\* The loop of do_device() relies on ReadData() to return.  As long as bytes come it
\* does, wherever it begins in the stream of messages and whatever was garbled: it
\* is held up for ever only if from some time on no byte is read (brazildriver.c:566-596).
ReadReturns == <>[](pc = "read") => <>[][UNCHANGED <<buffer, wire>>]_vars

\* A UPS that falls silent on a port that works does hold it up for ever: select()
\* times out again and again, and the test for a lost connection, which is below it,
\* is not reached (brazildriver.c:514-518, 546).
SilenceHoldsUp == <>[](silent /\ fd = "ok") => <>[](pc \in {"read", "crashed"})

\* Once the device stays, the UPS talks and the mains stay as they are, the status
\* comes to tell so, whatever noise and lost connections came before, unless the
\* driver crashed or was left without a descriptor (brazildriver.c:499-623).
StatusCatchesUp ==
    \A l \in BOOLEAN :
        <>[](device /\ ~ silent /\ fd # "closed" /\ ups.line = l)
        => <>[]((online = l /\ ~ commlost) \/ pc = "crashed")

\* A port that stays dead is reported as lost communication (brazildriver.c:546-551).
LossNoticed == <>[](fd = "dead") => <>[](commlost \/ pc = "crashed")

\* What becomes of the core's loop: a line on which bytes come never stops it, a
\* silent UPS on a port that works does, and a port that stays dead is reported.
LoopGoesOn == ReadReturns /\ SilenceHoldsUp /\ LossNoticed

\* The only place where a missing model is used is a retried command whose own
\* read reopened a dead port (brazildriver.c:303, 338, 372).
DereferenceSafe ==
    [][pc' = "crashed" /\ pc # "crashed" => fd = "dead" /\ late /\ op \in Retried]_vars

\* When programmation() says that the schedule is set, the UPS does keep one, although
\* the report it goes by may be older than the command (brazildriver.c:303-312); it
\* may still be one from before.
SetMeansSet == claim => ups.sched # "none"
=============================================================================
