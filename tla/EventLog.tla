------------------------------- MODULE EventLog -------------------------------
(***************************************************************************)
(* The events file: log_event() of any thread (apclog.c), trim_eventfile() *)
(* of the device thread and output_events() of a client's thread           *)
(* (apcevents.c).                                                          *)
(*                                                                         *)
(* An event is two writes, its date and its message, which ends the line.  *)
(* All writes go through one descriptor, opened with O_APPEND: a write     *)
(* goes to the end of the file and takes the position of the descriptor    *)
(* with it.  trim_eventfile() uses that position to read the tail.  The    *)
(* lock of UPSINFO it holds does not appear here because log_event() does  *)
(* not take it.  A client reads through a descriptor of its own.           *)
(*                                                                         *)
(* A date or a message has length one.  Not modelled: lines longer than    *)
(* MAXSTRING, a disk that refuses a write of log_event().                  *)
(***************************************************************************)
EXTENDS Integers, Sequences, FiniteSets

CONSTANTS
    Device,       \* the device thread
    Others,       \* other threads that log: the signal thread, the server
    Max,          \* EVENTSFILEMAX
    Keep,         \* 80 % of it
    NLE,          \* 50: lines of an answer
    DiskMayFail,  \* the tail may not be written back
    LogMax        \* bound: events in a behaviour

Threads == {Device} \cup Others

ASSUME EventAssumption ==
    /\ Device \notin Others
    /\ Max \in Nat /\ Keep \in 1 .. Max /\ NLE \in Nat \ {0} /\ LogMax \in Nat
    /\ DiskMayFail \in BOOLEAN

Chunk == (1 .. LogMax) \X {"date", "message"}

VARIABLES
    file,      \* the events file
    pos,       \* position of the shared descriptor
    n,         \* events logged or begun
    writing,   \* the event of which a thread has written the date, or 0
    trim,      \* where trim_eventfile() is
    buf,       \* its buffer
    reader,    \* output_events(): "none", "read", "send"
    roff,      \* position of its own descriptor
    line,      \* the line it is reading
    le, i,     \* its ring of lines and the index into it
    nrec,      \* lines read, later lines to send
    answer,    \* lines it has sent
    read,      \* history: all lines it has read
    mixed      \* history: a write met another line half written or a trim, or failed

log     == <<file, pos, n, writing, mixed>>
trimmer == <<trim, buf>>
ring    == <<roff, line, le, i, nrec>>
client  == <<reader, ring, answer, read>>
vars == <<log, trimmer, client>>

Slots == 0 .. NLE - 1

Init ==
    /\ file = <<>> /\ pos = 0 /\ n = 0
    /\ writing = [t \in Threads |-> 0]
    /\ trim = "no" /\ buf = <<>>
    /\ reader = "none" /\ roff = 0 /\ line = <<>>
    /\ le = [k \in Slots |-> <<>>] /\ i = 0 /\ nrec = 0
    /\ answer = <<>> /\ read = <<>>
    /\ mixed = FALSE

-----------------------------------------------------------------------------
(* log_event() *)

\* O_APPEND: at the end, wherever the descriptor stood.
Appends(s) == /\ file' = file \o s
              /\ pos' = Len(file') 

\* The device thread is not in trim_eventfile(), or at the end of it, to log a failure.
Free(t) == t = Device => trim \in {"no", "report"}
Meets(t) == trim # "no" \/ \E u \in Threads \ {t} : writing[u] # 0

LogDate(t) ==
    /\ Free(t) /\ writing[t] = 0 /\ n < LogMax
    /\ n' = n + 1
    /\ Appends(<< <<n + 1, "date">> >>)
    /\ writing' = [writing EXCEPT ![t] = n + 1]
    /\ mixed' = (mixed \/ Meets(t))
    /\ UNCHANGED <<trimmer, client>>

LogMessage(t) ==
    /\ Free(t) /\ writing[t] # 0
    /\ Appends(<< <<writing[t], "message">> >>)
    /\ writing' = [writing EXCEPT ![t] = 0]
    /\ mixed' = (mixed \/ Meets(t))
    /\ trim' = IF t = Device THEN "no" ELSE trim
    /\ UNCHANGED <<n, buf, client>>

-----------------------------------------------------------------------------
(* trim_eventfile(), once in a pass of the device thread *)

TrimStarts ==
    /\ trim = "no" /\ writing[Device] = 0
    /\ Len(file) > Max
    /\ trim' = "read"
    /\ pos' = Len(file) - Keep
    /\ mixed' = (mixed \/ \E t \in Threads : writing[t] # 0)
    /\ UNCHANGED <<file, n, writing, buf, client>>

\* read() until the buffer is full or there is nothing more to read.
TrimReads ==
    /\ trim = "read" /\ Len(buf) < Keep /\ pos < Len(file)
    /\ \E m \in 1 .. Keep - Len(buf) :
          /\ pos + m <= Len(file)
          /\ buf' = buf \o SubSeq(file, pos + 1, pos + m)
          /\ pos' = pos + m
    /\ UNCHANGED <<file, n, writing, mixed, trim, client>>

\* (fault) the newline is left in
FaultSkips(s, k) ==
    IF \E j \in DOMAIN s : s[j][2] = "message"
    THEN k # Len(s) /\ s[k + 1][2] = "message" /\ \A j \in 1 .. k : s[j][2] # "message"
    ELSE k = Len(s)

\* What is skipped: up to the first newline with it, or without a newline all.
Skips(s, k) ==
    IF \E j \in DOMAIN s : s[j][2] = "message"
    THEN k # 0 /\ s[k][2] = "message" /\ \A j \in 1 .. k - 1 : s[j][2] # "message"
    ELSE k = Len(s)

\* All that was asked for is read, or there is no more.
TailRead == trim = "read" /\ (Len(buf) = Keep \/ pos >= Len(file))
WithoutSkipped == \E k \in 0 .. Len(buf) : /\ Skips(buf, k)
                                          /\ buf' = SubSeq(buf, k + 1, Len(buf))

\* (fault) the file is not truncated
FaultTruncates ==
    /\ TailRead /\ WithoutSkipped
    /\ pos' = 0
    /\ trim' = "write"
    /\ UNCHANGED <<file, n, writing, mixed, client>>

TrimTruncates ==
    /\ TailRead /\ WithoutSkipped
    /\ pos' = 0 /\ file' = <<>>
    /\ trim' = "write"
    /\ UNCHANGED <<n, writing, mixed, client>>

TrimWrites ==
    /\ trim = "write"
    /\ Appends(buf)
    /\ trim' = "no" /\ buf' = <<>>
    /\ UNCHANGED <<n, writing, mixed, client>>

\* Part of the tail is written back, and the device thread logs the failure.
TrimFails ==
    /\ trim = "write" /\ DiskMayFail
    /\ \E m \in 0 .. Len(buf) - 1 : Appends(SubSeq(buf, 1, m))
    /\ trim' = "report" /\ buf' = <<>> /\ mixed' = TRUE
    /\ UNCHANGED <<n, writing, client>>

-----------------------------------------------------------------------------
(* output_events() *)

\* A client asks once it has taken its last answer.
ReadStarts ==
    /\ reader = "none"
    /\ reader' = "read" /\ roff' = 0 /\ line' = <<>>
    /\ le' = [k \in Slots |-> <<>>] /\ i' = 0 /\ nrec' = 0
    /\ answer' = <<>> /\ read' = <<>>
    /\ UNCHANGED <<log, trimmer>>

\* (fault) the index wraps one line late
FaultNextSlot(k) == IF k + 1 > NLE THEN 0 ELSE k + 1

NextSlot(k) == IF k + 1 >= NLE THEN 0 ELSE k + 1

\* fgets() has a line.
Store(s) == /\ le' = [le EXCEPT ![i] = s]
            /\ i' = NextSlot(i) /\ nrec' = nrec + 1
            /\ read' = Append(read, s)
            /\ line' = <<>>

ReadChunk ==
    /\ reader = "read" /\ roff < Len(file)
    /\ roff' = roff + 1
    /\ LET s == Append(line, file[roff + 1])
       IN  IF file[roff + 1][2] = "message" THEN Store(s)
           ELSE line' = s /\ UNCHANGED <<le, i, nrec, read>>
    /\ UNCHANGED <<log, trimmer, reader, answer>>

\* (fault) the lines are sent from the start of the ring
FaultReadEnds ==
    /\ reader = "read" /\ roff >= Len(file)
    /\ IF line # <<>> THEN Store(line) /\ UNCHANGED <<roff, reader, answer>>
       ELSE /\ reader' = "send"
            /\ i' = 0
            /\ nrec' = IF nrec > NLE THEN NLE ELSE nrec
            /\ UNCHANGED <<roff, line, le, read, answer>>
    /\ UNCHANGED <<log, trimmer>>

\* The end of the file, perhaps in the middle of a line.
ReadEnds ==
    /\ reader = "read" /\ roff >= Len(file)
    /\ IF line # <<>> THEN Store(line) /\ UNCHANGED <<roff, reader, answer>>
       ELSE /\ reader' = "send"
            /\ i' = IF nrec > NLE THEN i ELSE 0
            /\ nrec' = IF nrec > NLE THEN NLE ELSE nrec
            /\ UNCHANGED <<roff, line, le, read, answer>>
    /\ UNCHANGED <<log, trimmer>>

SendEvent ==
    /\ reader = "send" /\ Len(answer) < nrec
    /\ answer' = Append(answer, le[i])
    /\ i' = NextSlot(i)
    /\ UNCHANGED <<log, trimmer, reader, roff, line, le, nrec, read>>

\* All is sent, or the client has gone.
SendEnds ==
    /\ reader = "send"
    /\ reader' = "none"
    /\ UNCHANGED <<log, trimmer, ring, answer, read>>

Next ==
    \/ \E t \in Threads : LogDate(t) \/ LogMessage(t)
    \/ TrimStarts \/ TrimReads \/ TrimTruncates \/ TrimWrites \/ TrimFails
    \/ ReadStarts \/ ReadChunk \/ ReadEnds \/ SendEvent \/ SendEnds

Spec == Init /\ [][Next]_vars

-----------------------------------------------------------------------------
(* Properties *)

\* Types; the ring is indexed within its bounds (apcevents.c:137-143, 152-158).
TypeOK ==
    /\ file \in Seq(Chunk) /\ buf \in Seq(Chunk) /\ line \in Seq(Chunk)
    /\ pos \in Nat /\ roff \in Nat /\ n \in 0 .. LogMax
    /\ writing \in [Threads -> 0 .. LogMax]
    /\ trim \in {"no", "read", "write", "report"} /\ reader \in {"none", "read", "send"}
    /\ le \in [Slots -> Seq(Chunk)] /\ i \in Slots /\ nrec \in Nat
    /\ answer \in Seq(Seq(Chunk)) /\ read \in Seq(Seq(Chunk))
    /\ mixed \in BOOLEAN

\* The lines of the events from k to m, as log_event() writes them.
Lines(k, m) == [j \in 1 .. 2 * (m - k + 1) |->
                   <<k + (j - 1) \div 2, IF j % 2 = 1 THEN "date" ELSE "message">>]

\* Nobody is in the middle of a line or of a trim.
Quiet == trim = "no" /\ \A t \in Threads : writing[t] = 0

\* While no thread logs into the line of another or into a trim, the file holds the
\* last events in whole lines, and gives up old ones only as far as the limit asks
\* for (apcevents.c:61-99).
EndKept ==
    Quiet /\ ~ mixed => \E k \in 1 .. n + 1 :
                          /\ file = Lines(k, n)
                          /\ k = 1 \/ Len(file) >= Keep - 2

\* "trim it to slightly less than that maximum, preserving lines at end of the file"
\* (apcevents.c:30-31): at least the last event is there.
LastKept ==
    Quiet /\ n > 0 => \A s \in {"date", "message"} :
                         \E j \in DOMAIN file : file[j] = <<n, s>>

\* Whoever logs when, no part of an event is in the file twice.
Apart(s) == \A j, k \in DOMAIN s : s[j] = s[k] => j = k
NothingTwice == Apart(file)

\* A client gets the last NLE of the lines read for it, in their order, whatever is
\* logged and trimmed meanwhile (apcevents.c:137-159).
Last == IF Len(read) > NLE THEN Len(read) - NLE ELSE 0
LastLines ==
    reader = "send" => \A j \in DOMAIN answer : answer[j] = read[Last + j]
=============================================================================
