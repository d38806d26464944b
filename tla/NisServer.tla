------------------------------ MODULE NisServer ------------------------------
(***************************************************************************)
(* The network information server (apcnis.c) and the threads it lives      *)
(* with: the device thread, which reads the UPS into UPSINFO, under its    *)
(* mutex once it is set up; the server thread, which accepts connections;  *)
(* a thread for every client; and the signal thread, which ends the        *)
(* process.                                                                *)
(*                                                                         *)
(* Of the device thread there is what a driver's use of the mutex comes    *)
(* down to.  Fields are those of UPSINFO that read_volatile_data() sets,   *)
(* in the order it does; each is blank until the UPS has been set up.      *)
(*                                                                         *)
(* An answer to "status" is written line by line into one static buffer    *)
(* under a static mutex, which is held until the client has taken the      *)
(* whole answer; the fields are read under the mutex of UPSINFO, which is  *)
(* given back before anything is sent.  net_send() has no timeout: a       *)
(* client that stops reading holds up its thread.                          *)
(*                                                                         *)
(* A lock that is taken, used for one assignment and given back            *)
(* (attach_ups(), detach_ups()) is one step.  Not modelled: tcpwrappers,   *)
(* the retries of socket() and bind(), "events" and unknown requests,      *)
(* whose answers need neither lock (EventLog), status bits that some       *)
(* drivers change one at a time between two readings.                      *)
(***************************************************************************)
EXTENDS Integers, Sequences, FiniteSets

CONSTANTS
    Clients,   \* at most one connection each
    Fields,    \* fields of UPSINFO, each a line of the report
    Room,      \* lines that fit into largebuf
    Drivers    \* names of drivers, of which one is configured

Core == "core"
NoOne == "none"
Blank == 0   \* a field that was never read
END == 3     \* the last line of a report; 1 and 2: fields of readings by turns

ASSUME NisAssumption == /\ {Core, NoOne} \cap Clients = {} /\ IsFiniteSet(Clients)
                        /\ Fields \in Nat \ {0} /\ Room \in Nat

\* Drivers that give UPSINFO up in the middle of a reading: apcsmart when the link is
\* lost, net between the values and the status word.
Giving  == {"apcsmart", "net"}
\* Drivers whose Close() takes the mutex of UPSINFO.
Locking == {"pcnet", "snmplite", "test"}

VARIABLES
    driver,    \* the configured driver; it never changes
    core,      \* device thread: "start", setting up ("prep"), waiting for UPSINFO
               \*   ("wait"), reading ("write"), without the link ("lost"), in Close()
               \*   after a fatal error ("abort")
    changed,   \* fields the device thread has written so far
    ups,       \* UPSINFO: its fields
    upslock,   \* owner of UPSINFO.mutex
    refcnt,    \* UPSINFO.refcnt
    freed,     \* UPSINFO was given back to malloc
    server,    \* server thread: not started, attaching, accepting
    h,         \* the thread of a client: where it is
    at,        \* fields it has written to the buffer
    mutex,     \* owner of the static mutex
    largebuf,  \* lines of the report; stat_recs is their number
    got,       \* what the client has got of the answer
    cl,        \* the client: "reads", "stalled", "gone"
    term       \* signal thread: how far apcctrl_terminate() has come

device  == <<driver, core, changed, ups>>
shared  == <<upslock, refcnt, freed>>
report  == <<mutex, largebuf>>
handler == <<h, at, got>>
vars == <<device, shared, server, handler, report, cl, term>>

Alive == term # "dead"
Line == 0 .. END
Nothing == [recs |-> 0, lines |-> <<>>]

\* The memory of a process that begins, and what is left of one that ended.
Clean == [ups |-> [i \in 1 .. Fields |-> Blank],
          h   |-> [c \in Clients |-> "none"],
          at  |-> [c \in Clients |-> 0],
          got |-> [c \in Clients |-> Nothing],
          cl  |-> [c \in Clients |-> "gone"]]

Init ==
    /\ driver \in Drivers
    /\ core = "start" /\ changed = 0 /\ ups = Clean.ups
    /\ upslock = NoOne /\ refcnt = 1 /\ freed = FALSE
    /\ server = "none"
    /\ h = Clean.h /\ at = Clean.at /\ got = Clean.got
    /\ mutex = NoOne /\ largebuf = <<>>
    /\ cl = Clean.cl
    /\ term = "no"

-----------------------------------------------------------------------------
(* The device thread, which is main() *)

InCore(place) == Alive /\ core = place
Others == UNCHANGED <<driver, server, handler, report, cl, term>>

\* main() starts the server; a thread that cannot be created is only logged.
start_thread ==
    /\ InCore("start")
    /\ core' = "prep" /\ server' \in {"attach", "failed"}
    /\ UNCHANGED <<driver, changed, ups, shared, handler, report, cl, term>>

\* open_ups(): prep_device() fills UPSINFO for the first time.  Neither apcsmart's
\* read_static_data() nor prep_device() takes the mutex for it.
prep_device ==
    /\ InCore("prep")
    /\ ups' = [ups EXCEPT ![changed + 1] = 1]
    /\ IF changed + 1 < Fields THEN changed' = changed + 1 /\ core' = core
                               ELSE changed' = 0 /\ core' = "wait"
    /\ UNCHANGED shared /\ Others

\* The device thread takes UPSINFO, and gives it up.
TakeUps == upslock = NoOne /\ upslock' = Core /\ UNCHANGED <<refcnt, freed>>
GiveUps == upslock' = NoOne /\ UNCHANGED <<refcnt, freed>>

write_lock ==
    /\ InCore("wait") /\ TakeUps
    /\ core' = "write"
    /\ UNCHANGED <<changed, ups>> /\ Others

\* A new reading comes field by field.
Writes ==
    /\ InCore("write") /\ changed < Fields
    /\ ups' = [ups EXCEPT ![changed + 1] = 3 - @]
    /\ changed' = changed + 1
    /\ UNCHANGED <<core, shared>> /\ Others

write_unlock ==
    /\ InCore("write") /\ changed = Fields /\ GiveUps
    /\ core' = "wait" /\ changed' = 0
    /\ UNCHANGED ups /\ Others

\* UPSlinkCheck() gives UPSINFO up until the link is back, which may be never; the
\* reading then goes on where it was.  (With no field written yet, or with all, nobody
\* could tell.)
LinkLost ==
    /\ InCore("write") /\ driver \in Giving /\ changed \in 1 .. Fields - 1 /\ GiveUps
    /\ core' = "lost"
    /\ UNCHANGED <<changed, ups>> /\ Others

LinkBack ==
    /\ InCore("lost") /\ TakeUps
    /\ core' = "write"
    /\ UNCHANGED <<changed, ups>> /\ Others

\* Error_abort() under the lock, in do_action() say, calls the driver's Close(): if that
\* takes the mutex, the thread waits for itself.  What it had written nobody sees.
Abort ==
    /\ InCore("write") /\ changed = 0 /\ driver \in Locking
    /\ core' = "abort"
    /\ UNCHANGED <<changed, ups, shared>> /\ Others

Device ==
    \/ start_thread \/ prep_device \/ write_lock \/ Writes \/ write_unlock
    \/ LinkLost \/ LinkBack \/ Abort

-----------------------------------------------------------------------------
(* References to UPSINFO (lib/newups.c) *)

\* (fault) the count is changed without the mutex: an update is lost
FaultAttach == upslock = NoOne /\ refcnt' \in {refcnt, refcnt + 1} /\ UNCHANGED <<upslock, freed>>

attach_ups == upslock = NoOne /\ refcnt' = refcnt + 1 /\ UNCHANGED <<upslock, freed>>

\* The last to detach destroys the mutex and frees the structure.
detach_ups == /\ upslock = NoOne
              /\ refcnt' = refcnt - 1 /\ freed' = (freed \/ refcnt = 1)
              /\ UNCHANGED upslock

-----------------------------------------------------------------------------
(* The server thread: do_server() *)

ServerAttaches ==
    /\ Alive /\ server = "attach" /\ attach_ups
    /\ server' = "accept"
    /\ UNCHANGED <<device, handler, report, cl, term>>

\* Cancelled while it waits in accept().
Cancelled == term \notin {"no", "sig"}

\* Nobody looks whether the thread of the client could be created: if not, the
\* connection stays open and nobody serves it.
Accept(c) ==
    /\ Alive /\ server = "accept" /\ ~ Cancelled
    /\ h[c] = "queued"
    /\ \E how \in {"attach", "leaked"} : h' = [h EXCEPT ![c] = how]
    /\ UNCHANGED <<device, shared, server, at, got, report, cl, term>>

-----------------------------------------------------------------------------
(* The thread of a client: handle_client_request() *)

At(c, where) == Alive /\ h[c] = where
Goto(c, where) == h' = [h EXCEPT ![c] = where]
Keeps(c) == UNCHANGED <<device, server, cl, term>>

Attach(c) ==
    /\ At(c, "attach") /\ attach_ups /\ Goto(c, "recv")
    /\ UNCHANGED <<at, got, report>> /\ Keeps(c)

\* A request, or the end of the connection: closed, silent for 15 seconds, garbled.
Receive(c) ==
    /\ At(c, "recv")
    /\ \E what \in IF cl[c] = "gone" THEN {"close"} ELSE {"open", "close"} : Goto(c, what)
    /\ UNCHANGED <<at, got, shared, report>> /\ Keeps(c)

\* net_send(): waits for a client that does not read, fails when it is gone.
Sent(c)   == cl[c] = "reads"
Broken(c) == cl[c] = "gone"

status_open(c) ==
    /\ At(c, "open") /\ mutex = NoOne
    /\ mutex' = c /\ largebuf' = <<>>
    /\ Goto(c, "rlock")
    /\ UNCHANGED <<at, got, shared>> /\ Keeps(c)

\* (fault) the report is put together without the lock of UPSINFO
FaultReadLock(c) ==
    /\ At(c, "rlock")
    /\ Goto(c, "fill")
    /\ UNCHANGED <<at, got, shared, report>> /\ Keeps(c)

read_lock(c) ==
    /\ At(c, "rlock") /\ upslock = NoOne
    /\ upslock' = c
    /\ Goto(c, "fill")
    /\ UNCHANGED <<at, got, refcnt, freed, report>> /\ Keeps(c)

\* (fault) the size of the buffer is not looked at
FaultWrite(line) == largebuf' = Append(largebuf, line)

\* status_write(): a line that does not fit is dropped.
status_write(line) ==
    largebuf' = IF Len(largebuf) < Room THEN Append(largebuf, line) ELSE largebuf

WriteField(c) ==
    /\ At(c, "fill") /\ at[c] < Fields
    /\ status_write(ups[at[c] + 1])
    /\ at' = [at EXCEPT ![c] = @ + 1]
    /\ UNCHANGED <<h, got, shared, mutex>> /\ Keeps(c)

\* (fault) the lock is kept until the answer has been sent
FaultReadUnlock(c) ==
    /\ At(c, "fill") /\ at[c] = Fields
    /\ cl[c] # "stalled"
    /\ upslock' = NoOne
    /\ Goto(c, "header") /\ at' = [at EXCEPT ![c] = 0]
    /\ UNCHANGED <<got, refcnt, freed, report>> /\ Keeps(c)

read_unlock(c) ==
    /\ At(c, "fill") /\ at[c] = Fields
    /\ upslock' = NoOne
    /\ Goto(c, "header") /\ at' = [at EXCEPT ![c] = 0]
    /\ UNCHANGED <<got, refcnt, freed, report>> /\ Keeps(c)

\* Every way out of status_close() gives the mutex back; what is left in the buffer
\* nobody reads.
GiveBack(c, where) == mutex' = NoOne /\ largebuf' = <<>> /\ Goto(c, where)

\* The report ends with a line of its own; the header says how many lines come.
Header(c) ==
    /\ status_write(END) /\ UNCHANGED mutex
    /\ Goto(c, "lines")
    /\ got' = [got EXCEPT ![c] = [recs |-> Len(largebuf'), lines |-> <<>>]]

\* (fault) the mutex is forgotten when the header cannot be sent
FaultHeader(c) ==
    /\ At(c, "header")
    /\ \/ Sent(c) /\ Header(c)
       \/ Broken(c) /\ Goto(c, "close") /\ UNCHANGED <<got, report>>
    /\ UNCHANGED <<at, shared>> /\ Keeps(c)

SendHeader(c) ==
    /\ At(c, "header")
    /\ \/ Sent(c) /\ Header(c)
       \/ Broken(c) /\ GiveBack(c, "close") /\ UNCHANGED got
    /\ UNCHANGED <<at, shared>> /\ Keeps(c)

SendLine(c) ==
    /\ At(c, "lines")
    /\ LET n == Len(got[c].lines)
       IN  IF n = got[c].recs THEN Goto(c, "zero") /\ UNCHANGED got
           ELSE \/ /\ Sent(c) /\ UNCHANGED h
                   /\ got' = [got EXCEPT ![c].lines = Append(@, largebuf[n + 1])]
                \/ /\ Broken(c) /\ Goto(c, "zero") /\ UNCHANGED got
    /\ UNCHANGED <<at, shared, report>> /\ Keeps(c)

SendZero(c) ==
    /\ At(c, "zero")
    /\ \/ Sent(c) /\ GiveBack(c, "recv")
       \/ Broken(c) /\ GiveBack(c, "close")
    /\ got' = [got EXCEPT ![c] = Nothing]
    /\ UNCHANGED <<at, shared>> /\ Keeps(c)

Close(c) ==
    /\ At(c, "close") /\ detach_ups
    /\ Goto(c, "none")
    /\ cl' = [cl EXCEPT ![c] = "gone"]
    /\ UNCHANGED <<at, got, report, device, server, term>>

Handler(c) ==
    \/ Attach(c) \/ Receive(c) \/ Close(c)
    \/ status_open(c) \/ read_lock(c) \/ WriteField(c) \/ read_unlock(c)
    \/ SendHeader(c) \/ SendLine(c) \/ SendZero(c)

-----------------------------------------------------------------------------
(* Clients *)

Connect(c) ==
    /\ Alive /\ server = "accept" /\ h[c] = "none"
    /\ Goto(c, "queued") /\ cl' = [cl EXCEPT ![c] = "reads"]
    /\ UNCHANGED <<device, shared, server, at, got, report, term>>

\* What a client does is noticed where its thread receives or sends.
Behaves(c) ==
    /\ Alive /\ h[c] \in {"recv", "header", "lines", "zero"} /\ cl[c] # "gone"
    /\ \E how \in {"reads", "stalled", "gone"} \ {cl[c]} : cl' = [cl EXCEPT ![c] = how]
    /\ UNCHANGED <<device, shared, server, handler, report, term>>

-----------------------------------------------------------------------------
(* The signal thread: terminate(), apcctrl_terminate() *)

Step(from, to) == /\ term = from /\ term' = to
                  /\ UNCHANGED <<device, shared, server, handler, report, cl>>

Signal == Step("no", "sig")

\* (fault) the signal thread waits until nobody is being answered
FaultCleanThreads == mutex = NoOne /\ Step("sig", "threads")

\* clean_threads() cancels the server and leaves the threads of the clients.
clean_threads == Step("sig", "threads")

\* The process is gone, and its memory with it.
Ends ==
    /\ term' = "dead"
    /\ driver' = driver /\ core' = "start" /\ changed' = 0 /\ ups' = Clean.ups
    /\ upslock' = NoOne /\ refcnt' = 1 /\ freed' = FALSE
    /\ server' = "none"
    /\ h' = Clean.h /\ at' = Clean.at /\ got' = Clean.got
    /\ mutex' = NoOne /\ largebuf' = <<>>
    /\ cl' = Clean.cl

\* device_close() calls the driver's Close(), which may wait for UPSINFO.  Then
\* destroy_ups() destroys the mutex whoever holds it, frees nothing while refcnt is not
\* 0, and _exit() follows: a thread that takes the mutex in between goes on as if
\* nothing had happened or ends the process itself.
device_close ==
    /\ term = "threads"
    /\ driver \in Locking => upslock = NoOne
    /\ Ends

\* Error_abort() in the device thread, for a driver whose Close() takes no lock.
ErrorExit == InCore("write") /\ changed = 0 /\ driver \notin Locking /\ Ends

Next ==
    \/ Device \/ ServerAttaches
    \/ \E c \in Clients : Accept(c) \/ Handler(c) \/ Connect(c) \/ Behaves(c)
    \/ Signal \/ clean_threads \/ device_close \/ ErrorExit

\* Threads run.  A mutex is not handed out in order; but a thread that finds it
\* free again and again gets it.  A reading ends, once the UPS has been set up, when the
\* link is not lost in the middle of it.
TakesLock(c) == Attach(c) \/ status_open(c) \/ read_lock(c) \/ Close(c)
Fairness ==
    /\ WF_vars(start_thread \/ Writes \/ write_unlock) /\ SF_vars(write_lock)
    /\ SF_vars(ServerAttaches)
    /\ \A c \in Clients : WF_vars(Handler(c)) /\ SF_vars(TakesLock(c))
    /\ WF_vars(clean_threads) /\ SF_vars(device_close)

Spec == Init /\ [][Next]_vars /\ Fairness

-----------------------------------------------------------------------------
(* Properties *)

Reporting == {"rlock", "fill", "header", "lines", "zero"}
Attached  == {"recv", "open", "close"} \cup Reporting

\* Types; the report never outgrows its static buffer (apcnis.c:112-118).
TypeOK ==
    /\ driver \in Drivers
    /\ core \in {"start", "prep", "wait", "write", "lost", "abort"}
    /\ changed \in 0 .. Fields /\ ups \in [1 .. Fields -> 0 .. 2]
    /\ {upslock, mutex} \subseteq Clients \cup {Core, NoOne}
    /\ refcnt \in Nat /\ freed \in BOOLEAN
    /\ server \in {"none", "failed", "attach", "accept"}
    /\ h \in [Clients -> {"none", "queued", "leaked", "attach"} \cup Attached]
    /\ at \in [Clients -> 0 .. Fields]
    /\ largebuf \in Seq(Line) /\ Len(largebuf) <= Room
    /\ got \in [Clients -> [recs : 0 .. Room, lines : Seq(Line)]]
    /\ cl \in [Clients -> {"reads", "stalled", "gone"}]
    /\ term \in {"no", "sig", "threads", "dead"}

\* The values of a report, blank ones apart, are of one reading; of a driver that gives
\* UPSINFO up in mid-reading they may be of two, the first k of them of the later one.
OfOneReading(lines) ==
    \E k \in IF driver \in Giving THEN 0 .. Fields ELSE {0} :
        \A i, j \in DOMAIN lines \cap 1 .. Fields :
            (i <= k <=> j <= k) => lines[i] = lines[j] \/ Blank \in {lines[i], lines[j]}

\* However many clients are answered at once, and whatever the device thread does
\* meanwhile: an answer has the lines its header promises, all that fit into the
\* buffer, of one reading of the UPS (apcnis.c:44-94, apcstatus.c:50), or of two where
\* the driver lets a report in between.
AnswerIntact ==
    \A c \in Clients :
        LET lines == got[c].lines
        IN  h[c] = "zero" /\ cl[c] # "gone" =>
              /\ Len(lines) = got[c].recs
              /\ got[c].recs = IF Fields < Room THEN Fields + 1 ELSE Room
              /\ OfOneReading(lines)

\* The count of UPSINFO is that of its users, so that no detach frees it under
\* another thread (newups.c:57-86).
RefcntExact ==
    /\ refcnt = 1 + (IF server = "accept" THEN 1 ELSE 0)
                  + Cardinality({c \in Clients : h[c] \in Attached})
    /\ ~ freed

\* The device thread waits in Close() for the lock that it is holding.
Hung == core = "abort"

\* "a misbehaving client [may] create long lock hold times, essentially locking
\* the driver out" (apcstatus.c:41-49): no longer so, whatever the clients do.
CoreNotHeldUp == core = "wait" ~> core # "wait" \/ ~ Alive

\* As long as no client stops reading without leaving, every request is answered, unless
\* the device thread has hung with UPSINFO.
ClientsServed ==
    \A c \in Clients :
        <>[](\A d \in Clients : cl[d] # "stalled")
        => [](h[c] \in {"open"} \cup Reporting
                => <>(h[c] \notin {"open"} \cup Reporting \/ ~ Alive \/ Hung))

\* A signal ends the process, even while clients are stuck and the driver's Close()
\* wants UPSINFO (apcctrl.c:45-63): unless the device thread has hung with it.
Terminates == term = "sig" ~> ~ Alive \/ Hung
=============================================================================
