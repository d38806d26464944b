------------------------------- MODULE NetSlave -------------------------------
(***************************************************************************)
(* A slave: a daemon whose UPS is the NIS server of another daemon, the    *)
(* master (drivers/net).  The device thread runs the loop of do_device():  *)
(* do_action(), fillUPS(), do_action(), check_state().  The driver fetches *)
(* the status report of the master into a buffer, and reads capabilities,  *)
(* values and status from whatever the buffer holds.                       *)
(*                                                                         *)
(* The report comes in three parts: the values, STATFLAG, the rest.        *)
(* poll_ups() may receive any number of them before the connection fails   *)
(* or is closed.  A connection that is closed looks like the end of the    *)
(* report to net_recv() and counts as a success.                           *)
(*                                                                         *)
(* Of UPSINFO this module keeps what the driver writes: the bits onbatt,   *)
(* commlost, fastpoll and shut_remote of Status, the battery charge, and   *)
(* what do_action() does with shut_remote and fastpoll.  All of it is used *)
(* by the device thread only, so that no lock appears here.                *)
(*                                                                         *)
(* Not modelled: the self test calls of entry_point(), the log message     *)
(* that repeats COMMFAILURE every ten minutes, and the limits of           *)
(* do_action(), which are ApcAction's.                                     *)
(***************************************************************************)
EXTENDS Integers

CONSTANTS
    Masters,       \* what the master may say of itself
    Fresh,         \* 2 s: a buffer younger than this is not fetched again
    CommLossLimit  \* 4: lost passes on batteries that the driver puts up with

Says == [onbatt : BOOLEAN, shutdown : BOOLEAN, shut_remote : BOOLEAN,
         commlost : BOOLEAN, fastpoll : BOOLEAN, BattChg : Nat]

ASSUME MasterAssumption == Masters \subseteq Says /\ Masters # {}
ASSUME LimitAssumption  == Fresh \in Nat \ {0} /\ CommLossLimit \in Nat

\* How much of a report has come: nothing, values, STATFLAG, all of it.
Nothing == 0
Values  == 1
Flag    == 2
All     == 3
LossMax == CommLossLimit + 2
Capped(n) == IF n > LossMax THEN LossMax ELSE n

VARIABLES
    pc,             \* where the device thread stands
    caller,         \* who has the buffer filled: "start", "fillUPS", "check_state"
    filled,         \* what fill_status_buffer() returned to get_ups_status_flag()
    statbuf,        \* _statbuf: how much of which report
    since,          \* seconds since _last_fill_time, up to Fresh
    got_caps, got_static_data, battlev,   \* _got_caps, _got_static_data, UPS_Cap[CI_BATTLEV]
    comm_err,       \* _comm_err: COMMFAILURE was announced
    comm_loss,      \* _comm_loss, up to LossMax
    ups,            \* UPSINFO: onbatt, commlost, fastpoll, shut_remote, BattChg
    prev,           \* PrevStatus: onbatt, shut_remote
    heeded,         \* REMOTEDOWN was handed to the shutdown code
    master,         \* what the master would answer now
    link,           \* "free", "good" from now on, "gone" for ever
    missed,         \* history: status passes in a row without a status from the master
    cut             \* history: a report has ended early without an error

driver  == <<got_caps, got_static_data, battlev, comm_err, comm_loss>>
core    == <<prev, heeded>>
outside == <<master, link>>
history == <<missed, cut>>
vars == <<pc, caller, filled, statbuf, since, driver, ups, core, outside, history>>

Empty == [got |-> Nothing, said |-> CHOOSE m \in Masters : TRUE]

Init ==
    /\ pc = "caps" /\ caller = "start" /\ filled = TRUE
    /\ statbuf = Empty /\ since = Fresh
    /\ got_caps = FALSE /\ got_static_data = FALSE /\ battlev = FALSE
    /\ comm_err = FALSE /\ comm_loss = 0
    /\ ups = [onbatt |-> FALSE, commlost |-> FALSE, fastpoll |-> FALSE,
              shut_remote |-> FALSE, BattChg |-> 0]
    /\ prev = [onbatt |-> FALSE, shut_remote |-> FALSE]
    /\ heeded = FALSE
    /\ master \in Masters /\ link = "free"
    /\ missed = 0 /\ cut = FALSE

-----------------------------------------------------------------------------
(* The master and the network *)

MasterChanges ==
    /\ link = "free"
    /\ master' \in Masters \ {master}
    /\ UNCHANGED <<pc, caller, filled, statbuf, since, driver, ups, core, link, history>>

\* From some time on the master answers every request in full, or none.
LinkSettles ==
    /\ link = "free"
    /\ link' \in {"good", "gone"}
    /\ UNCHANGED <<pc, caller, filled, statbuf, since, driver, ups, core, master, history>>

\* What may become of a request: its success, and how much has come.
Outcomes ==
    {o \in BOOLEAN \X (Nothing .. All) :
        /\ o # <<FALSE, All>>
        /\ link = "good" => o = <<TRUE, All>>
        /\ link = "gone" => o = <<FALSE, Nothing>>}

-----------------------------------------------------------------------------
(* poll_ups() and what is read from its buffer *)

\* (fault) the buffer of the last poll is not emptied first
FaultPoll(ok, got) ==
    /\ statbuf' = IF got = Nothing THEN statbuf ELSE [got |-> got, said |-> master]
    /\ ups' = [ups EXCEPT !.commlost = ~ ok]
    /\ cut' = (cut \/ (ok /\ got < All))
    /\ since' \in since .. Fresh

\* poll_ups(): it may take its time.
poll_ups(ok, got) ==
    /\ statbuf' = IF got = Nothing THEN Empty ELSE [got |-> got, said |-> master]
    /\ ups' = [ups EXCEPT !.commlost = ~ ok]
    /\ cut' = (cut \/ (ok /\ got < All))
    /\ since' \in since .. Fresh

\* Where the loop goes on once the driver returns.
After == IF caller = "fillUPS" THEN "act2" ELSE "act1"

\* get_ups_status_flag(): what it must know first, then the buffer if it is to
\* fill it, then the status.
StatusPass(caps, static) ==
    IF ~ caps THEN "flagcaps"
    ELSE IF ~ static THEN "flagstatic"
    ELSE IF caller = "check_state" THEN "fill" ELSE "flag"

\* (fault) the capabilities count as read although the poll failed
FaultCapabilities(goon) ==
    \E o \in Outcomes :
        /\ poll_ups(o[1], o[2])
        /\ got_caps' = TRUE
        /\ battlev' = (o[1] /\ o[2] >= Values)
        /\ pc' = goon[o[1]]
        /\ UNCHANGED <<caller, filled, got_static_data, comm_err, comm_loss,
                       core, outside, missed>>

\* get_capabilities(): from whatever a successful poll has left in the buffer.
get_capabilities(goon) ==
    \E o \in Outcomes :
        /\ poll_ups(o[1], o[2])
        /\ got_caps' = o[1]
        /\ battlev' = IF o[1] THEN o[2] >= Values ELSE battlev
        /\ pc' = goon[o[1]]
        /\ UNCHANGED <<caller, filled, got_static_data, comm_err, comm_loss,
                       core, outside, missed>>

\* read_static_data()
read_static_data(goon) ==
    \E o \in Outcomes :
        /\ poll_ups(o[1], o[2])
        /\ got_static_data' = o[1]
        /\ pc' = goon[o[1]]
        /\ UNCHANGED <<caller, filled, got_caps, battlev, comm_err, comm_loss,
                       core, outside, missed>>

\* At the start neither needs to succeed: open_ups() and prep_device() go on.
StartCaps   == pc = "caps"   /\ get_capabilities([b \in BOOLEAN |-> "static"])
StartStatic == pc = "static" /\ read_static_data([b \in BOOLEAN |-> "fill"])

-----------------------------------------------------------------------------
(* fill_status_buffer() *)

\* fill_status_buffer() returns ok: fillUPS() reads the values or gives up,
\* check_state() looks at the status in any case.
Filled(ok) == IF caller = "check_state" THEN "flag"
              ELSE IF ok THEN "values" ELSE After

FillFresh ==
    /\ pc = "fill" /\ since < Fresh
    /\ filled' = TRUE /\ pc' = Filled(TRUE)
    /\ UNCHANGED <<caller, statbuf, since, driver, ups, core, outside, history>>

\* (fault) a master that was never reached is not announced as lost
FaultFillFails ==
    /\ pc = "fill" /\ since = Fresh
    /\ \E o \in Outcomes : ~ o[1] /\ poll_ups(FALSE, o[2])
    /\ comm_err' = (comm_err \/ got_caps)
    /\ filled' = FALSE /\ pc' = Filled(FALSE)
    /\ UNCHANGED <<caller, got_caps, got_static_data, battlev, comm_loss, core, outside, missed>>

FillFails ==
    /\ pc = "fill" /\ since = Fresh
    /\ \E o \in Outcomes : ~ o[1] /\ poll_ups(FALSE, o[2])
    /\ comm_err' = TRUE
    /\ filled' = FALSE /\ pc' = Filled(FALSE)
    /\ UNCHANGED <<caller, got_caps, got_static_data, battlev, comm_loss, core, outside, missed>>

\* _last_fill_time is the time at which the poll began.
FillSucceeds ==
    /\ pc = "fill" /\ since = Fresh
    /\ \E o \in Outcomes :
          /\ o[1]
          /\ statbuf' = IF o[2] = Nothing THEN Empty ELSE [got |-> o[2], said |-> master]
          /\ cut' = (cut \/ o[2] < All)
    /\ ups' = [ups EXCEPT !.commlost = FALSE]
    /\ since' \in 0 .. Fresh
    /\ comm_err' = FALSE
    /\ filled' = TRUE
    /\ pc' = IF ~ got_caps THEN "fillcaps"
             ELSE IF ~ got_static_data THEN "fillstatic" ELSE Filled(TRUE)
    /\ UNCHANGED <<caller, got_caps, got_static_data, battlev, comm_loss, core, outside, missed>>

\* What fill_status_buffer() still wants to know; it has succeeded all the same.
FillCaps   == pc = "fillcaps"
              /\ get_capabilities([b \in BOOLEAN |-> IF b /\ ~ got_static_data
                                                     THEN "fillstatic" ELSE Filled(TRUE)])
FillStatic == pc = "fillstatic" /\ read_static_data([b \in BOOLEAN |-> Filled(TRUE)])

-----------------------------------------------------------------------------
(* read_volatile_data() and get_ups_status_flag() *)

ReadValues ==
    /\ pc = "values"
    /\ ups' = IF battlev /\ statbuf.got >= Values
              THEN [ups EXCEPT !.BattChg = statbuf.said.BattChg] ELSE ups
    /\ filled' = TRUE
    /\ pc' = StatusPass(got_caps, got_static_data)
    /\ UNCHANGED <<caller, statbuf, since, driver, core, outside, history>>

\* It gives up, for this pass, if it cannot learn what it must know.
FlagCaps   == pc = "flagcaps"
              /\ get_capabilities([b \in BOOLEAN |-> IF b THEN StatusPass(TRUE, got_static_data)
                                                     ELSE After])
FlagStatic == pc = "flagstatic"
              /\ read_static_data([b \in BOOLEAN |-> IF b THEN StatusPass(TRUE, TRUE) ELSE After])

\* The status of the master: its bits but for the local ones, two of which are
\* set and left to the core to clear; a master that shuts down takes us along.
Followed ==
    LET m == statbuf.said
    IN  IF statbuf.got < Flag THEN ups
        ELSE [ups EXCEPT !.onbatt = m.onbatt, !.shut_remote = m.shut_remote \/ m.shutdown,
                         !.commlost = @ \/ m.commlost, !.fastpoll = @ \/ m.fastpoll]

\* (fault) a pass that succeeds leaves the count of the lost ones
FaultCounted == IF ~ (filled /\ statbuf.got >= Flag) /\ Followed.onbatt
                THEN comm_loss + 1 ELSE comm_loss

\* _comm_loss after this pass, which is lost without a status on batteries.
Lost    == ~ (filled /\ statbuf.got >= Flag)
Counted == IF Lost /\ Followed.onbatt THEN comm_loss + 1 ELSE 0

\* The pass with which the driver stops waiting for the master.
GivesUp == Counted = CommLossLimit + 1

StatusFlag ==
    /\ pc = "flag"
    /\ ups' = IF GivesUp THEN [Followed EXCEPT !.shut_remote = TRUE] ELSE Followed
    /\ comm_loss' = Capped(Counted)
    /\ missed' = IF Lost THEN Capped(missed + 1) ELSE 0
    /\ pc' = After
    /\ UNCHANGED <<caller, filled, statbuf, since, got_caps, got_static_data, battlev,
                   comm_err, core, outside, cut>>

-----------------------------------------------------------------------------
(* The loop of do_device() *)

\* do_action(): REMOTEDOWN when shut_remote has risen since the last pass; on
\* mains the fast polling ends, with the first pass on batteries it begins.
do_action ==
    /\ heeded' = (heeded \/ (ups.shut_remote /\ ~ prev.shut_remote))
    /\ ups' = [ups EXCEPT !.fastpoll =
                 IF ups.shut_remote THEN @ \/ ~ prev.shut_remote
                 ELSE IF ups.onbatt # prev.onbatt THEN @ \/ ups.onbatt
                 ELSE @ /\ ups.onbatt]
    /\ prev' = [onbatt |-> ups.onbatt, shut_remote |-> ups.shut_remote]

FirstAction ==
    /\ pc = "act1" /\ do_action
    /\ pc' = "fill" /\ caller' = "fillUPS"
    /\ UNCHANGED <<filled, statbuf, since, driver, outside, history>>

SecondAction ==
    /\ pc = "act2" /\ do_action
    /\ pc' = "sleep" /\ caller' = "check_state"
    /\ UNCHANGED <<filled, statbuf, since, driver, outside, history>>

\* check_state(): one second, or longer when nobody asked for fast polling.
Sleep ==
    /\ pc = "sleep"
    /\ since' \in (since + 1) .. Fresh \cup {Fresh}
    /\ pc' = StatusPass(got_caps, got_static_data)
    /\ UNCHANGED <<caller, filled, statbuf, driver, ups, core, outside, history>>

Device ==
    \/ StartCaps \/ StartStatic
    \/ FillFresh \/ FillFails \/ FillSucceeds \/ FillCaps \/ FillStatic
    \/ ReadValues \/ FlagCaps \/ FlagStatic \/ StatusFlag
    \/ FirstAction \/ SecondAction \/ Sleep

Next == Device \/ MasterChanges \/ LinkSettles

\* The device thread is scheduled; every call on the network has a timeout.
Spec == Init /\ [][Next]_vars /\ WF_vars(Device)

-----------------------------------------------------------------------------
(* Properties *)

Buffers == [got : Nothing .. All, said : Masters]

\* Every variable has the values the code gives it, and a pass whose poll failed
\* finds no complete report in the buffer, of an earlier poll (net.c:201).
TypeOK ==
    /\ pc \in {"caps", "static", "fill", "fillcaps", "fillstatic", "values", "flagcaps",
               "flagstatic", "flag", "act1", "act2", "sleep"}
    /\ caller \in {"start", "fillUPS", "check_state"}
    /\ filled \in BOOLEAN
    /\ statbuf \in Buffers
    /\ since \in 0 .. Fresh
    /\ {got_caps, got_static_data, battlev, comm_err, heeded, cut} \subseteq BOOLEAN
    /\ {comm_loss, missed} \subseteq 0 .. LossMax
    /\ ups \in [onbatt : BOOLEAN, commlost : BOOLEAN, fastpoll : BOOLEAN,
                shut_remote : BOOLEAN, BattChg : Nat]
    /\ prev \in [onbatt : BOOLEAN, shut_remote : BOOLEAN]
    /\ master \in Masters /\ link \in {"free", "good", "gone"}
    /\ pc = "flag" /\ ~ filled => statbuf.got < All

\* The charge is read for good or not at all: the driver believes that the master
\* does not know it only if a report ended early (net.c:422).
CapsComplete == got_caps /\ ~ battlev => cut

\* The driver does not order the shutdown without cause: its master is shutting
\* down, or that many passes in a row brought no status while on batteries.
RemoteOnlyForCause ==
    [][ups'.shut_remote /\ ~ ups.shut_remote
         => \/ statbuf.got >= Flag /\ (statbuf.said.shutdown \/ statbuf.said.shut_remote)
            \/ ups'.onbatt /\ missed' > CommLossLimit]_vars

\* An order to shut down that the driver takes back, because the master says
\* otherwise now, has been seen by do_action() and is under way.
HeededBeforeCleared ==
    [][ups.shut_remote /\ ~ ups'.shut_remote => heeded]_vars

\* Both of it: the order to shut down comes and goes for cause.
RemoteJustified == RemoteOnlyForCause /\ HeededBeforeCleared

\* Once the master answers every request, what the core works with is what the
\* master says: line, charge, loss of the UPS; its shutdown is followed, its fast
\* polling ends with it, and the loss of communication is over.
Agrees == /\ ups.onbatt = master.onbatt
          /\ battlev => ups.BattChg = master.BattChg
          /\ ups.commlost = master.commlost
          /\ master.shutdown => heeded
          /\ ~ (master.onbatt \/ master.fastpoll \/ ups.shut_remote) => ~ ups.fastpoll
          /\ ~ comm_err
StatusFollows == <>[](link = "good") => <>[](pc = "sleep" => Agrees)

\* A slave that is left on batteries when its master goes away for good shuts down,
\* and the loss of communication is announced in any case.
LostOnBattery == <>[](link = "gone" /\ ups.onbatt) => <>heeded
LossAnnounced == <>[](link = "gone") => <>[]comm_err

\* The master is followed while it answers, and its loss when it does not.
MasterFollowed == StatusFollows /\ LostOnBattery /\ LossAnnounced
=============================================================================
