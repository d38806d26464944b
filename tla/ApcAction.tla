------------------------------ MODULE ApcAction ------------------------------
(***************************************************************************)
(* The core of the daemon: the loop of do_device() (device.c) and the      *)
(* handler it runs twice per iteration, do_action() (action.c), with       *)
(* generate_event(), do_shutdown() and initiate_hibernate().               *)
(*                                                                         *)
(* The UPS driver is external to this module: a read installs any of the   *)
(* Reports, or leaves the status as it was when the read fails.  do_action *)
(* () calls the driver too, and what the driver hears then it writes into  *)
(* the status in the middle of the pass: During.                           *)
(*                                                                         *)
(* A pass is one step, but for the one that brings the system down: what   *)
(* do_shutdown() does is four, and the process may end between them.       *)
(*                                                                         *)
(* A time_t field of UPSINFO is modelled by its age, now minus the field,  *)
(* saturated at Horizon[t].  Saturation loses nothing when the horizon is  *)
(* not below the largest age the code compares the field with, which       *)
(* HorizonAssumption states.  Never is the age of a field that holds 0     *)
(* where the code tests for 0.                                             *)
(*                                                                         *)
(* Operators named Fault... are wrong on purpose: each replaces the        *)
(* definition that follows it when a property is checked for noticing the  *)
(* fault.  No specification uses them.                                     *)
(***************************************************************************)
EXTENDS Integers

CONSTANTS
    onbattdelay, maxtime, killdelay,   \* directives of apcctrl.conf, seconds
    annoy, annoydelay, nologin_time,   \*   "
    percent, runtime, polltime,        \*   "
    nologin,              \* NOLOGON: "NEVER", "TIMEOUT", "PERCENT", "MINUTES", "ALWAYS"
    Options,              \* switches in effect, a subset of Switches
    UPS_Cap,              \* capabilities: a subset of {"BATTLEV", "RUNTIM"}
    Debounce,             \* 5 s: a shutdown condition must hold this long
    SelfTestMax,          \* 40 s: the longest self test
    ChangeQuiet,          \* 10 min: no CHANGEME this soon after the start
    ChangeEvery,          \* 9 h: between two CHANGEME events
    CommGrace,            \* 60 s: no COMMFAILURE this soon after the start
    OpenRetry,            \* 5 s: between two attempts to open the UPS
    TIMER_FAST,           \* 1 s: poll interval on batteries
    FillMax,              \* bound on the time one read of the UPS takes
    Reports,              \* what the driver may read from the UPS
    During,               \* ... and in the middle of a pass, by the call made
    SelfTestAnswers,      \* answers to CHECK_SELFTEST the driver may give
    DiskMayFail,          \* whether creating powerfail and nologin may fail
    Horizon               \* bound on the age of each timer

DriverBits == {"onbatt", "online", "battlow", "calibration", "battpresent",
               "replacebatt", "shut_remote", "commlost"}
LocalBits  == {"onbatt_msg", "shutdown", "fastpoll", "shut_load", "shut_ltime",
               "shut_btime", "shut_emerg"}
Bits       == DriverBits \cup LocalBits
Switches   == {"slave", "kill_on_powerfail", "terminate_on_powerfail",
               "dumb",      \* a simple signaling UPS
               "pcnet",     \* the driver's Close() takes the lock of UPSINFO
               "no_auth"}   \* ... and its kill_power() lacks the user and password
Calls      == {"check", "message", "kill"}   \* CHECK_SELFTEST, GET_SELFTEST_MSG, kill_power()
Timers     == {"start", "comm", "changeme", "on_line", "nologon", "annoy", "onbatt",
               "SelfTest", "ShutDown", "lbatt", "load", "ltime"}
Never      == -1
Report     == [bits : SUBSET DriverBits, BattChg : Nat, TimeLeft : Nat]
Files      == {"powerfail", "nologin", "lock"}
OutageEvents == {"POWEROUT", "STARTSELFTEST", "ONBATTERY"}
AllClear   == {"MAINSBACK", "ENDSELFTEST"}

ASSUME DirectiveAssumption ==
    /\ {onbattdelay, maxtime, killdelay, annoy, annoydelay, nologin_time,
        percent, runtime, FillMax} \subseteq Nat
    /\ {Debounce, SelfTestMax, TIMER_FAST, polltime} \subseteq Nat \ {0}
    /\ {ChangeQuiet, ChangeEvery, CommGrace, OpenRetry} \subseteq Nat
    /\ nologin \in {"NEVER", "TIMEOUT", "PERCENT", "MINUTES", "ALWAYS"}
    /\ DiskMayFail \in BOOLEAN
    /\ UPS_Cap \subseteq {"BATTLEV", "RUNTIM"}

\* apcctrl.c drops --kill-on-powerfail for a simple signaling UPS.
ASSUME OptionAssumption ==
    /\ Options \subseteq Switches
    /\ ~ ({"dumb", "kill_on_powerfail"} \subseteq Options)
    /\ "no_auth" \in Options => "pcnet" \in Options

ASSUME ReportAssumption ==
    /\ Reports \subseteq Report /\ Reports # {}
    /\ During \in [Calls -> SUBSET Report]
    /\ SelfTestAnswers \subseteq BOOLEAN /\ SelfTestAnswers # {}

ASSUME HorizonAssumption ==
    /\ Horizon \in [Timers -> Nat]
    /\ Horizon["changeme"] > ChangeEvery
    /\ Horizon["start"] >= ChangeQuiet /\ Horizon["start"] >= CommGrace
    /\ \A s \in {onbattdelay, maxtime + 1, annoydelay + 1} : Horizon["on_line"] >= s
    /\ nologin = "TIMEOUT" => Horizon["nologon"] > nologin_time
    /\ Horizon["annoy"] > annoy
    /\ Horizon["SelfTest"] >= SelfTestMax
    /\ Horizon["ShutDown"] >= killdelay
    /\ \A t \in {"lbatt", "load", "ltime"} : Horizon[t] >= Debounce

VARIABLES
    pc,                   \* where the loop stands
    Status, PrevStatus,   \* status bits now and at the end of the last pass
    BattChg, TimeLeft,    \* charge and runtime as last read
    age,                  \* age of every time stamp
    nologin_file,         \* UPSINFO.nologin_file: logins prohibited by us
    ChangeBattCounter,    \* CHANGEME events since the flag was last cleared
    cum_time_on_batt,     \* seconds on batteries, saturated like an age
    files,                \* which of the marker files exist
    sigterm,              \* a SIGTERM to ourselves is pending
    out,                  \* power events given to apccontrol by the last step, in order,
                          \*   and KILLPOWER where the UPS is told to cut its power
    notices,              \* other events given to apccontrol by the last step
    told                  \* history: outage events since the last all-clear

reads    == <<BattChg, TimeLeft>>
vars == <<pc, Status, PrevStatus, BattChg, TimeLeft, age, nologin_file,
          ChangeBattCounter, cum_time_on_batt, files, sigterm, out, notices, told>>

Least(a, b) == IF a < b THEN a ELSE b
Given(cond, S) == IF cond THEN S ELSE {}
Running == pc \notin {"dead", "stuck"}

Is(b)  == b \in Status
Chg(b) == Is(b) # (b \in PrevStatus)

\* Events handed to apccontrol: power events in order, notices as a set.
Announce(evs, news) ==
    /\ out' = evs
    /\ notices' = news
    /\ told' = LET said == {evs[i] : i \in DOMAIN evs}
               IN  IF said \cap AllClear # {} THEN {}
                   ELSE told \cup (said \cap OutageEvents)

-----------------------------------------------------------------------------
(* The passage of time *)

Elapsed(d) == [t \in Timers |-> IF age[t] = Never THEN Never
                                ELSE Least(age[t] + d, Horizon[t])]

\* (fault) the fast-poll flag is not looked at
FaultWaitTime == IF Is("commlost") THEN 5 * TIMER_FAST ELSE polltime

\* device_wait_time(): how long device_check_state() may sleep.
device_wait_time ==
    IF Is("fastpoll") \/ ~Is("battpresent") THEN TIMER_FAST
    ELSE IF Is("commlost") THEN 5 * TIMER_FAST
    ELSE polltime
\* (fault) the driver overwrites the whole status word, local bits included
FaultInstall(rs, s) ==
    \/ \E r \in rs : Status' = r.bits /\ BattChg' = r.BattChg /\ TimeLeft' = r.TimeLeft
    \/ Status' = s /\ UNCHANGED reads

\* The driver writes one of the reports rs over the status s, or finds nothing.
Install(rs, s) ==
    \/ \E r \in rs :
          /\ Status' = (s \ DriverBits) \cup r.bits
          /\ BattChg' = r.BattChg
          /\ TimeLeft' = r.TimeLeft
    \/ Status' = s /\ UNCHANGED reads

\* One read of the UPS.  A failed read leaves what the last one found.
Read == Install(Reports, Status)

-----------------------------------------------------------------------------
(* The parts of do_action() every pass goes through *)

\* (fault) the master's shutdown is looked at on mains only
FaultRemote == Is("shut_remote") /\ Is("online")

Remote == Is("shut_remote")

\* The UPS_replacebatt block: the flag is hushed, or CHANGEME is issued.
Hushed    == Is("replacebatt") /\ (age["start"] < ChangeQuiet \/ ChangeBattCounter > 5)
ChangeDue == Is("replacebatt") /\ ~Hushed /\ age["changeme"] > ChangeEvery

\* (fault) the flag is hushed, and the count goes on
FaultCountChangeme ==
    ChangeBattCounter' = IF Hushed \/ ChangeDue THEN ChangeBattCounter + 1
                         ELSE ChangeBattCounter

CountChangeme ==
    ChangeBattCounter' = IF Hushed THEN 0
                         ELSE IF ChangeDue THEN ChangeBattCounter + 1
                         ELSE ChangeBattCounter

\* Notices of the common part: CHANGEME, BATTATTACH and BATTDETACH.
Notices ==
    Given(ChangeDue, {"CHANGEME"})
    \cup Given(~Remote /\ Chg("battpresent"),
               {IF Is("battpresent") THEN "BATTATTACH" ELSE "BATTDETACH"})

\* (fault) the timer starts again at every pass
FaultBattLowRises == ~Remote /\ Is("battlow")

\* A rising UPS_battlow starts the battery-low timer, whatever the state.
BattLowRises == ~Remote /\ Chg("battlow") /\ Is("battlow")

Stamp(ts) ==
    LET now == ts \cup Given(ChangeDue, {"changeme"}) \cup Given(BattLowRises, {"lbatt"})
    IN  [t \in Timers |-> IF t \in now THEN 0 ELSE age[t]]

\* Age of start_shut_lbatt once the common part has run.
LowAge == IF BattLowRises THEN 0 ELSE age["lbatt"]

\* The status once the common part has run.
Settled == Status \ Given(Hushed, {"replacebatt"})

\* (fault) runs apccontrol first and leaves the powerfail file afterwards
FaultOnward ==
    [act1 |-> "order1", order1 |-> "make1", make1 |-> "prohibit1", prohibit1 |-> "fill",
     act2 |-> "order2", order2 |-> "make2", make2 |-> "prohibit2", prohibit2 |-> "check"]

\* Where do_shutdown() goes on, in the first pass of an iteration and in the second.
Onward ==
    [act1 |-> "make1", make1 |-> "prohibit1", prohibit1 |-> "order1", order1 |-> "fill",
     act2 |-> "make2", make2 |-> "prohibit2", prohibit2 |-> "order2", order2 |-> "check"]
Halting   == {"make1", "make2", "prohibit1", "prohibit2", "order1", "order2"}
Following == IF pc = "act1" THEN "fill" ELSE "check"

\* The end of a pass, but for the status; PrevStatus remembers it.
Remember(evs, news) ==
    /\ Announce(evs, news \cup Notices)
    /\ CountChangeme
    /\ PrevStatus' = Status'

\* ... in which local bits add are set and del cleared.
EndPass(evs, news, add, del) ==
    Status' = (Settled \ del) \cup add /\ Remember(evs, news)

-----------------------------------------------------------------------------
(* Shutdown *)

KillsNow == "kill_on_powerfail" \in Options /\ "slave" \notin Options

DiskOutcomes == {TRUE} \cup Given(DiskMayFail, {FALSE})

\* prohibit_logins(): done once; logonfail() unlinks the file and makes it again.
WithNologin(fs, made) ==
    IF nologin_file THEN fs ELSE (fs \ {"nologin"}) \cup Given(made, {"nologin"})

\* generate_event(e) for an event that brings the system down, when no
\* shutdown is under way: e is announced, do_shutdown() sets its bits and drops
\* the lock file.  The rest of the pass is MakeFile, Prohibit and Order.
Halt(e, add, del, stamps) ==
    /\ Announce(<<e>>, Notices)
    /\ CountChangeme
    /\ Status' = (Settled \ del) \cup add \cup {"shutdown", "fastpoll"}
    /\ age' = Stamp(stamps \cup {"ShutDown"})
    /\ files' = files \ {"lock"}
    /\ pc' = Onward[pc]
    /\ UNCHANGED <<PrevStatus, reads, nologin_file, cum_time_on_batt, sigterm>>

\* make_file(): the powerfail file, for the halt script.
MakeFile ==
    /\ pc \in {"make1", "make2"}
    /\ \E made \in DiskOutcomes : files' = files \cup Given(made, {"powerfail"})
    /\ pc' = Onward[pc]
    /\ Announce(<<>>, {})
    /\ UNCHANGED <<Status, PrevStatus, reads, age, nologin_file, ChangeBattCounter,
                   cum_time_on_batt, sigterm>>

\* initiate_hibernate() aborts the daemon when the powerfail file is missing, and
\* so does pcnet's kill_power() without user and password.
Refuses(fs) == "powerfail" \notin fs \/ "no_auth" \in Options

\* Error_abort() in the middle of a pass ends the process; but pcnet's Close() waits
\* for the lock that this very thread is holding.  The lock file is gone already.
Aborted == IF "pcnet" \in Options THEN "stuck" ELSE "dead"

\* prohibit_logins() and, with --kill-on-powerfail, initiate_hibernate().
Prohibit ==
    /\ pc \in {"prohibit1", "prohibit2"}
    /\ \E made \in DiskOutcomes : files' = WithNologin(files, made)
    /\ nologin_file' = TRUE
    /\ LET aborts == KillsNow /\ Refuses(files')
           kills  == KillsNow /\ ~aborts
       IN  /\ Announce(IF kills THEN <<"KILLPOWER">> ELSE <<>>, {})
           /\ Install(IF kills THEN During["kill"] ELSE {}, Status)
           /\ pc' = IF aborts THEN Aborted ELSE Onward[pc]
    /\ UNCHANGED <<PrevStatus, age, ChangeBattCounter, cum_time_on_batt, sigterm>>

\* Users are asked to log off once logins are prohibited.
Annoys == age["on_line"] > annoydelay /\ age["annoy"] > annoy /\ nologin_file

\* doshutdown is run, and the pass ends; one that began with EMERGENCY asks the
\* users to log off on its way.
Order ==
    /\ pc \in {"order1", "order2"}
    /\ LET asks == Is("shut_emerg") /\ Annoys
       IN  /\ Announce(<<"DOSHUTDOWN">>, Given(asks, {"ANNOYME"}))
           /\ age' = IF asks THEN [age EXCEPT !["annoy"] = 0] ELSE age
    /\ PrevStatus' = Status
    /\ sigterm' = (sigterm \/ "terminate_on_powerfail" \in Options)
    /\ pc' = Onward[pc]
    /\ UNCHANGED <<Status, reads, nologin_file, ChangeBattCounter, cum_time_on_batt, files>>

-----------------------------------------------------------------------------
(* do_action(), one disjunct per way through it *)

\* (fault) an outage that ended before it was confirmed is taken for plain mains
FaultState ==
    IF Is("onbatt")
    THEN IF Is("calibration") THEN "Calibration"
         ELSE IF Chg("onbatt") THEN "PowerFailure"
         ELSE IF age["SelfTest"] # Never THEN "SelfTest"
         ELSE "OnBattery"
    ELSE IF Chg("onbatt") /\ Is("onbatt_msg") THEN "MainsBack" ELSE "OnMains"

get_state ==
    IF Is("onbatt")
    THEN IF Is("calibration") THEN "Calibration"
         ELSE IF Chg("onbatt") THEN "PowerFailure"
         ELSE IF age["SelfTest"] # Never THEN "SelfTest"
         ELSE "OnBattery"
    ELSE IF Chg("onbatt") THEN "MainsBack" ELSE "OnMains"

At(state) == pc \in {"act1", "act2"} /\ ~Remote /\ get_state = state

\* The other conjuncts of a pass that changes no file and ends normally.
Ordinary == pc' = Following /\ UNCHANGED <<reads, files, nologin_file, cum_time_on_batt, sigterm>>

\* UPS_shut_remote: the master goes down, so must we; nothing else is looked at.
RemoteBegins ==
    /\ pc \in {"act1", "act2"} /\ Remote /\ Chg("shut_remote") /\ ~Is("shutdown")
    /\ Halt("REMOTEDOWN", {}, {}, {})

RemoteStays ==
    /\ pc \in {"act1", "act2"} /\ Remote /\ (Chg("shut_remote") => Is("shutdown"))
    /\ EndPass(IF Chg("shut_remote") THEN <<"REMOTEDOWN">> ELSE <<>>, {}, {}, {})
    /\ age' = Stamp({})
    /\ Ordinary

OnMains ==
    /\ At("OnMains")
    /\ EndPass(<<>>, {}, {}, {"fastpoll"})
    /\ age' = Stamp({"nologon", "annoy", "on_line"})
    /\ Ordinary

FailureStamps == {"nologon", "annoy", "on_line", "onbatt"}

\* First indication of a power problem; the driver is asked whether it is a
\* self test, and may hear news while it asks.
PowerFailure ==
    /\ At("PowerFailure")
    /\ Install(During["check"], Settled \cup {"fastpoll"})
    /\ \E test \in SelfTestAnswers :
          LET testing == test \/ age["SelfTest"] # Never
          IN  /\ Remember(<<IF testing THEN "STARTSELFTEST" ELSE "POWEROUT">>, {})
              /\ age' = Stamp(FailureStamps \cup Given(test, {"SelfTest"}))
    /\ pc' = Following
    /\ UNCHANGED <<files, nologin_file, cum_time_on_batt, sigterm>>

\* A self test may last SelfTestMax; a longer one, or a low battery, cancels it.
SelfTest ==
    /\ At("SelfTest")
    /\ EndPass(<<>>, {}, {}, {})
    /\ age' = IF age["SelfTest"] < SelfTestMax /\ ~Is("battlow") THEN Stamp({})
              ELSE [Stamp({}) EXCEPT !["SelfTest"] = Never]
    /\ Ordinary

\* (fault) the comparison with ONBATTERYDELAY is the wrong way round
FaultConfirmable == ~Is("onbatt_msg") /\ age["on_line"] < onbattdelay

Confirmable == ~Is("onbatt_msg") /\ age["on_line"] >= onbattdelay

\* The second test verified the failure: ONBATTERY, and the timers start again.
ConfirmOnBattery ==
    /\ At("OnBattery") /\ Confirmable
    /\ EndPass(<<"ONBATTERY">>, {}, {"onbatt_msg"}, {})
    /\ age' = Stamp({"nologon", "annoy", "on_line"})
    /\ Ordinary

\* (fault) KILLDELAY is tested for being set only
FaultKillDue == killdelay > 0

\* Shutdown requested but still running: KILLDELAY.
KillDue == killdelay > 0 /\ age["ShutDown"] >= killdelay
AwaitEnd == At("OnBattery") /\ ~Confirmable /\ Is("shutdown")

AwaitPowerOff ==
    /\ AwaitEnd /\ (~KillDue \/ "slave" \in Options)
    /\ EndPass(<<>>, {}, {}, {})
    /\ age' = Stamp(Given(KillDue, {"ShutDown"}))
    /\ Ordinary

KillPower ==
    /\ AwaitEnd /\ KillDue /\ Options \cap {"slave", "dumb"} = {}
    /\ ~Refuses(files)
    /\ Install(During["kill"], Settled)
    /\ Remember(<<"KILLPOWER">>, {})
    /\ age' = Stamp({"ShutDown"})
    /\ pc' = Following
    /\ UNCHANGED <<files, nologin_file, cum_time_on_batt, sigterm>>

\* initiate_hibernate() does not come back when it refuses; nor for a dumb UPS, which
\* it reads again first: that read locks the mutex do_action() is holding.
KillPowerFails ==
    /\ AwaitEnd /\ KillDue /\ "slave" \notin Options
    /\ "dumb" \in Options \/ Refuses(files)
    /\ pc' = IF "dumb" \in Options THEN "stuck" ELSE Aborted
    /\ Announce(<<>>, {})
    /\ UNCHANGED <<Status, PrevStatus, reads, age, nologin_file, ChangeBattCounter,
                   cum_time_on_batt, files, sigterm>>

\* Not shut down yet: TIMEOUT, counted from the ONBATTERY event.
Undecided == At("OnBattery") /\ ~Confirmable /\ ~Is("shutdown")
TimedOut  == maxtime > 0 /\ age["on_line"] > maxtime

TimeLimit ==
    /\ Undecided /\ TimedOut
    /\ Halt("TIMEOUT", {"shut_btime"}, {}, {})

\* Charge and runtime limits set or clear their bit; setting it starts a timer.
LoadLow == "BATTLEV" \in UPS_Cap /\ BattChg <= percent
TimeLow == "RUNTIM" \in UPS_Cap /\ TimeLeft <= runtime
LimitAdd == Given(LoadLow, {"shut_load"}) \cup Given(TimeLow, {"shut_ltime"})
LimitDel == {"shut_load", "shut_ltime"} \ LimitAdd
LimitStamps == Given(LoadLow /\ ~Is("shut_load"), {"load"})
               \cup Given(TimeLow /\ ~Is("shut_ltime"), {"ltime"})

\* Which of the debounced conditions, tested in this order, has expired.
Expired(t) == t \notin LimitStamps /\ age[t] >= Debounce
Verdict == IF Is("battlow") /\ LowAge >= Debounce THEN "FAILING"
           ELSE IF LoadLow /\ Expired("load") THEN "LOADLIMIT"
           ELSE IF TimeLow /\ Expired("ltime") THEN "RUNLIMIT"
           ELSE "none"

BatteryLimit ==
    /\ Undecided /\ ~TimedOut /\ Verdict # "none"
    /\ Halt(Verdict, LimitAdd, LimitDel, LimitStamps)

ProhibitsLogins ==
    CASE nologin = "NEVER"   -> FALSE
      [] nologin = "TIMEOUT" -> age["nologon"] > nologin_time
      [] nologin = "PERCENT" -> "BATTLEV" \in UPS_Cap /\ nologin_time >= BattChg
      [] nologin = "MINUTES" -> "RUNTIM" \in UPS_Cap /\ nologin_time >= TimeLeft
      [] OTHER               -> TRUE

\* Battery low with the line good: the battery is dead.
Emergency ==
    /\ Undecided /\ ~TimedOut /\ Verdict = "none" /\ Is("battlow") /\ Is("online")
    /\ Halt("EMERGENCY", LimitAdd \cup {"shut_emerg"}, LimitDel, LimitStamps)

KeepWaiting ==
    /\ Undecided /\ ~TimedOut /\ Verdict = "none" /\ ~(Is("battlow") /\ Is("online"))
    /\ EndPass(<<>>, Given(Annoys, {"ANNOYME"}), LimitAdd, LimitDel)
    /\ age' = Stamp(LimitStamps \cup Given(Annoys, {"annoy"}))
    /\ nologin_file' = (nologin_file \/ ProhibitsLogins)
    /\ \E made \in DiskOutcomes :
          files' = IF ProhibitsLogins THEN WithNologin(files, made) ELSE files
    /\ pc' = Following
    /\ UNCHANGED <<reads, cum_time_on_batt, sigterm>>

\* (fault) the confirmed-outage flag survives the outage
FaultAfterOutage == Settled

AfterOutage == Settled \ {"onbatt_msg"}

\* The events that close an outage or a self test.
Closing(tested) ==
    LET last == IF tested THEN "ENDSELFTEST" ELSE "MAINSBACK"
    IN  IF Is("onbatt_msg") THEN <<"OFFBATTERY", last>> ELSE <<last>>

\* Power is back after a failure or a self test; the driver may hear news while it
\* fetches the result of the test.
MainsBack ==
    /\ At("MainsBack")
    /\ LET tested == age["SelfTest"] # Never
           start  == IF age["onbatt"] = Never THEN 0 ELSE age["onbatt"]
       IN  /\ Install(IF tested THEN During["message"] ELSE {}, AfterOutage)
           /\ Remember(Closing(tested), {})
           /\ cum_time_on_batt' = Least(cum_time_on_batt + start, Horizon["start"])
           /\ age' = [Stamp(Given(age["onbatt"] = Never, {"onbatt"}))
                         EXCEPT !["SelfTest"] = Never]
    /\ nologin_file' = FALSE
    /\ files' = files \ {"nologin"}
    /\ pc' = Following
    /\ UNCHANGED sigterm

\* During a calibration battery level, runtime and time on batteries are ignored.
Calibration ==
    /\ At("Calibration")
    /\ EndPass(<<>>, {}, {}, {})
    /\ age' = Stamp({})
    /\ Ordinary

do_action ==
    \/ RemoteBegins \/ RemoteStays
    \/ OnMains \/ PowerFailure \/ SelfTest \/ ConfirmOnBattery
    \/ AwaitPowerOff \/ KillPower \/ KillPowerFails
    \/ TimeLimit \/ BatteryLimit \/ Emergency \/ KeepWaiting
    \/ MainsBack \/ Calibration
    \/ MakeFile \/ Prohibit \/ Order

-----------------------------------------------------------------------------
(* do_device() *)

Quiet == UNCHANGED <<PrevStatus, nologin_file, ChangeBattCounter, cum_time_on_batt,
                     files, sigterm>>

\* open_ups(): an attempt fails.  COMMFAILURE is issued once, after a grace time.
OpenFails ==
    LET warn == age["start"] >= CommGrace /\ age["comm"] = Never
    IN  /\ pc = "open"
        /\ Status' = Status \cup {"commlost"}
        /\ Announce(<<>>, Given(warn, {"COMMFAILURE"}))
        /\ age' = [Elapsed(OpenRetry) EXCEPT !["comm"] = IF warn THEN 0 ELSE @]
        /\ UNCHANGED <<pc, reads>> /\ Quiet

OpenSucceeds ==
    /\ pc = "open"
    /\ pc' = "start"
    /\ Status' = Status \ {"commlost"}
    /\ Announce(<<>>, Given(Is("commlost") /\ age["comm"] # Never, {"COMMOK"}))
    /\ UNCHANGED <<age, reads>> /\ Quiet

\* The first read.  The first do_action() that follows it sets three timers to
\* its own now before anything reads them: here.
FirstFill ==
    /\ pc = "start"
    /\ pc' = "act1"
    /\ Read
    /\ \E d \in 0..FillMax :
          age' = [t \in Timers |-> IF t \in {"nologon", "annoy", "on_line"} THEN 0
                                   ELSE Elapsed(d)[t]]
    /\ Announce(<<>>, {}) /\ Quiet

fillUPS ==
    /\ pc = "fill"
    /\ pc' = "act2"
    /\ Read
    /\ \E d \in 0..FillMax : age' = Elapsed(d)
    /\ Announce(<<>>, {}) /\ Quiet

\* device_check_state(): sleeps, at most the wait time, and may read the UPS.
Sleep(d) ==
    /\ pc = "check"
    /\ pc' = "act1"
    /\ Read
    /\ age' = Elapsed(d)
    /\ Announce(<<>>, {}) /\ Quiet

CheckState == \E d \in 0..device_wait_time : Sleep(d)

do_device == OpenFails \/ OpenSucceeds \/ FirstFill \/ fillUPS \/ CheckState \/ do_action

-----------------------------------------------------------------------------
(* The life of the process *)

\* apcctrl_terminate() runs in the signal thread, whatever the loop is doing; but
\* pcnet's Close() waits for the lock of UPSINFO, until the pass has ended, and for
\* ever when the loop is stuck with it.
apcctrl_terminate ==
    /\ pc # "dead"
    /\ "pcnet" \in Options => pc \notin Halting \cup {"stuck"}
    /\ pc' = "dead"
    /\ files' = files \ {"lock"}
    /\ sigterm' = FALSE
    /\ Announce(<<>>, {})
    /\ UNCHANGED <<Status, PrevStatus, reads, age, nologin_file, ChangeBattCounter,
                   cum_time_on_batt>>

\* The process is killed or the power goes: no clean-up.
Crash ==
    /\ pc # "dead"
    /\ pc' = "dead"
    /\ sigterm' = FALSE
    /\ Announce(<<>>, {})
    /\ UNCHANGED <<Status, PrevStatus, reads, age, nologin_file, ChangeBattCounter,
                   cum_time_on_batt, files>>

\* State of a process that starts: UPSINFO zeroed but for the battery, which most
\* drivers do not report, PrevStatus as the first do_action() sets it, no time
\* stamp but start_time.
Fresh ==
    [pc |-> "open", Status |-> {"battpresent"}, PrevStatus |-> {"battpresent"},
     BattChg |-> 0, TimeLeft |-> 0,
     age |-> [t \in Timers |-> CASE t = "start" -> 0
                                 [] t \in {"SelfTest", "comm", "onbatt"} -> Never
                                 [] OTHER -> Horizon[t]]]

\* The daemon is started again; the platform's start script may remove the
\* powerfail and nologin files of the last life.
Restart ==
    /\ pc = "dead"
    /\ pc' = Fresh.pc /\ Status' = Fresh.Status /\ PrevStatus' = Fresh.PrevStatus
    /\ BattChg' = Fresh.BattChg /\ TimeLeft' = Fresh.TimeLeft /\ age' = Fresh.age
    /\ nologin_file' = FALSE
    /\ ChangeBattCounter' = 0 /\ cum_time_on_batt' = 0
    /\ \E kept \in SUBSET {"powerfail", "nologin"} : files' = (files \cap kept) \cup {"lock"}
    /\ sigterm' = FALSE
    /\ out' = <<>> /\ notices' = {} /\ told' = {}

Init ==
    /\ pc = Fresh.pc /\ Status = Fresh.Status /\ PrevStatus = Fresh.PrevStatus
    /\ BattChg = Fresh.BattChg /\ TimeLeft = Fresh.TimeLeft /\ age = Fresh.age
    /\ nologin_file = FALSE
    /\ ChangeBattCounter = 0 /\ cum_time_on_batt = 0
    /\ files = {"lock"}
    /\ sigterm = FALSE
    /\ out = <<>> /\ notices = {} /\ told = {}

Next == do_device \/ apcctrl_terminate \/ Crash \/ Restart

Spec == Init /\ [][Next]_vars

\* The loop of the daemon is an ordinary thread: when it can go on, it does,
\* and its sleep is not cut short every time.  Nothing obliges the UPS to
\* answer, or anybody to stop or start the daemon.
FairSpec ==
    /\ Spec
    /\ WF_vars(do_device)
    /\ SF_vars(\E d \in 1..device_wait_time : Sleep(d))
-----------------------------------------------------------------------------
(* Properties *)

\* The values every variable may take.
TypeOK ==
    /\ pc \in {"open", "start", "act1", "fill", "act2", "check", "dead", "stuck"} \cup Halting
    /\ Status \subseteq Bits /\ PrevStatus \subseteq Bits
    /\ BattChg \in Nat /\ TimeLeft \in Nat
    /\ age \in [Timers -> Int] /\ \A t \in Timers : age[t] \in Never .. Horizon[t]
    /\ nologin_file \in BOOLEAN
    /\ ChangeBattCounter \in 0 .. 6
    /\ cum_time_on_batt \in 0 .. Horizon["start"]
    /\ files \subseteq Files
    /\ sigterm \in BOOLEAN
    /\ told \subseteq OutageEvents

Says(e) == \E i \in DOMAIN out : out[i] = e
PassEnded == pc \in {"fill", "check"}
Outage == "onbatt" \in PrevStatus
Ordered == "shutdown" \in PrevStatus

\* The events of action.c, seen by apccontrol, follow the outage protocol of
\* PowerEvents.  For a UPS that reports neither self tests, calibrations nor
\* a shutdown of the master.
Protocol == INSTANCE PowerEvents
    WITH begun <- Is("shutdown"), ordered <- Ordered, said <- out
OutageProtocol == Protocol!Spec

\* "offbattery: generated when the mains return only if the onbattery event has
\* been generated" (manual): for every UPS.
OffbatteryPaired == [][Says("OFFBATTERY")' => "ONBATTERY" \in told]_vars

\* From the first pass that sees an outage to the first that does not, the UPS
\* is polled fast: device_wait_time() depends on set_fastpoll/clear_fastpoll.
FastWhileOnBattery == Running /\ Outage => Is("fastpoll")

\* Longest time between two passes while the UPS is polled fast.
Gap == IF FillMax > TIMER_FAST THEN FillMax ELSE TIMER_FAST

\* Age of an outage at the last pass that still waits for ONBATTERYDELAY, or that gives
\* up taking it for a self test, and at the pass that issues ONBATTERY.
MayTest == TRUE \in SelfTestAnswers
Delay  == IF onbattdelay = 0 THEN 0 ELSE onbattdelay - 1
Tested == IF MayTest THEN SelfTestMax - 1 + Gap ELSE 0
Lag    == IF Tested > Delay THEN Tested ELSE Delay
ConfirmedBy == Lag + Gap

\* With a TIMEOUT configured, no pass leaves the system up longer after the
\* outage was detected than the delays of do_action() and one poll add up to.
TimeoutBounded ==
    PassEnded /\ Outage /\ maxtime > 0 /\ ~Is("shutdown")
        => age["onbatt"] <= ConfirmedBy + maxtime

\* What OnBatteryAnnounced promises for some time, said of a time: no pass leaves an
\* outage unannounced that is older than ONBATTERYDELAY or a self test explains.
AnnouncedInTime == PassEnded /\ Outage /\ age["onbatt"] > Lag => Is("onbatt_msg")

\* What LowBatteryHalts promises for some time, said of a time: once an outage is
\* confirmed no pass leaves the system up with a battery that has been low, or below
\* BATTERYLEVEL or MINUTES, for Debounce (action.c), or that is low on mains.
BatteryLimitsInTime ==
    PassEnded /\ Outage /\ ~Is("shutdown") /\ age["onbatt"] > ConfirmedBy =>
        /\ Is("battlow") => age["lbatt"] < Debounce /\ ~Is("online")
        /\ LoadLow => Is("shut_load") /\ age["load"] < Debounce
        /\ TimeLow => Is("shut_ltime") /\ age["ltime"] < Debounce

\* The other way round: ONBATTERY is not said before the outage is ONBATTERYDELAY old,
\* nor TIMEOUT before it is older than TIMEOUT (action.c compares last_time_on_line,
\* which other passes set too).
NotTooSoon ==
    [][ /\ Says("ONBATTERY")' => age["onbatt"] >= onbattdelay
        /\ Says("TIMEOUT")' => age["onbatt"] > maxtime ]_vars

\* Logins prohibited during an outage are allowed again by the pass that sees
\* it end, shutdown or not.
LoginsAllowedOnMains == PassEnded /\ ~Outage => ~nologin_file

\* "Total (cumulative) time on batteries in seconds since apcctrl startup":
\* it never exceeds the time since the start.
CumulativeTimeSane == pc # "dead" => cum_time_on_batt <= age["start"]

\* A shutdown once begun stays begun until the process ends, is ordered once
\* only, and no read of the UPS or return of the mains takes it back.
ShutdownIsFinal ==
    [][ /\ Says("DOSHUTDOWN")' => ~Ordered /\ Ordered'
        /\ pc # "dead" => /\ Is("shutdown") => "shutdown" \in Status'
                          /\ Ordered => Ordered' ]_vars

\* Whenever the shutdown is ordered the powerfail file is there for the halt script:
\* if the disk takes it, and even if it does not when the UPS is to be killed.  Nothing
\* the daemon does afterwards, nor its end, takes the file away.
PowerfailFileLeft ==
    [][ /\ Says("DOSHUTDOWN")' /\ (KillsNow \/ ~DiskMayFail) => "powerfail" \in files'
        /\ "powerfail" \in files /\ pc # "dead" => "powerfail" \in files' ]_vars

\* initiate_hibernate(): the UPS is told to cut the power only when the marker
\* is there, never by a slave, never on mains, and at the earliest killdelay
\* after the order to shut down or the last attempt.
KillPowerGuarded ==
    [][ Says("KILLPOWER")' =>
          /\ "powerfail" \in files' /\ "shutdown" \in Status'
          /\ "slave" \notin Options
          /\ Outage \/ Remote
          /\ Ordered => age["ShutDown"] >= killdelay ]_vars

Looping == pc \notin {"open", "start", "dead", "stuck"}
Enduring  == Looping /\ Is("onbatt") /\ ~Is("calibration") /\ ~Remote
Exhausted == Enduring /\ Is("battlow")

\* Batteries that stay low in an outage bring the system down, self test or not: the
\* shutdown is ordered, not only begun.
LowBatteryHalts == <>[]Exhausted => <>[]Ordered

\* An outage that does not end is announced by ONBATTERY.
OnBatteryAnnounced == <>[]Enduring => <>[]Is("onbatt_msg")

\* "Remote is shutting down, so must we." (action.c): a pass that ends with the
\* master going down leaves the shutdown under way.
RemoteHeeded == PassEnded /\ "shut_remote" \in PrevStatus => Is("shutdown")
=============================================================================
