--------------------------- MODULE ApcOutageProofs ---------------------------
(***************************************************************************)
(* Safety theorems about ApcAction, for every value of its constants.      *)
(*                                                                         *)
(* Each rests on an inductive invariant of its own, a few relations        *)
(* between the status word, the events told so far, the files and the      *)
(* place in the pass that brings the system down; where a theorem needs a  *)
(* restriction on what the driver reports, or lets in during a pass, it is *)
(* an assumption of the theorem.                                           *)
(***************************************************************************)
EXTENDS ApcActionProofs

-----------------------------------------------------------------------------
(* What the steps of a pass do *)

\* Why a daemon without a master shuts the system down.
Reasons == {"TIMEOUT", "FAILING", "LOADLIMIT", "RUNLIMIT", "EMERGENCY"}

\* The ways into a shutdown, and the steps it then takes.
Halts     == RemoteBegins \/ TimeLimit \/ BatteryLimit \/ Emergency
HaltsOn   == MakeFile \/ Prohibit \/ Order

\* The ways through do_action() that leave the status as it is but for local bits.
EndsPlainly == RemoteStays \/ OnMains \/ SelfTest \/ ConfirmOnBattery \/ AwaitPowerOff
               \/ KeepWaiting \/ Calibration

\* The bits and timers of the limits, and the bits a pass may change by itself.
LimitBits   == {"shut_load", "shut_ltime", "shut_btime", "shut_emerg"}
LimitTimers == {"load", "ltime", "lbatt", "changeme", "ShutDown"}
PassBits    == LimitBits \cup {"replacebatt"}

\* What the script remembers of the events of a step: the outage events, up to the
\* all-clear.
LEMMA ToldKept ==
    ASSUME NEW evs, NEW news, Announce(evs, news),
           \A j \in DOMAIN evs : evs[j] \notin AllClear \cup OutageEvents
    PROVE  told' = told
BY DEF Announce

\* An outage event is remembered.
LEMMA ToldOne ==
    ASSUME NEW e \in OutageEvents, NEW news, Announce(<<e>>, news)
    PROVE  told' = told \cup {e}
<1>1. {<<e>>[j] : j \in DOMAIN <<e>>} = {e}
  OBVIOUS
<1>2. QED
  BY <1>1 DEF Announce, OutageEvents, AllClear

\* The all-clear makes the script forget.
LEMMA ToldClear ==
    ASSUME NEW evs, NEW news, Announce(evs, news), \E j \in DOMAIN evs : evs[j] \in AllClear
    PROVE  told' = {}
BY DEF Announce

\* What a pass does to a time stamp that the common part leaves alone.
LEMMA StampOne ==
    ASSUME NEW ts, NEW t \in Timers \ {"changeme", "lbatt"}
    PROVE  Stamp(ts)[t] = IF t \in ts THEN 0 ELSE age[t]
BY DEF Stamp, Given

\* Bits a pass leaves behind.
LEMMA EndPassBits ==
    ASSUME NEW evs, NEW news, NEW add, NEW del, EndPass(evs, news, add, del),
           NEW b, b # "replacebatt"
    PROVE  /\ PrevStatus' = Status'
           /\ b \in Status' <=> (b \in Status /\ b \notin del) \/ b \in add
BY DEF EndPass, Remember, Settled, Given

\* A report the driver writes over a status leaves the local bits alone.
LEMMA InstallBits ==
    ASSUME NEW rs \in SUBSET Report, NEW s, Install(rs, s), NEW b, b \notin DriverBits
    PROVE  b \in Status' <=> b \in s
BY DEF Install, Report

\* What the driver may let in during a pass are reports.
LEMMA DuringReports ==
    /\ During["check"] \in SUBSET Report
    /\ During["message"] \in SUBSET Report
    /\ During["kill"] \in SUBSET Report
BY ReportAssumption DEF Calls

\* The four ways into a shutdown are one Halt().
LEMMA HaltsHow ==
    ASSUME Halts
    PROVE  \E e \in Reasons \cup {"REMOTEDOWN"}, add \in SUBSET LimitBits,
              del \in SUBSET LimitBits, stamps \in SUBSET LimitTimers :
              /\ Halt(e, add, del, stamps)
              /\ pc \in {"act1", "act2"} /\ ~Is("shutdown")
              /\ Remote \/ Undecided
              /\ e = "REMOTEDOWN" <=> Remote
              /\ e = "TIMEOUT" => TimeLimit
<1> DEFINE How(e, add, del, stamps) ==
             /\ Halt(e, add, del, stamps)
             /\ pc \in {"act1", "act2"} /\ ~Is("shutdown")
             /\ Remote \/ Undecided
             /\ e = "REMOTEDOWN" <=> Remote
             /\ e = "TIMEOUT" => TimeLimit
<1>1. /\ {} \in SUBSET LimitBits /\ {"shut_btime"} \in SUBSET LimitBits
      /\ LimitAdd \in SUBSET LimitBits /\ LimitDel \in SUBSET LimitBits
      /\ LimitAdd \cup {"shut_emerg"} \in SUBSET LimitBits
      /\ {} \in SUBSET LimitTimers /\ LimitStamps \in SUBSET LimitTimers
  BY DEF LimitBits, LimitTimers, LimitAdd, LimitDel, LimitStamps, Given
<1>2. Undecided => pc \in {"act1", "act2"} /\ ~Is("shutdown") /\ ~Remote
  BY DEF Undecided, At
<1>3. CASE RemoteBegins
  <2>1. How("REMOTEDOWN", {}, {}, {})
    BY <1>3 DEF RemoteBegins
  <2>2. QED
    BY <1>1, <2>1
<1>4. CASE TimeLimit
  <2>1. How("TIMEOUT", {"shut_btime"}, {}, {}) /\ "TIMEOUT" \in Reasons
    BY <1>2, <1>4 DEF TimeLimit, Reasons
  <2>2. QED
    BY <1>1, <2>1
<1>5. CASE BatteryLimit
  <2>1. Verdict \in {"FAILING", "LOADLIMIT", "RUNLIMIT"}
    BY <1>5 DEF BatteryLimit, Verdict
  <2>2. How(Verdict, LimitAdd, LimitDel, LimitStamps)
    BY <1>2, <1>5, <2>1 DEF BatteryLimit
  <2>3. Verdict \in Reasons
    BY <2>1 DEF Reasons
  <2>4. QED
    BY <1>1, <2>2, <2>3
<1>6. CASE Emergency
  <2>1. How("EMERGENCY", LimitAdd \cup {"shut_emerg"}, LimitDel, LimitStamps)
    BY <1>2, <1>6 DEF Emergency
  <2>2. "EMERGENCY" \in Reasons
    BY DEF Reasons
  <2>3. QED
    BY <1>1, <2>1, <2>2
<1>7. QED
  BY <1>3, <1>4, <1>5, <1>6 DEF Halts

\* What they do: the reason is said, the pass goes on, and PrevStatus waits for its end.
LEMMA HaltDoes ==
    ASSUME Halts
    PROVE  /\ pc \in {"act1", "act2"} /\ ~Is("shutdown") /\ (Remote \/ Undecided)
           /\ pc' \in {"make1", "make2"}
           /\ \E e \in Reasons \cup {"REMOTEDOWN"} :
                 out' = <<e>> /\ (e = "REMOTEDOWN" <=> Remote) /\ (e = "TIMEOUT" => TimeLimit)
           /\ told' = told
           /\ PrevStatus' = PrevStatus /\ "shutdown" \in Status' /\ "fastpoll" \in Status'
           /\ \A b : b \notin PassBits \cup {"shutdown", "fastpoll"} =>
                        (b \in Status' <=> b \in Status)
           /\ \A t \in Timers \ LimitTimers : age'[t] = age[t]
           /\ files' = files \ {"lock"}
           /\ UNCHANGED <<nologin_file, cum_time_on_batt, sigterm>>
<1>1. PICK e \in Reasons \cup {"REMOTEDOWN"}, add \in SUBSET LimitBits,
           del \in SUBSET LimitBits, stamps \in SUBSET LimitTimers :
              /\ Halt(e, add, del, stamps)
              /\ pc \in {"act1", "act2"} /\ ~Is("shutdown")
              /\ Remote \/ Undecided
              /\ e = "REMOTEDOWN" <=> Remote
              /\ e = "TIMEOUT" => TimeLimit
  BY HaltsHow
<1>2. out' = <<e>>
  BY <1>1 DEF Halt, Announce
<1>3. told' = told
  <2>1. \A j \in DOMAIN <<e>> : <<e>>[j] \notin AllClear \cup OutageEvents
    BY DEF Reasons, AllClear, OutageEvents
  <2>2. Announce(<<e>>, Notices)
    BY <1>1 DEF Halt
  <2>3. QED
    BY <2>1, <2>2, ToldKept
<1>4. Status' = (Settled \ del) \cup add \cup {"shutdown", "fastpoll"}
  BY <1>1 DEF Halt
<1>5. \A b : b \notin PassBits \cup {"shutdown", "fastpoll"} => (b \in Status' <=> b \in Status)
  BY <1>4 DEF PassBits, Settled, Given
<1>6. \A t \in Timers \ LimitTimers : age'[t] = age[t]
  <2>1. age' = Stamp(stamps \cup {"ShutDown"})
    BY <1>1 DEF Halt
  <2>2. QED
    BY <2>1, StampOne DEF LimitTimers
<1>7. pc' \in {"make1", "make2"}
  BY <1>1, Places DEF Halt
<1>8. QED
  BY <1>1, <1>2, <1>3, <1>4, <1>5, <1>6, <1>7 DEF Halt

\* The steps that follow: only the driver changes the status, and only while it is told
\* to cut the power; the last one ends the pass.
LEMMA HaltsOnDoes ==
    ASSUME HaltsOn
    PROVE  /\ pc \in Halting
           /\ \A b : b \notin DriverBits => (b \in Status' <=> b \in Status)
           /\ ~Prohibit => Status' = Status
           /\ told' = told
           /\ out' \in {<<>>, <<"KILLPOWER">>, <<"DOSHUTDOWN">>}
           /\ out' = <<"KILLPOWER">> => Prohibit
           /\ out' = <<"DOSHUTDOWN">> <=> Order
           /\ \A t \in Timers \ {"annoy"} : age'[t] = age[t]
           /\ IF Order THEN PrevStatus' = Status' ELSE PrevStatus' = PrevStatus
           /\ MakeFile => pc' \in {"prohibit1", "prohibit2"}
           /\ Prohibit => pc' \in {"order1", "order2", "dead", "stuck"}
           /\ Order    => pc' \in {"fill", "check"}
           /\ UNCHANGED cum_time_on_batt
<1>1. CASE MakeFile
  <2>1. told' = told
    BY <1>1, ToldKept DEF MakeFile
  <2>2. QED
    BY <1>1, <2>1, Places DEF MakeFile, Halting, Announce, Order, Prohibit
<1>2. CASE Prohibit
  <2>1. PICK evs \in {<<>>, <<"KILLPOWER">>} : Announce(evs, {})
    BY <1>2 DEF Prohibit
  <2>2. told' = told /\ out' \in {<<>>, <<"KILLPOWER">>}
    <3>1. \A j \in DOMAIN evs : evs[j] \notin AllClear \cup OutageEvents
      BY DEF AllClear, OutageEvents
    <3>2. QED
      BY <2>1, <3>1, ToldKept DEF Announce
  <2>3. PICK rs \in SUBSET Report : Install(rs, Status)
    BY <1>2, DuringReports DEF Prohibit
  <2>4. \A b : b \notin DriverBits => (b \in Status' <=> b \in Status)
    BY <2>3, InstallBits
  <2>5. pc' \in {"order1", "order2", "dead", "stuck"}
    BY <1>2, Places DEF Prohibit
  <2>6. pc \in Halting /\ ~MakeFile /\ ~Order
    BY <1>2 DEF Prohibit, Halting, MakeFile, Order
  <2>7. PrevStatus' = PrevStatus /\ age' = age /\ UNCHANGED cum_time_on_batt
    BY <1>2 DEF Prohibit
  <2>8. QED
    BY <1>2, <2>2, <2>4, <2>5, <2>6, <2>7
<1>3. CASE Order
  <2>1. PICK news : Announce(<<"DOSHUTDOWN">>, news)
    BY <1>3 DEF Order
  <2>2. told' = told /\ out' = <<"DOSHUTDOWN">>
    <3>1. \A j \in DOMAIN <<"DOSHUTDOWN">> :
             <<"DOSHUTDOWN">>[j] \notin AllClear \cup OutageEvents
      BY DEF AllClear, OutageEvents
    <3>2. QED
      BY <2>1, <3>1, ToldKept DEF Announce
  <2>3. \A t \in Timers \ {"annoy"} : age'[t] = age[t]
    BY <1>3 DEF Order
  <2>4. QED
    BY <1>3, <2>2, <2>3, Places DEF Order, Halting, MakeFile, Prohibit
<1>4. QED
  BY <1>1, <1>2, <1>3 DEF HaltsOn

\* The ways through that change local bits only.
LEMMA PlainlyDoes ==
    ASSUME EndsPlainly
    PROVE  /\ pc \in {"act1", "act2"} /\ pc' = Following
           /\ PrevStatus' = Status'
           /\ \A b : b \notin PassBits \cup {"fastpoll", "onbatt_msg"} =>
                        (b \in Status' <=> b \in Status)
           /\ ~OnMains => ("fastpoll" \in Status' <=> "fastpoll" \in Status)
           /\ "onbatt_msg" \in Status' <=> "onbatt_msg" \in Status \/ ConfirmOnBattery
           /\ out' \in {<<>>, <<"REMOTEDOWN">>, <<"ONBATTERY">>}
           /\ out' = <<"REMOTEDOWN">> => RemoteStays
           /\ out' = <<"ONBATTERY">> <=> ConfirmOnBattery
           /\ ConfirmOnBattery => told' = told \cup {"ONBATTERY"}
           /\ ~ConfirmOnBattery => told' = told
           /\ ~KeepWaiting => UNCHANGED <<files, nologin_file>>
           /\ UNCHANGED cum_time_on_batt
<1> DEFINE Ends(evs, add, del) == \E news : EndPass(evs, news, add, del)
<1>1. /\ RemoteStays \/ SelfTest \/ AwaitPowerOff \/ Calibration =>
             Ends(<<>>, {}, {}) \/ (RemoteStays /\ Ends(<<"REMOTEDOWN">>, {}, {}))
      /\ OnMains => Ends(<<>>, {}, {"fastpoll"})
      /\ ConfirmOnBattery => Ends(<<"ONBATTERY">>, {"onbatt_msg"}, {})
      /\ KeepWaiting => Ends(<<>>, LimitAdd, LimitDel)
  BY DEF RemoteStays, SelfTest, AwaitPowerOff, Calibration, OnMains, ConfirmOnBattery,
         KeepWaiting
<1>2. LimitAdd \subseteq LimitBits /\ LimitDel \subseteq LimitBits
  BY DEF LimitAdd, LimitDel, LimitBits, Given
<1>3. pc \in {"act1", "act2"} /\ pc' = Following /\ UNCHANGED cum_time_on_batt
      /\ (~KeepWaiting => UNCHANGED <<files, nologin_file>>)
  BY DEF EndsPlainly, RemoteStays, SelfTest, AwaitPowerOff, AwaitEnd, Calibration, OnMains,
         ConfirmOnBattery, KeepWaiting, Undecided, At, Ordinary
<1>4. PICK evs, add, del :
         /\ evs \in {<<>>, <<"REMOTEDOWN">>, <<"ONBATTERY">>}
         /\ Ends(evs, add, del)
         /\ add \subseteq LimitBits \cup {"onbatt_msg"}
         /\ del \subseteq LimitBits \cup {"fastpoll"}
         /\ "fastpoll" \in del => OnMains
         /\ "onbatt_msg" \in add <=> ConfirmOnBattery
         /\ evs = <<"REMOTEDOWN">> => RemoteStays
         /\ evs = <<"ONBATTERY">> <=> ConfirmOnBattery
  <2>1. "onbatt_msg" \notin LimitBits /\ "fastpoll" \notin LimitBits
    BY DEF LimitBits
  <2>2. ConfirmOnBattery => ~(OnMains \/ SelfTest \/ RemoteStays \/ AwaitPowerOff
                              \/ Calibration \/ KeepWaiting)
    BY DEF ConfirmOnBattery, OnMains, SelfTest, RemoteStays, AwaitPowerOff, AwaitEnd,
           Calibration, KeepWaiting, Undecided, At
  <2> DEFINE Fits(evs, add, del) ==
               /\ evs \in {<<>>, <<"REMOTEDOWN">>, <<"ONBATTERY">>}
               /\ Ends(evs, add, del)
               /\ add \subseteq LimitBits \cup {"onbatt_msg"}
               /\ del \subseteq LimitBits \cup {"fastpoll"}
               /\ "fastpoll" \in del => OnMains
               /\ "onbatt_msg" \in add <=> ConfirmOnBattery
               /\ evs = <<"REMOTEDOWN">> => RemoteStays
               /\ evs = <<"ONBATTERY">> <=> ConfirmOnBattery
  <2> HIDE DEF Ends
  <2>3. CASE ConfirmOnBattery
    <3>1. Fits(<<"ONBATTERY">>, {"onbatt_msg"}, {})
      BY <1>1, <2>1, <2>3
    <3>2. QED
      BY <3>1
  <2>4. CASE OnMains
    <3>1. Fits(<<>>, {}, {"fastpoll"})
      BY <1>1, <2>1, <2>2, <2>4
    <3>2. QED
      BY <3>1
  <2>5. CASE KeepWaiting
    <3>1. Fits(<<>>, LimitAdd, LimitDel)
      BY <1>1, <1>2, <2>1, <2>2, <2>5
    <3>2. QED
      BY <3>1
  <2>6. CASE RemoteStays \/ SelfTest \/ AwaitPowerOff \/ Calibration
    <3>1. Fits(<<>>, {}, {}) \/ Fits(<<"REMOTEDOWN">>, {}, {})
      BY <1>1, <2>1, <2>2, <2>6
    <3>2. QED
      BY <3>1
  <2>7. QED
    BY <2>3, <2>4, <2>5, <2>6 DEF EndsPlainly
<1>5. PICK news : EndPass(evs, news, add, del)
  BY <1>4
<1>6. out' = evs /\ Announce(evs, news \cup Notices)
  BY <1>5 DEF EndPass, Remember, Announce
<1>7. PrevStatus' = Status' /\ \A b : b # "replacebatt" =>
         (b \in Status' <=> (b \in Status /\ b \notin del) \/ b \in add)
  BY <1>5, EndPassBits
<1>8. /\ ConfirmOnBattery => told' = told \cup {"ONBATTERY"}
      /\ ~ConfirmOnBattery => told' = told
  <2>1. ConfirmOnBattery => told' = told \cup {"ONBATTERY"}
    BY <1>4, <1>6, ToldOne DEF OutageEvents
  <2>2. ~ConfirmOnBattery => \A j \in DOMAIN evs : evs[j] \notin AllClear \cup OutageEvents
    BY <1>4 DEF AllClear, OutageEvents
  <2>3. QED
    BY <1>6, <2>1, <2>2, ToldKept
<1>9. QED
  BY <1>3, <1>4, <1>6, <1>7, <1>8 DEF PassBits, LimitBits

\* The ways through in which the driver may write into the status: local bits are
\* changed by the pass alone.
LEMMA LetsInDoes ==
    ASSUME PowerFailure \/ KillPower \/ MainsBack
    PROVE  /\ pc \in {"act1", "act2"} /\ pc' = Following
           /\ PrevStatus' = Status'
           /\ \A b : b \notin DriverBits \cup {"fastpoll", "onbatt_msg"} =>
                        (b \in Status' <=> b \in Status)
           /\ "fastpoll" \in Status' <=> "fastpoll" \in Status \/ PowerFailure
           /\ "onbatt_msg" \in Status' <=> "onbatt_msg" \in Status /\ ~MainsBack
           /\ ~MainsBack => UNCHANGED <<files, nologin_file, cum_time_on_batt>>
<1>1. PICK rs \in SUBSET Report, s \in {Settled \cup {"fastpoll"}, Settled, AfterOutage} :
         /\ Install(rs, s)
         /\ PowerFailure => s = Settled \cup {"fastpoll"}
         /\ KillPower => s = Settled
         /\ MainsBack => s = AfterOutage
  <2>1. /\ PowerFailure => ~KillPower /\ ~MainsBack
        /\ KillPower => ~MainsBack
    BY DEF PowerFailure, KillPower, AwaitEnd, MainsBack, At
  <2>2. /\ PowerFailure => Install(During["check"], Settled \cup {"fastpoll"})
        /\ KillPower => Install(During["kill"], Settled)
    BY DEF PowerFailure, KillPower
  <2>3. MainsBack => \E rs \in SUBSET Report : Install(rs, AfterOutage)
    BY DuringReports DEF MainsBack
  <2>4. CASE PowerFailure
    BY <2>1, <2>2, <2>4, DuringReports
  <2>5. CASE KillPower
    BY <2>1, <2>2, <2>5, DuringReports
  <2>6. CASE MainsBack
    BY <2>1, <2>3, <2>6
  <2>7. QED
    BY <2>4, <2>5, <2>6
<1>2. \A b : b \notin DriverBits => (b \in Status' <=> b \in s)
  BY <1>1, InstallBits
<1>3. "fastpoll" \notin DriverBits /\ "onbatt_msg" \notin DriverBits /\ "replacebatt" \in DriverBits
  BY DEF DriverBits
<1>4. /\ pc \in {"act1", "act2"} /\ pc' = Following /\ PrevStatus' = Status'
      /\ ~MainsBack => UNCHANGED <<files, nologin_file, cum_time_on_batt>>
  BY DEF PowerFailure, KillPower, AwaitEnd, MainsBack, At, Remember
<1>5. PowerFailure => ~MainsBack
  BY DEF PowerFailure, MainsBack, At
<1>6. QED
  BY <1>1, <1>2, <1>3, <1>4, <1>5 DEF Settled, AfterOutage, Given

\* A pass in which the daemon comes to its end changes nothing else.
LEMMA FailsDoes ==
    ASSUME KillPowerFails
    PROVE  /\ pc \in {"act1", "act2"} /\ pc' \in {"dead", "stuck"} /\ out' = <<>> /\ told' = told
           /\ UNCHANGED <<Status, PrevStatus, age, nologin_file, cum_time_on_batt, files>>
BY ToldKept, Places DEF KillPowerFails, AwaitEnd, At, Announce

\* Every way through do_action() is of one of these kinds.
LEMMA PassCases ==
    do_action <=> \/ Halts \/ HaltsOn \/ EndsPlainly \/ KillPowerFails
                  \/ PowerFailure \/ KillPower \/ MainsBack
BY DEF do_action, Halts, HaltsOn, EndsPlainly

\* Where a pass begins and ends, and where it is left for the next step of a shutdown.
LEMMA PassPlace ==
    ASSUME do_action
    PROVE  /\ pc \in {"act1", "act2"} \cup Halting
           /\ pc' \in {"fill", "check", "dead", "stuck"} \cup Halting
           /\ pc \in Halting => HaltsOn
           /\ pc' \in Halting => PrevStatus' = PrevStatus
           /\ pc' \in {"fill", "check"} => PrevStatus' = Status'
           /\ pc' \in {"dead", "stuck"} => PrevStatus' = PrevStatus
<1>1. Halting \cap {"act1", "act2", "fill", "check", "dead", "stuck"} = {}
  BY DEF Halting
<1>2. CASE Halts
  BY <1>1, <1>2, HaltDoes DEF Halting
<1>3. CASE HaltsOn
  BY <1>1, <1>3, HaltsOnDoes DEF Halting, HaltsOn
<1>4. CASE EndsPlainly
  BY <1>1, <1>4, PlainlyDoes, Places
<1>5. CASE PowerFailure \/ KillPower \/ MainsBack
  BY <1>1, <1>5, LetsInDoes, Places
<1>6. CASE KillPowerFails
  BY <1>1, <1>6, FailsDoes
<1>7. QED
  BY <1>2, <1>3, <1>4, <1>5, <1>6, PassCases

\* No step outside do_action() says anything.
LEMMA DeviceSilent ==
    ASSUME \/ OpenFails \/ OpenSucceeds \/ FirstFill \/ fillUPS \/ CheckState
           \/ apcctrl_terminate \/ Crash \/ Restart
    PROVE  out' = <<>>
BY DEF OpenFails, OpenSucceeds, FirstFill, fillUPS, CheckState, Sleep,
       apcctrl_terminate, Crash, Restart, Announce

\* Nor does any read change a local bit, and PrevStatus waits for the next pass.
LEMMA DeviceDoes ==
    ASSUME OpenFails \/ OpenSucceeds \/ FirstFill \/ fillUPS \/ CheckState
    PROVE  /\ PrevStatus' = PrevStatus
           /\ \A b : b \notin DriverBits => (b \in Status' <=> b \in Status)
           /\ pc \notin Halting /\ pc' \in {"open", "start", "act1", "act2"}
           /\ pc' \in {"open", "start"} => pc \in {"open", "start"}
           /\ UNCHANGED <<nologin_file, cum_time_on_batt, files>>
           /\ told' = told
<1>1. Read => \A b : b \notin DriverBits => (b \in Status' <=> b \in Status)
  BY InstallBits, ReportAssumption DEF Read
<1>2. "commlost" \in DriverBits
  BY DEF DriverBits
<1>3. \A news : Announce(<<>>, news) => told' = told
  BY ToldKept
<1>4. CASE OpenFails \/ OpenSucceeds
  BY <1>2, <1>3, <1>4 DEF OpenFails, OpenSucceeds, Quiet, Halting
<1>5. CASE FirstFill \/ fillUPS \/ CheckState
  BY <1>1, <1>3, <1>5 DEF FirstFill, fillUPS, CheckState, Sleep, Quiet, Halting
<1>6. QED
  BY <1>4, <1>5

\* The end of the process.
LEMMA EndDoes ==
    ASSUME apcctrl_terminate \/ Crash
    PROVE  /\ pc # "dead" /\ pc' = "dead" /\ out' = <<>> /\ told' = told
           /\ UNCHANGED <<Status, PrevStatus, age, nologin_file, cum_time_on_batt>>
           /\ files \ {"lock"} \subseteq files'
BY ToldKept DEF apcctrl_terminate, Crash, Announce

\* The status of a process that starts.
LEMMA StartDoes ==
    ASSUME Restart
    PROVE  /\ pc = "dead" /\ pc' = "open"
           /\ Status' = {"battpresent"} /\ PrevStatus' = {"battpresent"}
           /\ nologin_file' = FALSE /\ cum_time_on_batt' = 0 /\ out' = <<>> /\ told' = {}
BY FreshTypes DEF Restart

\* What the state do_action() finds says of the line and of the outage.
LEMMA StateBits ==
    /\ \A s : At(s) => pc \in {"act1", "act2"} /\ ~Remote
    /\ At("OnMains")      => "onbatt" \notin Status /\ ~Outage
    /\ At("PowerFailure") => "onbatt" \in Status /\ ~Outage
    /\ At("SelfTest")     => "onbatt" \in Status /\ Outage /\ age["SelfTest"] # Never
    /\ At("OnBattery")    => "onbatt" \in Status /\ Outage /\ age["SelfTest"] = Never
    /\ At("MainsBack")    => "onbatt" \notin Status /\ Outage
    /\ At("Calibration")  => "calibration" \in Status
BY DEF At, get_state, Is, Chg, Outage

\* Which state each way through is for.
LEMMA WayState ==
    /\ OnMains => At("OnMains")
    /\ PowerFailure => At("PowerFailure")
    /\ SelfTest => At("SelfTest")
    /\ ConfirmOnBattery \/ AwaitPowerOff \/ KillPower \/ KillPowerFails \/ KeepWaiting
          \/ Undecided => At("OnBattery")
    /\ MainsBack => At("MainsBack")
    /\ Calibration => At("Calibration")
    /\ RemoteStays \/ RemoteBegins => Remote
BY DEF OnMains, PowerFailure, SelfTest, ConfirmOnBattery, AwaitPowerOff, KillPower,
       KillPowerFails, AwaitEnd, KeepWaiting, Undecided, MainsBack, Calibration, RemoteStays,
       RemoteBegins

\* All the driver may let in during a pass.
InPass == During["check"] \cup During["message"] \cup During["kill"]

\* A bit it does not let in is not there afterwards.
LEMMA InPassBits ==
    ASSUME NEW b, b # "fastpoll", b \notin Status, \A r \in InPass : b \notin r.bits,
           Prohibit \/ PowerFailure \/ KillPower \/ MainsBack
    PROVE  b \notin Status'
<1>1. PICK rs, s : rs \in SUBSET InPass /\ Install(rs, s) /\ b \notin s
  <2>1. CASE Prohibit
    <3>1. \E rs \in SUBSET InPass : Install(rs, Status)
      BY <2>1 DEF Prohibit, InPass
    <3>2. QED
      BY <3>1
  <2>2. CASE PowerFailure
    <3>1. Install(During["check"], Settled \cup {"fastpoll"})
          /\ b \notin Settled \cup {"fastpoll"} /\ During["check"] \in SUBSET InPass
      BY <2>2 DEF PowerFailure, Settled, InPass
    <3>2. QED
      BY <3>1
  <2>3. CASE KillPower
    <3>1. Install(During["kill"], Settled) /\ b \notin Settled
          /\ During["kill"] \in SUBSET InPass
      BY <2>3 DEF KillPower, Settled, InPass
    <3>2. QED
      BY <3>1
  <2>4. CASE MainsBack
    <3>1. (\E rs \in SUBSET InPass : Install(rs, AfterOutage)) /\ b \notin AfterOutage
      BY <2>4 DEF MainsBack, AfterOutage, Settled, InPass
    <3>2. QED
      BY <3>1
  <2>5. QED
    BY <2>1, <2>2, <2>3, <2>4
<1>2. QED
  BY <1>1 DEF Install

-----------------------------------------------------------------------------
(* A shutdown from its beginning to the order *)

\* In the middle of the pass that brings the system down the shutdown is under way and
\* not ordered; between two passes it is under way when it has been ordered.
Phase ==
    /\ pc \in Halting => "shutdown" \in Status /\ ~Ordered
    /\ pc \notin Halting \cup {"dead", "stuck"} => ("shutdown" \in Status <=> Ordered)
    /\ Ordered => "shutdown" \in Status

\* Every step leaves the phases in order.
LEMMA PhaseStays ==
    ASSUME Phase, [Next]_vars
    PROVE  Phase'
<1>1. "shutdown" \notin DriverBits \cup PassBits \cup {"fastpoll", "onbatt_msg"}
  BY DEF DriverBits, PassBits, LimitBits
<1>2. Halting \cap {"open", "start", "act1", "act2", "fill", "check", "dead", "stuck"} = {}
  BY DEF Halting
<1>3. CASE Halts
  <2>1. ~Ordered
    BY <1>2, <1>3, HaltDoes DEF Phase, Is
  <2>2. PrevStatus' = PrevStatus /\ "shutdown" \in Status' /\ pc' \in Halting
    BY <1>3, HaltDoes DEF Halting
  <2>3. QED
    BY <1>2, <2>1, <2>2 DEF Phase, Ordered
<1>4. CASE HaltsOn
  <2>1. "shutdown" \in Status /\ "shutdown" \in Status' /\ ~Ordered
    BY <1>1, <1>4, HaltsOnDoes DEF Phase
  <2>2. CASE Order
    BY <1>2, <1>4, <2>1, <2>2, HaltsOnDoes DEF Phase, Ordered
  <2>3. CASE ~Order
    BY <1>2, <1>4, <2>1, <2>3, HaltsOnDoes DEF Phase, Ordered, HaltsOn, Halting
  <2>4. QED
    BY <2>2, <2>3
<1>5. CASE EndsPlainly \/ PowerFailure \/ KillPower \/ MainsBack
  <2>1. PrevStatus' = Status' /\ pc' \in {"fill", "check"}
    BY <1>5, PlainlyDoes, LetsInDoes, Places
  <2>2. QED
    BY <1>2, <2>1 DEF Phase, Ordered
<1>6. CASE KillPowerFails
  BY <1>2, <1>6, FailsDoes DEF Phase, Ordered
<1>7. CASE OpenFails \/ OpenSucceeds \/ FirstFill \/ fillUPS \/ CheckState
  <2>1. pc \notin Halting \cup {"dead", "stuck"}
    BY <1>2, <1>7 DEF OpenFails, OpenSucceeds, FirstFill, fillUPS, CheckState, Sleep
  <2>2. QED
    BY <1>1, <1>2, <1>7, <2>1, DeviceDoes DEF Phase, Ordered
<1>8. CASE apcctrl_terminate \/ Crash
  BY <1>2, <1>8, EndDoes DEF Phase, Ordered
<1>9. CASE Restart
  BY <1>2, <1>9, StartDoes DEF Phase, Ordered
<1>10. CASE UNCHANGED vars
  BY <1>10 DEF vars, Phase, Ordered
<1>11. QED
  BY <1>3, <1>4, <1>5, <1>6, <1>7, <1>8, <1>9, <1>10, PassCases DEF Next, do_device

\* A daemon that starts is in none of them.
LEMMA PhaseStarts ==
    ASSUME Init
    PROVE  Phase
BY FreshTypes DEF Init, Phase, Ordered, Halting

\* A shutdown under way is not forgotten while the process lives.
LEMMA ShutdownKept ==
    ASSUME Next, "shutdown" \in Status, pc # "dead"
    PROVE  "shutdown" \in Status'
<1>1. "shutdown" \notin DriverBits \cup PassBits \cup {"fastpoll", "onbatt_msg"}
  BY DEF DriverBits, PassBits, LimitBits
<1>2. CASE do_action
  BY <1>1, <1>2, PassCases, HaltDoes, HaltsOnDoes, PlainlyDoes, LetsInDoes, FailsDoes
<1>3. CASE OpenFails \/ OpenSucceeds \/ FirstFill \/ fillUPS \/ CheckState
  BY <1>1, <1>3, DeviceDoes
<1>4. CASE apcctrl_terminate \/ Crash
  BY <1>4, EndDoes
<1>5. QED
  BY <1>2, <1>3, <1>4, StartDoes DEF Next, do_device

\* Who gives the order, and who tells the UPS to cut its power.
LEMMA WhoOrders ==
    ASSUME Next
    PROVE  /\ Says("DOSHUTDOWN")' => Order
           /\ Says("KILLPOWER")' => Prohibit \/ KillPower
           /\ Says("OFFBATTERY")' => MainsBack
<1>1. out' = <<>> => ~Says("DOSHUTDOWN")' /\ ~Says("KILLPOWER")' /\ ~Says("OFFBATTERY")'
  BY DEF Says
<1>2. \A e \in Reasons \cup {"REMOTEDOWN", "ONBATTERY", "POWEROUT", "STARTSELFTEST"} :
         out' = <<e>> => ~Says("DOSHUTDOWN")' /\ ~Says("KILLPOWER")' /\ ~Says("OFFBATTERY")'
  BY DEF Says, Reasons
<1>3. CASE Halts
  BY <1>2, <1>3, HaltDoes
<1>4. CASE HaltsOn
  <2>1. out' = <<"KILLPOWER">> => ~Says("DOSHUTDOWN")' /\ ~Says("OFFBATTERY")'
    BY DEF Says
  <2>2. out' = <<"DOSHUTDOWN">> => ~Says("KILLPOWER")' /\ ~Says("OFFBATTERY")'
    BY DEF Says
  <2>3. QED
    BY <1>1, <1>4, <2>1, <2>2, HaltsOnDoes
<1>5. CASE EndsPlainly
  BY <1>1, <1>2, <1>5, PlainlyDoes
<1>6. CASE PowerFailure
  <2>1. out' \in {<<"STARTSELFTEST">>, <<"POWEROUT">>}
    BY <1>6 DEF PowerFailure, Remember, Announce
  <2>2. QED
    BY <1>2, <2>1
<1>7. CASE KillPower
  <2>1. out' = <<"KILLPOWER">>
    BY <1>7 DEF KillPower, Remember, Announce
  <2>2. QED
    BY <1>7, <2>1 DEF Says
<1>8. CASE MainsBack
  <2>1. \E tested \in BOOLEAN : out' = Closing(tested)
    BY <1>8 DEF MainsBack, Remember, Announce
  <2>2. QED
    BY <1>8, <2>1 DEF Closing, Says
<1>9. QED
  BY <1>1, <1>3, <1>4, <1>5, <1>6, <1>7, <1>8, PassCases, FailsDoes, DeviceSilent
     DEF Next, do_device

\* do_shutdown() runs to its end once: an order is given only by a process that has
\* given none, and neither the shutdown nor the order is forgotten until it ends.
THEOREM ShutdownOnce == Spec => ShutdownIsFinal
<1> DEFINE Once == /\ Says("DOSHUTDOWN")' => ~Ordered /\ Ordered'
                   /\ pc # "dead" => /\ Is("shutdown") => "shutdown" \in Status'
                                     /\ Ordered => Ordered'
<1>1. Phase /\ [Next]_vars => [Once]_vars
  <2> SUFFICES ASSUME Phase, Next
               PROVE  Once
    OBVIOUS
  <2>1. Says("DOSHUTDOWN")' => ~Ordered /\ Ordered'
    <3> SUFFICES ASSUME Order
                 PROVE  ~Ordered /\ Ordered'
      BY WhoOrders
    <3>1. "shutdown" \in Status /\ ~Ordered
      BY HaltsOnDoes DEF Phase, HaltsOn
    <3>2. PrevStatus' = Status
      BY DEF Order
    <3>3. QED
      BY <3>1, <3>2 DEF Ordered
  <2>2. pc # "dead" /\ Is("shutdown") => "shutdown" \in Status'
    BY ShutdownKept DEF Is
  <2>3. pc # "dead" /\ Ordered => Ordered'
    <3> SUFFICES ASSUME pc # "dead", Ordered
                 PROVE  Ordered'
      OBVIOUS
    <3>1. "shutdown" \in Status'
      BY ShutdownKept DEF Phase
    <3>2. PrevStatus' \in {PrevStatus, Status'}
      <4>1. CASE do_action
        BY <4>1, PassCases, HaltDoes, HaltsOnDoes, PlainlyDoes, LetsInDoes, FailsDoes
      <4>2. CASE ~do_action
        BY <4>2, DeviceDoes, EndDoes, StartDoes DEF Next, do_device
      <4>3. QED
        BY <4>1, <4>2
    <3>3. QED
      BY <3>1, <3>2 DEF Ordered
  <2>4. QED
    BY <2>1, <2>2, <2>3
<1>2. QED
  BY <1>1, PhaseStarts, PhaseStays, PTL DEF Spec, ShutdownIsFinal

\* The powerfail file is there when the order is given: make_file() has left it, or
\* initiate_hibernate() would not have come back.
Marked ==
    /\ pc \in {"prohibit1", "prohibit2", "order1", "order2"} /\ ~DiskMayFail
          => "powerfail" \in files
    /\ pc \in {"order1", "order2"} /\ KillsNow => "powerfail" \in files

\* Nothing but a new start takes the file away.
LEMMA PowerfailKept ==
    ASSUME Next, "powerfail" \in files, pc # "dead"
    PROVE  "powerfail" \in files'
<1>1. CASE Halts
  BY <1>1, HaltDoes
<1>2. CASE HaltsOn
  BY <1>2 DEF HaltsOn, MakeFile, Prohibit, Order, WithNologin, Given
<1>3. CASE EndsPlainly
  BY <1>3, PlainlyDoes DEF KeepWaiting, WithNologin, Given
<1>4. CASE PowerFailure \/ KillPower \/ MainsBack
  BY <1>4, LetsInDoes DEF MainsBack
<1>5. QED
  BY <1>1, <1>2, <1>3, <1>4, PassCases, FailsDoes, DeviceDoes, EndDoes, StartDoes
     DEF Next, do_device

\* The powerfail file precedes the order and outlasts it: whoever stops the daemon, and
\* wherever in the pass, the halt script that runs on an order finds the file, if the disk
\* took it, or the UPS is to be killed.
THEOREM PowerfailStays == Spec => PowerfailFileLeft
<1>1. Init => Marked
  BY FreshTypes DEF Init, Marked
<1>2. Marked /\ [Next]_vars => Marked'
  <2> SUFFICES ASSUME Marked, [Next]_vars
               PROVE  Marked'
    OBVIOUS
  <2>1. CASE MakeFile
    <3>1. pc' \in {"prohibit1", "prohibit2"}
      BY <2>1, HaltsOnDoes DEF HaltsOn
    <3>2. ~DiskMayFail => "powerfail" \in files'
      BY <2>1 DEF MakeFile, DiskOutcomes, Given
    <3>3. QED
      BY <3>1, <3>2 DEF Marked
  <2>2. CASE Prohibit
    <3>1. ~DiskMayFail => "powerfail" \in files
      BY <2>2 DEF Marked, Prohibit
    <3>2. "powerfail" \in files => "powerfail" \in files'
      BY <2>2 DEF Prohibit, WithNologin, Given
    <3>3. pc' \in {"order1", "order2"} /\ KillsNow => "powerfail" \in files'
      BY <2>2 DEF Prohibit, Refuses, Aborted
    <3>4. QED
      BY <3>1, <3>2, <3>3 DEF Marked
  <2>3. CASE Halts \/ Order \/ (do_action /\ ~HaltsOn)
    <3>1. pc' \notin {"prohibit1", "prohibit2", "order1", "order2"}
      BY <2>3, HaltDoes, HaltsOnDoes, PlainlyDoes, LetsInDoes, FailsDoes, Places, PassCases
         DEF HaltsOn
    <3>2. QED
      BY <3>1 DEF Marked
  <2>4. CASE OpenFails \/ OpenSucceeds \/ FirstFill \/ fillUPS \/ CheckState
    BY <2>4, DeviceDoes DEF Marked
  <2>5. CASE apcctrl_terminate \/ Crash \/ Restart
    BY <2>5, EndDoes, StartDoes DEF Marked
  <2>6. CASE UNCHANGED vars
    BY <2>6 DEF vars, Marked
  <2>7. QED
    BY <2>1, <2>2, <2>3, <2>4, <2>5, <2>6 DEF Next, do_device, HaltsOn
<1>3. Marked /\ [Next]_vars
        => [ /\ Says("DOSHUTDOWN")' /\ (KillsNow \/ ~DiskMayFail) => "powerfail" \in files'
             /\ "powerfail" \in files /\ pc # "dead" => "powerfail" \in files' ]_vars
  <2> SUFFICES ASSUME Marked, Next
               PROVE  Says("DOSHUTDOWN")' /\ (KillsNow \/ ~DiskMayFail) => "powerfail" \in files'
    BY PowerfailKept
  <2>1. Says("DOSHUTDOWN")' => pc \in {"order1", "order2"} /\ files' = files
    BY WhoOrders DEF Order
  <2>2. QED
    BY <2>1 DEF Marked
<1>4. QED
  BY <1>1, <1>2, <1>3, PTL DEF Spec, PowerfailFileLeft

\* Up to the attempt to kill the power it is an outage, or the master, that brings the
\* system down.
Justified == pc \in {"make1", "make2", "prohibit1", "prohibit2"} => Outage \/ Remote

\* initiate_hibernate(): the UPS is told to cut its power only with the powerfail
\* file in place and a shutdown under way, never by a slave, in an outage or for
\* the master, and, once the order is given, not before killdelay has passed since it
\* or since the last time.
THEOREM KillPowerSafe == Spec => KillPowerGuarded
<1> DEFINE Guarded == /\ "powerfail" \in files' /\ "shutdown" \in Status'
                      /\ "slave" \notin Options
                      /\ Outage \/ Remote
                      /\ Ordered => age["ShutDown"] >= killdelay
<1>1. Init => Justified
  BY FreshTypes DEF Init, Justified
<1>2. Justified /\ [Next]_vars => Justified'
  <2> SUFFICES ASSUME Justified, [Next]_vars, pc' \in {"make1", "make2", "prohibit1", "prohibit2"}
               PROVE  Outage' \/ Remote'
    BY DEF Justified
  <2>1. CASE Halts
    <3>1. "shut_remote" \notin PassBits \cup {"shutdown", "fastpoll"}
      BY DEF PassBits, LimitBits
    <3>2. (Remote' <=> Remote) /\ (Outage' <=> Outage)
      BY <2>1, <3>1, HaltDoes DEF Remote, Is, Outage
    <3>3. Outage \/ Remote
      BY <2>1, HaltDoes, WayState, StateBits
    <3>4. QED
      BY <3>2, <3>3
  <2>2. CASE MakeFile
    BY <2>2 DEF MakeFile, Justified, Remote, Is, Outage
  <2>3. ~Prohibit /\ ~Order /\ (do_action => Halts \/ MakeFile)
    <3>1. ~Prohibit /\ ~Order
      BY HaltsOnDoes DEF HaltsOn
    <3>2. ~EndsPlainly /\ ~PowerFailure /\ ~KillPower /\ ~MainsBack /\ ~KillPowerFails
      BY PlainlyDoes, LetsInDoes, FailsDoes, Places
    <3>3. QED
      BY <3>1, <3>2, PassCases DEF HaltsOn
  <2>4. ~(OpenFails \/ OpenSucceeds \/ FirstFill \/ fillUPS \/ CheckState)
    BY DeviceDoes
  <2>5. ~(apcctrl_terminate \/ Crash \/ Restart)
    BY EndDoes, StartDoes
  <2>6. CASE UNCHANGED vars
    BY <2>6 DEF vars, Justified, Remote, Is, Outage
  <2>7. QED
    BY <2>1, <2>2, <2>3, <2>4, <2>5, <2>6 DEF Next, do_device
<1>3. Phase /\ Justified /\ [Next]_vars => [Says("KILLPOWER")' => Guarded]_vars
  <2> SUFFICES ASSUME Phase, Justified, Next, Says("KILLPOWER")'
               PROVE  Guarded
    OBVIOUS
  <2>1. "shutdown" \notin DriverBits \cup {"fastpoll", "onbatt_msg"}
    BY DEF DriverBits
  <2>2. CASE KillPower
    <3>1. "shutdown" \in Status'
      BY <2>1, <2>2, LetsInDoes DEF KillPower, AwaitEnd, Is
    <3>2. Outage
      BY <2>2, WayState, StateBits
    <3>3. QED
      BY <2>2, <3>1, <3>2 DEF KillPower, KillDue, Refuses
  <2>3. CASE Prohibit
    <3>1. "shutdown" \in Status' /\ ~Ordered
      BY <2>1, <2>3, HaltsOnDoes DEF Phase, HaltsOn
    <3>2. Outage \/ Remote
      BY <2>3 DEF Prohibit, Justified
    <3>3. KillsNow /\ ~Refuses(files')
      <4>1. \A evs : Announce(evs, {}) => out' = evs
        BY DEF Announce
      <4>2. QED
        BY <2>3, <4>1 DEF Prohibit, Says
    <3>4. QED
      BY <3>1, <3>2, <3>3 DEF KillsNow, Refuses
  <2>4. QED
    BY <2>2, <2>3, WhoOrders
<1>4. QED
  BY <1>1, <1>2, <1>3, PhaseStarts, PhaseStays, PTL DEF Spec, KillPowerGuarded

-----------------------------------------------------------------------------
(* Polling and logins *)

\* The driver reports neither calibrations nor a shutdown of a master, in a read or in
\* the middle of a pass.
PlainUps ==
    \A r \in Reports \cup InPass :
        "calibration" \notin r.bits /\ "shut_remote" \notin r.bits

\* With a plain UPS the status word never shows the two reports.
Plain == "calibration" \notin Status /\ "shut_remote" \notin Status

\* A plain UPS stays plain.
LEMMA PlainStays ==
    ASSUME PlainUps, Plain, Next
    PROVE  Plain'
<1>1. {"calibration", "shut_remote"} \cap (PassBits \cup {"shutdown", "fastpoll", "onbatt_msg"}) = {}
  BY DEF PassBits, LimitBits
<1>2. Read => Plain'
  BY DEF Read, Install, Plain, PlainUps
<1>3. CASE do_action
  <2>1. CASE Halts \/ EndsPlainly \/ KillPowerFails
    BY <1>1, <2>1, HaltDoes, PlainlyDoes, FailsDoes DEF Plain
  <2>2. CASE Prohibit \/ PowerFailure \/ KillPower \/ MainsBack
    BY <2>2, InPassBits DEF Plain, PlainUps
  <2>3. CASE MakeFile \/ Order
    BY <2>3 DEF MakeFile, Order, Plain
  <2>4. QED
    BY <1>3, <2>1, <2>2, <2>3, PassCases DEF HaltsOn
<1>4. CASE OpenFails \/ OpenSucceeds
  BY <1>4 DEF OpenFails, OpenSucceeds, Plain
<1>5. CASE FirstFill \/ fillUPS \/ CheckState
  BY <1>2, <1>5 DEF FirstFill, fillUPS, CheckState, Sleep
<1>6. CASE apcctrl_terminate \/ Crash
  BY <1>6, EndDoes DEF Plain
<1>7. CASE Restart
  BY <1>7, StartDoes DEF Plain
<1>8. QED
  BY <1>3, <1>4, <1>5, <1>6, <1>7 DEF Next, do_device

\* Neither of the ways through that look at the two reports is taken.
LEMMA PlainWays ==
    ASSUME Plain
    PROVE  ~RemoteBegins /\ ~RemoteStays /\ ~Calibration /\ ~Remote
BY WayState, StateBits DEF Plain, Remote, Is

\* device_wait_time() depends on it: while an outage is not seen to be over, the
\* fast-poll flag is set.  A plain UPS: with a calibration the flag is set by
\* nobody, and an outage that begins in one is polled slowly.
THEOREM FastPolling ==
    ASSUME PlainUps
    PROVE  Spec => []FastWhileOnBattery
<1> DEFINE Inv == /\ Plain /\ FastWhileOnBattery
                  /\ pc \in Halting => "fastpoll" \in Status
<1>1. Init => Inv
  BY FreshTypes DEF Init, Plain, FastWhileOnBattery, Outage, Halting
<1>2. Inv /\ [Next]_vars => Inv'
  <2> SUFFICES ASSUME Inv, [Next]_vars
               PROVE  FastWhileOnBattery' /\ (pc' \in Halting => "fastpoll" \in Status')
    BY PlainStays DEF vars, Plain
  <2>0. "fastpoll" \notin DriverBits
    BY DEF DriverBits
  <2>1. CASE do_action
    <3>1. pc \in {"act1", "act2"} \cup Halting /\ Running
      BY <2>1, PassPlace DEF Running, Halting
    <3>2. Outage => "fastpoll" \in Status
      BY <3>1 DEF FastWhileOnBattery, Is
    <3>3. CASE Halts
      BY <3>3, HaltDoes DEF FastWhileOnBattery, Is
    <3>4. CASE HaltsOn
      BY <2>0, <3>4, HaltsOnDoes DEF FastWhileOnBattery, Is
    <3>5. CASE OnMains
      <4>1. EndsPlainly /\ "onbatt" \notin Status
        BY <3>5, WayState, StateBits DEF EndsPlainly
      <4>2. "onbatt" \notin PassBits \cup {"fastpoll", "onbatt_msg"}
        BY DEF PassBits, LimitBits
      <4>3. ~Outage' /\ pc' \notin Halting
        BY <4>1, <4>2, PlainlyDoes, Places DEF Outage, Halting
      <4>4. QED
        BY <4>3 DEF FastWhileOnBattery
    <3>6. CASE EndsPlainly /\ ~OnMains
      <4>1. Outage
        BY <3>6, WayState, StateBits, PlainWays DEF EndsPlainly
      <4>2. QED
        BY <3>2, <3>6, <4>1, PlainlyDoes DEF FastWhileOnBattery, Is
    <3>7. CASE PowerFailure \/ KillPower \/ MainsBack
      <4>1. PowerFailure \/ Outage
        BY <3>7, WayState, StateBits
      <4>2. QED
        BY <3>2, <3>7, <4>1, LetsInDoes DEF FastWhileOnBattery, Is
    <3>8. CASE KillPowerFails
      <4>1. Outage
        BY <3>8, WayState, StateBits
      <4>2. QED
        BY <3>2, <3>8, <4>1, FailsDoes DEF FastWhileOnBattery, Is
    <3>9. QED
      BY <2>1, <3>3, <3>4, <3>5, <3>6, <3>7, <3>8, PassCases
  <2>2. CASE OpenFails \/ OpenSucceeds \/ FirstFill \/ fillUPS \/ CheckState
    <3>1. Running
      BY <2>2 DEF OpenFails, OpenSucceeds, FirstFill, fillUPS, CheckState, Sleep, Running
    <3>2. QED
      BY <2>0, <2>2, <3>1, DeviceDoes DEF FastWhileOnBattery, Outage, Is, Halting
  <2>3. CASE apcctrl_terminate \/ Crash
    BY <2>3, EndDoes DEF FastWhileOnBattery, Running, Halting
  <2>4. CASE Restart
    BY <2>4, StartDoes DEF FastWhileOnBattery, Outage, Halting
  <2>5. CASE UNCHANGED vars
    BY <2>5 DEF vars, FastWhileOnBattery, Outage, Is, Running
  <2>6. QED
    BY <2>1, <2>2, <2>3, <2>4, <2>5 DEF Next, do_device
<1>3. Inv => FastWhileOnBattery
  OBVIOUS
<1>4. QED
  BY <1>1, <1>2, <1>3, PTL DEF Spec

\* While the UPS is told to cut its power the driver does not hear that the mains are
\* back.
NoMainsInKill == \A r \in During["kill"] : "onbatt" \in r.bits

\* So an outage is not over when the UPS has been told.
LEMMA KillKeepsOutage ==
    ASSUME NoMainsInKill, KillPower \/ Prohibit, "onbatt" \in Status
    PROVE  "onbatt" \in Status'
<1>1. \A s : Install(During["kill"], s) /\ "onbatt" \in s => "onbatt" \in Status'
  BY DEF Install, NoMainsInKill
<1>2. \A s : Install({}, s) => Status' = s
  BY DEF Install
<1>3. CASE KillPower
  BY <1>1, <1>3 DEF KillPower, Settled, Given
<1>4. CASE Prohibit
  BY <1>1, <1>2, <1>4 DEF Prohibit
<1>5. QED
  BY <1>3, <1>4

\* Logins are prohibited, and the system is brought down, in an outage.
Excused ==
    /\ nologin_file = TRUE => Outage
    /\ pc \in Halting => Outage /\ "onbatt" \in Status

\* They stay so, if the driver does not hear of the mains while it is killing the power.
LEMMA ExcusedStays ==
    ASSUME NoMainsInKill, Plain, Excused, [Next]_vars
    PROVE  Excused'
<1>0. /\ "onbatt" \notin PassBits \cup {"shutdown", "fastpoll", "onbatt_msg"}
      /\ {"fill", "check", "dead", "stuck", "open", "start", "act1", "act2"} \cap Halting = {}
  BY DEF PassBits, LimitBits, Halting
<1>1. CASE do_action
  <2>1. CASE Halts
    <3>1. Outage /\ "onbatt" \in Status
      BY <2>1, HaltDoes, PlainWays, WayState, StateBits
    <3>2. Outage' /\ "onbatt" \in Status'
      BY <1>0, <2>1, <3>1, HaltDoes DEF Outage
    <3>3. QED
      BY <3>2 DEF Excused
  <2>2. CASE HaltsOn
    <3>1. "onbatt" \in Status /\ Outage
      BY <2>2, HaltsOnDoes DEF Excused
    <3>2. "onbatt" \in Status'
      BY <2>2, <3>1, HaltsOnDoes, KillKeepsOutage
    <3>3. Outage'
      BY <2>2, <3>1, <3>2, HaltsOnDoes DEF Outage
    <3>4. QED
      BY <3>2, <3>3 DEF Excused
  <2>3. CASE OnMains
    <3>1. ~Outage /\ pc' \notin Halting /\ nologin_file' = nologin_file
      BY <1>0, <2>3, WayState, StateBits, PlainlyDoes, Places DEF EndsPlainly, OnMains, Ordinary
    <3>2. QED
      BY <3>1 DEF Excused
  <2>4. CASE EndsPlainly /\ ~OnMains
    <3>1. "onbatt" \in Status
      BY <2>4, WayState, StateBits, PlainWays DEF EndsPlainly
    <3>2. Outage' /\ pc' \notin Halting
      BY <1>0, <2>4, <3>1, PlainlyDoes, Places DEF Outage
    <3>3. QED
      BY <3>2 DEF Excused
  <2>5. CASE PowerFailure
    <3>1. ~Outage /\ nologin_file' = nologin_file /\ pc' \notin Halting
      BY <1>0, <2>5, WayState, StateBits, Places DEF PowerFailure
    <3>2. QED
      BY <3>1 DEF Excused
  <2>6. CASE KillPower
    <3>1. "onbatt" \in Status'
      BY <2>6, WayState, StateBits, KillKeepsOutage
    <3>2. Outage' /\ pc' \notin Halting
      BY <1>0, <2>6, <3>1, LetsInDoes, Places DEF Outage
    <3>3. QED
      BY <3>2 DEF Excused
  <2>7. CASE MainsBack
    BY <1>0, <2>7, Places DEF MainsBack, Excused
  <2>8. CASE KillPowerFails
    BY <1>0, <2>8, FailsDoes DEF Excused, Outage
  <2>9. QED
    BY <1>1, <2>1, <2>2, <2>3, <2>4, <2>5, <2>6, <2>7, <2>8, PassCases
<1>2. CASE OpenFails \/ OpenSucceeds \/ FirstFill \/ fillUPS \/ CheckState
  BY <1>0, <1>2, DeviceDoes DEF Excused, Outage
<1>3. CASE apcctrl_terminate \/ Crash
  BY <1>0, <1>3, EndDoes DEF Excused, Outage
<1>4. CASE Restart
  BY <1>0, <1>4, StartDoes DEF Excused
<1>5. CASE UNCHANGED vars
  BY <1>5 DEF vars, Excused, Outage
<1>6. QED
  BY <1>1, <1>2, <1>3, <1>4, <1>5 DEF Next, do_device

\* logonfail(): a pass that sees the mains leaves no prohibition of logins of
\* ours behind, whether the outage ended in a shutdown or not; unless the driver
\* hears that the mains are back while it is killing the power.
THEOREM LoginsComeBack ==
    ASSUME PlainUps, NoMainsInKill
    PROVE  Spec => []LoginsAllowedOnMains
<1> DEFINE Inv == Plain /\ Excused
<1>1. Init => Inv
  BY FreshTypes DEF Init, Plain, Excused, Halting
<1>2. Inv /\ [Next]_vars => Inv'
  BY PlainStays, ExcusedStays DEF vars, Plain
<1>3. TypeOK /\ Inv => LoginsAllowedOnMains
  BY DEF LoginsAllowedOnMains, Excused, TypeOK
<1>4. QED
  BY <1>1, <1>2, <1>3, TypeCorrect, PTL DEF Spec

-----------------------------------------------------------------------------
(* Events *)

\* OFFBATTERY takes back an ONBATTERY: the script has been told ONBATTERY since
\* the last all-clear.  The flag UPS_onbatt_msg says the same thing.
THEOREM OffbatteryPairs == Spec => OffbatteryPaired
<1> DEFINE Inv == "onbatt_msg" \in Status => "ONBATTERY" \in told
<1>1. Init => Inv
  BY FreshTypes DEF Init
<1>2. Inv /\ [Next]_vars => Inv'
  <2> SUFFICES ASSUME Inv, [Next]_vars, "onbatt_msg" \in Status'
               PROVE  "ONBATTERY" \in told'
    OBVIOUS
  <2>0. "onbatt_msg" \notin PassBits \cup {"shutdown", "fastpoll"} \cup DriverBits
    BY DEF PassBits, LimitBits, DriverBits
  <2>1. CASE Halts \/ HaltsOn \/ EndsPlainly \/ KillPowerFails
    BY <2>0, <2>1, HaltDoes, HaltsOnDoes, PlainlyDoes, FailsDoes
  <2>2. CASE MainsBack
    BY <2>2, LetsInDoes
  <2>3. CASE PowerFailure
    <3>1. PICK e \in {"STARTSELFTEST", "POWEROUT"} : Announce(<<e>>, {} \cup Notices)
      BY <2>3 DEF PowerFailure, Remember
    <3>2. told' = told \cup {e}
      BY <3>1, ToldOne DEF OutageEvents
    <3>3. QED
      BY <2>3, <3>2, LetsInDoes, WayState, StateBits DEF MainsBack, At
  <2>4. CASE KillPower
    <3>1. Announce(<<"KILLPOWER">>, {} \cup Notices)
      BY <2>4 DEF KillPower, Remember
    <3>2. \A j \in DOMAIN <<"KILLPOWER">> :
             <<"KILLPOWER">>[j] \notin AllClear \cup OutageEvents
      BY DEF AllClear, OutageEvents
    <3>3. told' = told
      BY <3>1, <3>2, ToldKept
    <3>4. QED
      BY <2>4, <3>3, LetsInDoes
  <2>5. CASE OpenFails \/ OpenSucceeds \/ FirstFill \/ fillUPS \/ CheckState
    BY <2>0, <2>5, DeviceDoes
  <2>6. CASE apcctrl_terminate \/ Crash
    BY <2>6, EndDoes
  <2>7. CASE Restart
    BY <2>7, StartDoes
  <2>8. CASE UNCHANGED vars
    BY <2>8 DEF vars
  <2>9. QED
    BY <2>1, <2>2, <2>3, <2>4, <2>5, <2>6, <2>7, <2>8, PassCases DEF Next, do_device
<1>3. Inv /\ [Next]_vars => [Says("OFFBATTERY")' => "ONBATTERY" \in told]_vars
  <2> SUFFICES ASSUME Inv, Next, Says("OFFBATTERY")'
               PROVE  "ONBATTERY" \in told
    OBVIOUS
  <2>1. MainsBack
    BY WhoOrders
  <2>2. PICK tested \in BOOLEAN : out' = Closing(tested)
    BY <2>1 DEF MainsBack, Remember, Announce
  <2>3. QED
    BY <2>2 DEF Closing, Says, Is
<1>4. QED
  BY <1>1, <1>2, <1>3, PTL DEF Spec, OffbatteryPaired

-----------------------------------------------------------------------------
(* The master *)

\* In the middle of a pass the driver is not told that the master goes down.
NoOrderInPass == \A r \in InPass : "shut_remote" \notin r.bits

\* A pass that found the order of the master has begun the shutdown, or found it
\* begun; only a new process forgets it.
Heeded == "shut_remote" \in PrevStatus => "shutdown" \in Status

\* No pass leaves an order of the master unheeded.
LEMMA PassHeeds ==
    ASSUME NoOrderInPass, Heeded, Phase, do_action
    PROVE  Heeded'
<1>1. /\ {"shut_remote", "shutdown"} \cap (PassBits \cup {"fastpoll", "onbatt_msg"}) = {}
      /\ "shutdown" \notin DriverBits
  BY DEF PassBits, LimitBits, DriverBits
<1>2. CASE Halts
  BY <1>2, HaltDoes DEF Heeded
<1>3. CASE HaltsOn
  BY <1>1, <1>3, HaltsOnDoes DEF Heeded, Phase
<1>4. CASE RemoteStays
  <2>1. "shutdown" \in Status
    BY <1>4 DEF RemoteStays, Chg, Remote, Is, Heeded
  <2>2. QED
    BY <1>1, <1>4, <2>1, PlainlyDoes DEF EndsPlainly, Heeded
<1>5. CASE EndsPlainly /\ ~RemoteStays
  <2>1. ~Remote
    BY <1>5, WayState, StateBits DEF EndsPlainly
  <2>2. QED
    BY <1>1, <1>5, <2>1, PlainlyDoes DEF Remote, Is, Heeded
<1>6. CASE PowerFailure \/ KillPower \/ MainsBack
  <2>1. "shut_remote" \notin Status
    BY <1>6, WayState, StateBits DEF Remote, Is
  <2>2. "shut_remote" \notin Status'
    BY <1>6, <2>1, InPassBits DEF NoOrderInPass
  <2>3. QED
    BY <1>6, <2>2, LetsInDoes DEF Heeded
<1>7. CASE KillPowerFails
  BY <1>7, FailsDoes DEF Heeded
<1>8. QED
  BY <1>2, <1>3, <1>4, <1>5, <1>6, <1>7, PassCases

\* "Remote is shutting down, so must we": no pass copies the order to PrevStatus,
\* where it would not be seen again, without a shutdown under way; unless a driver
\* lets the order in after the pass has looked for it, as pcnet does.
THEOREM MasterHeeded ==
    ASSUME NoOrderInPass
    PROVE  Spec => []RemoteHeeded
<1>1. Init => Heeded
  BY FreshTypes DEF Init, Heeded
<1>2. Heeded /\ Phase /\ [Next]_vars => Heeded'
  <2> SUFFICES ASSUME Heeded, Phase, [Next]_vars
               PROVE  Heeded'
    OBVIOUS
  <2>1. CASE do_action
    BY <2>1, PassHeeds
  <2>2. CASE OpenFails \/ OpenSucceeds \/ FirstFill \/ fillUPS \/ CheckState
    BY <2>2, DeviceDoes DEF DriverBits, Heeded
  <2>3. CASE apcctrl_terminate \/ Crash
    BY <2>3, EndDoes DEF Heeded
  <2>4. CASE Restart
    BY <2>4, StartDoes DEF Heeded
  <2>5. CASE UNCHANGED vars
    BY <2>5 DEF vars, Heeded
  <2>6. QED
    BY <2>1, <2>2, <2>3, <2>4, <2>5 DEF Next, do_device
<1>3. Heeded => RemoteHeeded
  BY DEF Heeded, RemoteHeeded, Is
<1>4. QED
  BY <1>1, <1>2, <1>3, PhaseStarts, PhaseStays, PTL DEF Spec

-----------------------------------------------------------------------------
(* Time *)

\* The timers of an outage are stamped by nothing but its events.
LEMMA OutageTimers ==
    ASSUME NEW ts
    PROVE  /\ "start" \notin ts => Stamp(ts)["start"] = age["start"]
           /\ "onbatt" \notin ts => Stamp(ts)["onbatt"] = age["onbatt"]
           /\ "on_line" \notin ts => Stamp(ts)["on_line"] = age["on_line"]
           /\ "SelfTest" \notin ts => Stamp(ts)["SelfTest"] = age["SelfTest"]
           /\ "onbatt" \in ts => Stamp(ts)["onbatt"] = 0
           /\ "on_line" \in ts => Stamp(ts)["on_line"] = 0
<1>1. {"start", "onbatt", "on_line", "SelfTest"} \subseteq Timers \ {"changeme", "lbatt"}
  BY DEF Timers
<1>2. QED
  BY <1>1, StampOne

\* The timers of an outage after a pass that neither begins nor ends one.
LEMMA PassAges ==
    ASSUME TypeOK, do_action, ~PowerFailure, ~MainsBack
    PROVE  /\ age'["start"] = age["start"] /\ age'["onbatt"] = age["onbatt"]
           /\ ConfirmOnBattery => age'["on_line"] = 0
           /\ ~OnMains /\ ~ConfirmOnBattery => age'["on_line"] = age["on_line"]
           /\ ~SelfTest => age'["SelfTest"] = age["SelfTest"]
           /\ SelfTest => IF age["SelfTest"] < SelfTestMax /\ ~Is("battlow")
                          THEN age'["SelfTest"] = age["SelfTest"]
                          ELSE age'["SelfTest"] = Never
<1>1. /\ {"start", "onbatt", "on_line", "SelfTest"} \subseteq Timers
      /\ {"start", "onbatt", "on_line", "SelfTest"} \cap (LimitTimers \cup {"annoy", "nologon"}) = {}
  BY DEF Timers, LimitTimers
<1>2. LimitStamps \subseteq LimitTimers
  BY DEF LimitStamps, LimitTimers, Given
<1>3. CASE Halts
  BY <1>1, <1>3, HaltDoes, WayState, StateBits, PlainlyDoes
     DEF SelfTest, ConfirmOnBattery, Halts, RemoteBegins, TimeLimit, BatteryLimit, Emergency,
         Undecided, At
<1>4. CASE HaltsOn
  BY <1>1, <1>4, HaltsOnDoes DEF SelfTest, ConfirmOnBattery, OnMains, At, Halting
<1>5. CASE RemoteStays \/ AwaitPowerOff \/ KeepWaiting \/ Calibration \/ KillPower
  <2>1. PICK ts : age' = Stamp(ts)
                  /\ {"start", "onbatt", "on_line", "SelfTest"} \cap ts = {}
    BY <1>1, <1>2, <1>5 DEF RemoteStays, AwaitPowerOff, KeepWaiting, Calibration, KillPower, Given
  <2>2. ~SelfTest /\ ~ConfirmOnBattery
    BY <1>5 DEF RemoteStays, AwaitPowerOff, AwaitEnd, KeepWaiting, Undecided, Calibration,
                KillPower, SelfTest, ConfirmOnBattery, At
  <2>3. QED
    BY <2>1, <2>2, OutageTimers
<1>6. CASE OnMains \/ ConfirmOnBattery
  <2>1. age' = Stamp({"nologon", "annoy", "on_line"}) /\ ~SelfTest
    BY <1>6 DEF OnMains, ConfirmOnBattery, SelfTest, At
  <2>2. QED
    BY <1>6, <2>1, OutageTimers
<1>7. CASE SelfTest
  <2>1. ~ConfirmOnBattery
    BY <1>7 DEF SelfTest, ConfirmOnBattery, At
  <2>2. CASE age["SelfTest"] < SelfTestMax /\ ~Is("battlow")
    BY <1>7, <2>1, <2>2, OutageTimers DEF SelfTest
  <2>3. CASE ~(age["SelfTest"] < SelfTestMax /\ ~Is("battlow"))
    <3>1. age' = [Stamp({}) EXCEPT !["SelfTest"] = Never]
      BY <1>7, <2>3 DEF SelfTest
    <3>2. QED
      BY <1>1, <1>7, <2>1, <2>3, <3>1, StampAges, OutageTimers DEF Ages
  <2>4. QED
    BY <2>2, <2>3
<1>8. CASE KillPowerFails
  BY <1>8, FailsDoes DEF KillPowerFails, AwaitEnd, SelfTest, ConfirmOnBattery, At
<1>9. QED
  BY <1>3, <1>4, <1>5, <1>6, <1>7, <1>8, PassCases DEF EndsPlainly

\* ... that detects one, and takes it for an outage or for a self test,
LEMMA FailureAges ==
    ASSUME PowerFailure
    PROVE  /\ age'["start"] = age["start"] /\ age'["onbatt"] = 0 /\ age'["on_line"] = 0
           /\ age'["SelfTest"] = age["SelfTest"]
              \/ (age'["SelfTest"] = 0 /\ TRUE \in SelfTestAnswers)
<1>1. PICK test \in SelfTestAnswers :
         age' = Stamp(FailureStamps \cup Given(test, {"SelfTest"}))
  BY DEF PowerFailure
<1>2. test \in BOOLEAN
  BY ReportAssumption
<1>3. Given(test, {"SelfTest"}) = IF test = TRUE THEN {"SelfTest"} ELSE {}
  BY <1>2 DEF Given
<1>4. CASE test = TRUE
  <2> DEFINE ts == FailureStamps \cup {"SelfTest"}
  <2>1. age' = Stamp(ts) /\ "SelfTest" \in Timers \ {"changeme", "lbatt"}
    BY <1>1, <1>3, <1>4 DEF Timers
  <2>2. "start" \notin ts /\ {"onbatt", "on_line", "SelfTest"} \subseteq ts
    BY DEF FailureStamps
  <2> HIDE DEF ts
  <2>3. QED
    BY <1>4, <2>1, <2>2, OutageTimers, StampOne
<1>5. CASE test = FALSE
  BY <1>1, <1>3, <1>5, OutageTimers DEF FailureStamps
<1>6. QED
  BY <1>2, <1>4, <1>5

\* ... and that finds the mains back.
LEMMA MainsAges ==
    ASSUME TypeOK, MainsBack
    PROVE  age'["start"] = age["start"] /\ age'["SelfTest"] = Never
<1> DEFINE ts == Given(age["onbatt"] = Never, {"onbatt"})
<1>1. age' = [Stamp(ts) EXCEPT !["SelfTest"] = Never]
  BY DEF MainsBack
<1>2. "start" \notin ts /\ {"start", "SelfTest"} \subseteq Timers
  BY DEF Given, Timers
<1>3. Stamp(ts) \in Ages
  BY StampAges
<1> HIDE DEF ts
<1>4. QED
  BY <1>1, <1>2, <1>3, OutageTimers DEF Ages

\* What the passing of time does to an age.
LEMMA ElapsedOne ==
    ASSUME TypeOK, NEW d \in Nat, NEW t \in Timers
    PROVE  /\ Elapsed(d)[t] <= age[t] + d
           /\ Elapsed(d)[t] = age[t] + d \/ Elapsed(d)[t] = Horizon[t] \/ age[t] = Never
           /\ age[t] = Never <=> Elapsed(d)[t] = Never
           /\ age[t] = Never \/ (age[t] >= 0 /\ Elapsed(d)[t] >= 0)
           /\ Elapsed(d)[t] <= Horizon[t]
<1>1. Horizon[t] \in Nat /\ age[t] \in Never .. Horizon[t]
  BY HorizonAssumption DEF TypeOK
<1>2. Elapsed(d)[t] = IF age[t] = Never THEN Never ELSE Least(age[t] + d, Horizon[t])
  BY DEF Elapsed
<1>3. QED
  BY <1>1, <1>2 DEF Least, Never

\* While it waits for the result of a self test the driver is not told of an outage.
NoOutageHeard == \A r \in During["message"] : "onbatt" \notin r.bits

\* What the driver hears during a pass of the line agrees with what the pass has found.
SteadyLine ==
    /\ NoOutageHeard /\ NoMainsInKill
    /\ \A r \in During["check"] : "onbatt" \in r.bits

\* In the pass that says so the mains stay back, with a steady line.
LEMMA MainsAreBack ==
    ASSUME NoOutageHeard, MainsBack
    PROVE  ~Outage'
<1>1. "onbatt" \notin AfterOutage
  BY WayState, StateBits DEF AfterOutage, Settled
<1>2. \A r \in During["message"] : "onbatt" \notin r.bits
  BY DEF NoOutageHeard
<1>3. "onbatt" \notin Status'
  <2>1. \E rs \in SUBSET During["message"] : Install(rs, AfterOutage)
    BY DEF MainsBack
  <2>2. QED
    BY <1>1, <1>2, <2>1 DEF Install
<1>4. QED
  BY <1>3, LetsInDoes DEF Outage

\* And in the pass that says so the power stays away.
LEMMA FailureIsOutage ==
    ASSUME SteadyLine, PowerFailure
    PROVE  Outage'
<1>1. "onbatt" \in Settled \cup {"fastpoll"}
  BY WayState, StateBits DEF Settled, Given
<1>2. "onbatt" \in Status'
  BY <1>1 DEF PowerFailure, Install, SteadyLine
<1>3. QED
  BY <1>2, LetsInDoes DEF Outage

\* The seconds counted so far and those of the outage under way are seconds of this
\* process; saturated, the age of the start cannot tell.
Spent ==
    /\ cum_time_on_batt <= age["start"]
    /\ pc \in {"open", "start"} => ~Outage
    /\ pc \in Halting => Outage
    /\ Outage => \/ age["start"] = Horizon["start"]
                 \/ age["onbatt"] >= 0 /\ cum_time_on_batt + age["onbatt"] <= age["start"]

\* A pass that neither begins nor ends an outage counts nothing and stamps neither
\* the start of the process nor that of the outage.
LEMMA SpentPass ==
    ASSUME NoOutageHeard, TypeOK, Plain, Spent, do_action
    PROVE  Spent'
<1>1. /\ Horizon["start"] \in Nat
      /\ age["start"] \in Never .. Horizon["start"] /\ age["onbatt"] \in Never .. Horizon["onbatt"]
      /\ cum_time_on_batt \in 0 .. Horizon["start"]
  BY HorizonAssumption DEF TypeOK, Timers
<1>2. /\ pc' \notin {"open", "start"}
      /\ {"fill", "check", "dead", "stuck"} \cap Halting = {}
  BY PassPlace DEF Halting
<1>3. CASE PowerFailure
  <2>1. pc' \notin Halting /\ UNCHANGED cum_time_on_batt
    BY <1>2, <1>3, LetsInDoes, Places DEF PowerFailure
  <2>2. age'["start"] = age["start"] /\ age'["onbatt"] = 0
    BY <1>3, FailureAges
  <2>3. QED
    BY <1>1, <1>2, <2>1, <2>2 DEF Spent
<1>4. CASE MainsBack
  <2>1. Outage /\ ~Outage' /\ pc' \notin Halting
    BY <1>2, <1>4, WayState, StateBits, MainsAreBack, LetsInDoes, Places
  <2>2. age'["start"] = age["start"]
    BY <1>4, MainsAges
  <2> DEFINE length == IF age["onbatt"] = Never THEN 0 ELSE age["onbatt"]
  <2>3. cum_time_on_batt' = Least(cum_time_on_batt + length, Horizon["start"])
    BY <1>4 DEF MainsBack
  <2>4. cum_time_on_batt' <= age["start"]
    <3>1. CASE age["start"] = Horizon["start"]
      BY <1>1, <2>3, <3>1 DEF Least, Never
    <3>2. CASE age["onbatt"] >= 0 /\ cum_time_on_batt + age["onbatt"] <= age["start"]
      BY <1>1, <2>3, <3>2 DEF Least, Never
    <3>3. QED
      BY <2>1, <3>1, <3>2 DEF Spent
  <2>5. QED
    BY <1>2, <2>1, <2>2, <2>4 DEF Spent
<1>5. CASE ~PowerFailure /\ ~MainsBack
  <2>1. age'["start"] = age["start"] /\ age'["onbatt"] = age["onbatt"]
    BY <1>5, PassAges
  <2>2. UNCHANGED cum_time_on_batt
    BY <1>5, PassCases, HaltDoes, HaltsOnDoes, PlainlyDoes, LetsInDoes, FailsDoes
  <2>3. Outage' => Outage
    <3>1. "onbatt" \notin PassBits \cup {"fastpoll", "onbatt_msg"}
      BY DEF PassBits, LimitBits
    <3>2. Outage \/ (PrevStatus' = Status' /\ "onbatt" \notin Status')
                 \/ PrevStatus' = PrevStatus
      <4>1. CASE OnMains
        BY <3>1, <4>1, WayState, StateBits, PlainlyDoes DEF EndsPlainly
      <4>2. CASE ~OnMains
        BY <1>5, <4>2, PassCases, HaltDoes, HaltsOnDoes, FailsDoes, WayState, StateBits, PlainWays
           DEF EndsPlainly, Spent
      <4>3. QED
        BY <4>1, <4>2
    <3>3. QED
      BY <3>2 DEF Outage
  <2>4. pc' \in Halting => Outage'
    <3>1. CASE Halts
      BY <3>1, HaltDoes, WayState, StateBits, PlainWays DEF Outage
    <3>2. CASE HaltsOn
      BY <1>2, <3>2, HaltsOnDoes DEF Spent, Outage
    <3>3. CASE ~Halts /\ ~HaltsOn
      BY <1>2, <1>5, <3>3, PassCases, PlainlyDoes, LetsInDoes, FailsDoes, Places
    <3>4. QED
      BY <3>1, <3>2, <3>3
  <2>5. QED
    BY <1>1, <1>2, <2>1, <2>2, <2>3, <2>4 DEF Spent
<1>6. QED
  BY <1>3, <1>4, <1>5

\* The time on batteries grows no faster than the time since the start.
LEMMA SpentDevice ==
    ASSUME TypeOK, Spent, OpenFails \/ OpenSucceeds \/ FirstFill \/ fillUPS \/ CheckState
    PROVE  Spent'
<1>1. {"start", "onbatt"} \subseteq Timers /\ "start" # "comm" /\ "onbatt" # "comm"
  BY DEF Timers
<1>2. PICK d \in Nat : /\ age'["start"] = Elapsed(d)["start"]
                       /\ age'["onbatt"] = Elapsed(d)["onbatt"]
  <2>. DEFINE By(d) == /\ age'["start"] = Elapsed(d)["start"]
                       /\ age'["onbatt"] = Elapsed(d)["onbatt"]
  <2>1. CASE OpenFails
    <3>1. OpenRetry \in Nat /\ Elapsed(OpenRetry) \in [Timers -> Int]
      BY DirectiveAssumption, ElapsedAges DEF Ages
    <3>2. PICK w : age' = [Elapsed(OpenRetry) EXCEPT !["comm"] = w]
      BY <2>1 DEF OpenFails
    <3>3. By(OpenRetry)
      BY <1>1, <3>1, <3>2
    <3>4. QED
      BY <3>1, <3>3
  <2>2. CASE OpenSucceeds
    <3>1. \A t \in Timers : Elapsed(0)[t] = age[t]
      BY HorizonAssumption DEF Elapsed, Least, TypeOK, Never
    <3>2. age' = age
      BY <2>2 DEF OpenSucceeds
    <3>3. By(0)
      BY <1>1, <3>1, <3>2
    <3>4. QED
      BY <3>3
  <2>3. CASE FirstFill
    <3>1. PICK d \in 0 .. FillMax :
             age' = [t \in Timers |-> IF t \in {"nologon", "annoy", "on_line"} THEN 0
                                      ELSE Elapsed(d)[t]]
      BY <2>3 DEF FirstFill
    <3>2. d \in Nat
      BY DirectiveAssumption
    <3>3. By(d)
      BY <1>1, <3>1
    <3>4. QED
      BY <3>2, <3>3
  <2>4. CASE fillUPS
    <3>1. PICK d \in 0 .. FillMax : age' = Elapsed(d)
      BY <2>4 DEF fillUPS
    <3>2. d \in Nat
      BY DirectiveAssumption
    <3>3. By(d)
      BY <3>1
    <3>4. QED
      BY <3>2, <3>3
  <2>5. CASE CheckState
    <3>1. PICK d \in 0 .. device_wait_time : age' = Elapsed(d)
      BY <2>5 DEF CheckState, Sleep
    <3>2. device_wait_time \in Nat
      BY DirectiveAssumption DEF device_wait_time
    <3>3. d \in Nat
      BY <3>2
    <3>4. By(d)
      BY <3>1
    <3>5. QED
      BY <3>3, <3>4
  <2>6. QED
    BY <2>1, <2>2, <2>3, <2>4, <2>5
<1>3. /\ Outage' => Outage /\ pc \notin {"open", "start"}
      /\ pc' \in {"open", "start"} => pc \in {"open", "start"}
      /\ cum_time_on_batt' = cum_time_on_batt
      /\ pc' \notin Halting
  BY DEF OpenFails, OpenSucceeds, FirstFill, fillUPS, CheckState, Sleep, Quiet, Outage, Spent,
         Halting
<1>4. /\ Horizon["start"] \in Nat /\ Horizon["onbatt"] \in Nat
      /\ age["start"] \in Never .. Horizon["start"] /\ age["onbatt"] \in Never .. Horizon["onbatt"]
      /\ cum_time_on_batt \in 0 .. Horizon["start"]
  BY <1>1, HorizonAssumption DEF TypeOK
<1>5. /\ age'["start"] = age["start"] + d \/ age'["start"] = Horizon["start"]
      /\ age["onbatt"] >= 0 => age'["onbatt"] >= 0 /\ age'["onbatt"] <= age["onbatt"] + d
      /\ age'["start"] \in Int /\ age'["start"] <= Horizon["start"] /\ age'["onbatt"] \in Int
  <2>1. Elapsed(d) \in Ages
    BY ElapsedAges
  <2>2. age["start"] >= 0
    BY <1>4 DEF Spent, Never
  <2>3. QED
    BY <1>1, <1>2, <1>4, <2>1, <2>2, ElapsedOne DEF Ages, Never
<1>6. cum_time_on_batt' <= age'["start"]
  BY <1>3, <1>4, <1>5 DEF Spent
<1>7. Outage' => \/ age'["start"] = Horizon["start"]
                 \/ age'["onbatt"] >= 0 /\ cum_time_on_batt' + age'["onbatt"] <= age'["start"]
  BY <1>3, <1>4, <1>5 DEF Spent
<1>8. QED
  BY <1>3, <1>6, <1>7 DEF Spent

\* "Total (cumulative) time on batteries in seconds since apcctrl startup": it does not
\* exceed the time since the start, however many outages and self tests there were. A
\* calibration that follows an outage is left out: it counts from that outage on.
THEOREM TimeOnBatteries ==
    ASSUME PlainUps, NoOutageHeard
    PROVE  Spec => []CumulativeTimeSane
<1> DEFINE Inv == Plain /\ Spent
<1>1. Init => Inv
  <2>1. Fresh.age["start"] = 0
    BY Zenon DEF Fresh, Timers
  <2>2. QED
    BY <2>1, FreshTypes DEF Init, Spent, Plain, Outage, Halting
<1>2. TypeOK /\ Inv /\ [Next]_vars => Inv'
  <2> SUFFICES ASSUME TypeOK, Plain, Spent, [Next]_vars
               PROVE  Spent'
    BY PlainStays DEF vars, Plain
  <2>1. CASE do_action
    BY <2>1, SpentPass
  <2>2. CASE OpenFails \/ OpenSucceeds \/ FirstFill \/ fillUPS \/ CheckState
    BY <2>2, SpentDevice
  <2>3. CASE apcctrl_terminate \/ Crash
    BY <2>3, EndDoes DEF Spent, Outage, Halting
  <2>4. CASE Restart
    <3>1. age'["start"] = 0
      BY <2>4, Zenon DEF Restart, Fresh, Timers
    <3>2. QED
      BY <2>4, <3>1, StartDoes DEF Spent, Outage, Halting
  <2>5. CASE UNCHANGED vars
    BY <2>5 DEF vars, Spent, Outage
  <2>6. QED
    BY <2>1, <2>2, <2>3, <2>4, <2>5 DEF Next, do_device
<1>3. Inv => CumulativeTimeSane
  BY DEF Spent, CumulativeTimeSane
<1>4. QED
  BY <1>1, <1>2, <1>3, TypeCorrect, PTL DEF Spec

-----------------------------------------------------------------------------
(* An outage from its beginning to its end *)

\* A UPS that reports neither calibrations nor a shutdown of a master, nor self tests,
\* and does not change its mind about the line in the middle of a pass.
LineOnly == PlainUps /\ SteadyLine /\ SelfTestAnswers = {FALSE}

\* A status bit, or a time stamp, that a step leaves as it is.
Keeps(b) == b \in Status' <=> b \in Status
Holds(t) == age'[t] = age[t]

\* A pass that ends in the step it begins in.
Whole == pc \in {"act1", "act2"} /\ PrevStatus' = Status'

\* What a pass of do_action() can be for such a UPS, in terms of what it says, of the
\* two bits that remember what was said, and of the two time stamps of an outage.
Resting ==
    /\ Whole /\ ~Outage /\ ~Outage'
    /\ out' = <<>> /\ told' = told /\ Keeps("onbatt_msg") /\ Keeps("shutdown")
Beginning ==
    /\ Whole /\ ~Outage /\ Outage'
    /\ out' = <<"POWEROUT">> /\ told' = told \cup {"POWEROUT"}
    /\ Keeps("onbatt_msg") /\ Keeps("shutdown")
    /\ age'["onbatt"] = 0 /\ age'["on_line"] = 0
Confirming ==
    /\ Whole /\ Outage /\ Outage' /\ ~Is("onbatt_msg")
    /\ out' = <<"ONBATTERY">> /\ told' = told \cup {"ONBATTERY"}
    /\ "onbatt_msg" \in Status' /\ Keeps("shutdown")
    /\ Holds("onbatt") /\ age'["on_line"] = 0
Waiting ==
    /\ Whole /\ Outage /\ Outage' /\ ~Confirmable /\ (Is("shutdown") \/ ~TimedOut)
    /\ out' \in {<<>>, <<"KILLPOWER">>} /\ (out' # <<>> => Is("shutdown")) /\ told' = told
    /\ Keeps("onbatt_msg") /\ Keeps("shutdown")
    /\ Holds("onbatt") /\ Holds("on_line")
Deciding ==
    /\ pc \in {"act1", "act2"} /\ PrevStatus' = PrevStatus
    /\ Outage /\ Outage' /\ ~Confirmable /\ ~Is("shutdown")
    /\ \E e \in Reasons : out' = <<e>>
    /\ told' = told
    /\ Keeps("onbatt_msg") /\ "shutdown" \in Status'
    /\ Holds("onbatt") /\ Holds("on_line")
Obeying ==
    /\ HaltsOn /\ Outage /\ Outage'
    /\ out' \in {<<>>, <<"KILLPOWER">>, <<"DOSHUTDOWN">>} /\ told' = told
    /\ out' = <<"DOSHUTDOWN">> <=> Order
    /\ Keeps("onbatt_msg") /\ Keeps("shutdown")
    /\ Holds("onbatt") /\ Holds("on_line")
Ending ==
    /\ Whole /\ Outage /\ ~Outage'
    /\ out' = IF Is("onbatt_msg") THEN <<"OFFBATTERY", "MAINSBACK">> ELSE <<"MAINSBACK">>
    /\ told' = {}
    /\ "onbatt_msg" \notin Status' /\ Keeps("shutdown")
Giving_up ==
    /\ pc' \in {"dead", "stuck"} /\ out' = <<>> /\ told' = told
    /\ UNCHANGED <<Status, PrevStatus, age>>

\* Any of them.
Pass == \/ Resting \/ Beginning \/ Confirming \/ Waiting \/ Deciding \/ Obeying
        \/ Ending \/ Giving_up

\* While no self test is under way every pass but the one that detects an outage is of
\* one of the kinds.
LEMMA QuietKinds ==
    ASSUME SteadyLine, TypeOK, Plain, Excused, age["SelfTest"] = Never, do_action, ~PowerFailure
    PROVE  Pass /\ age'["SelfTest"] = Never
<1>1. /\ {"onbatt", "onbatt_msg", "shutdown"} \cap PassBits = {}
      /\ {"onbatt", "onbatt_msg"} \cap {"shutdown", "fastpoll"} = {}
      /\ {"onbatt_msg", "shutdown"} \cap DriverBits = {}
      /\ {"onbatt", "on_line", "SelfTest"} \subseteq Timers \ (LimitTimers \cup {"annoy"})
  BY DEF PassBits, LimitBits, DriverBits, Timers, LimitTimers
<1>2. age'["SelfTest"] = Never
  <2>1. CASE MainsBack
    BY <2>1, MainsAges
  <2>2. CASE ~MainsBack
    BY <2>2, PassAges
  <2>3. QED
    BY <2>1, <2>2
<1>3. ~MainsBack => Holds("onbatt")
  BY PassAges DEF Holds
<1>4. ~MainsBack /\ ~OnMains /\ ~ConfirmOnBattery => Holds("on_line")
  BY PassAges DEF Holds
<1>5. ~SelfTest /\ ~RemoteStays /\ ~Calibration
  BY WayState, StateBits, PlainWays
<1>15. EndsPlainly \/ KillPower \/ MainsBack => Whole
  BY PlainlyDoes, LetsInDoes DEF Whole
<1>6. CASE OnMains
  <2>1. /\ EndsPlainly /\ ~Outage /\ "onbatt" \notin Status
        /\ ~ConfirmOnBattery /\ ~RemoteStays
    BY <1>5, <1>6, WayState, StateBits DEF EndsPlainly
  <2>2. ~Outage' /\ Keeps("onbatt_msg") /\ Keeps("shutdown") /\ told' = told /\ out' = <<>>
    BY <1>1, <2>1, PlainlyDoes DEF Outage, Keeps
  <2>3. QED
    BY <1>2, <1>15, <2>1, <2>2 DEF Pass, Resting
<1>7. CASE ConfirmOnBattery
  <2>1. EndsPlainly /\ Outage /\ "onbatt" \in Status /\ ~Is("onbatt_msg")
    BY <1>7, WayState, StateBits DEF EndsPlainly, ConfirmOnBattery, Confirmable
  <2>2. age'["on_line"] = 0 /\ ~MainsBack
    BY <1>7, PassAges, WayState, StateBits
  <2>3. Outage' /\ "onbatt_msg" \in Status' /\ Keeps("shutdown")
        /\ told' = told \cup {"ONBATTERY"} /\ out' = <<"ONBATTERY">>
    BY <1>1, <1>7, <2>1, PlainlyDoes DEF Outage, Keeps
  <2>4. QED
    BY <1>2, <1>3, <1>15, <2>1, <2>2, <2>3 DEF Pass, Confirming
<1>8. CASE AwaitPowerOff \/ KeepWaiting
  <2>1. /\ EndsPlainly /\ Outage /\ "onbatt" \in Status /\ ~Confirmable
        /\ Is("shutdown") \/ ~TimedOut
        /\ ~MainsBack /\ ~OnMains /\ ~ConfirmOnBattery
    BY <1>8, WayState, StateBits
       DEF EndsPlainly, AwaitPowerOff, AwaitEnd, KeepWaiting, Undecided, ConfirmOnBattery
  <2>2. Outage' /\ Keeps("onbatt_msg") /\ Keeps("shutdown") /\ told' = told /\ out' = <<>>
    BY <1>1, <1>5, <2>1, PlainlyDoes DEF Outage, Keeps
  <2>3. QED
    BY <1>2, <1>3, <1>4, <1>15, <2>1, <2>2 DEF Pass, Waiting
<1>9. CASE KillPower
  <2>1. /\ Outage /\ "onbatt" \in Status /\ ~Confirmable /\ Is("shutdown")
        /\ ~MainsBack /\ ~OnMains /\ ~ConfirmOnBattery
    BY <1>9, WayState, StateBits DEF KillPower, AwaitEnd, ConfirmOnBattery
  <2>2. Outage'
    BY <1>9, <2>1, KillKeepsOutage, LetsInDoes DEF SteadyLine, Outage
  <2>3. Keeps("onbatt_msg") /\ Keeps("shutdown")
    BY <1>1, <1>9, <2>1, LetsInDoes DEF Keeps
  <2>4. out' = <<"KILLPOWER">> /\ told' = told
    <3>1. Announce(<<"KILLPOWER">>, {} \cup Notices)
      BY <1>9 DEF KillPower, Remember
    <3>2. \A j \in DOMAIN <<"KILLPOWER">> :
             <<"KILLPOWER">>[j] \notin AllClear \cup OutageEvents
      BY DEF AllClear, OutageEvents
    <3>3. QED
      BY <3>1, <3>2, ToldKept DEF Announce
  <2>5. QED
    BY <1>2, <1>3, <1>4, <1>9, <1>15, <2>1, <2>2, <2>3, <2>4 DEF Pass, Waiting
<1>10. CASE KillPowerFails
  BY <1>2, <1>10, FailsDoes DEF Pass, Giving_up
<1>11. CASE Halts
  <2>1. /\ Outage /\ ~Confirmable /\ ~Is("shutdown") /\ ~Remote
        /\ ~MainsBack /\ ~OnMains /\ ~ConfirmOnBattery
    BY <1>11, HaltDoes, PlainWays, WayState, StateBits DEF Undecided, ConfirmOnBattery
  <2>2. PICK e \in Reasons : out' = <<e>>
    BY <1>11, <2>1, HaltDoes
  <2>3. Outage' /\ Keeps("onbatt_msg") /\ "shutdown" \in Status' /\ told' = told
    BY <1>1, <1>11, <2>1, HaltDoes DEF Outage, Keeps
  <2>4. QED
    BY <1>2, <1>3, <1>4, <1>11, <2>1, <2>2, <2>3, HaltDoes DEF Pass, Deciding
<1>12. CASE HaltsOn
  <2>1. Outage /\ "onbatt" \in Status /\ pc \in Halting
    BY <1>12, HaltsOnDoes DEF Excused
  <2>2. ~MainsBack /\ ~OnMains /\ ~ConfirmOnBattery
    BY <2>1, WayState, StateBits DEF Halting
  <2>3. "onbatt" \in Status'
    BY <1>12, <2>1, HaltsOnDoes, KillKeepsOutage DEF SteadyLine
  <2>4. Outage'
    BY <1>12, <2>1, <2>3, HaltsOnDoes DEF Outage
  <2>5. /\ Keeps("onbatt_msg") /\ Keeps("shutdown") /\ told' = told
        /\ out' \in {<<>>, <<"KILLPOWER">>, <<"DOSHUTDOWN">>}
        /\ out' = <<"DOSHUTDOWN">> <=> Order
    BY <1>1, <1>12, HaltsOnDoes DEF Keeps
  <2>6. Holds("onbatt") /\ Holds("on_line")
    BY <1>3, <1>4, <2>2
  <2>7. Obeying
    BY <1>12, <2>1, <2>4, <2>5, <2>6 DEF Obeying
  <2>8. QED
    BY <1>2, <2>7 DEF Pass
<1>13. CASE MainsBack
  <2>1. Outage /\ ~Outage'
    BY <1>13, WayState, StateBits, MainsAreBack DEF SteadyLine
  <2>2. "onbatt_msg" \notin Status' /\ Keeps("shutdown")
    BY <1>1, <1>13, LetsInDoes DEF Keeps
  <2>3. Announce(Closing(FALSE), {} \cup Notices)
    BY <1>13 DEF MainsBack, Remember
  <2>4. told' = {} /\ out' = IF Is("onbatt_msg") THEN <<"OFFBATTERY", "MAINSBACK">>
                             ELSE <<"MAINSBACK">>
    <3>1. CASE Is("onbatt_msg")
      <4>1. Announce(<<"OFFBATTERY", "MAINSBACK">>, {} \cup Notices)
        BY <2>3, <3>1 DEF Closing
      <4>2. <<"OFFBATTERY", "MAINSBACK">>[2] \in AllClear
        BY DEF AllClear
      <4>3. 2 \in DOMAIN <<"OFFBATTERY", "MAINSBACK">>
        OBVIOUS
      <4>4. QED
        BY <3>1, <4>1, <4>2, <4>3, ToldClear DEF Announce
    <3>2. CASE ~Is("onbatt_msg")
      <4>1. Announce(<<"MAINSBACK">>, {} \cup Notices)
        BY <2>3, <3>2 DEF Closing
      <4>2. <<"MAINSBACK">>[1] \in AllClear
        BY DEF AllClear
      <4>3. 1 \in DOMAIN <<"MAINSBACK">>
        OBVIOUS
      <4>4. QED
        BY <3>2, <4>1, <4>2, <4>3, ToldClear DEF Announce
    <3>3. QED
      BY <3>1, <3>2
  <2>5. QED
    BY <1>2, <1>13, <1>15, <2>1, <2>2, <2>4 DEF Pass, Ending
<1>14. QED
  BY <1>5, <1>6, <1>7, <1>8, <1>9, <1>10, <1>11, <1>12, <1>13, PassCases DEF EndsPlainly

\* For a UPS without self tests that one is of a kind too, and no self test begins.
LEMMA PassKinds ==
    ASSUME LineOnly, TypeOK, Plain, Excused, age["SelfTest"] = Never, do_action
    PROVE  Pass /\ age'["SelfTest"] = Never
<1>1. CASE PowerFailure
  <2>1. Keeps("onbatt_msg") /\ Keeps("shutdown")
    BY <1>1, LetsInDoes, WayState, StateBits DEF DriverBits, Keeps, MainsBack, At
  <2>2. ~Outage /\ Outage' /\ age'["onbatt"] = 0 /\ age'["on_line"] = 0
    BY <1>1, WayState, StateBits, FailureIsOutage, FailureAges DEF LineOnly
  <2>3. age'["SelfTest"] = Never
    BY <1>1, FailureAges DEF LineOnly
  <2>4. Announce(<<"POWEROUT">>, {} \cup Notices)
    BY <1>1 DEF PowerFailure, LineOnly, Remember
  <2>5. told' = told \cup {"POWEROUT"} /\ out' = <<"POWEROUT">>
    BY <2>4, ToldOne DEF OutageEvents, Announce
  <2>6. Whole
    BY <1>1, LetsInDoes DEF Whole
  <2>7. QED
    BY <2>1, <2>2, <2>3, <2>5, <2>6 DEF Pass, Beginning
<1>2. CASE ~PowerFailure
  BY <1>2, QuietKinds DEF LineOnly
<1>3. QED
  BY <1>1, <1>2

\* A power problem is detected: it is taken for an outage, or for a self test.
LEMMA TestBegins ==
    ASSUME SteadyLine, PowerFailure, age["SelfTest"] = Never
    PROVE  /\ ~Outage /\ Outage' /\ Keeps("onbatt_msg") /\ Keeps("shutdown")
           /\ age'["onbatt"] = 0 /\ age'["on_line"] = 0
           /\ age'["SelfTest"] # Never => age'["SelfTest"] = 0 /\ MayTest
           /\ pc' \in {"fill", "check"}
<1>1. Keeps("onbatt_msg") /\ Keeps("shutdown") /\ pc' \in {"fill", "check"}
  BY LetsInDoes, WayState, StateBits, Places DEF DriverBits, Keeps, MainsBack, At
<1>2. QED
  BY <1>1, WayState, StateBits, FailureIsOutage, FailureAges DEF MayTest

\* A pass in what is taken for a self test: the test goes on or is given up, and nothing
\* is said; or the power is back.
Doubting ==
    /\ Outage' /\ Keeps("onbatt_msg") /\ Keeps("shutdown")
    /\ Holds("onbatt") /\ Holds("on_line")
    /\ \/ Holds("SelfTest") /\ age["SelfTest"] < SelfTestMax
       \/ age'["SelfTest"] = Never
Doubtless == ~Outage' /\ "onbatt_msg" \notin Status' /\ age'["SelfTest"] = Never

\* There is no other.
LEMMA TestGoesOn ==
    ASSUME TypeOK, Plain, SteadyLine, Outage, age["SelfTest"] # Never, pc \notin Halting,
           do_action
    PROVE  /\ (SelfTest /\ Doubting) \/ (MainsBack /\ Doubtless)
           /\ pc' \in {"fill", "check"}
<1>1. SelfTest \/ MainsBack
  <2>1. ~HaltsOn
    BY HaltsOnDoes
  <2>2. ~Halts
    BY HaltDoes, PlainWays, WayState, StateBits
  <2>3. QED
    BY <2>1, <2>2, PassCases, PlainWays, WayState, StateBits DEF EndsPlainly
<1>2. pc' \in {"fill", "check"}
  BY <1>1, PlainlyDoes, LetsInDoes, Places DEF EndsPlainly
<1>3. ASSUME SelfTest PROVE Doubting
  <2>1. EndsPlainly /\ "onbatt" \in Status /\ ~ConfirmOnBattery /\ ~PowerFailure /\ ~MainsBack
        /\ ~OnMains
    BY <1>3, WayState, StateBits DEF EndsPlainly
  <2>2. {"onbatt", "shutdown"} \cap (PassBits \cup {"fastpoll", "onbatt_msg"}) = {}
    BY DEF PassBits, LimitBits
  <2>3. Outage' /\ Keeps("onbatt_msg") /\ Keeps("shutdown")
    BY <2>1, <2>2, PlainlyDoes DEF Outage, Keeps
  <2>4. QED
    BY <1>3, <2>1, <2>3, PassAges DEF Doubting, Holds
<1>4. ASSUME MainsBack PROVE Doubtless
  BY <1>4, MainsAreBack, LetsInDoes, MainsAges DEF Doubtless, SteadyLine
<1>5. QED
  BY <1>1, <1>2, <1>3, <1>4

\* What the other steps do to what an outage is told by: nothing but let time pass.
Still ==
    /\ out' = <<>> /\ told' = told
    /\ PrevStatus' = PrevStatus /\ Keeps("onbatt_msg") /\ Keeps("shutdown")

\* A new process knows of nothing.
Reset ==
    /\ out' = <<>> /\ told' = {} /\ pc' = "open"
    /\ ~Outage' /\ "onbatt_msg" \notin Status' /\ "shutdown" \notin Status' \cup PrevStatus'
    /\ age'["SelfTest"] = Never /\ age'["on_line"] # Never

\* Time passes; the first read begins the count on mains.
Passing(d) ==
    /\ age'["SelfTest"] = Elapsed(d)["SelfTest"] /\ age'["onbatt"] = Elapsed(d)["onbatt"]
    /\ \/ age'["on_line"] = Elapsed(d)["on_line"]
       \/ pc = "start" /\ age'["on_line"] = 0

\* The steps of the loop outside do_action(); an outage is polled every Gap at least.
LEMMA DeviceKinds ==
    ASSUME TypeOK, OpenFails \/ OpenSucceeds \/ FirstFill \/ fillUPS \/ CheckState
    PROVE  /\ Still
           /\ \E d \in Nat :
                 /\ Passing(d)
                 /\ pc \in {"fill", "check"} /\ (pc = "check" => Is("fastpoll")) => d <= Gap
           /\ pc' \notin {"fill", "check", "dead", "stuck"} \cup Halting
           /\ pc' \in {"open", "start"} => pc \in {"open", "start"}
<1>1. {"SelfTest", "onbatt", "on_line"} \subseteq Timers \ {"comm"} /\ "comm" \in Timers
  BY DEF Timers
<1>2. Still
  <2>1. Read => Keeps("onbatt_msg") /\ Keeps("shutdown")
    BY ReportAssumption, InstallBits DEF Read, DriverBits, Keeps
  <2>2. \A news : Announce(<<>>, news) => out' = <<>> /\ told' = told
    BY ToldKept DEF Announce
  <2>3. CASE OpenFails
    BY <2>2, <2>3 DEF OpenFails, Quiet, Still, Keeps
  <2>4. CASE OpenSucceeds
    BY <2>2, <2>4 DEF OpenSucceeds, Quiet, Still, Keeps
  <2>5. CASE FirstFill \/ fillUPS \/ CheckState
    BY <2>1, <2>2, <2>5 DEF FirstFill, fillUPS, CheckState, Sleep, Quiet, Still
  <2>6. QED
    BY <2>3, <2>4, <2>5
<1>3. /\ FillMax \in Nat /\ TIMER_FAST \in Nat /\ OpenRetry \in Nat
      /\ \A d \in 0 .. FillMax : d \in Nat /\ d <= Gap
      /\ \A d \in 0 .. TIMER_FAST : d <= Gap
  BY DirectiveAssumption DEF Gap
<1> DEFINE Polled(d) == pc \in {"fill", "check"} /\ (pc = "check" => Is("fastpoll")) => d <= Gap
<1>4. \E d \in Nat : Passing(d) /\ Polled(d)
  <2>1. CASE OpenFails
    <3>1. Passing(OpenRetry)
      BY <1>1, <1>3, <2>1, ElapsedAges DEF OpenFails, Ages, Passing
    <3>2. Polled(OpenRetry)
      BY <2>1 DEF OpenFails
    <3>3. QED
      BY <1>3, <3>1, <3>2
  <2>2. CASE OpenSucceeds
    <3>1. \A t \in Timers : Elapsed(0)[t] = age[t]
      BY HorizonAssumption DEF Elapsed, Least, TypeOK, Never
    <3>2. Passing(0)
      BY <1>1, <2>2, <3>1 DEF OpenSucceeds, Passing
    <3>3. Polled(0)
      BY <2>2 DEF OpenSucceeds
    <3>4. QED
      BY <3>2, <3>3
  <2>3. CASE FirstFill
    <3>1. PICK d \in 0 .. FillMax :
            age' = [t \in Timers |-> IF t \in {"nologon", "annoy", "on_line"} THEN 0
                                     ELSE Elapsed(d)[t]]
      BY <2>3 DEF FirstFill
    <3>2. Passing(d)
      BY <1>1, <2>3, <3>1 DEF FirstFill, Passing
    <3>3. Polled(d)
      BY <2>3 DEF FirstFill
    <3>4. QED
      BY <1>3, <3>2, <3>3
  <2>4. CASE fillUPS
    <3>1. PICK d \in 0 .. FillMax : age' = Elapsed(d)
      BY <2>4 DEF fillUPS
    <3>2. Passing(d)
      BY <3>1 DEF Passing
    <3>3. QED
      BY <1>3, <3>2
  <2>5. CASE CheckState
    <3>1. device_wait_time \in Nat /\ (Is("fastpoll") => device_wait_time = TIMER_FAST)
      BY DirectiveAssumption DEF device_wait_time
    <3>2. PICK d \in 0 .. device_wait_time : Sleep(d)
      BY <2>5 DEF CheckState
    <3>3. pc = "check" /\ Passing(d)
      BY <3>2 DEF Sleep, Passing
    <3>4. Is("fastpoll") => d <= Gap
      BY <1>3, <3>1
    <3>5. d \in Nat
      BY <3>1
    <3>6. Polled(d)
      BY <3>3, <3>4
    <3>7. QED
      BY <3>3, <3>5, <3>6
  <2>6. QED
    BY <2>1, <2>2, <2>3, <2>4, <2>5
<1>5. /\ pc' \notin {"fill", "check", "dead", "stuck"} \cup Halting
      /\ pc' \in {"open", "start"} => pc \in {"open", "start"}
  BY DEF OpenFails, OpenSucceeds, FirstFill, fillUPS, CheckState, Sleep, Halting
<1>6. QED
  BY <1>2, <1>4, <1>5

\* The end of the process and the next start.
LEMMA LifeKinds ==
    /\ apcctrl_terminate \/ Crash => Still /\ age' = age /\ pc' = "dead"
    /\ Restart => Reset
<1>1. apcctrl_terminate \/ Crash => Still /\ age' = age /\ pc' = "dead"
  BY EndDoes DEF Still, Keeps
<1>2. ASSUME Restart PROVE Reset
  <2>1. Fresh.age["SelfTest"] = Never /\ Fresh.age["on_line"] = Horizon["on_line"]
    BY Zenon DEF Fresh, Timers
  <2>2. Horizon["on_line"] # Never
    BY HorizonAssumption DEF Timers, Never
  <2>3. QED
    BY <1>2, <2>1, <2>2, FreshTypes DEF Restart, Reset, Outage
<1>3. QED
  BY <1>1, <1>2

\* The decision of a pass has been taken: it is over, or the shutdown goes on.
Past == PassEnded \/ pc \in Halting

\* An outage that is not confirmed is no older than the time spent waiting for that,
\* and one that is no older than that and the time waited since; what is taken for a self
\* test is no older than a self test.
Unconfirmed ==
    /\ age["onbatt"] <= Lag + (IF Past THEN 0 ELSE Gap)
    /\ age["on_line"] < onbattdelay => age["onbatt"] <= age["on_line"]
Confirmed ==
    /\ age["on_line"] <= maxtime => age["onbatt"] <= Lag + Gap + age["on_line"]
    /\ PassEnded /\ maxtime > 0 => age["on_line"] <= maxtime
Testing ==
    /\ MayTest /\ Outage /\ ~Is("onbatt_msg")
    /\ age["onbatt"] <= SelfTestMax - 1 + (IF PassEnded THEN 0 ELSE Gap)
    /\ age["SelfTest"] < SelfTestMax => age["onbatt"] <= age["SelfTest"]
    /\ age["on_line"] < onbattdelay => age["onbatt"] <= age["on_line"]

Timed ==
    /\ pc \in {"open", "start"} => ~Outage
    /\ pc \in Halting => age["SelfTest"] = Never /\ Is("shutdown")
    /\ Outage => age["on_line"] >= 0
    /\ ~Outage => ~Is("onbatt_msg")
    /\ age["SelfTest"] # Never => Testing
    /\ Outage /\ age["SelfTest"] = Never =>
          IF Is("onbatt_msg") THEN ~Is("shutdown") => Confirmed ELSE Unconfirmed

\* The numbers the invariant compares.
LEMMA TimedTypes ==
    ASSUME TypeOK
    PROVE  /\ onbattdelay \in Nat /\ maxtime \in Nat /\ Gap \in Nat /\ Lag \in Nat
           /\ onbattdelay > 0 => onbattdelay - 1 <= Lag
           /\ SelfTestMax \in Nat
           /\ MayTest => SelfTestMax - 1 + Gap <= Lag
           /\ age["onbatt"] \in Int /\ age["on_line"] \in Int /\ age["SelfTest"] \in Int
           /\ Horizon["on_line"] \in Nat /\ Horizon["on_line"] >= onbattdelay
           /\ Horizon["on_line"] >= maxtime + 1
           /\ Horizon["SelfTest"] \in Nat /\ Horizon["SelfTest"] >= SelfTestMax
<1>1. {"onbatt", "on_line", "SelfTest"} \subseteq Timers
  BY DEF Timers
<1>2. /\ onbattdelay \in Nat /\ maxtime \in Nat /\ FillMax \in Nat /\ TIMER_FAST \in Nat
      /\ SelfTestMax \in Nat /\ SelfTestMax >= 1
  BY DirectiveAssumption
<1>3. /\ age["onbatt"] \in Int /\ age["on_line"] \in Int /\ age["SelfTest"] \in Int
      /\ Horizon["on_line"] \in Nat /\ Horizon["on_line"] >= onbattdelay
      /\ Horizon["on_line"] >= maxtime + 1
      /\ Horizon["SelfTest"] \in Nat /\ Horizon["SelfTest"] >= SelfTestMax
  BY <1>1, <1>2, HorizonAssumption DEF TypeOK
<1>4. /\ Gap \in Nat /\ Lag \in Nat
      /\ onbattdelay > 0 => onbattdelay - 1 <= Lag
      /\ MayTest => SelfTestMax - 1 + Gap <= Lag
  BY <1>2 DEF Gap, Delay, Tested, Lag
<1>5. QED
  BY <1>2, <1>3, <1>4

\* A pass confirms the outage or begins the shutdown when it is time to, and takes
\* nothing for a self test that lasts longer than one.
LEMMA TimedPass ==
    ASSUME PlainUps, SteadyLine, TypeOK, Plain, Excused, Phase, Timed, do_action
    PROVE  Timed'
<1>1. /\ pc \in {"act1", "act2"} \cup Halting /\ pc' \notin {"open", "start"} /\ ~PassEnded
      /\ {"act1", "act2", "fill", "check", "dead", "stuck"} \cap Halting = {}
  BY PassPlace DEF PassEnded, Halting
<1>2. /\ onbattdelay \in Nat /\ maxtime \in Nat /\ Gap \in Nat /\ Lag \in Nat
      /\ onbattdelay > 0 => onbattdelay - 1 <= Lag
      /\ SelfTestMax \in Nat
      /\ MayTest => SelfTestMax - 1 + Gap <= Lag
      /\ age["onbatt"] \in Int /\ age["on_line"] \in Int /\ age["SelfTest"] \in Int
  BY TimedTypes
<1>3. CASE age["SelfTest"] # Never
  <2>1. Testing /\ Outage /\ ~Is("onbatt_msg") /\ pc \notin Halting
    BY <1>3 DEF Timed, Testing
  <2>2. pc' \in {"fill", "check"} /\ pc' \notin Halting
    BY <1>1, <1>3, <2>1, TestGoesOn
  <2>3. CASE Doubtless
    <3>1. age'["SelfTest"] = Never /\ ~Outage' /\ ~Is("onbatt_msg")'
      BY <2>3 DEF Doubtless, Is
    <3>2. QED
      BY <1>1, <2>2, <3>1 DEF Timed
  <2>4. CASE Doubting
    <3>1. /\ Outage' /\ ~Is("onbatt_msg")'
          /\ age'["onbatt"] = age["onbatt"] /\ age'["on_line"] = age["on_line"]
          /\ age["on_line"] >= 0
      BY <2>1, <2>4 DEF Doubting, Keeps, Holds, Is, Timed
    <3>2. ASSUME age'["SelfTest"] # Never
          PROVE  Testing'
      <4>1. age'["SelfTest"] = age["SelfTest"] /\ age["SelfTest"] < SelfTestMax
        BY <2>4, <3>2 DEF Doubting, Holds
      <4>2. age["onbatt"] <= SelfTestMax - 1
        BY <1>2, <2>1, <4>1 DEF Testing
      <4>3. QED
        BY <1>2, <2>1, <3>1, <4>1, <4>2 DEF Testing
    <3>3. Unconfirmed'
      BY <1>1, <1>2, <2>1, <3>1 DEF Testing, Unconfirmed
    <3>4. QED
      BY <1>1, <2>2, <3>1, <3>2, <3>3 DEF Timed
  <2>5. QED
    BY <1>3, <2>1, <2>3, <2>4, TestGoesOn
<1>4. CASE age["SelfTest"] = Never /\ PowerFailure
  <2>1. /\ ~Outage /\ Outage' /\ ~Is("onbatt_msg")'
        /\ age'["onbatt"] = 0 /\ age'["on_line"] = 0
        /\ age'["SelfTest"] # Never => age'["SelfTest"] = 0 /\ MayTest
        /\ pc' \notin Halting
    BY <1>1, <1>4, TestBegins DEF Timed, Keeps, Is
  <2>2. Unconfirmed'
    BY <1>2, <2>1 DEF Unconfirmed
  <2>3. SelfTestMax >= 1
    BY DirectiveAssumption
  <2>4. age'["SelfTest"] # Never => Testing'
    BY <1>2, <2>1, <2>3 DEF Testing
  <2>5. QED
    BY <1>1, <2>1, <2>2, <2>4 DEF Timed
<1>5. CASE age["SelfTest"] = Never /\ ~PowerFailure
  <2>1. Pass /\ age'["SelfTest"] = Never
    BY <1>5, QuietKinds
  <2>2. pc' \in Halting => Is("shutdown")'
    <3>1. "shutdown" \notin DriverBits
      BY DEF DriverBits
    <3>2. CASE Halts
      BY <3>2, HaltDoes DEF Is
    <3>3. CASE HaltsOn
      BY <3>1, <3>3, HaltsOnDoes DEF Is, Timed
    <3>4. CASE ~Halts /\ ~HaltsOn
      BY <1>1, <3>4, PassCases, PlainlyDoes, LetsInDoes, FailsDoes, Places
    <3>5. QED
      BY <3>2, <3>3, <3>4
  <2>3. CASE Resting \/ Ending
    BY <1>1, <2>1, <2>2, <2>3 DEF Resting, Ending, Keeps, Is, Timed
  <2>4. CASE Beginning
    <3>1. Outage' /\ Unconfirmed' /\ ~Is("onbatt_msg")' /\ age'["on_line"] = 0
      BY <1>2, <2>4 DEF Beginning, Unconfirmed, Timed, Keeps, Is
    <3>2. QED
      BY <1>1, <2>1, <2>2, <3>1 DEF Timed
  <2>5. CASE Confirming
    <3>1. Outage' /\ Is("onbatt_msg")' /\ age'["on_line"] = 0
      BY <2>5 DEF Confirming, Is
    <3>2. Unconfirmed /\ age'["onbatt"] = age["onbatt"]
      BY <1>5, <2>5 DEF Confirming, Holds, Timed
    <3>3. Confirmed'
      BY <1>1, <1>2, <3>1, <3>2 DEF Confirmed, Unconfirmed
    <3>4. QED
      BY <1>1, <2>1, <2>2, <3>1, <3>3 DEF Timed
  <2>6. ASSUME Outage, Outage', Keeps("onbatt_msg"), Holds("onbatt"), Holds("on_line"),
               ~Confirmable \/ pc \in Halting, ~Is("shutdown")' => ~Is("shutdown") /\ ~TimedOut
        PROVE  Timed'
    <3>1. /\ Is("onbatt_msg")' <=> Is("onbatt_msg")
          /\ age'["on_line"] = age["on_line"] /\ age'["onbatt"] = age["onbatt"]
          /\ age["on_line"] >= 0
      BY <2>6 DEF Keeps, Holds, Is, Timed
    <3>2. ASSUME ~Is("shutdown")', Is("onbatt_msg")
          PROVE  Confirmed'
      <4>1. Confirmed /\ ~TimedOut
        BY <1>5, <2>6, <3>2 DEF Timed
      <4>2. maxtime > 0 => age["on_line"] <= maxtime
        BY <1>2, <4>1 DEF TimedOut
      <4>3. QED
        BY <3>1, <4>1, <4>2 DEF Confirmed
    <3>3. ASSUME ~Is("onbatt_msg")
          PROVE  Unconfirmed'
      <4>1. Unconfirmed /\ (age["on_line"] < onbattdelay \/ pc \in Halting)
        BY <1>2, <1>5, <2>6, <3>3 DEF Timed, Confirmable
      <4>2. age["onbatt"] <= Lag
        BY <1>2, <3>1, <4>1 DEF Unconfirmed, Past
      <4>3. QED
        BY <1>2, <3>1, <4>1, <4>2 DEF Unconfirmed
    <3>4. QED
      BY <1>1, <2>1, <2>2, <2>6, <3>1, <3>2, <3>3 DEF Timed
  <2>7. CASE Waiting
    <3>1. ~Is("shutdown")' => ~Is("shutdown") /\ ~TimedOut
      BY <2>7 DEF Waiting, Keeps, Is
    <3>2. QED
      BY <2>6, <2>7, <3>1 DEF Waiting
  <2>8. CASE Deciding
    <3>1. Is("shutdown")'
      BY <2>8 DEF Deciding, Is
    <3>2. QED
      BY <2>6, <2>8, <3>1 DEF Deciding
  <2>9. CASE Obeying
    <3>1. pc \in Halting /\ Is("shutdown")'
      BY <2>9, HaltsOnDoes DEF Obeying, Keeps, Is, Timed
    <3>2. QED
      BY <2>6, <2>9, <3>1 DEF Obeying
  <2>10. CASE Giving_up
    <3>1. ~PassEnded' /\ ~Past' /\ UNCHANGED <<Status, PrevStatus, age>>
      BY <1>1, <2>10 DEF Giving_up, PassEnded, Past
    <3>2. (Confirmed => Confirmed') /\ (Unconfirmed => Unconfirmed')
      BY <1>1, <1>2, <3>1 DEF Confirmed, Unconfirmed
    <3>3. QED
      BY <1>1, <1>5, <2>2, <3>1, <3>2 DEF Timed, Outage, Is
  <2>11. QED
    BY <2>1, <2>3, <2>4, <2>5, <2>7, <2>8, <2>9, <2>10 DEF Pass
<1>6. QED
  BY <1>3, <1>4, <1>5

\* Between two passes of an outage at most Gap goes by.
LEMMA TimedDevice ==
    ASSUME TypeOK, Timed, FastWhileOnBattery,
           OpenFails \/ OpenSucceeds \/ FirstFill \/ fillUPS \/ CheckState
    PROVE  Timed'
<1>1. /\ Still /\ pc' \notin {"fill", "check"} \cup Halting
      /\ pc' \in {"open", "start"} => pc \in {"open", "start"}
  BY DeviceKinds
<1>2. PICK d \in Nat :
        /\ Passing(d)
        /\ pc \in {"fill", "check"} /\ (pc = "check" => Is("fastpoll")) => d <= Gap
  BY DeviceKinds
<1>3. /\ onbattdelay \in Nat /\ maxtime \in Nat /\ Gap \in Nat /\ Lag \in Nat
      /\ SelfTestMax \in Nat
      /\ age["onbatt"] \in Int /\ age["on_line"] \in Int /\ age["SelfTest"] \in Int
      /\ Horizon["on_line"] \in Nat /\ Horizon["on_line"] >= onbattdelay
      /\ Horizon["on_line"] >= maxtime + 1
      /\ Horizon["SelfTest"] \in Nat /\ Horizon["SelfTest"] >= SelfTestMax
  BY TimedTypes
<1>4. {"SelfTest", "onbatt", "on_line"} \subseteq Timers
  BY DEF Timers
<1>5. /\ Outage' <=> Outage
      /\ (Is("onbatt_msg")' <=> Is("onbatt_msg")) /\ (Is("shutdown")' <=> Is("shutdown"))
  BY <1>1 DEF Still, Outage, Keeps, Is
<1>6. age'["SelfTest"] = Elapsed(d)["SelfTest"] /\ (age'["SelfTest"] = Never <=> age["SelfTest"] = Never)
  BY <1>2, <1>4, ElapsedOne DEF Passing
<1>7. CASE ~Outage
  <2>1. age["SelfTest"] = Never
    BY <1>7 DEF Timed, Testing
  <2>2. QED
    BY <1>1, <1>5, <1>6, <1>7, <2>1 DEF Timed
<1>8. CASE Outage
  <2>1. pc \in {"fill", "check"}
    BY <1>8 DEF Timed, OpenFails, OpenSucceeds, FirstFill, fillUPS, CheckState, Sleep
  <2>2. d <= Gap
    BY <1>2, <1>8, <2>1 DEF FastWhileOnBattery, Running
  <2>3. /\ age'["onbatt"] <= age["onbatt"] + d
        /\ age'["on_line"] = age["on_line"] + d \/ age'["on_line"] = Horizon["on_line"]
        /\ age["on_line"] >= 0
    BY <1>2, <1>3, <1>4, <1>8, <2>1, ElapsedOne DEF Passing, Timed, Never
  <2>4. /\ age'["onbatt"] \in Int /\ age'["on_line"] \in Int /\ age'["on_line"] >= 0
        /\ age'["SelfTest"] \in Int
    <3>1. Elapsed(d) \in Ages
      BY ElapsedAges
    <3>2. QED
      BY <1>2, <1>3, <1>4, <2>3, <3>1 DEF Passing, Ages
  <2>5. PassEnded /\ ~PassEnded' /\ Past /\ ~Past'
    BY <1>1, <2>1 DEF PassEnded, Past
  <2>6. Unconfirmed => Unconfirmed'
    BY <1>3, <2>2, <2>3, <2>4, <2>5 DEF Unconfirmed
  <2>7. Confirmed => Confirmed'
    BY <1>3, <2>3, <2>4, <2>5 DEF Confirmed
  <2>8. ASSUME Testing, age["SelfTest"] # Never
        PROVE  Testing'
    <3>1. age'["SelfTest"] = age["SelfTest"] + d \/ age'["SelfTest"] = Horizon["SelfTest"]
      BY <1>4, <1>6, <2>8, ElapsedOne
    <3>2. /\ age'["onbatt"] <= SelfTestMax - 1 + Gap
          /\ age'["SelfTest"] < SelfTestMax => age'["onbatt"] <= age'["SelfTest"]
          /\ age'["on_line"] < onbattdelay => age'["onbatt"] <= age'["on_line"]
      BY <1>3, <2>2, <2>3, <2>4, <2>5, <2>8, <3>1 DEF Testing
    <3>3. QED
      BY <1>5, <2>5, <2>8, <3>2 DEF Testing
  <2>9. pc' \notin {"open", "start"} \cup Halting
    BY <1>1, <2>1
  <2>10. QED
    BY <1>5, <1>6, <1>8, <2>4, <2>6, <2>7, <2>8, <2>9 DEF Timed
<1>9. QED
  BY <1>7, <1>8

\* The end of the process, a stutter and the next start.
LEMMA TimedLife ==
    ASSUME TypeOK, Timed, apcctrl_terminate \/ Crash \/ Restart \/ UNCHANGED vars
    PROVE  Timed'
<1>1. CASE apcctrl_terminate \/ Crash
  <2>1. Still /\ age' = age /\ pc' = "dead" /\ pc' \notin Halting
    BY <1>1, LifeKinds DEF Halting
  <2>2. /\ Outage' <=> Outage
        /\ (Is("onbatt_msg")' <=> Is("onbatt_msg")) /\ (Is("shutdown")' <=> Is("shutdown"))
    BY <2>1 DEF Still, Outage, Keeps, Is
  <2>3. (Confirmed => Confirmed') /\ (Unconfirmed => Unconfirmed') /\ (Testing => Testing')
    <3>1. Gap \in Nat /\ Lag \in Nat /\ age["onbatt"] \in Int /\ SelfTestMax \in Nat
      BY TimedTypes
    <3>2. QED
      BY <2>1, <2>2, <3>1 DEF Confirmed, Unconfirmed, Testing, PassEnded, Past
  <2>4. QED
    BY <2>1, <2>2, <2>3 DEF Timed
<1>2. CASE Restart
  <2>1. Reset
    BY <1>2, LifeKinds
  <2>2. ~Outage' /\ ~Is("onbatt_msg")' /\ age'["SelfTest"] = Never /\ pc' \notin Halting
    BY <2>1 DEF Reset, Is, Halting
  <2>3. QED
    BY <2>2 DEF Timed
<1>3. CASE UNCHANGED vars
  BY <1>3 DEF vars, Timed, Confirmed, Unconfirmed, Testing, PassEnded, Past, Outage, Is
<1>4. QED
  BY <1>1, <1>2, <1>3

\* The ages of an outage stay together, with what was said of it.
LEMMA OutageTimed ==
    ASSUME PlainUps, SteadyLine
    PROVE  Spec => [](TypeOK /\ Plain /\ Excused /\ Phase /\ Timed)
<1>1. Init => Plain /\ Excused /\ Timed
  <2>1. Fresh.age["SelfTest"] = Never
    BY Zenon DEF Fresh, Timers
  <2>2. Init => /\ ~Outage /\ ~Is("onbatt_msg") /\ age["SelfTest"] = Never
                /\ Plain /\ Excused /\ pc \notin Halting
    BY <2>1, FreshTypes DEF Init, Plain, Excused, Halting, Outage, Is
  <2>3. QED
    BY <2>2 DEF Timed
<1>2. TypeOK /\ FastWhileOnBattery /\ Phase /\ Plain /\ Excused /\ Timed /\ [Next]_vars
        => Plain' /\ Excused' /\ Timed'
  <2> SUFFICES ASSUME TypeOK, FastWhileOnBattery, Phase, Plain, Excused, Timed, [Next]_vars
               PROVE  Timed'
    BY PlainStays, ExcusedStays DEF vars, Plain, SteadyLine
  <2>1. CASE do_action
    BY <2>1, TimedPass
  <2>2. CASE OpenFails \/ OpenSucceeds \/ FirstFill \/ fillUPS \/ CheckState
    BY <2>2, TimedDevice
  <2>3. CASE apcctrl_terminate \/ Crash \/ Restart \/ UNCHANGED vars
    BY <2>3, TimedLife
  <2>4. QED
    BY <2>1, <2>2, <2>3 DEF Next, do_device
<1>3. QED
  BY <1>1, <1>2, TypeCorrect, FastPolling, PhaseStarts, PhaseStays, PTL DEF Spec

\* TIMEOUT bounds the outage: no pass ends with the system still up later after the
\* detection of the outage than ONBATTERYDELAY, or what is taken for a self test, TIMEOUT
\* and two polls add up to.
THEOREM TimeoutInTime ==
    ASSUME PlainUps, SteadyLine
    PROVE  Spec => []TimeoutBounded
<1>1. TypeOK /\ Plain /\ Timed => TimeoutBounded
  <2> SUFFICES ASSUME TypeOK, Timed, PassEnded, Outage, maxtime > 0, ~Is("shutdown")
               PROVE  age["onbatt"] <= ConfirmedBy + maxtime
    BY DEF TimeoutBounded
  <2>1. /\ maxtime \in Nat /\ Gap \in Nat /\ Lag \in Nat /\ SelfTestMax \in Nat
        /\ MayTest => SelfTestMax - 1 + Gap <= Lag
        /\ age["onbatt"] \in Int /\ age["on_line"] \in Int
    BY TimedTypes
  <2>2. Testing \/ Confirmed \/ Unconfirmed
    BY DEF Timed
  <2>3. QED
    BY <2>1, <2>2 DEF Confirmed, Unconfirmed, Testing, ConfirmedBy, Past
<1>2. QED
  BY <1>1, OutageTimed, PTL

\* Every outage is announced in time: the pass that finds it older than ONBATTERYDELAY, and
\* than what is taken for a self test, leaves ONBATTERY said.
THEOREM OutageAnnounced ==
    ASSUME PlainUps, SteadyLine
    PROVE  Spec => []AnnouncedInTime
<1>1. TypeOK /\ Plain /\ Timed => AnnouncedInTime
  <2> SUFFICES ASSUME TypeOK, Timed, PassEnded, Outage, ~Is("onbatt_msg")
               PROVE  ~(age["onbatt"] > Lag)
    BY DEF AnnouncedInTime
  <2>1. /\ Gap \in Nat /\ Lag \in Nat /\ SelfTestMax \in Nat
        /\ MayTest => SelfTestMax - 1 + Gap <= Lag
        /\ age["onbatt"] \in Int
    BY TimedTypes
  <2>2. Testing \/ Unconfirmed
    BY DEF Timed
  <2>3. QED
    BY <2>1, <2>2 DEF Unconfirmed, Testing, Past
<1>2. QED
  BY <1>1, OutageTimed, PTL

\* A pass that leaves an outage behind and the system up has just detected it, takes it
\* for a self test, has just announced it, or found no reason to halt.
LEMMA PassLeavesUp ==
    ASSUME Plain, SteadyLine, Phase, do_action, PassEnded', Outage', ~Is("shutdown")'
    PROVE  PowerFailure \/ SelfTest \/ ConfirmOnBattery \/ KeepWaiting
<1>1. /\ "shutdown" \notin DriverBits
      /\ {"shutdown", "onbatt"} \cap (PassBits \cup {"fastpoll", "onbatt_msg"}) = {}
  BY DEF DriverBits, PassBits, LimitBits
<1>2. ~Halts
  BY HaltDoes DEF PassEnded
<1>3. ~HaltsOn
  BY <1>1, HaltsOnDoes DEF Phase, Is
<1>4. ~OnMains
  BY <1>1, PlainlyDoes, WayState, StateBits DEF EndsPlainly, Outage
<1>5. ~AwaitPowerOff
  BY <1>1, PlainlyDoes DEF EndsPlainly, AwaitPowerOff, AwaitEnd, Is
<1>6. ~KillPower
  BY <1>1, LetsInDoes DEF KillPower, AwaitEnd, Is
<1>7. ~KillPowerFails
  BY FailsDoes DEF PassEnded
<1>8. ~MainsBack
  BY MainsAreBack DEF SteadyLine
<1>9. QED
  BY <1>2, <1>3, <1>4, <1>5, <1>6, <1>7, <1>8, PassCases, PlainWays DEF EndsPlainly

\* The pass that waits has no limit that has been reached for Debounce.
LEMMA WaitingIsSafe ==
    ASSUME TypeOK, KeepWaiting
    PROVE  /\ Is("battlow")' => age'["lbatt"] < Debounce /\ ~Is("online")'
           /\ LoadLow' => Is("shut_load")' /\ age'["load"] < Debounce
           /\ TimeLow' => Is("shut_ltime")' /\ age'["ltime"] < Debounce
<1>1. /\ Verdict = "none" /\ ~(Is("battlow") /\ Is("online"))
      /\ \E news : EndPass(<<>>, news, LimitAdd, LimitDel)
  BY DEF KeepWaiting
<1>2. PICK ts : age' = Stamp(ts) /\ \A t \in {"lbatt", "load", "ltime"} : t \in ts <=> t \in LimitStamps
  BY DEF KeepWaiting, Given
<1>3. {"lbatt", "load", "ltime"} \subseteq Timers
  BY DEF Timers
<1>4. age["lbatt"] \in Int /\ age["load"] \in Int /\ age["ltime"] \in Int /\ Debounce \in Nat
      /\ Debounce > 0
  BY <1>3, DirectiveAssumption DEF TypeOK
<1>5. Is("battlow")' => age'["lbatt"] < Debounce /\ ~Is("online")'
  <2>1. /\ Is("battlow")' <=> Is("battlow")
        /\ Is("online")' <=> Is("online")
    BY <1>1, EndPassBits DEF LimitAdd, LimitDel, Given, Is
  <2>2. Is("battlow") => LowAge < Debounce
    BY <1>1, <1>4 DEF Verdict, LowAge
  <2>3. age'["lbatt"] = LowAge
    BY <1>2, <1>3 DEF Stamp, LowAge, LimitStamps, Given
  <2>4. QED
    BY <1>1, <2>1, <2>2, <2>3
<1>6. LoadLow' => Is("shut_load")' /\ age'["load"] < Debounce
  <2> SUFFICES ASSUME LoadLow PROVE Is("shut_load")' /\ age'["load"] < Debounce
    BY DEF KeepWaiting, reads, LoadLow
  <2>1. Is("shut_load")'
    BY <1>1, EndPassBits DEF LimitAdd, Given, Is
  <2>2. "load" \in LimitStamps \/ age["load"] < Debounce
    BY <1>1, <1>4 DEF Verdict, Expired
  <2>3. age'["load"] = IF "load" \in LimitStamps THEN 0 ELSE age["load"]
    BY <1>2, <1>3, StampOne
  <2>4. QED
    BY <1>4, <2>1, <2>2, <2>3
<1>7. TimeLow' => Is("shut_ltime")' /\ age'["ltime"] < Debounce
  <2> SUFFICES ASSUME TimeLow PROVE Is("shut_ltime")' /\ age'["ltime"] < Debounce
    BY DEF KeepWaiting, reads, TimeLow
  <2>1. Is("shut_ltime")'
    BY <1>1, EndPassBits DEF LimitAdd, Given, Is
  <2>2. "ltime" \in LimitStamps \/ age["ltime"] < Debounce
    BY <1>1, <1>4 DEF Verdict, Expired
  <2>3. age'["ltime"] = IF "ltime" \in LimitStamps THEN 0 ELSE age["ltime"]
    BY <1>2, <1>3, StampOne
  <2>4. QED
    BY <1>4, <2>1, <2>2, <2>3
<1>8. QED
  BY <1>5, <1>6, <1>7

\* Every limit of the battery is acted on in time: once an outage must have been announced,
\* no pass leaves the system up with a battery that has been low, or below BATTERYLEVEL or
\* MINUTES, for Debounce, or that is low with the line good.
THEOREM LimitsInTime ==
    ASSUME PlainUps, SteadyLine
    PROVE  Spec => []BatteryLimitsInTime
<1>1. Init => BatteryLimitsInTime
  BY FreshTypes DEF Init, BatteryLimitsInTime, PassEnded
<1>2. ASSUME TypeOK, Plain, Excused, Phase, Timed, TypeOK', Timed', BatteryLimitsInTime,
             [Next]_vars
      PROVE  BatteryLimitsInTime'
  <2>1. CASE do_action
    <3> SUFFICES ASSUME PassEnded', Outage', ~Is("shutdown")', age'["onbatt"] > ConfirmedBy
                 PROVE  KeepWaiting
      BY <1>2, WaitingIsSafe DEF BatteryLimitsInTime
    <3>1. PowerFailure \/ SelfTest \/ ConfirmOnBattery \/ KeepWaiting
      BY <1>2, <2>1, PassLeavesUp
    <3>2. /\ Gap \in Nat /\ Lag \in Nat /\ SelfTestMax \in Nat
          /\ MayTest => SelfTestMax - 1 + Gap <= Lag
          /\ age["onbatt"] \in Int /\ ConfirmedBy = Lag + Gap
      BY <1>2, TimedTypes DEF ConfirmedBy
    <3>3. ~PowerFailure
      <4>1. PowerFailure => age'["onbatt"] = 0
        BY FailureAges
      <4>2. QED
        BY <3>2, <4>1
    <3>4. ~SelfTest
      <4> SUFFICES ASSUME SelfTest PROVE FALSE
        OBVIOUS
      <4>1. age["SelfTest"] # Never /\ ~PowerFailure /\ ~MainsBack
        BY WayState, StateBits
      <4>2. Testing
        BY <1>2, <4>1 DEF Timed
      <4>3. age'["onbatt"] = age["onbatt"]
        BY <1>2, <2>1, <4>1, PassAges
      <4>4. QED
        BY <3>2, <4>2, <4>3 DEF Testing, PassEnded
    <3>5. ~ConfirmOnBattery
      <4> SUFFICES ASSUME ConfirmOnBattery PROVE FALSE
        OBVIOUS
      <4>1. Outage /\ age["SelfTest"] = Never /\ ~Is("onbatt_msg") /\ ~PowerFailure /\ ~MainsBack
        BY WayState, StateBits DEF ConfirmOnBattery, Confirmable
      <4>2. Unconfirmed
        BY <1>2, <4>1 DEF Timed
      <4>3. age'["onbatt"] = age["onbatt"]
        BY <1>2, <2>1, <4>1, PassAges
      <4>4. QED
        BY <3>2, <4>2, <4>3 DEF Unconfirmed
    <3>6. QED
      BY <3>1, <3>3, <3>4, <3>5
  <2>2. CASE OpenFails \/ OpenSucceeds \/ FirstFill \/ fillUPS \/ CheckState
    <3>1. ~PassEnded'
      BY <1>2, <2>2, DeviceKinds DEF PassEnded
    <3>2. QED
      BY <3>1 DEF BatteryLimitsInTime
  <2>3. CASE apcctrl_terminate \/ Crash \/ Restart
    <3>1. ~PassEnded'
      BY <2>3, LifeKinds DEF PassEnded, Reset
    <3>2. QED
      BY <3>1 DEF BatteryLimitsInTime
  <2>4. CASE UNCHANGED vars
    BY <1>2, <2>4 DEF vars, reads, BatteryLimitsInTime, PassEnded, Outage, Is, LoadLow, TimeLow
  <2>5. QED
    BY <1>2, <2>1, <2>2, <2>3, <2>4 DEF Next, do_device
<1>3. QED
  BY <1>1, <1>2, OutageTimed, PTL DEF Spec

\* Who says ONBATTERY and TIMEOUT.
LEMMA WhoSays ==
    ASSUME do_action
    PROVE  /\ Says("ONBATTERY")' => ConfirmOnBattery
           /\ Says("TIMEOUT")' => TimeLimit
<1>1. \A e : (out' = <<e>> => (Says("ONBATTERY")' <=> e = "ONBATTERY")
                              /\ (Says("TIMEOUT")' <=> e = "TIMEOUT"))
  BY DEF Says
<1>2. out' = <<>> => ~Says("ONBATTERY")' /\ ~Says("TIMEOUT")'
  BY DEF Says
<1>3. CASE Halts
  BY <1>1, <1>3, HaltDoes DEF Reasons
<1>4. CASE HaltsOn
  BY <1>1, <1>2, <1>4, HaltsOnDoes
<1>5. CASE EndsPlainly
  BY <1>1, <1>2, <1>5, PlainlyDoes
<1>6. CASE PowerFailure \/ KillPower
  <2>1. out' \in {<<"STARTSELFTEST">>, <<"POWEROUT">>, <<"KILLPOWER">>}
    BY <1>6 DEF PowerFailure, KillPower, Remember, Announce
  <2>2. QED
    BY <1>1, <2>1
<1>7. CASE MainsBack
  <2>1. \E tested \in BOOLEAN : out' = Closing(tested)
    BY <1>7 DEF MainsBack, Remember, Announce
  <2>2. QED
    BY <2>1 DEF Closing, Says
<1>8. QED
  BY <1>2, <1>3, <1>4, <1>5, <1>6, <1>7, PassCases, FailsDoes

\* The age code compares with its limits is no more than that of the outage.
Since == Outage => age["on_line"] >= 0 /\ age["on_line"] <= age["onbatt"]

\* A pass keeps the two ages in order.
LEMMA SincePass ==
    ASSUME SteadyLine, TypeOK, Plain, Excused, Timed, Since, do_action
    PROVE  Since'
<1>1. age["on_line"] \in Int /\ age["onbatt"] \in Int
  BY TimedTypes
<1>2. CASE age["SelfTest"] # Never
  <2>1. Outage /\ pc \notin Halting
    BY <1>2 DEF Timed, Testing
  <2>2. ~Outage' \/ (Holds("onbatt") /\ Holds("on_line"))
    BY <1>2, <2>1, TestGoesOn DEF Doubting, Doubtless
  <2>3. QED
    BY <2>1, <2>2 DEF Since, Holds
<1>3. CASE age["SelfTest"] = Never /\ PowerFailure
  <2>1. age'["onbatt"] = 0 /\ age'["on_line"] = 0
    BY <1>3, TestBegins
  <2>2. QED
    BY <2>1 DEF Since
<1>4. CASE age["SelfTest"] = Never /\ ~PowerFailure
  <2>1. Pass
    BY <1>4, QuietKinds
  <2>2. CASE Resting \/ Ending
    BY <2>2 DEF Resting, Ending, Since
  <2>3. CASE Beginning
    BY <2>3 DEF Beginning, Since
  <2>4. CASE Confirming
    <3>1. Outage /\ age'["onbatt"] = age["onbatt"] /\ age'["on_line"] = 0
      BY <2>4 DEF Confirming, Holds
    <3>2. QED
      BY <1>1, <3>1 DEF Since
  <2>5. CASE Waiting \/ Deciding \/ Obeying
    <3>1. Outage /\ age'["onbatt"] = age["onbatt"] /\ age'["on_line"] = age["on_line"]
      BY <2>5 DEF Waiting, Deciding, Obeying, Holds
    <3>2. QED
      BY <3>1 DEF Since
  <2>6. CASE Giving_up
    BY <2>6 DEF Giving_up, Since, Outage
  <2>7. QED
    BY <2>1, <2>2, <2>3, <2>4, <2>5, <2>6 DEF Pass
<1>5. QED
  BY <1>2, <1>3, <1>4

\* And so does time.
LEMMA SinceDevice ==
    ASSUME TypeOK, Timed, Since, Horizon["onbatt"] >= Horizon["on_line"],
           OpenFails \/ OpenSucceeds \/ FirstFill \/ fillUPS \/ CheckState
    PROVE  Since'
<1>1. Outage' <=> Outage
  BY DeviceKinds DEF Still, Outage
<1>2. CASE ~Outage
  BY <1>1, <1>2 DEF Since
<1>3. CASE Outage
  <2>1. pc # "start"
    BY <1>3 DEF Timed
  <2>2. PICK d \in Nat :
          age'["onbatt"] = Elapsed(d)["onbatt"] /\ age'["on_line"] = Elapsed(d)["on_line"]
    BY <2>1, DeviceKinds DEF Passing
  <2>3. {"onbatt", "on_line"} \subseteq Timers
    BY DEF Timers
  <2>4. /\ age["on_line"] \in Int /\ age["onbatt"] \in Int
        /\ Horizon["on_line"] \in Nat /\ Horizon["onbatt"] \in Nat
    BY <2>3, HorizonAssumption DEF TypeOK
  <2>5. age["on_line"] >= 0 /\ age["on_line"] <= age["onbatt"]
    BY <1>3 DEF Since
  <2>6. /\ age'["on_line"] = Least(age["on_line"] + d, Horizon["on_line"])
        /\ age'["onbatt"] = Least(age["onbatt"] + d, Horizon["onbatt"])
    BY <2>2, <2>3, <2>4, <2>5 DEF Elapsed, Never
  <2>7. QED
    BY <2>4, <2>5, <2>6 DEF Since, Least
<1>4. QED
  BY <1>2, <1>3

\* Nobody is told of an outage, or sent home by TIMEOUT, sooner than was asked for, as
\* long as the age of an outage is counted no less far than that of last_time_on_line.
THEOREM NeverTooSoon ==
    ASSUME PlainUps, SteadyLine, Horizon["onbatt"] >= Horizon["on_line"]
    PROVE  Spec => NotTooSoon
<1>1. Init => Since
  BY FreshTypes DEF Init, Since, Outage
<1>2. ASSUME TypeOK, Plain, Excused, Timed, Since, [Next]_vars
      PROVE  Since'
  <2>1. CASE do_action
    BY <1>2, <2>1, SincePass
  <2>2. CASE OpenFails \/ OpenSucceeds \/ FirstFill \/ fillUPS \/ CheckState
    BY <1>2, <2>2, SinceDevice
  <2>3. CASE apcctrl_terminate \/ Crash
    BY <1>2, <2>3, LifeKinds DEF Still, Since, Outage
  <2>4. CASE Restart
    BY <2>4, LifeKinds DEF Reset, Since
  <2>5. CASE UNCHANGED vars
    BY <1>2, <2>5 DEF vars, Since, Outage
  <2>6. QED
    BY <1>2, <2>1, <2>2, <2>3, <2>4, <2>5 DEF Next, do_device
<1>3. ASSUME TypeOK, Since, Next
      PROVE  /\ Says("ONBATTERY")' => age["onbatt"] >= onbattdelay
             /\ Says("TIMEOUT")' => age["onbatt"] > maxtime
  <2> SUFFICES ASSUME Says("ONBATTERY")' \/ Says("TIMEOUT")'
               PROVE  /\ Says("ONBATTERY")' => age["onbatt"] >= onbattdelay
                      /\ Says("TIMEOUT")' => age["onbatt"] > maxtime
    OBVIOUS
  <2>1. do_action
    BY <1>3, DeviceSilent DEF Next, do_device, Says
  <2>2. /\ Says("ONBATTERY")' => Outage /\ age["on_line"] >= onbattdelay
        /\ Says("TIMEOUT")' => Outage /\ age["on_line"] > maxtime
    BY <2>1, WhoSays, WayState, StateBits
       DEF ConfirmOnBattery, Confirmable, TimeLimit, TimedOut
  <2>3. /\ age["on_line"] \in Int /\ age["onbatt"] \in Int
        /\ onbattdelay \in Nat /\ maxtime \in Nat
    BY <1>3, TimedTypes
  <2>4. QED
    BY <1>3, <2>2, <2>3 DEF Since
<1>4. TypeOK /\ Since /\ [Next]_vars
        => [ /\ Says("ONBATTERY")' => age["onbatt"] >= onbattdelay
             /\ Says("TIMEOUT")' => age["onbatt"] > maxtime ]_vars
  BY <1>3
<1>5. QED
  BY <1>1, <1>2, <1>4, OutageTimed, PTL DEF Spec, NotTooSoon

\* The bits of the status word that remember what was said agree with what the script
\* was told.
Told ==
    /\ age["SelfTest"] = Never
    /\ told \subseteq {"POWEROUT", "ONBATTERY"}
    /\ Outage <=> "POWEROUT" \in told
    /\ Is("onbatt_msg") <=> "ONBATTERY" \in told
    /\ "ONBATTERY" \in told => "POWEROUT" \in told

\* A pass says what the protocol lets it say, and remembers it; between two passes the
\* shutdown is under way when it has been ordered.
LEMMA PassFollows ==
    ASSUME Told, Phase, Pass, age'["SelfTest"] = Never
    PROVE  Protocol!Next /\ Told'
<1>1. {"act1", "act2"} \cap (Halting \cup {"dead", "stuck"}) = {}
  BY DEF Halting
<1>2. pc \in {"act1", "act2"} => Is("shutdown") = Ordered
  BY <1>1 DEF Phase, Is, Ordered
<1>3. ASSUME Whole, Keeps("shutdown")
      PROVE  /\ Is("shutdown") = Ordered
             /\ UNCHANGED <<Is("shutdown"), Ordered>>
  BY <1>2, <1>3 DEF Whole, Keeps, Is, Ordered
<1>4. CASE Resting
  BY <1>3, <1>4 DEF Resting, Protocol!Silent, Protocol!Next, Told, Keeps, Is
<1>5. CASE Beginning
  <2>1. Protocol!PowerOut
    BY <1>3, <1>5 DEF Beginning, Told, Protocol!PowerOut, Protocol!Idle
  <2>2. QED
    BY <1>5, <2>1 DEF Beginning, Protocol!Next, Told, Keeps, Is
<1>6. CASE Confirming
  <2>1. told = {"POWEROUT"}
    BY <1>6 DEF Confirming, Told
  <2>2. Protocol!OnBattery
    BY <1>3, <1>6, <2>1 DEF Confirming, Protocol!OnBattery, Protocol!Idle
  <2>3. QED
    BY <1>6, <2>2 DEF Confirming, Protocol!Next, Told, Is
<1>7. CASE Waiting
  <2>1. Protocol!Silent \/ Protocol!KillPower
    BY <1>3, <1>7 DEF Waiting, Told, Protocol!Silent, Protocol!KillPower
  <2>2. QED
    BY <1>7, <2>1 DEF Waiting, Protocol!Next, Told, Keeps, Is
<1>8. CASE Deciding
  <2>1. PICK e \in Reasons : out' = <<e>>
    BY <1>8 DEF Deciding
  <2>2. e \in Protocol!Reasons
    BY <2>1 DEF Reasons, Protocol!Reasons
  <2>3. told # {} /\ ~Is("shutdown") /\ Is("shutdown")' = TRUE /\ UNCHANGED Ordered
    BY <1>8 DEF Deciding, Told, Is, Ordered
  <2>4. Protocol!Shutdown
    BY <1>8, <2>1, <2>2, <2>3 DEF Deciding, Protocol!Shutdown
  <2>5. QED
    BY <1>8, <2>4 DEF Deciding, Protocol!Next, Told, Keeps, Is
<1>9. CASE Obeying
  <2>1. Is("shutdown") /\ ~Ordered /\ UNCHANGED Is("shutdown")
    BY <1>9, HaltsOnDoes DEF Obeying, Phase, Keeps, Is
  <2>2. CASE Order
    <3>1. Ordered' = TRUE
      BY <2>1, <2>2 DEF Order, Ordered, Is
    <3>2. Protocol!Order
      BY <1>9, <2>1, <2>2, <3>1 DEF Obeying, Protocol!Order
    <3>3. QED
      BY <1>9, <3>2 DEF Obeying, Protocol!Next, Told, Keeps, Is
  <2>3. CASE ~Order
    <3>1. UNCHANGED Ordered
      BY <1>9, <2>1, <2>3, HaltsOnDoes DEF Obeying, Ordered
    <3>2. Protocol!Silent \/ Protocol!KillPower
      BY <1>9, <2>1, <2>3, <3>1 DEF Obeying, Protocol!Silent, Protocol!KillPower
    <3>3. QED
      BY <1>9, <3>2 DEF Obeying, Protocol!Next, Told, Keeps, Is
  <2>4. QED
    BY <2>2, <2>3
<1>10. CASE Ending
  <2>1. Protocol!MainsBack
    BY <1>3, <1>10 DEF Ending, Told, Protocol!MainsBack, Protocol!Idle
  <2>2. QED
    BY <1>10, <2>1 DEF Ending, Protocol!Next, Told, Is
<1>11. CASE Giving_up
  BY <1>11 DEF Giving_up, Protocol!Silent, Protocol!Next, Told, Outage, Ordered, Is
<1>12. QED
  BY <1>4, <1>5, <1>6, <1>7, <1>8, <1>9, <1>10, <1>11 DEF Pass

\* "powerout, onbattery, offbattery, mainsback events occur in that order", an ONBATTERY
\* is taken back by one OFFBATTERY, a shutdown is ordered once, in an outage that was
\* announced: the daemon implements PowerEvents.
THEOREM ImplementsPowerEvents ==
    ASSUME LineOnly
    PROVE  Spec => OutageProtocol
<1> DEFINE Inv == Plain /\ Excused /\ Phase /\ Told
<1>1. PlainUps /\ NoMainsInKill
  BY DEF LineOnly, SteadyLine
<1>2. Init => Protocol!Init /\ Inv
  <2>1. Fresh.age["SelfTest"] = Never
    BY Zenon DEF Fresh, Timers
  <2>2. QED
    BY <2>1, FreshTypes, PhaseStarts
       DEF Init, Protocol!Init, Told, Plain, Excused, Halting, Outage, Ordered, Is
<1>3. TypeOK /\ Inv /\ [Next]_vars => [Protocol!Next]_Protocol!vars /\ Inv'
  <2> SUFFICES ASSUME TypeOK, Plain, Excused, Phase, Told, [Next]_vars
               PROVE  [Protocol!Next]_Protocol!vars /\ Told'
    BY <1>1, PlainStays, ExcusedStays, PhaseStays DEF vars, Plain
  <2>1. CASE do_action
    <3>1. Pass /\ age'["SelfTest"] = Never
      BY <2>1, PassKinds DEF Told
    <3>2. QED
      BY <3>1, PassFollows
  <2>2. ASSUME Still, age'["SelfTest"] = Never
        PROVE  Protocol!Next /\ Told'
    <3>1. Protocol!Silent
      BY <2>2 DEF Still, Protocol!Silent, Keeps, Is, Ordered
    <3>2. QED
      BY <2>2, <3>1 DEF Still, Protocol!Next, Told, Outage, Keeps, Is
  <2>3. CASE OpenFails \/ OpenSucceeds \/ FirstFill \/ fillUPS \/ CheckState
    <3>1. PICK d \in Nat : age'["SelfTest"] = Elapsed(d)["SelfTest"]
      BY <2>3, DeviceKinds DEF Passing
    <3>2. age'["SelfTest"] = Never
      BY <3>1, ElapsedOne DEF Told, Timers
    <3>3. QED
      BY <2>2, <2>3, <3>2, DeviceKinds
  <2>4. CASE apcctrl_terminate \/ Crash
    BY <2>2, <2>4, LifeKinds DEF Told
  <2>5. CASE Restart
    <3>1. Reset
      BY <2>5, LifeKinds
    <3>2. Protocol!Restart
      BY <3>1 DEF Reset, Protocol!Restart, Is, Ordered
    <3>3. QED
      BY <3>1, <3>2 DEF Reset, Protocol!Next, Told, Is
  <2>6. CASE UNCHANGED vars
    BY <2>6 DEF vars, Protocol!vars, Told, Outage, Is, Ordered
  <2>7. QED
    BY <2>1, <2>3, <2>4, <2>5, <2>6 DEF Next, do_device
<1>4. QED
  BY <1>2, <1>3, TypeCorrect, PTL DEF Spec, OutageProtocol, Protocol!Spec
=============================================================================
