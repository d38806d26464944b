--------------------------- MODULE ApcActionProofs ---------------------------
(***************************************************************************)
(* Theorems about ApcAction, for every value of its constants.             *)
(***************************************************************************)
EXTENDS ApcAction, TLAPS

Ages == {a \in [Timers -> Int] : \A t \in Timers : a[t] \in Never .. Horizon[t]}

\* Taking a time stamp keeps every age within its horizon.
LEMMA StampAges ==
    ASSUME TypeOK, NEW ts
    PROVE  Stamp(ts) \in Ages
<1>1. \A t \in Timers : 0 \in Never .. Horizon[t]
  BY HorizonAssumption DEF Never
<1> DEFINE now == ts \cup Given(ChangeDue, {"changeme"}) \cup Given(BattLowRises, {"lbatt"})
<1>2. Stamp(ts) = [t \in Timers |-> IF t \in now THEN 0 ELSE age[t]]
  BY DEF Stamp
<1> HIDE DEF now
<1>3. QED
  BY <1>1, <1>2 DEF Ages, TypeOK

\* So does the passing of time.
LEMMA ElapsedAges ==
    ASSUME TypeOK, NEW d \in Nat
    PROVE  Elapsed(d) \in Ages
BY HorizonAssumption DEF Elapsed, Ages, TypeOK, Never, Least

\* The types that concern only what a pass announces: told stays in its range.
LEMMA ToldType ==
    ASSUME TypeOK, NEW evs, NEW news, Announce(evs, news)
    PROVE  told' \subseteq OutageEvents
BY DEF TypeOK, Announce

\* A pass that adds and clears known bits ends with known bits, and the
\* CHANGEME counter never passes six.
LEMMA PassTypes ==
    ASSUME TypeOK, NEW evs, NEW news, NEW add \in SUBSET Bits, NEW del,
           EndPass(evs, news, add, del)
    PROVE  /\ Status' \subseteq Bits /\ PrevStatus' \subseteq Bits
           /\ ChangeBattCounter' \in 0 .. 6
           /\ told' \subseteq OutageEvents
<1>1. Status' \subseteq Bits /\ PrevStatus' \subseteq Bits
  BY DEF EndPass, Remember, Settled, TypeOK
<1>2. ChangeBattCounter' \in 0 .. 6
  BY DEF EndPass, Remember, TypeOK, CountChangeme, ChangeDue, Hushed
<1>3. told' \subseteq OutageEvents
  BY ToldType DEF EndPass, Remember
<1>4. QED
  BY <1>1, <1>2, <1>3

\* What the driver may write into the status has the types.
LEMMA InstallTypes ==
    ASSUME TypeOK, NEW rs \in SUBSET Report, NEW s \in SUBSET Bits, Install(rs, s)
    PROVE  Status' \subseteq Bits /\ BattChg' \in Nat /\ TimeLeft' \in Nat
BY DEF Install, Report, Bits, TypeOK, reads

\* A pass that keeps the status but for the bits it adds and clears, and what the
\* driver lets in, ends with known bits.
LEMMA RememberTypes ==
    ASSUME TypeOK, NEW evs, NEW news, Remember(evs, news), Status' \subseteq Bits
    PROVE  /\ PrevStatus' \subseteq Bits
           /\ ChangeBattCounter' \in 0 .. 6
           /\ told' \subseteq OutageEvents
<1>1. ChangeBattCounter' \in 0 .. 6
  BY DEF Remember, TypeOK, CountChangeme, ChangeDue, Hushed
<1>2. told' \subseteq OutageEvents
  BY ToldType DEF Remember
<1>3. QED
  BY <1>1, <1>2 DEF Remember

\* Every bit a pass sets by itself is a local bit.
LEMMA LocalBitsAreBits ==
    /\ {} \in SUBSET Bits /\ {"fastpoll"} \in SUBSET Bits /\ {"onbatt_msg"} \in SUBSET Bits
    /\ {"shut_btime"} \in SUBSET Bits
    /\ LimitAdd \in SUBSET Bits /\ LimitAdd \cup {"shut_emerg"} \in SUBSET Bits
BY DEF Bits, LocalBits, LimitAdd, Given

\* Where the loop goes on from the middle of a pass, and from a pass in one step.
LEMMA Places ==
    /\ pc \in {"act1", "act2"} => Onward[pc] \in {"make1", "make2"}
    /\ pc \in {"make1", "make2"} => Onward[pc] \in {"prohibit1", "prohibit2"}
    /\ pc \in {"prohibit1", "prohibit2"} => Onward[pc] \in {"order1", "order2"}
    /\ pc \in {"order1", "order2"} => Onward[pc] \in {"fill", "check"}
    /\ Following \in {"fill", "check"}
    /\ Aborted \in {"dead", "stuck"}
BY DEF Onward, Following, Aborted

\* Bringing the system down keeps the types.
LEMMA HaltTypes ==
    ASSUME TypeOK, pc \in {"act1", "act2"}, NEW e, NEW add \in SUBSET Bits,
           NEW del, NEW stamps, Halt(e, add, del, stamps)
    PROVE  TypeOK'
<1>1. files' \subseteq Files
  BY DEF Halt, TypeOK
<1>2. age' \in Ages
  BY StampAges DEF Halt
<1>3. pc' \in Halting
  BY Places DEF Halt, Halting
<1>4. Status' \subseteq Bits
  BY DEF Halt, Settled, TypeOK, Bits, LocalBits
<1>5. ChangeBattCounter' \in 0 .. 6
  BY DEF Halt, TypeOK, CountChangeme, ChangeDue, Hushed
<1>6. told' \subseteq OutageEvents
  BY ToldType DEF Halt
<1>7. QED
  BY <1>1, <1>2, <1>3, <1>4, <1>5, <1>6 DEF Halt, TypeOK, Ages, reads

\* So do the steps that follow it in the same pass.
LEMMA HaltingTypes ==
    ASSUME TypeOK, MakeFile \/ Prohibit \/ Order
    PROVE  TypeOK'
<1> USE Places DEF Halting
<1>1. CASE MakeFile
  <2>1. told' \subseteq OutageEvents
    BY <1>1, ToldType DEF MakeFile
  <2>2. files' \subseteq Files
    BY <1>1 DEF MakeFile, Files, Given, TypeOK
  <2>3. QED
    BY <1>1, <2>1, <2>2 DEF MakeFile, TypeOK, reads
<1>2. CASE Prohibit
  <2> DEFINE aborts == KillsNow /\ Refuses(files')
             kills  == KillsNow /\ ~aborts
  <2>1. told' \subseteq OutageEvents
    <3>1. PICK evs : Announce(evs, {})
      BY <1>2 DEF Prohibit
    <3>2. QED
      BY <3>1, ToldType
  <2>2. files' \subseteq Files
    BY <1>2 DEF Prohibit, WithNologin, Files, Given, TypeOK
  <2>3. Status' \subseteq Bits /\ BattChg' \in Nat /\ TimeLeft' \in Nat
    <3>1. PICK rs \in SUBSET Report : Install(rs, Status)
      BY <1>2, ReportAssumption DEF Prohibit, Calls
    <3>2. QED
      BY <3>1, InstallTypes DEF TypeOK
  <2>4. pc' \in {"dead", "stuck"} \cup Halting
    BY <1>2 DEF Prohibit
  <2>5. nologin_file' \in BOOLEAN
    BY <1>2 DEF Prohibit
  <2>6. QED
    BY <1>2, <2>1, <2>2, <2>3, <2>4, <2>5 DEF Prohibit, TypeOK
<1>3. CASE Order
  <2>1. told' \subseteq OutageEvents
    <3>1. PICK news : Announce(<<"DOSHUTDOWN">>, news)
      BY <1>3 DEF Order
    <3>2. QED
      BY <3>1, ToldType
  <2>2. age' \in Ages
    <3>1. 0 \in Never .. Horizon["annoy"]
      BY HorizonAssumption DEF Never, Timers
    <3>2. age' \in {age, [age EXCEPT !["annoy"] = 0]}
      BY <1>3 DEF Order
    <3>3. QED
      BY <3>1, <3>2 DEF Ages, TypeOK
  <2>3. sigterm' \in BOOLEAN
    BY <1>3 DEF Order, TypeOK
  <2>4. pc' \in {"fill", "check"}
    BY <1>3 DEF Order
  <2>5. QED
    BY <1>3, <2>1, <2>2, <2>3, <2>4 DEF Order, TypeOK, Ages, reads
<1>4. QED
  BY <1>1, <1>2, <1>3

\* So does a pass that ends normally and changes no file.
LEMMA OrdinaryTypes ==
    ASSUME TypeOK, pc \in {"act1", "act2"}, Ordinary,
           NEW evs, NEW news, NEW add \in SUBSET Bits, NEW del,
           EndPass(evs, news, add, del), age' \in Ages
    PROVE  TypeOK'
<1>1. /\ Status' \subseteq Bits /\ PrevStatus' \subseteq Bits
      /\ ChangeBattCounter' \in 0 .. 6
      /\ told' \subseteq OutageEvents
  BY PassTypes
<1>2. pc' \in {"fill", "check"}
  BY DEF Ordinary, Following
<1>3. QED
  BY <1>1, <1>2 DEF Ordinary, reads, TypeOK, Ages

\* One way through do_action() after the other.
LEMMA ActionTypes ==
    ASSUME TypeOK, do_action
    PROVE  TypeOK'
<1> USE LocalBitsAreBits
<1>1. CASE RemoteBegins
  BY <1>1, HaltTypes DEF RemoteBegins
<1>2. CASE RemoteStays
  BY <1>2, OrdinaryTypes, StampAges DEF RemoteStays
<1>3. CASE OnMains
  BY <1>3, OrdinaryTypes, StampAges DEF OnMains, At
<1>4. CASE PowerFailure
  <2>1. age' \in Ages
    BY <1>4, StampAges DEF PowerFailure
  <2>2. Status' \subseteq Bits /\ BattChg' \in Nat /\ TimeLeft' \in Nat
    <3>1. Settled \cup {"fastpoll"} \in SUBSET Bits
      BY DEF Settled, TypeOK, Bits, LocalBits
    <3>2. During["check"] \in SUBSET Report
      BY ReportAssumption DEF Calls
    <3>3. QED
      BY <1>4, <3>1, <3>2, InstallTypes DEF PowerFailure
  <2>3. /\ PrevStatus' \subseteq Bits
        /\ ChangeBattCounter' \in 0 .. 6
        /\ told' \subseteq OutageEvents
    BY <1>4, <2>2, RememberTypes DEF PowerFailure
  <2>4. QED
    BY <1>4, <2>1, <2>2, <2>3, Places DEF PowerFailure, TypeOK, Ages
<1>5. CASE SelfTest
  <2>1. Stamp({}) \in Ages
    BY StampAges
  <2>2. [Stamp({}) EXCEPT !["SelfTest"] = Never] \in Ages
    BY <2>1, HorizonAssumption DEF Ages, Never, Timers
  <2>3. age' \in Ages
    BY <1>5, <2>1, <2>2 DEF SelfTest
  <2>4. QED
    BY <1>5, <2>3, OrdinaryTypes DEF SelfTest, At
<1>6. CASE ConfirmOnBattery
  BY <1>6, OrdinaryTypes, StampAges DEF ConfirmOnBattery, At
<1>7. CASE AwaitPowerOff
  BY <1>7, OrdinaryTypes, StampAges DEF AwaitPowerOff, AwaitEnd, At
<1>8. CASE KillPower
  <2>1. age' \in Ages
    BY <1>8, StampAges DEF KillPower
  <2>2. Status' \subseteq Bits /\ BattChg' \in Nat /\ TimeLeft' \in Nat
    <3>1. Settled \in SUBSET Bits
      BY DEF Settled, TypeOK
    <3>2. During["kill"] \in SUBSET Report
      BY ReportAssumption DEF Calls
    <3>3. QED
      BY <1>8, <3>1, <3>2, InstallTypes DEF KillPower
  <2>3. /\ PrevStatus' \subseteq Bits
        /\ ChangeBattCounter' \in 0 .. 6
        /\ told' \subseteq OutageEvents
    BY <1>8, <2>2, RememberTypes DEF KillPower
  <2>4. QED
    BY <1>8, <2>1, <2>2, <2>3, Places DEF KillPower, TypeOK, Ages
<1>9. CASE KillPowerFails
  BY <1>9, ToldType, Places DEF KillPowerFails, TypeOK, reads
<1>10. CASE MakeFile \/ Prohibit \/ Order
  BY <1>10, HaltingTypes
<1>11. CASE TimeLimit
  BY <1>11, HaltTypes DEF TimeLimit, Undecided, At
<1>12. CASE BatteryLimit
  BY <1>12, HaltTypes DEF BatteryLimit, Undecided, At
<1>13. CASE Emergency
  BY <1>13, HaltTypes DEF Emergency, Undecided, At
<1>14. CASE KeepWaiting
  <2>1. age' \in Ages
    BY <1>14, StampAges DEF KeepWaiting
  <2>2. /\ Status' \subseteq Bits /\ PrevStatus' \subseteq Bits
        /\ ChangeBattCounter' \in 0 .. 6
        /\ told' \subseteq OutageEvents
    BY <1>14, PassTypes DEF KeepWaiting
  <2>3. files' \subseteq Files
    BY <1>14 DEF KeepWaiting, WithNologin, Given, Files, TypeOK
  <2>4. nologin_file' \in BOOLEAN
    BY <1>14 DEF KeepWaiting, ProhibitsLogins, TypeOK
  <2>5. pc' \in {"fill", "check"}
    BY <1>14 DEF KeepWaiting, Following
  <2>6. QED
    BY <1>14, <2>1, <2>2, <2>3, <2>4, <2>5 DEF KeepWaiting, TypeOK, Ages, reads
<1>15. CASE MainsBack
  <2> DEFINE start == IF age["onbatt"] = Never THEN 0 ELSE age["onbatt"]
  <2>1. age' \in Ages
    <3>1. Stamp(Given(age["onbatt"] = Never, {"onbatt"})) \in Ages
      BY StampAges
    <3>2. QED
      BY <1>15, <3>1, HorizonAssumption DEF MainsBack, Ages, Never, Timers
  <2>2. cum_time_on_batt' \in 0 .. Horizon["start"]
    <3>1. start \in Nat
      BY HorizonAssumption DEF TypeOK, Timers, Never
    <3>2. cum_time_on_batt' = Least(cum_time_on_batt + start, Horizon["start"])
      BY <1>15 DEF MainsBack
    <3>3. Horizon["start"] \in Nat
      BY HorizonAssumption DEF Timers
    <3> HIDE DEF start
    <3>4. QED
      BY <3>1, <3>2, <3>3 DEF Least, TypeOK
  <2>3. Status' \subseteq Bits /\ BattChg' \in Nat /\ TimeLeft' \in Nat
    <3>1. AfterOutage \in SUBSET Bits
      BY DEF AfterOutage, Settled, TypeOK
    <3>2. PICK rs \in SUBSET Report : Install(rs, AfterOutage)
      BY <1>15, ReportAssumption DEF MainsBack, Calls
    <3>3. QED
      BY <3>1, <3>2, InstallTypes
  <2>4. /\ PrevStatus' \subseteq Bits
        /\ ChangeBattCounter' \in 0 .. 6
        /\ told' \subseteq OutageEvents
    <3>1. PICK evs : Remember(evs, {})
      BY <1>15 DEF MainsBack
    <3>2. QED
      BY <2>3, <3>1, RememberTypes
  <2>5. QED
    BY <1>15, <2>1, <2>2, <2>3, <2>4, Places DEF MainsBack, TypeOK, Ages, Files
<1>16. CASE Calibration
  BY <1>16, OrdinaryTypes, StampAges DEF Calibration, At
<1>17. QED
  BY <1>1, <1>2, <1>3, <1>4, <1>5, <1>6, <1>7, <1>8, <1>9, <1>10, <1>11, <1>12,
     <1>13, <1>14, <1>15, <1>16 DEF do_action

\* A read of the UPS installs known bits.
LEMMA ReadTypes ==
    ASSUME TypeOK, Read
    PROVE  Status' \subseteq Bits /\ BattChg' \in Nat /\ TimeLeft' \in Nat
BY ReportAssumption, InstallTypes DEF Read, TypeOK

\* The steps of do_device() outside do_action().
LEMMA DeviceTypes ==
    ASSUME TypeOK, OpenFails \/ OpenSucceeds \/ FirstFill \/ fillUPS \/ CheckState
    PROVE  TypeOK'
<1>1. CASE OpenFails
  <2>1. Elapsed(OpenRetry) \in Ages
    BY DirectiveAssumption, ElapsedAges
  <2>2. age' \in Ages
    <3>1. PICK a \in {0, Elapsed(OpenRetry)["comm"]} :
            age' = [Elapsed(OpenRetry) EXCEPT !["comm"] = a]
      BY <1>1, Zenon DEF OpenFails
    <3>2. a \in Int /\ a \in Never .. Horizon["comm"]
      BY <2>1, HorizonAssumption DEF Ages, Timers, Never
    <3>3. QED
      BY <2>1, <3>1, <3>2 DEF Ages
  <2>3. told' \subseteq OutageEvents
    BY <1>1, ToldType DEF OpenFails
  <2>4. QED
    BY <1>1, <2>2, <2>3 DEF OpenFails, TypeOK, Ages, Quiet, reads, Bits, DriverBits
<1>2. CASE OpenSucceeds
  BY <1>2, ToldType DEF OpenSucceeds, TypeOK, Quiet, reads
<1>3. CASE FirstFill
  <2>1. PICK d \in 0 .. FillMax :
          age' = [t \in Timers |-> IF t \in {"nologon", "annoy", "on_line"} THEN 0
                                   ELSE Elapsed(d)[t]]
    BY <1>3 DEF FirstFill
  <2>2. Elapsed(d) \in Ages
    BY DirectiveAssumption, ElapsedAges
  <2>3. age' \in Ages
    BY <2>1, <2>2, HorizonAssumption DEF Ages, Never
  <2>4. told' \subseteq OutageEvents
    BY <1>3, ToldType DEF FirstFill
  <2>5. QED
    BY <1>3, <2>3, <2>4, ReadTypes DEF FirstFill, TypeOK, Ages, Quiet
<1>4. CASE fillUPS
  <2>1. PICK d \in 0 .. FillMax : age' = Elapsed(d)
    BY <1>4 DEF fillUPS
  <2>2. age' \in Ages
    BY <2>1, DirectiveAssumption, ElapsedAges
  <2>3. told' \subseteq OutageEvents
    BY <1>4, ToldType DEF fillUPS
  <2>4. QED
    BY <1>4, <2>2, <2>3, ReadTypes DEF fillUPS, TypeOK, Ages, Quiet
<1>5. CASE CheckState
  <2>1. PICK d \in 0 .. device_wait_time : Sleep(d)
    BY <1>5 DEF CheckState
  <2>2. age' \in Ages
    <3>1. device_wait_time \in Nat
      BY DirectiveAssumption DEF device_wait_time
    <3>2. d \in Nat
      BY <3>1
    <3>3. QED
      BY <2>1, <3>2, ElapsedAges DEF Sleep
  <2>3. told' \subseteq OutageEvents
    BY <2>1, ToldType DEF Sleep
  <2>4. QED
    BY <2>1, <2>2, <2>3, ReadTypes DEF Sleep, TypeOK, Ages, Quiet
<1>6. QED
  BY <1>1, <1>2, <1>3, <1>4, <1>5

\* A process that starts has the types.
LEMMA FreshTypes ==
    /\ Fresh.age \in Ages
    /\ Fresh.pc = "open" /\ Fresh.Status = {"battpresent"} /\ Fresh.PrevStatus = {"battpresent"}
    /\ Fresh.BattChg = 0 /\ Fresh.TimeLeft = 0
<1>1. \A t \in Timers : Horizon[t] \in Nat
  BY HorizonAssumption
<1> DEFINE first == [t \in Timers |-> CASE t = "start" -> 0
                                        [] t \in {"SelfTest", "comm", "onbatt"} -> Never
                                        [] OTHER -> Horizon[t]]
<1>2. \A t \in Timers : first[t] \in {0, Never, Horizon[t]}
  BY Zenon
<1>3. first \in Ages
  <2>1. first = [t \in Timers |-> first[t]]
    BY Zenon
  <2> HIDE DEF first
  <2>2. QED
    BY <1>1, <1>2, <2>1 DEF Ages, Never
<1>4. QED
  BY <1>3, Zenon DEF Fresh

\* The values every variable may take: no action of the loop, no end and no
\* start of the process leaves them.
THEOREM TypeCorrect == Spec => []TypeOK
<1>1. Init => TypeOK
  <2> SUFFICES ASSUME Init PROVE TypeOK
    OBVIOUS
  <2>1. age \in Ages
    BY FreshTypes DEF Init
  <2>2. 0 \in 0 .. Horizon["start"]
    BY HorizonAssumption DEF Timers
  <2>3. {"battpresent"} \subseteq Bits /\ {"lock"} \subseteq Files
    BY DEF Bits, DriverBits, Files
  <2>4. /\ pc = "open" /\ Status = {"battpresent"} /\ PrevStatus = {"battpresent"}
        /\ BattChg = 0 /\ TimeLeft = 0 /\ age \in Ages
        /\ nologin_file = FALSE /\ ChangeBattCounter = 0 /\ cum_time_on_batt = 0
        /\ files = {"lock"} /\ sigterm = FALSE /\ told = {}
    BY <2>1, FreshTypes, Zenon DEF Init
  <2>5. Status \subseteq Bits /\ PrevStatus \subseteq Bits /\ files \subseteq Files
        /\ told \subseteq OutageEvents /\ nologin_file \in BOOLEAN /\ sigterm \in BOOLEAN
    BY <2>3, <2>4, Zenon
  <2>6. QED
    BY <2>2, <2>4, <2>5 DEF TypeOK, Ages
<1>2. TypeOK /\ [Next]_vars => TypeOK'
  <2> SUFFICES ASSUME TypeOK, [Next]_vars
               PROVE  TypeOK'
    OBVIOUS
  <2>1. CASE do_device
    BY <2>1, ActionTypes, DeviceTypes DEF do_device
  <2>2. CASE apcctrl_terminate
    BY <2>2, ToldType DEF apcctrl_terminate, TypeOK, reads, Files
  <2>3. CASE Crash
    BY <2>3, ToldType DEF Crash, TypeOK, reads
  <2>4. CASE Restart
    <3>1. age' \in Ages
      BY <2>4, FreshTypes DEF Restart
    <3>2. 0 \in 0 .. Horizon["start"]
      BY HorizonAssumption DEF Timers
    <3>3. {"battpresent"} \subseteq Bits
      BY DEF Bits, DriverBits
    <3>4. files' \subseteq Files
      BY <2>4 DEF Restart, Files, TypeOK
    <3>5. /\ pc' = "open" /\ Status' = {"battpresent"} /\ PrevStatus' = {"battpresent"}
          /\ BattChg' = 0 /\ TimeLeft' = 0
          /\ nologin_file' = FALSE /\ ChangeBattCounter' = 0 /\ cum_time_on_batt' = 0
          /\ sigterm' = FALSE /\ told' = {}
      BY <2>4, FreshTypes, Zenon DEF Restart
    <3>6. Status' \subseteq Bits /\ PrevStatus' \subseteq Bits /\ told' \subseteq OutageEvents
          /\ nologin_file' \in BOOLEAN /\ sigterm' \in BOOLEAN
      BY <3>3, <3>5, Zenon
    <3>7. QED
      BY <3>1, <3>2, <3>4, <3>5, <3>6 DEF TypeOK, Ages
  <2>5. CASE UNCHANGED vars
    BY <2>5 DEF vars, reads, TypeOK
  <2>6. QED
    BY <2>1, <2>2, <2>3, <2>4, <2>5 DEF Next
<1>3. QED
  BY <1>1, <1>2, PTL DEF Spec

=============================================================================
