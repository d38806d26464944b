----------------------------- MODULE MCApcAction -----------------------------
(* Small instances of ApcAction for TLC. *)
EXTENDS ApcAction

Rep(bits, charge, left) == [bits |-> bits, BattChg |-> charge, TimeLeft |-> left]
OnLine(more) == {"online", "battpresent"} \cup more
OnBatt(more) == {"onbatt", "battpresent"} \cup more

\* A driver that lets nothing into the status in the middle of a pass.
Nothing == [c \in Calls |-> {}]

\* A UPS that knows its line and its battery; the battery is worn out, as the UPS says
\* on mains, and may be unplugged.
PlainReports ==
    {Rep(OnLine({"replacebatt"}), 2, 2), Rep({"online", "battlow"}, 1, 1), Rep(OnBatt({}), 2, 2),
     Rep(OnBatt({}), 1, 2), Rep(OnBatt({}), 2, 1), Rep(OnBatt({"battlow"}), 1, 1)}
PlainHorizon ==
    [t \in Timers |-> CASE t = "on_line"  -> 4
                        [] t = "nologon"  -> 3
                        [] t = "annoy"    -> 1
                        [] t = "onbatt"   -> 6
                        [] t \in {"changeme", "SelfTest"} -> 1
                        [] t \in {"lbatt", "load", "ltime"} -> 2
                        [] OTHER -> 0]

\* A smart UPS: self tests, calibrations, a dead battery, a master.
SmartReports ==
    {Rep(OnLine({}), 2, 2), Rep(OnBatt({}), 2, 2),
     Rep(OnBatt({"battlow"}), 2, 2), Rep(OnBatt({"calibration"}), 1, 2),
     Rep(OnBatt({"online", "battlow"}), 2, 2), Rep(OnBatt({"shut_remote"}), 2, 2)}
\* The alerts '!' and '$' of apcsmart, heard while it asks something else.
SmartAlerts ==
    [c \in Calls |-> IF c = "message" THEN {Rep(OnBatt({}), 2, 2)} ELSE {Rep(OnLine({}), 2, 2)}]

\* A PowerChute Network Shutdown card, which may ask for the shutdown.
PcnetReports ==
    {Rep(OnLine({}), 2, 2), Rep(OnBatt({}), 2, 2), Rep(OnLine({"shut_remote"}), 2, 2),
     Rep(OnBatt({"shut_remote"}), 2, 2)}
PcnetWait == [c \in Calls |-> IF c = "message" THEN PcnetReports ELSE {}]
SmartHorizon ==
    [t \in Timers |-> CASE t = "on_line"  -> 1
                        [] t = "changeme" -> 1
                        [] t = "annoy"    -> 1
                        [] t = "nologon"  -> 0
                        [] t = "start"    -> 1
                        [] t = "SelfTest" -> 2
                        [] t = "ShutDown" -> 1
                        [] t \in {"lbatt", "load", "ltime"} -> 1
                        [] OTHER -> 0]
=============================================================================
