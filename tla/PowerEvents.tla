----------------------------- MODULE PowerEvents -----------------------------
(***************************************************************************)
(* What the daemon promises the administrator's apccontrol script about an *)
(* outage, whatever the UPS, the timers and the polling do: "powerout,     *)
(* onbattery, offbattery, mainsback events occur in that order", an        *)
(* ONBATTERY is taken back by exactly one OFFBATTERY, a shutdown is        *)
(* announced before it is ordered, at most once and, unless the master     *)
(* asked for it, only in an outage that was announced.                     *)
(***************************************************************************)
VARIABLES
    told,     \* the outage events the script has seen since the last MAINSBACK
    begun,    \* a shutdown is under way: its reason has been announced
    ordered,  \* ... and the order has been given
    said      \* events of the last step, in order

vars == <<told, begun, ordered, said>>

Reasons == {"TIMEOUT", "FAILING", "LOADLIMIT", "RUNLIMIT", "EMERGENCY", "REMOTEDOWN"}

Init == told = {} /\ ~begun /\ ~ordered /\ said = <<>>

Silent == said' = <<>> /\ UNCHANGED <<told, begun, ordered>>

\* Nothing else is said between the reason of a shutdown and the order.
Idle == begun = ordered

PowerOut ==
    /\ Idle /\ told = {}
    /\ told' = {"POWEROUT"}
    /\ said' = <<"POWEROUT">>
    /\ UNCHANGED <<begun, ordered>>

OnBattery ==
    /\ Idle /\ told = {"POWEROUT"}
    /\ told' = {"POWEROUT", "ONBATTERY"}
    /\ said' = <<"ONBATTERY">>
    /\ UNCHANGED <<begun, ordered>>

MainsBack ==
    /\ Idle /\ "POWEROUT" \in told
    /\ told' = {}
    /\ said' = IF "ONBATTERY" \in told THEN <<"OFFBATTERY", "MAINSBACK">>
               ELSE <<"MAINSBACK">>
    /\ UNCHANGED <<begun, ordered>>

\* The reason of a shutdown is announced.
Shutdown ==
    \E reason \in Reasons :
        /\ ~begun
        /\ told # {} \/ reason = "REMOTEDOWN"
        /\ begun' = TRUE
        /\ said' = <<reason>>
        /\ UNCHANGED <<told, ordered>>

\* The shutdown is ordered, unless the daemon has come to its end before.
Order ==
    /\ begun /\ ~ordered
    /\ ordered' = TRUE
    /\ said' = <<"DOSHUTDOWN">>
    /\ UNCHANGED <<told, begun>>

\* The UPS is told to cut the power on the way to the order, and again, if need be,
\* after it during an outage.
KillPower ==
    /\ begun /\ (ordered => told # {})
    /\ said' = <<"KILLPOWER">>
    /\ UNCHANGED <<told, begun, ordered>>

\* A new daemon knows nothing of what the old one said.
Restart == told' = {} /\ begun' = FALSE /\ ordered' = FALSE /\ said' = <<>>

Next == Silent \/ PowerOut \/ OnBattery \/ MainsBack \/ Shutdown \/ Order \/ KillPower \/ Restart

Spec == Init /\ [][Next]_vars
=============================================================================
