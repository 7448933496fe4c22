----------------------------- MODULE DesyncClock -----------------------------
(***************************************************************************)
(* Supervisor with a clock for what DesyncHeals promises: how long the link*)
(* has been up without the Wi-Fi thread knowing of it. The clock only      *)
(* watches; it never decides which step is taken.                          *)
(***************************************************************************)
EXTENDS Supervisor

VARIABLE unaware  \* history: time since the thread's view and the link parted

clockVars == <<vars, unaware>>

\* The link is up and the thread, which has been started, takes it for down.
Desync == link = "up" /\ ~connected /\ wpc # "off"

Untimed == WifiThread \/ Start \/ WifiDriver \/ Manager \/ Faults

\* An attempt that the driver refuses because it is connected: one poll, and
\* the sleep before the next one.
Round == Poll + Retry + 2 * Late

\* A report can only be lost after an attempt that has failed, and the attempt
\* it was lost in fails as well: what is left of MAX_FAILED_CONNECT_COUNT.
RetriesLast == MaxFails * Round

\* A thread that hangs is found by the manager, or the manager by the watchdog.
Longest == IF Attempt >= Retry THEN Attempt ELSE Retry
StallLasts == Longest + Tolerance + Feed + Countdown + 3 * Late + Watchdog

\* The clock stops past the bounds of HealsInTime, so that its values are few.
ClockEnd == RetriesLast + StallLasts + 1
OneLater == IF unaware < ClockEnd THEN unaware + 1 ELSE unaware

ClockInit == Init /\ unaware = 0

ClockNext ==
    \/ Tick /\ unaware' = IF Desync THEN OneLater ELSE 0
    \/ Untimed /\ unaware' = IF Desync /\ Desync' THEN unaware ELSE 0

ClockSpec == ClockInit /\ [][ClockNext]_clockVars /\ Fairness

-----------------------------------------------------------------------------

\* A link whose report was overwritten by wifi_connect or by the clearing of
\* connect_result (wifi_thread.c:247, 567) is known, gone, or the device
\* restarted, before the failed attempts have run out (334), and when the
\* thread hangs meanwhile, before it has been found to.
HealsInTime ==
    Desync => unaware <= IF stuck THEN RetriesLast + StallLasts ELSE RetriesLast
=============================================================================
