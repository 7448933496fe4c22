----------------------------- MODULE Supervisor ------------------------------
(***************************************************************************)
(* The manager thread over the Wi-Fi thread: it feeds the task watchdog,   *)
(* checks that the Wi-Fi thread has checked in within the timeout it gave  *)
(* (manager_thread_monitor.c) and that Wi-Fi and MQTT have not been down   *)
(* for too long (manager_connectivity_monitor.c), and restarts the device  *)
(* by an assertion after a countdown. The MQTT session is external here:   *)
(* it becomes ready while there is an address, and may be lost.            *)
(*                                                                         *)
(* Time: one Tick ages every timestamp and shortens every sleep by 1. A    *)
(* thread whose sleep is over may be late by Late before it sleeps again.  *)
(* Event handlers run at once.                                             *)
(***************************************************************************)
EXTENDS WifiLink

CONSTANTS
    Late,        \* how late a thread that is not stuck may be
    Feed,        \* WDT_FEED_INTERVAL
    Countdown,   \* the countdown before an assertion
    Tolerance,   \* THREAD_MONITOR_TIMEOUT_TOLERANCE_MS
    WifiTimeout, \* wifi_to_ms, 0: disabled
    MqttTimeout, \* mqtt_to_ms, 0: disabled
    Watchdog     \* CONFIG_TASK_WDT_MIN_TIMEOUT

\* The code: Poll is 3 s, Tolerance 5 s, Countdown 4 s, Feed 0.1 s, Watchdog
\* 10 s; both inequalities leave Late 1 s.
ASSUME SupervisorAssumption ==
    /\ Late \in Nat /\ WifiTimeout \in Nat /\ MqttTimeout \in Nat
    /\ Feed \in Nat \ {0} /\ Countdown \in Nat \ {0}
    /\ Tolerance \in Nat /\ Watchdog \in Nat
    /\ Poll + 2 * Late <= Tolerance
    /\ Countdown + 2 * Late < Watchdog /\ Feed + 2 * Late < Watchdog

VARIABLES
    mpc,      \* the manager: sleep, threads, network or alarm
    mrest,    \* what is left of its sleep
    mstuck,   \* it hangs in a call
    fed,      \* time since sys_watchdog_feed
    promise,  \* the Wi-Fi thread's timeout_ms, 0: not checked in
    age,      \* time since its timestamp_ms
    stamped,  \* that timestamp was taken after the 32-bit uptime wrapped
    wrapped,  \* the uptime exceeds 32 bits
    wifiUp,   \* wifi_connected
    wifiAge,  \* time since wifi_disconnect_ts, while it is read
    mqttUp,   \* transport_connected
    mqttAge,  \* time since transport_disconnect_ts, while it is read
    reason    \* what the countdown is for

manager == <<mpc, mrest, mstuck, fed, reason>>
entry == <<promise, age, stamped, wrapped>>
network == <<wifiUp, wifiAge, mqttUp, mqttAge>>
vars == <<linkVars, manager, entry, network>>

TimesOK ==
    /\ mrest \in Int /\ fed \in Nat
    /\ promise \in Nat /\ age \in Nat
    /\ wifiAge \in Nat /\ mqttAge \in Nat

TypeOK ==
    /\ LinkTypeOK /\ TimesOK
    /\ mpc \in {"sleep", "threads", "network", "alarm"}
    /\ reason \in {"none", "stall", "wifi", "mqtt"}
    /\ mstuck \in BOOLEAN /\ stamped \in BOOLEAN /\ wrapped \in BOOLEAN
    /\ wifiUp \in BOOLEAN /\ mqttUp \in BOOLEAN

Booted ==
    /\ wpc' = "off" /\ rest' = 0 /\ waited' = 0 /\ fails' = 0 /\ stuck' = FALSE
    /\ connected' = FALSE /\ result' = FALSE
    /\ link' = "down" /\ ip' = FALSE
    /\ mpc' = "sleep" /\ mrest' = Feed /\ mstuck' = FALSE /\ fed' = 0
    /\ promise' = 0 /\ age' = 0 /\ stamped' = FALSE /\ wrapped' = FALSE
    /\ wifiUp' = FALSE /\ wifiAge' = 0 /\ mqttUp' = FALSE /\ mqttAge' = 0
    /\ reason' = "none"

-----------------------------------------------------------------------------
(* The Wi-Fi thread: im_alive_cb with its timestamp and timeout.           *)

\* im_alive_cb.
CheckIn(timeout) ==
    /\ promise' = timeout /\ age' = 0 /\ stamped' = wrapped
    /\ UNCHANGED wrapped

ThreadStep ==
    /\ \/ (Begin \/ Request \/ PollAgain) /\ CheckIn(Attempt)
       \/ KeepWatch /\ CheckIn(Rest)
       \/ SettleDown /\ CheckIn(Settle)
       \/ SettleOn /\ CheckIn(Poll)
       \/ TimedOut /\ CheckIn(Retry)
       \/ (InterfaceDown \/ InterfaceStays) /\ CheckIn(LongSleep)
       \/ /\ \/ PollEnds \/ PollEndsOver \/ Settled \/ StartOver
             \/ CountFail \/ ShutDown \/ InterfaceUp
          /\ UNCHANGED entry
    /\ UNCHANGED <<manager, network>>

\* WIFI_STATUS_EVENT_DISCONNECTED: manager_connectivity_wifi_event_handler.
WifiDown == wifiUp' = FALSE /\ wifiAge' = 0

\* The last of the events of a link, with the check-in of the sleep after it.
Cut ==
    /\ InterfaceCut /\ CheckIn(LongSleep)
    /\ WifiDown
    /\ UNCHANGED <<manager, mqttUp, mqttAge>>

Start == ThreadStart /\ UNCHANGED <<manager, entry, network>>

Hangs == Hang /\ UNCHANGED <<manager, entry, network>>

-----------------------------------------------------------------------------
(* The driver's callbacks and their events.                                *)

\* CONNECTED and CONNECT_FAILED tell the manager nothing.
LinkResult ==
    /\ Associate \/ Refuse
    /\ UNCHANGED <<manager, entry, network>>

LinkLost ==
    /\ Lose /\ WifiDown
    /\ UNCHANGED <<manager, entry, mqttUp, mqttAge>>

\* WIFI_STATUS_EVENT_IP_ACQUIRED; wifiAge is not read until the next loss.
LinkBound ==
    /\ Bind
    /\ wifiUp' = TRUE /\ wifiAge' = 0
    /\ UNCHANGED <<manager, entry, mqttUp, mqttAge>>

\* TRANSPORT_STATUS_EVENT_READY and TRANSPORT_STATUS_EVENT_DISCONNECTED:
\* manager_connectivity_transport_event_handler.
MqttEvent ==
    /\ \/ ip /\ ~mqttUp /\ mqttUp' = TRUE
       \/ mqttUp /\ mqttUp' = FALSE
    /\ mqttAge' = 0
    /\ UNCHANGED <<linkVars, manager, entry, wifiUp, wifiAge>>

-----------------------------------------------------------------------------
(* The manager thread.                                                     *)

ManagerRuns(p) == mpc = p /\ mrest <= 0 /\ ~mstuck

\* sys_watchdog_feed after the sleep.
FeedWatchdog ==
    /\ ManagerRuns("sleep") /\ mpc' = "threads"
    /\ fed' = 0
    /\ UNCHANGED <<linkVars, entry, network, mrest, mstuck, reason>>

\* Mutation: a longer countdown.
AlarmLonger(why) ==
    mpc' = "alarm" /\ mrest' = Countdown + Watchdog /\ reason' = why

\* The countdown, without a feed.
Alarm(why) == mpc' = "alarm" /\ mrest' = Countdown /\ reason' = why

\* Mutation: the tolerance is forgotten.
OverdueAtOnce == promise # 0 /\ (stamped \/ age > promise)

\* k_uptime_get() has 64 bits and timestamp_ms 32.
Overdue == promise # 0 /\ (stamped \/ age > promise + Tolerance)

\* Mutation: an overdue thread is only reported.
OnlyReport ==
    /\ ManagerRuns("threads")
    /\ mpc' = "network" /\ UNCHANGED <<mrest, reason>>
    /\ UNCHANGED <<linkVars, entry, network, mstuck, fed>>

\* thread_monitor_timeout_check.
CheckThreads ==
    /\ ManagerRuns("threads")
    /\ \/ Overdue /\ Alarm("stall")
       \/ ~Overdue /\ mpc' = "network" /\ UNCHANGED <<mrest, reason>>
    /\ UNCHANGED <<linkVars, entry, network, mstuck, fed>>

\* manager_connectivity_monitor: MQTT counts only while Wi-Fi is up, or is
\* not watched.
WifiOverdue == ~wifiUp /\ WifiTimeout # 0 /\ wifiAge > WifiTimeout
MqttOverdue ==
    /\ wifiUp \/ WifiTimeout = 0
    /\ ~mqttUp /\ MqttTimeout # 0 /\ mqttAge > MqttTimeout

\* Mutation: only a lost MQTT session is looked at.
CheckMqtt ==
    /\ ManagerRuns("network")
    /\ \/ MqttOverdue /\ Alarm("mqtt")
       \/ /\ ~MqttOverdue
          /\ mpc' = "sleep" /\ mrest' = Feed /\ UNCHANGED reason
    /\ UNCHANGED <<linkVars, entry, network, mstuck, fed>>

CheckNetwork ==
    /\ ManagerRuns("network")
    /\ \/ WifiOverdue /\ Alarm("wifi")
       \/ MqttOverdue /\ Alarm("mqtt")
       \/ /\ ~WifiOverdue /\ ~MqttOverdue
          /\ mpc' = "sleep" /\ mrest' = Feed /\ UNCHANGED reason
    /\ UNCHANGED <<linkVars, entry, network, mstuck, fed>>

\* The assertion ends the countdown, whatever has happened in it.
Assert == ManagerRuns("alarm") /\ Booted

ManagerHangs ==
    /\ ~mstuck /\ mstuck' = TRUE
    /\ UNCHANGED <<linkVars, mpc, mrest, fed, reason, entry, network>>

\* task_wdt_callback.
Bite == fed >= Watchdog /\ Booted

-----------------------------------------------------------------------------
(* Time.                                                                   *)

\* No thread is later than it may be, and the watchdog bites in time.
MayWait ==
    /\ wpc = "off" \/ stuck \/ rest > -Late
    /\ mstuck \/ mrest > -Late
    /\ fed < Watchdog

\* An age counts while it is read, and mqttAge as far as it matters.
Tick ==
    /\ MayWait
    /\ rest' = IF wpc = "off" \/ stuck THEN rest ELSE rest - 1
    /\ mrest' = IF mstuck THEN mrest ELSE mrest - 1
    /\ fed' = fed + 1
    /\ age' = IF promise = 0 THEN 0 ELSE age + 1
    /\ wifiAge' = IF wifiUp \/ WifiTimeout = 0 THEN 0 ELSE wifiAge + 1
    /\ mqttAge' = IF mqttUp \/ mqttAge > MqttTimeout THEN mqttAge
                                                     ELSE mqttAge + 1
    /\ UNCHANGED <<wpc, waited, fails, stuck, connected, result, driver, mpc,
                   mstuck, reason, promise, stamped, wrapped, wifiUp, mqttUp>>

\* The uptime reaches 2^32 ms, 49.7 days.
Wrap ==
    /\ ~wrapped /\ wrapped' = TRUE
    /\ UNCHANGED <<linkVars, manager, promise, age, stamped, network>>

-----------------------------------------------------------------------------
Init ==
    /\ LinkInit
    /\ mpc = "sleep" /\ mrest = Feed /\ mstuck = FALSE /\ fed = 0
    /\ promise = 0 /\ age = 0 /\ stamped = FALSE /\ wrapped = FALSE
    /\ wifiUp = FALSE /\ wifiAge = 0 /\ mqttUp = FALSE /\ mqttAge = 0
    /\ reason = "none"

WifiThread == ThreadStep \/ Cut

WifiDriver == LinkResult \/ LinkLost \/ LinkBound \/ MqttEvent

Manager == FeedWatchdog \/ CheckThreads \/ CheckNetwork \/ Assert \/ Bite

Faults == Hangs \/ ManagerHangs \/ Wrap

Next == WifiThread \/ Start \/ WifiDriver \/ Manager \/ Faults \/ Tick

\* The threads run and time goes on; the driver owes nothing.
Fairness == WF_vars(WifiThread) /\ WF_vars(Manager) /\ WF_vars(Tick)

Spec == Init /\ [][Next]_vars /\ Fairness

-----------------------------------------------------------------------------
(* Properties.                                                             *)

\* A thread that is on time is never taken for a stalled one: between any two
\* check-ins it sleeps no longer than it has said, with the tolerance, also
\* where enter_shutdown_mode sleeps once more (wifi_thread.c:281), unless the
\* uptime has wrapped (manager_thread_monitor.c:97).
NoFalseStall == mpc = "alarm" /\ reason = "stall" => stuck \/ wrapped

\* A thread that stalls has restarted the device within the time it gave, the
\* tolerance, a round of the manager and the countdown.
StallCaught ==
    promise # 0 /\ ~mstuck =>
        age <= promise + Tolerance + Feed + Countdown + 3 * Late

\* No outage goes on longer than the timeout, a round and the countdown after
\* the last report of a loss, whether or not the Wi-Fi thread was started.
OutageCaught ==
    ~wifiUp /\ WifiTimeout # 0 /\ ~mstuck =>
        wifiAge <= WifiTimeout + Feed + Countdown + 2 * Late

\* The watchdog bites only when the manager hangs: the countdown, during
\* which it is not fed, is short enough (manager_thread_monitor.c:109).
WatchdogQuiet == fed >= Watchdog => mstuck

\* The manager believes in a connection only while there is an address, the
\* thread only while the driver has a link or is told to leave it.
BeliefsTrue ==
    /\ wifiUp => ip
    /\ ip => link \in {"up", "leaving"}
    /\ connected => link \in {"up", "leaving"}

\* A link that is up while the thread takes it for down, its report
\* overwritten by wifi_connect or by the clearing of connect_result
\* (wifi_thread.c:247, 567), does not stay so: in the end the thread knows
\* of it, it is gone, or the device restarts.
DesyncHeals ==
    link = "up" /\ ~connected ~> link # "up" \/ connected \/ wpc = "off"
=============================================================================
