------------------------------ MODULE WifiLink -------------------------------
(***************************************************************************)
(* The Wi-Fi thread (wifi_thread.c) and the driver under it. The thread    *)
(* polls two flags that the driver's callbacks set from another thread,    *)
(* asks for a connection, waits for the flags, and after too many failures *)
(* takes the interface down for a while. The wifi driver is external.      *)
(*                                                                         *)
(* rest counts down the sleep the thread is in; below 0 the thread is      *)
(* late. Supervisor.tla moves the time and takes the check-ins.            *)
(***************************************************************************)
EXTENDS Integers

CONSTANTS
    Poll,      \* STATUS_POLLING_MS
    Attempt,   \* CONNECTION_TIMEOUT_MS
    Settle,    \* the sleep after a connection: 20 polls
    Retry,     \* WIFI_THREAD_TIMEOUT_SLEEP_MS
    LongSleep, \* WIFI_NO_NETWORK_SLEEP_MS
    Rest,      \* WIFI_THREAD_CONNECTED_SLEEP_MS
    MaxFails   \* MAX_FAILED_CONNECT_COUNT

ASSUME WifiLinkAssumption ==
    /\ Poll \in Nat \ {0} /\ Attempt \in Nat \ {0} /\ Poll <= Attempt
    /\ Settle \in Nat \ {0} /\ Retry \in Nat \ {0}
    /\ LongSleep \in Nat \ {0} /\ Rest \in Nat \ {0}
    /\ MaxFails \in Nat

VARIABLES
    wpc,       \* where wifi_thread_entry_point stands; off: not started
    rest,      \* what is left of its sleep
    waited,    \* i, the time the loop has waited in this attempt
    fails,     \* failed_connect_count
    connected, \* context.connected
    result,    \* context.connect_result
    link,      \* driver: down, pending, up, or leaving
    ip,        \* driver: DHCP is bound
    stuck      \* the thread hangs in a call

thread == <<wpc, rest, waited, fails, stuck>>
driver == <<link, ip>>
linkVars == <<thread, connected, result, driver>>

LinkTimesOK == rest \in Int /\ waited \in Nat /\ fails \in 0..MaxFails

LinkTypeOK ==
    /\ LinkTimesOK
    /\ wpc \in {"off", "top", "request", "poll", "decide", "settle",
                "settled", "retry", "leave", "asleep"}
    /\ connected \in BOOLEAN /\ result \in BOOLEAN
    /\ link \in {"down", "pending", "up", "leaving"}
    /\ ip \in BOOLEAN /\ stuck \in BOOLEAN

LinkInit ==
    /\ wpc = "off" /\ rest = 0 /\ waited = 0 /\ fails = 0 /\ stuck = FALSE
    /\ connected = FALSE /\ result = FALSE
    /\ link = "down" /\ ip = FALSE

\* The thread runs at pc p.
Runs(p) == wpc = p /\ rest <= 0 /\ ~stuck

\* It goes to p and sleeps for n, or goes on.
Sleep(p, n) == wpc' = p /\ rest' = n
GoOn(p) == wpc' = p /\ UNCHANGED rest

-----------------------------------------------------------------------------
(* The thread, from one place where it may be preempted to the next.       *)

\* wifi_thread_start, on WIFI_THREAD_START; the boot delay is over.
ThreadStart ==
    /\ wpc = "off" /\ Sleep("top", 0)
    /\ UNCHANGED <<waited, fails, stuck, connected, result, driver>>

\* Connected: the thread only checks in.
KeepWatch ==
    /\ Runs("top") /\ connected
    /\ Sleep("top", Rest)
    /\ UNCHANGED <<waited, fails, stuck, connected, result, driver>>

\* Not connected: an attempt begins.
Begin ==
    /\ Runs("top") /\ ~connected /\ GoOn("request")
    /\ result' = FALSE
    /\ UNCHANGED <<waited, fails, stuck, connected, driver>>

\* wifi_connect, whatever was reported since; the request may be refused, and
\* is refused while the driver is connected. Then the first poll.
Request ==
    /\ Runs("request") /\ Sleep("poll", Poll) /\ waited' = 0
    /\ connected' = FALSE
    /\ \/ /\ link \in {"down", "pending"} /\ link' = "pending"
          /\ result' = FALSE
       \/ /\ result' = TRUE /\ UNCHANGED link
    /\ UNCHANGED <<fails, stuck, ip>>

\* No result yet: another poll.
PollAgain ==
    /\ Runs("poll") /\ ~result
    /\ waited + Poll < Attempt /\ waited' = waited + Poll
    /\ Sleep("poll", Poll)
    /\ UNCHANGED <<fails, stuck, connected, result, driver>>

\* A result, whichever request it answers, or the last poll.
PollEnds ==
    /\ Runs("poll") /\ (result \/ waited + Poll >= Attempt) /\ GoOn("decide")
    /\ result' = FALSE
    /\ UNCHANGED <<waited, fails, stuck, connected, driver>>

\* connected and connect_result are bits of one byte, and clearing one writes
\* back the other: an association reported meanwhile is overwritten.
PollEndsOver ==
    /\ Runs("poll") /\ result /\ GoOn("decide")
    /\ link = "pending" /\ link' = "up"
    /\ connected' = FALSE /\ result' = FALSE
    /\ UNCHANGED <<waited, fails, stuck, ip>>

\* Connected: 60 s for MQTT, then another poll, then the count starts anew.
SettleDown ==
    /\ Runs("decide") /\ connected
    /\ Sleep("settle", Settle)
    /\ UNCHANGED <<waited, fails, stuck, connected, result, driver>>

SettleOn ==
    /\ Runs("settle") /\ Sleep("settled", Poll)
    /\ UNCHANGED <<waited, fails, stuck, connected, result, driver>>

Settled ==
    /\ Runs("settled") /\ GoOn("top")
    /\ fails' = 0
    /\ UNCHANGED <<waited, stuck, connected, result, driver>>

\* Refused or timed out.
TimedOut ==
    /\ Runs("decide") /\ ~connected /\ ~result
    /\ Sleep("retry", Retry)
    /\ UNCHANGED <<waited, fails, stuck, connected, result, driver>>

\* A result since the last poll that is no connection: start over.
StartOver ==
    /\ Runs("decide") /\ ~connected /\ result /\ GoOn("top")
    /\ UNCHANGED <<waited, fails, stuck, connected, result, driver>>

\* Mutation: counted once too often.
CountOn ==
    /\ Runs("retry") /\ GoOn("top")
    /\ fails <= MaxFails /\ fails' = fails + 1
    /\ UNCHANGED <<waited, stuck, connected, result, driver>>

\* Once more ...
CountFail ==
    /\ Runs("retry") /\ GoOn("top")
    /\ fails < MaxFails /\ fails' = fails + 1
    /\ UNCHANGED <<waited, stuck, connected, result, driver>>

\* Mutation: the interface is never taken down.
RetryOnly ==
    /\ Runs("retry") /\ GoOn("top")
    /\ fails = MaxFails /\ fails' = 0
    /\ UNCHANGED <<waited, stuck, connected, result, driver>>

\* ... or enter_shutdown_mode, up to its sleep.
ShutDown ==
    /\ Runs("retry") /\ Sleep("leave", Poll)
    /\ fails = MaxFails /\ fails' = 0
    /\ link' = IF link = "down" THEN "down" ELSE "leaving"
    /\ UNCHANGED <<waited, stuck, connected, result, ip>>

\* The interface goes down, for a long sleep ...
InterfaceDown ==
    /\ Runs("leave") /\ link = "down"
    /\ connected' = FALSE
    /\ Sleep("asleep", LongSleep)
    /\ UNCHANGED <<waited, fails, stuck, result, driver>>

\* ... the driver reporting a connection that ends with it, if it has not yet ...
InterfaceCut ==
    /\ Runs("leave") /\ link = "leaving" /\ link' = "down" /\ ip' = FALSE
    /\ connected' = FALSE /\ result' = TRUE
    /\ Sleep("asleep", LongSleep)
    /\ UNCHANGED <<waited, fails, stuck>>

\* ... or the driver refuses to take it down, which shutdown_wifi's caller
\* ignores ...
InterfaceStays ==
    /\ Runs("leave") /\ link = "leaving"
    /\ connected' = FALSE
    /\ Sleep("asleep", LongSleep)
    /\ UNCHANGED <<waited, fails, stuck, result, driver>>

\* ... and up again: exit_shutdown_mode.
InterfaceUp ==
    /\ Runs("asleep") /\ GoOn("top")
    /\ UNCHANGED <<waited, fails, stuck, connected, result, driver>>

-----------------------------------------------------------------------------
(* The driver, and the callbacks it makes.                                 *)

\* handle_wifi_connect_result: a connection.
Associate ==
    /\ link = "pending" /\ link' = "up"
    /\ connected' = TRUE /\ result' = TRUE
    /\ UNCHANGED <<thread, ip>>

\* handle_wifi_connect_result: a failure.
Refuse ==
    /\ link = "pending" /\ link' = "down"
    /\ connected' = FALSE /\ result' = TRUE
    /\ UNCHANGED <<thread, ip>>

\* Mutation: the disconnection counts as requested.
LoseQuietly ==
    /\ link \in {"up", "leaving"} /\ link' = "down" /\ ip' = FALSE
    /\ result' = TRUE
    /\ UNCHANGED <<thread, connected>>

\* handle_wifi_disconnect_result; disconnect_requested is never set.
Lose ==
    /\ link \in {"up", "leaving"} /\ link' = "down" /\ ip' = FALSE
    /\ connected' = FALSE /\ result' = TRUE
    /\ UNCHANGED thread

\* NET_EVENT_IPV4_DHCP_BOUND: net_mgmt_event_handler.
Bind ==
    /\ link = "up" /\ ~ip /\ ip' = TRUE
    /\ UNCHANGED <<thread, connected, result, link>>

\* A call of the thread does not come back.
Hang ==
    /\ wpc # "off" /\ ~stuck /\ stuck' = TRUE
    /\ UNCHANGED <<wpc, rest, waited, fails, connected, result, driver>>
=============================================================================
