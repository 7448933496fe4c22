----------------------------- MODULE MqttSession -----------------------------
(***************************************************************************)
(* The MQTT session of an application core: the transport state machine    *)
(* (transport_fsm.c), the MQTT helper library under it                     *)
(* (mqtt_helper_heliogen.c) and the Wi-Fi status listener above it         *)
(* (transport_event_handler.c).                                            *)
(*                                                                         *)
(* Four contexts share the state, in order of priority:                    *)
(*   N  the event manager, which stores Wi-Fi events into network_event;   *)
(*   W  the transport work queue (K_HIGHEST_APPLICATION_THREAD_PRIO), which *)
(*      runs connect_work_fn and subscribe_work_fn;                        *)
(*   T  the transport thread (priority 2), which runs the FSM every 50 ms; *)
(*   P  the helper's poll thread (K_LOWEST_APPLICATION_THREAD_PRIO).       *)
(* The application core has one CPU: a step of T is interrupted by N and W *)
(* anywhere, and by P only where T sleeps or blocks in the network stack.  *)
(* The outbound queue of the same FSM is the module PublishQueue.          *)
(***************************************************************************)
EXTENDS Naturals

CONSTANTS
    MaxFaults,      \* how many losses, refusals and drops the environment makes
    SlowAnswers,    \* may an answer outlast the 30 s + 10 s retry of the connect work?
    NetPreempts,    \* may a Wi-Fi event arrive inside a run of the FSM?
    PollMayFail,    \* may the poll loop end without an abort (797, 810)?
    SubscribeMayFail \* may mqtt_subscribe fail on a live session?

ASSUME MqttSessionAssumption ==
    /\ MaxFaults \in Nat
    /\ SlowAnswers \in BOOLEAN
    /\ NetPreempts \in BOOLEAN
    /\ PollMayFail \in BOOLEAN
    /\ SubscribeMayFail \in BOOLEAN

VARIABLES
    fsm,       \* s_obj.ctx.current
    netEvt,    \* s_obj.network_event, a mailbox for one event
    mqttEvt,   \* s_obj.mqtt_event, a mailbox for one event
    tpc,       \* where T stands in transport_fsm_run
    handler,   \* the state whose run handler T executes, while it does
    connWork,  \* connect_work is scheduled
    subWork,   \* subscribe_work is scheduled
    wpc,       \* where W stands
    helper,    \* mqtt_state of the helper library
    pollSem,   \* connection_poll_sem has been given
    ppc,       \* where P stands
    cbEvt,     \* the event P's callback is about to store into mqttEvt
    owed,      \* the answer the broker still owes on this connection
    dead,      \* the TCP connection was lost and nobody has noticed yet
    wifi,      \* the link: down, associated, or with an IP address
    faults,    \* faults made so far
    crashed    \* an __ASSERT fired: assert_post_action reboots

threadT == <<fsm, tpc, handler>>
threadW == <<connWork, subWork, wpc>>
threadP == <<pollSem, ppc, cbEvt>>
broker == <<owed, dead>>
vars == <<threadT, netEvt, mqttEvt, threadW, helper, threadP, broker,
          wifi, faults, crashed>>

FsmState == {"NetDown", "Connecting", "Subscribing", "Publishing"}
NetEvent == {"None", "Disconnected", "Ip"}
MqttEvent == {"None", "Disconnected", "ConnFail", "ConnOk", "SubFail", "SubAck"}
HelperState == {"Disconnected", "TransportConnecting", "Connecting",
                "Connected", "Disconnecting"}

FlagsOK ==
    /\ connWork \in BOOLEAN
    /\ subWork \in BOOLEAN
    /\ pollSem \in BOOLEAN
    /\ dead \in BOOLEAN
    /\ crashed \in BOOLEAN

TypeOK ==
    /\ fsm \in FsmState
    /\ netEvt \in NetEvent
    /\ mqttEvt \in MqttEvent
    /\ tpc \in {"idle", "verified", "disconnect", "mqtt", "clear"}
    /\ handler \in FsmState \cup {"none"}
    /\ wpc \in {"idle", "sleep", "tcp", "disconnect"}
    /\ helper \in HelperState
    /\ ppc \in {"wait", "poll", "callback"}
    /\ cbEvt \in MqttEvent
    /\ owed \in {"none", "connack", "suback"}
    /\ wifi \in {"down", "associated", "ip"}
    /\ faults \in 0..MaxFaults
    /\ FlagsOK

-----------------------------------------------------------------------------
(* The helper's own state.                                                 *)

\* The table of mqtt_state_set. A transition to the same state is skipped.
LegalTransition(old, new) ==
    \/ old = new
    \/ new = "Disconnected"
    \/ <<old, new>> \in {<<"Disconnected", "Connecting">>,
                         <<"Disconnected", "TransportConnecting">>,
                         <<"TransportConnecting", "Connecting">>,
                         <<"Connecting", "Connected">>,
                         <<"Connected", "Disconnecting">>}

\* mqtt_state_set: an illegal transition asserts before the state changes.
\* TRANSPORT_CONNECTED is passed through within one step of W and left out.
HelperMove(new) ==
    IF LegalTransition(helper, new)
    THEN helper' = new /\ UNCHANGED crashed
    ELSE crashed' = TRUE /\ UNCHANGED helper

\* The socket is closed: no answer of the broker arrives on it any more.
SocketClosed == owed' = "none" /\ dead' = FALSE

\* The states in which the poll loop keeps polling.
Polled == {"Connecting", "Connected"}

-----------------------------------------------------------------------------
(* T: entering a state runs its entry function at once (smf_set_state).    *)

EnterNetDown ==
    /\ fsm' = "NetDown"
    /\ connWork' = FALSE
    /\ subWork' = FALSE
    /\ netEvt' = "None"
    /\ mqttEvt' = "None"

EnterConnecting ==
    /\ fsm' = "Connecting"
    /\ subWork' = FALSE
    /\ connWork' = TRUE

EnterSubscribing == fsm' = "Subscribing" /\ subWork' = TRUE

\* Reached only from SUBSCRIBING, whose exit cancels subscribe_work.
EnterPublishing == fsm' = "Publishing" /\ subWork' = FALSE

\* A first look at the network event, in the run handler of the current state.
\* The event is cleared only by the next step, ReadMqtt.
NoNetEvent ==
    /\ netEvt = "None"
    /\ UNCHANGED <<fsm, netEvt, mqttEvt, connWork, subWork>>

NetDownRun ==
    /\ fsm = "NetDown"
    /\ \/ NoNetEvent
       \/ netEvt = "Disconnected" /\ EnterNetDown
       \/ netEvt = "Ip" /\ EnterConnecting /\ UNCHANGED <<netEvt, mqttEvt>>

ConnectingNet ==
    /\ fsm = "Connecting"
    /\ \/ NoNetEvent
       \/ /\ netEvt = "Ip"
          /\ mqttEvt' = "None"
          /\ EnterConnecting
          /\ UNCHANGED netEvt
       \/ netEvt = "Disconnected" /\ EnterNetDown

\* Mutation: the late look at mqtt_event is not suppressed when IP comes again.
SubscribingNetKeepsEvent ==
    /\ fsm = "Subscribing"
    /\ \/ NoNetEvent
       \/ netEvt = "Ip" /\ EnterConnecting /\ UNCHANGED <<netEvt, mqttEvt>>
       \/ netEvt = "Disconnected" /\ helper # "Connected" /\ EnterNetDown

SubscribingNet ==
    /\ fsm = "Subscribing"
    /\ \/ NoNetEvent
       \/ /\ netEvt = "Ip"
          /\ mqttEvt' = "None"
          /\ EnterConnecting
          /\ UNCHANGED netEvt
       \/ /\ netEvt = "Disconnected" /\ helper # "Connected"
          /\ EnterNetDown

\* Mutation: the line commented out at 420 is back.
PublishingNetDropsEvent ==
    /\ fsm = "Publishing"
    /\ \/ NoNetEvent
       \/ /\ netEvt = "Ip" /\ mqttEvt' = "None"
          /\ UNCHANGED <<fsm, netEvt, connWork, subWork>>
       \/ netEvt = "Disconnected" /\ helper # "Connected" /\ EnterNetDown

PublishingNet ==
    /\ fsm = "Publishing"
    /\ \/ NoNetEvent
       \/ netEvt = "Ip" /\ UNCHANGED <<fsm, netEvt, mqttEvt, connWork, subWork>>
       \/ /\ netEvt = "Disconnected" /\ helper # "Connected"
          /\ EnterNetDown

ReadNetwork ==
    /\ tpc = "idle"
    /\ NetDownRun \/ ConnectingNet \/ SubscribingNet \/ PublishingNet
    /\ tpc' = "mqtt" /\ handler' = fsm
    /\ UNCHANGED <<wpc, helper, threadP, broker, wifi, faults, crashed>>

\* Mutation: mqtt_helper_disconnect does not verify that it is connected.
DisconnectUnverified ==
    /\ tpc = "idle"
    /\ fsm \in {"Subscribing", "Publishing"} /\ netEvt = "Disconnected"
    /\ netEvt' = IF fsm = "Subscribing" THEN "None" ELSE netEvt
    /\ mqttEvt' = "None"
    /\ tpc' = "verified" /\ handler' = fsm
    /\ UNCHANGED <<fsm, threadW, helper, threadP, broker, wifi, faults, crashed>>

\* SUBSCRIBING and PUBLISHING disconnect a live session when the network goes:
\* mqtt_helper_disconnect looks at its state ...
DisconnectVerify ==
    /\ tpc = "idle"
    /\ fsm \in {"Subscribing", "Publishing"}
    /\ netEvt = "Disconnected" /\ helper = "Connected"
    /\ netEvt' = IF fsm = "Subscribing" THEN "None" ELSE netEvt
    /\ mqttEvt' = "None"
    /\ tpc' = "verified" /\ handler' = fsm
    /\ UNCHANGED <<fsm, threadW, helper, threadP, broker, wifi, faults, crashed>>

\* ... and changes it, without a lock; W may run in between. T then blocks in
\* the network stack.
DisconnectBegin ==
    /\ tpc = "verified"
    /\ HelperMove("Disconnecting")
    /\ tpc' = "disconnect"
    /\ UNCHANGED <<fsm, handler, netEvt, mqttEvt, threadW, threadP, broker, wifi,
                   faults>>

\* The library reports the disconnect to on_mqtt_disconnect in T's own context;
\* the entry of NETWORK_DISCONNECTED then clears both mailboxes.
DisconnectEnd ==
    /\ tpc = "disconnect"
    /\ HelperMove("Disconnected")
    /\ SocketClosed
    /\ EnterNetDown
    /\ tpc' = "mqtt"
    /\ UNCHANGED <<handler, wpc, threadP, wifi, faults>>

\* The second half of a run handler: network_event is cleared, then
\* mqtt_event is looked at. A handler that has just left its state still does.
\* Mutation: connect_work survives the success of its attempt.
ConnectingMqttKeepsWork ==
    /\ handler = "Connecting"
    /\ \/ mqttEvt = "None" /\ UNCHANGED <<fsm, connWork, subWork>>
       \/ mqttEvt = "ConnOk" /\ EnterSubscribing /\ UNCHANGED connWork
       \/ /\ mqttEvt \in {"Disconnected", "ConnFail", "SubFail", "SubAck"}
          /\ connWork' = TRUE
          /\ UNCHANGED <<fsm, subWork>>

ConnectingMqtt ==
    /\ handler = "Connecting"
    /\ \/ mqttEvt = "None" /\ UNCHANGED <<fsm, connWork, subWork>>
       \/ mqttEvt = "ConnOk" /\ connWork' = FALSE /\ EnterSubscribing
       \/ /\ mqttEvt \in {"Disconnected", "ConnFail", "SubFail", "SubAck"}
          /\ connWork' = TRUE
          /\ UNCHANGED <<fsm, subWork>>

\* Mutation: a refused subscription is not tried again.
SubscribingMqttGivesUp ==
    /\ handler = "Subscribing"
    /\ \/ /\ mqttEvt \in {"None", "ConnOk", "SubFail"}
          /\ UNCHANGED <<fsm, connWork, subWork>>
       \/ mqttEvt \in {"Disconnected", "ConnFail"} /\ EnterConnecting
       \/ mqttEvt = "SubAck" /\ EnterPublishing /\ UNCHANGED connWork

SubscribingMqtt ==
    /\ handler = "Subscribing"
    /\ \/ mqttEvt \in {"None", "ConnOk"} /\ UNCHANGED <<fsm, connWork, subWork>>
       \/ mqttEvt \in {"Disconnected", "ConnFail"} /\ EnterConnecting
       \/ mqttEvt = "SubFail" /\ subWork' = TRUE /\ UNCHANGED <<fsm, connWork>>
       \/ mqttEvt = "SubAck" /\ EnterPublishing /\ UNCHANGED connWork

PublishingMqtt ==
    /\ handler = "Publishing"
    /\ \/ mqttEvt \in {"None", "SubAck"} /\ UNCHANGED <<fsm, connWork, subWork>>
       \/ /\ mqttEvt \in {"Disconnected", "ConnFail", "ConnOk", "SubFail"}
          /\ EnterConnecting

ReadMqtt ==
    /\ tpc = "mqtt"
    /\ ConnectingMqtt \/ SubscribingMqtt \/ PublishingMqtt
    /\ netEvt' = "None"
    /\ tpc' = "clear"
    /\ UNCHANGED <<mqttEvt, handler, wpc, helper, threadP, broker, wifi,
                   faults, crashed>>

\* network_disconnected_run returns after it has cleared network_event.
NetDownReturn ==
    /\ tpc = "mqtt" /\ handler = "NetDown"
    /\ netEvt' = "None"
    /\ tpc' = "idle" /\ handler' = "none"
    /\ UNCHANGED <<fsm, mqttEvt, threadW, helper, threadP, broker, wifi,
                   faults, crashed>>

ClearMqtt ==
    /\ tpc = "clear"
    /\ mqttEvt' = "None"
    /\ tpc' = "idle" /\ handler' = "none"
    /\ UNCHANGED <<fsm, netEvt, threadW, helper, threadP, broker, wifi,
                   faults, crashed>>

FsmRun == ReadNetwork \/ DisconnectVerify \/ DisconnectBegin \/ DisconnectEnd
          \/ ReadMqtt \/ NetDownReturn \/ ClearMqtt

-----------------------------------------------------------------------------
(* W: the transport work queue runs one handler at a time.                 *)

\* The work items are delayed by seconds. That outlasts a callback of P and the
\* 50 ms period of T (NETWORK_DISCONNECTED leaves MQTT events alone), though not
\* a T blocked in the network stack, and only a slow broker lets the retry of
\* the connection start before its CONNACK.
SecondsPass ==
    /\ ppc # "callback"
    /\ \/ tpc = "idle" /\ netEvt = "None" /\ (mqttEvt = "None" \/ fsm = "NetDown")
       \/ tpc = "disconnect"
    /\ SlowAnswers \/ owed # "connack"

\* connect_work_fn up to its k_sleep of 10 s.
ConnectStart ==
    /\ wpc = "idle" /\ connWork /\ SecondsPass
    /\ connWork' = FALSE
    /\ wpc' = "sleep"
    /\ UNCHANGED <<threadT, netEvt, mqttEvt, subWork, helper, threadP, broker,
                   wifi, faults, crashed>>

\* Mutation: the attempt is not repeated.
ConnectReturnForGood == UNCHANGED connWork /\ wpc' = "idle"

\* connect_work_fn always ends by scheduling itself again, whether or not it
\* was cancelled in the meantime.
ConnectReturn == connWork' = TRUE /\ wpc' = "idle"

\* P has noticed a closed socket long before the 10 s are over.
SleepOver ==
    /\ wpc = "sleep"
    /\ ppc # "wait" => helper \notin {"Disconnected", "TransportConnecting"}

\* mqtt_helper_connect in a state it accepts: the broker's name is resolved
\* and the transport connected. From CONNECTING the state change is illegal.
ConnectTransport ==
    /\ SleepOver
    /\ helper \in {"Disconnected", "Connecting"}
    /\ HelperMove("TransportConnecting")
    /\ wpc' = "tcp"
    /\ UNCHANGED <<threadT, netEvt, mqttEvt, connWork, subWork, threadP, broker,
                   wifi, faults>>

\* broker_init fails before the state changes; mqtt_helper_connect then moves
\* to DISCONNECTED without telling anyone.
ResolveFails ==
    /\ SleepOver
    /\ helper \in {"Disconnected", "Connecting"}
    /\ wifi # "ip" \/ faults < MaxFaults
    /\ faults' = IF wifi = "ip" THEN faults + 1 ELSE faults
    /\ HelperMove("Disconnected")
    /\ SocketClosed
    /\ ConnectReturn
    /\ UNCHANGED <<threadT, netEvt, mqttEvt, subWork, threadP, wifi>>

\* -EOPNOTSUPP: the library is in the wrong state, so disconnect and retry.
ConnectRefused ==
    /\ SleepOver
    /\ helper \notin {"Disconnected", "Connecting"}
    /\ \/ /\ helper = "Connected"
          /\ HelperMove("Disconnecting")
          /\ wpc' = "disconnect"
          /\ UNCHANGED connWork
       \/ /\ helper # "Connected"
          /\ ConnectReturn
          /\ UNCHANGED <<helper, crashed>>
    /\ UNCHANGED <<threadT, netEvt, mqttEvt, subWork, threadP, broker, wifi,
                   faults>>

ConnectRefusedEnd ==
    /\ wpc = "disconnect"
    /\ HelperMove("Disconnected")
    /\ SocketClosed
    /\ mqttEvt' = "Disconnected"
    /\ ConnectReturn
    /\ UNCHANGED <<threadT, netEvt, subWork, threadP, wifi, faults>>

\* mqtt_connect succeeds: CONNECT is sent and the poll thread is started.
TransportUp ==
    /\ wpc = "tcp" /\ wifi = "ip"
    /\ HelperMove("Connecting")
    /\ pollSem' = TRUE
    /\ owed' = "connack" /\ dead' = FALSE
    /\ ConnectReturn
    /\ UNCHANGED <<threadT, netEvt, mqttEvt, subWork, ppc, cbEvt, wifi, faults>>

TransportFails ==
    /\ wpc = "tcp"
    /\ wifi # "ip" \/ faults < MaxFaults
    /\ faults' = IF wifi = "ip" THEN faults + 1 ELSE faults
    /\ HelperMove("Disconnected")
    /\ ConnectReturn
    /\ UNCHANGED <<threadT, netEvt, mqttEvt, subWork, threadP, broker, wifi>>

\* subscribe_work_fn: send SUBSCRIBE and remember its message id. W outranks P,
\* so the id is stored before P can see the SUBACK. An error is only logged.
Subscribe ==
    /\ wpc = "idle" /\ subWork /\ SecondsPass
    /\ subWork' = FALSE
    /\ \/ helper = "Connected" /\ owed' = "suback"
       \/ helper # "Connected" /\ UNCHANGED owed
       \/ SubscribeMayFail /\ UNCHANGED owed
    /\ UNCHANGED <<threadT, netEvt, mqttEvt, connWork, wpc, helper, threadP,
                   dead, wifi, faults, crashed>>

WorkQueue == ConnectStart \/ ConnectTransport \/ ResolveFails \/ ConnectRefused
             \/ ConnectRefusedEnd \/ TransportUp \/ TransportFails \/ Subscribe

\* The steps of W that need no fault: without a link nothing can be reached.
WorkServed == WorkQueue /\ faults' = faults

-----------------------------------------------------------------------------
(* P: the poll loop, and mqtt_evt_handler on what it reads.                *)

PollRuns == tpc \in {"idle", "disconnect"}

PollStart ==
    /\ PollRuns /\ ppc = "wait" /\ pollSem
    /\ pollSem' = FALSE
    /\ ppc' = "poll"
    /\ UNCHANGED <<threadT, netEvt, mqttEvt, threadW, helper, cbEvt, broker,
                   wifi, faults, crashed>>

\* Mutation: the loop condition forgets MQTT_STATE_CONNECTING.
PollEndWhileConnecting ==
    /\ PollRuns /\ ppc = "poll" /\ helper # "Connected"
    /\ ppc' = "wait"
    /\ UNCHANGED <<threadT, netEvt, mqttEvt, threadW, helper, pollSem, cbEvt,
                   broker, wifi, faults, crashed>>

PollEnd ==
    /\ PollRuns /\ ppc = "poll" /\ helper \notin Polled
    /\ ppc' = "wait"
    /\ UNCHANGED <<threadT, netEvt, mqttEvt, threadW, helper, pollSem, cbEvt,
                   broker, wifi, faults, crashed>>

\* mqtt_evt_handler: the state is set, then the callback stores its event
\* (PollCallback); T may run between the two.
Notify(new, evt) ==
    /\ HelperMove(new)
    /\ ppc' = "callback" /\ cbEvt' = evt

Answer(kind) == PollRuns /\ ppc = "poll" /\ owed = kind /\ ~dead /\ wifi = "ip"

ConnAck ==
    /\ Answer("connack") /\ helper = "Connecting"
    /\ Notify("Connected", "ConnOk")
    /\ owed' = "none"
    /\ UNCHANGED <<threadT, netEvt, mqttEvt, threadW, pollSem, dead, wifi, faults>>

ConnRefused ==
    /\ Answer("connack") /\ helper = "Connecting" /\ faults < MaxFaults
    /\ faults' = faults + 1
    /\ Notify("Disconnected", "ConnFail")
    /\ SocketClosed
    /\ UNCHANGED <<threadT, netEvt, mqttEvt, threadW, pollSem, wifi>>

SubAnswer(evt) ==
    /\ Answer("suback") /\ helper = "Connected"
    /\ Notify("Connected", evt)
    /\ owed' = "none"
    /\ UNCHANGED <<threadT, netEvt, mqttEvt, threadW, pollSem, dead, wifi>>

SubAck == SubAnswer("SubAck") /\ UNCHANGED faults

SubRefused ==
    /\ faults < MaxFaults /\ faults' = faults + 1
    /\ SubAnswer("SubFail")

\* The socket fails or the broker closes it: MQTT_EVT_DISCONNECT.
Lost ==
    /\ PollRuns /\ ppc = "poll" /\ helper \in Polled
    /\ Notify("Disconnected", "Disconnected")
    /\ SocketClosed
    /\ UNCHANGED <<threadT, netEvt, mqttEvt, threadW, pollSem, wifi>>

DeadNoticed == dead /\ Lost /\ UNCHANGED faults

Dropped == ~dead /\ faults < MaxFaults /\ faults' = faults + 1 /\ Lost

\* The library follows a refused CONNACK up with MQTT_EVT_DISCONNECT.
PollCallback ==
    /\ PollRuns /\ ppc = "callback"
    /\ mqttEvt' = cbEvt
    /\ \/ cbEvt = "ConnFail" /\ cbEvt' = "Disconnected" /\ UNCHANGED ppc
       \/ cbEvt # "ConnFail" /\ cbEvt' = "None" /\ ppc' = "poll"
    /\ UNCHANGED <<threadT, netEvt, threadW, helper, pollSem, broker, wifi,
                   faults, crashed>>

\* poll() or the keepalive ping fails: the loop ends, the state stays.
PollBreaks ==
    /\ PollMayFail /\ faults < MaxFaults
    /\ PollRuns /\ ppc = "poll" /\ helper \in Polled
    /\ ppc' = "wait"
    /\ faults' = faults + 1
    /\ UNCHANGED <<threadT, netEvt, mqttEvt, threadW, helper, pollSem, cbEvt,
                   broker, wifi, crashed>>

PollThread == PollStart \/ PollEnd \/ ConnAck \/ SubAck \/ DeadNoticed
              \/ PollCallback

PollFaults == ConnRefused \/ SubRefused \/ Dropped \/ PollBreaks

-----------------------------------------------------------------------------
(* N: transport_wifi_event_handler. With DHCP, "connected" is no network.  *)

NetRuns == NetPreempts \/ tpc = "idle"

StoreNetEvent(evt) ==
    /\ NetRuns
    /\ netEvt' = evt
    /\ UNCHANGED <<threadT, mqttEvt, threadW, helper, threadP, owed, crashed>>

\* "connected", and with it every other status that is not an IP address.
WifiAssociated ==
    /\ wifi = "down" /\ wifi' = "associated"
    /\ StoreNetEvent("Disconnected")
    /\ UNCHANGED <<dead, faults>>

\* Mutation: a value of the other enumeration (the setters take an int).
IpAcquiredWrongEnum ==
    /\ wifi = "associated" /\ wifi' = "ip"
    /\ StoreNetEvent("ConnOk")
    /\ UNCHANGED <<dead, faults>>

IpAcquired ==
    /\ wifi = "associated" /\ wifi' = "ip"
    /\ StoreNetEvent("Ip")
    /\ UNCHANGED <<dead, faults>>

\* An attempt to associate fails: "connect failed", "disconnect failed", ...
WifiConnectFailed ==
    /\ wifi = "down"
    /\ StoreNetEvent("Disconnected")
    /\ UNCHANGED <<wifi, dead, faults>>

\* A TCP connection may or may not survive a new association.
WifiDown ==
    /\ wifi # "down" /\ wifi' = "down"
    /\ faults < MaxFaults /\ faults' = faults + 1
    /\ StoreNetEvent("Disconnected")
    /\ dead' \in {dead, (helper \in {"Connecting", "Connected", "Disconnecting"})}

DhcpRebound ==
    /\ wifi = "ip" /\ faults < MaxFaults /\ faults' = faults + 1
    /\ StoreNetEvent("Ip")
    /\ UNCHANGED <<wifi, dead>>

WifiUp == WifiAssociated \/ IpAcquired

-----------------------------------------------------------------------------

\* transport_thread: smf_set_initial runs the entry of NETWORK_DISCONNECTED and
\* mqtt_helper_init leaves the library in DISCONNECTED.
Init ==
    /\ fsm = "NetDown" /\ tpc = "idle" /\ handler = "none"
    /\ netEvt = "None" /\ mqttEvt = "None"
    /\ connWork = FALSE /\ subWork = FALSE /\ wpc = "idle"
    /\ helper = "Disconnected"
    /\ pollSem = FALSE /\ ppc = "wait" /\ cbEvt = "None"
    /\ owed = "none" /\ dead = FALSE
    /\ wifi = "down" /\ faults = 0
    /\ crashed = FALSE

\* assert_post_action ends in sys_reboot.
Reboot ==
    /\ crashed
    /\ fsm' = "NetDown" /\ tpc' = "idle" /\ handler' = "none"
    /\ netEvt' = "None" /\ mqttEvt' = "None"
    /\ connWork' = FALSE /\ subWork' = FALSE /\ wpc' = "idle"
    /\ helper' = "Disconnected"
    /\ pollSem' = FALSE /\ ppc' = "wait" /\ cbEvt' = "None"
    /\ owed' = "none" /\ dead' = FALSE
    /\ wifi' = "down"
    /\ crashed' = FALSE
    /\ UNCHANGED faults

Running == FsmRun \/ WorkQueue \/ PollThread \/ PollFaults \/ WifiUp \/ WifiDown
           \/ WifiConnectFailed \/ DhcpRebound

Next == (~crashed /\ Running) \/ Reboot

Spec == Init /\ [][Next]_vars

-----------------------------------------------------------------------------

\* Every thread runs: T leaves the CPU for 50 ms after each run, and P gets it
\* then, again and again but not without interruption, so strong fairness. The
\* link comes up again and a broker that is reached answers; faults are not fair.
Fairness ==
    /\ WF_vars(~crashed /\ FsmRun)
    /\ SF_vars(~crashed /\ WorkServed)
    /\ SF_vars(~crashed /\ PollThread)
    /\ SF_vars(~crashed /\ WifiUp)
    /\ WF_vars(Reboot)

FairSpec == Spec /\ Fairness

-----------------------------------------------------------------------------
(* Properties.                                                             *)

InSession == fsm \in {"Subscribing", "Publishing"}

\* A subscription is pending only while the FSM is subscribing: no entry, exit
\* or late event (transport_fsm.c 208-395) leaves subscribe_work behind for a
\* session that is gone.
SubscribeWorkInv == subWork => fsm = "Subscribing"

\* Whatever is cancelled, refused or lost, an FSM that waits for the broker
\* always has a connection attempt scheduled or running: nothing else would
\* ever take it out of MQTT_CONNECTING_TO_BROKER.
KeepsTrying == fsm = "Connecting" => connWork \/ wpc # "idle"

\* A socket in use always has the poll thread on it or about to take it: a
\* second give of connection_poll_sem (maximum 1) is never one too many.
SessionServed == helper \in {"Connecting", "Connected"} => pollSem \/ ppc # "wait"

\* An FSM that believes in its session is told when the session is gone: the
\* news is in the mailbox or on its way to it. The mailbox holds one event, so
\* an event written over it, or cleared unread, would lose the news for ever.
LossIsNoticed ==
    InSession /\ helper \notin {"Connected", "Disconnecting"} =>
        {mqttEvt, cbEvt} \cap {"Disconnected", "ConnFail"} # {}

\* "Cancel any ongoing connect work when we enter subscribing state"
\* (transport_fsm.c 310): no connection attempt outlives the session it made.
NoAttemptInSession == InSession => ~connWork /\ wpc = "idle"

\* The __ASSERT of mqtt_state_set (mqtt_helper_heliogen.c 150) never fires.
NoIllegalTransition == ~crashed

\* "This waits for an IP connection to happen" (transport_fsm.c 228): with a
\* network the FSM does not stay in MQTT_NETWORK_DISCONNECTED.
IpIsNoticed ==
    (wifi = "ip" /\ fsm = "NetDown") ~> (wifi # "ip" \/ fsm # "NetDown")

\* Once the environment makes no more faults, the FSM gets to publish and stays.
Recovers == <>[](fsm = "Publishing")
=============================================================================
