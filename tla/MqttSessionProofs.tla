-------------------------- MODULE MqttSessionProofs --------------------------
(***************************************************************************)
(* Proofs about MqttSession, for every bound and every choice of the       *)
(* timing assumptions unless the theorem names one: type correctness,      *)
(* SubscribeWorkInv, KeepsTrying, SessionServed without silent ends of the *)
(* poll loop, the one place where the assert can fire under a broker that  *)
(* answers in time, and NoIllegalTransition, LossIsNoticed and             *)
(* NoAttemptInSession when, besides, no Wi-Fi event interrupts a run of    *)
(* the FSM, which is also all it takes for an IP address not to be missed. *)
(***************************************************************************)
EXTENDS MqttSession, TLAPS

-----------------------------------------------------------------------------

\* The steps that neither move T through a handler nor restart the system.
OthersStep == WorkQueue \/ PollThread \/ PollFaults \/ WifiUp \/ WifiDown
              \/ WifiConnectFailed \/ DhcpRebound

\* A step is one of T, of somebody else, a reboot, or a stutter.
LEMMA Steps ==
    ASSUME [Next]_vars
    PROVE  FsmRun \/ OthersStep \/ Reboot \/ UNCHANGED vars
BY DEF Next, Running, OthersStep

\* Whoever does not run the FSM leaves its state, program counter and handler
\* alone, and subscribe_work is never scheduled by anyone else.
LEMMA OthersLeaveFsm ==
    ASSUME OthersStep
    PROVE  UNCHANGED threadT /\ (subWork' => subWork)
<1>1. CASE WorkQueue
  BY <1>1 DEF WorkQueue, ConnectStart, ConnectTransport, ResolveFails, ConnectRefused,
              ConnectRefusedEnd, TransportUp, TransportFails, Subscribe, threadT
<1>2. CASE PollThread
  BY <1>2 DEF PollThread, PollStart, PollEnd, ConnAck, SubAck, SubAnswer, DeadNoticed, Lost,
              PollCallback, threadW
<1>3. CASE PollFaults
  BY <1>3 DEF PollFaults, ConnRefused, SubRefused, SubAnswer, Dropped, Lost, PollBreaks, threadW
<1>4. CASE WifiUp \/ WifiDown \/ WifiConnectFailed \/ DhcpRebound
  BY <1>4 DEF WifiUp, WifiAssociated, IpAcquired, WifiDown, WifiConnectFailed, DhcpRebound,
              StoreNetEvent, threadW
<1> QED
  BY <1>1, <1>2, <1>3, <1>4 DEF OthersStep

-----------------------------------------------------------------------------
(* Type correctness.                                                       *)

\* The flags are truth values.
LEMMA FlagsKept == ASSUME FlagsOK, [Next]_vars PROVE FlagsOK'
<1> USE DEF FlagsOK
<1>1. CASE ReadNetwork
  BY <1>1 DEF ReadNetwork, NetDownRun, ConnectingNet, SubscribingNet, PublishingNet, NoNetEvent,
              EnterNetDown, EnterConnecting, threadP, broker
<1>2. CASE DisconnectVerify \/ DisconnectBegin \/ DisconnectEnd
  BY <1>2 DEF DisconnectVerify, DisconnectBegin, DisconnectEnd, EnterNetDown, SocketClosed, HelperMove, threadW,
              threadP, broker
<1>3. CASE ReadMqtt
  BY <1>3 DEF ReadMqtt, ConnectingMqtt, SubscribingMqtt, PublishingMqtt, EnterConnecting,
              EnterSubscribing, EnterPublishing, threadP, broker
<1>4. CASE NetDownReturn \/ ClearMqtt
  BY <1>4 DEF NetDownReturn, ClearMqtt, threadW, threadP, broker
<1>5. CASE WorkQueue
  BY <1>5 DEF WorkQueue, ConnectStart, ConnectTransport, ResolveFails, ConnectRefused,
              ConnectRefusedEnd, TransportUp, TransportFails, Subscribe, ConnectReturn,
              HelperMove, SocketClosed, threadP, broker
<1>6. CASE PollThread
  BY <1>6 DEF PollThread, PollStart, PollEnd, ConnAck, SubAck, SubAnswer, DeadNoticed, Lost,
              PollCallback, Notify, HelperMove, SocketClosed, threadW, broker
<1>7. CASE PollFaults
  BY <1>7 DEF PollFaults, ConnRefused, SubRefused, SubAnswer, Dropped, Lost, PollBreaks, Notify,
              HelperMove, SocketClosed, threadW, broker
<1>8. CASE WifiUp \/ WifiDown \/ WifiConnectFailed \/ DhcpRebound
  <2>1. UNCHANGED <<connWork, subWork, pollSem, crashed>>
    BY <1>8 DEF WifiUp, WifiAssociated, IpAcquired, WifiDown, WifiConnectFailed, DhcpRebound,
                StoreNetEvent, threadW, threadP
  <2>2. dead' = dead \/ dead' = (helper \in {"Connecting", "Connected", "Disconnecting"})
    BY <1>8 DEF WifiUp, WifiAssociated, IpAcquired, WifiDown, WifiConnectFailed, DhcpRebound
  <2>3. dead' \in BOOLEAN
    <3>1. (helper \in {"Connecting", "Connected", "Disconnecting"}) \in BOOLEAN
      OBVIOUS
    <3>2. dead \in BOOLEAN
      OBVIOUS
    <3> QED
      BY <2>2, <3>1, <3>2, Zenon
  <2> QED
    BY <2>1, <2>3
<1>9. CASE Reboot \/ UNCHANGED vars
  BY <1>9 DEF Reboot, vars, threadW, threadP, broker
<1> QED
  BY <1>1, <1>2, <1>3, <1>4, <1>5, <1>6, <1>7, <1>8, <1>9, Steps DEF OthersStep, FsmRun

\* Every variable keeps its type: the mailboxes hold events of their own
\* enumeration, although the setters take an int, and the FSM, the work queue
\* and the helper stay in states they have a handler for.
THEOREM TypeCorrect == Spec => []TypeOK
<1>1. Init => TypeOK
  <2>1. Init => FlagsOK
    BY DEF Init, FlagsOK
  <2> QED
    BY <2>1, MqttSessionAssumption
    DEF Init, TypeOK, FsmState, NetEvent, MqttEvent, HelperState
<1>2. TypeOK /\ [Next]_vars => TypeOK'
  <2> SUFFICES ASSUME TypeOK, [Next]_vars PROVE TypeOK'
    OBVIOUS
  <2> USE FlagsKept, MqttSessionAssumption
      DEF TypeOK, FsmState, NetEvent, MqttEvent, HelperState
  <2>1. CASE ReadNetwork
    BY <2>1 DEF ReadNetwork, NetDownRun, ConnectingNet, SubscribingNet, PublishingNet, NoNetEvent,
                EnterNetDown, EnterConnecting, threadP, broker
  <2>2. CASE DisconnectVerify \/ DisconnectBegin \/ DisconnectEnd
    BY <2>2 DEF DisconnectVerify, DisconnectBegin, DisconnectEnd, EnterNetDown, SocketClosed, HelperMove, threadW,
                threadP, broker
  <2>3. CASE ReadMqtt
    BY <2>3 DEF ReadMqtt, ConnectingMqtt, SubscribingMqtt, PublishingMqtt, EnterConnecting,
                EnterSubscribing, EnterPublishing, threadP, broker
  <2>4. CASE NetDownReturn \/ ClearMqtt
    BY <2>4 DEF NetDownReturn, ClearMqtt, threadW, threadP, broker
  <2>5. CASE WorkQueue
    BY <2>5 DEF WorkQueue, ConnectStart, ConnectTransport, ResolveFails, ConnectRefused,
                ConnectRefusedEnd, TransportUp, TransportFails, Subscribe, ConnectReturn,
                HelperMove, SocketClosed, threadT, threadP, broker
  <2>6. CASE PollThread
    BY <2>6 DEF PollThread, PollStart, PollEnd, ConnAck, SubAck, SubAnswer, DeadNoticed, Lost,
                PollCallback, Notify, HelperMove, SocketClosed, threadT, threadW, broker
  <2>7. CASE PollFaults
    BY <2>7 DEF PollFaults, ConnRefused, SubRefused, SubAnswer, Dropped, Lost, PollBreaks, Notify,
                HelperMove, SocketClosed, threadT, threadW, broker
  <2>8. CASE WifiUp \/ WifiDown \/ WifiConnectFailed \/ DhcpRebound
    BY <2>8 DEF WifiUp, WifiAssociated, IpAcquired, WifiDown, WifiConnectFailed, DhcpRebound,
                StoreNetEvent, threadT, threadW, threadP
  <2>9. CASE Reboot \/ UNCHANGED vars
    BY <2>9 DEF Reboot, vars, threadT, threadW, threadP, broker
  <2> QED
    BY <2>1, <2>2, <2>3, <2>4, <2>5, <2>6, <2>7, <2>8, <2>9, Steps DEF OthersStep, FsmRun
<1> QED
  BY <1>1, <1>2, PTL DEF Spec

-----------------------------------------------------------------------------
(* A subscription is pending only while the FSM subscribes.                *)

\* A handler that has just left SUBSCRIBING still looks at mqtt_event, and must
\* not find a refused subscription there: it would schedule another one.
NoStaleRefusal ==
    tpc = "mqtt" /\ handler = "Subscribing" /\ mqttEvt = "SubFail"
        => fsm = "Subscribing"

\* The lines that clear mqtt_event on the way out of SUBSCRIBING, and the work
\* items cancelled by every entry and exit function, keep subscribe_work from
\* outliving the state that wants it, whatever the timing and the faults.
THEOREM SubscribeWork == Spec => []SubscribeWorkInv
<1> DEFINE IInv == SubscribeWorkInv /\ NoStaleRefusal
<1> USE DEF SubscribeWorkInv, NoStaleRefusal
<1>1. Init => IInv
  BY DEF Init
<1>2. IInv /\ [Next]_vars => IInv'
  <2> SUFFICES ASSUME IInv, [Next]_vars PROVE IInv'
    OBVIOUS
  <2>1. CASE ReadNetwork
    BY <2>1 DEF ReadNetwork, NetDownRun, ConnectingNet, SubscribingNet, PublishingNet, NoNetEvent,
                EnterNetDown, EnterConnecting
  <2>2. CASE DisconnectVerify \/ DisconnectBegin \/ DisconnectEnd
    BY <2>2 DEF DisconnectVerify, DisconnectBegin, DisconnectEnd, EnterNetDown, threadW
  <2>3. CASE ReadMqtt
    BY <2>3 DEF ReadMqtt, ConnectingMqtt, SubscribingMqtt, PublishingMqtt, EnterConnecting,
                EnterSubscribing, EnterPublishing
  <2>4. CASE NetDownReturn \/ ClearMqtt
    BY <2>4 DEF NetDownReturn, ClearMqtt, threadW
  <2>5. CASE OthersStep
    <3>1. UNCHANGED threadT /\ (subWork' => subWork)
      BY <2>5, OthersLeaveFsm
    <3>2. tpc = "mqtt" => mqttEvt' \in {mqttEvt, "Disconnected"}
      BY <2>5 DEF OthersStep, WorkQueue, ConnectStart, ConnectTransport, ResolveFails,
                  ConnectRefused, ConnectRefusedEnd, TransportUp, TransportFails, Subscribe,
                  PollThread, PollStart, PollEnd, ConnAck, SubAck, SubAnswer, DeadNoticed, Lost,
                  PollCallback, PollRuns, PollFaults, ConnRefused, SubRefused, Dropped,
                  PollBreaks, WifiUp, WifiAssociated, IpAcquired, WifiDown, WifiConnectFailed,
                  DhcpRebound, StoreNetEvent
    <3> QED
      BY <3>1, <3>2 DEF threadT
  <2>6. CASE Reboot \/ UNCHANGED vars
    BY <2>6 DEF Reboot, vars, threadT, threadW
  <2> QED
    BY <2>1, <2>2, <2>3, <2>4, <2>5, <2>6, Steps DEF FsmRun
<1> QED
  BY <1>1, <1>2, PTL DEF Spec

-----------------------------------------------------------------------------
(* The connection is tried again and again.                                *)

\* Every entry of CONNECTING_TO_BROKER schedules connect_work, every step that
\* ends an attempt schedules the next one, and only leaving the state cancels
\* it: an FSM that waits for the broker always has somebody working on that.
THEOREM KeepsTryingAlways == Spec => []KeepsTrying
<1> USE DEF KeepsTrying
<1>1. Init => KeepsTrying
  BY DEF Init
<1>2. KeepsTrying /\ [Next]_vars => KeepsTrying'
  <2> SUFFICES ASSUME KeepsTrying, [Next]_vars PROVE KeepsTrying'
    OBVIOUS
  <2>1. CASE ReadNetwork
    BY <2>1 DEF ReadNetwork, NetDownRun, ConnectingNet, SubscribingNet, PublishingNet, NoNetEvent,
                EnterNetDown, EnterConnecting
  <2>2. CASE DisconnectVerify \/ DisconnectBegin \/ DisconnectEnd
    BY <2>2 DEF DisconnectVerify, DisconnectBegin, DisconnectEnd, EnterNetDown, threadW
  <2>3. CASE ReadMqtt
    BY <2>3 DEF ReadMqtt, ConnectingMqtt, SubscribingMqtt, PublishingMqtt, EnterConnecting,
                EnterSubscribing, EnterPublishing
  <2>4. CASE NetDownReturn \/ ClearMqtt
    BY <2>4 DEF NetDownReturn, ClearMqtt, threadW
  <2>5. CASE WorkQueue
    BY <2>5 DEF WorkQueue, ConnectStart, ConnectTransport, ResolveFails, ConnectRefused,
                ConnectRefusedEnd, TransportUp, TransportFails, Subscribe, ConnectReturn, threadT
  <2>6. CASE PollThread \/ PollFaults
    BY <2>6 DEF PollThread, PollStart, PollEnd, ConnAck, SubAck, SubAnswer, DeadNoticed, Lost,
                PollCallback, PollFaults, ConnRefused, SubRefused, Dropped, PollBreaks, threadT,
                threadW
  <2>7. CASE WifiUp \/ WifiDown \/ WifiConnectFailed \/ DhcpRebound
    BY <2>7 DEF WifiUp, WifiAssociated, IpAcquired, WifiDown, WifiConnectFailed, DhcpRebound,
                StoreNetEvent, threadT, threadW
  <2>8. CASE Reboot \/ UNCHANGED vars
    BY <2>8 DEF Reboot, vars, threadT, threadW
  <2> QED
    BY <2>1, <2>2, <2>3, <2>4, <2>5, <2>6, <2>7, <2>8, Steps DEF OthersStep, FsmRun
<1> QED
  BY <1>1, <1>2, PTL DEF Spec

-----------------------------------------------------------------------------
(* The helper library: whoever moves it, and from where.                   *)

\* Moving to DISCONNECTED, or from one state of the table to the next, is legal.
LEMMA LegalMoves ==
    ASSUME NEW new, HelperMove(new),
           \/ new = "Disconnected" \/ new = helper
           \/ <<helper, new>> \in {<<"Disconnected", "Connecting">>,
                                   <<"Disconnected", "TransportConnecting">>,
                                   <<"TransportConnecting", "Connecting">>,
                                   <<"Connecting", "Connected">>,
                                   <<"Connected", "Disconnecting">>}
    PROVE  helper' = new /\ UNCHANGED crashed
BY DEF HelperMove, LegalTransition

\* A socket that is in use has the poll thread on it, unless the poll loop may
\* end without telling anyone: TransportUp wakes the thread, which only returns
\* to its semaphore from a loop that has seen the socket out of use.
THEOREM SessionServedAlways ==
    ASSUME ~PollMayFail PROVE Spec => []SessionServed
<1> USE DEF SessionServed
<1>1. Init => SessionServed
  BY DEF Init
<1>2. SessionServed /\ [Next]_vars => SessionServed'
  <2> SUFFICES ASSUME SessionServed, [Next]_vars PROVE SessionServed'
    OBVIOUS
  <2>1. CASE ReadNetwork \/ ReadMqtt \/ NetDownReturn \/ ClearMqtt
    BY <2>1 DEF ReadNetwork, ReadMqtt, NetDownReturn, ClearMqtt, threadP
  <2>2. CASE DisconnectVerify \/ DisconnectBegin \/ DisconnectEnd
    BY <2>2 DEF DisconnectVerify, DisconnectBegin, DisconnectEnd, HelperMove, threadP
  <2>3. CASE WorkQueue
    BY <2>3 DEF WorkQueue, ConnectStart, ConnectTransport, ResolveFails, ConnectRefused,
                ConnectRefusedEnd, TransportUp, TransportFails, Subscribe, HelperMove, threadP
  <2>4. CASE PollThread
    BY <2>4 DEF PollThread, PollStart, PollEnd, ConnAck, SubAck, SubAnswer, DeadNoticed, Lost,
                PollCallback, Notify, Polled
  <2>5. CASE PollFaults
    BY <2>5 DEF PollFaults, ConnRefused, SubRefused, SubAnswer, Dropped, Lost, PollBreaks, Notify
  <2>6. CASE WifiUp \/ WifiDown \/ WifiConnectFailed \/ DhcpRebound
    BY <2>6 DEF WifiUp, WifiAssociated, IpAcquired, WifiDown, WifiConnectFailed, DhcpRebound,
                StoreNetEvent, threadP
  <2>7. CASE Reboot \/ UNCHANGED vars
    BY <2>7 DEF Reboot, vars, threadP
  <2> QED
    BY <2>1, <2>2, <2>3, <2>4, <2>5, <2>6, <2>7, Steps DEF OthersStep, FsmRun
<1> QED
  BY <1>1, <1>2, PTL DEF Spec

\* A library that waits for CONNACK is owed one, and the connect work of the
\* transport cannot meet it in CONNECTING: the attempt it would collide with is
\* over. T may end the connection under W, and W under T.
Attempts ==
    /\ helper = "Connecting" => owed = "connack"
    /\ wpc = "sleep" => helper # "Connecting"
    /\ wpc = "tcp" => helper \in {"TransportConnecting", "Disconnected"}
    /\ wpc = "disconnect" => helper \in {"Disconnecting", "Disconnected"}

\* When the broker answers a CONNECT, or the loss of the connection is noticed,
\* before the connect work tries again 30 + 10 s later, the __ASSERT of
\* mqtt_state_set fires in one place only, whatever else fails and whenever a
\* Wi-Fi event comes: in the mqtt_helper_disconnect of T, when W has moved the
\* state after T has looked at it (mqtt_helper_heliogen.c 672, 681).
THEOREM OnlyTheRaceAsserts ==
    ASSUME ~SlowAnswers
    PROVE  Spec => [][crashed' /\ ~crashed => DisconnectBegin]_vars
<1> USE DEF Attempts
<1>1. Init => Attempts
  BY DEF Init
<1>2. Attempts /\ [Next]_vars =>
        Attempts' /\ (crashed' /\ ~crashed => DisconnectBegin)
  <2> SUFFICES ASSUME Attempts, [Next]_vars
               PROVE  Attempts' /\ (crashed' /\ ~crashed => DisconnectBegin)
    OBVIOUS
  <2>1. CASE ReadNetwork \/ ReadMqtt \/ NetDownReturn \/ ClearMqtt \/ DisconnectVerify
    BY <2>1 DEF ReadNetwork, ReadMqtt, NetDownReturn, ClearMqtt, DisconnectVerify, threadW, broker
  <2>2. CASE DisconnectBegin
    BY <2>2 DEF DisconnectBegin, HelperMove, LegalTransition, threadW, broker
  <2>3. CASE DisconnectEnd
    BY <2>3, LegalMoves DEF DisconnectEnd, SocketClosed
  <2>4. CASE WorkQueue
    <3>1. CASE ConnectStart \/ Subscribe
      BY <2>4, <3>1 DEF ConnectStart, Subscribe, SecondsPass, threadT, broker
    <3>2. CASE ConnectTransport
      BY <3>2, LegalMoves DEF ConnectTransport, SleepOver, threadT, broker
    <3>3. CASE ResolveFails \/ ConnectRefusedEnd
      BY <3>3, LegalMoves DEF ResolveFails, ConnectRefusedEnd, ConnectReturn, SocketClosed, threadT
    <3>4. CASE ConnectRefused
      BY <3>4, LegalMoves DEF ConnectRefused, ConnectReturn, threadT, broker
    <3>5. CASE TransportUp
      BY <3>5, LegalMoves DEF TransportUp, ConnectReturn, threadT
    <3>6. CASE TransportFails
      BY <3>6, LegalMoves DEF TransportFails, ConnectReturn, threadT, broker
    <3> QED
      BY <2>4, <3>1, <3>2, <3>3, <3>4, <3>5, <3>6 DEF WorkQueue
  <2>5. CASE PollThread
    BY <2>5, LegalMoves
    DEF PollThread, PollStart, PollEnd, ConnAck, SubAck, SubAnswer, DeadNoticed, Lost,
        PollCallback, Notify, SocketClosed, Polled, threadT, threadW, broker
  <2>6. CASE PollFaults
    BY <2>6, LegalMoves
    DEF PollFaults, ConnRefused, SubRefused, SubAnswer, Dropped, Lost, PollBreaks, Notify,
        SocketClosed, Polled, threadT, threadW, broker
  <2>7. CASE WifiUp \/ WifiDown \/ WifiConnectFailed \/ DhcpRebound
    BY <2>7 DEF WifiUp, WifiAssociated, IpAcquired, WifiDown, WifiConnectFailed, DhcpRebound,
                StoreNetEvent, threadT, threadW
  <2>8. CASE Reboot \/ UNCHANGED vars
    BY <2>8 DEF Reboot, vars, threadT, threadW, broker
  <2> QED
    BY <2>1, <2>2, <2>3, <2>4, <2>5, <2>6, <2>7, <2>8, Steps DEF OthersStep, FsmRun
<1> QED
  BY <1>1, <1>2, PTL DEF Spec

-----------------------------------------------------------------------------
(* The session: who may be at work while the FSM believes in it.           *)

Loss == {"Disconnected", "ConnFail"}

\* P is about to store an event exactly while it is in its callback, and none
\* while a connection is being made.
CallbackOK ==
    /\ ppc = "callback" <=> cbEvt # "None"
    /\ helper \in {"TransportConnecting", "Connecting"} => cbEvt = "None"
    /\ cbEvt = "ConnOk" => helper = "Connected"

\* The connect work, while it waits or is in the TCP handshake, does not meet the
\* library in CONNECTING, and a disconnect that blocks its caller, or is about to,
\* is that caller's alone.
OneAttempt ==
    /\ helper = "Connecting" => owed = "connack"
    /\ wpc = "sleep" => helper # "Connecting"
    /\ wpc = "tcp" => helper = "TransportConnecting"
    /\ wpc = "disconnect" => helper = "Disconnecting"
    /\ tpc = "verified" => helper = "Connected"
    /\ tpc = "disconnect" => helper = "Disconnecting" /\ wpc # "disconnect"

\* The news of a connection is in one mailbox at most, no attempt of W is under
\* way with it, and the connection is alive or the news of its end follows.
ConnOkOK ==
    /\ "ConnOk" \in {mqttEvt, cbEvt} => wpc = "idle"
    /\ mqttEvt = "ConnOk" => cbEvt # "ConnOk" /\ (helper = "Connected" \/ cbEvt \in Loss)

\* Without a network the FSM has been told, or will be by an event it has not
\* read; the attempt that outlived its cancellation waits for that.
NetworkOK ==
    /\ netEvt = "Disconnected" => wifi # "ip"
    /\ tpc \in {"verified", "disconnect"} => wifi # "ip"
    /\ fsm = "NetDown" /\ wifi = "ip" => netEvt = "Ip" /\ tpc = "idle"
    /\ fsm = "NetDown" /\ connWork /\ "ConnOk" \in {mqttEvt, cbEvt}
         => netEvt # "None" /\ tpc = "idle"

\* In a session nobody connects, no CONNACK is due, and what P reports of the
\* session is about a connection that is still there.
SessionOK ==
    InSession =>
        /\ ~connWork /\ wpc = "idle"
        /\ helper \notin {"TransportConnecting", "Connecting"}
        /\ cbEvt # "ConnOk"
        /\ cbEvt \in {"SubAck", "SubFail"} => helper \in {"Connected", "Disconnecting"}

\* A handler that has left its state finds nothing in mqtt_event that would
\* bring it into a session, and the event it clears is no loss of one.
HandlerOK ==
    /\ tpc \in {"verified", "disconnect"} => InSession
    /\ tpc = "verified" => mqttEvt = "None"
    /\ tpc = "mqtt" /\ handler = "Connecting" =>
         /\ ~InSession
         /\ fsm = "NetDown" /\ mqttEvt # "None" => "ConnOk" \notin {mqttEvt, cbEvt}
    /\ tpc = "mqtt" /\ handler \in {"Subscribing", "Publishing"} /\ fsm # handler
         => mqttEvt \in {"None", "Disconnected"} /\ ~InSession
    /\ tpc = "mqtt" /\ handler = "NetDown" => ~InSession
    /\ tpc = "clear" /\ InSession => mqttEvt \notin Loss

SessionInv ==
    /\ TypeOK
    /\ OneAttempt
    /\ ~crashed
    /\ CallbackOK
    /\ ConnOkOK
    /\ NetworkOK
    /\ SessionOK
    /\ HandlerOK
    /\ LossIsNoticed

\* The part of TypeOK the session's argument needs.
LEMMA SessionTypes ==
    ASSUME TypeOK
    PROVE  /\ fsm \in {"NetDown", "Connecting", "Subscribing", "Publishing"}
           /\ netEvt \in {"None", "Disconnected", "Ip"}
           /\ mqttEvt \in {"None", "Disconnected", "ConnFail", "ConnOk", "SubFail", "SubAck"}
           /\ cbEvt \in {"None", "Disconnected", "ConnFail", "ConnOk", "SubFail", "SubAck"}
           /\ handler \in {"NetDown", "Connecting", "Subscribing", "Publishing", "none"}
           /\ wpc \in {"idle", "sleep", "tcp", "disconnect"}
BY DEF TypeOK, FsmState, NetEvent, MqttEvent

\* What the session's invariant consists of beside its types.
SessionParts == OneAttempt /\ ~crashed /\ CallbackOK /\ ConnOkOK /\ NetworkOK /\ SessionOK
                /\ HandlerOK /\ LossIsNoticed

\* T's steps preserve it.
LEMMA SessionReadNetwork ==
    ASSUME SessionInv, ReadNetwork
    PROVE  SessionParts'
<1> USE SessionTypes
    DEF SessionInv, SessionParts, OneAttempt, CallbackOK, ConnOkOK, NetworkOK, SessionOK,
        HandlerOK, LossIsNoticed, InSession, Loss
<1>0. UNCHANGED <<wpc, helper, pollSem, ppc, cbEvt, owed, dead, wifi, crashed>>
      /\ tpc = "idle" /\ tpc' = "mqtt" /\ handler' = fsm
  BY DEF ReadNetwork, threadP, broker
<1>1. CASE NetDownRun
  BY <1>0, <1>1 DEF NetDownRun, NoNetEvent, EnterNetDown, EnterConnecting
<1>2. CASE ConnectingNet
  BY <1>0, <1>2 DEF ConnectingNet, NoNetEvent, EnterNetDown, EnterConnecting
<1>3. CASE SubscribingNet
  BY <1>0, <1>3 DEF SubscribingNet, NoNetEvent, EnterNetDown, EnterConnecting
<1>4. CASE PublishingNet
  BY <1>0, <1>4 DEF PublishingNet, NoNetEvent, EnterNetDown
<1> QED
  BY <1>1, <1>2, <1>3, <1>4 DEF ReadNetwork

LEMMA SessionReadMqtt ==
    ASSUME SessionInv, ReadMqtt
    PROVE  SessionParts'
<1> USE SessionTypes
    DEF SessionInv, SessionParts, OneAttempt, CallbackOK, ConnOkOK, NetworkOK, SessionOK,
        HandlerOK, LossIsNoticed, InSession, Loss
<1>0. UNCHANGED <<mqttEvt, handler, wpc, helper, pollSem, ppc, cbEvt, owed, dead, wifi, crashed>>
      /\ tpc = "mqtt" /\ tpc' = "clear" /\ netEvt' = "None"
  BY DEF ReadMqtt, threadP, broker
<1>1. CASE ConnectingMqtt
  <2>1. CASE mqttEvt = "None"
    BY <1>0, <1>1, <2>1 DEF ConnectingMqtt
  <2>2. CASE mqttEvt = "ConnOk"
    BY <1>0, <1>1, <2>2 DEF ConnectingMqtt, EnterSubscribing
  <2>3. CASE mqttEvt \notin {"None", "ConnOk"}
    BY <1>0, <1>1, <2>3 DEF ConnectingMqtt
  <2> QED
    BY <2>1, <2>2, <2>3
<1>2. CASE SubscribingMqtt
  BY <1>0, <1>2 DEF SubscribingMqtt, EnterConnecting, EnterPublishing
<1>3. CASE PublishingMqtt
  BY <1>0, <1>3 DEF PublishingMqtt, EnterConnecting
<1> QED
  BY <1>1, <1>2, <1>3 DEF ReadMqtt

LEMMA SessionTransport ==
    ASSUME SessionInv, DisconnectVerify \/ DisconnectBegin \/ DisconnectEnd
                       \/ NetDownReturn \/ ClearMqtt
    PROVE  SessionParts'
<1> USE SessionTypes
    DEF SessionInv, SessionParts, OneAttempt, CallbackOK, ConnOkOK, NetworkOK, SessionOK,
        HandlerOK, LossIsNoticed, InSession, Loss
<1>0. CASE DisconnectVerify
  BY <1>0 DEF DisconnectVerify, threadW, threadP, broker
<1>1. CASE DisconnectBegin
  BY <1>1, LegalMoves DEF DisconnectBegin, threadW, threadP, broker
<1>2. CASE DisconnectEnd
  BY <1>2, LegalMoves DEF DisconnectEnd, EnterNetDown, SocketClosed, threadP
<1>3. CASE NetDownReturn
  BY <1>3 DEF NetDownReturn, threadW, threadP, broker
<1>4. CASE ClearMqtt
  BY <1>4 DEF ClearMqtt, threadW, threadP, broker
<1> QED
  BY <1>0, <1>1, <1>2, <1>3, <1>4

\* W's steps preserve it: an attempt only starts, and only ends, outside a
\* session and with no news of a connection about.
LEMMA SessionWorkQueue ==
    ASSUME SessionInv, ~SlowAnswers, WorkQueue
    PROVE  SessionParts'
<1> USE SessionTypes
    DEF SessionInv, SessionParts, OneAttempt, CallbackOK, ConnOkOK, NetworkOK, SessionOK,
        HandlerOK, LossIsNoticed, InSession, Loss
<1>1. CASE ConnectStart
  BY <1>1 DEF ConnectStart, SecondsPass, threadT, threadP, broker
<1>2. CASE ConnectTransport
  BY <1>2, LegalMoves DEF ConnectTransport, SleepOver, threadT, threadP, broker, TypeOK
<1>3. CASE ResolveFails
  BY <1>3, LegalMoves DEF ResolveFails, SleepOver, ConnectReturn, SocketClosed, threadT,
                          threadP
<1>4. CASE ConnectRefused
  BY <1>4, LegalMoves DEF ConnectRefused, SleepOver, ConnectReturn, threadT, threadP, broker
<1>5. CASE ConnectRefusedEnd
  BY <1>5, LegalMoves DEF ConnectRefusedEnd, ConnectReturn, SocketClosed, threadT, threadP
<1>6. CASE TransportUp
  BY <1>6, LegalMoves DEF TransportUp, ConnectReturn, threadT, threadP
<1>7. CASE TransportFails
  BY <1>7, LegalMoves DEF TransportFails, ConnectReturn, threadT, threadP, broker
<1>8. CASE Subscribe
  BY <1>8 DEF Subscribe, SecondsPass, threadT, threadP
<1> QED
  BY <1>1, <1>2, <1>3, <1>4, <1>5, <1>6, <1>7, <1>8 DEF WorkQueue

\* P's steps preserve it: what the poll loop reports, it reports before it can
\* read anything else.
LEMMA SessionPoll ==
    ASSUME SessionInv, PollThread \/ PollFaults
    PROVE  SessionParts'
<1> USE SessionTypes
    DEF SessionInv, SessionParts, OneAttempt, CallbackOK, ConnOkOK, NetworkOK, SessionOK,
        HandlerOK, LossIsNoticed, InSession, Loss
<1>1. CASE PollStart
  BY <1>1 DEF PollStart, threadT, threadW, broker
<1>2. CASE PollEnd \/ PollBreaks
  BY <1>2 DEF PollEnd, PollBreaks, threadT, threadW, broker
<1>3. CASE ConnAck
  BY <1>3, LegalMoves DEF ConnAck, Answer, PollRuns, Notify, threadT, threadW
<1>4. CASE ConnRefused
  BY <1>4, LegalMoves DEF ConnRefused, Answer, PollRuns, Notify, SocketClosed, threadT, threadW
<1>5. CASE SubAck \/ SubRefused
  BY <1>5, LegalMoves DEF SubAck, SubRefused, SubAnswer, Answer, PollRuns, Notify, threadT,
                          threadW
<1>6. CASE DeadNoticed \/ Dropped
  <2>1. /\ helper' = "Disconnected" /\ UNCHANGED crashed
        /\ ppc = "poll" /\ ppc' = "callback" /\ cbEvt' = "Disconnected"
        /\ UNCHANGED <<fsm, tpc, handler, netEvt, mqttEvt, connWork, wpc, wifi>>
    BY <1>6, LegalMoves DEF DeadNoticed, Dropped, Lost, Notify, threadT, threadW
  <2>2. helper \in {"Connecting", "Connected"} /\ tpc = "idle"
    BY <1>6 DEF DeadNoticed, Dropped, Lost, Polled, PollRuns
  <2> QED
    BY <2>1, <2>2
<1>7. CASE PollCallback
  BY <1>7 DEF PollCallback, PollRuns, threadT, threadW, broker
<1> QED
  BY <1>1, <1>2, <1>3, <1>4, <1>5, <1>6, <1>7 DEF PollThread, PollFaults

\* N's steps preserve it, when none of them comes inside a run of the FSM.
LEMMA SessionNetwork ==
    ASSUME SessionInv, ~NetPreempts,
           WifiUp \/ WifiDown \/ WifiConnectFailed \/ DhcpRebound
    PROVE  SessionParts'
<1> USE SessionTypes
    DEF SessionInv, SessionParts, OneAttempt, CallbackOK, ConnOkOK, NetworkOK, SessionOK,
        HandlerOK, LossIsNoticed, InSession, Loss
<1>1. /\ UNCHANGED <<fsm, tpc, handler, mqttEvt, connWork, subWork, wpc, helper, pollSem, ppc,
                     cbEvt, owed, crashed>>
      /\ tpc = "idle"
  BY DEF WifiUp, WifiAssociated, IpAcquired, WifiDown, WifiConnectFailed, DhcpRebound,
         StoreNetEvent, NetRuns, threadT, threadW, threadP
<1>2. netEvt' = "Ip" \/ (netEvt' = "Disconnected" /\ wifi' # "ip")
  BY DEF WifiUp, WifiAssociated, IpAcquired, WifiDown, WifiConnectFailed, DhcpRebound,
         StoreNetEvent
<1> QED
  BY <1>1, <1>2

\* The invariant of the session, when the broker answers in time and no Wi-Fi
\* event comes inside a run of the FSM.
LEMMA SessionInvariant ==
    ASSUME ~SlowAnswers, ~NetPreempts PROVE Spec => []SessionParts
<1>1. Init => SessionParts
  BY DEF Init, SessionParts, OneAttempt, CallbackOK, ConnOkOK, NetworkOK, SessionOK, HandlerOK,
         LossIsNoticed, InSession, Loss
<1>2. TypeOK /\ SessionParts /\ [Next]_vars => SessionParts'
  <2> SUFFICES ASSUME TypeOK, SessionParts, [Next]_vars PROVE SessionParts'
    OBVIOUS
  <2>1. SessionInv
    BY DEF SessionInv, SessionParts
  <2>2. CASE FsmRun
    BY <2>1, <2>2, SessionReadNetwork, SessionReadMqtt, SessionTransport DEF FsmRun
  <2>3. CASE OthersStep
    BY <2>1, <2>3, SessionWorkQueue, SessionPoll, SessionNetwork DEF OthersStep
  <2>4. CASE Reboot
    BY <2>4 DEF Reboot, SessionParts
  <2>5. CASE UNCHANGED vars
    BY <2>1, <2>5
    DEF vars, threadT, threadW, threadP, broker, SessionInv, SessionParts, OneAttempt, CallbackOK,
        ConnOkOK, NetworkOK, SessionOK, HandlerOK, LossIsNoticed, InSession, Loss
  <2> QED
    BY <2>2, <2>3, <2>4, <2>5, Steps
<1> QED
  BY <1>1, <1>2, TypeCorrect, PTL DEF Spec

\* Under these assumptions the __ASSERT of mqtt_state_set never fires: nobody
\* works on the connection of a session between T's look at the state and its
\* change of it.
THEOREM AnswersInTimeNoAssert ==
    ASSUME ~SlowAnswers, ~NetPreempts PROVE Spec => []NoIllegalTransition
<1>1. SessionParts => NoIllegalTransition
  BY DEF SessionParts, NoIllegalTransition
<1> QED
  BY <1>1, SessionInvariant, PTL

\* Under these assumptions an FSM that believes in its session is told when the
\* session is gone: T never clears, and no later event overwrites, the news.
THEOREM LossNoticed ==
    ASSUME ~SlowAnswers, ~NetPreempts PROVE Spec => []LossIsNoticed
<1>1. SessionParts => LossIsNoticed
  BY DEF SessionParts
<1> QED
  BY <1>1, SessionInvariant, PTL

\* Under these assumptions "Cancel any ongoing connect work" is enough: no
\* attempt, delayed or running, outlives the session it made.
THEOREM NoAttemptLeft ==
    ASSUME ~SlowAnswers, ~NetPreempts PROVE Spec => []NoAttemptInSession
<1>1. SessionParts => NoAttemptInSession
  BY DEF SessionParts, SessionOK, NoAttemptInSession
<1> QED
  BY <1>1, SessionInvariant, PTL
-----------------------------------------------------------------------------
(* An IP address in NETWORK_DISCONNECTED.                                  *)

\* In NETWORK_DISCONNECTED with a network, the news of it is in the mailbox and
\* T has yet to look: no clearing of network_event has taken it away.
IpAwaitsT == fsm = "NetDown" /\ wifi = "ip" => netEvt = "Ip" /\ tpc = "idle"

\* What keeps it true: a loss of the network still unread, or being acted upon,
\* is a loss that is still true.
IpInv ==
    /\ netEvt = "Disconnected" => wifi # "ip"
    /\ tpc \in {"verified", "disconnect"} => wifi # "ip"
    /\ IpAwaitsT

\* What a step that is neither T's nor N's cannot touch.
LEMMA BelowLeavesNetwork ==
    ASSUME WorkQueue \/ PollThread \/ PollFaults
    PROVE  UNCHANGED <<threadT, netEvt, wifi>>
<1>1. CASE WorkQueue
  BY <1>1 DEF WorkQueue, ConnectStart, ConnectTransport, ResolveFails, ConnectRefused,
              ConnectRefusedEnd, TransportUp, TransportFails, Subscribe
<1>2. CASE PollThread
  BY <1>2 DEF PollThread, PollStart, PollEnd, ConnAck, SubAck, SubAnswer, DeadNoticed, Lost,
              PollCallback
<1>3. CASE PollFaults
  BY <1>3 DEF PollFaults, ConnRefused, SubRefused, SubAnswer, Dropped, Lost, PollBreaks
<1> QED
  BY <1>1, <1>2, <1>3

\* A Wi-Fi event that comes between two runs of the FSM is never lost, whatever
\* the broker, the sockets and the poll thread do: the IP address an FSM of
\* NETWORK_DISCONNECTED misses in the run session_ip_missed is missed only
\* because the event comes inside a run of transport_fsm_run (transport_fsm.c
\* 246, 290, 349, 360 and 437 clear what came after the handler's look at it).
THEOREM IpHeardBetweenRuns ==
    ASSUME ~NetPreempts PROVE Spec => []IpAwaitsT
<1> USE DEF IpInv, IpAwaitsT
<1>1. Init => IpInv
  BY DEF Init
<1>2. IpInv /\ [Next]_vars => IpInv'
  <2> SUFFICES ASSUME IpInv, [Next]_vars PROVE IpInv'
    OBVIOUS
  <2>1. CASE ReadNetwork
    BY <2>1 DEF ReadNetwork, NetDownRun, ConnectingNet, SubscribingNet, PublishingNet, NoNetEvent,
                EnterNetDown, EnterConnecting
  <2>2. CASE DisconnectVerify \/ DisconnectBegin \/ DisconnectEnd
    BY <2>2 DEF DisconnectVerify, DisconnectBegin, DisconnectEnd, EnterNetDown
  <2>3. CASE ReadMqtt
    BY <2>3 DEF ReadMqtt, ConnectingMqtt, SubscribingMqtt, PublishingMqtt, EnterConnecting,
                EnterSubscribing, EnterPublishing
  <2>4. CASE NetDownReturn \/ ClearMqtt
    BY <2>4 DEF NetDownReturn, ClearMqtt
  <2>5. CASE WorkQueue \/ PollThread \/ PollFaults
    BY <2>5, BelowLeavesNetwork DEF threadT
  <2>6. CASE WifiUp \/ WifiDown \/ WifiConnectFailed \/ DhcpRebound
    <3>1. tpc = "idle" /\ UNCHANGED <<fsm, tpc>>
      BY <2>6 DEF WifiUp, WifiAssociated, IpAcquired, WifiDown, WifiConnectFailed, DhcpRebound,
                  StoreNetEvent, NetRuns, threadT
    <3>2. netEvt' = "Ip" \/ (netEvt' = "Disconnected" /\ wifi' # "ip")
      BY <2>6 DEF WifiUp, WifiAssociated, IpAcquired, WifiDown, WifiConnectFailed, DhcpRebound,
                  StoreNetEvent
    <3> QED
      BY <3>1, <3>2
  <2>7. CASE Reboot \/ UNCHANGED vars
    BY <2>7 DEF Reboot, vars, threadT
  <2> QED
    BY <2>1, <2>2, <2>3, <2>4, <2>5, <2>6, <2>7, Steps DEF OthersStep, FsmRun
<1> QED
  BY <1>1, <1>2, PTL DEF Spec
=============================================================================
