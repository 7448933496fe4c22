----------------------------- MODULE HeadBridge ------------------------------
(***************************************************************************)
(* A cluster head between MQTT and the radio. On the application core the  *)
(* poll thread runs the RTT command (rtt_mqtt.c, main.c), which sends a    *)
(* trigger to the network core and waits for an answer; recv_cb, in the    *)
(* thread of the IPC backend, publishes every answer at once. On the       *)
(* network core (net_ipc/src/main.c) ep_recv broadcasts the trigger, the   *)
(* radio interrupt queues the answers, and a work handler sends them on.   *)
(*                                                                         *)
(* recv_cb holds res_topic_sem while it publishes, ep_recv outranks the    *)
(* work handler, and the interrupt outranks both: each is one action.      *)
(***************************************************************************)
EXTENDS Naturals, Sequences

CONSTANTS
    QueueSize,   \* RX_MSGQ_MAX_ITEMS
    FifoSize,    \* the radio's receive FIFO
    MaxCommands, \* bound: RTT commands in a run of the model
    MaxAnswers   \* bound: answers received by the radio

ASSUME HeadBridgeAssumption ==
    /\ QueueSize \in Nat \ {0}
    /\ FifoSize \in Nat \ {0}
    /\ MaxCommands \in Nat
    /\ MaxAnswers \in Nat

VARIABLES
    ppc,      \* where the poll thread stands in the RTT command
    command,  \* the command it has taken last, numbered from 1
    topic,    \* current_res_topic: the command that set it, 0 for none
    sem,      \* ipc_rx_sem, at most 1
    toNet,    \* IPC: triggers on their way to the network core
    toApp,    \* IPC: answers on their way to the application core
    radio,    \* ESB: off (not initialised), idle, transmitting, receiving
    trigger,  \* the trigger written last, 0 if that failed
    asked,    \* history: the triggers that were written
    fifo,     \* the radio's receive FIFO
    event,    \* ESB_EVENT_RX_RECEIVED is due
    rxq,      \* esb_rx_msgq
    queued,   \* esb_rx_work has been submitted
    wpc,      \* where esb_rx_work_handler stands
    held,     \* the answer it has taken, a sequence of at most one
    received, \* history: answers received so far
    forwarded,\* history: the answer published last
    answered, \* history: an answer to this command has reached recv_cb
    crossed,  \* history: an answer met another command than its own
    misrouted \* history: an answer was published to another command's topic

app == <<ppc, command, topic, sem>>
ipc == <<toNet, toApp>>
esb == <<radio, trigger, asked>>
rx == <<fifo, event>>
work == <<queued, wpc, held>>
history == <<received, forwarded, answered, crossed, misrouted>>
vars == <<app, ipc, esb, rx, rxq, work, history>>

Command == 1..MaxCommands
Message == [id : Nat, trigger : Nat]

FlagsOK ==
    /\ event \in BOOLEAN
    /\ queued \in BOOLEAN
    /\ answered \in BOOLEAN
    /\ crossed \in BOOLEAN
    /\ misrouted \in BOOLEAN

QueuesOK ==
    /\ toNet \in Seq(Nat)
    /\ toApp \in Seq(Message)
    /\ held \in Seq(Message)
    /\ rxq \in Seq(Message) /\ Len(rxq) <= QueueSize
    /\ fifo \in Seq(Message) /\ Len(fifo) <= FifoSize

ScalarsOK ==
    /\ ppc \in {"idle", "topic", "drain", "send", "wait"}
    /\ command \in Nat /\ topic \in Nat
    /\ sem \in {0, 1}
    /\ radio \in {"off", "idle", "tx", "rx"}
    /\ trigger \in Nat /\ asked \subseteq Nat
    /\ wpc \in {"idle", "loop", "send", "end"}
    /\ received \in Nat /\ forwarded \in Nat

TypeOK == FlagsOK /\ QueuesOK /\ ScalarsOK

\* The answers inside the head, oldest first.
InFlight == toApp \o held \o rxq \o fifo

-----------------------------------------------------------------------------
(* Application core: ON_MQTT_PUBLISH_CB in the poll thread.                *)

\* A command is matched and decoded.
TakeCommand ==
    /\ ppc = "idle" /\ ppc' = "topic"
    /\ command < MaxCommands /\ command' = command + 1
    /\ answered' = FALSE
    /\ crossed' = (crossed \/ InFlight # <<>>)
    /\ UNCHANGED <<topic, sem, ipc, esb, rx, rxq, work, received, forwarded,
                   misrouted>>

\* Mutation: the topic is set when the wait is over.
SetTopicLate ==
    /\ \/ /\ ppc = "topic" /\ ppc' = "drain"
          /\ UNCHANGED topic
       \/ /\ ppc = "wait" /\ topic' = command
          /\ UNCHANGED ppc
    /\ UNCHANGED <<command, sem, ipc, esb, rx, rxq, work, history>>

\* set_current_res_topic; a command without a payload ends here.
SetTopic ==
    /\ ppc = "topic" /\ ppc' \in {"drain", "idle"}
    /\ topic' = command
    /\ UNCHANGED <<command, sem, ipc, esb, rx, rxq, work, history>>

\* Mutation: pending signals are not cleared.
DrainNothing ==
    /\ ppc = "drain" /\ ppc' = "send"
    /\ UNCHANGED <<command, topic, sem, ipc, esb, rx, rxq, work, history>>

\* ipc_send_and_wait clears the signals of earlier answers ...
Drain ==
    /\ ppc = "drain" /\ ppc' = "send"
    /\ sem' = 0
    /\ UNCHANGED <<command, topic, ipc, esb, rx, rxq, work, history>>

\* Mutation: the signals are cleared once more after the trigger is sent.
SendThenDrain ==
    /\ \/ /\ ppc = "send" /\ ppc' = "sent"
          /\ toNet' = Append(toNet, command)
          /\ UNCHANGED sem
       \/ /\ ppc = "sent" /\ ppc' = "wait"
          /\ sem' = 0
          /\ UNCHANGED toNet
    /\ UNCHANGED <<command, topic, toApp, esb, rx, rxq, work, history>>

\* ... and sends the trigger, which may fail.
Send ==
    /\ ppc = "send" /\ ppc' = "wait"
    /\ toNet' = Append(toNet, command)
    /\ UNCHANGED <<command, topic, sem, toApp, esb, rx, rxq, work, history>>

SendFails ==
    /\ ppc = "send" /\ ppc' = "idle"
    /\ UNCHANGED <<command, topic, sem, ipc, esb, rx, rxq, work, history>>

\* The wait ends with a signal, or after 4 s with "No nodes responded".
Signalled ==
    /\ ppc = "wait" /\ ppc' = "idle"
    /\ sem = 1 /\ sem' = 0
    /\ UNCHANGED <<command, topic, ipc, esb, rx, rxq, work, history>>

TimedOut ==
    /\ ppc = "wait" /\ ppc' = "idle"
    /\ sem = 0
    /\ UNCHANGED <<command, topic, sem, ipc, esb, rx, rxq, work, history>>

PollThread == TakeCommand \/ SetTopic \/ Drain \/ Send \/ SendFails \/ Signalled
              \/ TimedOut

-----------------------------------------------------------------------------
(* Application core: recv_cb. The answer goes to the topic that is current,*)
(* if there is one and the transport accepts it; the signal is given anyway.*)

RecvCb ==
    /\ toApp # <<>> /\ toApp' = Tail(toApp)
    /\ sem' = 1
    /\ answered' = (answered \/ Head(toApp).trigger = command)
    /\ \/ /\ topic # 0
          /\ forwarded' = Head(toApp).id
          /\ misrouted' = (misrouted \/ topic # Head(toApp).trigger)
       \/ UNCHANGED <<forwarded, misrouted>>
    /\ UNCHANGED <<ppc, command, topic, toNet, esb, rx, rxq, work, received,
                   crossed>>

-----------------------------------------------------------------------------
(* Network core: ep_recv, and the radio.                                   *)

\* main initialises ESB after the IPC endpoint is bound.
RadioInit ==
    /\ radio = "off" /\ radio' = "idle"
    /\ UNCHANGED <<app, ipc, trigger, asked, rx, rxq, work, history>>

\* Reception is stopped, what waits to be sent on is dropped and the trigger
\* written, over one that is still being transmitted.
EpRecv ==
    /\ toNet # <<>> /\ toNet' = Tail(toNet)
    /\ rxq' = <<>>
    /\ \/ /\ radio # "off" /\ radio' = "tx"
          /\ trigger' = Head(toNet)
          /\ asked' = asked \cup {Head(toNet)}
       \/ /\ radio' = IF radio = "rx" THEN "idle" ELSE radio
          /\ trigger' = 0
          /\ UNCHANGED asked
    /\ UNCHANGED <<app, toApp, rx, work, history>>

\* Mutation: only a broadcast that succeeds opens the receiver.
TxDoneOrFailed ==
    /\ radio = "tx" /\ radio' \in {"rx", "idle"}
    /\ fifo' = <<>>
    /\ UNCHANGED <<app, ipc, trigger, asked, event, rxq, work, history>>

\* ESB_EVENT_TX_SUCCESS and ESB_EVENT_TX_FAILED: stale packets are flushed and
\* the receiver is opened.
TxDone ==
    /\ radio = "tx" /\ radio' = "rx"
    /\ fifo' = <<>>
    /\ UNCHANGED <<app, ipc, trigger, asked, event, rxq, work, history>>

\* A node answers a trigger, the current one or, late, an earlier one.
Hear(t) ==
    /\ radio = "rx" /\ Len(fifo) < FifoSize
    /\ received < MaxAnswers /\ received' = received + 1
    /\ fifo' = Append(fifo, [id |-> received', trigger |-> t])
    /\ event' = TRUE
    /\ crossed' = (crossed \/ t # command)
    /\ UNCHANGED <<app, ipc, esb, rxq, work, forwarded, answered, misrouted>>

\* Mutation: the work is not submitted while its handler runs.
RxEventIfIdle ==
    /\ event /\ event' = FALSE
    /\ fifo # <<>> /\ fifo' = Tail(fifo)
    /\ \/ /\ Len(rxq) < QueueSize
          /\ rxq' = Append(rxq, Head(fifo))
          /\ queued' = (queued \/ wpc = "idle")
       \/ /\ Len(rxq) = QueueSize
          /\ UNCHANGED <<rxq, queued>>
    /\ UNCHANGED <<app, ipc, esb, wpc, held, history>>

\* ESB_EVENT_RX_RECEIVED: one payload is read, whatever the FIFO holds, and
\* queued if there is room.
RxEvent ==
    /\ event /\ event' = FALSE
    /\ fifo # <<>> /\ fifo' = Tail(fifo)
    /\ \/ /\ Len(rxq) < QueueSize
          /\ rxq' = Append(rxq, Head(fifo))
          /\ queued' = TRUE
       \/ /\ Len(rxq) = QueueSize
          /\ UNCHANGED <<rxq, queued>>
    /\ UNCHANGED <<app, ipc, esb, wpc, held, history>>

\* The event finds a FIFO that has been flushed.
RxEventEmpty ==
    /\ event /\ event' = FALSE
    /\ fifo = <<>>
    /\ UNCHANGED <<app, ipc, esb, fifo, rxq, work, history>>

-----------------------------------------------------------------------------
(* Network core: esb_rx_work_handler, on its own work queue.               *)

WorkStart ==
    /\ wpc = "idle" /\ queued
    /\ wpc' = "loop" /\ queued' = FALSE
    /\ UNCHANGED <<app, ipc, esb, rx, rxq, held, history>>

\* Mutation: the answer stays in the queue until it has been sent.
WorkPeek ==
    /\ wpc = "loop" /\ rxq # <<>>
    /\ wpc' = "send" /\ held' = <<Head(rxq)>>
    /\ UNCHANGED <<app, ipc, esb, rx, rxq, queued, history>>

WorkTake ==
    /\ wpc = "loop" /\ rxq # <<>>
    /\ wpc' = "send" /\ held' = <<Head(rxq)>> /\ rxq' = Tail(rxq)
    /\ UNCHANGED <<app, ipc, esb, rx, queued, history>>

WorkSend ==
    /\ wpc = "send" /\ wpc' = "loop"
    /\ toApp' = toApp \o held /\ held' = <<>>
    /\ UNCHANGED <<app, toNet, esb, rx, rxq, queued, history>>

\* Mutation: a failure ends the handler.
WorkSendFailsEnds ==
    /\ wpc = "send" /\ wpc' = "end"
    /\ held' = <<>>
    /\ UNCHANGED <<app, ipc, esb, rx, rxq, queued, history>>

\* The answer is lost and the handler goes on.
WorkSendFails ==
    /\ wpc = "send" /\ wpc' = "loop"
    /\ held' = <<>>
    /\ UNCHANGED <<app, ipc, esb, rx, rxq, queued, history>>

\* The queue is empty, and then the handler returns.
WorkEnd ==
    /\ \/ wpc = "loop" /\ rxq = <<>> /\ wpc' = "end"
       \/ wpc = "end" /\ wpc' = "idle"
    /\ UNCHANGED <<app, ipc, esb, rx, rxq, queued, held, history>>

WorkHandler == WorkStart \/ WorkTake \/ WorkSend \/ WorkSendFails \/ WorkEnd

-----------------------------------------------------------------------------

Init ==
    /\ ppc = "idle" /\ command = 0 /\ topic = 0 /\ sem = 0
    /\ toNet = <<>> /\ toApp = <<>>
    /\ radio = "off" /\ trigger = 0 /\ asked = {}
    /\ fifo = <<>> /\ event = FALSE
    /\ rxq = <<>>
    /\ queued = FALSE /\ wpc = "idle" /\ held = <<>>
    /\ received = 0 /\ forwarded = 0
    /\ answered = FALSE /\ crossed = FALSE /\ misrouted = FALSE

Radio == RadioInit \/ TxDone \/ RxEvent \/ RxEventEmpty \/ \E t \in asked : Hear(t)

Next == PollThread \/ RecvCb \/ EpRecv \/ Radio \/ WorkHandler

Spec == Init /\ [][Next]_vars

\* The handler's thread and the IPC backend's run whenever they have work.
Fairness == WF_vars(WorkHandler) /\ WF_vars(RecvCb)

FairSpec == Spec /\ Fairness

-----------------------------------------------------------------------------
(* Properties.                                                             *)

\* A queued answer always has the handler coming for it, however the interrupt
\* falls into the handler's end (main.c 80-105, 130-137): it cannot be left in
\* the queue until the next answer.
NoForgotten == rxq # <<>> => queued \/ wpc \in {"loop", "send"}

\* When an answer to its own trigger has come, the poll thread does not wait
\* out its 4 s and report "No nodes responded" (rtt_mqtt.c 121-127).
NoAnswerMissed == ppc = "wait" /\ answered => sem = 1

\* Unless answers and commands cross, the wait ends for an answer to its own
\* trigger and not for one of an earlier command (main.c 146-158).
WakesForAnswer == ppc = "wait" /\ sem = 1 /\ ~crossed => answered

\* Unless answers and commands cross, an answer is published to the topic of
\* the command it answers (rtt_mqtt.c 103-121, main.c 102-106).
OwnTopic == ~crossed => ~misrouted

\* After a broadcast, successful or not, the head listens for the answers until
\* the next trigger comes ("so we don't miss anything", net_ipc main.c 123).
Listening == trigger # 0 => radio \in {"tx", "rx"}

Channel == INSTANCE AnswerChannel
               WITH pending <- InFlight, Trigger <- Command

\* From the radio to the broker the answers pass a FIFO, four queues and two
\* cores: none is forwarded twice or before an earlier one.
RefinesChannel == Channel!Spec

Waiting(id) == \E i \in DOMAIN rxq : rxq[i].id = id

\* A queued answer leaves the network core's queue, with or without another
\* answer behind it, and with it the head.
Forwarded ==
    \A id \in 1..MaxAnswers :
        Waiting(id) ~> \A i \in DOMAIN InFlight : InFlight[i].id # id
=============================================================================
