---------------------------- MODULE PublishQueue ----------------------------
(***************************************************************************)
(* The outbound message queue of an application core: transport_publish    *)
(* (transport.c), the queue and its timer (transport_queue.c,              *)
(* transport_timer.c) and the part of the transport state machine that     *)
(* serves them (transport_fsm.c). MqttSession models the rest of it.       *)
(*                                                                         *)
(*   publishers  any thread that calls transport_publish;                  *)
(*   T           the transport thread, which serves the queue's head;      *)
(*   P           the lowest-priority poll thread, which runs on_mqtt_puback;*)
(*   the timer   whose expiry function runs in an interrupt.               *)
(* T preempts P anywhere; P runs when T sleeps or blocks in mqtt_publish.  *)
(***************************************************************************)
EXTENDS Naturals, Sequences

CONSTANTS
    Publishers,  \* the publishing threads
    Capacity,    \* CONFIG_TRANSPORT_MSGQ_LEN
    MaxMessages, \* bound: messages accepted in a run of the model
    MaxOutages   \* bound: connections lost in a run of the model

ASSUME PublishQueueAssumption ==
    /\ Capacity \in Nat \ {0}
    /\ MaxMessages \in Nat
    /\ MaxOutages \in Nat

VARIABLES
    fsm,       \* the FSM's state; "Connecting" stands for SUBSCRIBING too
    outages,   \* connections lost so far
    queue,     \* transport_msgq: messages numbered in order of acceptance
    next,      \* the number of the next message
    last,      \* the number of the message handed to mqtt_publish last
    sending,   \* the message T is inside mqtt_publish with, or NoMessage
    timer,     \* transport_pub_timer is running
    checked,   \* publishers between transport_state_ready and the k_msgq_put
    acks,      \* messages whose PUBACK the broker still owes
    ppc,       \* where P stands in the callback of a PUBACK
    acked,     \* the message of that PUBACK, 0 for none
    disturbed, \* history: a PUBACK was stray, or T ran in the midst of it
    lostUnsent \* history: a message left the queue on behalf of another one

session == <<fsm, outages>>
contents == <<queue, next>>
callback == <<ppc, acked>>
history == <<disturbed, lostUnsent>>
vars == <<session, contents, last, sending, timer, checked, acks, callback,
          history>>

Message == [id : Nat \ {0}, qos : {0, 1}]
NoMessage == [id |-> 0, qos |-> 0]

ContentsOK ==
    /\ queue \in Seq(Message)
    /\ Len(queue) <= Capacity
    /\ next \in Nat \ {0}
    /\ last \in Nat
    /\ sending \in Message \cup {NoMessage}
    /\ acks \subseteq Nat
    /\ acked \in Nat
    /\ outages \in 0..MaxOutages

ControlOK ==
    /\ fsm \in {"NetDown", "Connecting", "Publishing"}
    /\ ppc \in {"idle", "acked", "stopped"}
    /\ checked \subseteq Publishers
    /\ timer \in BOOLEAN
    /\ disturbed \in BOOLEAN
    /\ lostUnsent \in BOOLEAN

TypeOK == ContentsOK /\ ControlOK

-----------------------------------------------------------------------------
(* Publishers.                                                             *)

\* transport_publish is only accepted while the FSM publishes.
CheckReady(p) ==
    /\ fsm = "Publishing" /\ p \notin checked
    /\ checked' = checked \cup {p}
    /\ UNCHANGED <<session, contents, last, sending, timer, acks, callback,
                   history>>

\* Mutation: the queue is not bounded.
AddUnbounded(p) ==
    /\ p \in checked /\ checked' = checked \ {p}
    /\ next <= MaxMessages
    /\ \E q \in {0, 1} : queue' = Append(queue, [id |-> next, qos |-> q])
    /\ next' = next + 1
    /\ UNCHANGED <<session, last, sending, timer, acks, callback, history>>

\* transport_queue_add, which a change of the FSM's state may precede. A QoS
\* other than 0 is sent as 1.
Add(p) ==
    /\ p \in checked /\ checked' = checked \ {p}
    /\ next <= MaxMessages /\ Len(queue) < Capacity
    /\ \E q \in {0, 1} : queue' = Append(queue, [id |-> next, qos |-> q])
    /\ next' = next + 1
    /\ UNCHANGED <<session, last, sending, timer, acks, callback, history>>

\* The queue is full, or the heap is.
AddFails(p) ==
    /\ p \in checked /\ checked' = checked \ {p}
    /\ UNCHANGED <<session, contents, last, sending, timer, acks, callback,
                   history>>

-----------------------------------------------------------------------------

\* transport_queue_remove takes the head, whoever it is called for; an empty
\* queue is an error nobody looks at.
RemoveFor(id) ==
    /\ queue' = IF queue = <<>> THEN <<>> ELSE Tail(queue)
    /\ lostUnsent' = (lostUnsent \/ (queue # <<>> /\ Head(queue).id > id))
    /\ UNCHANGED next

-----------------------------------------------------------------------------
(* T: service_transport_msg_queue.                                         *)

\* Mutation: a message is sent without looking at the timer.
ServeUntimed ==
    /\ fsm = "Publishing" /\ sending = NoMessage
    /\ queue # <<>>
    /\ sending' = Head(queue) /\ last' = Head(queue).id
    /\ disturbed' = (disturbed \/ ppc = "stopped")
    /\ UNCHANGED <<session, contents, timer, checked, acks, callback, lostUnsent>>

\* The head is peeked at and handed to mqtt_publish.
Serve ==
    /\ fsm = "Publishing" /\ sending = NoMessage
    /\ queue # <<>> /\ ~timer
    /\ sending' = Head(queue) /\ last' = Head(queue).id
    /\ disturbed' = (disturbed \/ ppc = "stopped")
    /\ UNCHANGED <<session, contents, timer, checked, acks, callback, lostUnsent>>

\* mqtt_publish fails: the message is given up.
ServeFails ==
    /\ sending # NoMessage /\ sending' = NoMessage
    /\ RemoveFor(sending.id)
    /\ UNCHANGED <<session, last, timer, checked, acks, callback, disturbed>>

\* Mutation: a message of QoS 0 stays at the head.
Serve0Keeps ==
    /\ sending # NoMessage /\ sending.qos = 0 /\ sending' = NoMessage
    /\ UNCHANGED <<session, contents, last, timer, checked, acks, callback,
                   history>>

Serve0Done ==
    /\ sending # NoMessage /\ sending.qos = 0 /\ sending' = NoMessage
    /\ RemoveFor(sending.id)
    /\ UNCHANGED <<session, last, timer, checked, acks, callback, disturbed>>

\* A message of QoS 1 stays at the head until its PUBACK or the timer.
Serve1Done ==
    /\ sending # NoMessage /\ sending.qos = 1 /\ sending' = NoMessage
    /\ timer' = TRUE
    /\ acks' = acks \cup {sending.id}
    /\ UNCHANGED <<session, contents, last, checked, callback, history>>

-----------------------------------------------------------------------------
(* P: on_mqtt_puback, and the timer.                                       *)

\* mqtt_input needs the mutex of the client that mqtt_publish holds; the
\* callback runs without it.
PubAck(id) ==
    /\ ppc = "idle" /\ sending = NoMessage
    /\ id \in acks /\ acks' = acks \ {id}
    /\ ppc' = "acked" /\ acked' = id
    /\ UNCHANGED <<session, contents, last, sending, timer, checked, history>>

\* The broker never acknowledges, or the answer is lost with the connection.
PubAckLost(id) ==
    /\ id \in acks /\ acks' = acks \ {id}
    /\ UNCHANGED <<session, contents, last, sending, timer, checked, callback,
                   history>>

\* transport_fsm_msg_published: first the timer is stopped ...
PubAckStop ==
    /\ ppc = "acked" /\ ppc' = "stopped"
    /\ timer' = FALSE
    /\ disturbed' = (disturbed \/ ~timer \/ acked # last)
    /\ UNCHANGED <<session, contents, last, sending, checked, acks, acked,
                   lostUnsent>>

\* ... then the head of the queue is removed; msg_id is not looked at.
PubAckRemove ==
    /\ ppc = "stopped" /\ ppc' = "idle" /\ acked' = 0
    /\ RemoveFor(acked)
    /\ UNCHANGED <<session, last, sending, timer, checked, acks, disturbed>>

\* Mutation: the expired timer gives up nothing.
TimerExpiredKeeps ==
    /\ timer /\ timer' = FALSE
    /\ UNCHANGED <<session, contents, last, sending, checked, acks, callback,
                   history>>

\* transport_fsm_timer_expired: 10 s have passed without a PUBACK.
TimerExpired ==
    /\ timer /\ timer' = FALSE
    /\ RemoveFor(last)
    /\ UNCHANGED <<session, last, sending, checked, acks, callback, disturbed>>

-----------------------------------------------------------------------------
(* T: state changes of the FSM. A connection that ends takes the PUBACKs   *)
(* it owes along; the FSM also leaves PUBLISHING with the connection open. *)

Move(state) ==
    /\ sending = NoMessage
    /\ fsm' = state
    /\ disturbed' = (disturbed \/ ppc = "stopped")
    /\ UNCHANGED <<next, last, sending, checked, callback, lostUnsent>>

Outage == outages < MaxOutages /\ outages' = outages + 1

\* NETWORK_DISCONNECTED stops the timer and keeps the queue.
GoDown ==
    /\ Outage
    /\ Move("NetDown")
    /\ timer' = FALSE
    /\ acks' = {}
    /\ UNCHANGED queue

\* Mutation: the queue is not cleared, as in NETWORK_DISCONNECTED.
EnterConnectingKeeps ==
    /\ Move("Connecting")
    /\ timer' = FALSE
    /\ acks' \in {acks, {}}
    /\ UNCHANGED queue

\* Mutation: neither the exit nor the entry function stops the timer.
EnterConnectingTimed ==
    /\ Move("Connecting")
    /\ queue' = <<>>
    /\ acks' \in {acks, {}}
    /\ UNCHANGED timer

\* CONNECTING_TO_BROKER clears the queue and stops the timer.
EnterConnecting ==
    /\ Move("Connecting")
    /\ queue' = <<>>
    /\ timer' = FALSE
    /\ acks' \in {acks, {}}

Reconnect == fsm # "NetDown" /\ Outage /\ EnterConnecting

ComeUp == fsm = "NetDown" /\ EnterConnecting /\ UNCHANGED outages

StartPublishing ==
    /\ fsm = "Connecting"
    /\ Move("Publishing")
    /\ UNCHANGED <<outages, queue, timer, acks>>

-----------------------------------------------------------------------------

Init ==
    /\ fsm = "NetDown" /\ outages = 0
    /\ queue = <<>> /\ next = 1 /\ last = 0
    /\ sending = NoMessage /\ timer = FALSE
    /\ checked = {} /\ acks = {}
    /\ ppc = "idle" /\ acked = 0
    /\ disturbed = FALSE /\ lostUnsent = FALSE

Publish == \E p \in Publishers : CheckReady(p) \/ Add(p) \/ AddFails(p)
ServeDone == ServeFails \/ Serve0Done \/ Serve1Done
Callback == PubAckStop \/ PubAckRemove
Answer == \E id \in acks : PubAck(id) \/ PubAckLost(id)
Recover == ComeUp \/ StartPublishing

Next == Publish \/ Serve \/ ServeDone \/ Answer \/ Callback \/ TimerExpired
        \/ GoDown \/ Reconnect \/ Recover

Spec == Init /\ [][Next]_vars

\* T serves the queue in every run it makes, an expired timer interrupts, and a
\* callback that has begun ends. The FSM leaves a state that keeps messages
\* without serving them: the network and the broker come back.
Fairness ==
    /\ WF_vars(Serve) /\ WF_vars(ServeDone)
    /\ WF_vars(Callback) /\ WF_vars(TimerExpired)
    /\ WF_vars(Recover)

FairSpec == Spec /\ Fairness

-----------------------------------------------------------------------------
(* Properties.                                                             *)

\* Until a PUBACK is late or is interrupted, the timeout, the answers and the
\* state changes (transport_fsm.c 488-541) only ever remove the message they
\* are about: no message leaves the queue because of another one.
NoLossUndisturbed == ~disturbed => ~lostUnsent

\* The message inside mqtt_publish is still the head of the queue, so its
\* topic and payload (pointers into the heap, transport_queue.c 50-53) have not
\* been freed under T.
HeldWhileSent ==
    ~disturbed /\ sending # NoMessage =>
        queue # <<>> /\ Head(queue) = sending

\* The timer runs for the message at the head, and the head of a serving queue
\* that was handed over has its timer or its PUBACK: it is neither sent again
\* nor forgotten.
TimerGuardsHead ==
    ~disturbed =>
        /\ timer => queue # <<>> /\ Head(queue).id = last
        /\ fsm = "Publishing" /\ sending = NoMessage /\ queue # <<>>
           /\ Head(queue).id = last
             => timer \/ ppc = "stopped"

Fifo == INSTANCE LossyFifo WITH pending <- queue, inHand <- sending

\* However publishers, T, P and the timer interleave, the queue is the lossy
\* FIFO: order is kept and a message of QoS 0 is handed over at most once.
RefinesFifo == Fifo!Spec

\* No message stays in the queue for ever (the head is always answered, timed
\* out, or dropped when the FSM reconnects).
Drained ==
    \A id \in 1..MaxMessages :
        (\E i \in DOMAIN queue : queue[i].id = id)
            ~> ~(\E i \in DOMAIN queue : queue[i].id = id)

\* "callback when a qos 1 message is published" (transport_fsm.c 518): the
\* message that a PUBACK removes is one that has been published.
PubAckRemovesPublished ==
    [][ppc = "stopped" /\ ppc' = "idle" /\ queue # <<>> => Head(queue).id <= last]_vars
=============================================================================
