# Verification of the Wi-Fi / ESB adaptive network

The repository is a testbed for a clustered wireless network. A *central server*
(Python) publishes a trigger over MQTT; a *cluster head* (nRF5340 with a Wi-Fi
companion) hands it to its network core, which broadcasts it over Enhanced
ShockBurst (ESB); the *nodes* of the cluster switch their radio from receiver
(PRX) to transmitter (PTX), answer one packet each, and go back to listening;
the head forwards each answer over MQTT at once, and the server computes the
round-trip time. Heads and nodes share the application-core firmware
(Wi-Fi, MQTT, firmware update, telemetry): `transport/` is the same, byte for
byte, in both.

Paths below: `H` is `src/cluster_head_multi_image_fota`, `N` is
`src/cluster_node_multi_image_fota/net_ipc/src/main.c`.

## Inventory

| part | state | operations | talks to | what is hard |
|---|---|---|---|---|
| transport FSM (`H/src/transport/transport_fsm.c`) | the SMF state, one-event mailboxes `network_event` and `mqtt_event`, work items `connect_work`, `subscribe_work` | entry, run and exit functions every 50 ms; the two work handlers | MQTT helper, queue, event manager | mailboxes written by two other threads without a lock; a work handler that sleeps and reschedules itself |
| MQTT helper (`mqtt_helper_heliogen.c`) | `mqtt_state`, `connection_poll_sem`, the socket | connect, disconnect, subscribe, poll loop, MQTT events | MQTT library, callbacks into the FSM | check-then-act on `mqtt_state`; callbacks of a lower-priority thread; a table of legal transitions that asserts |
| Wi-Fi listener (`transport_event_handler.c`) | none | stores Wi-Fi status events as network events | `wifi_thread.c` | events at any time |
| outbound queue (`transport.c`, `transport_queue.c`, `transport_timer.c`) | `transport_msgq` (50), the publish timer | publish, serve, PUBACK, timeout, clear | FSM, all publishers | four contexts touch the head; message ids are ignored |
| node radio (`N`) | three atomic flags, `tx_retried`, attempt counters, ESB role | RX / TX events, role switches, retry, ring selection | head's radio, application core (battery, node id) | interrupt against main loop; broadcasts that overlap |
| head radio bridge (`H/net_ipc/src/main.c`) | RX queue of 4, ESB role | broadcast a trigger, collect answers, forward them by IPC | nodes, head application core | queue overflow, answers crossing a new trigger |
| head command bridge (`H/src/main.c`, `rtt_mqtt.c`) | `current_res_topic`, `ipc_rx_sem`, `latest_rx_msg` | RTT command, send and wait 4 s, forward answers | MQTT, IPC | stale answers, a poll thread that blocks |
| Wi-Fi thread (`wifi_thread.c`) | connection flags, reconnect timing | connect, disconnect, shut down | supplicant, event manager | results out of order |
| manager (`threads/manager/`) | time stamps of threads and connections | thread and connectivity monitors | every thread | clock widths, restart against retry |
| firmware update (`http_update.c`) | `download_in_progress`, `ota_target`, flash slots | start, stop, finish, install on either core | MQTT command, downloader | a new command against a running download; reset between two flash steps |
| central server (`central_server.py`) | the running test, last trigger, log capture | RTT loop, MQTT callbacks | MQTT | two threads on globals; late answers |
| crash records (`H/src/sys/`) | retained RAM, its checksum, `assert.json`, `fatal.json`, `watchdog.json` | crash handlers, save at start, report | every crash, the system information | resets that cut the saving short |
| publishers, JSON, storage, power, LEDs, BSP, shell | | | | leaf code |

What makes each part correct: the session recovers from every loss and never
loses the news of one; the queue keeps order, loses no message on behalf of
another and drains; a node gives each broadcast one whole answer and listens
again; the head forwards every answer it has room for, to the right topic; a
network-core image never boots on the application core; the manager restarts a
device that hangs or stays offline and leaves one alone that is merely slow; the
server counts an answer for the trigger that caused it; a crash is reported.

## Modules

    MqttSession        the session: FSM, helper, Wi-Fi listener      MqttSession_*.cfg
    MqttSessionProofs  theorems about it
    PublishQueue       the outbound queue                            PublishQueue*.cfg
    LossyFifo          what the queue promises (abstract)
    PublishQueueProofs theorems, and the refinement of LossyFifo
    NodeRadio          the radio of a node
    NodeRing           NodeRadio with the node id, the ring, the
                       answer and the PTX parameters                 NodeRing.cfg
    NodeProofs         theorems about both, and the refinement of
                       NodeRadio by NodeRing
    HeadBridge         a head between MQTT and the radio             HeadBridge.cfg
    AnswerChannel      what the head promises about answers (abstract)
    HeadBridgeProofs   theorems, and the refinement of AnswerChannel
    HttpUpdate         the firmware update, down to the bootloader   HttpUpdate.cfg
    HttpUpdateProofs   theorems about it
    WifiLink           the Wi-Fi thread and its driver
    Supervisor         the manager over WifiLink
    DesyncClock        Supervisor with a clock for a lost report     DesyncClock.cfg
    SupervisorProofs   theorems about both
    RttServer          the RTT test of the central server            RttServer.cfg
    RttServerProofs    theorems about it
    CrashLog           what becomes of a crash record                CrashLog.cfg
    CrashLogProofs     a theorem about it

The modules have few constants, so each cfg instantiates its module directly.

### MqttSession

Four contexts share the state: N, the event manager, which stores Wi-Fi events;
W, the transport work queue, of highest application priority; T, the transport
thread, which runs the FSM; P, the poll thread, of lowest priority. The
application core has one CPU, so a step of T is interrupted by N or W anywhere
and by P only where T sleeps or blocks in the network stack (`PollRuns`).

A run of the FSM is several actions: `ReadNetwork` (the `switch` on
`network_event`, with the entry and exit functions of the state it changes to),
`DisconnectVerify`, `DisconnectBegin` and `DisconnectEnd` (`mqtt_helper_disconnect`, which
looks at its state, changes it, and blocks), `ReadMqtt` (the reset of `network_event` and the `switch` on
`mqtt_event`), and `ClearMqtt` or `NetDownReturn` (the resets at the end).
`handler` is the state whose run function T executes: SMF changes the state at
once while the old run function goes on. W's `connect_work_fn` is `ConnectStart`,
a sleep of 10 s, then one of `ConnectTransport`, `ResolveFails`,
`ConnectRefused`, and `TransportUp` or `TransportFails`; each way ends with
`ConnectReturn`, which schedules the work again. P's `mqtt_evt_handler` sets the
helper's state (`Notify`) and then stores the event (`PollCallback`; a refused CONNACK
is followed by a DISCONNECT, so two events). A move that
the helper's table forbids sets `crashed`, and `Reboot` starts over.

Time is one predicate, `SecondsPass`: the delays of work items (5 s, 30 s) outlast
a callback and the FSM's 50 ms. Four constants say what may happen in addition:

  * `SlowAnswers`: a CONNACK may outlast the 30 s + 10 s of the retry;
  * `NetPreempts`: a Wi-Fi event may arrive inside a run of the FSM;
  * `PollMayFail`: the poll loop may end without an abort (`poll()` or the
    keepalive ping fails);
  * `SubscribeMayFail`: `mqtt_subscribe` may fail on a live session.

`MaxFaults` bounds losses, refusals, failures and drops in a behaviour.

### PublishQueue and LossyFifo

Publishers check the state (`CheckReady`) and add later (`Add`): the FSM may
change state in between. T peeks at the head and enters `mqtt_publish` (`Serve`),
which ends in `ServeFails`, `Serve0Done` or `Serve1Done`; P runs `on_mqtt_puback`
as `PubAck`, `PubAckStop`, `PubAckRemove`, and T may run between the last two; the
timer expires at any time. Messages are numbered in the order of acceptance, so
that a removed message can be told from the one the removal was for. The FSM is
reduced to what the queue sees of it: NETWORK_DISCONNECTED keeps the queue,
CONNECTING_TO_BROKER clears it, PUBLISHING serves it.

`LossyFifo` is the promise: order, capacity, a message of QoS 0 handed over at most
once; no promise that a message is handed over. `RefinesFifo` is the refinement
(`pending <- queue`).

`disturbed` is a history variable: a PUBACK came for another message than the one
handed over last, or without a timer running, or T ran inside its callback. The
properties about single messages hold until then, and `PubAckRemovesPublished`
shows what happens after.

### NodeRadio

`Interrupt` is `event_handler`, one action per event and branch; `MainLoop` is the
loop of `main`, which takes the flags `do_switch_to_ptx`, `do_retry_ptx`,
`do_switch_to_prx` in this order, one action to take a flag and one to switch the
role, so that events fall in between. The packet's contents and its parameters are left to `NodeRing`; the attempt
counters keep their eight bits.
History variables count the broadcasts heard, the packets written and the
transmissions since the last broadcast; `overlap` says that a broadcast was heard
while an earlier one was still being dealt with. Then a new cycle may start with
`tx_retried` set by the old one, although the comment at `N`:82 has it "for the current
PTX transmission", and gets no retry: the properties are about broadcasts that do
not overlap.

### NodeRing

`NodeRing` EXTENDS `NodeRadio` and gives each of its steps what it does to the data.
The start of `main` is `Bind` (or giving up after 5 s), `RecvNodeId`, which the
application core sends once and at any time, and `Start`, which looks the id up
once, whether it has come or not, and may fail. A packet is reduced to what a node sees of it:
whether it is a broadcast, the nibble at its own index (or `Short`), and the first legacy
indicator. `RingOf` takes the own byte if the node is in the table and the packet long
enough, else the indicator, and keeps the ring when that names none; packets that are no
broadcast select a ring too (`RxOther`), but only
while the radio listens. The answer is prepared in the interrupt; count and power
are backed off there by the ring of the moment, the delay later by the loop (it may not
draw random numbers in an interrupt), all three reset when a cycle starts. `air` is the
packet written last with its parameters. The random part of the delays, the battery
request over IPC and the RSSI are left out.

### HeadBridge and AnswerChannel

Four contexts on two cores. On the application core the poll thread runs the RTT
command (`TakeCommand`, `SetTopic`, `Drain`, `Send` or `SendFails`, `Signalled` or
`TimedOut`), and the thread of the IPC backend runs `RecvCb`, which publishes an answer
to whichever topic is current and gives `ipc_rx_sem`. On the network core `EpRecv`
stops reception, drops the message queue and writes the trigger; the radio interrupt
is `TxDone`, `RxEvent`, `RxEventEmpty`; the work handler is `WorkStart` to `WorkEnd`,
with its own step between the last empty read and its return, because a work item
that is submitted in between must run again. `recv_cb` is one action since it holds
`res_topic_sem` while it publishes, `ep_recv` since it outranks the work queue.

An answer carries its number and the trigger it answers, which the code does not
send along; they only serve the properties. `Hear` lets a node answer any trigger that
was ever written, as late as it likes, and two packets may share one event, in which
case one stays in the radio's FIFO until the next event, as in the code.

`AnswerChannel` is the promise: answers leave in the order they came in, each once
at most; any run of them may be lost on the way. `RefinesChannel` maps its queue to
`InFlight`, the concatenation of the IPC, the answer in the handler's hand, RX_MSGQ and
the FIFO.

`crossed` is a history variable: an answer was heard to another trigger than the
current command's, or a command was taken with an answer still inside the head. The
code does not prevent it: the comment at rtt_mqtt.c:120 counts on commands 5 s
apart, the central server's default interval is 500 ms (central_server.py:573).
`WakesForAnswer` and `OwnTopic` hold until then; the others always.

### HttpUpdate

Three threads: the poll thread decodes an OTA command into static buffers (`Decode`)
and submits an event that points to them (`Submit`); the work queue handles it in
stretches between the places where it blocks (`wpc`), target first, then the cancel of
the running download, a sleep of 1 s, and the start; the download thread (`dpc`)
loads, marks the slot for a trial swap and installs by `otaTarget`. A network-core image
is sent to the other core and must then leave the slot: the update may fail in five ways, and a reset may
fall between any two steps. `Restart` lets MCUboot
swap what is marked, and `Confirm` is main's confirmation.
External and assumed: the library delivers CANCELLED within the 1 s sleep and refuses a
start unless it is idle; a file whose name is neither core's holds an application
image; images in `Big` exceed the RPMSG buffer. The work queue is cooperative. The
shell's direct call of `http_update_start` is left out, and with it that function's own
stop (312-316), which a command never reaches.

`fault` names what may leave an image where it should not be: "target", a download that
ended under the target of a later command (413 sets it before 416 cancels); "flash", an
erase that failed; "reset", a reset in the midst of an update. The properties hold without
them and say which of them each failure needs.

### WifiLink, Supervisor and DesyncClock

`WifiLink` is the loop of the Wi-Fi thread with each of its sleeps, and the driver's
callbacks. `connected` and `result` share a byte that the thread clears without a lock, so
a report may be lost (`DesyncHeals` says it does not stay lost). The driver refuses a
request while a link is up, and reports DISCONNECTED when a pending link or one that is up is
torn down. If `net_if_down` fails (`InterfaceStays`), the thread takes the link for down all the same;
that the disconnection asked for before it is accepted and ends the link some day is assumed. Power events (WIFI_TURN_OFF and so on) are never submitted by any code, so
their handler, `is_wifi_shutdown` and TWT are left out.

`Supervisor` puts the manager over it: `FeedWatchdog` begins a round, `CheckThreads` compares
the age of the check-in with what was promised, `CheckNetwork` the ages of the outages with their
timeouts, `Alarm` is the countdown that ends in an assertion (`Assert`), `Bite` the watchdog. `Tick` moves the
time by one for every sleep and age; a thread that is not stuck is late by at most `Late`. In the
code: Poll 3 s, Attempt 30 s, Settle 60 s, Retry 3 s, LongSleep 60 s, Rest 10 s, MaxFails 10,
Tolerance 5 s, Countdown 4 s, Feed 0.1 s, both timeouts 5 min, Watchdog 10 s. Every check-in is
reached with any of these values; the assumptions are two inequalities, and the code's values leave
a lateness of 1 s. `wrapped` is a 32-bit uptime that has wrapped: from then on
every thread counts as stalled. `transport_disconnect_ts` is not reset when Wi-Fi returns
(manager_connectivity_monitor.c:58), as modelled; nothing says it should be.

`DesyncClock` EXTENDS `Supervisor` with one history variable, `unaware`: the time for which the link has
been up without the thread knowing of it. No step depends on it. `HealsInTime` bounds it by
`RetriesLast`, `MaxFails` rounds of a refused attempt (`Poll + Retry + 2 Late`: 80 s with the code's
values and a lateness of 1 s), and by the manager's and the watchdog's times in addition if the thread
hangs meanwhile. TLC reaches the first bound; the second is only an upper bound. The clock stops at `ClockEnd`, past both.

### RttServer

Four kinds of threads over module globals without a lock: the user interface, a loop per
test, the MQTT client, the worker. A step is what a thread does between two accesses that
another thread may fall between; the assignments of a new trigger (598-600) are one step (`Send`),
its publication another (`Publish`), in which a client that `stop_CS` drops between check and use (454, 458)
ends the loop. Answers are numbered (`no`), so each answer of each node has a row of its own; they may come
while `stop_CS` still waits for the worker (`ClientUp`). `Exit` is the None that `stop_CS` queues; its join of 1 s is taken
to be long enough for an idle worker. All tests have the same interval; the capture starts off. The
TCP server, the discovery of devices and the timeout monitor, which only logs, are left out.

`fault` names what disturbs: "test" (a second loop, a stop, an answer in the interval of a later trigger, a
worker that lags behind the loop), "capture" (changed under a test), "client" (dropped in the midst of a
publication), "left" (a None left behind). They are real: stopped and started within an interval, two loops run (594); a busy worker that
ends by the flag leaves the None (546) to its successor, which ends by it (405); a capture closed
between 636 and 637 ends the loop's thread with the test active; a worker that lags writes
the number of a later trigger (326). The properties hold until then, and say that nothing else breaks them;
they do not judge what follows. History is kept until then only
(`Kept`, which drops it), and fewer answers come after (`MaxAfter`), which keeps the state space small.

### CrashLog

The handlers of assertions, fatal errors and the task watchdog each leave a record in retained RAM
and restart; main saves what valid retained RAM holds (`SaveRemove`, `SaveWrite`, per file) and
`sys_pub_init` reads back what the system information reports. A reset (RAM kept) or a loss of
power (RAM arbitrary, checksum wrong) may come between any two steps. `k_sys_fatal_error_handler`
overwrites its record with an uninitialised buffer: empty, no ASCII, or some string.
Also real, and promised otherwise nowhere: retained RAM is not erased after the save, so the records
are saved again at each start, and an assertion before `retained_ram_init` gives whatever RAM holds after
power-up a valid checksum.

## Runs

| run | bounds | states | what it shows |
|---|---|---|---|
| session_all | 2 faults, all four constants TRUE | 38 153 | types, `SubscribeWorkInv` and `KeepsTrying` survive anything |
| session_calm | 3 faults, all four FALSE, fair | 4 544 | no session lost unnoticed, no left-over attempt, no assertion, and the FSM gets to publish and stays |
| session_assert | 1 fault, slow answers | violation | the `__ASSERT` of `mqtt_state_set` fires |
| session_ip_missed | 1 fault, Wi-Fi events inside a run, fair | violation | the IP event is wiped, the FSM stays disconnected |
| queue | 2 publishers, capacity 2, 4 messages, 2 outages, fair | 47 692 | the queue implements the FIFO, loses nothing undisturbed, drains |
| queue_puback | 1 publisher, 2 messages, 1 outage | violation | a late PUBACK removes a message never published |
| node | 3 broadcasts, 2 radio failures, at most 2 attempts per packet, nibbles 0 and 2, fair | 1 339 825 | whole, counted answers with the right byte and parameters, listening again |
| head | 2 commands, 3 answers, FIFO and message queue of 2, fair | 21 574 | answers in order and once, none forgotten in the queue or missed by the wait |
| update | 3 commands, 2 resets, one image too big | 255 397 | the last command wins, no network-core image boots on the application core |
| supervision | sleeps of 1 to 3, timeouts of 2 and 5, any number of losses, hangs and restarts, fair | 1 366 083 | no false alarm, every stall and outage caught in time, lost reports heal, and within `RetriesLast` |
| rtt | 2 tests of 2 triggers, 2 answers (1 after a fault), 2 toggles of the capture, 1 stop of the server | 10 171 602 | rows are true and threads live until disturbed |
| crash_log | 2 crashes | violation | a fatal error is not reported |

Why the bounds are enough. Session: the shortest behaviours that break a mutated
model need one fault and a recovery; two and three allow a fault during the
recovery from another. Queue: a capacity of two has a head, a successor and a
full queue; four messages wrap it; two publishers race for the last place; two
outages allow one in the recovery from the other. Node: two broadcasts overlap,
a third comes to rest after them; two failures put `enter_ptx` and the `enter_prx`
that follows it out; nibble 0 names no ring, so that the ring kept, the own one and the
legacy one differ. Head: two commands cross, three answers overflow either queue
of two. Update: a command replaces a download, a third the second; the second reset falls in
the recovery from the first. Supervision: the values keep the order of the code's
sleeps and let each timeout expire within a few rounds; with Late = 0 in the listed run
(Late = 1 satisfies the assumptions only with a larger tolerance and watchdog, and multiplies the
states); the theorems hold for all. Rtt: two tests overlap, two answers come
to one trigger or to two; a capture is closed and opened again under them. Deadlock is
checked in the runs of the session and of the queue; the other systems really stop: `main` of a
node returns when `enter_prx` fails, a head rests when no command comes, and
commands, tests and hangs come to an end.

Each property of a passing run has a mutation of the model, written before the
definition it replaces (comment "Mutation: ..."), that violates it.

### Fairness

*Session*: T is weakly fair (it runs every 50 ms). W's fault-free steps, P and the
link are strongly fair: each is interrupted again and again by the others but
gets the CPU, or the answer, in the end. Faults are never fair; a reboot happens.
*Queue*: T's serving, the end of `mqtt_publish`, the callback and the timer are
weakly fair, and the FSM does not stay for ever in a state that keeps messages
without serving them, which is what `Recovers` says of `MqttSession`. The
broker's PUBACK is not fair: `Drained` holds without it, by the timer.
*Node*: the main loop is weakly fair, and a radio that transmits reports how that
ended (ESB's retransmission count is finite).
*Head*: the work handler and `recv_cb` are weakly fair, each alone in its thread. The
radio, the nodes and the commands are not.
*Supervisor*: the Wi-Fi thread and the manager are weakly fair (a thread that hangs has no
step), and time goes on. The driver owes nothing: no result, address or loss need come.
`HttpUpdate`, `RttServer` and `CrashLog` have no liveness property and no fairness.

## Proofs

All theorems hold for every value of the constants, from the named assumptions of
the modules only (`MqttSessionAssumption`: a bound in `Nat` and Boolean switches;
`PublishQueueAssumption`: a capacity of at least one; `NodeRadioAssumption`;
`NodeRingAssumption`: nibbles up to 3; `HeadBridgeAssumption`: queues of at least one;
`HttpUpdateAssumption` and `RttServerAssumption`: bounds in `Nat`, a test of at least one
trigger; `WifiLinkAssumption`: sleeps of at least one, a poll no longer than the attempt;
`SupervisorAssumption`: `Poll + 2 Late <= Tolerance`, and `Countdown + 2 Late` and
`Feed + 2 Late` below `Watchdog`).

*Session.* `TypeCorrect`, `SubscribeWork` and `KeepsTryingAlways` need no assumption
on the faults. `KeepsTrying` is inductive as it stands, with the types, because
`connect_work_fn` reschedules itself on every path. `SessionServedAlways` assumes
`~PollMayFail`. `OnlyTheRaceAsserts` assumes `~SlowAnswers`: its invariant
`Attempts` ties where W stands to the helper's state and to the CONNACK that is
owed, so that the connect work never meets CONNECTING. What is left is a disconnect of W between
T's check of CONNECTED and its change to DISCONNECTING. It can happen: an IP event lost inside a run lets a
connect work survive into the session. `AnswersInTimeNoAssert`, `LossNoticed` and
`NoAttemptLeft` assume `~NetPreempts` as well, which excludes it; one invariant, `SessionParts`, ties
the FSM's state to the helper's, to the two mailboxes and to the callback that is
on its way, and is proved thread by thread (`SessionReadNetwork`,
`SessionReadMqtt`, `SessionTransport`, `SessionWorkQueue`, `SessionPoll`,
`SessionNetwork`). It is needed because the loss of a session is announced in
three steps of P, and T can look between any two.
`IpHeardBetweenRuns` bounds the second disagreement below: without Wi-Fi events inside a run of the FSM,
an FSM in NETWORK_DISCONNECTED that has a network finds the event in its mailbox. `NetPreempts` is thus
all that session_ip_missed needs.

*Queue.* `Refinement` rests on `OrderInv`: the numbers in the queue grow and lie
between `last` and `next`, so the head is never one that was handed over before
with QoS 0. `NoLoss`, `Held` and `TimerGuards` come from `CalmInv`: undisturbed, what
is being sent and what the timer runs for is the head. Two theorems are about steps:
`HandedOverInOrder` (nothing older is handed over than before, and nothing twice that has QoS 0 or is
undisturbed) and `PubAckRemovesItsOwn`, which bounds the third disagreement: an undisturbed PUBACK
removes the message that it is about and that was handed over.

*Node.* `NeverStranded` is inductive with the types. `AnswerWhole`, `AnswerGiven` and
`AttemptsCounted` come from `CycleInv`, which says for each stage of an undisturbed
cycle which flag or place in the loop carries it on, and what the counters hold
then; the modular sum of the attempts is `CountModulo`.

*Head.* `NothingForgotten` and `KeepsListening` are inductive with the types. `NoneMissed`,
`WakesRight` and `RoutedRight` come from `IInv`: `AskedInv` (no answer before its trigger
was sent, and none to the command in hand before `Send`), `AnswerInv` (what the topic and
the signal say at each place of the poll thread) and `CalmInv` (undisturbed, every
answer in the head is to the current command); the sets `Sent` and `Carried` stand for
the queues, and `SentKept` and `CarriedKept` say what a step can do to them.
`Refinement` takes every step to one of AnswerChannel: `CutIsLoss` turns each way of
dropping answers (queue full, drain, flush, failed send, no topic) into a loss.
`ForwardedInOrder` is what follows from it: no step forwards an answer that is not newer
than the last.

*Ring.* `RingIsRadio` is the refinement of `NodeRadio`: every step of `NodeRing` is one of its steps or
leaves its variables alone, so its theorems hold here. `AnswerRight` comes from `PayloadRight`
(what the payload holds is the last broadcast's) and `ParamsRight` (what the parameters are at
each stage of an undisturbed cycle), over `CycleInv`. `RingKeepsPromises` carries the theorems
about the radio over to `NodeRing` by the refinement.

*Update.* `TypeCorrect`, and `LastCommand`, `NoMarkedNetImage`, `CoresRight` from an invariant with
`Booting` (no thread runs until the image is confirmed), `HandlerOK` and `Fresh` (what the handler
knows of the download where it stands, and that with no later command it follows the
buffers) and `SlotOK` (what the slot holds while the download thread works on it).

*Supervisor.* `Inductive` conjoins with the types `Paced` (a thread's sleep and the age of its
check-in make up for each other, also across the second sleep of `enter_shutdown_mode`), `Rounds`
(how the manager sleeps and how long ago it fed the watchdog), `StallRounds` and `OutageRounds` (how
old a check-in and an outage may be where the manager stands), `NoFalseStall` and `BeliefsTrue`.
From it follow `NoFalseAlarm`, `StallIsCaught`, `OutageIsCaught`, `WatchdogIsQuiet` and `BeliefsAreTrue`, for
every duration that the assumptions allow, the code's included.
`HealsInTimeAlways` is the safety side of `DesyncHeals`: a lost report is made good not only some day but
before `RetriesLast` is over. Its invariant `HealInv` has `Places` (what is known of the link where the
thread stands, and that a link it does not know of has cost an attempt), `Promises` (what it has
promised there), `Waits` (the time passed and what the attempts to come still cost, `Owed`, stay within
`RetriesLast`), `Overrun` (a thread that hangs ages its check-in) and `Found` (which the manager or
the watchdog finds), over `Inductive`. `ClockIsSupervisor`: the clock changes nothing.

*Server.* `ThreadsKept` says that nothing but the named faults takes a loop or a worker away; it needs `LogOpen` (a loop goes on with an open file), `JoinWaits` and `OneNone` (the
queue holds one None of `stop_CS` at most, and none when the worker has ended by it).
`RowsAreTrue` comes from `RowsInv`: `CaptureHas` (a capture that is on has its file), `Stamped` (stamps
are triggers that were sent) and, undisturbed, `Relay`: there is one loop (`OneLoop`); what it, the
worker and the queue are about is the last trigger, and nothing is under way unless it sleeps (`Together`); while
it sleeps each answer is in the queue, with the worker or has its row (`Answering`, with `AnswerOf` saying which
row an answer becomes); a loop that writes NO
is about a trigger nobody answered (`Unanswered`); every trigger judged has its rows (`Settled`).
`Together` is the heart: the worker writes a number it reads from a global of the loop.

*Crash records.* `AssertIsReported` bounds the fourth disagreement: the report a fatal error does not get
a failed assertion does, for any number of crashes and resets while the power stays. `LogInv` follows
its record from retained RAM (`Held`) through the file (`Saved`) to what is read back (`Told`).

*Only model-checked*: the liveness properties `Recovers`, `Drained`, `ListensAgain`, `Forwarded` and
`DesyncHeals` (fairness and ENABLED are beyond the prover), and the violations.

## What disagrees with the code's own words

1. `mqtt_helper_connect` accepts CONNECTING, the table of `mqtt_state_set` does not
   (session_assert): a slow broker makes the device reboot.
2. "This waits for an IP connection to happen": the event can be wiped unread
   (session_ip_missed).
3. "callback when a qos 1 message is published": it removes whichever message is
   at the head (queue_puback).
4. "save fatal error to retained ram": the record is overwritten at once
   (crash_log).

## Not modelled

`components` of PROJECT.json lists every part with its status. Contents of
messages, topics, JSON, logging, radio timing and the wording of status events are
abstracted. In `MqttSession`, `transport_mqtt_active_set` and `mqtt_helper_deinit` have
no caller. The MQTT library, the network stack, the broker and DHCP are modelled
from how the code uses them (`external` in the map). A stopped main loop is the
end of a behaviour of `NodeRadio`.

Where poll() fails or a SUBSCRIBE cannot be sent, `Recovers` does not hold: the
FSM waits for an answer nobody owes. No line of the code says otherwise, so this
is a hazard of PROJECT.json and not a run. Likewise a connect work that is running is not
stopped when it is cancelled (`NoAttemptInSession` holds all the same), and a node's
second answer to overlapping broadcasts goes without a retry.

The rest of the repository is mostly board support, shell commands, drivers, JSON tables,
publishers of single messages and widgets, whose state is a register, a file or a
formatted string; most of its lines are the same firmware twice, once per
directory, and each part is mapped once.

## Plan

1. `Cluster`: HeadBridge with several nodes (an abstract node that `NodeRadio`
   implements), broadcasts lost and overlapping.
2. `WifiLink` as the link of `MqttSession`, and the session as that of `Supervisor`.
3. `Publishers`: start and stop of the periodic publishers (pubs.c 77-113), where a handler that
   blocks in its publication schedules itself again after it was cancelled.
4. The battery request of a node over IPC, and its age in the answer.
5. Theorems for each as its module is checked.
