------------------------------ MODULE RttServer ------------------------------
(***************************************************************************)
(* The RTT test of the central server (central_server.py): a loop thread   *)
(* sends a trigger per interval and writes a row NO when nobody answered;  *)
(* the thread of the MQTT client stamps and queues what arrives; a worker  *)
(* thread takes it from the queue, counts the answers that are in time and *)
(* writes a row YES for each; the thread of the user interface (gui.py)    *)
(* starts and stops tests, the capture of rows and the server. They share  *)
(* module globals without a lock, and each may run between any two steps   *)
(* of the others.                                                          *)
(*                                                                         *)
(* Time: expired says that the interval since _last_tx_timestamp is over.  *)
(* What arrives is stamped with the trigger that was the last one then.    *)
(* Answers are numbered, so that each has its row whichever node it is of. *)
(***************************************************************************)
EXTENDS Naturals, Sequences

CONSTANTS
    Iterations, \* the triggers of a test
    MaxTests,   \* bound: tests in a run of the model
    MaxAnswers, \* bound: answers that arrive
    MaxAfter,   \* bound: those that arrive once a test was disturbed
    MaxToggles, \* bound: starts and stops of the capture
    MaxStops    \* bound: stops of the server

ASSUME RttServerAssumption ==
    /\ Iterations \in Nat \ {0}
    /\ MaxTests \in Nat /\ MaxAnswers \in Nat /\ MaxAfter \in Nat
    /\ MaxToggles \in Nat /\ MaxStops \in Nat

Test == 1..MaxTests
Trigger == [test : Test, packet : 1..Iterations]
NoTrigger == [test |-> 0, packet |-> 0]

\* A message of the queue: the trigger it answers, its number, the last
\* trigger when it arrived, and whether it then was within the interval. Exit
\* is the None of stop_CS.
Exit == [to |-> NoTrigger, no |-> 0, stamp |-> NoTrigger, inTime |-> FALSE]

VARIABLES
    upc,       \* what the user interface is doing
    rtt,       \* rtt_running of gui.py
    running,   \* _server_running
    active,    \* _rtt_test_active
    packet,    \* _current_packet_num
    responded, \* _responded_in_current_iteration
    last,      \* the trigger of _last_tx_timestamp, NoTrigger for None
    expired,   \* the interval since then is over
    lpc,       \* where the loop of each test stands
    count,     \* i of each loop
    queue,     \* _message_queue
    wpc,       \* where the worker stands
    item,      \* the message it works on, Exit if none
    start,     \* START_CAPTURE
    stop,      \* STOP_CAPTURE
    dir,       \* DIR_CREATED
    log,       \* _log_obj: none, open or closed
    rows,      \* the rows of rtt_results.csv
    answered,  \* history: the answers that came in time
    verdicts,  \* history: those whose interval the loop has judged
    answers,   \* history: answers so far, the number of the last one
    toggles,   \* history: starts and stops of the capture so far
    stops,     \* history: stops of the server so far
    fault      \* history: what disturbed a test: "test" is a second loop, a
               \* stop, an answer to an earlier trigger or a worker that lags,
               \* "client" a trigger under way when stop_CS drops the client

gui == <<upc, rtt, toggles, stops>>
server == <<running, active, packet, responded, last, expired>>
loops == <<lpc, count>>
worker == <<wpc, item>>
capture == <<start, stop, dir, log>>
network == <<answered, answers>>
vars == <<gui, server, loops, queue, worker, capture, rows, network, verdicts,
          fault>>

\* _mqtt_client is not None: stop_CS drops it last.
ClientUp == running \/ upc = "stopping"

Alive(l) == lpc[l] \notin {"none", "over", "dead"}
LoopAlive == \E l \in Test : Alive(l)

\* History is kept until something disturbs a test.
Kept(set, x) == IF fault = {} THEN set \cup {x} ELSE {}

-----------------------------------------------------------------------------
(* The user interface: gui.py and the operations it calls.                 *)

\* toggle_rtt_loop, run_automated_rtt_test: the queue is emptied and a loop
\* thread created, whether or not an earlier one has ended.
StartTest(l) ==
    /\ upc = "idle" /\ running /\ ~rtt /\ rtt' = TRUE
    /\ lpc[l] = "none" /\ \A k \in 1..(l - 1) : lpc[k] # "none"
    /\ lpc' = [lpc EXCEPT ![l] = "new"]
    /\ queue' = <<>>
    /\ fault' = fault \cup (IF LoopAlive THEN {"test"} ELSE {})
                      \cup (IF ~start \/ log # "open" THEN {"capture"} ELSE {})
    /\ UNCHANGED <<upc, toggles, stops, server, count, worker, capture, rows,
                   network, verdicts>>

\* toggle_rtt_loop, stop_automated_rtt_test.
StopTest ==
    /\ upc = "idle" /\ running /\ rtt /\ rtt' = FALSE
    /\ active' = FALSE
    /\ fault' = fault \cup {"test"}
    /\ UNCHANGED <<upc, toggles, stops, running, packet, responded, last,
                   expired, loops, queue, worker, capture, rows, network,
                   verdicts>>

\* update_rtt_progress takes a test that is not active for one that is over.
Progress ==
    /\ upc = "idle" /\ rtt /\ ~active /\ rtt' = FALSE
    /\ UNCHANGED <<upc, toggles, stops, server, loops, queue, worker, capture,
                   rows, network, verdicts, fault>>

\* A change of the capture while a test goes on disturbs it.
Disturbs == fault' = fault \cup (IF LoopAlive \/ wpc \notin {"loop", "get"}
                                 THEN {"capture"} ELSE {})

\* enable_log_capture: the flags ...
EnableFlags ==
    /\ upc = "idle" /\ ~start /\ upc' = "opening"
    /\ toggles < MaxToggles /\ toggles' = toggles + 1
    /\ start' = TRUE /\ stop' = FALSE
    /\ Disturbs
    /\ UNCHANGED <<rtt, stops, server, loops, queue, worker, dir, log, rows,
                   network, verdicts>>

\* ... a file that is still there is closed ...
EnableClose ==
    /\ upc = "opening" /\ log # "none" /\ upc' = "reopening"
    /\ log' = "closed"
    /\ Disturbs
    /\ UNCHANGED <<rtt, toggles, stops, server, loops, queue, worker, start,
                   stop, dir, rows, network, verdicts>>

\* ... and dropped ...
EnableDrop ==
    /\ upc = "reopening" /\ upc' = "renewing"
    /\ log' = "none"
    /\ Disturbs
    /\ UNCHANGED <<rtt, toggles, stops, server, loops, queue, worker, start,
                   stop, dir, rows, network, verdicts>>

\* ... and a new one opened.
EnableOpen ==
    /\ upc = "renewing" \/ (upc = "opening" /\ log = "none")
    /\ upc' = "idle" /\ log' = "open" /\ dir' = TRUE
    /\ Disturbs
    /\ UNCHANGED <<rtt, toggles, stops, server, loops, queue, worker, start,
                   stop, rows, network, verdicts>>

\* disable_log_capture: the flags ...
DisableFlags ==
    /\ upc = "idle" /\ running /\ start /\ upc' = "closing"
    /\ toggles < MaxToggles /\ toggles' = toggles + 1
    /\ start' = FALSE /\ stop' = TRUE /\ dir' = FALSE
    /\ Disturbs
    /\ UNCHANGED <<rtt, stops, server, loops, queue, worker, log, rows,
                   network, verdicts>>

\* ... the file ...
DisableClose ==
    /\ upc = "closing" /\ upc' = "dropping"
    /\ log' = IF log = "none" THEN "none" ELSE "closed"
    /\ Disturbs
    /\ UNCHANGED <<rtt, toggles, stops, server, loops, queue, worker, start,
                   stop, dir, rows, network, verdicts>>

\* ... and the object.
DisableDrop ==
    /\ upc = "dropping" /\ upc' = "idle"
    /\ log' = "none"
    /\ Disturbs
    /\ UNCHANGED <<rtt, toggles, stops, server, loops, queue, worker, start,
                   stop, dir, rows, network, verdicts>>

\* stop_CS, up to the join.
StopServer ==
    /\ upc = "idle" /\ running /\ upc' = "stopping"
    /\ stops < MaxStops /\ stops' = stops + 1
    /\ running' = FALSE
    /\ queue' = Append(queue, Exit)
    /\ fault' = fault \cup {"test"}
    /\ UNCHANGED <<rtt, toggles, active, packet, responded, last, expired,
                   loops, worker, capture, rows, network, verdicts>>

\* The worker has ended within the 1 s of the join.
StopEnd ==
    /\ upc = "stopping" /\ wpc = "dead" /\ upc' = "idle"
    /\ UNCHANGED <<rtt, toggles, stops, server, loops, queue, worker, capture,
                   rows, network, verdicts, fault>>

\* start_CS; the queue is kept.
StartServer ==
    /\ upc = "idle" /\ ~running /\ running' = TRUE
    /\ wpc' = "loop" /\ item' = Exit
    /\ UNCHANGED <<gui, active, packet, responded, last, expired, loops, queue,
                   capture, rows, network, verdicts, fault>>

User ==
    \/ (\E l \in Test : StartTest(l)) \/ StopTest \/ Progress
    \/ EnableFlags \/ EnableClose \/ EnableDrop \/ EnableOpen
    \/ DisableFlags \/ DisableClose \/ DisableDrop
    \/ StopServer \/ StopEnd \/ StartServer

-----------------------------------------------------------------------------
(* The loop thread of test l: _test_loop.                                  *)

Begin(l) ==
    /\ lpc[l] = "new" /\ lpc' = [lpc EXCEPT ![l] = "top"]
    /\ active' = TRUE
    /\ UNCHANGED <<gui, running, packet, responded, last, expired, count, queue,
                   worker, capture, rows, network, verdicts, fault>>

\* The next trigger. Another thread may run between these assignments; what
\* it then reads it could also read before the first or after the last.
Send(l) ==
    /\ lpc[l] = "top" /\ count[l] < Iterations /\ active /\ running
    /\ lpc' = [lpc EXCEPT ![l] = "send"]
    /\ count' = [count EXCEPT ![l] = count[l] + 1]
    /\ packet' = count[l] + 1
    /\ responded' = FALSE
    /\ last' = [test |-> l, packet |-> count[l] + 1]
    /\ expired' = FALSE
    /\ UNCHANGED <<gui, running, active, queue, worker, capture, rows, network,
                   verdicts, fault>>

\* publish_message sends it and the loop sleeps, or without a client only warns;
\* if stop_CS drops the client after the check for it, the thread ends by the
\* exception.
Publish(l) ==
    /\ lpc[l] = "send"
    /\ \/ lpc' = [lpc EXCEPT ![l] = "sleep"] /\ UNCHANGED fault
       \/ /\ ~ClientUp
          /\ lpc' = [lpc EXCEPT ![l] = "dead"]
          /\ fault' = fault \cup {"client"}
    /\ UNCHANGED <<gui, server, count, queue, worker, capture, rows, network,
                   verdicts>>

\* Mutation: the test stays active.
FinishActive(l) ==
    /\ lpc[l] = "top" /\ (count[l] = Iterations \/ ~active \/ ~running)
    /\ lpc' = [lpc EXCEPT ![l] = "over"]
    /\ packet' = 0
    /\ UNCHANGED <<gui, running, active, responded, last, expired, count, queue,
                   worker, capture, rows, network, verdicts, fault>>

\* Every trigger was sent, or the test was stopped.
Finish(l) ==
    /\ lpc[l] = "top" /\ (count[l] = Iterations \/ ~active \/ ~running)
    /\ lpc' = [lpc EXCEPT ![l] = "over"]
    /\ active' = FALSE /\ packet' = 0
    /\ UNCHANGED <<gui, running, responded, last, expired, count, queue, worker,
                   capture, rows, network, verdicts, fault>>

Mine(l) == [test |-> l, packet |-> count[l]]

\* An answer to the last trigger, in time, is not dealt with yet.
InHand(m) == m.stamp = last /\ m.inTime
Lagging ==
    \/ \E i \in DOMAIN queue : InHand(queue[i])
    \/ wpc \notin {"loop", "get", "dead"} /\ InHand(item)

\* The sleep is over; the trigger is judged. The sleep began after
\* _last_tx_timestamp, so the interval since then is over too.
Wake(l) ==
    /\ lpc[l] = "sleep" /\ (last = Mine(l) => expired)
    /\ lpc' = [lpc EXCEPT ![l] = IF responded THEN "top" ELSE "judge"]
    /\ verdicts' = Kept(verdicts, Mine(l))
    /\ fault' = fault \cup (IF Lagging THEN {"test"} ELSE {})
    /\ UNCHANGED <<gui, server, count, queue, worker, capture, rows, network>>

\* The interval since the last trigger is over.
Expire ==
    /\ last # NoTrigger /\ ~expired /\ expired' = TRUE
    /\ UNCHANGED <<gui, running, active, packet, responded, last, loops, queue,
                   worker, capture, rows, network, verdicts, fault>>

\* Nobody has responded: is there a file for the row?
Judge(l) ==
    /\ lpc[l] = "judge"
    /\ lpc' = [lpc EXCEPT ![l] = IF dir /\ ~stop /\ log # "none" THEN "row"
                                                                 ELSE "top"]
    /\ UNCHANGED <<gui, server, count, queue, worker, capture, rows, network,
                   verdicts, fault>>

\* capture_rtt: the row, or an exception, which ends the thread.
WriteNo(l) ==
    /\ lpc[l] = "row"
    /\ \/ /\ log = "open" /\ lpc' = [lpc EXCEPT ![l] = "top"]
          /\ rows' = Kept(rows, [packet |-> packet, of |-> Mine(l), no |-> 0,
                                response |-> "NO"])
       \/ /\ log # "open" /\ lpc' = [lpc EXCEPT ![l] = "dead"]
          /\ UNCHANGED rows
    /\ UNCHANGED <<gui, server, count, queue, worker, capture, network,
                   verdicts, fault>>

Loop(l) ==
    \/ Begin(l) \/ Send(l) \/ Publish(l) \/ Finish(l)
    \/ Wake(l) \/ Judge(l) \/ WriteNo(l)

-----------------------------------------------------------------------------
(* The thread of the MQTT client: _on_message.                             *)

\* An answer to trigger t arrives, as late as it likes and from any node, also
\* while stop_CS waits for the worker; the network and the cluster are external.
Arrive(t) ==
    /\ ClientUp
    /\ t.packet <= count[t.test] /\ (lpc[t.test] = "send" => t # Mine(t.test))
    /\ answers < MaxAnswers /\ (fault # {} => answers < MaxAfter)
    /\ answers' = answers + 1
    /\ queue' = Append(queue, [to |-> t, no |-> answers', stamp |-> last,
                              inTime |-> ~expired])
    /\ answered' = IF t = last /\ ~expired
                   THEN Kept(answered, [to |-> t, no |-> answers'])
                   ELSE answered
    /\ fault' = fault \cup (IF t # last /\ ~expired THEN {"test"} ELSE {})
    /\ UNCHANGED <<gui, server, loops, worker, capture, rows, verdicts>>

-----------------------------------------------------------------------------
(* The worker thread: _message_worker.                                     *)

\* The flag is looked at before each get; a worker that ends by it leaves the
\* None of stop_CS in the queue.
Poll ==
    /\ wpc = "loop"
    /\ \/ running /\ wpc' = "get" /\ UNCHANGED fault
       \/ ~running /\ wpc' = "dead" /\ fault' = fault \cup {"left"}
    /\ UNCHANGED <<gui, server, loops, queue, item, capture, rows, network,
                   verdicts>>

\* The get times out.
GetEmpty ==
    /\ wpc = "get" /\ queue = <<>> /\ wpc' = "loop"
    /\ UNCHANGED <<gui, server, loops, queue, item, capture, rows, network,
                   verdicts, fault>>

\* Mutation: an answer after the interval counts.
TakeLate ==
    /\ wpc = "get" /\ queue # <<>> /\ queue' = Tail(queue)
    /\ LET m == Head(queue) IN
         \/ m = Exit /\ wpc' = "dead" /\ UNCHANGED item
         \/ /\ m # Exit /\ active /\ m.stamp = last
            /\ wpc' = "passed" /\ item' = m
         \/ /\ m # Exit /\ ~(active /\ m.stamp = last)
            /\ wpc' = "loop" /\ UNCHANGED item
    /\ UNCHANGED <<gui, server, loops, capture, rows, network, verdicts, fault>>

\* _maybe_calculate_rtt: a message counts that arrived after the last trigger
\* was sent and within the interval.
Take ==
    /\ wpc = "get" /\ queue # <<>> /\ queue' = Tail(queue)
    /\ LET m == Head(queue) IN
         \/ m = Exit /\ wpc' = "dead" /\ UNCHANGED item
         \/ /\ m # Exit /\ active /\ InHand(m)
            /\ wpc' = "passed" /\ item' = m
         \/ /\ m # Exit /\ ~(active /\ InHand(m))
            /\ wpc' = "loop" /\ UNCHANGED item
    /\ UNCHANGED <<gui, server, loops, capture, rows, network, verdicts, fault>>

Count ==
    /\ wpc = "passed" /\ wpc' = "counted"
    /\ responded' = TRUE
    /\ UNCHANGED <<gui, running, active, packet, last, expired, loops, queue,
                   item, capture, rows, network, verdicts, fault>>

\* _ensure_log_obj: the flags ...
EnsureFlags ==
    /\ wpc = "counted"
    /\ \/ start /\ ~stop /\ wpc' = "ensure" /\ UNCHANGED item
       \/ ~(start /\ ~stop) /\ wpc' = "loop" /\ item' = Exit
    /\ UNCHANGED <<gui, server, loops, queue, capture, rows, network, verdicts,
                   fault>>

\* ... and a file, if there is none.
EnsureFile ==
    /\ wpc = "ensure" /\ wpc' = "row"
    /\ \/ dir /\ log # "none" /\ UNCHANGED <<dir, log>>
       \/ (~dir \/ log = "none") /\ dir' = TRUE /\ log' = "open"
    /\ UNCHANGED <<gui, server, loops, queue, item, start, stop, rows, network,
                   verdicts, fault>>

\* capture_rtt with the packet number of the moment; an exception is logged.
WriteYes ==
    /\ wpc = "row" /\ wpc' = "loop" /\ item' = Exit
    /\ \/ /\ log = "open"
          /\ rows' = Kept(rows, [packet |-> packet, of |-> item.to,
                                no |-> item.no, response |-> "YES"])
       \/ log # "open" /\ UNCHANGED rows
    /\ UNCHANGED <<gui, server, loops, queue, capture, network, verdicts, fault>>

Worker ==
    \/ Poll \/ GetEmpty \/ Take \/ Count
    \/ EnsureFlags \/ EnsureFile \/ WriteYes

-----------------------------------------------------------------------------
\* The server has been started for the first time.
Init ==
    /\ upc = "idle" /\ rtt = FALSE
    /\ running = TRUE /\ active = FALSE /\ packet = 0 /\ responded = FALSE
    /\ last = NoTrigger /\ expired = FALSE
    /\ lpc = [l \in Test |-> "none"] /\ count = [l \in Test |-> 0]
    /\ queue = <<>> /\ wpc = "loop" /\ item = Exit
    /\ start = FALSE /\ stop = FALSE /\ dir = FALSE /\ log = "none"
    /\ rows = {} /\ answered = {} /\ verdicts = {}
    /\ answers = 0 /\ toggles = 0 /\ stops = 0 /\ fault = {}

Next ==
    \/ User
    \/ \E l \in Test : Loop(l)
    \/ Expire
    \/ \E t \in Trigger : Arrive(t)
    \/ Worker

Spec == Init /\ [][Next]_vars

-----------------------------------------------------------------------------
(* Properties.                                                             *)

Row == [packet : 0..Iterations, of : Trigger, no : 0..MaxAnswers,
        response : {"YES", "NO"}]
Message == [to : Trigger, no : 1..MaxAnswers, stamp : Trigger \cup {NoTrigger},
            inTime : BOOLEAN]
           \cup {Exit}

UserTypes ==
    /\ upc \in {"idle", "opening", "reopening", "renewing", "closing", "dropping",
                "stopping"}
    /\ rtt \in BOOLEAN /\ running \in BOOLEAN
    /\ start \in BOOLEAN /\ stop \in BOOLEAN /\ dir \in BOOLEAN
    /\ log \in {"none", "open", "closed"}
    /\ toggles \in 0..MaxToggles /\ stops \in 0..MaxStops

LoopTypes ==
    /\ active \in BOOLEAN /\ packet \in 0..Iterations
    /\ responded \in BOOLEAN
    /\ last \in Trigger \cup {NoTrigger} /\ expired \in BOOLEAN
    /\ lpc \in [Test -> {"none", "new", "top", "send", "sleep", "judge", "row",
                          "over", "dead"}]
    /\ count \in [Test -> 0..Iterations]
    /\ \A l \in Test : lpc[l] \in {"send", "sleep", "judge", "row"} => count[l] > 0

WorkerTypes ==
    /\ queue \in Seq(Message) /\ item \in Message
    /\ wpc \in {"loop", "get", "passed", "counted", "ensure", "row", "dead"}
    /\ wpc \in {"passed", "counted", "ensure", "row"} <=> item # Exit

HistoryTypes ==
    /\ rows \subseteq Row
    /\ answered \subseteq [to : Trigger, no : 1..MaxAnswers]
    /\ verdicts \subseteq Trigger /\ answers \in 0..MaxAnswers
    /\ fault \subseteq {"test", "capture", "client", "left"}

\* The types of the state.
TypeOK == UserTypes /\ LoopTypes /\ WorkerTypes /\ HistoryTypes

\* The rows of rtt_results.csv that are about trigger t.
RowsOf(t) == {r \in rows : r.of = t}

\* The answers to t that came within its interval.
AnswersTo(t) == {a \in answered : a.to = t}

\* The rows t should have: one for each of them, or one that says NO.
RowsDue(t) ==
    IF AnswersTo(t) = {}
    THEN {[packet |-> t.packet, of |-> t, no |-> 0, response |-> "NO"]}
    ELSE {[packet |-> t.packet, of |-> t, no |-> a.no, response |-> "YES"] :
            a \in AnswersTo(t)}

\* A trigger is judged and its row, if any, is written.
Closed(t) ==
    t \in verdicts /\ (Alive(t.test) => lpc[t.test] \in {"top", "send", "sleep"})

\* As long as nothing disturbs it, the test tells the truth: each trigger has
\* a row YES with its own number for every answer within its interval, of
\* whichever node, and the row NO if there was none (central_server.py
\* 284-294, 325, 599, 626). It is disturbed by an answer that comes in the
\* interval of a later trigger, a worker that lags behind the loop, a second
\* loop, a change of the capture and a stop of the server.
RowsTrue ==
    fault = {} =>
        /\ \A r \in rows : r.packet = r.of.packet
        /\ \A t \in verdicts : Closed(t) => RowsOf(t) = RowsDue(t)

\* A test that is active has a loop, unless the capture was changed under it or
\* the client dropped in the midst of publish_message, and the exception has
\* killed the thread (637, 458); and a server that runs has its worker, unless
\* a worker that was busy when the server was stopped left the None for its
\* successor (401, 405, 546).
ThreadsLive ==
    /\ active => LoopAlive \/ {"capture", "client"} \cap fault # {}
    /\ running => wpc # "dead" \/ "left" \in fault
=============================================================================
