-------------------------- MODULE HeadBridgeProofs ---------------------------
(***************************************************************************)
(* Proofs about HeadBridge, for every size of its queues and every bound:  *)
(* type correctness, NoForgotten, Listening, NoAnswerMissed,               *)
(* WakesForAnswer, OwnTopic, that the head refines AnswerChannel, and what *)
(* that promises: answers are published in the order of their reception.   *)
(***************************************************************************)
EXTENDS HeadBridge, SequenceTheorems, TLAPS

-----------------------------------------------------------------------------
(* Sequences of answers.                                                   *)

\* What a non-empty queue of answers has at its ends.
LEMMA TailOfQueue ==
    ASSUME NEW q \in Seq(Message), q # <<>>
    PROVE  /\ Tail(q) \in Seq(Message)
           /\ Len(Tail(q)) = Len(q) - 1
           /\ Len(q) \in Nat \ {0}
           /\ Head(q) = q[1] /\ Head(q) \in Message
           /\ <<Head(q)>> \in Seq(Message) /\ Len(<<Head(q)>>) = 1
           /\ \A i \in 1..Len(Tail(q)) : Tail(q)[i] = q[i + 1]
OBVIOUS

LEMMA AppendToQueue ==
    ASSUME NEW q \in Seq(Message), NEW m \in Message
    PROVE  /\ Append(q, m) \in Seq(Message)
           /\ Len(Append(q, m)) = Len(q) + 1
           /\ \A i \in 1..Len(q) : Append(q, m)[i] = q[i]
           /\ Append(q, m)[Len(q) + 1] = m
OBVIOUS

-----------------------------------------------------------------------------
(* Type correctness.                                                       *)

LEMMA FlagsKept == ASSUME FlagsOK, [Next]_vars PROVE FlagsOK'
<1> USE DEF FlagsOK
<1>1. CASE PollThread
  BY <1>1 DEF PollThread, TakeCommand, SetTopic, Drain, Send, SendFails, Signalled, TimedOut,
              rx, work, history
<1>2. CASE RecvCb
  BY <1>2 DEF RecvCb, rx, work
<1>3. CASE EpRecv
  BY <1>3 DEF EpRecv, rx, work, history
<1>4. CASE Radio
  BY <1>4 DEF Radio, RadioInit, TxDone, RxEvent, RxEventEmpty, Hear, rx, work, history
<1>5. CASE WorkHandler
  BY <1>5 DEF WorkHandler, WorkStart, WorkTake, WorkSend, WorkSendFails, WorkEnd, rx, history
<1>6. CASE UNCHANGED vars
  BY <1>6 DEF vars, rx, work, history
<1> QED
  BY <1>1, <1>2, <1>3, <1>4, <1>5, <1>6 DEF Next

LEMMA ScalarsKept == ASSUME QueuesOK, ScalarsOK, [Next]_vars PROVE ScalarsOK'
<1> USE DEF ScalarsOK
<1>1. CASE TakeCommand
  BY <1>1 DEF TakeCommand, esb, work
<1>2. CASE SetTopic
  BY <1>2 DEF SetTopic, esb, work, history
<1>3. CASE Drain \/ Send \/ SendFails
  BY <1>3 DEF Drain, Send, SendFails, esb, work, history
<1>4. CASE Signalled \/ TimedOut
  BY <1>4 DEF Signalled, TimedOut, esb, work, history
<1>5. CASE RecvCb
  <2>1. Head(toApp).id \in Nat
    BY <1>5, TailOfQueue DEF RecvCb, QueuesOK, Message
  <2>2. forwarded' \in Nat
    BY <1>5, <2>1 DEF RecvCb
  <2> QED
    BY <1>5, <2>2 DEF RecvCb, esb, work
<1>6. CASE EpRecv
  <2>1. Head(toNet) \in Nat
    BY <1>6 DEF EpRecv, QueuesOK
  <2>2. radio' \in {"off", "idle", "tx", "rx"} /\ trigger' \in Nat
    BY <1>6, <2>1 DEF EpRecv
  <2>3. asked' \subseteq Nat
    BY <1>6, <2>1, Zenon DEF EpRecv
  <2>4. UNCHANGED <<ppc, command, topic, sem, wpc, received, forwarded>>
    BY <1>6 DEF EpRecv, app, work, history
  <2> QED
    BY <2>2, <2>3, <2>4
<1>7. CASE RadioInit \/ TxDone
  BY <1>7 DEF RadioInit, TxDone, app, work, history
<1>8. CASE RxEvent \/ RxEventEmpty
  BY <1>8 DEF RxEvent, RxEventEmpty, app, esb, work, history
<1>9. ASSUME NEW t \in asked, Hear(t) PROVE ScalarsOK'
  BY <1>9 DEF Hear, app, esb, work
<1>10. CASE WorkHandler
  BY <1>10 DEF WorkHandler, WorkStart, WorkTake, WorkSend, WorkSendFails, WorkEnd, app, esb, history
<1>11. CASE UNCHANGED vars
  BY <1>11 DEF vars, app, esb, work, history
<1> QED
  BY <1>1, <1>2, <1>3, <1>4, <1>5, <1>6, <1>7, <1>8, <1>9, <1>10, <1>11 DEF Next, PollThread, Radio

LEMMA QueuesKept == ASSUME QueuesOK, ScalarsOK, [Next]_vars PROVE QueuesOK'
<1> USE HeadBridgeAssumption DEF QueuesOK
<1>1. CASE Send
  BY <1>1 DEF Send, rx, work, ScalarsOK
<1>2. CASE TakeCommand \/ SetTopic \/ Drain \/ SendFails \/ Signalled \/ TimedOut
  BY <1>2 DEF TakeCommand, SetTopic, Drain, SendFails, Signalled, TimedOut, ipc, rx, work
<1>3. CASE RecvCb
  BY <1>3, TailOfQueue DEF RecvCb, rx, work
<1>4. CASE EpRecv
  BY <1>4 DEF EpRecv, rx, work
<1>5. ASSUME NEW t \in asked, Hear(t) PROVE QueuesOK'
  <2>1. [id |-> received', trigger |-> t] \in Message
    BY <1>5 DEF Hear, Message, ScalarsOK
  <2> QED
    BY <1>5, <2>1, AppendToQueue DEF Hear, ipc, work
<1>6. CASE TxDone
  BY <1>6 DEF TxDone, ipc, work
<1>7. CASE RadioInit \/ RxEventEmpty
  BY <1>7 DEF RadioInit, RxEventEmpty, ipc, rx, work
<1>8. CASE RxEvent
  <2>1. Head(fifo) \in Message /\ fifo' \in Seq(Message) /\ Len(fifo') = Len(fifo) - 1
        /\ Len(fifo) \in Nat
    BY <1>8, TailOfQueue DEF RxEvent
  <2>2. rxq' \in Seq(Message) /\ Len(rxq') <= QueueSize
    <3>1. CASE UNCHANGED rxq
      BY <3>1
    <3>2. CASE Len(rxq) < QueueSize /\ rxq' = Append(rxq, Head(fifo))
      BY <3>2, <2>1, AppendToQueue
    <3> QED
      BY <1>8, <3>1, <3>2 DEF RxEvent
  <2>3. UNCHANGED <<toNet, toApp, held>>
    BY <1>8 DEF RxEvent, ipc
  <2> QED
    BY <2>1, <2>2, <2>3
<1>9. CASE WorkTake
  BY <1>9, TailOfQueue DEF WorkTake, ipc, rx
<1>10. CASE WorkSend
  <2>1. toApp \o held \in Seq(Message) /\ <<>> \in Seq(Message)
    BY ConcatProperties, EmptySeq
  <2> QED
    BY <1>10, <2>1 DEF WorkSend, rx
<1>11. CASE WorkStart \/ WorkSendFails \/ WorkEnd
  BY <1>11, EmptySeq DEF WorkStart, WorkSendFails, WorkEnd, ipc, rx
<1>12. CASE UNCHANGED vars
  BY <1>12 DEF vars, ipc, rx, work
<1> QED
  BY <1>1, <1>2, <1>3, <1>4, <1>5, <1>6, <1>7, <1>8, <1>9, <1>10, <1>11, <1>12
     DEF Next, PollThread, Radio, WorkHandler

LEMMA InitTypes == Init => TypeOK
<1>1. Init => FlagsOK
  BY DEF Init, FlagsOK
<1>2. Init => QueuesOK
  BY HeadBridgeAssumption, EmptySeq DEF Init, QueuesOK
<1>3. Init => ScalarsOK
  BY DEF Init, ScalarsOK
<1> QED
  BY <1>1, <1>2, <1>3 DEF TypeOK

\* Every variable keeps its type, and neither the radio's FIFO nor RX_MSGQ is
\* ever filled beyond its size.
THEOREM TypeCorrect == Spec => []TypeOK
<1>1. Init => TypeOK
  BY InitTypes
<1>2. TypeOK /\ [Next]_vars => TypeOK'
  BY FlagsKept, QueuesKept, ScalarsKept DEF TypeOK
<1> QED
  BY <1>1, <1>2, PTL DEF Spec

-----------------------------------------------------------------------------
(* The network core.                                                       *)

\* However the radio interrupt falls into the work handler's end, an answer in
\* RX_MSGQ has the handler coming for it (net_ipc main.c 80-105, 130-137).
THEOREM NothingForgotten == Spec => []NoForgotten
<1>1. Init => NoForgotten
  BY DEF Init, NoForgotten
<1>2. TypeOK /\ NoForgotten /\ [Next]_vars => NoForgotten'
  <2> SUFFICES ASSUME TypeOK, NoForgotten, [Next]_vars PROVE NoForgotten'
    OBVIOUS
  <2> USE DEF NoForgotten
  <2>1. CASE PollThread
    BY <2>1 DEF PollThread, TakeCommand, SetTopic, Drain, Send, SendFails, Signalled, TimedOut, work
  <2>2. CASE RecvCb \/ EpRecv
    BY <2>2 DEF RecvCb, EpRecv, work
  <2>3. CASE RxEvent
    <3>1. Len(rxq) = QueueSize => rxq # <<>>
      BY HeadBridgeAssumption
    <3> QED
      BY <2>3, <3>1 DEF RxEvent
  <2>4. CASE RadioInit \/ TxDone \/ RxEventEmpty \/ \E t \in asked : Hear(t)
    BY <2>4 DEF RadioInit, TxDone, RxEventEmpty, Hear, work
  <2>5. CASE WorkHandler
    BY <2>5 DEF WorkHandler, WorkStart, WorkTake, WorkSend, WorkSendFails, WorkEnd, TypeOK, ScalarsOK
  <2>6. CASE UNCHANGED vars
    BY <2>6 DEF vars, work
  <2> QED
    BY <2>1, <2>2, <2>3, <2>4, <2>5, <2>6 DEF Next, Radio
<1> QED
  BY <1>1, <1>2, TypeCorrect, PTL DEF Spec

\* A broadcast that was written opens the receiver and nothing but the next
\* trigger closes it (net_ipc main.c 112-125, 167).
THEOREM KeepsListening == Spec => []Listening
<1>1. Init => Listening
  BY DEF Init, Listening
<1>2. Listening /\ [Next]_vars => Listening'
  <2> SUFFICES ASSUME Listening, [Next]_vars PROVE Listening'
    OBVIOUS
  <2> USE DEF Listening
  <2>1. CASE PollThread
    BY <2>1 DEF PollThread, TakeCommand, SetTopic, Drain, Send, SendFails, Signalled, TimedOut, esb
  <2>2. CASE RecvCb \/ EpRecv
    BY <2>2 DEF RecvCb, EpRecv, esb
  <2>3. CASE Radio
    BY <2>3 DEF Radio, RadioInit, TxDone, RxEvent, RxEventEmpty, Hear, esb
  <2>4. CASE WorkHandler
    BY <2>4 DEF WorkHandler, WorkStart, WorkTake, WorkSend, WorkSendFails, WorkEnd, esb
  <2>5. CASE UNCHANGED vars
    BY <2>5 DEF vars, esb
  <2> QED
    BY <2>1, <2>2, <2>3, <2>4, <2>5 DEF Next
<1> QED
  BY <1>1, <1>2, PTL DEF Spec

-----------------------------------------------------------------------------
(* Which triggers the answers inside the head answer.                      *)

Carries(q) == {q[i].trigger : i \in DOMAIN q}

Carried == Carries(toApp) \cup Carries(held) \cup Carries(rxq) \cup Carries(fifo)

LEMMA CarriesEmpty == Carries(<<>>) = {}
BY DEF Carries

LEMMA CarriesTail ==
    ASSUME NEW q \in Seq(Message), q # <<>>
    PROVE  /\ Head(q).trigger \in Carries(q)
           /\ Carries(Tail(q)) \subseteq Carries(q)
           /\ Carries(<<Head(q)>>) = {Head(q).trigger}
<1>1. 1 \in DOMAIN q /\ Head(q) = q[1]
  OBVIOUS
<1>2. \A i \in DOMAIN Tail(q) : i + 1 \in DOMAIN q /\ Tail(q)[i] = q[i + 1]
  OBVIOUS
<1>3. DOMAIN <<Head(q)>> = {1} /\ <<Head(q)>>[1] = Head(q)
  OBVIOUS
<1> QED
  BY <1>1, <1>2, <1>3, Zenon DEF Carries

LEMMA CarriesAppend ==
    ASSUME NEW q \in Seq(Message), NEW m \in Message
    PROVE  Carries(Append(q, m)) = Carries(q) \cup {m.trigger}
<1>1. DOMAIN Append(q, m) = DOMAIN q \cup {Len(q) + 1}
  BY AppendToQueue
<1>2. Append(q, m)[Len(q) + 1] = m /\ \A i \in DOMAIN q : Append(q, m)[i] = q[i]
  BY AppendToQueue
<1> QED
  BY <1>1, <1>2, Zenon DEF Carries

LEMMA CarriesConcat ==
    ASSUME NEW p \in Seq(Message), NEW q \in Seq(Message)
    PROVE  Carries(p \o q) \subseteq Carries(p) \cup Carries(q)
<1> SUFFICES ASSUME NEW i \in DOMAIN (p \o q)
             PROVE  (p \o q)[i].trigger \in Carries(p) \cup Carries(q)
  BY DEF Carries
<1>0. DOMAIN p = 1..Len(p) /\ DOMAIN q = 1..Len(q) /\ DOMAIN (p \o q) = 1..Len(p) + Len(q)
      /\ Len(p) \in Nat /\ Len(q) \in Nat
  BY ConcatProperties, LenProperties
<1>1. CASE i <= Len(p)
  <2>1. i \in DOMAIN p /\ (p \o q)[i] = p[i]
    BY <1>0, <1>1, ConcatProperties
  <2> QED
    BY <2>1 DEF Carries
<1>2. CASE ~(i <= Len(p))
  <2>1. i - Len(p) \in DOMAIN q /\ (p \o q)[i] = q[i - Len(p)]
    BY <1>0, <1>2, ConcatProperties
  <2> QED
    BY <2>1 DEF Carries
<1> QED
  BY <1>1, <1>2

LEMMA NothingCarried ==
    ASSUME QueuesOK, InFlight = <<>>
    PROVE  Carried = {}
<1>1. toApp = <<>> /\ held = <<>> /\ rxq = <<>> /\ fifo = <<>>
  BY ConcatProperties, ConcatEqualIffEmpty DEF QueuesOK, InFlight
<1> QED
  BY <1>1, CarriesEmpty DEF Carried

\* Only the radio brings an answer into the head.
LEMMA CarriedKept ==
    ASSUME QueuesOK, ScalarsOK, [Next]_vars
    PROVE  \/ Carried' \subseteq Carried
           \/ \E t \in asked : Hear(t) /\ Carried' = Carried \cup {t}
<1> USE DEF QueuesOK, Carried
<1>1. CASE PollThread
  BY <1>1 DEF PollThread, TakeCommand, SetTopic, Drain, Send, SendFails, Signalled, TimedOut,
              ipc, rx, work
<1>2. CASE RecvCb
  BY <1>2, CarriesTail DEF RecvCb, rx, work
<1>3. CASE EpRecv
  BY <1>3, CarriesEmpty DEF EpRecv, rx, work
<1>4. ASSUME NEW t \in asked, Hear(t) PROVE Carried' = Carried \cup {t}
  <2>1. [id |-> received', trigger |-> t] \in Message
    BY <1>4 DEF Hear, Message, ScalarsOK
  <2> QED
    BY <1>4, <2>1, CarriesAppend DEF Hear, ipc, work
<1>5. CASE RadioInit \/ TxDone \/ RxEventEmpty
  BY <1>5, CarriesEmpty DEF RadioInit, TxDone, RxEventEmpty, ipc, rx, work
<1>6. CASE RxEvent
  <2>1. Head(fifo) \in Message
    BY <1>6, TailOfQueue DEF RxEvent
  <2>2. Carries(rxq)' \subseteq Carries(rxq) \cup {Head(fifo).trigger}
    BY <1>6, <2>1, CarriesAppend DEF RxEvent
  <2>3. Head(fifo).trigger \in Carries(fifo) /\ Carries(fifo)' \subseteq Carries(fifo)
    BY <1>6, CarriesTail DEF RxEvent
  <2>4. UNCHANGED <<toApp, held>>
    BY <1>6 DEF RxEvent, ipc
  <2> QED
    BY <2>2, <2>3, <2>4
<1>7. CASE WorkTake
  <2>1. Head(rxq).trigger \in Carries(rxq) /\ Carries(rxq)' \subseteq Carries(rxq)
    BY <1>7, CarriesTail DEF WorkTake
  <2>2. Carries(held)' = {Head(rxq).trigger}
    BY <1>7, CarriesTail DEF WorkTake
  <2>3. UNCHANGED <<toApp, fifo>>
    BY <1>7 DEF WorkTake, ipc, rx
  <2> QED
    BY <2>1, <2>2, <2>3
<1>8. CASE WorkSend
  BY <1>8, CarriesEmpty, CarriesConcat DEF WorkSend, rx
<1>9. CASE WorkStart \/ WorkSendFails \/ WorkEnd
  BY <1>9, CarriesEmpty DEF WorkStart, WorkSendFails, WorkEnd, ipc, rx
<1>10. CASE UNCHANGED vars
  BY <1>10 DEF vars, ipc, rx, work
<1> QED
  BY <1>1, <1>2, <1>3, <1>4, <1>5, <1>6, <1>7, <1>8, <1>9, <1>10 DEF Next, Radio, WorkHandler

-----------------------------------------------------------------------------
(* The conversation: triggers go out in the order of the commands, and an  *)
(* answer can only answer a trigger that has been sent.                    *)

Sent == asked \cup {toNet[i] : i \in DOMAIN toNet}

\* The poll thread has taken the command and not sent its trigger yet.
Preparing == ppc \in {"topic", "drain", "send"}

AskedInv ==
    /\ command \in 0..MaxCommands
    /\ Sent \subseteq 1..command
    /\ Preparing => command # 0 /\ command \notin Sent
    /\ Carried \subseteq asked

AnswerInv ==
    /\ Preparing => ~answered
    /\ ppc # "topic" => topic = command
    /\ ppc = "wait" /\ answered => sem = 1

\* As long as nothing crosses, every answer in the head is to the command the
\* poll thread works on, and a signal is one of its answers once the drain is
\* done.
CalmInv ==
    ~crossed =>
        /\ Carried \subseteq {command}
        /\ ~misrouted
        /\ ppc = "send" => sem = 0
        /\ ppc = "wait" /\ sem = 1 => answered

IInv == TypeOK /\ AskedInv /\ AnswerInv /\ CalmInv

\* Only Send and EpRecv touch the triggers.
LEMMA SentKept ==
    ASSUME QueuesOK, [Next]_vars
    PROVE  \/ Send /\ Sent' = Sent \cup {command} /\ asked' = asked
           \/ Sent' \subseteq Sent /\ asked \subseteq asked' /\ ~Send
<1> USE DEF Sent, QueuesOK
<1>1. CASE Send
  <2>1. toNet' = Append(toNet, command) /\ asked' = asked
    BY <1>1 DEF Send, esb
  <2>2. DOMAIN toNet' = DOMAIN toNet \cup {Len(toNet) + 1}
    BY <2>1
  <2>3. toNet'[Len(toNet) + 1] = command /\ \A i \in DOMAIN toNet : toNet'[i] = toNet[i]
    BY <2>1
  <2> QED
    BY <1>1, <2>1, <2>2, <2>3
<1>2. CASE EpRecv
  <2>1. \A i \in DOMAIN toNet' : i + 1 \in DOMAIN toNet /\ toNet'[i] = toNet[i + 1]
    BY <1>2 DEF EpRecv
  <2>2. 1 \in DOMAIN toNet /\ Head(toNet) = toNet[1]
    BY <1>2 DEF EpRecv
  <2>3. asked' = asked \/ asked' = asked \cup {Head(toNet)}
    BY <1>2 DEF EpRecv
  <2>4. ~Send
    BY <1>2 DEF EpRecv, Send, app
  <2>5. Head(toNet) \in Sent
    BY <2>2
  <2>6. {toNet'[i] : i \in DOMAIN toNet'} \subseteq {toNet[i] : i \in DOMAIN toNet}
    BY <2>1
  <2>7. asked' \subseteq Sent /\ asked \subseteq asked'
    BY <2>3, <2>5
  <2> QED
    BY <2>4, <2>6, <2>7
<1>3. CASE TakeCommand \/ SetTopic \/ Drain \/ SendFails \/ Signalled \/ TimedOut
  BY <1>3 DEF TakeCommand, SetTopic, Drain, SendFails, Signalled, TimedOut, ipc, esb, Send
<1>4. CASE RecvCb
  BY <1>4 DEF RecvCb, esb, Send
<1>5. CASE Radio
  BY <1>5 DEF Radio, RadioInit, TxDone, RxEvent, RxEventEmpty, Hear, ipc, esb, app, Send
<1>6. CASE WorkHandler
  BY <1>6 DEF WorkHandler, WorkStart, WorkTake, WorkSend, WorkSendFails, WorkEnd, ipc, esb, app, Send
<1>7. CASE UNCHANGED vars
  BY <1>7 DEF vars, ipc, esb, app, Send
<1> QED
  BY <1>1, <1>2, <1>3, <1>4, <1>5, <1>6, <1>7 DEF Next, PollThread

LEMMA AskedKept == ASSUME IInv, [Next]_vars PROVE AskedInv'
<1> USE DEF IInv, AskedInv
<1>1. Carried' \subseteq asked'
  <2>1. asked \subseteq asked'
    BY SentKept DEF TypeOK
  <2> QED
    BY <2>1, CarriedKept DEF TypeOK
<1>2. CASE Send
  <2>1. Sent' = Sent \cup {command}
    BY <1>2, SentKept DEF TypeOK
  <2>2. command' = command /\ ~Preparing' /\ command # 0
    BY <1>2 DEF Send, Preparing
  <2> QED
    BY <1>1, <2>1, <2>2
<1>3. CASE TakeCommand
  <2>1. Sent' \subseteq 1..command
    BY <1>3, SentKept DEF TakeCommand, Send, TypeOK
  <2>2. command' = command + 1 /\ command' \in 0..MaxCommands
    BY <1>3, HeadBridgeAssumption DEF TakeCommand
  <2>3. command' \notin 1..command /\ 1..command \subseteq 1..command' /\ command' # 0
    BY <2>2
  <2> QED
    BY <1>1, <2>1, <2>2, <2>3
<1>4. CASE ~Send /\ ~TakeCommand
  <2>1. Sent' \subseteq Sent
    BY <1>4, SentKept DEF TypeOK
  <2>2. command' = command /\ (Preparing' => Preparing)
    <3>1. CASE PollThread
      BY <1>4, <3>1 DEF PollThread, SetTopic, Drain, SendFails, Signalled, TimedOut, Preparing
    <3>2. CASE RecvCb \/ EpRecv
      BY <3>2 DEF RecvCb, EpRecv, app, Preparing
    <3>3. CASE Radio
      BY <3>3 DEF Radio, RadioInit, TxDone, RxEvent, RxEventEmpty, Hear, app, Preparing
    <3>4. CASE WorkHandler
      BY <3>4 DEF WorkHandler, WorkStart, WorkTake, WorkSend, WorkSendFails, WorkEnd, app, Preparing
    <3>5. CASE UNCHANGED vars
      BY <3>5 DEF vars, app, Preparing
    <3> QED
      BY <3>1, <3>2, <3>3, <3>4, <3>5 DEF Next
  <2> QED
    BY <1>1, <2>1, <2>2
<1> QED
  BY <1>2, <1>3, <1>4

\* What recv_cb hands on is in Carried.
LEMMA HeadCarried ==
    ASSUME QueuesOK, toApp # <<>>
    PROVE  Head(toApp).trigger \in Carried
BY CarriesTail DEF QueuesOK, Carried

LEMMA AnswerKept == ASSUME IInv, [Next]_vars PROVE AnswerInv'
<1> USE DEF IInv, AnswerInv
<1>1. CASE TakeCommand \/ SetTopic
  BY <1>1 DEF TakeCommand, SetTopic, Preparing, history
<1>2. CASE Drain \/ SendFails
  BY <1>2 DEF Drain, SendFails, Preparing, history
<1>3. CASE Send
  BY <1>3 DEF Send, Preparing, history
<1>4. CASE Signalled \/ TimedOut
  BY <1>4 DEF Signalled, TimedOut, Preparing, history
<1>5. CASE RecvCb
  <2>1. Preparing => Head(toApp).trigger # command
    BY <1>5, HeadCarried DEF RecvCb, TypeOK, AskedInv, Sent
  <2>2. answered' = (answered \/ Head(toApp).trigger = command) /\ sem' = 1
    BY <1>5 DEF RecvCb
  <2>3. UNCHANGED <<ppc, command, topic>>
    BY <1>5 DEF RecvCb
  <2> QED
    BY <2>1, <2>2, <2>3 DEF Preparing
<1>6. CASE EpRecv
  BY <1>6 DEF EpRecv, app, history, Preparing
<1>7. CASE Radio
  <2>1. UNCHANGED <<app, answered>>
    BY <1>7 DEF Radio, RadioInit, TxDone, RxEvent, RxEventEmpty, Hear, history
  <2> QED
    BY <2>1 DEF app, Preparing
<1>8. CASE WorkHandler
  BY <1>8 DEF WorkHandler, WorkStart, WorkTake, WorkSend, WorkSendFails, WorkEnd, app, history,
              Preparing
<1>9. CASE UNCHANGED vars
  BY <1>9 DEF vars, app, history, Preparing
<1> QED
  BY <1>1, <1>2, <1>3, <1>4, <1>5, <1>6, <1>7, <1>8, <1>9 DEF Next, PollThread

LEMMA CalmKept == ASSUME IInv, [Next]_vars PROVE CalmInv'
<1> USE DEF IInv, CalmInv
<1>1. CASE TakeCommand
  <2>1. crossed \/ ~(InFlight # <<>>) \/ crossed'
    BY <1>1 DEF TakeCommand
  <2>2. crossed => crossed'
    BY <1>1 DEF TakeCommand
  <2>3. UNCHANGED Carried /\ misrouted' = misrouted /\ ppc' = "topic"
    BY <1>1 DEF TakeCommand, Carried, ipc, rx, work
  <2> QED
    BY <2>1, <2>2, <2>3, NothingCarried DEF TypeOK
<1>2. CASE SetTopic \/ Drain \/ SendFails \/ Signalled \/ TimedOut
  BY <1>2 DEF SetTopic, Drain, SendFails, Signalled, TimedOut, history, ipc, rx, work, Carried
<1>3. CASE Send
  BY <1>3 DEF Send, history, rx, work, Carried
<1>4. CASE RecvCb
  <2>1. crossed' = crossed /\ UNCHANGED <<ppc, command, topic>> /\ sem' = 1
    BY <1>4 DEF RecvCb
  <2> SUFFICES ASSUME ~crossed PROVE CalmInv'
    BY <2>1
  <2>2. Head(toApp).trigger = command /\ Head(toApp).trigger \in asked
    BY <1>4, HeadCarried DEF RecvCb, TypeOK, AskedInv
  <2>3. ~Preparing
    BY <2>2 DEF AskedInv, Sent
  <2>4. Carried' \subseteq Carried
    BY <1>4, CarriesTail DEF RecvCb, rx, work, Carried, TypeOK, QueuesOK
  <2>5. answered'
    BY <1>4, <2>2 DEF RecvCb
  <2>6. ~misrouted'
    BY <1>4, <2>2, <2>3 DEF RecvCb, AnswerInv, Preparing
  <2> QED
    BY <2>1, <2>3, <2>4, <2>5, <2>6 DEF Preparing
<1>5. ASSUME NEW t \in asked, Hear(t) PROVE CalmInv'
  <2>1. crossed' = (crossed \/ t # command) /\ UNCHANGED <<app, answered, misrouted>>
    BY <1>5 DEF Hear
  <2>2. Carried' \subseteq Carried \cup {t}
    <3>1. [id |-> received', trigger |-> t] \in Message
      BY <1>5 DEF Hear, Message, TypeOK, ScalarsOK
    <3> QED
      BY <1>5, <3>1, CarriesAppend DEF Hear, ipc, work, Carried, TypeOK, QueuesOK
  <2> QED
    BY <2>1, <2>2 DEF app
<1>6. CASE EpRecv \/ RadioInit \/ TxDone \/ RxEvent \/ RxEventEmpty \/ WorkHandler \/ UNCHANGED vars
  <2>1. UNCHANGED <<app, history>>
    BY <1>6 DEF EpRecv, RadioInit, TxDone, RxEvent, RxEventEmpty, WorkHandler, WorkStart, WorkTake,
                WorkSend, WorkSendFails, WorkEnd, vars
  <2>2. received' = received /\ UNCHANGED <<ppc, command, sem, answered, crossed, misrouted>>
    BY <2>1 DEF app, history
  <2>3. Carried' \subseteq Carried
    <3>1. \A t \in asked : ~Hear(t)
      BY <2>2 DEF TypeOK, ScalarsOK, Hear
    <3> QED
      BY <3>1, CarriedKept DEF TypeOK
  <2> QED
    BY <2>2, <2>3
<1> QED
  BY <1>1, <1>2, <1>3, <1>4, <1>5, <1>6 DEF Next, PollThread, Radio

LEMMA Conversation == Spec => []IInv
<1>1. Init => IInv
  <2>1. Init => TypeOK
    BY InitTypes
  <2>2. Init => Carried = {} /\ Sent = {}
    BY CarriesEmpty DEF Init, Carried, Sent
  <2> QED
    BY <2>1, <2>2, HeadBridgeAssumption DEF Init, IInv, AskedInv, AnswerInv, CalmInv, Preparing
<1>2. IInv /\ [Next]_vars => IInv'
  BY FlagsKept, QueuesKept, ScalarsKept, AskedKept, AnswerKept, CalmKept DEF IInv, TypeOK
<1> QED
  BY <1>1, <1>2, PTL DEF Spec

\* A wait is never timed out while an answer to its own trigger is there
\* (rtt_mqtt.c 121-127).
THEOREM NoneMissed == Spec => []NoAnswerMissed
<1>1. IInv => NoAnswerMissed
  BY DEF IInv, AnswerInv, NoAnswerMissed
<1> QED
  BY <1>1, Conversation, PTL

\* If answers and commands do not cross, the signal a wait finds is of an answer
\* to its own trigger (main.c 146-158).
THEOREM WakesRight == Spec => []WakesForAnswer
<1>1. IInv => WakesForAnswer
  BY DEF IInv, CalmInv, WakesForAnswer
<1> QED
  BY <1>1, Conversation, PTL

\* If answers and commands do not cross, each answer goes to its own command's
\* topic (rtt_mqtt.c 103-121, main.c 102-106).
THEOREM RoutedRight == Spec => []OwnTopic
<1>1. IInv => OwnTopic
  BY DEF IInv, CalmInv, OwnTopic
<1> QED
  BY <1>1, Conversation, PTL

-----------------------------------------------------------------------------
(* Refinement of AnswerChannel.                                            *)

\* The handler holds an answer only while it sends it.
HeldInv == wpc # "send" => held = <<>>

LEMMA HeldKept == ASSUME HeldInv, [Next]_vars PROVE HeldInv'
<1> USE DEF HeldInv
<1>1. CASE PollThread
  BY <1>1 DEF PollThread, TakeCommand, SetTopic, Drain, Send, SendFails, Signalled, TimedOut, work
<1>2. CASE RecvCb \/ EpRecv
  BY <1>2 DEF RecvCb, EpRecv, work
<1>3. CASE Radio
  BY <1>3 DEF Radio, RadioInit, TxDone, RxEvent, RxEventEmpty, Hear, work
<1>4. CASE WorkHandler
  BY <1>4 DEF WorkHandler, WorkStart, WorkTake, WorkSend, WorkSendFails, WorkEnd
<1>5. CASE UNCHANGED vars
  BY <1>5 DEF vars, work
<1> QED
  BY <1>1, <1>2, <1>3, <1>4, <1>5 DEF Next

LEMMA SplitFirst ==
    ASSUME NEW q \in Seq(Message), q # <<>>
    PROVE  q = <<Head(q)>> \o Tail(q)
<1>1. <<Head(q)>> \in Seq(Message) /\ Tail(q) \in Seq(Message)
  BY TailOfQueue
<1>2. <<Head(q)>> \o Tail(q) \in Seq(Message) /\ Len(<<Head(q)>> \o Tail(q)) = Len(q)
  BY <1>1, TailOfQueue, ConcatProperties
<1>3. \A i \in 1..Len(q) : q[i] = (<<Head(q)>> \o Tail(q))[i]
  BY <1>1, TailOfQueue, ConcatProperties
<1> QED
  BY <1>2, <1>3, SeqEqual

LEMMA FirstOfConcat ==
    ASSUME NEW p \in Seq(Message), NEW q \in Seq(Message), p # <<>>
    PROVE  p \o q # <<>> /\ Head(p \o q) = Head(p) /\ Tail(p \o q) = Tail(p) \o q
<1>1. p \o q \in Seq(Message) /\ Len(p \o q) = Len(p) + Len(q) /\ p \o q # <<>>
  BY ConcatProperties, ConcatEqualIffEmpty
<1>2. Tail(p \o q) \in Seq(Message) /\ Tail(p) \o q \in Seq(Message)
      /\ Len(Tail(p) \o q) = Len(Tail(p \o q))
  BY <1>1, TailOfQueue, ConcatProperties
<1>3. \A i \in 1..Len(Tail(p \o q)) : Tail(p \o q)[i] = (Tail(p) \o q)[i]
  BY <1>1, <1>2, TailOfQueue, ConcatProperties
<1> QED
  BY <1>1, <1>2, <1>3, SeqEqual, TailOfQueue, ConcatProperties

\* Concatenation is associative, for queues of answers.
LEMMA Regroup ==
    ASSUME NEW p \in Seq(Message), NEW q \in Seq(Message), NEW r \in Seq(Message)
    PROVE  (p \o q) \o r = p \o (q \o r)
BY ConcatAssociative

\* Cutting a run of neighbours out of the answers in flight is a loss.
LEMMA CutIsLoss ==
    ASSUME NEW a \in Seq(Message), NEW b \in Seq(Message), NEW c \in Seq(Message),
           b # <<>>, InFlight = (a \o b) \o c, InFlight' = a \o c,
           UNCHANGED <<received, forwarded>>
    PROVE  Channel!Lose
<1> DEFINE p == InFlight
           i == Len(a)
           j == Len(a) + Len(b)
<1>1. p \in Seq(Message) /\ Len(p) = j + Len(c) /\ i \in 0..Len(p) /\ j \in 0..Len(p) /\ i < j
  BY ConcatProperties, LenProperties, EmptySeq
<1>2. a = SubSeq(p, 1, i)
  <2>1. \A k \in 1..i : p[k] = a[k]
    BY ConcatProperties
  <2>2. SubSeq(p, 1, i) \in Seq(Message) /\ Len(SubSeq(p, 1, i)) = i
    BY <1>1
  <2>3. \A k \in 1..i : SubSeq(p, 1, i)[k] = a[k]
    BY <1>1, <2>1
  <2> QED
    BY <2>2, <2>3, SeqEqual
<1>3. c = SubSeq(p, j + 1, Len(p))
  <2>1. \A k \in 1..Len(c) : p[j + k] = c[k]
    BY ConcatProperties
  <2>2. SubSeq(p, j + 1, Len(p)) \in Seq(Message)
        /\ Len(SubSeq(p, j + 1, Len(p))) = Len(c)
    BY <1>1
  <2>3. \A k \in 1..Len(c) : SubSeq(p, j + 1, Len(p))[k] = c[k]
    BY <1>1, <2>1
  <2> QED
    BY <2>2, <2>3, SeqEqual
<1>4. InFlight' = SubSeq(p, 1, i) \o SubSeq(p, j + 1, Len(p))
  BY <1>2, <1>3
<1> HIDE DEF i, j
<1> QED
  BY <1>1, <1>4 DEF Channel!Lose

\* The four stages taken apart, and every prefix of them a sequence of answers.
LEMMA Stages ==
    ASSUME QueuesOK
    PROVE  /\ toApp \in Seq(Message) /\ held \in Seq(Message)
           /\ rxq \in Seq(Message) /\ fifo \in Seq(Message)
           /\ toApp \o held \in Seq(Message)
           /\ (toApp \o held) \o rxq \in Seq(Message)
           /\ InFlight = ((toApp \o held) \o rxq) \o fifo
           /\ InFlight \in Seq(Message)
BY ConcatProperties DEF QueuesOK, InFlight

LEMMA StepsRecvCb ==
    ASSUME QueuesOK, RecvCb
    PROVE  Channel!Forward \/ Channel!Lose
<1>1. toApp # <<>> /\ toApp' = Tail(toApp) /\ UNCHANGED <<held, rxq, fifo, received>>
  BY DEF RecvCb, rx, work
<1>2. InFlight # <<>> /\ Head(InFlight) = Head(toApp) /\ Tail(InFlight) = InFlight'
  <2> DEFINE a == toApp \o held
             b == a \o rxq
  <2>1. a # <<>> /\ Head(a) = Head(toApp) /\ Tail(a) = Tail(toApp) \o held
    BY <1>1, Stages, FirstOfConcat
  <2>2. a \in Seq(Message) /\ b \in Seq(Message) /\ rxq \in Seq(Message)
        /\ fifo \in Seq(Message) /\ InFlight = b \o fifo
    BY Stages
  <2> HIDE DEF a
  <2>3. b # <<>> /\ Head(b) = Head(toApp) /\ Tail(b) = (Tail(toApp) \o held) \o rxq
    <3>1. b # <<>> /\ Head(b) = Head(a) /\ Tail(b) = Tail(a) \o rxq
      BY <2>1, <2>2, FirstOfConcat
    <3> QED
      BY <2>1, <3>1, Zenon
  <2> HIDE DEF b
  <2>4. InFlight # <<>> /\ Head(InFlight) = Head(toApp)
        /\ Tail(InFlight) = ((Tail(toApp) \o held) \o rxq) \o fifo
    <3>1. b \o fifo # <<>> /\ Head(b \o fifo) = Head(b) /\ Tail(b \o fifo) = Tail(b) \o fifo
      BY <2>2, <2>3, FirstOfConcat
    <3> QED
      BY <2>2, <2>3, <3>1, Zenon
  <2> QED
    BY <1>1, <2>4 DEF InFlight
<1>3. CASE forwarded' = Head(toApp).id
  BY <1>1, <1>2, <1>3 DEF Channel!Forward
<1>4. CASE forwarded' = forwarded
  <2>1. <<Head(InFlight)>> \in Seq(Message) /\ Tail(InFlight) \in Seq(Message)
        /\ <<Head(InFlight)>> # <<>>
    BY <1>2, Stages, TailOfQueue
  <2>2. InFlight = (<<>> \o <<Head(InFlight)>>) \o Tail(InFlight)
    BY <1>2, <2>1, Stages, SplitFirst, ConcatEmptySeq
  <2>3. InFlight' = <<>> \o Tail(InFlight)
    BY <1>2, <2>1, ConcatEmptySeq
  <2>4. <<>> \in Seq(Message)
    BY EmptySeq
  <2> QED
    BY <1>1, <1>4, <2>1, <2>2, <2>3, <2>4, CutIsLoss
<1> QED
  BY <1>3, <1>4 DEF RecvCb

\* ep_recv drops RX_MSGQ, the end of a transmission flushes the FIFO.
LEMMA StepsFlush ==
    ASSUME QueuesOK, EpRecv \/ TxDone
    PROVE  Channel!Lose \/ UNCHANGED <<InFlight, received, forwarded>>
<1>0. <<>> \in Seq(Message) /\ UNCHANGED <<toApp, held, received, forwarded>>
  BY EmptySeq DEF EpRecv, TxDone, ipc, work, history
<1>1. CASE EpRecv
  <2>1. rxq' = <<>> /\ fifo' = fifo
    BY <1>1 DEF EpRecv, rx
  <2>2. InFlight' = (toApp \o held) \o fifo
    BY <1>0, <2>1, Stages, ConcatEmptySeq DEF InFlight
  <2> QED
    BY <1>0, <2>1, <2>2, Stages, CutIsLoss DEF InFlight
<1>2. CASE TxDone
  <2>1. fifo' = <<>> /\ rxq' = rxq
    BY <1>2 DEF TxDone
  <2>2. InFlight' = ((toApp \o held) \o rxq) \o <<>>
    BY <1>0, <2>1 DEF InFlight
  <2>3. InFlight = (((toApp \o held) \o rxq) \o fifo) \o <<>>
    BY Stages, ConcatEmptySeq
  <2> QED
    BY <1>0, <2>1, <2>2, <2>3, Stages, CutIsLoss DEF InFlight
<1> QED
  BY <1>1, <1>2

LEMMA StepsHear ==
    ASSUME QueuesOK, ScalarsOK, NEW t \in asked, t \in Command, Hear(t)
    PROVE  Channel!Receive
<1>1. UNCHANGED <<toApp, held, rxq, forwarded>> /\ received' = received + 1
      /\ fifo' = Append(fifo, [id |-> received', trigger |-> t])
  BY DEF Hear, ipc, work
<1>2. [id |-> received', trigger |-> t] \in Message
  BY <1>1 DEF ScalarsOK, Message
<1> DEFINE m == [id |-> received', trigger |-> t]
<1>3. InFlight' = Append(InFlight, m)
  <2>1. <<m>> \in Seq(Message)
    BY <1>2
  <2>2. InFlight' = ((toApp \o held) \o rxq) \o (fifo \o <<m>>)
    BY <1>1, <1>2, Stages, AppendIsConcat DEF InFlight
  <2>3. InFlight' = InFlight \o <<m>>
    <3> DEFINE before == (toApp \o held) \o rxq
    <3>1. before \in Seq(Message) /\ fifo \in Seq(Message) /\ InFlight = before \o fifo
          /\ InFlight' = before \o (fifo \o <<m>>)
      BY <2>2, Stages
    <3> HIDE DEF before, m
    <3> QED
      BY <2>1, <3>1, Regroup
  <2> QED
    BY <1>2, <2>3, Stages, AppendIsConcat
<1> QED
  BY <1>1, <1>3 DEF Channel!Receive

\* The interrupt moves an answer from the FIFO to RX_MSGQ, or drops it.
LEMMA StepsRxEvent ==
    ASSUME QueuesOK, RxEvent
    PROVE  Channel!Lose \/ UNCHANGED <<InFlight, received, forwarded>>
<1> DEFINE h == <<Head(fifo)>>
           before == (toApp \o held) \o rxq
<1>1. UNCHANGED <<toApp, held, received, forwarded>> /\ fifo # <<>> /\ fifo' = Tail(fifo)
  BY DEF RxEvent, ipc, history
<1>2. h \in Seq(Message) /\ h # <<>> /\ Tail(fifo) \in Seq(Message) /\ Head(fifo) \in Message
  BY <1>1, Stages, TailOfQueue
<1>3. InFlight = (before \o h) \o Tail(fifo)
  <2>1. fifo = h \o Tail(fifo)
    BY <1>1, Stages, SplitFirst
  <2>2. (before \o h) \o Tail(fifo) = before \o (h \o Tail(fifo))
    <3>1. before \in Seq(Message)
      BY Stages
    <3> HIDE DEF before, h
    <3> QED
      BY <1>2, <3>1, Regroup
  <2> QED
    BY <2>1, <2>2, Stages
<1>4. CASE rxq' = Append(rxq, Head(fifo))
  <2>1. InFlight' = ((toApp \o held) \o (rxq \o h)) \o Tail(fifo)
    BY <1>1, <1>2, <1>4, Stages, AppendIsConcat DEF InFlight
  <2> QED
    <3>1. (toApp \o held) \o (rxq \o h) = before \o h
      BY <1>2, Stages, Regroup
    <3> QED
      BY <1>1, <1>3, <2>1, <3>1
<1>5. CASE rxq' = rxq
  BY <1>1, <1>2, <1>3, <1>5, Stages, CutIsLoss DEF InFlight
<1> QED
  BY <1>4, <1>5 DEF RxEvent

LEMMA StepsWork ==
    ASSUME QueuesOK, HeldInv, WorkHandler
    PROVE  Channel!Lose \/ UNCHANGED <<InFlight, received, forwarded>>
<1>0. UNCHANGED <<received, forwarded, fifo>>
  BY DEF WorkHandler, WorkStart, WorkTake, WorkSend, WorkSendFails, WorkEnd, history, rx
<1>1. CASE WorkStart \/ WorkEnd
  BY <1>0, <1>1 DEF WorkStart, WorkEnd, ipc, InFlight
<1>2. CASE WorkTake
  <2>1. held = <<>> /\ toApp' = toApp /\ held' = <<Head(rxq)>> /\ rxq' = Tail(rxq) /\ rxq # <<>>
    BY <1>2 DEF WorkTake, HeldInv, ipc
  <2>2. <<Head(rxq)>> \in Seq(Message) /\ Tail(rxq) \in Seq(Message)
    BY <2>1, Stages, TailOfQueue
  <2>3. toApp \o held = toApp
    BY <2>1, Stages, ConcatEmptySeq
  <2>4. (toApp \o <<Head(rxq)>>) \o Tail(rxq) = toApp \o rxq
    <3>1. rxq = <<Head(rxq)>> \o Tail(rxq)
      BY <2>1, Stages, SplitFirst
    <3>2. (toApp \o <<Head(rxq)>>) \o Tail(rxq) = toApp \o (<<Head(rxq)>> \o Tail(rxq))
      BY <2>2, Stages, Regroup
    <3> QED
      BY <3>1, <3>2
  <2> QED
    BY <1>0, <2>1, <2>3, <2>4 DEF InFlight
<1>3. CASE WorkSend
  <2>1. toApp' = toApp \o held /\ held' = <<>> /\ rxq' = rxq
    BY <1>3 DEF WorkSend
  <2>2. (toApp \o held) \o <<>> = toApp \o held
    BY Stages, ConcatEmptySeq
  <2> QED
    BY <1>0, <2>1, <2>2 DEF InFlight
<1>4. CASE WorkSendFails
  <2>1. toApp' = toApp /\ held' = <<>> /\ rxq' = rxq
    BY <1>4 DEF WorkSendFails, ipc
  <2>2. rxq \o fifo \in Seq(Message) /\ <<>> \in Seq(Message)
    BY Stages, ConcatProperties, EmptySeq
  <2>3. InFlight = (toApp \o held) \o (rxq \o fifo)
    <3> DEFINE a == toApp \o held
    <3>1. a \in Seq(Message) /\ rxq \in Seq(Message) /\ fifo \in Seq(Message)
          /\ InFlight = (a \o rxq) \o fifo
      BY Stages
    <3> HIDE DEF a
    <3>2. (a \o rxq) \o fifo = a \o (rxq \o fifo)
      BY <3>1, Regroup
    <3> QED
      BY <3>1, <3>2 DEF a
  <2>4. InFlight' = toApp \o (rxq \o fifo)
    <3>1. toApp \o <<>> = toApp
      BY Stages, ConcatEmptySeq
    <3>2. InFlight' = (toApp \o rxq) \o fifo
      BY <1>0, <2>1, <3>1 DEF InFlight
    <3> QED
      <4>1. (toApp \o rxq) \o fifo = toApp \o (rxq \o fifo)
        <5>1. toApp \in Seq(Message) /\ rxq \in Seq(Message) /\ fifo \in Seq(Message)
          BY Stages
        <5> QED
          BY <5>1, Regroup
      <4> QED
        BY <3>2, <4>1
  <2> QED
    BY <1>0, <2>1, <2>2, <2>3, <2>4, Stages, CutIsLoss DEF InFlight
<1> QED
  BY <1>1, <1>2, <1>3, <1>4 DEF WorkHandler

\* From the radio to the broker no answer is forwarded twice or before an
\* earlier one: across the FIFO, RX_MSGQ, the work handler and the IPC, and
\* whatever is dropped on the way, the head is an AnswerChannel.
THEOREM Refinement == Spec => RefinesChannel
<1>1. Init => Channel!Init
  <2>1. Init => InFlight = <<>>
    <3> SUFFICES ASSUME Init PROVE InFlight = <<>>
      OBVIOUS
    <3>1. <<>> \o <<>> = <<>>
      BY ConcatEmptySeq, EmptySeq
    <3> QED
      BY <3>1 DEF Init, InFlight
  <2> QED
    BY <2>1 DEF Init, Channel!Init
<1>2. Init => HeldInv
  BY DEF Init, HeldInv
<1>3. HeldInv /\ [Next]_vars => HeldInv'
  BY HeldKept
<1>4. IInv /\ HeldInv /\ [Next]_vars
        => [Channel!Next]_<<InFlight, received, forwarded>>
  <2> SUFFICES ASSUME IInv, HeldInv, [Next]_vars
               PROVE  [Channel!Next]_<<InFlight, received, forwarded>>
    OBVIOUS
  <2> USE DEF Channel!Next
  <2>1. QueuesOK /\ ScalarsOK /\ asked \subseteq Command
    BY HeadBridgeAssumption DEF IInv, TypeOK, AskedInv, Sent, Command, ScalarsOK
  <2>2. CASE PollThread
    <3>1. UNCHANGED <<toApp, rx, rxq, work, received, forwarded>>
      BY <2>2 DEF PollThread, TakeCommand, SetTopic, Drain, Send, SendFails, Signalled, TimedOut,
                  ipc, history
    <3> QED
      BY <3>1 DEF rx, work, InFlight
  <2>3. CASE RecvCb
    BY <2>1, <2>3, StepsRecvCb
  <2>4. CASE EpRecv \/ TxDone
    BY <2>1, <2>4, StepsFlush
  <2>5. ASSUME NEW t \in asked, Hear(t) PROVE Channel!Receive
    BY <2>1, <2>5, StepsHear
  <2>6. CASE RxEvent
    BY <2>1, <2>6, StepsRxEvent
  <2>7. CASE RadioInit \/ RxEventEmpty
    BY <2>7 DEF RadioInit, RxEventEmpty, ipc, rx, work, history, InFlight
  <2>8. CASE WorkHandler
    BY <2>1, <2>8, StepsWork
  <2>9. CASE UNCHANGED vars
    BY <2>9 DEF vars, ipc, rx, work, history, InFlight
  <2> QED
    BY <2>2, <2>3, <2>4, <2>5, <2>6, <2>7, <2>8, <2>9 DEF Next, Radio
<1> QED
  BY <1>1, <1>2, <1>3, <1>4, Conversation, PTL DEF Spec, RefinesChannel, Channel!Spec

-----------------------------------------------------------------------------
(* What the abstract channel promises, and so the head keeps.              *)

\* Answers are numbered in the order of their reception, and what is in flight
\* is behind the one that was forwarded last.
InOrder(p, r, f) ==
    /\ p \in Seq(Message) /\ r \in Nat /\ f \in Nat
    /\ f <= r
    /\ \A i \in 1..Len(p) : f < p[i].id /\ p[i].id <= r
    /\ \A i, j \in 1..Len(p) : i < j => p[i].id < p[j].id

\* A reception, a forwarding and a loss keep the order.
LEMMA OrderReceive ==
    ASSUME NEW p, NEW r, NEW f, InOrder(p, r, f), NEW t \in Nat
    PROVE  InOrder(Append(p, [id |-> r + 1, trigger |-> t]), r + 1, f)
<1> DEFINE m == [id |-> r + 1, trigger |-> t]
           q == Append(p, m)
<1>1. m \in Message /\ m.id = r + 1
  BY DEF InOrder, Message
<1>2. /\ q \in Seq(Message) /\ Len(q) = Len(p) + 1 /\ Len(p) \in Nat
      /\ \A i \in 1..Len(p) : q[i] = p[i]
      /\ q[Len(p) + 1] = m
  <2>1. p \in Seq(Message)
    BY DEF InOrder
  <2> HIDE DEF m
  <2> QED
    BY <1>1, <2>1, AppendToQueue
<1> HIDE DEF m, q
<1>3. \A i \in 1..Len(p) : p[i].id \in Nat /\ f < p[i].id /\ p[i].id <= r
  <2>1. \A i \in 1..Len(p) : p[i] \in Message
    BY DEF InOrder
  <2> QED
    BY <2>1 DEF InOrder, Message
<1>4. r \in Nat /\ f \in Nat /\ f <= r
  BY DEF InOrder
<1>5. \A i \in 1..Len(q) : f < q[i].id /\ q[i].id <= r + 1
  <2> SUFFICES ASSUME NEW i \in 1..Len(q)
               PROVE  f < q[i].id /\ q[i].id <= r + 1
    OBVIOUS
  <2>1. CASE i \in 1..Len(p)
    BY <1>2, <1>3, <1>4, <2>1
  <2>2. CASE i = Len(p) + 1
    BY <1>1, <1>2, <1>4, <2>2
  <2> QED
    BY <1>2, <2>1, <2>2
<1>6. \A i, j \in 1..Len(q) : i < j => q[i].id < q[j].id
  <2> SUFFICES ASSUME NEW i \in 1..Len(q), NEW j \in 1..Len(q), i < j
               PROVE  q[i].id < q[j].id
    OBVIOUS
  <2>1. i \in 1..Len(p) /\ q[i] = p[i]
    BY <1>2
  <2>2. CASE j \in 1..Len(p)
    BY <1>2, <2>1, <2>2 DEF InOrder
  <2>3. CASE j = Len(p) + 1
    BY <1>1, <1>2, <1>3, <1>4, <2>1, <2>3
  <2> QED
    BY <1>2, <2>2, <2>3
<1>7. InOrder(q, r + 1, f)
  BY <1>2, <1>5, <1>6 DEF InOrder
<1> QED
  BY <1>7 DEF q, m

LEMMA OrderForward ==
    ASSUME NEW p, NEW r, NEW f, InOrder(p, r, f), p # <<>>
    PROVE  /\ InOrder(Tail(p), r, Head(p).id)
           /\ f < Head(p).id
<1>1. /\ Tail(p) \in Seq(Message) /\ Len(Tail(p)) = Len(p) - 1
      /\ Len(p) \in Nat \ {0} /\ Head(p) = p[1] /\ Head(p) \in Message
      /\ \A i \in 1..Len(Tail(p)) : Tail(p)[i] = p[i + 1]
  BY TailOfQueue DEF InOrder
<1>2. Head(p).id \in Nat
  BY <1>1 DEF Message
<1> QED
  BY <1>1, <1>2 DEF InOrder

LEMMA OrderLose ==
    ASSUME NEW p, NEW r, NEW f, InOrder(p, r, f),
           NEW i \in 0..Len(p), NEW j \in 0..Len(p), i < j
    PROVE  InOrder(SubSeq(p, 1, i) \o SubSeq(p, j + 1, Len(p)), r, f)
<1> DEFINE a == SubSeq(p, 1, i)
           b == SubSeq(p, j + 1, Len(p))
           q == a \o b
<1>1. p \in Seq(Message) /\ Len(p) \in Nat
  BY DEF InOrder
<1>2. /\ a \in Seq(Message) /\ Len(a) = i
      /\ \A k \in 1..i : a[k] = p[k]
  BY <1>1
<1>3. /\ b \in Seq(Message) /\ Len(b) = Len(p) - j
      /\ \A k \in 1..Len(b) : b[k] = p[j + k]
  BY <1>1
<1> HIDE DEF a, b
<1>4. /\ q \in Seq(Message) /\ Len(q) = i + (Len(p) - j)
      /\ \A k \in 1..Len(q) : q[k] = IF k <= i THEN a[k] ELSE b[k - i]
  <2>1. /\ q \in Seq(Message) /\ Len(q) = Len(a) + Len(b)
        /\ \A k \in 1..Len(a) + Len(b) :
             q[k] = IF k <= Len(a) THEN a[k] ELSE b[k - Len(a)]
    BY <1>2, <1>3, ConcatProperties, Zenon
  <2> HIDE DEF q
  <2> QED
    BY <1>2, <1>3, <2>1
<1> HIDE DEF q
<1> DEFINE at(k) == IF k <= i THEN k ELSE k + (j - i)
<1>5. \A k \in 1..Len(q) : at(k) \in 1..Len(p) /\ q[k] = p[at(k)]
  <2> SUFFICES ASSUME NEW k \in 1..Len(q)
               PROVE  at(k) \in 1..Len(p) /\ q[k] = p[at(k)]
    OBVIOUS
  <2>1. CASE k <= i
    BY <1>1, <1>2, <1>4, <2>1
  <2>2. CASE ~(k <= i)
    <3>1. k - i \in 1..Len(b) /\ j + (k - i) = k + (j - i)
      BY <1>1, <1>3, <1>4, <2>2
    <3>2. b[k - i] = p[j + (k - i)]
      BY <1>3, <3>1
    <3> QED
      BY <1>1, <1>3, <1>4, <2>2, <3>1, <3>2
  <2> QED
    BY <2>1, <2>2
<1>6. \A k, l \in 1..Len(q) : k < l => at(k) < at(l)
  BY <1>1, <1>4
<1> HIDE DEF at
<1>7. InOrder(q, r, f)
  BY <1>1, <1>4, <1>5, <1>6 DEF InOrder
<1> QED
  BY <1>7 DEF q, a, b

ChannelOrder == InOrder(InFlight, received, forwarded)

ForwardsOn ==
    forwarded' # forwarded => forwarded < forwarded' /\ forwarded' <= received

\* A step of the abstract channel keeps its order and forwards no answer that
\* is not newer than the last.
LEMMA ChannelStep ==
    ASSUME ChannelOrder, [Channel!Next]_<<InFlight, received, forwarded>>
    PROVE  ChannelOrder' /\ ForwardsOn
<1>0. ChannelOrder' = InOrder(InFlight', received', forwarded')
  BY DEF ChannelOrder, InOrder
<1>1. CASE Channel!Receive
  <2>1. PICK t \in Command :
            InFlight' = Append(InFlight, [id |-> received + 1, trigger |-> t])
    BY <1>1 DEF Channel!Receive
  <2>2. received' = received + 1 /\ forwarded' = forwarded
    BY <1>1 DEF Channel!Receive
  <2>3. t \in Nat
    BY DEF Command
  <2> QED
    BY <1>0, <2>1, <2>2, <2>3, OrderReceive DEF ChannelOrder, ForwardsOn
<1>2. CASE Channel!Forward
  <2>1. /\ InFlight # <<>> /\ InFlight' = Tail(InFlight)
        /\ forwarded' = Head(InFlight).id /\ received' = received
    BY <1>2 DEF Channel!Forward
  <2>2. InOrder(InFlight', received', forwarded') /\ forwarded < forwarded'
    BY <2>1, OrderForward DEF ChannelOrder
  <2>3. forwarded' <= received
    BY <2>1, <2>2 DEF InOrder
  <2> QED
    BY <1>0, <2>2, <2>3 DEF ForwardsOn
<1>3. CASE Channel!Lose
  <2>1. PICK i \in 0..Len(InFlight), j \in 0..Len(InFlight) :
            /\ i < j
            /\ InFlight' = SubSeq(InFlight, 1, i)
                           \o SubSeq(InFlight, j + 1, Len(InFlight))
    BY <1>3 DEF Channel!Lose
  <2>2. UNCHANGED <<received, forwarded>>
    BY <1>3 DEF Channel!Lose
  <2> QED
    BY <1>0, <2>1, <2>2, OrderLose DEF ChannelOrder, ForwardsOn
<1>4. CASE UNCHANGED <<InFlight, received, forwarded>>
  BY <1>0, <1>4 DEF ChannelOrder, ForwardsOn
<1> QED
  BY <1>1, <1>2, <1>3, <1>4 DEF Channel!Next

\* No answer is published twice, none after a later one, and none that was not
\* received: each that is published was received after the one before it
\* (net_ipc main.c 80-147, rtt_mqtt.c 103-121).
THEOREM ForwardedInOrder == Spec => [][ForwardsOn]_vars
<1>1. Channel!Init => ChannelOrder
  BY EmptySeq DEF Channel!Init, ChannelOrder, InOrder
<1>2. ChannelOrder /\ [Channel!Next]_<<InFlight, received, forwarded>>
        => ChannelOrder' /\ ForwardsOn
  BY ChannelStep
<1> QED
  BY <1>1, <1>2, Refinement, PTL DEF RefinesChannel, Channel!Spec
=============================================================================
