-------------------------- MODULE PublishQueueProofs --------------------------
(***************************************************************************)
(* Proofs about PublishQueue, for any publishers, capacity and bounds.     *)
(*   OrderInv  how the numbers of the queued messages relate to the one    *)
(*             handed over last; it carries the refinement of LossyFifo.   *)
(*   CalmInv   what the timer and P hold while no PUBACK was disturbed; it *)
(*             carries the safety invariants.                              *)
(* The two together carry the order of the hand-over and what a PUBACK     *)
(* removes.                                                                *)
(* HeadIsLast is kept folded where a step is about truth values only.      *)
(***************************************************************************)
EXTENDS PublishQueue, TLAPS

-----------------------------------------------------------------------------
(* Sequences of messages.                                                  *)

LEMMA TailOfQueue ==
    ASSUME NEW q \in Seq(Message), q # <<>>
    PROVE  /\ Tail(q) \in Seq(Message)
           /\ Len(Tail(q)) = Len(q) - 1
           /\ Len(q) \in Nat \ {0}
           /\ Head(q) = q[1] /\ Head(q) \in Message
           /\ \A i \in 1..Len(Tail(q)) : Tail(q)[i] = q[i + 1]
OBVIOUS

LEMMA AppendToQueue ==
    ASSUME NEW q \in Seq(Message), NEW m \in Message
    PROVE  /\ Append(q, m) \in Seq(Message)
           /\ Append(q, m) # <<>>
           /\ Len(Append(q, m)) = Len(q) + 1
           /\ \A i \in 1..Len(q) : Append(q, m)[i] = q[i]
           /\ Append(q, m)[Len(q) + 1] = m
           /\ Head(Append(q, m)) = IF q = <<>> THEN m ELSE Head(q)
OBVIOUS

LEMMA ElementOfQueue ==
    ASSUME NEW q \in Seq(Message), NEW i \in 1..Len(q)
    PROVE  q[i] \in Message /\ q[i].id \in Nat /\ q # <<>>
<1>1. q[i] \in Message /\ q # <<>>
  OBVIOUS
<1> QED
  BY <1>1 DEF Message

-----------------------------------------------------------------------------
(* Types.                                                                  *)

LEMMA RemoveType ==
    ASSUME ContentsOK, NEW id, RemoveFor(id)
    PROVE  queue' \in Seq(Message) /\ Len(queue') <= Capacity /\ next' = next
<1>1. CASE queue = <<>>
  BY <1>1 DEF RemoveFor, ContentsOK
<1>2. CASE queue # <<>>
  BY <1>2, TailOfQueue, PublishQueueAssumption DEF RemoveFor, ContentsOK
<1> QED
  BY <1>1, <1>2

LEMMA ContentsKept == ASSUME ContentsOK, [Next]_vars PROVE ContentsOK'
<1> USE PublishQueueAssumption DEF ContentsOK
<1>1. ASSUME NEW p \in Publishers, Add(p) PROVE ContentsOK'
  <2>1. PICK q \in {0, 1} : queue' = Append(queue, [id |-> next, qos |-> q])
    BY <1>1 DEF Add
  <2>2. [id |-> next, qos |-> q] \in Message
    BY DEF Message
  <2>3. queue' \in Seq(Message) /\ Len(queue') = Len(queue) + 1
    BY <2>1, <2>2, AppendToQueue
  <2> QED
    BY <1>1, <2>3 DEF Add, session, callback
<1>2. ASSUME NEW p \in Publishers, CheckReady(p) \/ AddFails(p) PROVE ContentsOK'
  BY <1>2 DEF CheckReady, AddFails, session, contents, callback
<1>3. CASE Serve
  BY <1>3, TailOfQueue DEF Serve, session, contents, callback, Message
<1>4. CASE ServeFails \/ Serve0Done
  BY <1>4, RemoveType DEF ServeFails, Serve0Done, session, callback
<1>5. CASE Serve1Done
  BY <1>5 DEF Serve1Done, session, contents, callback, Message, NoMessage
<1>6. ASSUME NEW id \in acks, PubAck(id) \/ PubAckLost(id) PROVE ContentsOK'
  BY <1>6 DEF PubAck, PubAckLost, session, contents, callback
<1>7. CASE PubAckStop
  BY <1>7 DEF PubAckStop, session, contents
<1>8. CASE PubAckRemove
  BY <1>8, RemoveType DEF PubAckRemove, session
<1>9. CASE TimerExpired
  BY <1>9, RemoveType DEF TimerExpired, session, callback
<1>10. CASE GoDown
  BY <1>10 DEF GoDown, Move, Outage, callback
<1>11. CASE Reconnect
  BY <1>11 DEF Reconnect, EnterConnecting, Move, Outage, callback
<1>12. CASE ComeUp
  BY <1>12 DEF ComeUp, EnterConnecting, Move, callback
<1>13. CASE StartPublishing
  BY <1>13 DEF StartPublishing, Move, callback
<1>14. CASE UNCHANGED vars
  BY <1>14 DEF vars, session, contents, callback
<1> QED
  BY <1>1, <1>2, <1>3, <1>4, <1>5, <1>6, <1>7, <1>8, <1>9, <1>10, <1>11, <1>12,
     <1>13, <1>14
  DEF Next, Publish, ServeDone, Answer, Callback, Recover

LEMMA ControlKept == ASSUME ControlOK, [Next]_vars PROVE ControlOK'
<1> USE DEF ControlOK
<1>1. CASE Publish
  BY <1>1 DEF Publish, CheckReady, Add, AddFails, session, callback, history
<1>2. CASE Serve \/ ServeDone
  BY <1>2 DEF Serve, ServeDone, ServeFails, Serve0Done, Serve1Done, RemoveFor,
              session, callback, history
<1>3. CASE Answer \/ Callback \/ TimerExpired
  BY <1>3 DEF Answer, PubAck, PubAckLost, Callback, PubAckStop, PubAckRemove,
              TimerExpired, RemoveFor, session, callback, history
<1>4. CASE GoDown \/ Reconnect \/ Recover
  BY <1>4 DEF GoDown, Reconnect, Recover, ComeUp, EnterConnecting,
              StartPublishing, Move, callback
<1>5. CASE UNCHANGED vars
  BY <1>5 DEF vars, session, callback, history
<1> QED
  BY <1>1, <1>2, <1>3, <1>4, <1>5 DEF Next

\* The queue is a sequence of messages no longer than its capacity, and every
\* other variable keeps its type.
THEOREM TypeCorrect == Spec => []TypeOK
<1>1. Init => ContentsOK
  BY PublishQueueAssumption DEF Init, ContentsOK
<1>2. Init => ControlOK
  BY DEF Init, ControlOK
<1>3. TypeOK /\ [Next]_vars => TypeOK'
  BY ContentsKept, ControlKept DEF TypeOK
<1> QED
  BY <1>1, <1>2, <1>3, PTL DEF Spec, TypeOK

-----------------------------------------------------------------------------
(* The order of the numbers.                                               *)

HeadIsLast == queue # <<>> /\ Head(queue).id = last

OrderInv ==
    /\ last < next
    /\ \A i \in 1..Len(queue) : last <= queue[i].id /\ queue[i].id < next
    /\ \A i, j \in 1..Len(queue) : i < j => queue[i].id < queue[j].id
    /\ sending # NoMessage => sending.id = last
    /\ HeadIsLast => Head(queue).qos = 1 \/ Head(queue) = sending

\* A removal leaves the order, and a head that has not been handed over.
LEMMA RemoveOrder ==
    ASSUME ContentsOK, OrderInv, NEW id, RemoveFor(id), last' = last
    PROVE  /\ \A i \in 1..Len(queue') : last < queue'[i].id /\ queue'[i].id < next
           /\ \A i, j \in 1..Len(queue') : i < j => queue'[i].id < queue'[j].id
           /\ ~HeadIsLast'
<1>1. CASE queue = <<>>
  BY <1>1 DEF RemoveFor, HeadIsLast
<1>2. CASE queue # <<>>
  <2>1. queue' = Tail(queue)
    BY <1>2 DEF RemoveFor
  <2>2. /\ queue' \in Seq(Message) /\ Len(queue') = Len(queue) - 1
        /\ Len(queue) \in Nat \ {0}
        /\ \A i \in 1..Len(queue') : queue'[i] = queue[i + 1]
    BY <1>2, <2>1, TailOfQueue DEF ContentsOK
  <2>3. \A i \in 1..Len(queue) : queue[i].id \in Nat
    BY ElementOfQueue DEF ContentsOK
  <2>4. ASSUME NEW i \in 1..Len(queue')
        PROVE  last < queue'[i].id /\ queue'[i].id < next
    <3>1. 1 \in 1..Len(queue) /\ i + 1 \in 1..Len(queue) /\ 1 < i + 1
      BY <2>2
    <3>2. last <= queue[1].id /\ queue[1].id < queue[i + 1].id
          /\ queue[i + 1].id < next
      BY <3>1 DEF OrderInv
    <3> QED
      BY <2>2, <2>3, <3>1, <3>2 DEF ContentsOK
  <2>5. ASSUME NEW i \in 1..Len(queue'), NEW j \in 1..Len(queue'), i < j
        PROVE  queue'[i].id < queue'[j].id
    <3>1. i + 1 \in 1..Len(queue) /\ j + 1 \in 1..Len(queue) /\ i + 1 < j + 1
      BY <2>2, <2>5
    <3> QED
      BY <2>2, <3>1 DEF OrderInv
  <2>6. ~HeadIsLast'
    <3>1. CASE queue' = <<>>
      BY <3>1 DEF HeadIsLast
    <3>2. CASE queue' # <<>>
      <4>1. Head(queue') = queue'[1] /\ 1 \in 1..Len(queue')
        BY <2>2, <3>2, TailOfQueue
      <4>2. queue'[1] \in Message /\ queue'[1].id \in Nat
        BY <2>2, <4>1, ElementOfQueue
      <4>3. last < queue'[1].id
        BY <2>4, <4>1
      <4> QED
        BY <4>1, <4>2, <4>3 DEF HeadIsLast, ContentsOK
    <3> QED
      BY <3>1, <3>2
  <2> QED
    BY <2>4, <2>5, <2>6
<1> QED
  BY <1>1, <1>2

LEMMA RemoveKeepsOrder ==
    ASSUME ContentsOK, OrderInv, NEW id, RemoveFor(id), last' = last,
           sending' \in {sending, NoMessage}
    PROVE  OrderInv'
<1>1. next' = next
  BY DEF RemoveFor
<1>2. \A i \in 1..Len(queue') : last' <= queue'[i].id /\ queue'[i].id < next'
  <2> SUFFICES ASSUME NEW i \in 1..Len(queue')
               PROVE  last <= queue'[i].id /\ queue'[i].id < next
    BY <1>1
  <2>1. queue'[i].id \in Nat
    BY RemoveType, ElementOfQueue
  <2> QED
    BY <2>1, RemoveOrder DEF ContentsOK
<1> QED
  BY <1>1, <1>2, RemoveOrder DEF OrderInv

LEMMA OrderKept == ASSUME ContentsOK, OrderInv, [Next]_vars PROVE OrderInv'
<1>1. ASSUME NEW p \in Publishers, Add(p) PROVE OrderInv'
  <2>1. PICK q \in {0, 1} : queue' = Append(queue, [id |-> next, qos |-> q])
    BY <1>1 DEF Add
  <2> DEFINE m == [id |-> next, qos |-> q]
  <2>2. m \in Message /\ m.id = next
    BY DEF Message, ContentsOK
  <2> HIDE DEF m
  <2>3. /\ queue' # <<>> /\ Len(queue') = Len(queue) + 1
        /\ \A i \in 1..Len(queue) : queue'[i] = queue[i]
        /\ queue'[Len(queue) + 1] = m
        /\ Head(queue') = IF queue = <<>> THEN m ELSE Head(queue)
    BY <2>1, <2>2, AppendToQueue DEF ContentsOK, m
  <2>4. next' = next + 1 /\ UNCHANGED <<last, sending>>
    BY <1>1 DEF Add
  <2>5. Len(queue) \in Nat
    BY DEF ContentsOK
  <2>6. ASSUME NEW i \in 1..Len(queue')
        PROVE  last <= queue'[i].id /\ queue'[i].id < next + 1
    <3>1. CASE i = Len(queue) + 1
      BY <2>2, <2>3, <3>1 DEF OrderInv, ContentsOK
    <3>2. CASE i # Len(queue) + 1
      <4>1. i \in 1..Len(queue)
        BY <2>3, <2>5, <3>2
      <4>2. queue[i].id \in Nat
        BY <4>1, ElementOfQueue DEF ContentsOK
      <4> QED
        BY <2>3, <4>1, <4>2 DEF OrderInv, ContentsOK
    <3> QED
      BY <3>1, <3>2
  <2>7. ASSUME NEW i \in 1..Len(queue'), NEW j \in 1..Len(queue'), i < j
        PROVE  queue'[i].id < queue'[j].id
    <3>1. i \in 1..Len(queue)
      BY <2>3, <2>5, <2>7
    <3>2. CASE j = Len(queue) + 1
      BY <2>2, <2>3, <3>1, <3>2 DEF OrderInv
    <3>3. CASE j # Len(queue) + 1
      <4>1. j \in 1..Len(queue)
        BY <2>3, <2>5, <3>3
      <4> QED
        BY <2>3, <2>7, <3>1, <4>1 DEF OrderInv
    <3> QED
      BY <3>2, <3>3
  <2>8. HeadIsLast' => HeadIsLast /\ Head(queue') = Head(queue)
    BY <2>2, <2>3, <2>4 DEF HeadIsLast, OrderInv, ContentsOK
  <2>9. last' < next'
    BY <2>4 DEF OrderInv, ContentsOK
  <2> QED
    BY <2>4, <2>6, <2>7, <2>8, <2>9 DEF OrderInv
<1>2. CASE Serve
  <2>1. UNCHANGED contents /\ sending' = Head(queue) /\ last' = Head(queue).id
        /\ queue # <<>>
    BY <1>2 DEF Serve
  <2>2. Head(queue) = queue[1] /\ Len(queue) \in Nat \ {0}
        /\ Head(queue) \in Message
    BY <2>1, TailOfQueue DEF ContentsOK
  <2>3. queue[1].id < next
    BY <2>2 DEF OrderInv
  <2>4. ASSUME NEW i \in 1..Len(queue) PROVE queue[1].id <= queue[i].id
    <3>1. queue[i].id \in Nat /\ queue[1].id \in Nat
      BY <2>2, ElementOfQueue DEF ContentsOK
    <3>2. i = 1 \/ 1 < i
      OBVIOUS
    <3> QED
      BY <2>2, <3>1, <3>2 DEF OrderInv
  <2>5. HeadIsLast' => Head(queue') = sending'
    BY <2>1 DEF contents
  <2> QED
    BY <2>1, <2>2, <2>3, <2>4, <2>5 DEF OrderInv, contents
<1>3. CASE ServeFails \/ Serve0Done
  BY <1>3, RemoveKeepsOrder DEF ServeFails, Serve0Done
<1>4. CASE Serve1Done
  BY <1>4 DEF Serve1Done, contents, OrderInv, HeadIsLast
<1>5. CASE PubAckRemove
  BY <1>5, RemoveKeepsOrder DEF PubAckRemove
<1>6. CASE TimerExpired
  BY <1>6, RemoveKeepsOrder DEF TimerExpired
<1>7. CASE EnterConnecting
  BY <1>7 DEF EnterConnecting, Move, OrderInv, HeadIsLast
<1>8. CASE UNCHANGED <<queue, next, last, sending>>
  BY <1>8 DEF OrderInv, HeadIsLast
<1>9. ASSUME NEW p \in Publishers, CheckReady(p) \/ AddFails(p)
      PROVE  UNCHANGED <<queue, next, last, sending>>
  BY <1>9 DEF CheckReady, AddFails, contents
<1>10. CASE Answer \/ PubAckStop
  <2>1. UNCHANGED <<queue, next, last, sending>>
    BY <1>10 DEF Answer, PubAck, PubAckLost, PubAckStop, contents
  <2> QED
    BY <1>8, <2>1
<1>11. CASE GoDown \/ StartPublishing \/ UNCHANGED vars
  <2>1. UNCHANGED <<queue, next, last, sending>>
    BY <1>11 DEF GoDown, StartPublishing, Move, vars, contents
  <2> QED
    BY <1>8, <2>1
<1> QED
  BY <1>1, <1>2, <1>3, <1>4, <1>5, <1>6, <1>7, <1>8, <1>9, <1>10, <1>11
  DEF Next, Publish, ServeDone, Callback, Reconnect, Recover, ComeUp

LEMMA OrderAlways == Spec => [](TypeOK /\ OrderInv)
<1>1. Init => OrderInv
  BY DEF Init, OrderInv, HeadIsLast
<1>2. TypeOK /\ OrderInv /\ [Next]_vars => OrderInv'
  BY OrderKept DEF TypeOK
<1> QED
  BY <1>1, <1>2, TypeCorrect, PTL DEF Spec

-----------------------------------------------------------------------------
(* The refinement of LossyFifo.                                            *)

LEMMA FifoRemove ==
    ASSUME NEW id, RemoveFor(id), UNCHANGED last
    PROVE  Fifo!DropOldest
BY DEF RemoveFor, Fifo!DropOldest

\* A head that may be handed over: never one that came before the last one,
\* and none of QoS 0 a second time.
LEMMA FifoHead ==
    ASSUME ContentsOK, OrderInv, queue # <<>>, sending = NoMessage
    PROVE  /\ Head(queue).id >= last
           /\ Head(queue).qos = 0 => Head(queue).id > last
<1>1. Head(queue) = queue[1] /\ Head(queue) \in Message /\ 1 \in 1..Len(queue)
  BY TailOfQueue DEF ContentsOK
<1>2. Head(queue).id \in Nat \ {0}
  BY <1>1 DEF Message
<1>3. last <= Head(queue).id
  BY <1>1 DEF OrderInv
<1>4. Head(queue) # sending
  BY <1>2 DEF NoMessage
<1>5. Head(queue).qos = 0 => Head(queue).id # last
  BY <1>4 DEF OrderInv, HeadIsLast
<1> QED
  BY <1>2, <1>3, <1>5 DEF ContentsOK

fifo == <<queue, next, last, sending>>

\* A call of mqtt_publish that ends.
LEMMA FifoFinish == ASSUME ServeDone PROVE Fifo!Finish
<1>1. CASE ServeFails
  BY <1>1, FifoRemove DEF ServeFails, NoMessage, Fifo!Finish, Fifo!NoMessage
<1>2. CASE Serve0Done
  BY <1>2, FifoRemove DEF Serve0Done, NoMessage, Fifo!Finish, Fifo!NoMessage
<1>3. CASE Serve1Done
  BY <1>3 DEF Serve1Done, contents, NoMessage, Fifo!Finish, Fifo!NoMessage
<1> QED
  BY <1>1, <1>2, <1>3 DEF ServeDone

LEMMA FifoStep ==
    ASSUME ContentsOK, OrderInv, [Next]_vars
    PROVE  Fifo!Next \/ UNCHANGED fifo
<1>1. ASSUME NEW p \in Publishers, Add(p) PROVE Fifo!Accept
  BY <1>1 DEF Add, Fifo!Accept
<1>2. CASE Serve
  BY <1>2, FifoHead
  DEF Serve, contents, NoMessage, Fifo!Next, Fifo!HandOver, Fifo!NoMessage
<1>3. CASE PubAckRemove \/ TimerExpired
  BY <1>3, FifoRemove DEF PubAckRemove, TimerExpired, Fifo!Next, Fifo!Drop
<1>4. CASE EnterConnecting
  BY <1>4 DEF EnterConnecting, Move, Fifo!Next, Fifo!DropAll
<1>5. ASSUME NEW p \in Publishers, CheckReady(p) \/ AddFails(p)
      PROVE  UNCHANGED fifo
  BY <1>5 DEF CheckReady, AddFails, contents, fifo
<1>6. CASE Answer \/ PubAckStop
  BY <1>6 DEF Answer, PubAck, PubAckLost, PubAckStop, contents, fifo
<1>7. CASE GoDown \/ StartPublishing
  BY <1>7 DEF GoDown, StartPublishing, Move, fifo
<1>8. CASE UNCHANGED vars
  BY <1>8 DEF vars, contents, fifo
<1>9. CASE ServeDone
  BY <1>9, FifoFinish DEF Fifo!Next
<1> QED
  BY <1>1, <1>2, <1>3, <1>4, <1>5, <1>6, <1>7, <1>8, <1>9
  DEF Next, Publish, Callback, Reconnect, Recover, ComeUp, Fifo!Next

\* The queue implements the lossy FIFO: every step of the code is one of the
\* abstract steps or leaves queue, numbering and hand-over alone.
THEOREM Refinement == Spec => RefinesFifo
<1>1. Init => Fifo!Init
  BY DEF Init, Fifo!Init, NoMessage, Fifo!NoMessage
<1>2. TypeOK /\ OrderInv /\ [Next]_vars
        => [Fifo!Next]_<<queue, next, last, sending>>
  BY FifoStep DEF TypeOK, fifo
<1> QED
  BY <1>1, <1>2, OrderAlways, PTL DEF Spec, RefinesFifo, Fifo!Spec

-----------------------------------------------------------------------------
(* What holds as long as no PUBACK was disturbed.                          *)

Busy == sending # NoMessage

\* At most one of T (in mqtt_publish), the timer and P (between its two steps)
\* is responsible for the head, and it is the message handed over last; a head
\* that was handed over and is nobody's would be sent again.
Responsible ==
    /\ Busy => ~timer /\ ppc # "stopped"
    /\ timer => ppc # "stopped"
    /\ timer \/ ppc = "stopped" => HeadIsLast
    /\ Busy \/ timer => fsm = "Publishing"
    /\ HeadIsLast /\ fsm = "Publishing" => Busy \/ timer \/ ppc = "stopped"
    /\ fsm = "Connecting" => ~HeadIsLast

CalmInv ==
    ~disturbed =>
        /\ ~lostUnsent
        /\ Responsible
        /\ Busy => queue # <<>> /\ Head(queue) = sending
        /\ ppc = "stopped" => acked = last

\* Removing the message handed over last is no loss.
LEMMA RemoveLast ==
    ASSUME ContentsOK, HeadIsLast, NEW id, id = last, RemoveFor(id), ~lostUnsent
    PROVE  ~lostUnsent'
<1>1. ~(queue # <<>> /\ Head(queue).id > id)
  BY DEF HeadIsLast, ContentsOK
<1>2. lostUnsent' = (lostUnsent \/ (queue # <<>> /\ Head(queue).id > id))
  BY DEF RemoveFor
<1> QED
  BY <1>1, <1>2, Zenon

LEMMA CalmKept ==
    ASSUME TypeOK, OrderInv, CalmInv, [Next]_vars
    PROVE  CalmInv'
<1> USE DEF CalmInv, Responsible
<1>0. disturbed => disturbed'
  BY DEF Next, Publish, CheckReady, Add, AddFails, Serve, ServeDone, ServeFails,
         Serve0Done, Serve1Done, Answer, PubAck, PubAckLost, Callback, PubAckStop,
         PubAckRemove, TimerExpired, GoDown, Reconnect, Recover, ComeUp,
         EnterConnecting, StartPublishing, Move, vars, history
<1> SUFFICES ASSUME ~disturbed, ~disturbed' PROVE CalmInv'
  BY <1>0
<1>1. ASSUME NEW p \in Publishers, Add(p) PROVE CalmInv'
  <2>1. PICK q \in {0, 1} : queue' = Append(queue, [id |-> next, qos |-> q])
    BY <1>1 DEF Add
  <2>2. [id |-> next, qos |-> q] \in Message
    BY DEF Message, TypeOK, ContentsOK
  <2>3. queue' # <<>>
        /\ Head(queue') = IF queue = <<>> THEN [id |-> next, qos |-> q]
                          ELSE Head(queue)
    BY <2>1, <2>2, AppendToQueue DEF TypeOK, ContentsOK
  <2>4. last' = last /\ next # last
    BY <1>1 DEF Add, OrderInv, TypeOK, ContentsOK
  <2>5. HeadIsLast' <=> HeadIsLast
    BY <2>3, <2>4 DEF HeadIsLast
  <2>6. queue # <<>> => Head(queue') = Head(queue)
    BY <2>3
  <2>7. UNCHANGED <<fsm, timer, ppc, acked, lostUnsent, sending>>
    BY <1>1 DEF Add, session, callback, history
  <2> QED
    BY <2>3, <2>4, <2>5, <2>6, <2>7 DEF Busy
<1>2. CASE Serve
  <2>1. ppc # "stopped"
    BY <1>2 DEF Serve
  <2>2. queue' # <<>> /\ sending' = Head(queue') /\ HeadIsLast'
    BY <1>2 DEF Serve, contents, HeadIsLast
  <2>3. ~timer' /\ ppc' # "stopped" /\ fsm' = "Publishing" /\ ~lostUnsent'
    BY <1>2, <2>1 DEF Serve, session, callback
  <2>4. Busy'
    <3>1. Head(queue) \in Message
      BY <1>2, TailOfQueue DEF Serve, TypeOK, ContentsOK
    <3>2. sending' = Head(queue)
      BY <1>2 DEF Serve
    <3> QED
      BY <3>1, <3>2 DEF Busy, Message, NoMessage
  <2> QED
    BY <2>2, <2>3, <2>4
<1>3. CASE ServeFails \/ Serve0Done
  <2>1. Busy /\ ~Busy' /\ RemoveFor(sending.id) /\ last' = last
    BY <1>3 DEF ServeFails, Serve0Done, Busy
  <2>2. ~HeadIsLast'
    BY <2>1, RemoveOrder DEF TypeOK
  <2>3. HeadIsLast /\ sending.id = last
    BY <2>1 DEF Busy, OrderInv, HeadIsLast
  <2>4. ~lostUnsent'
    BY <2>1, <2>3, RemoveLast DEF TypeOK
  <2>5. ~timer' /\ ppc' # "stopped"
    BY <1>3, <2>1 DEF ServeFails, Serve0Done, callback
  <2> QED
    BY <2>1, <2>2, <2>4, <2>5
<1>4. CASE Serve1Done
  <2>1. Busy /\ ~Busy' /\ timer' /\ UNCHANGED <<queue, last, fsm, ppc, lostUnsent>>
    BY <1>4 DEF Serve1Done, Busy, contents, session, callback, history
  <2>2. HeadIsLast
    BY <2>1 DEF Busy, OrderInv, HeadIsLast
  <2>3. HeadIsLast'
    BY <2>1, <2>2 DEF HeadIsLast
  <2> QED
    BY <2>1, <2>3
<1>5. CASE PubAckStop
  <2>1. timer /\ acked = last
    BY <1>5 DEF PubAckStop
  <2>2. UNCHANGED <<queue, last, fsm, sending, acked, lostUnsent>> /\ ~timer'
        /\ ppc' = "stopped"
    BY <1>5 DEF PubAckStop, contents, session
  <2>3. HeadIsLast' <=> HeadIsLast
    BY <2>2 DEF HeadIsLast
  <2> QED
    BY <2>1, <2>2, <2>3 DEF Busy
<1>6. CASE PubAckRemove
  <2>1. RemoveFor(acked) /\ acked = last /\ HeadIsLast /\ last' = last
    BY <1>6 DEF PubAckRemove
  <2>2. ~HeadIsLast' /\ ~lostUnsent'
    BY <2>1, RemoveOrder, RemoveLast DEF TypeOK
  <2>3. ~Busy' /\ ~timer' /\ ppc' # "stopped"
    BY <1>6 DEF PubAckRemove, Busy
  <2> QED
    BY <2>2, <2>3
<1>7. CASE TimerExpired
  <2>1. timer /\ ~timer' /\ RemoveFor(last) /\ last' = last
    BY <1>7 DEF TimerExpired
  <2>2. HeadIsLast
    BY <2>1
  <2>3. ~HeadIsLast' /\ ~lostUnsent'
    BY <2>1, <2>2, RemoveOrder, RemoveLast DEF TypeOK
  <2>4. ~Busy' /\ ppc' # "stopped"
    BY <1>7, <2>1 DEF TimerExpired, Busy, callback
  <2> QED
    BY <2>1, <2>3, <2>4
<1>8. CASE GoDown \/ StartPublishing \/ EnterConnecting
  <2>1. ~Busy /\ ~Busy' /\ ppc' # "stopped" /\ ~lostUnsent'
    <3>1. PICK state : Move(state)
      BY <1>8 DEF GoDown, StartPublishing, EnterConnecting
    <3>2. disturbed' = (disturbed \/ ppc = "stopped")
      BY <3>1 DEF Move
    <3>3. ppc # "stopped"
      BY <3>2, Zenon
    <3>4. UNCHANGED <<ppc, lostUnsent, sending>> /\ sending = NoMessage
      BY <3>1 DEF Move, callback
    <3>5. ~lostUnsent
      OBVIOUS
    <3> QED
      BY <3>3, <3>4, <3>5 DEF Busy
  <2>2. CASE GoDown
    <3>1. fsm' = "NetDown" /\ ~timer'
      BY <2>2 DEF GoDown, Move
    <3> QED
      BY <2>1, <3>1
  <2>3. CASE EnterConnecting
    <3>1. queue' = <<>> /\ ~timer'
      BY <2>3 DEF EnterConnecting
    <3> QED
      BY <2>1, <3>1 DEF HeadIsLast
  <2>4. CASE StartPublishing
    <3>1. fsm = "Connecting" /\ UNCHANGED <<queue, last, timer>>
      BY <2>4 DEF StartPublishing, Move
    <3>2. ~HeadIsLast'
      BY <3>1 DEF HeadIsLast
    <3> QED
      BY <2>1, <3>1, <3>2
  <2> QED
    BY <1>8, <2>2, <2>3, <2>4
<1>9. ASSUME UNCHANGED <<queue, last, sending, timer, fsm, lostUnsent>>,
             \/ UNCHANGED <<ppc, acked>>
             \/ ppc = "idle" /\ ppc' = "acked"
      PROVE  CalmInv'
  <2>1. HeadIsLast' <=> HeadIsLast
    BY <1>9 DEF HeadIsLast
  <2> QED
    BY <1>9, <2>1 DEF Busy
<1>10. ASSUME NEW p \in Publishers, CheckReady(p) \/ AddFails(p) PROVE CalmInv'
  <2>1. UNCHANGED <<queue, last, sending, timer, fsm, lostUnsent, ppc, acked>>
    BY <1>10 DEF CheckReady, AddFails, contents, session, callback, history
  <2> QED
    BY <1>9, <2>1
<1>11. ASSUME NEW id \in acks, PubAck(id) \/ PubAckLost(id) PROVE CalmInv'
  <2>1. UNCHANGED <<queue, last, sending, timer, fsm, lostUnsent>>
    BY <1>11 DEF PubAck, PubAckLost, contents, session, history
  <2>2. \/ UNCHANGED <<ppc, acked>>
        \/ ppc = "idle" /\ ppc' = "acked"
    BY <1>11 DEF PubAck, PubAckLost, callback
  <2> QED
    BY <1>9, <2>1, <2>2
<1>12. CASE UNCHANGED vars
  <2>1. UNCHANGED <<queue, last, sending, timer, fsm, lostUnsent, ppc, acked>>
    BY <1>12 DEF vars, contents, session, callback, history
  <2> QED
    BY <1>9, <2>1
<1> QED
  BY <1>1, <1>2, <1>3, <1>4, <1>5, <1>6, <1>7, <1>8, <1>10, <1>11, <1>12
  DEF Next, Publish, ServeDone, Answer, Callback, Reconnect, Recover, ComeUp

LEMMA CalmAlways == Spec => [](TypeOK /\ OrderInv /\ CalmInv)
<1>1. Init => CalmInv
  BY DEF Init, CalmInv, Responsible, HeadIsLast, Busy
<1>2. TypeOK /\ OrderInv /\ CalmInv /\ [Next]_vars => CalmInv'
  BY CalmKept
<1> QED
  BY <1>1, <1>2, OrderAlways, PTL DEF Spec

\* As long as no PUBACK comes late or is interrupted, no message is removed on
\* behalf of another one.
THEOREM NoLoss == Spec => []NoLossUndisturbed
<1>1. CalmInv => NoLossUndisturbed
  BY DEF CalmInv, NoLossUndisturbed
<1> QED
  BY <1>1, CalmAlways, PTL

\* ... the memory that mqtt_publish reads is not freed meanwhile ...
THEOREM Held == Spec => []HeldWhileSent
<1>1. CalmInv => HeldWhileSent
  BY DEF CalmInv, HeldWhileSent, Busy
<1> QED
  BY <1>1, CalmAlways, PTL

\* ... and the timer and the PUBACK are about the head, which is not sent again
\* while one of them is due.
THEOREM TimerGuards == Spec => []TimerGuardsHead
<1>1. CalmInv => TimerGuardsHead
  BY DEF CalmInv, Responsible, TimerGuardsHead, Busy, HeadIsLast
<1> QED
  BY <1>1, CalmAlways, PTL

-----------------------------------------------------------------------------
(* What a step may never do.                                               *)

\* What is handed to mqtt_publish is never older than what was handed over
\* before. It is newer if it has QoS 0, or if no PUBACK was disturbed.
HandsOverInOrder ==
    /\ last <= last'
    /\ sending = NoMessage /\ sending' # NoMessage =>
         /\ last' = sending'.id
         /\ sending'.qos = 0 \/ ~disturbed' => last < last'

\* The head that P removes is the message its PUBACK is about.
RemovesItsOwn ==
    ppc = "stopped" /\ ppc' = "idle" /\ ~disturbed =>
        queue # <<>> /\ Head(queue).id = acked /\ acked <= last

\* Nothing but T inside mqtt_publish changes what was handed over last.
LEMMA OnlyServeHandsOver ==
    ASSUME [Next]_vars
    PROVE  Serve \/ (last' = last /\ (sending' = sending \/ sending' = NoMessage))
<1>1. CASE Publish \/ Answer \/ Callback \/ TimerExpired
  BY <1>1 DEF Publish, CheckReady, Add, AddFails, Answer, PubAck, PubAckLost,
     Callback, PubAckStop, PubAckRemove, TimerExpired
<1>2. CASE ServeDone
  BY <1>2 DEF ServeDone, ServeFails, Serve0Done, Serve1Done
<1>3. CASE GoDown \/ Reconnect \/ Recover
  BY <1>3 DEF GoDown, Reconnect, Recover, ComeUp, EnterConnecting,
     StartPublishing, Move
<1>4. CASE UNCHANGED vars
  BY <1>4 DEF vars
<1> QED
  BY <1>1, <1>2, <1>3, <1>4 DEF Next

LEMMA ServeHandsOver ==
    ASSUME TypeOK, OrderInv, CalmInv, Serve
    PROVE  HandsOverInOrder
<1>1. /\ last' = Head(queue).id /\ sending' = Head(queue)
      /\ queue # <<>> /\ sending = NoMessage /\ fsm = "Publishing" /\ ~timer
      /\ disturbed' = (disturbed \/ ppc = "stopped")
  BY DEF Serve
<1>2. Head(queue).id >= last /\ (Head(queue).qos = 0 => Head(queue).id > last)
  BY <1>1, FifoHead DEF TypeOK
<1>3. last \in Nat /\ Head(queue).id \in Nat
  BY <1>1, TailOfQueue DEF TypeOK, ContentsOK, Message
<1>4. ~disturbed' => ~disturbed /\ ppc # "stopped"
  BY <1>1, Zenon
<1>5. ~disturbed' => ~HeadIsLast
  BY <1>1, <1>4 DEF CalmInv, Responsible, Busy
<1>6. ~disturbed' => Head(queue).id # last
  BY <1>1, <1>5 DEF HeadIsLast
<1>7. last <= last' /\ (sending'.qos = 0 => last < last')
  BY <1>1, <1>2, <1>3
<1>8. ~disturbed' => last < last'
  BY <1>1, <1>2, <1>3, <1>6
<1> QED
  BY <1>1, <1>7, <1>8, Zenon DEF HandsOverInOrder

\* However publishers, T, P and the timer interleave, messages are handed over
\* in the order of their acceptance, one of QoS 0 once at most; one of QoS 1
\* again only after a PUBACK that was stray or interrupted (transport_fsm.c
\* 488-541).
THEOREM HandedOverInOrder == Spec => [][HandsOverInOrder]_vars
<1>1. TypeOK /\ OrderInv /\ CalmInv /\ [Next]_vars => HandsOverInOrder
  <2> SUFFICES ASSUME TypeOK, OrderInv, CalmInv, [Next]_vars
               PROVE  HandsOverInOrder
    OBVIOUS
  <2>1. CASE Serve
    BY <2>1, ServeHandsOver
  <2>2. CASE ~Serve
    BY <2>2, OnlyServeHandsOver DEF HandsOverInOrder, TypeOK, ContentsOK
  <2> QED
    BY <2>1, <2>2
<1> QED
  BY <1>1, CalmAlways, PTL DEF Spec

\* "callback when a qos 1 message is published" (transport_fsm.c 518) is true of
\* every PUBACK that is neither late nor interrupted: what it removes was
\* published, and is what the PUBACK is about. PubAckRemovesPublished, which
\* says so of every PUBACK, is not true of the code.
THEOREM PubAckRemovesItsOwn == Spec => [][RemovesItsOwn]_vars
<1>1. TypeOK /\ CalmInv => RemovesItsOwn
  BY DEF CalmInv, Responsible, HeadIsLast, RemovesItsOwn, TypeOK, ContentsOK
<1> QED
  BY <1>1, CalmAlways, PTL
=============================================================================
