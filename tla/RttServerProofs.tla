--------------------------- MODULE RttServerProofs ---------------------------
(***************************************************************************)
(* Proofs about RttServer. Inductive adds to ThreadsLive why it holds: a   *)
(* loop goes on with an open file, and the None of stop_CS is the only one *)
(* of the queue, and gone when the worker has ended by it. RowsInv adds to *)
(* RowsTrue how loop, queue and worker hand a trigger and its answers on.  *)
(***************************************************************************)
EXTENDS RttServer, SequenceTheorems, TLAPS

Nones == {i \in DOMAIN queue : queue[i] = Exit}

LogOpen == LoopAlive => log = "open" \/ "capture" \in fault

LoopLives == active => LoopAlive \/ {"capture", "client"} \cap fault # {}

JoinWaits == ~running /\ upc # "stopping" => wpc = "dead"

OneNone ==
    \/ "left" \in fault
    \/ /\ running => wpc # "dead" /\ Nones = {}
       /\ ~running /\ wpc = "dead" => Nones = {}
       /\ ~running /\ wpc # "dead" => \A i, j \in Nones : i = j

Inductive == TypeOK /\ LogOpen /\ LoopLives /\ JoinWaits /\ OneNone
-----------------------------------------------------------------------------
(* Types.                                                                  *)

\* Init gives every variable a value of its type.
LEMMA InitTypes == Init => TypeOK
<1> SUFFICES ASSUME Init PROVE TypeOK
  OBVIOUS
<1>1. UserTypes
  <2>1. toggles \in 0..MaxToggles /\ stops \in 0..MaxStops
    BY RttServerAssumption DEF Init
  <2>2. QED
    BY <2>1 DEF Init, UserTypes
<1>2. LoopTypes
  <2>1. packet \in 0..Iterations /\ count \in [Test -> 0..Iterations]
    BY RttServerAssumption DEF Init
  <2>2. lpc \in [Test -> {"none"}] /\ \A l \in Test : lpc[l] = "none"
    BY DEF Init
  <2>3. QED
    BY <2>1, <2>2 DEF Init, LoopTypes
<1>3. WorkerTypes
  BY DEF Init, WorkerTypes, Message
<1>4. HistoryTypes
  BY RttServerAssumption DEF Init, HistoryTypes
<1>5. QED
  BY <1>1, <1>2, <1>3, <1>4 DEF TypeOK

\* What arrives is a message.
LEMMA ArriveMessage ==
  ASSUME TypeOK, NEW t \in Trigger, Arrive(t)
  PROVE  LET m == [to |-> t, no |-> answers + 1, stamp |-> last,
                   inTime |-> ~expired]
         IN  /\ m \in Message /\ m # Exit
             /\ queue \in Seq(Message) /\ queue' = Append(queue, m)
<1> DEFINE m == [to |-> t, no |-> answers + 1, stamp |-> last,
                 inTime |-> ~expired]
<1>1. answers + 1 \in 1..MaxAnswers
  BY RttServerAssumption DEF Arrive, TypeOK, HistoryTypes
<1>2. last \in Trigger \cup {NoTrigger} /\ expired \in BOOLEAN
  BY DEF TypeOK, LoopTypes
<1>3. m \in Message
  BY <1>1, <1>2 DEF Message
<1>4. m # Exit
  <2>1. t.test # 0
    BY DEF Trigger, Test
  <2>2. m.to # Exit.to
    BY <2>1 DEF Exit, NoTrigger
  <2>3. QED
    BY <2>2
<1>5. queue \in Seq(Message) /\ queue' = Append(queue, m)
  BY DEF Arrive, TypeOK, WorkerTypes
<1>6. QED
  BY <1>3, <1>4, <1>5

\* What the worker takes is the first message, and the others move up.
LEMMA TakeFirst ==
  ASSUME TypeOK, Take
  PROVE  /\ Head(queue) \in Message
         /\ 1 \in DOMAIN queue /\ queue[1] = Head(queue)
         /\ queue' \in Seq(Message)
         /\ \A i \in DOMAIN queue' : i + 1 \in DOMAIN queue
                                    /\ queue'[i] = queue[i + 1]
         /\ \A i \in DOMAIN queue : i # 1 => i - 1 \in DOMAIN queue'
                                            /\ queue'[i - 1] = queue[i]
<1>1. queue \in Seq(Message) /\ queue # <<>> /\ queue' = Tail(queue)
  BY DEF Take, TypeOK, WorkerTypes
<1>2. QED
  BY <1>1

\* Every step keeps the types.
LEMMA TypesStep ==
  ASSUME TypeOK, [Next]_vars PROVE TypeOK'
<1>1. CASE \E l \in Test : StartTest(l)
  <2> PICK l \in Test : StartTest(l)
    BY <1>1
  <2>1. UserTypes'
    BY DEF StartTest, TypeOK, UserTypes, server, capture
  <2>2. LoopTypes'
    BY DEF StartTest, TypeOK, LoopTypes, server
  <2>3. WorkerTypes'
    BY DEF StartTest, TypeOK, WorkerTypes, worker
  <2>4. HistoryTypes'
    BY DEF StartTest, TypeOK, HistoryTypes, network
  <2>5. QED
    BY <2>1, <2>2, <2>3, <2>4 DEF TypeOK
<1>2. CASE StopTest
  <2>1. UserTypes'
    BY <1>2 DEF StopTest, TypeOK, UserTypes, capture
  <2>2. LoopTypes'
    BY <1>2 DEF StopTest, TypeOK, LoopTypes, loops
  <2>3. WorkerTypes'
    BY <1>2 DEF StopTest, TypeOK, WorkerTypes, worker
  <2>4. HistoryTypes'
    BY <1>2 DEF StopTest, TypeOK, HistoryTypes, network
  <2>5. QED
    BY <2>1, <2>2, <2>3, <2>4 DEF TypeOK
<1>3. CASE Progress
  <2>1. UserTypes'
    BY <1>3 DEF Progress, TypeOK, UserTypes, server, capture
  <2>2. LoopTypes'
    BY <1>3 DEF Progress, TypeOK, LoopTypes, server, loops
  <2>3. WorkerTypes'
    BY <1>3 DEF Progress, TypeOK, WorkerTypes, worker
  <2>4. HistoryTypes'
    BY <1>3 DEF Progress, TypeOK, HistoryTypes, network
  <2>5. QED
    BY <2>1, <2>2, <2>3, <2>4 DEF TypeOK
<1>4. CASE EnableFlags
  <2>1. UserTypes'
    <3>1. (toggles \in 0..MaxToggles /\ stops \in 0..MaxStops)'
      BY <1>4, RttServerAssumption DEF EnableFlags, TypeOK, UserTypes, server
    <3>2. upc' \in {"idle", "opening", "reopening", "renewing",
               "closing", "dropping", "stopping"}
      BY <1>4 DEF EnableFlags, TypeOK, UserTypes, server
    <3>3. (rtt \in BOOLEAN /\ running \in BOOLEAN)'
      BY <1>4 DEF EnableFlags, TypeOK, UserTypes, server
    <3>4. (start \in BOOLEAN /\ stop \in BOOLEAN /\ dir \in BOOLEAN)'
      BY <1>4 DEF EnableFlags, TypeOK, UserTypes, server
    <3>5. log' \in {"none", "open", "closed"}
      BY <1>4 DEF EnableFlags, TypeOK, UserTypes, server
    <3>6. QED
      BY <3>1, <3>2, <3>3, <3>4, <3>5 DEF UserTypes
  <2>2. LoopTypes'
    BY <1>4 DEF EnableFlags, TypeOK, LoopTypes, server, loops
  <2>3. WorkerTypes'
    BY <1>4 DEF EnableFlags, TypeOK, WorkerTypes, worker
  <2>4. HistoryTypes'
    BY <1>4 DEF EnableFlags, TypeOK, HistoryTypes, Disturbs, network
  <2>5. QED
    BY <2>1, <2>2, <2>3, <2>4 DEF TypeOK
<1>5. CASE EnableClose
  <2>1. UserTypes'
    BY <1>5 DEF EnableClose, TypeOK, UserTypes, server
  <2>2. LoopTypes'
    BY <1>5 DEF EnableClose, TypeOK, LoopTypes, server, loops
  <2>3. WorkerTypes'
    BY <1>5 DEF EnableClose, TypeOK, WorkerTypes, worker
  <2>4. HistoryTypes'
    BY <1>5 DEF EnableClose, TypeOK, HistoryTypes, Disturbs, network
  <2>5. QED
    BY <2>1, <2>2, <2>3, <2>4 DEF TypeOK
<1>6. CASE EnableDrop
  <2>1. UserTypes'
    BY <1>6 DEF EnableDrop, TypeOK, UserTypes, server
  <2>2. LoopTypes'
    BY <1>6 DEF EnableDrop, TypeOK, LoopTypes, server, loops
  <2>3. WorkerTypes'
    BY <1>6 DEF EnableDrop, TypeOK, WorkerTypes, worker
  <2>4. HistoryTypes'
    BY <1>6 DEF EnableDrop, TypeOK, HistoryTypes, Disturbs, network
  <2>5. QED
    BY <2>1, <2>2, <2>3, <2>4 DEF TypeOK
<1>7. CASE EnableOpen
  <2>1. UserTypes'
    BY <1>7 DEF EnableOpen, TypeOK, UserTypes, server
  <2>2. LoopTypes'
    BY <1>7 DEF EnableOpen, TypeOK, LoopTypes, server, loops
  <2>3. WorkerTypes'
    BY <1>7 DEF EnableOpen, TypeOK, WorkerTypes, worker
  <2>4. HistoryTypes'
    BY <1>7 DEF EnableOpen, TypeOK, HistoryTypes, Disturbs, network
  <2>5. QED
    BY <2>1, <2>2, <2>3, <2>4 DEF TypeOK
<1>8. CASE DisableFlags
  <2>1. UserTypes'
    <3>1. (toggles \in 0..MaxToggles /\ stops \in 0..MaxStops)'
      BY <1>8, RttServerAssumption DEF DisableFlags, TypeOK, UserTypes, server
    <3>2. upc' \in {"idle", "opening", "reopening", "renewing",
               "closing", "dropping", "stopping"}
      BY <1>8 DEF DisableFlags, TypeOK, UserTypes, server
    <3>3. (rtt \in BOOLEAN /\ running \in BOOLEAN)'
      BY <1>8 DEF DisableFlags, TypeOK, UserTypes, server
    <3>4. (start \in BOOLEAN /\ stop \in BOOLEAN /\ dir \in BOOLEAN)'
      BY <1>8 DEF DisableFlags, TypeOK, UserTypes, server
    <3>5. log' \in {"none", "open", "closed"}
      BY <1>8 DEF DisableFlags, TypeOK, UserTypes, server
    <3>6. QED
      BY <3>1, <3>2, <3>3, <3>4, <3>5 DEF UserTypes
  <2>2. LoopTypes'
    BY <1>8 DEF DisableFlags, TypeOK, LoopTypes, server, loops
  <2>3. WorkerTypes'
    BY <1>8 DEF DisableFlags, TypeOK, WorkerTypes, worker
  <2>4. HistoryTypes'
    BY <1>8 DEF DisableFlags, TypeOK, HistoryTypes, Disturbs, network
  <2>5. QED
    BY <2>1, <2>2, <2>3, <2>4 DEF TypeOK
<1>9. CASE DisableClose
  <2>1. UserTypes'
    BY <1>9 DEF DisableClose, TypeOK, UserTypes, server
  <2>2. LoopTypes'
    BY <1>9 DEF DisableClose, TypeOK, LoopTypes, server, loops
  <2>3. WorkerTypes'
    BY <1>9 DEF DisableClose, TypeOK, WorkerTypes, worker
  <2>4. HistoryTypes'
    BY <1>9 DEF DisableClose, TypeOK, HistoryTypes, Disturbs, network
  <2>5. QED
    BY <2>1, <2>2, <2>3, <2>4 DEF TypeOK
<1>10. CASE DisableDrop
  <2>1. UserTypes'
    BY <1>10 DEF DisableDrop, TypeOK, UserTypes, server
  <2>2. LoopTypes'
    BY <1>10 DEF DisableDrop, TypeOK, LoopTypes, server, loops
  <2>3. WorkerTypes'
    BY <1>10 DEF DisableDrop, TypeOK, WorkerTypes, worker
  <2>4. HistoryTypes'
    BY <1>10 DEF DisableDrop, TypeOK, HistoryTypes, Disturbs, network
  <2>5. QED
    BY <2>1, <2>2, <2>3, <2>4 DEF TypeOK
<1>11. CASE StopServer
  <2>1. UserTypes'
    <3>1. (toggles \in 0..MaxToggles /\ stops \in 0..MaxStops)'
      BY <1>11, RttServerAssumption DEF StopServer, TypeOK, UserTypes, capture
    <3>2. upc' \in {"idle", "opening", "reopening", "renewing",
               "closing", "dropping", "stopping"}
      BY <1>11 DEF StopServer, TypeOK, UserTypes, capture
    <3>3. (rtt \in BOOLEAN /\ running \in BOOLEAN)'
      BY <1>11 DEF StopServer, TypeOK, UserTypes, capture
    <3>4. (start \in BOOLEAN /\ stop \in BOOLEAN /\ dir \in BOOLEAN)'
      BY <1>11 DEF StopServer, TypeOK, UserTypes, capture
    <3>5. log' \in {"none", "open", "closed"}
      BY <1>11 DEF StopServer, TypeOK, UserTypes, capture
    <3>6. QED
      BY <3>1, <3>2, <3>3, <3>4, <3>5 DEF UserTypes
  <2>2. LoopTypes'
    BY <1>11 DEF StopServer, TypeOK, LoopTypes, loops
  <2>3. WorkerTypes'
    BY <1>11 DEF StopServer, TypeOK, WorkerTypes, Message, worker
  <2>4. HistoryTypes'
    BY <1>11 DEF StopServer, TypeOK, HistoryTypes, network
  <2>5. QED
    BY <2>1, <2>2, <2>3, <2>4 DEF TypeOK
<1>12. CASE StopEnd
  <2>1. UserTypes'
    BY <1>12 DEF StopEnd, TypeOK, UserTypes, server, capture
  <2>2. LoopTypes'
    BY <1>12 DEF StopEnd, TypeOK, LoopTypes, server, loops
  <2>3. WorkerTypes'
    BY <1>12 DEF StopEnd, TypeOK, WorkerTypes, worker
  <2>4. HistoryTypes'
    BY <1>12 DEF StopEnd, TypeOK, HistoryTypes, network
  <2>5. QED
    BY <2>1, <2>2, <2>3, <2>4 DEF TypeOK
<1>13. CASE StartServer
  <2>1. UserTypes'
    BY <1>13 DEF StartServer, TypeOK, UserTypes, gui, capture
  <2>2. LoopTypes'
    BY <1>13 DEF StartServer, TypeOK, LoopTypes, loops
  <2>3. WorkerTypes'
    BY <1>13 DEF StartServer, TypeOK, WorkerTypes, Message, Exit
  <2>4. HistoryTypes'
    BY <1>13 DEF StartServer, TypeOK, HistoryTypes, network
  <2>5. QED
    BY <2>1, <2>2, <2>3, <2>4 DEF TypeOK
<1>14. CASE \E l \in Test : Begin(l)
  <2> PICK l \in Test : Begin(l)
    BY <1>14
  <2>1. UserTypes'
    BY DEF Begin, TypeOK, UserTypes, gui, capture
  <2>2. LoopTypes'
    BY DEF Begin, TypeOK, LoopTypes
  <2>3. WorkerTypes'
    BY DEF Begin, TypeOK, WorkerTypes, worker
  <2>4. HistoryTypes'
    BY DEF Begin, TypeOK, HistoryTypes, network
  <2>5. QED
    BY <2>1, <2>2, <2>3, <2>4 DEF TypeOK
<1>15. CASE \E l \in Test : Send(l)
  <2> PICK l \in Test : Send(l)
    BY <1>15
  <2>1. UserTypes'
    BY DEF Send, TypeOK, UserTypes, gui, capture
  <2>2. LoopTypes'
    <3>1. (active \in BOOLEAN /\ responded \in BOOLEAN /\ expired \in BOOLEAN)'
      BY RttServerAssumption DEF Send, TypeOK, LoopTypes, Trigger
    <3>2. packet' \in 0..Iterations
      BY RttServerAssumption DEF Send, TypeOK, LoopTypes, Trigger
    <3>3. last' \in Trigger \cup {NoTrigger}
      BY RttServerAssumption DEF Send, TypeOK, LoopTypes, Trigger
    <3>4. lpc' \in [Test -> {"none", "new", "top", "send", "sleep",
                           "judge", "row", "over", "dead"}]
      BY RttServerAssumption DEF Send, TypeOK, LoopTypes, Trigger
    <3>5. count' \in [Test -> 0..Iterations]
      BY RttServerAssumption DEF Send, TypeOK, LoopTypes, Trigger
    <3>6. (\A k \in Test : lpc[k] \in {"send", "sleep", "judge", "row"} =>
                         count[k] > 0)'
      BY RttServerAssumption DEF Send, TypeOK, LoopTypes, Trigger
    <3>7. QED
      BY <3>1, <3>2, <3>3, <3>4, <3>5, <3>6 DEF LoopTypes
  <2>3. WorkerTypes'
    BY DEF Send, TypeOK, WorkerTypes, worker
  <2>4. HistoryTypes'
    BY DEF Send, TypeOK, HistoryTypes, network
  <2>5. QED
    BY <2>1, <2>2, <2>3, <2>4 DEF TypeOK
<1>16. CASE \E l \in Test : Finish(l)
  <2> PICK l \in Test : Finish(l)
    BY <1>16
  <2>1. UserTypes'
    BY DEF Finish, TypeOK, UserTypes, gui, capture
  <2>2. LoopTypes'
    <3>1. (active \in BOOLEAN /\ responded \in BOOLEAN /\ expired \in BOOLEAN)'
      BY DEF Finish, TypeOK, LoopTypes
    <3>2. packet' \in 0..Iterations
      BY RttServerAssumption DEF Finish, TypeOK, LoopTypes
    <3>3. last' \in Trigger \cup {NoTrigger}
      BY DEF Finish, TypeOK, LoopTypes
    <3>4. lpc' \in [Test -> {"none", "new", "top", "send", "sleep",
                           "judge", "row", "over", "dead"}]
      BY DEF Finish, TypeOK, LoopTypes
    <3>5. count' \in [Test -> 0..Iterations]
      BY RttServerAssumption DEF Finish, TypeOK, LoopTypes
    <3>6. (\A k \in Test : lpc[k] \in {"send", "sleep", "judge", "row"} =>
                         count[k] > 0)'
      BY DEF Finish, TypeOK, LoopTypes
    <3>7. QED
      BY <3>1, <3>2, <3>3, <3>4, <3>5, <3>6 DEF LoopTypes
  <2>3. WorkerTypes'
    BY DEF Finish, TypeOK, WorkerTypes, worker
  <2>4. HistoryTypes'
    BY DEF Finish, TypeOK, HistoryTypes, network
  <2>5. QED
    BY <2>1, <2>2, <2>3, <2>4 DEF TypeOK
<1>17. CASE \E l \in Test : Wake(l)
  <2> PICK l \in Test : Wake(l)
    BY <1>17
  <2>1. UserTypes'
    BY DEF Wake, TypeOK, UserTypes, gui, server, capture
  <2>2. LoopTypes'
    BY DEF Wake, TypeOK, LoopTypes, server
  <2>3. WorkerTypes'
    BY DEF Wake, TypeOK, WorkerTypes, worker
  <2>4. HistoryTypes'
    BY DEF Wake, TypeOK, HistoryTypes, LoopTypes, Kept, Mine, Trigger, network
  <2>5. QED
    BY <2>1, <2>2, <2>3, <2>4 DEF TypeOK
<1>18. CASE \E l \in Test : Judge(l)
  <2> PICK l \in Test : Judge(l)
    BY <1>18
  <2>1. UserTypes'
    BY DEF Judge, TypeOK, UserTypes, gui, server, capture
  <2>2. LoopTypes'
    BY DEF Judge, TypeOK, LoopTypes, server
  <2>3. WorkerTypes'
    BY DEF Judge, TypeOK, WorkerTypes, worker
  <2>4. HistoryTypes'
    BY DEF Judge, TypeOK, HistoryTypes, network
  <2>5. QED
    BY <2>1, <2>2, <2>3, <2>4 DEF TypeOK
<1>19. CASE \E l \in Test : WriteNo(l)
  <2> PICK l \in Test : WriteNo(l)
    BY <1>19
  <2>1. UserTypes'
    BY DEF WriteNo, TypeOK, UserTypes, gui, server, capture
  <2>2. LoopTypes'
    BY DEF WriteNo, TypeOK, LoopTypes, server
  <2>3. WorkerTypes'
    BY DEF WriteNo, TypeOK, WorkerTypes, worker
  <2>4. HistoryTypes'
    <3>1. [packet |-> packet, of |-> Mine(l), no |-> 0, response |-> "NO"]
            \in Row
      BY RttServerAssumption DEF WriteNo, TypeOK, LoopTypes, Mine, Row, Trigger
    <3>2. rows' \subseteq Row
      BY <3>1 DEF WriteNo, TypeOK, HistoryTypes, Kept
    <3>3. QED
      BY <3>2 DEF WriteNo, TypeOK, HistoryTypes, network
  <2>5. QED
    BY <2>1, <2>2, <2>3, <2>4 DEF TypeOK
<1>20. CASE Expire
  <2>1. UserTypes'
    BY <1>20 DEF Expire, TypeOK, UserTypes, gui, capture
  <2>2. LoopTypes'
    BY <1>20 DEF Expire, TypeOK, LoopTypes, loops
  <2>3. WorkerTypes'
    BY <1>20 DEF Expire, TypeOK, WorkerTypes, worker
  <2>4. HistoryTypes'
    BY <1>20 DEF Expire, TypeOK, HistoryTypes, network
  <2>5. QED
    BY <2>1, <2>2, <2>3, <2>4 DEF TypeOK
<1>21. CASE \E t \in Trigger : Arrive(t)
  <2> PICK t \in Trigger : Arrive(t)
    BY <1>21
  <2>1. UserTypes'
    BY DEF Arrive, TypeOK, UserTypes, gui, server, capture
  <2>2. LoopTypes'
    BY DEF Arrive, TypeOK, LoopTypes, server, loops
  <2>3. WorkerTypes'
    BY ArriveMessage DEF Arrive, TypeOK, WorkerTypes, worker
  <2>4. HistoryTypes'
    BY RttServerAssumption DEF Arrive, TypeOK, HistoryTypes, Kept
  <2>5. QED
    BY <2>1, <2>2, <2>3, <2>4 DEF TypeOK
<1>22. CASE Poll
  <2>1. UserTypes'
    BY <1>22 DEF Poll, TypeOK, UserTypes, gui, server, capture
  <2>2. LoopTypes'
    BY <1>22 DEF Poll, TypeOK, LoopTypes, server, loops
  <2>3. WorkerTypes'
    BY <1>22 DEF Poll, TypeOK, WorkerTypes
  <2>4. HistoryTypes'
    BY <1>22 DEF Poll, TypeOK, HistoryTypes, network
  <2>5. QED
    BY <2>1, <2>2, <2>3, <2>4 DEF TypeOK
<1>23. CASE GetEmpty
  <2>1. UserTypes'
    BY <1>23 DEF GetEmpty, TypeOK, UserTypes, gui, server, capture
  <2>2. LoopTypes'
    BY <1>23 DEF GetEmpty, TypeOK, LoopTypes, server, loops
  <2>3. WorkerTypes'
    BY <1>23 DEF GetEmpty, TypeOK, WorkerTypes
  <2>4. HistoryTypes'
    BY <1>23 DEF GetEmpty, TypeOK, HistoryTypes, network
  <2>5. QED
    BY <2>1, <2>2, <2>3, <2>4 DEF TypeOK
<1>24. CASE Take
  <2>1. UserTypes'
    BY <1>24 DEF Take, TypeOK, UserTypes, gui, server, capture
  <2>2. LoopTypes'
    BY <1>24 DEF Take, TypeOK, LoopTypes, server, loops
  <2>3. WorkerTypes'
    BY <1>24 DEF Take, TypeOK, WorkerTypes
  <2>4. HistoryTypes'
    BY <1>24 DEF Take, TypeOK, HistoryTypes, network
  <2>5. QED
    BY <2>1, <2>2, <2>3, <2>4 DEF TypeOK
<1>25. CASE Count
  <2>1. UserTypes'
    BY <1>25 DEF Count, TypeOK, UserTypes, gui, capture
  <2>2. LoopTypes'
    BY <1>25 DEF Count, TypeOK, LoopTypes, loops
  <2>3. WorkerTypes'
    BY <1>25 DEF Count, TypeOK, WorkerTypes
  <2>4. HistoryTypes'
    BY <1>25 DEF Count, TypeOK, HistoryTypes, network
  <2>5. QED
    BY <2>1, <2>2, <2>3, <2>4 DEF TypeOK
<1>26. CASE EnsureFlags
  <2>1. UserTypes'
    BY <1>26 DEF EnsureFlags, TypeOK, UserTypes, gui, server, capture
  <2>2. LoopTypes'
    BY <1>26 DEF EnsureFlags, TypeOK, LoopTypes, server, loops
  <2>3. WorkerTypes'
    BY <1>26 DEF EnsureFlags, TypeOK, WorkerTypes, Message
  <2>4. HistoryTypes'
    BY <1>26 DEF EnsureFlags, TypeOK, HistoryTypes, network
  <2>5. QED
    BY <2>1, <2>2, <2>3, <2>4 DEF TypeOK
<1>27. CASE EnsureFile
  <2>1. UserTypes'
    BY <1>27 DEF EnsureFile, TypeOK, UserTypes, gui, server
  <2>2. LoopTypes'
    BY <1>27 DEF EnsureFile, TypeOK, LoopTypes, server, loops
  <2>3. WorkerTypes'
    BY <1>27 DEF EnsureFile, TypeOK, WorkerTypes
  <2>4. HistoryTypes'
    BY <1>27 DEF EnsureFile, TypeOK, HistoryTypes, network
  <2>5. QED
    BY <2>1, <2>2, <2>3, <2>4 DEF TypeOK
<1>28. CASE WriteYes
  <2>1. UserTypes'
    BY <1>28 DEF WriteYes, TypeOK, UserTypes, gui, server, capture
  <2>2. LoopTypes'
    BY <1>28 DEF WriteYes, TypeOK, LoopTypes, server, loops
  <2>3. WorkerTypes'
    BY <1>28 DEF WriteYes, TypeOK, WorkerTypes, Message
  <2>4. HistoryTypes'
    BY <1>28 DEF WriteYes, TypeOK, HistoryTypes, LoopTypes, WorkerTypes,
       Message, Kept, Row, network
  <2>5. QED
    BY <2>1, <2>2, <2>3, <2>4 DEF TypeOK
<1>29. CASE \E l \in Test : Publish(l)
  <2> PICK l \in Test : Publish(l)
    BY <1>29
  <2>1. UserTypes'
    BY DEF Publish, TypeOK, UserTypes, gui, server, capture
  <2>2. LoopTypes'
    BY DEF Publish, TypeOK, LoopTypes, server
  <2>3. WorkerTypes'
    BY DEF Publish, TypeOK, WorkerTypes, worker
  <2>4. HistoryTypes'
    BY DEF Publish, TypeOK, HistoryTypes, network
  <2>5. QED
    BY <2>1, <2>2, <2>3, <2>4 DEF TypeOK
<1>30. CASE UNCHANGED vars
  BY <1>30 DEF TypeOK, UserTypes, LoopTypes, WorkerTypes, HistoryTypes,
     vars, gui, server, loops, worker, capture, network
<1>31. QED
  BY <1>1, <1>2, <1>3, <1>4, <1>5, <1>6, <1>7, <1>8, <1>9,
     <1>10, <1>11, <1>12, <1>13, <1>14, <1>15, <1>16, <1>17, <1>18,
     <1>19, <1>20, <1>21, <1>22, <1>23, <1>24, <1>25, <1>26, <1>27, <1>28,
     <1>29, <1>30
     DEF Next, User, Loop, Worker

-----------------------------------------------------------------------------
(* Loops and the file.                                                     *)

LoopParts == LogOpen /\ LoopLives /\ JoinWaits

\* A step that closes the file under a loop, or ends its thread, records a
\* change of the capture; the others leave a loop alive to an active test.
LEMMA LoopsStep ==
  ASSUME TypeOK, LoopParts, [Next]_vars PROVE LoopParts'
<1>1. CASE \E l \in Test : StartTest(l)
  BY <1>1 DEF StartTest, LoopParts, TypeOK, UserTypes, LoopTypes, LogOpen,
     LoopLives, JoinWaits, LoopAlive, Alive, server, worker, capture
<1>2. CASE StopTest
  BY <1>2 DEF StopTest, LoopParts, LogOpen, LoopLives, JoinWaits, LoopAlive,
     Alive, loops, worker, capture
<1>3. CASE Progress
  BY <1>3 DEF Progress, LoopParts, LogOpen, LoopLives, JoinWaits, LoopAlive,
     Alive, server, loops, worker, capture
<1>4. CASE EnableFlags
  BY <1>4 DEF EnableFlags, LoopParts, LogOpen, LoopLives, JoinWaits,
     LoopAlive, Alive, server, loops, worker, Disturbs
<1>5. CASE EnableClose
  BY <1>5 DEF EnableClose, LoopParts, LogOpen, LoopLives, JoinWaits,
     LoopAlive, Alive, server, loops, worker, Disturbs
<1>6. CASE EnableDrop
  BY <1>6 DEF EnableDrop, LoopParts, LogOpen, LoopLives, JoinWaits,
     LoopAlive, Alive, server, loops, worker, Disturbs
<1>7. CASE EnableOpen
  BY <1>7 DEF EnableOpen, LoopParts, TypeOK, UserTypes, LogOpen, LoopLives,
     JoinWaits, LoopAlive, Alive, server, loops, worker, Disturbs
<1>8. CASE DisableFlags
  BY <1>8 DEF DisableFlags, LoopParts, LogOpen, LoopLives, JoinWaits,
     LoopAlive, Alive, server, loops, worker, Disturbs
<1>9. CASE DisableClose
  BY <1>9 DEF DisableClose, LoopParts, LogOpen, LoopLives, JoinWaits,
     LoopAlive, Alive, server, loops, worker, Disturbs
<1>10. CASE DisableDrop
  BY <1>10 DEF DisableDrop, LoopParts, LogOpen, LoopLives, JoinWaits,
     LoopAlive, Alive, server, loops, worker, Disturbs
<1>11. CASE StopServer
  BY <1>11 DEF StopServer, LoopParts, TypeOK, UserTypes, LogOpen, LoopLives,
     JoinWaits, LoopAlive, Alive, loops, worker, capture
<1>12. CASE StopEnd
  BY <1>12 DEF StopEnd, LoopParts, LogOpen, LoopLives, JoinWaits, LoopAlive,
     Alive, server, loops, worker, capture
<1>13. CASE StartServer
  BY <1>13 DEF StartServer, LoopParts, TypeOK, UserTypes, LogOpen,
     LoopLives, JoinWaits, LoopAlive, Alive, gui, loops, capture
<1>14. CASE \E l \in Test : Begin(l)
  BY <1>14 DEF Begin, LoopParts, TypeOK, LoopTypes, LogOpen, LoopLives,
     JoinWaits, LoopAlive, Alive, gui, worker, capture
<1>15. CASE \E l \in Test : Send(l)
  BY <1>15 DEF Send, LoopParts, TypeOK, LoopTypes, LogOpen, LoopLives,
     JoinWaits, LoopAlive, Alive, gui, worker, capture
<1>16. CASE \E l \in Test : Finish(l)
  BY <1>16 DEF Finish, LoopParts, TypeOK, LoopTypes, LogOpen, LoopLives,
     JoinWaits, LoopAlive, Alive, gui, worker, capture
<1>17. CASE \E l \in Test : Wake(l)
  BY <1>17 DEF Wake, LoopParts, TypeOK, LoopTypes, LogOpen, LoopLives,
     JoinWaits, LoopAlive, Alive, gui, server, worker, capture
<1>18. CASE \E l \in Test : Judge(l)
  BY <1>18 DEF Judge, LoopParts, TypeOK, LoopTypes, LogOpen, LoopLives,
     JoinWaits, LoopAlive, Alive, gui, server, worker, capture
<1>19. CASE \E l \in Test : WriteNo(l)
  BY <1>19 DEF WriteNo, LoopParts, TypeOK, UserTypes, LoopTypes, LogOpen,
     LoopLives, JoinWaits, LoopAlive, Alive, gui, server, worker, capture
<1>20. CASE Expire
  BY <1>20 DEF Expire, LoopParts, LogOpen, LoopLives, JoinWaits, LoopAlive,
     Alive, gui, loops, worker, capture
<1>21. CASE \E t \in Trigger : Arrive(t)
  BY <1>21 DEF Arrive, LoopParts, LogOpen, LoopLives, JoinWaits, LoopAlive,
     Alive, gui, server, loops, worker, capture
<1>22. CASE Poll
  BY <1>22 DEF Poll, LoopParts, LogOpen, LoopLives, JoinWaits, LoopAlive,
     Alive, gui, server, loops, capture
<1>23. CASE GetEmpty
  BY <1>23 DEF GetEmpty, LoopParts, LogOpen, LoopLives, JoinWaits,
     LoopAlive, Alive, gui, server, loops, capture
<1>24. CASE Take
  BY <1>24 DEF Take, LoopParts, LogOpen, LoopLives, JoinWaits, LoopAlive,
     Alive, gui, server, loops, capture
<1>25. CASE Count
  BY <1>25 DEF Count, LoopParts, LogOpen, LoopLives, JoinWaits, LoopAlive,
     Alive, gui, loops, capture
<1>26. CASE EnsureFlags
  BY <1>26 DEF EnsureFlags, LoopParts, LogOpen, LoopLives, JoinWaits,
     LoopAlive, Alive, gui, server, loops, capture
<1>27. CASE EnsureFile
  BY <1>27 DEF EnsureFile, LoopParts, TypeOK, UserTypes, LogOpen, LoopLives,
     JoinWaits, LoopAlive, Alive, gui, server, loops
<1>28. CASE WriteYes
  BY <1>28 DEF WriteYes, LoopParts, LogOpen, LoopLives, JoinWaits,
     LoopAlive, Alive, gui, server, loops, capture
<1>29. CASE \E l \in Test : Publish(l)
  BY <1>29 DEF Publish, LoopParts, TypeOK, LoopTypes, LogOpen, LoopLives,
     JoinWaits, LoopAlive, Alive, gui, server, worker, capture
<1>30. CASE UNCHANGED vars
  BY <1>30 DEF LoopParts, LogOpen, LoopLives, JoinWaits, LoopAlive, Alive,
     vars, gui, server, loops, worker, capture
<1>31. QED
  BY <1>1, <1>2, <1>3, <1>4, <1>5, <1>6, <1>7, <1>8, <1>9,
     <1>10, <1>11, <1>12, <1>13, <1>14, <1>15, <1>16, <1>17, <1>18,
     <1>19, <1>20, <1>21, <1>22, <1>23, <1>24, <1>25, <1>26, <1>27, <1>28,
     <1>29, <1>30
     DEF Next, User, Loop, Worker

-----------------------------------------------------------------------------
(* The None of stop_CS.                                                    *)

\* Only stop_CS queues a None, behind everything else, and only the worker it
\* is for takes it, unless that worker ends by the flag.
LEMMA NoneStep ==
  ASSUME TypeOK, JoinWaits, OneNone, [Next]_vars PROVE OneNone'
<1>1. CASE \E l \in Test : StartTest(l)
  BY <1>1 DEF StartTest, OneNone, Nones, JoinWaits, server, worker
<1>2. CASE StopTest
  BY <1>2 DEF StopTest, OneNone, Nones, JoinWaits, worker
<1>3. CASE Progress
  BY <1>3 DEF Progress, OneNone, Nones, JoinWaits, server, worker
<1>4. CASE EnableFlags
  BY <1>4 DEF EnableFlags, OneNone, Nones, JoinWaits, server, worker, Disturbs
<1>5. CASE EnableClose
  BY <1>5 DEF EnableClose, OneNone, Nones, JoinWaits, server, worker, Disturbs
<1>6. CASE EnableDrop
  BY <1>6 DEF EnableDrop, OneNone, Nones, JoinWaits, server, worker, Disturbs
<1>7. CASE EnableOpen
  BY <1>7 DEF EnableOpen, OneNone, Nones, JoinWaits, server, worker, Disturbs
<1>8. CASE DisableFlags
  BY <1>8 DEF DisableFlags, OneNone, Nones, JoinWaits, server, worker, Disturbs
<1>9. CASE DisableClose
  BY <1>9 DEF DisableClose, OneNone, Nones, JoinWaits, server, worker, Disturbs
<1>10. CASE DisableDrop
  BY <1>10 DEF DisableDrop, OneNone, Nones, JoinWaits, server, worker, Disturbs
<1>11. CASE StopServer
  BY <1>11 DEF StopServer, OneNone, Nones, JoinWaits, TypeOK, WorkerTypes,
     worker
<1>12. CASE StopEnd
  BY <1>12 DEF StopEnd, OneNone, Nones, JoinWaits, server, worker
<1>13. CASE StartServer
  BY <1>13 DEF StartServer, OneNone, Nones, JoinWaits, gui
<1>14. CASE \E l \in Test : Begin(l)
  BY <1>14 DEF Begin, OneNone, Nones, JoinWaits, gui, worker
<1>15. CASE \E l \in Test : Send(l)
  BY <1>15 DEF Send, OneNone, Nones, JoinWaits, gui, worker
<1>16. CASE \E l \in Test : Finish(l)
  BY <1>16 DEF Finish, OneNone, Nones, JoinWaits, gui, worker
<1>17. CASE \E l \in Test : Wake(l)
  BY <1>17 DEF Wake, OneNone, Nones, JoinWaits, gui, server, worker
<1>18. CASE \E l \in Test : Judge(l)
  BY <1>18 DEF Judge, OneNone, Nones, JoinWaits, gui, server, worker
<1>19. CASE \E l \in Test : WriteNo(l)
  BY <1>19 DEF WriteNo, OneNone, Nones, JoinWaits, gui, server, worker
<1>20. CASE Expire
  BY <1>20 DEF Expire, OneNone, Nones, JoinWaits, gui, worker
<1>21. CASE \E t \in Trigger : Arrive(t)
  <2> PICK t \in Trigger : Arrive(t)
    BY <1>21
  <2> DEFINE m == [to |-> t, no |-> answers + 1, stamp |-> last,
               inTime |-> ~expired]
  <2>1. m # Exit /\ queue \in Seq(Message) /\ queue' = Append(queue, m)
    BY ArriveMessage
  <2>2. Nones' = Nones
    BY <2>1 DEF Nones
  <2>3. UNCHANGED <<running, wpc>> /\ fault \subseteq fault'
    BY DEF Arrive, server, worker
  <2>4. QED
    BY <2>2, <2>3 DEF OneNone
<1>22. CASE Poll
  BY <1>22 DEF Poll, OneNone, Nones, JoinWaits, gui, server
<1>23. CASE GetEmpty
  BY <1>23 DEF GetEmpty, OneNone, Nones, JoinWaits, gui, server
<1>24. CASE Take
  <2>1. /\ \A i \in Nones' : i + 1 \in Nones
        /\ Head(queue) = Exit => 1 \in Nones
        /\ \A i \in DOMAIN queue' : i + 1 # 1 /\ i \in Nat
    BY <1>24, TakeFirst DEF Nones
  <2>2. (\A i, j \in Nones : i = j) =>
           /\ \A i, j \in Nones' : i = j
           /\ Head(queue) = Exit => Nones' = {}
    BY <2>1 DEF Nones
  <2>3. UNCHANGED <<running, fault>> /\ wpc = "get"
        /\ (wpc' = "dead" <=> Head(queue) = Exit)
    BY <1>24 DEF Take, server
  <2>4. QED
    BY <2>1, <2>2, <2>3 DEF OneNone
<1>25. CASE Count
  BY <1>25 DEF Count, OneNone, Nones, JoinWaits, gui
<1>26. CASE EnsureFlags
  BY <1>26 DEF EnsureFlags, OneNone, Nones, JoinWaits, gui, server
<1>27. CASE EnsureFile
  BY <1>27 DEF EnsureFile, OneNone, Nones, JoinWaits, gui, server
<1>28. CASE WriteYes
  BY <1>28 DEF WriteYes, OneNone, Nones, JoinWaits, gui, server
<1>29. CASE \E l \in Test : Publish(l)
  BY <1>29 DEF Publish, OneNone, Nones, JoinWaits, gui, server, worker
<1>30. CASE UNCHANGED vars
  BY <1>30 DEF OneNone, Nones, vars, server, worker
<1>31. QED
  BY <1>1, <1>2, <1>3, <1>4, <1>5, <1>6, <1>7, <1>8, <1>9,
     <1>10, <1>11, <1>12, <1>13, <1>14, <1>15, <1>16, <1>17, <1>18,
     <1>19, <1>20, <1>21, <1>22, <1>23, <1>24, <1>25, <1>26, <1>27, <1>28,
     <1>29, <1>30
     DEF Next, User, Loop, Worker

-----------------------------------------------------------------------------
(* The theorems.                                                           *)

\* The first state has no test, no file and an empty queue.
LEMMA InitInductive == Init => Inductive
<1> SUFFICES ASSUME Init PROVE Inductive
  OBVIOUS
<1>1. TypeOK
  BY InitTypes
<1>2. LogOpen /\ LoopLives /\ JoinWaits
  BY DEF Init, LogOpen, LoopLives, JoinWaits, LoopAlive, Alive
<1>3. OneNone
  BY DEF Init, OneNone, Nones
<1>4. QED
  BY <1>1, <1>2, <1>3 DEF Inductive

\* The inductive invariant, for every number of tests, triggers and answers.
LEMMA InductiveHolds == Spec => []Inductive
<1>1. Inductive /\ [Next]_vars => Inductive'
  BY TypesStep, LoopsStep, NoneStep DEF Inductive, LoopParts
<1>2. QED
  BY InitInductive, <1>1, PTL DEF Spec

\* Every variable keeps its type, whatever the threads interleave.
THEOREM TypeCorrect == Spec => []TypeOK
<1>1. Inductive => TypeOK
  BY DEF Inductive
<1>2. QED
  BY InductiveHolds, <1>1, PTL

\* An active test has a loop and a running server a worker, except in the
\* cases that ThreadsLive names (central_server.py 401-406, 454-458, 546, 637).
THEOREM ThreadsKept == Spec => []ThreadsLive
<1>1. Inductive => ThreadsLive
  BY DEF Inductive, LoopLives, OneNone, ThreadsLive
<1>2. QED
  BY InductiveHolds, <1>1, PTL

-----------------------------------------------------------------------------
(* Rows. An undisturbed test is a relay: the loop sends a trigger and      *)
(* sleeps; while it sleeps the worker may count the answers to it, one by  *)
(* one, and write a row for each; the loop wakes when nothing of that is   *)
(* left to do, and only then judges. Each part below says what holds in    *)
(* one stage of the relay.                                                 *)

\* Trigger t was sent; a new one never was.
Sent(t) == t.packet <= count[t.test]

Sleeping == \E l \in Test : lpc[l] \in {"send", "sleep"}

\* The worker has let a message pass and is not done with it.
Busy == wpc \in {"passed", "counted", "ensure", "row"}

Waiting == \E i \in DOMAIN queue : InHand(queue[i])

\* The answer that a message is, and its row.
AnswerOf(m) == [to |-> m.to, no |-> m.no]
YesRow(a) == [packet |-> a.to.packet, of |-> a.to, no |-> a.no,
              response |-> "YES"]

\* Where answer a, not written yet, may be.
InQueue(a) == \E i \in DOMAIN queue : InHand(queue[i]) /\ AnswerOf(queue[i]) = a
InWork(a) == Busy /\ AnswerOf(item) = a

\* A capture that is on, and not being changed, has its file.
CaptureHas ==
    /\ start => ~stop
    /\ upc \in {"closing", "dropping"} => ~start
    /\ start /\ upc \in {"idle", "stopping"} => dir /\ log = "open"

\* Stamps are triggers that were sent, so none is a trigger of the future.
Stamped ==
    /\ \A l \in Test : last = NoTrigger => count[l] = 0
    /\ last # NoTrigger => Sent(last)
    /\ \A i \in DOMAIN queue :
         queue[i].stamp # NoTrigger => Sent(queue[i].stamp)
    /\ \A i \in DOMAIN queue : queue[i].inTime => queue[i].stamp # NoTrigger

\* There is one loop, with the capture on and the server running.
OneLoop ==
    /\ running
    /\ \A k, l \in Test : Alive(k) /\ Alive(l) => k = l
    /\ \A l \in Test : Alive(l) => start /\ upc = "idle"
    /\ \A l \in Test : lpc[l] \in {"top", "send", "sleep", "judge", "row"} =>
         active

\* What the loop, the worker and the queue are about is the last trigger, and
\* worker and queue are idle about it unless the loop sends it or sleeps.
Together ==
    /\ \A l \in Test : lpc[l] \in {"send", "sleep", "judge", "row"} =>
         last = Mine(l) /\ packet = count[l]
    /\ Busy => InHand(item) /\ item.to = last
    /\ \A i \in DOMAIN queue : InHand(queue[i]) => queue[i].to = last
    /\ ~Sleeping => ~Busy /\ ~Waiting /\ (last = NoTrigger \/ expired)

\* While the loop sleeps: an answer to its trigger is in the queue, with the
\* worker, or has its row, and what is in one of these places is an answer to
\* it; responded says that one has been counted.
Answering ==
    Sleeping =>
        /\ last \notin verdicts
        /\ \A a \in AnswersTo(last) :
             InQueue(a) \/ InWork(a) \/ YesRow(a) \in rows
        /\ \A i \in DOMAIN queue :
             InHand(queue[i]) => AnswerOf(queue[i]) \in answered
        /\ Busy => AnswerOf(item) \in answered
        /\ \A r \in RowsOf(last) : \E a \in AnswersTo(last) : r = YesRow(a)
        /\ responded <=>
             wpc \in {"counted", "ensure", "row"} \/ RowsOf(last) # {}

\* A loop that writes NO is about a trigger nobody answered.
Unanswered ==
    \A l \in Test : lpc[l] \in {"judge", "row"} =>
        AnswersTo(Mine(l)) = {} /\ RowsOf(Mine(l)) = {}

\* A trigger judged earlier has its rows.
Settled ==
    \A t \in verdicts :
        \/ \E l \in Test : lpc[l] \in {"judge", "row"} /\ t = Mine(l)
        \/ RowsOf(t) = RowsDue(t)

\* What is recorded was sent, under its own number.
Recorded ==
    /\ \A r \in rows : Sent(r.of) /\ r.packet = r.of.packet
    /\ \A a \in answered : Sent(a.to)
    /\ \A t \in verdicts : Sent(t)

Relay == OneLoop /\ Together /\ Answering /\ Unanswered /\ Settled /\ Recorded

RowsInv == CaptureHas /\ Stamped /\ (fault = {} => Relay)

\* The first state has no trigger, no row and no file.
LEMMA InitRows == Init => RowsInv
<1> SUFFICES ASSUME Init PROVE RowsInv
  OBVIOUS
<1>1. CaptureHas
  BY DEF Init, CaptureHas
<1>2. Stamped
  BY DEF Init, Stamped
<1>3. OneLoop
  BY DEF Init, OneLoop, Alive
<1>4. Together
  BY DEF Init, Together, Busy, Waiting
<1>5. Answering /\ Unanswered /\ Settled /\ Recorded
  BY DEF Init, Answering, Sleeping, Unanswered, Settled, Recorded
<1>6. QED
  BY <1>1, <1>2, <1>3, <1>4, <1>5 DEF RowsInv, Relay

\* The capture is switched on and off with its file in step.
LEMMA CaptureStep ==
  ASSUME TypeOK, CaptureHas, [Next]_vars PROVE CaptureHas'
<1>1. CASE \E l \in Test : StartTest(l)
  BY <1>1 DEF StartTest, CaptureHas, TypeOK, UserTypes, capture
<1>2. CASE StopTest
  BY <1>2 DEF StopTest, CaptureHas, TypeOK, UserTypes, capture
<1>3. CASE Progress
  BY <1>3 DEF Progress, CaptureHas, TypeOK, UserTypes, capture
<1>4. CASE EnableFlags
  BY <1>4 DEF EnableFlags, CaptureHas, TypeOK, UserTypes
<1>5. CASE EnableClose
  BY <1>5 DEF EnableClose, CaptureHas, TypeOK, UserTypes
<1>6. CASE EnableDrop
  BY <1>6 DEF EnableDrop, CaptureHas, TypeOK, UserTypes
<1>7. CASE EnableOpen
  BY <1>7 DEF EnableOpen, CaptureHas, TypeOK, UserTypes
<1>8. CASE DisableFlags
  BY <1>8 DEF DisableFlags, CaptureHas, TypeOK, UserTypes
<1>9. CASE DisableClose
  BY <1>9 DEF DisableClose, CaptureHas, TypeOK, UserTypes
<1>10. CASE DisableDrop
  BY <1>10 DEF DisableDrop, CaptureHas, TypeOK, UserTypes
<1>11. CASE StopServer
  BY <1>11 DEF StopServer, CaptureHas, TypeOK, UserTypes, capture
<1>12. CASE StopEnd
  BY <1>12 DEF StopEnd, CaptureHas, TypeOK, UserTypes, capture
<1>13. CASE StartServer
  BY <1>13 DEF StartServer, CaptureHas, TypeOK, UserTypes, gui, capture
<1>14. CASE \E l \in Test : Begin(l)
  BY <1>14 DEF Begin, CaptureHas, TypeOK, UserTypes, gui, capture
<1>15. CASE \E l \in Test : Send(l)
  BY <1>15 DEF Send, CaptureHas, TypeOK, UserTypes, gui, capture
<1>16. CASE \E l \in Test : Finish(l)
  BY <1>16 DEF Finish, CaptureHas, TypeOK, UserTypes, gui, capture
<1>17. CASE \E l \in Test : Wake(l)
  BY <1>17 DEF Wake, CaptureHas, TypeOK, UserTypes, gui, capture
<1>18. CASE \E l \in Test : Judge(l)
  BY <1>18 DEF Judge, CaptureHas, TypeOK, UserTypes, gui, capture
<1>19. CASE \E l \in Test : WriteNo(l)
  BY <1>19 DEF WriteNo, CaptureHas, TypeOK, UserTypes, gui, capture
<1>20. CASE Expire
  BY <1>20 DEF Expire, CaptureHas, TypeOK, UserTypes, gui, capture
<1>21. CASE \E t \in Trigger : Arrive(t)
  BY <1>21 DEF Arrive, CaptureHas, TypeOK, UserTypes, gui, capture
<1>22. CASE Poll
  BY <1>22 DEF Poll, CaptureHas, TypeOK, UserTypes, gui, capture
<1>23. CASE GetEmpty
  BY <1>23 DEF GetEmpty, CaptureHas, TypeOK, UserTypes, gui, capture
<1>24. CASE Take
  BY <1>24 DEF Take, CaptureHas, TypeOK, UserTypes, gui, capture
<1>25. CASE Count
  BY <1>25 DEF Count, CaptureHas, TypeOK, UserTypes, gui, capture
<1>26. CASE EnsureFlags
  BY <1>26 DEF EnsureFlags, CaptureHas, TypeOK, UserTypes, gui, capture
<1>27. CASE EnsureFile
  BY <1>27 DEF EnsureFile, CaptureHas, TypeOK, UserTypes, gui
<1>28. CASE WriteYes
  BY <1>28 DEF WriteYes, CaptureHas, TypeOK, UserTypes, gui, capture
<1>29. CASE \E l \in Test : Publish(l)
  BY <1>29 DEF Publish, CaptureHas, TypeOK, UserTypes, gui, capture
<1>30. CASE UNCHANGED vars
  BY <1>30 DEF vars, CaptureHas, TypeOK, UserTypes, gui, capture
<1>31. QED
  BY <1>1, <1>2, <1>3, <1>4, <1>5, <1>6, <1>7, <1>8, <1>9, <1>10,
     <1>11, <1>12, <1>13, <1>14, <1>15, <1>16, <1>17, <1>18, <1>19, <1>20,
     <1>21, <1>22, <1>23, <1>24, <1>25, <1>26, <1>27, <1>28, <1>29, <1>30
     DEF Next, User, Loop, Worker

\* A trigger is stamped on what arrives after it was sent.
LEMMA StampedStep ==
  ASSUME TypeOK, Stamped, [Next]_vars PROVE Stamped'
<1>1. CASE \E l \in Test : StartTest(l)
  BY <1>1 DEF StartTest, Stamped, Sent, server
<1>2. CASE StopTest
  BY <1>2 DEF StopTest, Stamped, Sent, loops
<1>3. CASE Progress
  BY <1>3 DEF Progress, Stamped, Sent, server, loops
<1>4. CASE EnableFlags
  BY <1>4 DEF EnableFlags, Stamped, Sent, server, loops
<1>5. CASE EnableClose
  BY <1>5 DEF EnableClose, Stamped, Sent, server, loops
<1>6. CASE EnableDrop
  BY <1>6 DEF EnableDrop, Stamped, Sent, server, loops
<1>7. CASE EnableOpen
  BY <1>7 DEF EnableOpen, Stamped, Sent, server, loops
<1>8. CASE DisableFlags
  BY <1>8 DEF DisableFlags, Stamped, Sent, server, loops
<1>9. CASE DisableClose
  BY <1>9 DEF DisableClose, Stamped, Sent, server, loops
<1>10. CASE DisableDrop
  BY <1>10 DEF DisableDrop, Stamped, Sent, server, loops
<1>11. CASE StopServer
  <2>1. queue \in Seq(Message) /\ Exit \in Message
    BY DEF TypeOK, WorkerTypes, Message
  <2>2. \A i \in DOMAIN queue' :
           \/ i \in DOMAIN queue /\ queue'[i] = queue[i]
           \/ queue'[i] = Exit
    BY <1>11, <2>1 DEF StopServer
  <2>3. Exit.stamp = NoTrigger /\ ~Exit.inTime
    BY DEF Exit
  <2>4. QED
    BY <1>11, <2>2, <2>3 DEF StopServer, Stamped, Sent, loops
<1>12. CASE StopEnd
  BY <1>12 DEF StopEnd, Stamped, Sent, server, loops
<1>13. CASE StartServer
  BY <1>13 DEF StartServer, Stamped, Sent, loops
<1>14. CASE \E l \in Test : Begin(l)
  BY <1>14 DEF Begin, Stamped, Sent
<1>15. CASE \E l \in Test : Send(l)
  <2> PICK l \in Test : Send(l)
    BY <1>15
  <2>1. \A k \in Test : count[k] \in Nat /\ count'[k] \in Nat
                           /\ count[k] <= count'[k]
    BY RttServerAssumption DEF Send, TypeOK, LoopTypes
  <2>2. last' # NoTrigger /\ Sent(last)'
    BY <2>1 DEF Send, Sent, NoTrigger, Test, TypeOK, LoopTypes
  <2>3. \A i \in DOMAIN queue : queue[i].stamp # NoTrigger =>
           queue[i].stamp \in Trigger
    BY DEF TypeOK, WorkerTypes, Message, Exit
  <2>4. \A t \in Trigger : Sent(t) => Sent(t)'
    BY <2>1, RttServerAssumption DEF Sent, Trigger
  <2>5. queue' = queue
    BY DEF Send
  <2>6. QED
    BY <2>2, <2>3, <2>4, <2>5 DEF Stamped
<1>16. CASE \E l \in Test : Finish(l)
  BY <1>16 DEF Finish, Stamped, Sent
<1>17. CASE \E l \in Test : Wake(l)
  BY <1>17 DEF Wake, Stamped, Sent, server
<1>18. CASE \E l \in Test : Judge(l)
  BY <1>18 DEF Judge, Stamped, Sent, server
<1>19. CASE \E l \in Test : WriteNo(l)
  BY <1>19 DEF WriteNo, Stamped, Sent, server
<1>20. CASE Expire
  BY <1>20 DEF Expire, Stamped, Sent, loops
<1>21. CASE \E t \in Trigger : Arrive(t)
  <2> PICK t \in Trigger : Arrive(t)
    BY <1>21
  <2> DEFINE m == [to |-> t, no |-> answers + 1, stamp |-> last,
               inTime |-> ~expired]
  <2>1. queue \in Seq(Message) /\ queue' = Append(queue, m)
    BY ArriveMessage
  <2>2. \A i \in DOMAIN queue' :
           \/ i \in DOMAIN queue /\ queue'[i] = queue[i]
           \/ queue'[i] = m
    BY <2>1
  <2>3. last # NoTrigger
    BY RttServerAssumption DEF Arrive, Stamped, Trigger, TypeOK, LoopTypes
  <2>4. m.stamp = last
    OBVIOUS
  <2>5. UNCHANGED <<last, count>>
    BY DEF Arrive, server, loops
  <2>6. QED
    BY <2>2, <2>3, <2>4, <2>5 DEF Stamped, Sent
<1>22. CASE Poll
  BY <1>22 DEF Poll, Stamped, Sent, server, loops
<1>23. CASE GetEmpty
  BY <1>23 DEF GetEmpty, Stamped, Sent, server, loops
<1>24. CASE Take
  BY <1>24, TakeFirst DEF Take, Stamped, Sent, server, loops
<1>25. CASE Count
  BY <1>25 DEF Count, Stamped, Sent, loops
<1>26. CASE EnsureFlags
  BY <1>26 DEF EnsureFlags, Stamped, Sent, server, loops
<1>27. CASE EnsureFile
  BY <1>27 DEF EnsureFile, Stamped, Sent, server, loops
<1>28. CASE WriteYes
  BY <1>28 DEF WriteYes, Stamped, Sent, server, loops
<1>29. CASE \E l \in Test : Publish(l)
  BY <1>29 DEF Publish, Stamped, Sent, server
<1>30. CASE UNCHANGED vars
  BY <1>30 DEF vars, Stamped, Sent, server, loops
<1>31. QED
  BY <1>1, <1>2, <1>3, <1>4, <1>5, <1>6, <1>7, <1>8, <1>9, <1>10,
     <1>11, <1>12, <1>13, <1>14, <1>15, <1>16, <1>17, <1>18, <1>19, <1>20,
     <1>21, <1>22, <1>23, <1>24, <1>25, <1>26, <1>27, <1>28, <1>29, <1>30
     DEF Next, User, Loop, Worker

-----------------------------------------------------------------------------
(* The stages of the relay, one lemma for each action that is part of it.  *)

\* The answers to the last trigger are where they were.
LEMMA AnsweringStays ==
  ASSUME Answering, Sleeping' = Sleeping, Busy' = Busy,
         UNCHANGED <<last, queue, item, rows, answered, verdicts>>,
         wpc \in {"counted", "ensure", "row"} <=>
           wpc' \in {"counted", "ensure", "row"},
         responded' = responded
  PROVE  Answering'
<1>1. RowsOf(last)' = RowsOf(last) /\ AnswersTo(last)' = AnswersTo(last)
  BY DEF RowsOf, AnswersTo
<1>2. \A a : InQueue(a)' = InQueue(a) /\ InWork(a)' = InWork(a)
  BY DEF InQueue, InWork, InHand
<1>3. QED
  BY <1>1, <1>2 DEF Answering, InHand

\* A step that leaves trigger, loops, queue, rows and history alone, and moves
\* the worker within a stage, leaves the relay alone; the capture stays on
\* under a loop.
LEMMA RelayAside ==
  ASSUME Relay,
         UNCHANGED <<running, active, packet, responded, last, expired, lpc,
                     count, queue, item, rows, answered, verdicts>>,
         \/ wpc' = wpc
         \/ ~Busy /\ ~Busy'
         \/ wpc \in {"counted", "ensure"} /\ wpc' \in {"ensure", "row"},
         \A l \in Test : Alive(l) => start' /\ upc' = "idle"
  PROVE  Relay'
<1>1. OneLoop'
  BY DEF Relay, OneLoop, Alive
<1>2. Sleeping' = Sleeping /\ Waiting' = Waiting /\ (Busy' => Busy)
  BY DEF Sleeping, Waiting, InHand, Busy
<1>3. Together'
  BY <1>2 DEF Relay, Together, Mine, InHand
<1>4. Answering'
  BY <1>2, AnsweringStays DEF Relay, Busy
<1>5. Unanswered' /\ Settled' /\ Recorded'
  BY DEF Relay, Unanswered, Settled, Recorded, Mine, RowsOf, RowsDue,
     AnswersTo, Sent
<1>6. QED
  BY <1>1, <1>3, <1>4, <1>5 DEF Relay

\* A new loop finds no trigger that anybody still works on.
LEMMA RelayStartTest ==
  ASSUME TypeOK, Relay, NEW l \in Test, StartTest(l), fault' = {}
  PROVE  Relay'
<1>1. /\ \A k \in Test : ~Alive(k)
      /\ start /\ upc = "idle"
      /\ UNCHANGED <<upc, running, active, packet, responded, last, expired,
                     count, wpc, item, start, rows, answered, verdicts>>
  BY DEF StartTest, LoopAlive, server, worker, capture, network
<1>2. \A k \in Test : lpc'[k] = IF k = l THEN "new" ELSE lpc[k]
  BY DEF StartTest, TypeOK, LoopTypes
<1>3. ~Sleeping /\ ~Sleeping'
  BY <1>1, <1>2 DEF Sleeping, Alive
<1>4. OneLoop'
  BY <1>1, <1>2 DEF Relay, OneLoop, Alive
<1>5. Together'
  BY <1>1, <1>2, <1>3 DEF StartTest, Relay, Together, Mine, Busy, Waiting,
     Alive
<1>6. Answering' /\ Recorded'
  BY <1>1, <1>3 DEF Answering, Relay, Recorded, Sent
<1>7. Unanswered' /\ Settled'
  BY <1>1, <1>2 DEF Relay, Unanswered, Settled, Mine, RowsOf, RowsDue,
     AnswersTo, Alive
<1>8. QED
  BY <1>4, <1>5, <1>6, <1>7 DEF Relay

LEMMA RelayBegin ==
  ASSUME TypeOK, Relay, NEW l \in Test, Begin(l)
  PROVE  Relay'
<1>1. /\ UNCHANGED <<upc, running, packet, responded, last, expired, count,
                     queue, wpc, item, start, rows, answered, verdicts>>
      /\ active' /\ lpc[l] = "new"
  BY DEF Begin, gui, worker, capture, network
<1>2. \A k \in Test : lpc'[k] = IF k = l THEN "top" ELSE lpc[k]
  BY DEF Begin, TypeOK, LoopTypes
<1>3. Sleeping' = Sleeping
  BY <1>1, <1>2 DEF Sleeping
<1>4. OneLoop'
  BY <1>1, <1>2 DEF Relay, OneLoop, Alive
<1>5. Together'
  BY <1>1, <1>2, <1>3 DEF Relay, Together, Mine, Busy, Waiting, InHand
<1>6. Answering' /\ Recorded'
  BY <1>1, <1>3, AnsweringStays DEF Relay, Recorded, Sent, Busy
<1>7. Unanswered' /\ Settled'
  BY <1>1, <1>2 DEF Relay, Unanswered, Settled, Mine, RowsOf, RowsDue, AnswersTo
<1>8. QED
  BY <1>4, <1>5, <1>6, <1>7 DEF Relay

LEMMA RelayFinish ==
  ASSUME TypeOK, Relay, NEW l \in Test, Finish(l)
  PROVE  Relay'
<1>1. /\ UNCHANGED <<upc, running, responded, last, expired, count,
                     queue, wpc, item, start, rows, answered, verdicts>>
      /\ lpc[l] = "top" /\ Alive(l)
  BY DEF Finish, gui, worker, capture, network, Alive
<1>2. \A k \in Test : lpc'[k] = IF k = l THEN "over" ELSE lpc[k]
  BY DEF Finish, TypeOK, LoopTypes
<1>3. \A k \in Test : ~Alive(k)'
  BY <1>1, <1>2 DEF Relay, OneLoop, Alive
<1>4. ~Sleeping /\ ~Sleeping'
  BY <1>1, <1>2, <1>3 DEF Sleeping, Alive
<1>5. OneLoop'
  BY <1>1, <1>3 DEF Relay, OneLoop, Alive
<1>6. Together'
  BY <1>1, <1>3, <1>4 DEF Relay, Together, Busy, Waiting, InHand, Alive
<1>7. Answering' /\ Recorded'
  BY <1>1, <1>4 DEF Answering, Relay, Recorded, Sent
<1>8. Unanswered' /\ Settled'
  BY <1>1, <1>2, <1>3 DEF Relay, Unanswered, Settled, Mine, RowsOf, RowsDue,
     AnswersTo, Alive
<1>9. QED
  BY <1>5, <1>6, <1>7, <1>8 DEF Relay

\* The new trigger is nobody's yet: nothing recorded or queued is about it.
LEMMA RelaySend ==
  ASSUME TypeOK, Stamped, Relay, NEW l \in Test, Send(l)
  PROVE  Relay'
<1>1. /\ UNCHANGED <<upc, running, active, queue, wpc, item, start, rows,
                     answered, verdicts>>
      /\ lpc[l] = "top" /\ active /\ ~responded'
      /\ last' = [test |-> l, packet |-> count[l] + 1]
      /\ packet' = count[l] + 1
  BY DEF Send, gui, worker, capture, network
<1>2. \A k \in Test : lpc'[k] = IF k = l THEN "send" ELSE lpc[k]
  BY DEF Send, TypeOK, LoopTypes
<1>3. \A k \in Test : /\ count'[k] = IF k = l THEN count[l] + 1 ELSE count[k]
                      /\ count[k] \in Nat
  BY DEF Send, TypeOK, LoopTypes
<1>4. ~Sent(last') /\ last' # NoTrigger
  BY <1>1, <1>3 DEF Sent, NoTrigger, Test
<1>5. \A k \in Test : k # l => ~Alive(k) /\ ~Alive(k)'
  BY <1>1, <1>2 DEF Relay, OneLoop, Alive
<1>6. ~Sleeping /\ ~Busy /\ ~Busy'
  BY <1>1, <1>5 DEF Sleeping, Alive, Relay, Together, Busy
<1>7. ~Waiting'
  BY <1>1, <1>4 DEF Stamped, Waiting, InHand
<1>8. Mine(l)' = last' /\ Sleeping'
  BY <1>1, <1>2, <1>3 DEF Mine, Sleeping
<1>9. OneLoop'
  BY <1>1, <1>2 DEF Relay, OneLoop, Alive
<1>10. Together'
  <2>1. \A k \in Test : lpc'[k] \in {"send", "sleep", "judge", "row"} => k = l
    BY <1>5 DEF Alive
  <2>2. packet' = count'[l]
    BY <1>1, <1>3
  <2>3. QED
    BY <2>1, <2>2, <1>6, <1>7, <1>8 DEF Together, Waiting
<1>11. last' \notin verdicts /\ RowsOf(last)' = {} /\ AnswersTo(last)' = {}
  BY <1>1, <1>4 DEF Relay, Recorded, RowsOf, AnswersTo
<1>12. Answering'
  BY <1>1, <1>6, <1>7, <1>11 DEF Answering, Waiting, Busy
<1>13. Unanswered'
  BY <1>2, <1>5 DEF Unanswered, Alive
<1>14. Settled'
  <2>1. \A k \in Test : lpc[k] \notin {"judge", "row"}
    BY <1>1, <1>5 DEF Alive
  <2>2. QED
    BY <1>1, <2>1 DEF Relay, Settled, RowsOf, RowsDue, AnswersTo
<1>15. Recorded'
  <2>1. \A t \in Trigger : Sent(t) => Sent(t)'
    BY <1>3 DEF Sent, Trigger
  <2>2. /\ \A r \in rows : r.of \in Trigger
        /\ \A a \in answered : a.to \in Trigger
        /\ verdicts \subseteq Trigger
    BY DEF TypeOK, HistoryTypes, Row
  <2>3. QED
    BY <1>1, <2>1, <2>2 DEF Relay, Recorded
<1>16. QED
  BY <1>9, <1>10, <1>12, <1>13, <1>14, <1>15 DEF Relay

\* The trigger is sent, and the loop sleeps; it does not die.
LEMMA RelayPublish ==
  ASSUME TypeOK, Relay, NEW l \in Test, Publish(l), fault' = {}
  PROVE  Relay'
<1>1. /\ UNCHANGED <<upc, running, active, packet, responded, last, expired,
                     count, queue, wpc, item, start, rows, answered, verdicts>>
      /\ lpc[l] = "send"
  BY DEF Publish, gui, server, worker, capture, network
<1>2. \A k \in Test : lpc'[k] = IF k = l THEN "sleep" ELSE lpc[k]
  BY DEF Publish, TypeOK, LoopTypes
<1>3. Sleeping' = Sleeping
  BY <1>1, <1>2 DEF Sleeping
<1>4. OneLoop'
  BY <1>1, <1>2 DEF Relay, OneLoop, Alive
<1>5. Together'
  BY <1>1, <1>2, <1>3 DEF Relay, Together, Mine, Busy, Waiting, InHand
<1>6. Answering' /\ Recorded'
  BY <1>1, <1>3, AnsweringStays DEF Relay, Recorded, Sent, Busy
<1>7. Unanswered' /\ Settled'
  BY <1>1, <1>2 DEF Relay, Unanswered, Settled, Mine, RowsOf, RowsDue, AnswersTo
<1>8. QED
  BY <1>4, <1>5, <1>6, <1>7 DEF Relay

\* The loop wakes when nothing is left of an answer: it has a row and the loop
\* goes on, or there was none and the loop is about to say so.
LEMMA RelayWake ==
  ASSUME TypeOK, Relay, NEW l \in Test, Wake(l), fault' = {}
  PROVE  Relay'
<1>1. /\ UNCHANGED <<upc, running, active, packet, responded, last, expired,
                     count, queue, wpc, item, start, rows, answered>>
      /\ lpc[l] = "sleep" /\ Sleeping /\ last = Mine(l) /\ expired
      /\ verdicts' = verdicts \cup {last}
  BY DEF Wake, gui, server, worker, capture, network, Relay, Together,
     Sleeping, Kept
<1>2. \A k \in Test : lpc'[k] = IF k = l THEN (IF responded THEN "top"
                                               ELSE "judge") ELSE lpc[k]
  BY DEF Wake, TypeOK, LoopTypes
<1>3. ~Busy /\ ~Waiting /\ ~Busy' /\ ~Waiting'
  BY <1>1 DEF Wake, Lagging, Busy, Waiting, InHand, Relay, Together
<1>4. \A k \in Test : k # l => ~Alive(k) /\ ~Alive(k)'
  BY <1>1, <1>2 DEF Relay, OneLoop, Alive
<1>5. ~Sleeping'
  BY <1>2, <1>4 DEF Sleeping, Alive
<1>6. /\ \A a \in AnswersTo(last) : YesRow(a) \in rows
      /\ \A r \in RowsOf(last) : \E a \in AnswersTo(last) : r = YesRow(a)
      /\ responded <=> RowsOf(last) # {}
  BY <1>1, <1>3 DEF Relay, Answering, InQueue, InWork, Waiting, Busy
<1>7. IF responded THEN RowsOf(last) = RowsDue(last)
                   ELSE RowsOf(last) = {} /\ AnswersTo(last) = {}
  <2>1. \A a \in AnswersTo(last) :
          YesRow(a) \in RowsOf(last)
          /\ YesRow(a) = [packet |-> last.packet, of |-> last, no |-> a.no,
                          response |-> "YES"]
    BY <1>6 DEF AnswersTo, RowsOf, YesRow
  <2>2. CASE responded
    <3>1. AnswersTo(last) # {}
      BY <1>6, <2>2
    <3>2. RowsDue(last) = {YesRow(a) : a \in AnswersTo(last)}
      BY <2>1, <3>1 DEF RowsDue
    <3>3. QED
      BY <1>6, <2>1, <2>2, <3>2
  <2>3. CASE ~responded
    BY <1>6, <2>1, <2>3
  <2>4. QED
    BY <2>2, <2>3
<1>8. OneLoop'
  BY <1>1, <1>2 DEF Relay, OneLoop, Alive
<1>9. Together'
  BY <1>1, <1>2, <1>3, <1>4, <1>5 DEF Relay, Together, Mine, Waiting, InHand,
     Alive
<1>10. Answering'
  BY <1>5 DEF Answering
<1>11. Unanswered'
  BY <1>1, <1>2, <1>4, <1>6, <1>7 DEF Unanswered, Mine, RowsOf, AnswersTo, Alive
<1>12. Settled'
  <2>1. \A t : RowsOf(t)' = RowsOf(t) /\ RowsDue(t)' = RowsDue(t)
    BY <1>1 DEF RowsOf, RowsDue, AnswersTo
  <2>2. \A t \in verdicts : RowsOf(t) = RowsDue(t)
    BY <1>1, <1>4 DEF Relay, Settled, Alive
  <2>3. responded \/ (lpc'[l] = "judge" /\ last = Mine(l)')
    BY <1>1, <1>2 DEF Mine
  <2>4. QED
    BY <1>1, <1>7, <2>1, <2>2, <2>3 DEF Settled
<1>13. Recorded'
  <2>1. Sent(last)
    BY <1>1 DEF Sent, Mine, TypeOK, LoopTypes
  <2>2. QED
    BY <1>1, <2>1 DEF Relay, Recorded, Sent
<1>14. QED
  BY <1>8, <1>9, <1>10, <1>11, <1>12, <1>13 DEF Relay

\* Under a loop the capture is on and has its file.
LEMMA LoopHasFile ==
  ASSUME CaptureHas, Relay, NEW l \in Test, Alive(l)
  PROVE  start /\ ~stop /\ dir /\ log = "open"
BY DEF CaptureHas, Relay, OneLoop

LEMMA RelayJudge ==
  ASSUME TypeOK, CaptureHas, Relay, NEW l \in Test, Judge(l)
  PROVE  Relay'
<1>1. /\ UNCHANGED <<upc, running, active, packet, responded, last, expired,
                     count, queue, wpc, item, start, rows, answered, verdicts>>
      /\ lpc[l] = "judge" /\ Alive(l)
  BY DEF Judge, gui, server, worker, capture, network, Alive
<1>2. \A k \in Test : lpc'[k] = IF k = l THEN "row" ELSE lpc[k]
  BY <1>1, LoopHasFile DEF Judge, TypeOK, LoopTypes
<1>3. Sleeping' = Sleeping
  BY <1>1, <1>2 DEF Sleeping
<1>4. OneLoop'
  BY <1>1, <1>2 DEF Relay, OneLoop, Alive
<1>5. Together'
  BY <1>1, <1>2, <1>3 DEF Relay, Together, Mine, Busy, Waiting, InHand
<1>6. Answering' /\ Recorded'
  BY <1>1, <1>3, AnsweringStays DEF Relay, Recorded, Sent, Busy
<1>7. Unanswered'
  BY <1>1, <1>2 DEF Relay, Unanswered, Mine, RowsOf, AnswersTo
<1>8. Settled'
  BY <1>1, <1>2 DEF Relay, Settled, Mine, RowsOf, RowsDue, AnswersTo
<1>9. QED
  BY <1>4, <1>5, <1>6, <1>7, <1>8 DEF Relay

\* NO is the row of a trigger nobody answered.
LEMMA RelayWriteNo ==
  ASSUME TypeOK, CaptureHas, Relay, fault = {}, NEW l \in Test, WriteNo(l)
  PROVE  Relay'
<1> DEFINE no == [packet |-> packet, of |-> last, no |-> 0, response |-> "NO"]
<1>1. /\ UNCHANGED <<upc, running, active, packet, responded, last, expired,
                     count, queue, wpc, item, start, answered, verdicts>>
      /\ lpc[l] = "row" /\ Alive(l) /\ active
      /\ last = Mine(l) /\ packet = count[l]
  BY DEF WriteNo, gui, server, worker, capture, network, Alive, Relay,
     OneLoop, Together
<1>2. /\ rows' = rows \cup {no}
      /\ \A k \in Test : lpc'[k] = IF k = l THEN "top" ELSE lpc[k]
  BY <1>1, LoopHasFile DEF WriteNo, TypeOK, LoopTypes, Kept
<1>3. \A k \in Test : k # l => ~Alive(k) /\ ~Alive(k)'
  BY <1>1, <1>2 DEF Relay, OneLoop, Alive
<1>4. ~Sleeping /\ ~Sleeping'
  BY <1>1, <1>2, <1>3 DEF Sleeping, Alive
<1>5. last.packet = packet /\ last.packet \in Nat
  BY <1>1 DEF Mine, TypeOK, LoopTypes
<1>6. RowsDue(last) = {no} /\ RowsOf(last) = {}
  BY <1>1, <1>5 DEF Relay, Unanswered, RowsDue
<1>7. OneLoop'
  BY <1>1, <1>2 DEF Relay, OneLoop, Alive
<1>8. Together'
  BY <1>1, <1>2, <1>3, <1>4 DEF Relay, Together, Busy, Waiting, InHand, Alive
<1>9. Answering' /\ Unanswered'
  BY <1>2, <1>3, <1>4 DEF Answering, Unanswered, Alive
<1>10. Settled'
  <2>1. \A t : /\ RowsDue(t)' = RowsDue(t)
               /\ RowsOf(t)' = IF t = last THEN RowsOf(t) \cup {no}
                                           ELSE RowsOf(t)
    BY <1>1, <1>2 DEF RowsOf, RowsDue, AnswersTo
  <2>2. \A t \in verdicts : t = last \/ RowsOf(t) = RowsDue(t)
    BY <1>1, <1>3 DEF Relay, Settled, Alive
  <2>3. RowsOf(last)' = RowsDue(last)'
    BY <1>1, <1>6, <2>1
  <2>4. QED
    BY <1>1, <2>1, <2>2, <2>3 DEF Settled
<1>11. Recorded'
  <2>1. Sent(last) /\ no.packet = no.of.packet
    BY <1>1, <1>5 DEF Sent, Mine
  <2>2. QED
    BY <1>1, <1>2, <2>1 DEF Relay, Recorded, Sent
<1>12. QED
  BY <1>7, <1>8, <1>9, <1>10, <1>11 DEF Relay

LEMMA RelayExpire ==
  ASSUME TypeOK, Relay, Expire
  PROVE  Relay'
<1>1. /\ UNCHANGED <<upc, running, active, packet, responded, last, lpc, count,
                     queue, wpc, item, start, rows, answered, verdicts>>
      /\ expired'
  BY DEF Expire, gui, loops, worker, capture, network
<1>2. Sleeping' = Sleeping /\ Waiting' = Waiting /\ Busy' = Busy
  BY <1>1 DEF Sleeping, Waiting, InHand, Busy
<1>3. OneLoop' /\ Together'
  BY <1>1, <1>2 DEF Relay, OneLoop, Together, Alive, Mine, InHand
<1>4. Answering' /\ Recorded'
  BY <1>1, <1>2, AnsweringStays DEF Relay, Recorded, Sent
<1>5. Unanswered' /\ Settled'
  BY <1>1 DEF Relay, Unanswered, Settled, Mine, RowsOf, RowsDue, AnswersTo
<1>6. QED
  BY <1>3, <1>4, <1>5 DEF Relay

\* An answer in the interval of its trigger finds the loop asleep; one after
\* it does not count.
LEMMA RelayArrive ==
  ASSUME TypeOK, Stamped, Relay, fault = {}, NEW t \in Trigger, Arrive(t),
         fault' = {}
  PROVE  Relay'
<1> DEFINE m == [to |-> t, no |-> answers + 1, stamp |-> last,
               inTime |-> ~expired]
<1>1. /\ UNCHANGED <<upc, running, active, packet, responded, last, expired,
                     lpc, count, wpc, item, start, rows, verdicts>>
      /\ t = last \/ expired
      /\ answered' = IF expired THEN answered ELSE answered \cup {AnswerOf(m)}
      /\ Sent(t)
  BY DEF Arrive, gui, server, loops, worker, capture, Kept, Sent, AnswerOf
<1>2. /\ \A i \in DOMAIN queue : i \in DOMAIN queue' /\ queue'[i] = queue[i]
      /\ \A i \in DOMAIN queue' :
           \/ i \in DOMAIN queue /\ queue'[i] = queue[i]
           \/ queue'[i] = m
      /\ \E i \in DOMAIN queue' : queue'[i] = m
  <2>1. queue \in Seq(Message) /\ queue' = Append(queue, m)
    BY DEF Arrive, TypeOK, WorkerTypes
  <2>2. QED
    BY <2>1
<1>3. InHand(m) <=> ~expired
  BY DEF InHand
<1>4. Waiting' <=> Waiting \/ ~expired
  BY <1>1, <1>2, <1>3 DEF Waiting, InHand
<1>5. Sleeping' = Sleeping /\ (~expired => Sleeping)
  <2>1. last # NoTrigger
    BY DEF Arrive, Stamped, Trigger, TypeOK, LoopTypes
  <2>2. QED
    BY <1>1, <2>1 DEF Sleeping, Relay, Together
<1>6. ~expired => last \notin verdicts
                  /\ \A k \in Test : lpc[k] \notin {"judge", "row"}
  <2>1. ASSUME ~expired PROVE \A k \in Test : lpc[k] \notin {"judge", "row"}
    BY <2>1, <1>5 DEF Sleeping, Relay, OneLoop, Alive
  <2>2. QED
    BY <2>1, <1>5 DEF Relay, Answering
<1>7. OneLoop'
  BY <1>1 DEF Relay, OneLoop, Alive
<1>8. Together'
  <2>1. \A i \in DOMAIN queue' : InHand(queue'[i]) => queue'[i].to = last
    BY <1>1, <1>2, <1>3 DEF Relay, Together, InHand
  <2>2. QED
    BY <1>1, <1>4, <1>5, <2>1 DEF Relay, Together, Mine, Busy, InHand
<1>9. Answering'
  <2>1. /\ RowsOf(last)' = RowsOf(last)
        /\ AnswersTo(last)' = IF expired THEN AnswersTo(last)
                              ELSE AnswersTo(last) \cup {AnswerOf(m)}
    BY <1>1 DEF RowsOf, AnswersTo, AnswerOf
  <2>2. \A a : /\ InQueue(a)' <=> InQueue(a) \/ (~expired /\ a = AnswerOf(m))
               /\ InWork(a)' = InWork(a)
    BY <1>1, <1>2, <1>3 DEF InQueue, InWork, InHand, Busy
  <2>3. \A i \in DOMAIN queue' :
          \/ i \in DOMAIN queue /\ queue'[i] = queue[i]
          \/ queue'[i] = m /\ (expired => ~InHand(m))
    BY <1>2, <1>3
  <2>4. (\A i \in DOMAIN queue : InHand(queue[i]) =>
           AnswerOf(queue[i]) \in answered) =>
        (\A i \in DOMAIN queue : InHand(queue[i]) =>
           AnswerOf(queue[i]) \in answered)'
    <3> SUFFICES ASSUME \A i \in DOMAIN queue : InHand(queue[i]) =>
                           AnswerOf(queue[i]) \in answered,
                        NEW i \in DOMAIN queue', InHand(queue'[i])
                 PROVE  AnswerOf(queue'[i]) \in answered'
      BY <1>1 DEF InHand, AnswerOf
    <3>1. QED
      BY <1>1, <2>3
  <2>5. QED
    BY <1>1, <1>5, <2>1, <2>2, <2>4 DEF Relay, Answering, Busy
<1>10. \A v : (v = last /\ ~expired) \/ AnswersTo(v)' = AnswersTo(v)
  BY <1>1 DEF AnswersTo, AnswerOf
<1>11. Unanswered' /\ Settled'
  <2>1. \A k \in Test : lpc[k] \in {"judge", "row"} =>
           AnswersTo(Mine(k))' = AnswersTo(Mine(k))
    BY <1>1, <1>6 DEF AnswersTo, Mine
  <2>2. \A v : RowsOf(v)' = RowsOf(v)
    BY <1>1 DEF RowsOf
  <2>3. ASSUME NEW v \in verdicts PROVE RowsDue(v)' = RowsDue(v)
    <3>1. AnswersTo(v)' = AnswersTo(v)
      BY <1>6, <1>10
    <3>2. QED
      BY <3>1 DEF RowsDue
  <2>4. QED
    BY <1>1, <2>1, <2>2, <2>3 DEF Relay, Unanswered, Settled, Mine
<1>12. Recorded'
  <2>1. expired \/ Sent(AnswerOf(m).to)
    BY <1>1 DEF AnswerOf
  <2>2. QED
    BY <1>1, <2>1 DEF Relay, Recorded, Sent
<1>13. QED
  BY <1>7, <1>8, <1>9, <1>11, <1>12 DEF Relay

\* An answer in time passes, anything else is dropped.
LEMMA RelayTake ==
  ASSUME TypeOK, Stamped, Relay, Take
  PROVE  Relay'
<1> DEFINE m == Head(queue)
<1>1. /\ UNCHANGED <<upc, running, active, packet, responded, last, expired,
                     lpc, count, start, rows, answered, verdicts>>
      /\ wpc = "get"
      /\ \/ m = Exit /\ wpc' = "dead"
         \/ m # Exit /\ active /\ InHand(m) /\ wpc' = "passed" /\ item' = m
         \/ m # Exit /\ ~(active /\ InHand(m)) /\ wpc' = "loop"
  BY DEF Take, gui, server, loops, capture, network, InHand
<1>2. /\ 1 \in DOMAIN queue /\ queue[1] = m
      /\ \A i \in DOMAIN queue' : i + 1 \in DOMAIN queue
                                  /\ queue'[i] = queue[i + 1]
      /\ \A i \in DOMAIN queue : i # 1 => i - 1 \in DOMAIN queue'
                                          /\ queue'[i - 1] = queue[i]
  BY TakeFirst
<1>3. Waiting <=> Waiting' \/ InHand(m)
  BY <1>1, <1>2 DEF Waiting, InHand
<1>4. Sleeping' = Sleeping /\ (InHand(m) => Sleeping /\ active /\ m.to = last)
  <2>1. InHand(m) => Sleeping
    BY <1>3 DEF Relay, Together
  <2>2. Sleeping => active
    BY DEF Sleeping, Relay, OneLoop
  <2>3. InHand(m) => m.to = last
    BY <1>2 DEF Relay, Together
  <2>4. QED
    BY <1>1, <2>1, <2>2, <2>3 DEF Sleeping
<1>5. /\ wpc' = "passed" <=> InHand(m)
      /\ InHand(m) => item' = m
  <2>1. InHand(m) => m # Exit
    BY DEF InHand, Exit
  <2>2. QED
    BY <1>1, <1>4, <2>1
<1>6. ~Busy /\ (Busy' <=> InHand(m))
  BY <1>1, <1>5 DEF Busy
<1>7. OneLoop'
  BY <1>1 DEF Relay, OneLoop, Alive
<1>8. Together'
  <2>1. \A i \in DOMAIN queue' : InHand(queue'[i]) => queue'[i].to = last
    BY <1>2 DEF Relay, Together
  <2>2. QED
    BY <1>1, <1>3, <1>4, <1>5, <1>6, <2>1 DEF Relay, Together, Mine, InHand
<1>9. Answering'
  <2>1. RowsOf(last)' = RowsOf(last) /\ AnswersTo(last)' = AnswersTo(last)
    BY <1>1 DEF RowsOf, AnswersTo
  <2>2. \A a : InQueue(a) => InQueue(a)' \/ (InHand(m) /\ a = AnswerOf(m))
    BY <1>1, <1>2 DEF InQueue, InHand
  <2>3. \A a : /\ ~InWork(a)
               /\ InHand(m) /\ a = AnswerOf(m) => InWork(a)'
    BY <1>5, <1>6 DEF InWork
  <2>4. (\A i \in DOMAIN queue : InHand(queue[i]) =>
           AnswerOf(queue[i]) \in answered) =>
        /\ (\A i \in DOMAIN queue : InHand(queue[i]) =>
             AnswerOf(queue[i]) \in answered)'
        /\ (Busy => AnswerOf(item) \in answered)'
    BY <1>1, <1>2, <1>5, <1>6 DEF InHand, AnswerOf
  <2>5. QED
    BY <1>1, <1>4, <1>5, <1>6, <2>1, <2>2, <2>3, <2>4
       DEF Relay, Answering, Busy
<1>10. Unanswered' /\ Settled' /\ Recorded'
  BY <1>1 DEF Relay, Unanswered, Settled, Recorded, Mine, RowsOf, RowsDue,
     AnswersTo, Sent
<1>11. QED
  BY <1>7, <1>8, <1>9, <1>10 DEF Relay

LEMMA RelayCount ==
  ASSUME TypeOK, Relay, Count
  PROVE  Relay'
<1>1. /\ UNCHANGED <<upc, running, active, packet, last, expired, lpc, count,
                     queue, item, start, rows, answered, verdicts>>
      /\ wpc = "passed" /\ wpc' = "counted" /\ responded'
  BY DEF Count, gui, loops, capture, network
<1>2. Sleeping' = Sleeping /\ Waiting' = Waiting /\ Busy' /\ Busy
  BY <1>1 DEF Sleeping, Waiting, InHand, Busy
<1>3. OneLoop' /\ Together'
  BY <1>1, <1>2 DEF Relay, OneLoop, Together, Alive, Mine, InHand
<1>4. Answering'
  <2>1. RowsOf(last)' = RowsOf(last) /\ AnswersTo(last)' = AnswersTo(last)
    BY <1>1 DEF RowsOf, AnswersTo
  <2>2. \A a : InQueue(a)' = InQueue(a) /\ InWork(a)' = InWork(a)
    BY <1>1, <1>2 DEF InQueue, InWork, InHand
  <2>3. QED
    BY <1>1, <1>2, <2>1, <2>2 DEF Relay, Answering, InHand
<1>5. Unanswered' /\ Settled' /\ Recorded'
  BY <1>1 DEF Relay, Unanswered, Settled, Recorded, Mine, RowsOf, RowsDue,
     AnswersTo, Sent
<1>6. QED
  BY <1>3, <1>4, <1>5 DEF Relay

\* YES is the row of an answer to the trigger the loop still sleeps on.
LEMMA RelayWriteYes ==
  ASSUME TypeOK, CaptureHas, Relay, fault = {}, WriteYes
  PROVE  Relay'
<1> DEFINE yes == YesRow(AnswerOf(item))
<1>1. /\ UNCHANGED <<upc, running, active, packet, responded, last, expired,
                     lpc, count, queue, start, answered, verdicts>>
      /\ wpc = "row" /\ wpc' = "loop" /\ Busy /\ ~Busy'
  BY DEF WriteYes, gui, server, loops, capture, network, Busy
<1>2. Sleeping /\ Sleeping' /\ Waiting' = Waiting
  BY <1>1 DEF Relay, Together, Sleeping, Waiting, InHand
<1>3. PICK l \in Test : lpc[l] \in {"send", "sleep"}
  BY <1>2 DEF Sleeping
<1>4. last = Mine(l) /\ packet = last.packet /\ Sent(last) /\ item.to = last
  BY <1>1, <1>3 DEF Relay, Together, Mine, Sent, TypeOK, LoopTypes
<1>5. /\ AnswerOf(item) \in AnswersTo(last) /\ responded
      /\ last \notin verdicts
  BY <1>1, <1>2, <1>4 DEF Relay, Answering, AnswersTo, AnswerOf
<1>6. yes = [packet |-> packet, of |-> last, no |-> item.no, response |-> "YES"]
  BY <1>4 DEF YesRow, AnswerOf
<1>7. rows' = rows \cup {yes}
  <2>1. log = "open"
    BY <1>3, LoopHasFile DEF Alive
  <2>2. QED
    BY <1>4, <1>6, <2>1 DEF WriteYes, Kept
<1>8. \A t : /\ RowsDue(t)' = RowsDue(t) /\ AnswersTo(t)' = AnswersTo(t)
             /\ RowsOf(t)' = IF t = last THEN RowsOf(t) \cup {yes}
                                         ELSE RowsOf(t)
  BY <1>1, <1>6, <1>7 DEF RowsOf, RowsDue, AnswersTo
<1>9. OneLoop' /\ Together'
  BY <1>1, <1>2 DEF Relay, OneLoop, Together, Alive, Mine, InHand
<1>10. Answering'
  <2>1. \A a : InQueue(a)' = InQueue(a)
    BY <1>1 DEF InQueue, InHand
  <2>2. \A a \in AnswersTo(last) :
          InQueue(a) \/ InWork(a) \/ YesRow(a) \in rows
    BY <1>2 DEF Relay, Answering
  <2>3. \A a : InWork(a) => YesRow(a) \in rows'
    BY <1>7 DEF InWork
  <2>4. \A a \in AnswersTo(last) : InQueue(a)' \/ YesRow(a) \in rows'
    BY <1>7, <2>1, <2>2, <2>3
  <2>5. /\ AnswersTo(last)' = AnswersTo(last)
        /\ RowsOf(last)' = RowsOf(last) \cup {yes}
    BY <1>1, <1>8
  <2>6. \A r \in RowsOf(last)' : \E a \in AnswersTo(last) : r = YesRow(a)
    BY <1>2, <1>5, <2>5 DEF Relay, Answering
  <2>7. QED
    BY <1>1, <1>2, <1>5, <2>4, <2>5, <2>6 DEF Relay, Answering, InHand
<1>11. Unanswered'
  <2>1. \A k \in Test : lpc[k] \notin {"judge", "row"}
    BY <1>3 DEF Relay, OneLoop, Alive
  <2>2. QED
    BY <1>1, <2>1 DEF Unanswered
<1>12. Settled'
  BY <1>1, <1>5, <1>8 DEF Relay, Settled, Mine
<1>13. Recorded'
  <2>1. yes.packet = yes.of.packet /\ yes.of = last
    BY <1>4, <1>6
  <2>2. QED
    BY <1>1, <1>4, <1>7, <2>1 DEF Relay, Recorded, Sent
<1>14. QED
  BY <1>9, <1>10, <1>11, <1>12, <1>13 DEF Relay

\* An undisturbed step keeps the relay; a disturbing one leaves its mark.
LEMMA RelayStep ==
  ASSUME TypeOK, RowsInv, [Next]_vars, fault' = {} PROVE Relay'
<1>0. fault = {} /\ Relay /\ CaptureHas /\ Stamped
  <2>1. fault \subseteq fault'
    BY DEF Next, User, Loop, Worker, vars, StartTest, StopTest, Progress,
       EnableFlags, EnableClose, EnableDrop, EnableOpen, DisableFlags,
       DisableClose, DisableDrop, Disturbs, StopServer, StopEnd, StartServer,
       Begin, Send, Publish, Finish, Wake, Judge, WriteNo, Expire, Arrive, Poll,
       GetEmpty, Take, Count, EnsureFlags, EnsureFile, WriteYes
  <2>2. QED
    BY <2>1 DEF RowsInv
<1>1. CASE \E l \in Test : StartTest(l)
  BY <1>0, <1>1, RelayStartTest
<1>2. CASE StopTest
  BY <1>2 DEF StopTest
<1>3. CASE Progress
  BY <1>0, <1>3, RelayAside DEF Progress, server, loops, worker, capture,
     network, Relay, OneLoop
<1>4. CASE EnableFlags
  BY <1>0, <1>4, RelayAside DEF EnableFlags, Disturbs, LoopAlive, server, loops,
     worker, network
<1>5. CASE EnableClose
  BY <1>0, <1>5, RelayAside DEF EnableClose, Disturbs, LoopAlive, server, loops,
     worker, network
<1>6. CASE EnableDrop
  BY <1>0, <1>6, RelayAside DEF EnableDrop, Disturbs, LoopAlive, server, loops,
     worker, network
<1>7. CASE EnableOpen
  BY <1>0, <1>7, RelayAside DEF EnableOpen, Disturbs, LoopAlive, server, loops,
     worker, network
<1>8. CASE DisableFlags
  BY <1>0, <1>8, RelayAside DEF DisableFlags, Disturbs, LoopAlive, server,
     loops, worker, network
<1>9. CASE DisableClose
  BY <1>0, <1>9, RelayAside DEF DisableClose, Disturbs, LoopAlive, server,
     loops, worker, network
<1>10. CASE DisableDrop
  BY <1>0, <1>10, RelayAside DEF DisableDrop, Disturbs, LoopAlive, server,
     loops, worker, network
<1>11. CASE StopServer
  BY <1>11 DEF StopServer
<1>12. CASE StopEnd
  BY <1>0, <1>12, RelayAside DEF StopEnd, server, loops, worker, capture,
     network, Relay, OneLoop
<1>13. CASE StartServer
  BY <1>0, <1>13 DEF StartServer, Relay, OneLoop
<1>14. CASE \E l \in Test : Begin(l)
  BY <1>0, <1>14, RelayBegin
<1>15. CASE \E l \in Test : Send(l)
  BY <1>0, <1>15, RelaySend
<1>16. CASE \E l \in Test : Finish(l)
  BY <1>0, <1>16, RelayFinish
<1>17. CASE \E l \in Test : Wake(l)
  BY <1>0, <1>17, RelayWake
<1>18. CASE \E l \in Test : Judge(l)
  BY <1>0, <1>18, RelayJudge
<1>19. CASE \E l \in Test : WriteNo(l)
  BY <1>0, <1>19, RelayWriteNo
<1>20. CASE Expire
  BY <1>0, <1>20, RelayExpire
<1>21. CASE \E t \in Trigger : Arrive(t)
  BY <1>0, <1>21, RelayArrive
<1>22. CASE Poll
  BY <1>0, <1>22, RelayAside DEF Poll, Busy, gui, server, loops, capture,
     network, Relay, OneLoop
<1>23. CASE GetEmpty
  BY <1>0, <1>23, RelayAside DEF GetEmpty, Busy, gui, server, loops, capture,
     network, Relay, OneLoop
<1>24. CASE Take
  BY <1>0, <1>24, RelayTake
<1>25. CASE Count
  BY <1>0, <1>25, RelayCount
<1>26. CASE EnsureFlags
  <2>1. start /\ ~stop
    BY <1>0, <1>26, LoopHasFile DEF EnsureFlags, Busy, Relay, Together,
       Sleeping, Alive
  <2>2. QED
    BY <1>0, <1>26, <2>1, RelayAside DEF EnsureFlags, gui, server, loops,
       capture, network, Relay, OneLoop
<1>27. CASE EnsureFile
  BY <1>0, <1>27, RelayAside DEF EnsureFile, gui, server, loops, network,
     Relay, OneLoop
<1>28. CASE WriteYes
  BY <1>0, <1>28, RelayWriteYes
<1>29. CASE \E l \in Test : Publish(l)
  BY <1>0, <1>29, RelayPublish
<1>30. CASE UNCHANGED vars
  BY <1>0, <1>30, RelayAside DEF vars, gui, server, loops, worker, capture,
     network, Relay, OneLoop
<1>31. QED
  BY <1>1, <1>2, <1>3, <1>4, <1>5, <1>6, <1>7, <1>8, <1>9, <1>10,
     <1>11, <1>12, <1>13, <1>14, <1>15, <1>16, <1>17, <1>18, <1>19, <1>20,
     <1>21, <1>22, <1>23, <1>24, <1>25, <1>26, <1>27, <1>28, <1>29, <1>30
     DEF Next, User, Loop, Worker

\* As long as nothing disturbs the test, each trigger that is closed has
\* the row NO when nobody answered in its interval, and otherwise a row YES
\* with its own number for each answer, for every number of tests, triggers
\* and answers (central_server.py 284-294, 325, 599, 626).
THEOREM RowsAreTrue == Spec => []RowsTrue
<1>1. TypeOK /\ RowsInv /\ [Next]_vars => RowsInv'
  <2> SUFFICES ASSUME TypeOK, RowsInv, [Next]_vars PROVE RowsInv'
    OBVIOUS
  <2>1. CaptureHas' /\ Stamped'
    BY CaptureStep, StampedStep DEF RowsInv
  <2>2. fault' = {} => Relay'
    BY RelayStep
  <2>3. QED
    BY <2>1, <2>2 DEF RowsInv
<1>2. TypeOK /\ RowsInv => RowsTrue
  <2> SUFFICES ASSUME TypeOK, RowsInv, fault = {} PROVE
      /\ \A r \in rows : r.packet = r.of.packet
      /\ \A t \in verdicts : Closed(t) => RowsOf(t) = RowsDue(t)
    BY DEF RowsTrue
  <2>1. \A r \in rows : r.packet = r.of.packet
    BY DEF RowsInv, Relay, Recorded
  <2>2. ASSUME NEW t \in verdicts, Closed(t) PROVE RowsOf(t) = RowsDue(t)
    <3>1. \A l \in Test : lpc[l] \in {"judge", "row"} => t # Mine(l)
      BY <2>2 DEF Closed, Alive, Mine
    <3>2. QED
      BY <3>1 DEF RowsInv, Relay, Settled
  <2>3. QED
    BY <2>1, <2>2
<1>3. QED
  BY TypeCorrect, InitRows, <1>1, <1>2, PTL DEF Spec
=============================================================================
