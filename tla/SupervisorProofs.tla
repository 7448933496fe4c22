-------------------------- MODULE SupervisorProofs ---------------------------
(***************************************************************************)
(* Proofs about Supervisor, for every sleep, timeout and lateness that its *)
(* assumptions allow: type correctness, NoFalseStall, StallCaught,         *)
(* OutageCaught, WatchdogQuiet and BeliefsTrue; and, over the clock of     *)
(* DesyncClock, which only watches (ClockIsSupervisor), HealsInTime.       *)
(***************************************************************************)
EXTENDS DesyncClock, TLAPS

\* A thread that is not stuck stays within what it has promised: what is left
\* of its sleep and the age of its check-in make up for each other.
Paced ==
    /\ wpc = "off" => promise = 0
    /\ wpc # "off" /\ ~stuck => rest >= -Late
    /\ wpc # "off" /\ ~stuck /\ promise # 0 /\ wpc # "leave" =>
           age + rest <= promise
    /\ wpc = "leave" /\ ~stuck /\ promise # 0 =>
           age + rest <= promise + Poll + Late
    /\ stamped => wrapped

\* How the manager sleeps, and how long ago it has fed the watchdog.
Rounds ==
    ~mstuck =>
        /\ mrest >= -Late
        /\ mpc = "sleep" => mrest <= Feed /\ fed + mrest <= Late + Feed
        /\ mpc \in {"threads", "network"} => mrest <= 0 /\ fed + mrest <= 0
        /\ mpc = "alarm" =>
               mrest <= Countdown /\ fed + mrest <= Late + Countdown

\* How old a check-in may be where the manager stands.
StallRounds ==
    ~mstuck /\ promise # 0 =>
        /\ mpc \in {"sleep", "threads"} =>
               age + mrest <= promise + Tolerance + Late + Feed
        /\ mpc = "network" => age + mrest <= promise + Tolerance
        /\ mpc = "alarm" =>
               age + mrest <= promise + Tolerance + 2 * Late + Feed + Countdown

\* How long ago the last loss may be where the manager stands.
OutageRounds ==
    ~mstuck /\ ~wifiUp /\ WifiTimeout # 0 =>
        /\ mpc # "alarm" => wifiAge + mrest <= WifiTimeout + Feed
        /\ mpc = "alarm" =>
               wifiAge + mrest <= WifiTimeout + Late + Feed + Countdown

Inductive ==
    /\ TypeOK /\ Paced /\ Rounds /\ StallRounds /\ OutageRounds
    /\ NoFalseStall /\ BeliefsTrue
-----------------------------------------------------------------------------
(* What the steps do to the check-ins and to the manager.                  *)

LinkFlagsOK ==
    /\ wpc \in {"off", "top", "request", "poll", "decide", "settle",
                "settled", "retry", "leave", "asleep"}
    /\ connected \in BOOLEAN /\ result \in BOOLEAN
    /\ link \in {"down", "pending", "up", "leaving"}
    /\ ip \in BOOLEAN /\ stuck \in BOOLEAN

\* A step of the thread checks in for at least the sleep it begins, goes on
\* without a check-in, or begins the sleep of enter_shutdown_mode.
Paces ==
    \/ /\ promise' \in Nat /\ promise' # 0 /\ age' = 0 /\ stamped' = wrapped
       /\ rest' <= promise' /\ rest' \in Int
       /\ wpc' \notin {"leave", "off"}
       /\ rest' >= 0 \/ rest' = rest
    \/ /\ UNCHANGED <<promise, age, stamped, rest>>
       /\ wpc \notin {"leave", "off"} /\ wpc' \notin {"leave", "off"}
    \/ /\ UNCHANGED <<promise, age, stamped>>
       /\ wpc \notin {"leave", "off"} /\ wpc' = "leave" /\ rest' = Poll

\* What a step of the Wi-Fi thread leaves alone.
LEMMA ThreadPaces ==
    ASSUME TypeOK, WifiThread
    PROVE  /\ Paces
           /\ rest <= 0 /\ ~stuck /\ ~stuck' /\ wpc # "off"
           /\ wrapped' = wrapped
<1> USE WifiLinkAssumption DEF WifiLinkAssumption, TypeOK, LinkTypeOK, LinkTimesOK, Runs,
        Sleep, GoOn, thread, CheckIn, entry, Paces
<1>1. CASE Begin /\ CheckIn(Attempt)
  BY <1>1 DEF Begin
<1>2. CASE Request /\ CheckIn(Attempt)
  BY <1>2 DEF Request
<1>3. CASE PollAgain /\ CheckIn(Attempt)
  BY <1>3 DEF PollAgain
<1>4. CASE KeepWatch /\ CheckIn(Rest)
  BY <1>4 DEF KeepWatch
<1>5. CASE SettleDown /\ CheckIn(Settle)
  BY <1>5 DEF SettleDown
<1>6. CASE SettleOn /\ CheckIn(Poll)
  BY <1>6 DEF SettleOn
<1>7. CASE TimedOut /\ CheckIn(Retry)
  BY <1>7 DEF TimedOut
<1>8. CASE (InterfaceDown \/ InterfaceStays) /\ CheckIn(LongSleep)
  BY <1>8 DEF InterfaceDown, InterfaceStays
<1>9. CASE PollEnds /\ UNCHANGED entry
  BY <1>9 DEF PollEnds
<1>10. CASE PollEndsOver /\ UNCHANGED entry
  BY <1>10 DEF PollEndsOver
<1>11. CASE Settled /\ UNCHANGED entry
  BY <1>11 DEF Settled
<1>12. CASE StartOver /\ UNCHANGED entry
  BY <1>12 DEF StartOver
<1>13. CASE CountFail /\ UNCHANGED entry
  BY <1>13 DEF CountFail
<1>14. CASE ShutDown /\ UNCHANGED entry
  BY <1>14 DEF ShutDown
<1>15. CASE InterfaceUp /\ UNCHANGED entry
  BY <1>15 DEF InterfaceUp
<1>16. CASE Cut
  BY <1>16 DEF Cut, InterfaceCut
<1> QED
  BY <1>1, <1>2, <1>3, <1>4, <1>5, <1>6, <1>7, <1>8, <1>9,
     <1>10, <1>11, <1>12, <1>13, <1>14, <1>15, <1>16 DEF WifiThread, ThreadStep

\* The manager sleeps on; it may hear of a loss.
LEMMA ThreadLeaves ==
    ASSUME WifiThread
    PROVE  /\ UNCHANGED manager
           /\ UNCHANGED network \/ (WifiDown /\ UNCHANGED <<mqttUp, mqttAge>>)
BY DEF WifiThread, ThreadStep, Cut

\* The times stay numbers.
LEMMA TimesKept ==
    ASSUME Inductive, [Next]_vars PROVE TimesOK'
<1> USE WifiLinkAssumption, SupervisorAssumption
    DEF WifiLinkAssumption, SupervisorAssumption, Inductive,
        TypeOK, TimesOK
<1>1. CASE WifiThread
  <2>1. Paces /\ UNCHANGED manager
    BY <1>1, ThreadPaces, ThreadLeaves
  <2>2. CASE UNCHANGED network
    BY <2>1, <2>2 DEF Paces, manager, network
  <2>3. CASE WifiDown /\ UNCHANGED <<mqttUp, mqttAge>>
    BY <2>1, <2>3 DEF Paces, WifiDown, manager
  <2> QED
    BY <1>1, <2>2, <2>3, ThreadLeaves
<1>2. CASE Start
  BY <1>2 DEF Start, ThreadStart, Sleep, thread, driver, linkVars, manager, entry,
              network
<1>3. CASE Hangs
  BY <1>3 DEF Hangs, Hang, thread, driver, linkVars, manager, entry,
              network
<1>4. CASE LinkResult
  BY <1>4 DEF LinkResult, Associate, Refuse, thread, driver, linkVars, manager, entry,
              network
<1>5. CASE LinkLost
  BY <1>5 DEF LinkLost, Lose, WifiDown, thread, driver, linkVars, manager, entry,
              network
<1>6. CASE LinkBound
  BY <1>6 DEF LinkBound, Bind, thread, driver, linkVars, manager, entry,
              network
<1>7. CASE MqttEvent
  BY <1>7 DEF MqttEvent, thread, driver, linkVars, manager, entry,
              network
<1>8. CASE FeedWatchdog
  BY <1>8 DEF FeedWatchdog, ManagerRuns, thread, driver, linkVars, manager, entry,
              network
<1>9. CASE CheckThreads
  BY <1>9 DEF CheckThreads, ManagerRuns, Alarm, thread, driver, linkVars, manager, entry,
              network
<1>10. CASE CheckNetwork
  BY <1>10 DEF CheckNetwork, ManagerRuns, Alarm, thread, driver, linkVars, manager, entry,
              network
<1>11. CASE ManagerHangs
  BY <1>11 DEF ManagerHangs, thread, driver, linkVars, manager, entry,
              network
<1>12. CASE Wrap
  BY <1>12 DEF Wrap, thread, driver, linkVars, manager, entry,
              network
<1>13. CASE Tick
  BY <1>13 DEF Tick, MayWait, thread, driver, linkVars, manager, entry,
              network
<1>14. CASE Booted
  BY <1>14 DEF Booted
<1>15. CASE UNCHANGED vars
  BY <1>15 DEF vars, thread, driver, linkVars, manager, entry,
              network
<1> QED
  BY <1>1, <1>2, <1>3, <1>4, <1>5, <1>6, <1>7, <1>8, <1>9,
     <1>10, <1>11, <1>12, <1>13, <1>14, <1>15
     DEF Next, WifiDriver, Manager, Faults, Assert, Bite

\* The thread keeps its promises.
LEMMA PacedKept ==
    ASSUME Inductive, [Next]_vars PROVE Paced'
<1> USE WifiLinkAssumption, SupervisorAssumption
    DEF WifiLinkAssumption, SupervisorAssumption, Inductive,
        TypeOK, LinkTypeOK, LinkTimesOK, TimesOK, Paced
<1>1. CASE WifiThread
  BY <1>1, ThreadPaces, ThreadLeaves
     DEF Paces, WifiDown, manager, network
<1>2. CASE Start
  BY <1>2 DEF Start, ThreadStart, Sleep, thread, driver, linkVars, manager, entry,
              network
<1>3. CASE Hangs
  BY <1>3 DEF Hangs, Hang, thread, driver, linkVars, manager, entry,
              network
<1>4. CASE LinkResult
  BY <1>4 DEF LinkResult, Associate, Refuse, thread, driver, linkVars, manager, entry,
              network
<1>5. CASE LinkLost
  BY <1>5 DEF LinkLost, Lose, WifiDown, thread, driver, linkVars, manager, entry,
              network
<1>6. CASE LinkBound
  BY <1>6 DEF LinkBound, Bind, thread, driver, linkVars, manager, entry,
              network
<1>7. CASE MqttEvent
  BY <1>7 DEF MqttEvent, thread, driver, linkVars, manager, entry,
              network
<1>8. CASE FeedWatchdog
  BY <1>8 DEF FeedWatchdog, ManagerRuns, thread, driver, linkVars, manager, entry,
              network
<1>9. CASE CheckThreads
  BY <1>9 DEF CheckThreads, ManagerRuns, Alarm, thread, driver, linkVars, manager, entry,
              network
<1>10. CASE CheckNetwork
  BY <1>10 DEF CheckNetwork, ManagerRuns, Alarm, thread, driver, linkVars, manager, entry,
              network
<1>11. CASE ManagerHangs
  BY <1>11 DEF ManagerHangs, thread, driver, linkVars, manager, entry,
              network
<1>12. CASE Wrap
  BY <1>12 DEF Wrap, thread, driver, linkVars, manager, entry,
              network
<1>13. CASE Tick
  BY <1>13 DEF Tick, MayWait, thread, driver, linkVars, manager, entry,
              network
<1>14. CASE Booted
  BY <1>14 DEF Booted
<1>15. CASE UNCHANGED vars
  BY <1>15 DEF vars, thread, driver, linkVars, manager, entry,
              network
<1> QED
  BY <1>1, <1>2, <1>3, <1>4, <1>5, <1>6, <1>7, <1>8, <1>9,
     <1>10, <1>11, <1>12, <1>13, <1>14, <1>15
     DEF Next, WifiDriver, Manager, Faults, Assert, Bite

\* The manager comes round in time to feed the watchdog.
LEMMA RoundsKept ==
    ASSUME Inductive, [Next]_vars PROVE Rounds'
<1> USE WifiLinkAssumption, SupervisorAssumption
    DEF WifiLinkAssumption, SupervisorAssumption, Inductive,
        TypeOK, TimesOK, Rounds
<1>1. CASE WifiThread
  BY <1>1, ThreadPaces, ThreadLeaves
     DEF Paces, WifiDown, manager, network
<1>2. CASE Start
  BY <1>2 DEF Start, ThreadStart, Sleep, thread, driver, linkVars, manager, entry,
              network
<1>3. CASE Hangs
  BY <1>3 DEF Hangs, Hang, thread, driver, linkVars, manager, entry,
              network
<1>4. CASE LinkResult
  BY <1>4 DEF LinkResult, Associate, Refuse, thread, driver, linkVars, manager, entry,
              network
<1>5. CASE LinkLost
  BY <1>5 DEF LinkLost, Lose, WifiDown, thread, driver, linkVars, manager, entry,
              network
<1>6. CASE LinkBound
  BY <1>6 DEF LinkBound, Bind, thread, driver, linkVars, manager, entry,
              network
<1>7. CASE MqttEvent
  BY <1>7 DEF MqttEvent, thread, driver, linkVars, manager, entry,
              network
<1>8. CASE FeedWatchdog
  BY <1>8 DEF FeedWatchdog, ManagerRuns, thread, driver, linkVars, manager, entry,
              network
<1>9. CASE CheckThreads
  BY <1>9 DEF CheckThreads, ManagerRuns, Alarm, thread, driver, linkVars, manager, entry,
              network
<1>10. CASE CheckNetwork
  BY <1>10 DEF CheckNetwork, ManagerRuns, Alarm, thread, driver, linkVars, manager, entry,
              network
<1>11. CASE ManagerHangs
  BY <1>11 DEF ManagerHangs, thread, driver, linkVars, manager, entry,
              network
<1>12. CASE Wrap
  BY <1>12 DEF Wrap, thread, driver, linkVars, manager, entry,
              network
<1>13. CASE Tick
  BY <1>13 DEF Tick, MayWait, thread, driver, linkVars, manager, entry,
              network
<1>14. CASE Booted
  BY <1>14 DEF Booted
<1>15. CASE UNCHANGED vars
  BY <1>15 DEF vars, thread, driver, linkVars, manager, entry,
              network
<1> QED
  BY <1>1, <1>2, <1>3, <1>4, <1>5, <1>6, <1>7, <1>8, <1>9,
     <1>10, <1>11, <1>12, <1>13, <1>14, <1>15
     DEF Next, WifiDriver, Manager, Faults, Assert, Bite

\* ... to see a thread that is overdue ...
LEMMA StallRoundsKept ==
    ASSUME Inductive, [Next]_vars PROVE StallRounds'
<1> USE WifiLinkAssumption, SupervisorAssumption
    DEF WifiLinkAssumption, SupervisorAssumption, Inductive,
        TypeOK, TimesOK, Paced, Rounds, StallRounds
<1>1. CASE WifiThread
  BY <1>1, ThreadPaces, ThreadLeaves
     DEF Paces, WifiDown, manager, network
<1>2. CASE Start
  BY <1>2 DEF Start, ThreadStart, Sleep, thread, driver, linkVars, manager, entry,
              network
<1>3. CASE Hangs
  BY <1>3 DEF Hangs, Hang, thread, driver, linkVars, manager, entry,
              network
<1>4. CASE LinkResult
  BY <1>4 DEF LinkResult, Associate, Refuse, thread, driver, linkVars, manager, entry,
              network
<1>5. CASE LinkLost
  BY <1>5 DEF LinkLost, Lose, WifiDown, thread, driver, linkVars, manager, entry,
              network
<1>6. CASE LinkBound
  BY <1>6 DEF LinkBound, Bind, thread, driver, linkVars, manager, entry,
              network
<1>7. CASE MqttEvent
  BY <1>7 DEF MqttEvent, thread, driver, linkVars, manager, entry,
              network
<1>8. CASE FeedWatchdog
  BY <1>8 DEF FeedWatchdog, ManagerRuns, thread, driver, linkVars, manager, entry,
              network
<1>9. CASE CheckThreads
  BY <1>9 DEF CheckThreads, ManagerRuns, Alarm, Overdue, thread, driver, linkVars, manager, entry,
              network
<1>10. CASE CheckNetwork
  BY <1>10 DEF CheckNetwork, ManagerRuns, Alarm, thread, driver, linkVars, manager, entry,
              network
<1>11. CASE ManagerHangs
  BY <1>11 DEF ManagerHangs, thread, driver, linkVars, manager, entry,
              network
<1>12. CASE Wrap
  BY <1>12 DEF Wrap, thread, driver, linkVars, manager, entry,
              network
<1>13. CASE Tick
  BY <1>13 DEF Tick, MayWait, thread, driver, linkVars, manager, entry,
              network
<1>14. CASE Booted
  BY <1>14 DEF Booted
<1>15. CASE UNCHANGED vars
  BY <1>15 DEF vars, thread, driver, linkVars, manager, entry,
              network
<1> QED
  BY <1>1, <1>2, <1>3, <1>4, <1>5, <1>6, <1>7, <1>8, <1>9,
     <1>10, <1>11, <1>12, <1>13, <1>14, <1>15
     DEF Next, WifiDriver, Manager, Faults, Assert, Bite

\* ... and to see that Wi-Fi is down too long.
LEMMA OutageRoundsKept ==
    ASSUME Inductive, [Next]_vars PROVE OutageRounds'
<1> USE WifiLinkAssumption, SupervisorAssumption
    DEF WifiLinkAssumption, SupervisorAssumption, Inductive,
        TypeOK, TimesOK, Rounds, OutageRounds
<1>1. CASE WifiThread
  <2>1. Paces /\ UNCHANGED manager
    BY <1>1, ThreadPaces, ThreadLeaves
  <2>2. CASE UNCHANGED network
    BY <2>1, <2>2 DEF Paces, manager, network
  <2>3. CASE WifiDown /\ UNCHANGED <<mqttUp, mqttAge>>
    BY <2>1, <2>3 DEF Paces, WifiDown, manager
  <2> QED
    BY <1>1, <2>2, <2>3, ThreadLeaves
<1>2. CASE Start
  BY <1>2 DEF Start, ThreadStart, Sleep, thread, driver, linkVars, manager, entry,
              network
<1>3. CASE Hangs
  BY <1>3 DEF Hangs, Hang, thread, driver, linkVars, manager, entry,
              network
<1>4. CASE LinkResult
  BY <1>4 DEF LinkResult, Associate, Refuse, thread, driver, linkVars, manager, entry,
              network
<1>5. CASE LinkLost
  BY <1>5 DEF LinkLost, Lose, WifiDown, thread, driver, linkVars, manager, entry,
              network
<1>6. CASE LinkBound
  BY <1>6 DEF LinkBound, Bind, thread, driver, linkVars, manager, entry,
              network
<1>7. CASE MqttEvent
  BY <1>7 DEF MqttEvent, thread, driver, linkVars, manager, entry,
              network
<1>8. CASE FeedWatchdog
  BY <1>8 DEF FeedWatchdog, ManagerRuns, thread, driver, linkVars, manager, entry,
              network
<1>9. CASE CheckThreads
  BY <1>9 DEF CheckThreads, ManagerRuns, Alarm, thread, driver, linkVars, manager, entry,
              network
<1>10. CASE CheckNetwork
  BY <1>10 DEF CheckNetwork, ManagerRuns, Alarm, WifiOverdue, thread, driver, linkVars, manager, entry,
              network
<1>11. CASE ManagerHangs
  BY <1>11 DEF ManagerHangs, thread, driver, linkVars, manager, entry,
              network
<1>12. CASE Wrap
  BY <1>12 DEF Wrap, thread, driver, linkVars, manager, entry,
              network
<1>13. CASE Tick
  BY <1>13 DEF Tick, MayWait, thread, driver, linkVars, manager, entry,
              network
<1>14. CASE Booted
  BY <1>14 DEF Booted
<1>15. CASE UNCHANGED vars
  BY <1>15 DEF vars, thread, driver, linkVars, manager, entry,
              network
<1> QED
  BY <1>1, <1>2, <1>3, <1>4, <1>5, <1>6, <1>7, <1>8, <1>9,
     <1>10, <1>11, <1>12, <1>13, <1>14, <1>15
     DEF Next, WifiDriver, Manager, Faults, Assert, Bite

\* Only a stuck thread is overdue.
LEMMA NoFalseStallKept ==
    ASSUME Inductive, [Next]_vars PROVE NoFalseStall'
<1> USE WifiLinkAssumption, SupervisorAssumption
    DEF WifiLinkAssumption, SupervisorAssumption, Inductive,
        TypeOK, LinkTypeOK, LinkTimesOK, TimesOK, Paced, NoFalseStall
<1>1. CASE WifiThread
  BY <1>1, ThreadPaces, ThreadLeaves
     DEF Paces, WifiDown, manager, network
<1>2. CASE Start
  BY <1>2 DEF Start, ThreadStart, Sleep, thread, driver, linkVars, manager, entry,
              network
<1>3. CASE Hangs
  BY <1>3 DEF Hangs, Hang, thread, driver, linkVars, manager, entry,
              network
<1>4. CASE LinkResult
  BY <1>4 DEF LinkResult, Associate, Refuse, thread, driver, linkVars, manager, entry,
              network
<1>5. CASE LinkLost
  BY <1>5 DEF LinkLost, Lose, WifiDown, thread, driver, linkVars, manager, entry,
              network
<1>6. CASE LinkBound
  BY <1>6 DEF LinkBound, Bind, thread, driver, linkVars, manager, entry,
              network
<1>7. CASE MqttEvent
  BY <1>7 DEF MqttEvent, thread, driver, linkVars, manager, entry,
              network
<1>8. CASE FeedWatchdog
  BY <1>8 DEF FeedWatchdog, ManagerRuns, thread, driver, linkVars, manager, entry,
              network
<1>9. CASE CheckThreads
  BY <1>9 DEF CheckThreads, ManagerRuns, Alarm, Overdue, thread, driver, linkVars, manager, entry,
              network
<1>10. CASE CheckNetwork
  BY <1>10 DEF CheckNetwork, ManagerRuns, Alarm, thread, driver, linkVars, manager, entry,
              network
<1>11. CASE ManagerHangs
  BY <1>11 DEF ManagerHangs, thread, driver, linkVars, manager, entry,
              network
<1>12. CASE Wrap
  BY <1>12 DEF Wrap, thread, driver, linkVars, manager, entry,
              network
<1>13. CASE Tick
  BY <1>13 DEF Tick, MayWait, thread, driver, linkVars, manager, entry,
              network
<1>14. CASE Booted
  BY <1>14 DEF Booted
<1>15. CASE UNCHANGED vars
  BY <1>15 DEF vars, thread, driver, linkVars, manager, entry,
              network
<1> QED
  BY <1>1, <1>2, <1>3, <1>4, <1>5, <1>6, <1>7, <1>8, <1>9,
     <1>10, <1>11, <1>12, <1>13, <1>14, <1>15
     DEF Next, WifiDriver, Manager, Faults, Assert, Bite

\* The thread keeps the types of its numbers ...
LEMMA ThreadTimes ==
    ASSUME TypeOK, BeliefsTrue, WifiThread PROVE LinkTimesOK'
<1> USE WifiLinkAssumption
    DEF WifiLinkAssumption, TypeOK, LinkTypeOK, LinkFlagsOK, Runs, Sleep, GoOn,
        thread, driver, LinkTimesOK
<1>1. CASE Begin
  BY <1>1 DEF Begin
<1>2. CASE Request
  BY <1>2 DEF Request
<1>3. CASE PollAgain
  BY <1>3 DEF PollAgain
<1>4. CASE KeepWatch
  BY <1>4 DEF KeepWatch
<1>5. CASE SettleDown
  BY <1>5 DEF SettleDown
<1>6. CASE SettleOn
  BY <1>6 DEF SettleOn
<1>7. CASE TimedOut
  BY <1>7 DEF TimedOut
<1>8. CASE InterfaceDown \/ InterfaceStays
  BY <1>8 DEF InterfaceDown, InterfaceStays
<1>9. CASE PollEnds
  BY <1>9 DEF PollEnds
<1>10. CASE PollEndsOver
  BY <1>10 DEF PollEndsOver
<1>11. CASE Settled
  BY <1>11 DEF Settled
<1>12. CASE StartOver
  BY <1>12 DEF StartOver
<1>13. CASE CountFail
  BY <1>13 DEF CountFail
<1>14. CASE ShutDown
  BY <1>14 DEF ShutDown
<1>15. CASE InterfaceUp
  BY <1>15 DEF InterfaceUp
<1>16. CASE Cut
  BY <1>16 DEF Cut, InterfaceCut
<1> QED
  BY <1>1, <1>2, <1>3, <1>4, <1>5, <1>6, <1>7, <1>8, <1>9, <1>10, <1>11,
     <1>12, <1>13, <1>14, <1>15, <1>16 DEF WifiThread, ThreadStep

\* ... and of its flags ...
LEMMA ThreadTypes ==
    ASSUME TypeOK, BeliefsTrue, WifiThread PROVE LinkFlagsOK'
<1> USE WifiLinkAssumption
    DEF WifiLinkAssumption, TypeOK, LinkTypeOK, LinkFlagsOK, Runs, Sleep, GoOn,
        thread, driver
<1>1. CASE Begin
  BY <1>1 DEF Begin
<1>2. CASE Request
  BY <1>2 DEF Request
<1>3. CASE PollAgain
  BY <1>3 DEF PollAgain
<1>4. CASE KeepWatch
  BY <1>4 DEF KeepWatch
<1>5. CASE SettleDown
  BY <1>5 DEF SettleDown
<1>6. CASE SettleOn
  BY <1>6 DEF SettleOn
<1>7. CASE TimedOut
  BY <1>7 DEF TimedOut
<1>8. CASE InterfaceDown \/ InterfaceStays
  BY <1>8 DEF InterfaceDown, InterfaceStays
<1>9. CASE PollEnds
  BY <1>9 DEF PollEnds
<1>10. CASE PollEndsOver
  BY <1>10 DEF PollEndsOver
<1>11. CASE Settled
  BY <1>11 DEF Settled
<1>12. CASE StartOver
  BY <1>12 DEF StartOver
<1>13. CASE CountFail
  BY <1>13 DEF CountFail
<1>14. CASE ShutDown
  BY <1>14 DEF ShutDown
<1>15. CASE InterfaceUp
  BY <1>15 DEF InterfaceUp
<1>16. CASE Cut
  BY <1>16 DEF Cut, InterfaceCut
<1> QED
  BY <1>1, <1>2, <1>3, <1>4, <1>5, <1>6, <1>7, <1>8, <1>9, <1>10, <1>11,
     <1>12, <1>13, <1>14, <1>15, <1>16 DEF WifiThread, ThreadStep

\* ... and its belief, and leaves the manager's true.
LEMMA ThreadBeliefs ==
    ASSUME TypeOK, BeliefsTrue, WifiThread
    PROVE  /\ ip' => link' \in {"up", "leaving"}
           /\ connected' => link' \in {"up", "leaving"}
           /\ wifiUp' /\ ip => ip'
<1> USE WifiLinkAssumption
    DEF WifiLinkAssumption, TypeOK, LinkTypeOK, LinkFlagsOK, Runs, Sleep, GoOn,
        thread, driver, BeliefsTrue, WifiDown
<1>1. CASE Begin
  BY <1>1 DEF Begin
<1>2. CASE Request
  BY <1>2 DEF Request
<1>3. CASE PollAgain
  BY <1>3 DEF PollAgain
<1>4. CASE KeepWatch
  BY <1>4 DEF KeepWatch
<1>5. CASE SettleDown
  BY <1>5 DEF SettleDown
<1>6. CASE SettleOn
  BY <1>6 DEF SettleOn
<1>7. CASE TimedOut
  BY <1>7 DEF TimedOut
<1>8. CASE InterfaceDown \/ InterfaceStays
  BY <1>8 DEF InterfaceDown, InterfaceStays
<1>9. CASE PollEnds
  BY <1>9 DEF PollEnds
<1>10. CASE PollEndsOver
  BY <1>10 DEF PollEndsOver
<1>11. CASE Settled
  BY <1>11 DEF Settled
<1>12. CASE StartOver
  BY <1>12 DEF StartOver
<1>13. CASE CountFail
  BY <1>13 DEF CountFail
<1>14. CASE ShutDown
  BY <1>14 DEF ShutDown
<1>15. CASE InterfaceUp
  BY <1>15 DEF InterfaceUp
<1>16. CASE Cut
  BY <1>16 DEF Cut, InterfaceCut
<1> QED
  BY <1>1, <1>2, <1>3, <1>4, <1>5, <1>6, <1>7, <1>8, <1>9, <1>10, <1>11,
     <1>12, <1>13, <1>14, <1>15, <1>16 DEF WifiThread, ThreadStep

\* The driver keeps them too.
LEMMA LinkTimesKept ==
    ASSUME Inductive, [Next]_vars PROVE LinkTimesOK'
<1> USE WifiLinkAssumption, SupervisorAssumption
    DEF WifiLinkAssumption, SupervisorAssumption, Inductive,
        TypeOK, LinkTypeOK, LinkTimesOK
<1>1. CASE WifiThread
  BY <1>1, ThreadTimes
<1>2. CASE Start
  BY <1>2 DEF Start, ThreadStart, Sleep, thread, driver, linkVars, manager, entry,
              network
<1>3. CASE Hangs
  BY <1>3 DEF Hangs, Hang, thread, driver, linkVars, manager, entry,
              network
<1>4. CASE LinkResult
  BY <1>4 DEF LinkResult, Associate, Refuse, thread, driver, linkVars, manager, entry,
              network
<1>5. CASE LinkLost
  BY <1>5 DEF LinkLost, Lose, WifiDown, thread, driver, linkVars, manager, entry,
              network
<1>6. CASE LinkBound
  BY <1>6 DEF LinkBound, Bind, thread, driver, linkVars, manager, entry,
              network
<1>7. CASE MqttEvent
  BY <1>7 DEF MqttEvent, thread, driver, linkVars, manager, entry,
              network
<1>8. CASE FeedWatchdog
  BY <1>8 DEF FeedWatchdog, ManagerRuns, thread, driver, linkVars, manager, entry,
              network
<1>9. CASE CheckThreads
  BY <1>9 DEF CheckThreads, ManagerRuns, Alarm, thread, driver, linkVars, manager, entry,
              network
<1>10. CASE CheckNetwork
  BY <1>10 DEF CheckNetwork, ManagerRuns, Alarm, thread, driver, linkVars, manager, entry,
              network
<1>11. CASE ManagerHangs
  BY <1>11 DEF ManagerHangs, thread, driver, linkVars, manager, entry,
              network
<1>12. CASE Wrap
  BY <1>12 DEF Wrap, thread, driver, linkVars, manager, entry,
              network
<1>13. CASE Tick
  BY <1>13 DEF Tick, MayWait, thread, driver, linkVars, manager, entry,
              network
<1>14. CASE Booted
  BY <1>14 DEF Booted
<1>15. CASE UNCHANGED vars
  BY <1>15 DEF vars, thread, driver, linkVars, manager, entry,
              network
<1> QED
  BY <1>1, <1>2, <1>3, <1>4, <1>5, <1>6, <1>7, <1>8, <1>9,
     <1>10, <1>11, <1>12, <1>13, <1>14, <1>15
     DEF Next, WifiDriver, Manager, Faults, Assert, Bite

\* No step leaves the types of the link.
LEMMA LinkFlagsKept ==
    ASSUME Inductive, [Next]_vars PROVE LinkFlagsOK'
<1> USE WifiLinkAssumption, SupervisorAssumption
    DEF WifiLinkAssumption, SupervisorAssumption, Inductive,
        TypeOK, LinkTypeOK, LinkFlagsOK
<1>1. CASE WifiThread
  BY <1>1, ThreadTypes
<1>2. CASE Start
  BY <1>2 DEF Start, ThreadStart, Sleep, thread, driver, linkVars, manager, entry,
              network
<1>3. CASE Hangs
  BY <1>3 DEF Hangs, Hang, thread, driver, linkVars, manager, entry,
              network
<1>4. CASE LinkResult
  BY <1>4 DEF LinkResult, Associate, Refuse, thread, driver, linkVars, manager, entry,
              network
<1>5. CASE LinkLost
  BY <1>5 DEF LinkLost, Lose, WifiDown, thread, driver, linkVars, manager, entry,
              network
<1>6. CASE LinkBound
  BY <1>6 DEF LinkBound, Bind, thread, driver, linkVars, manager, entry,
              network
<1>7. CASE MqttEvent
  BY <1>7 DEF MqttEvent, thread, driver, linkVars, manager, entry,
              network
<1>8. CASE FeedWatchdog
  BY <1>8 DEF FeedWatchdog, ManagerRuns, thread, driver, linkVars, manager, entry,
              network
<1>9. CASE CheckThreads
  BY <1>9 DEF CheckThreads, ManagerRuns, Alarm, thread, driver, linkVars, manager, entry,
              network
<1>10. CASE CheckNetwork
  BY <1>10 DEF CheckNetwork, ManagerRuns, Alarm, thread, driver, linkVars, manager, entry,
              network
<1>11. CASE ManagerHangs
  BY <1>11 DEF ManagerHangs, thread, driver, linkVars, manager, entry,
              network
<1>12. CASE Wrap
  BY <1>12 DEF Wrap, thread, driver, linkVars, manager, entry,
              network
<1>13. CASE Tick
  BY <1>13 DEF Tick, MayWait, thread, driver, linkVars, manager, entry,
              network
<1>14. CASE Booted
  BY <1>14 DEF Booted
<1>15. CASE UNCHANGED vars
  BY <1>15 DEF vars, thread, driver, linkVars, manager, entry,
              network
<1> QED
  BY <1>1, <1>2, <1>3, <1>4, <1>5, <1>6, <1>7, <1>8, <1>9,
     <1>10, <1>11, <1>12, <1>13, <1>14, <1>15
     DEF Next, WifiDriver, Manager, Faults, Assert, Bite

\* The manager's pcs and flags stay of their types.
LEMMA RestKept ==
    ASSUME Inductive, [Next]_vars PROVE (mpc \in {"sleep", "threads", "network", "alarm"}
                                      /\ reason \in {"none", "stall", "wifi", "mqtt"})'
<1> USE WifiLinkAssumption, SupervisorAssumption
    DEF WifiLinkAssumption, SupervisorAssumption, Inductive,
        TypeOK
<1>1. CASE WifiThread
  BY <1>1, ThreadLeaves DEF manager
<1>2. CASE Start
  BY <1>2 DEF Start, ThreadStart, Sleep, thread, driver, linkVars, manager, entry,
              network
<1>3. CASE Hangs
  BY <1>3 DEF Hangs, Hang, thread, driver, linkVars, manager, entry,
              network
<1>4. CASE LinkResult
  BY <1>4 DEF LinkResult, Associate, Refuse, thread, driver, linkVars, manager, entry,
              network
<1>5. CASE LinkLost
  BY <1>5 DEF LinkLost, Lose, WifiDown, thread, driver, linkVars, manager, entry,
              network
<1>6. CASE LinkBound
  BY <1>6 DEF LinkBound, Bind, thread, driver, linkVars, manager, entry,
              network
<1>7. CASE MqttEvent
  BY <1>7 DEF MqttEvent, thread, driver, linkVars, manager, entry,
              network
<1>8. CASE FeedWatchdog
  BY <1>8 DEF FeedWatchdog, ManagerRuns, thread, driver, linkVars, manager, entry,
              network
<1>9. CASE CheckThreads
  BY <1>9 DEF CheckThreads, ManagerRuns, Alarm, thread, driver, linkVars, manager, entry,
              network
<1>10. CASE CheckNetwork
  BY <1>10 DEF CheckNetwork, ManagerRuns, Alarm, thread, driver, linkVars, manager, entry,
              network
<1>11. CASE ManagerHangs
  BY <1>11 DEF ManagerHangs, thread, driver, linkVars, manager, entry,
              network
<1>12. CASE Wrap
  BY <1>12 DEF Wrap, thread, driver, linkVars, manager, entry,
              network
<1>13. CASE Tick
  BY <1>13 DEF Tick, MayWait, thread, driver, linkVars, manager, entry,
              network
<1>14. CASE Booted
  BY <1>14 DEF Booted
<1>15. CASE UNCHANGED vars
  BY <1>15 DEF vars, thread, driver, linkVars, manager, entry,
              network
<1> QED
  BY <1>1, <1>2, <1>3, <1>4, <1>5, <1>6, <1>7, <1>8, <1>9,
     <1>10, <1>11, <1>12, <1>13, <1>14, <1>15
     DEF Next, WifiDriver, Manager, Faults, Assert, Bite

\* The flags are Boolean.
LEMMA FlagsKept ==
    ASSUME Inductive, [Next]_vars PROVE (/\ mstuck \in BOOLEAN /\ stamped \in BOOLEAN /\ wrapped \in BOOLEAN
                                   /\ wifiUp \in BOOLEAN /\ mqttUp \in BOOLEAN)'
<1> USE WifiLinkAssumption, SupervisorAssumption
    DEF WifiLinkAssumption, SupervisorAssumption, Inductive,
        TypeOK
<1>1. CASE WifiThread
  BY <1>1, ThreadPaces, ThreadLeaves DEF Paces, WifiDown, manager, network
<1>2. CASE Start
  BY <1>2 DEF Start, ThreadStart, Sleep, thread, driver, linkVars, manager, entry,
              network
<1>3. CASE Hangs
  BY <1>3 DEF Hangs, Hang, thread, driver, linkVars, manager, entry,
              network
<1>4. CASE LinkResult
  BY <1>4 DEF LinkResult, Associate, Refuse, thread, driver, linkVars, manager, entry,
              network
<1>5. CASE LinkLost
  BY <1>5 DEF LinkLost, Lose, WifiDown, thread, driver, linkVars, manager, entry,
              network
<1>6. CASE LinkBound
  BY <1>6 DEF LinkBound, Bind, thread, driver, linkVars, manager, entry,
              network
<1>7. CASE MqttEvent
  BY <1>7 DEF MqttEvent, thread, driver, linkVars, manager, entry,
              network
<1>8. CASE FeedWatchdog
  BY <1>8 DEF FeedWatchdog, ManagerRuns, thread, driver, linkVars, manager, entry,
              network
<1>9. CASE CheckThreads
  BY <1>9 DEF CheckThreads, ManagerRuns, Alarm, thread, driver, linkVars, manager, entry,
              network
<1>10. CASE CheckNetwork
  BY <1>10 DEF CheckNetwork, ManagerRuns, Alarm, thread, driver, linkVars, manager, entry,
              network
<1>11. CASE ManagerHangs
  BY <1>11 DEF ManagerHangs, thread, driver, linkVars, manager, entry,
              network
<1>12. CASE Wrap
  BY <1>12 DEF Wrap, thread, driver, linkVars, manager, entry,
              network
<1>13. CASE Tick
  BY <1>13 DEF Tick, MayWait, thread, driver, linkVars, manager, entry,
              network
<1>14. CASE Booted
  BY <1>14 DEF Booted
<1>15. CASE UNCHANGED vars
  BY <1>15 DEF vars, thread, driver, linkVars, manager, entry,
              network
<1> QED
  BY <1>1, <1>2, <1>3, <1>4, <1>5, <1>6, <1>7, <1>8, <1>9,
     <1>10, <1>11, <1>12, <1>13, <1>14, <1>15
     DEF Next, WifiDriver, Manager, Faults, Assert, Bite

\* Beliefs stay true.
LEMMA BeliefsKept ==
    ASSUME Inductive, [Next]_vars PROVE BeliefsTrue'
<1> USE WifiLinkAssumption, SupervisorAssumption
    DEF WifiLinkAssumption, SupervisorAssumption, Inductive,
        TypeOK, BeliefsTrue
<1>1. CASE WifiThread
  <2>1. /\ wifiUp' /\ ip => ip'
        /\ ip' => link' \in {"up", "leaving"}
        /\ connected' => link' \in {"up", "leaving"}
    <3>1. TypeOK /\ BeliefsTrue
      BY DEF Inductive
    <3> HIDE DEF TypeOK, BeliefsTrue, Inductive
    <3> QED
      BY <1>1, <3>1, ThreadBeliefs
  <2>2. wifiUp' => wifiUp
    BY <1>1, ThreadLeaves, Zenon DEF WifiDown, network
  <2>3. wifiUp => ip
    BY DEF BeliefsTrue
  <2>4. wifiUp' => ip'
    BY <2>1, <2>2, <2>3, Zenon
  <2> QED
    BY <2>1, <2>4, Zenon DEF BeliefsTrue
<1>2. CASE Start
  BY <1>2 DEF Start, ThreadStart, Sleep, thread, driver, linkVars, manager, entry,
              network
<1>3. CASE Hangs
  BY <1>3 DEF Hangs, Hang, thread, driver, linkVars, manager, entry,
              network
<1>4. CASE LinkResult
  BY <1>4 DEF LinkResult, Associate, Refuse, thread, driver, linkVars, manager, entry,
              network
<1>5. CASE LinkLost
  BY <1>5 DEF LinkLost, Lose, WifiDown, thread, driver, linkVars, manager, entry,
              network
<1>6. CASE LinkBound
  BY <1>6 DEF LinkBound, Bind, thread, driver, linkVars, manager, entry,
              network
<1>7. CASE MqttEvent
  BY <1>7 DEF MqttEvent, thread, driver, linkVars, manager, entry,
              network
<1>8. CASE FeedWatchdog
  BY <1>8 DEF FeedWatchdog, ManagerRuns, thread, driver, linkVars, manager, entry,
              network
<1>9. CASE CheckThreads
  BY <1>9 DEF CheckThreads, ManagerRuns, Alarm, thread, driver, linkVars, manager, entry,
              network
<1>10. CASE CheckNetwork
  BY <1>10 DEF CheckNetwork, ManagerRuns, Alarm, thread, driver, linkVars, manager, entry,
              network
<1>11. CASE ManagerHangs
  BY <1>11 DEF ManagerHangs, thread, driver, linkVars, manager, entry,
              network
<1>12. CASE Wrap
  BY <1>12 DEF Wrap, thread, driver, linkVars, manager, entry,
              network
<1>13. CASE Tick
  BY <1>13 DEF Tick, MayWait, thread, driver, linkVars, manager, entry,
              network
<1>14. CASE Booted
  BY <1>14 DEF Booted
<1>15. CASE UNCHANGED vars
  BY <1>15 DEF vars, thread, driver, linkVars, manager, entry,
              network
<1> QED
  BY <1>1, <1>2, <1>3, <1>4, <1>5, <1>6, <1>7, <1>8, <1>9,
     <1>10, <1>11, <1>12, <1>13, <1>14, <1>15
     DEF Next, WifiDriver, Manager, Faults, Assert, Bite

-----------------------------------------------------------------------------
(* The theorems.                                                           *)

LEMMA InductiveInit == ASSUME Init PROVE Inductive
<1> USE WifiLinkAssumption, SupervisorAssumption
    DEF WifiLinkAssumption, SupervisorAssumption, Init, LinkInit
<1>1. LinkTimesOK /\ TimesOK
  BY DEF LinkTimesOK, TimesOK
<1>2. TypeOK
  BY <1>1 DEF TypeOK, LinkTypeOK
<1>3. Paced /\ NoFalseStall /\ BeliefsTrue
  BY DEF Paced, NoFalseStall, BeliefsTrue
<1>4. Rounds /\ StallRounds /\ OutageRounds
  BY DEF Rounds, StallRounds, OutageRounds
<1> QED
  BY <1>2, <1>3, <1>4 DEF Inductive

\* The invariant the properties follow from holds in every state.
THEOREM Invariance == Spec => []Inductive
<1>1. Init => Inductive
  BY InductiveInit
<1>2. Inductive /\ [Next]_vars => Inductive'
  <2> SUFFICES ASSUME Inductive, [Next]_vars PROVE Inductive'
    OBVIOUS
  <2>1. TypeOK'
    BY LinkTimesKept, LinkFlagsKept, TimesKept, RestKept, FlagsKept
       DEF TypeOK, LinkTypeOK, LinkFlagsOK
  <2> QED
    BY <2>1, PacedKept, RoundsKept, StallRoundsKept, OutageRoundsKept,
       NoFalseStallKept, BeliefsKept DEF Inductive
<1> QED
  BY <1>1, <1>2, PTL DEF Spec

\* Type correctness.
THEOREM TypeCorrect == Spec => []TypeOK
<1>1. Inductive => TypeOK
  BY DEF Inductive
<1> QED
  BY <1>1, Invariance, PTL

\* A thread on time is never taken for a stalled one.
THEOREM NoFalseAlarm == Spec => []NoFalseStall
<1>1. Inductive => NoFalseStall
  BY DEF Inductive
<1> QED
  BY <1>1, Invariance, PTL

\* A stalled thread restarts the device in bounded time.
THEOREM StallIsCaught == Spec => []StallCaught
<1>1. Inductive => StallCaught
  BY SupervisorAssumption
     DEF SupervisorAssumption, Inductive, TypeOK, TimesOK, Rounds, StallRounds, StallCaught
<1> QED
  BY <1>1, Invariance, PTL

\* So does an outage.
THEOREM OutageIsCaught == Spec => []OutageCaught
<1>1. Inductive => OutageCaught
  BY SupervisorAssumption
     DEF SupervisorAssumption, Inductive, TypeOK, TimesOK, Rounds, OutageRounds, OutageCaught
<1> QED
  BY <1>1, Invariance, PTL

\* The watchdog does not bite while the manager runs.
THEOREM WatchdogIsQuiet == Spec => []WatchdogQuiet
<1>1. Inductive => WatchdogQuiet
  BY SupervisorAssumption
     DEF SupervisorAssumption, Inductive, TypeOK, TimesOK, Rounds, WatchdogQuiet
<1> QED
  BY <1>1, Invariance, PTL

\* The manager and the thread believe in a link only where there is one.
THEOREM BeliefsAreTrue == Spec => []BeliefsTrue
<1>1. Inductive => BeliefsTrue
  BY DEF Inductive
<1> QED
  BY <1>1, Invariance, PTL
-----------------------------------------------------------------------------
(* How long the thread may be unaware of its link. The clock is a history, *)
(* so what is proved of Supervisor holds with it.                          *)

\* With its clock Supervisor takes the steps it takes without it.
LEMMA ClockStep == [ClockNext]_clockVars => [Next]_vars
BY DEF ClockNext, clockVars, Next, Untimed

THEOREM ClockIsSupervisor == ClockSpec => Spec
  BY ClockStep, PTL DEF ClockSpec, ClockInit, Spec

\* The attempts that are still to fail once n of them have.
Owed(n) == (MaxFails - n) * Round

LEMMA RoundIsTime == Round \in Nat /\ RetriesLast \in Nat
BY WifiLinkAssumption, SupervisorAssumption DEF Round, RetriesLast

LEMMA OwedFacts ==
    ASSUME NEW n \in 0..MaxFails
    PROVE  /\ Owed(n) \in Nat
           /\ n >= 1 => Owed(n) + Round <= RetriesLast
           /\ n < MaxFails => Owed(n) = Owed(n + 1) + Round
<1>1. MaxFails \in Nat /\ Round \in Nat
  BY RoundIsTime, WifiLinkAssumption
<1> DEFINE r == Round
           m == MaxFails
<1>2. \A k, d \in Nat : k * d \in Nat /\ (k + 1) * d = k * d + d
  OBVIOUS
<1>3. m - n \in Nat /\ r \in Nat /\ m \in Nat /\ n \in Nat
  BY <1>1
<1>4. (m - n) * r \in Nat
  BY <1>2, <1>3
<1>5. ASSUME n >= 1 PROVE (m - n) * r + r <= m * r
  <2>1. (m - n) * r + r = (m - (n - 1)) * r
    BY <1>2, <1>3, <1>5
  <2>2. \A a, b, d \in Nat : a <= b => a * d <= b * d
    OBVIOUS
  <2>3. m - (n - 1) \in Nat /\ m - (n - 1) <= m
    BY <1>3, <1>5
  <2> QED
    BY <1>3, <2>1, <2>2, <2>3
<1>6. ASSUME n < m PROVE (m - n) * r = (m - (n + 1)) * r + r
  <2>1. m - (n + 1) \in Nat /\ (m - (n + 1)) + 1 = m - n
    BY <1>3, <1>6
  <2> QED
    BY <1>2, <1>3, <2>1
<1> QED
  BY <1>4, <1>5, <1>6 DEF Owed, RetriesLast

\* What is known of the link where the thread stands. It knows of a link that
\* is up from its attempt on, and a link it does not know of has cost an
\* attempt already.
Places ==
    /\ wpc = "off" => link = "down"
    /\ wpc \in {"leave", "asleep"} => link \in {"leaving", "down"}
    /\ wpc \in {"settle", "settled"} => link # "pending" /\ (link = "up" => connected)
    /\ wpc = "decide" => rest <= 0 /\ (result /\ ~connected => link = "down")
    /\ wpc = "poll" /\ link = "up" /\ ~connected => result
    /\ wpc = "poll" /\ link = "pending" /\ result => fails >= 1
    /\ wpc = "top" /\ link \in {"pending", "up"} /\ ~connected => fails >= 1
    /\ wpc = "request" /\ link \in {"pending", "up"} => fails >= 1

\* What it has promised last where it stands.
Promises ==
    /\ promise = 0 => link = "down" /\ wpc \in {"off", "top"}
    /\ wpc \in {"request", "poll", "decide"} => promise = Attempt
    /\ wpc = "retry" => promise = Retry
    /\ Desync => promise \in {Attempt, Retry}

\* What has passed and what is left of the failing attempts make up for each
\* other.
Waits ==
    Desync /\ ~stuck =>
        /\ wpc \in {"poll", "decide"} =>
               unaware + rest + Retry + 2 * Late + Owed(fails) <= RetriesLast
        /\ wpc = "retry" => unaware + rest + Late + Owed(fails) <= RetriesLast
        /\ wpc \in {"top", "request"} =>
               unaware + rest + Late + Round + Owed(fails) <= RetriesLast

\* A thread that hangs ages its check-in, ...
Overrun == Desync /\ stuck => unaware <= RetriesLast + age

\* ... which is found by the manager, or the watchdog bites when it hangs too.
Found ==
    /\ fed <= Watchdog
    /\ promise # 0 /\ mstuck =>
           age <= promise + Tolerance + Feed + Countdown + 3 * Late + fed

HealInv == unaware \in Nat /\ Places /\ Promises /\ Waits /\ Overrun /\ Found

-----------------------------------------------------------------------------

\* The thread's steps.
LEMMA ThreadPlaces ==
    ASSUME TypeOK, BeliefsTrue, Places, WifiThread
    PROVE  Places'
<1> USE WifiLinkAssumption DEF TypeOK, LinkTypeOK, LinkTimesOK, Runs, Sleep, GoOn, BeliefsTrue,
        Places, thread, driver
<1>1. CASE Begin \/ Request \/ KeepWatch \/ CountFail
  BY <1>1 DEF Begin, Request, KeepWatch, CountFail
<1>2. CASE PollAgain \/ PollEnds \/ PollEndsOver
  BY <1>2 DEF PollAgain, PollEnds, PollEndsOver
<1>3. CASE SettleDown \/ SettleOn \/ Settled \/ TimedOut \/ StartOver
  BY <1>3 DEF SettleDown, SettleOn, Settled, TimedOut, StartOver
<1>4. CASE ShutDown \/ InterfaceDown \/ InterfaceCut \/ InterfaceStays \/ InterfaceUp
  BY <1>4 DEF ShutDown, InterfaceDown, InterfaceCut, InterfaceStays, InterfaceUp
<1> QED
  BY <1>1, <1>2, <1>3, <1>4 DEF WifiThread, ThreadStep, Cut

LEMMA ThreadPromises ==
    ASSUME TypeOK, BeliefsTrue, Places, Promises, WifiThread
    PROVE  Promises'
<1> USE WifiLinkAssumption DEF TypeOK, LinkTypeOK, LinkTimesOK, Runs, Sleep, GoOn, BeliefsTrue,
        Places, Promises, Desync, CheckIn, entry, thread, driver
<1>1. CASE (Begin \/ Request \/ PollAgain) /\ CheckIn(Attempt)
  BY <1>1 DEF Begin, Request, PollAgain
<1>2. CASE KeepWatch /\ CheckIn(Rest)
  BY <1>2 DEF KeepWatch
<1>3. CASE SettleDown /\ CheckIn(Settle)
  BY <1>3 DEF SettleDown
<1>4. CASE SettleOn /\ CheckIn(Poll)
  BY <1>4 DEF SettleOn
<1>5. CASE TimedOut /\ CheckIn(Retry)
  BY <1>5 DEF TimedOut
<1>6. CASE ((InterfaceDown \/ InterfaceStays) /\ CheckIn(LongSleep)) \/ Cut
  BY <1>6 DEF InterfaceDown, InterfaceStays, Cut, InterfaceCut
<1>7. CASE (PollEnds \/ PollEndsOver \/ Settled \/ StartOver) /\ UNCHANGED entry
  BY <1>7 DEF PollEnds, PollEndsOver, Settled, StartOver
<1>8. CASE (CountFail \/ ShutDown \/ InterfaceUp) /\ UNCHANGED entry
  BY <1>8 DEF CountFail, ShutDown, InterfaceUp
<1> QED
  BY <1>1, <1>2, <1>3, <1>4, <1>5, <1>6, <1>7, <1>8 DEF WifiThread, ThreadStep

\* Where a step of the thread leaves it unaware of its link, it has come one
\* place further along the failing attempt, or into it.
LEMMA ThreadUnaware ==
    ASSUME TypeOK, BeliefsTrue, Places, WifiThread, Desync'
    PROVE  \/ Begin /\ Desync
           \/ Request
           \/ PollEnds /\ Desync
           \/ PollEndsOver
           \/ TimedOut /\ Desync
           \/ CountFail /\ Desync
<1> USE DEF TypeOK, LinkTypeOK, Runs, Sleep, GoOn, BeliefsTrue, Places, Desync, thread, driver
<1>1. CASE Begin \/ KeepWatch \/ CountFail
  BY <1>1 DEF Begin, KeepWatch, CountFail
<1>2. CASE PollAgain \/ PollEnds
  BY <1>2 DEF PollAgain, PollEnds
<1>3. CASE SettleDown \/ SettleOn \/ Settled \/ TimedOut \/ StartOver
  BY <1>3 DEF SettleDown, SettleOn, Settled, TimedOut, StartOver
<1>4. CASE ShutDown \/ InterfaceDown \/ InterfaceCut \/ InterfaceStays \/ InterfaceUp
  BY <1>4 DEF ShutDown, InterfaceDown, InterfaceCut, InterfaceStays, InterfaceUp
<1> QED
  BY <1>1, <1>2, <1>3, <1>4 DEF WifiThread, ThreadStep, Cut

LEMMA ThreadWaits ==
    ASSUME Inductive, HealInv, WifiThread,
           unaware' = IF Desync /\ Desync' THEN unaware ELSE 0
    PROVE  Waits' /\ Overrun'
<1>1. ~stuck /\ ~stuck' /\ wpc # "off"
  BY ThreadPaces DEF Inductive
<1>2. Overrun'
  BY <1>1 DEF Overrun
<1>3. ASSUME Desync' PROVE Waits'
  <2>1. \/ Begin /\ Desync
        \/ Request
        \/ PollEnds /\ Desync
        \/ PollEndsOver
        \/ TimedOut /\ Desync
        \/ CountFail /\ Desync
    <3>1. TypeOK /\ BeliefsTrue /\ Places
      BY DEF Inductive, HealInv
    <3> QED
      BY <1>3, <3>1, ThreadUnaware, Zenon
  <2>2. /\ fails \in 0..MaxFails /\ rest \in Int /\ rest >= -Late /\ unaware \in Nat
        /\ Late \in Nat /\ Poll \in Nat /\ Retry \in Nat /\ Round = Poll + Retry + 2 * Late
        /\ RetriesLast \in Nat
    BY <1>1, RoundIsTime, WifiLinkAssumption, SupervisorAssumption
       DEF Inductive, TypeOK, LinkTypeOK, LinkTimesOK, Paced, HealInv, Round
  <2>3. /\ Owed(fails) \in Nat
        /\ fails >= 1 => Owed(fails) + Round <= RetriesLast
        /\ fails < MaxFails => Owed(fails) = Owed(fails + 1) + Round
    BY <2>2, OwedFacts
  <2> USE DEF Waits, Runs, Sleep, GoOn
  <2>4. CASE Begin /\ Desync
    BY <1>1, <1>3, <2>2, <2>3, <2>4 DEF Begin, HealInv, driver
  <2>5. CASE Request
    <3>1. wpc = "request" /\ wpc' = "poll" /\ rest' = Poll /\ fails' = fails
          /\ connected' = FALSE /\ (link \in {"pending", "up"} \/ link' # "up")
      BY <2>5 DEF Request, Inductive, TypeOK, LinkTypeOK
    <3>2. link' = "up" => fails >= 1
      BY <3>1 DEF HealInv, Places
    <3>3. fails >= 1
      BY <1>3, <3>2 DEF Desync
    <3>4. CASE Desync
      BY <1>1, <1>3, <2>2, <2>3, <3>1, <3>3, <3>4 DEF HealInv
    <3>5. CASE ~Desync
      BY <1>1, <1>3, <2>2, <2>3, <3>1, <3>3, <3>5
    <3> QED
      BY <3>4, <3>5
  <2>6. CASE PollEnds /\ Desync
    BY <1>1, <1>3, <2>2, <2>3, <2>6 DEF PollEnds, HealInv
  <2>7. CASE PollEndsOver
    <3>1. ~Desync /\ fails >= 1 /\ rest <= 0 /\ rest' = rest /\ fails' = fails
          /\ wpc' = "decide"
      BY <2>7 DEF PollEndsOver, HealInv, Places, Desync
    <3> QED
      BY <1>1, <1>3, <2>2, <2>3, <3>1
  <2>8. CASE TimedOut /\ Desync
    <3>1. rest <= 0 /\ rest' = Retry /\ wpc = "decide" /\ wpc' = "retry" /\ fails' = fails
      BY <2>8 DEF TimedOut
    <3> QED
      BY <1>1, <1>3, <2>2, <2>3, <2>8, <3>1 DEF HealInv
  <2>9. CASE CountFail /\ Desync
    <3>1. rest' = rest /\ wpc = "retry" /\ wpc' = "top" /\ fails < MaxFails
          /\ fails' = fails + 1
      BY <2>9 DEF CountFail
    <3>2. Owed(fails) = Owed(fails') + Round /\ Owed(fails) \in Nat
      BY <2>3, <3>1
    <3>3. unaware + rest + Late + Owed(fails) <= RetriesLast
      BY <1>1, <2>9, <3>1 DEF HealInv
    <3>4. Owed(fails') = Owed(fails) - Round /\ Round \in Nat
      <4>1. fails' \in 0..MaxFails
        BY <2>2, <3>1, WifiLinkAssumption
      <4>2. Owed(fails') \in Nat
        BY <4>1, OwedFacts
      <4> QED
        BY <3>2, <4>2, RoundIsTime
    <3>5. unaware' = unaware
      BY <1>3, <2>9
    <3> QED
      BY <2>2, <3>1, <3>2, <3>3, <3>4, <3>5
  <2> QED
    BY <2>1, <2>4, <2>5, <2>6, <2>7, <2>8, <2>9
<1>4. ~Desync' => Waits'
  BY DEF Waits
<1> QED
  BY <1>2, <1>3, <1>4
-----------------------------------------------------------------------------

\* The driver's, the manager's and the starting steps, as far as they matter
\* to the thread and its link.
LEMMA OtherSteps ==
    ASSUME Untimed
    PROVE  WifiThread \/ Start \/ Hangs \/ LinkResult \/ LinkLost \/ LinkBound
           \/ Booted \/ UNCHANGED <<linkVars, promise, age>>
<1>1. CASE MqttEvent \/ FeedWatchdog \/ ManagerHangs \/ Wrap
  BY <1>1 DEF MqttEvent, FeedWatchdog, ManagerHangs, Wrap, entry
<1>2. CASE CheckThreads \/ CheckNetwork
  BY <1>2 DEF CheckThreads, CheckNetwork, entry
<1> QED
  BY <1>1, <1>2 DEF Untimed, WifiDriver, Manager, Faults, Assert, Bite

LEMMA PlacesKept ==
    ASSUME Inductive, HealInv, [ClockNext]_clockVars
    PROVE  Places'
<1>1. TypeOK /\ BeliefsTrue /\ Places
  BY DEF Inductive, HealInv
<1>2. CASE WifiThread
  BY <1>1, <1>2, ThreadPlaces
<1> USE DEF Places, TypeOK, LinkTypeOK, LinkTimesOK
<1>3. CASE Start \/ Hangs
  BY <1>1, <1>3 DEF Start, ThreadStart, Sleep, Hangs, Hang, driver
<1>4. CASE LinkResult \/ LinkLost \/ LinkBound
  BY <1>1, <1>4 DEF LinkResult, Associate, Refuse, LinkLost, Lose, LinkBound, Bind, thread
<1>5. CASE Booted
  BY <1>5 DEF Booted
<1>6. CASE UNCHANGED linkVars
  BY <1>1, <1>6 DEF linkVars, thread, driver
<1>7. CASE Tick
  BY <1>1, <1>7 DEF Tick, driver
<1> QED
  BY <1>2, <1>3, <1>4, <1>5, <1>6, <1>7, OtherSteps DEF ClockNext, clockVars, vars

LEMMA PromisesKept ==
    ASSUME Inductive, HealInv, [ClockNext]_clockVars
    PROVE  Promises'
<1>1. TypeOK /\ BeliefsTrue /\ Places /\ Promises
  BY DEF Inductive, HealInv
<1>2. CASE WifiThread
  BY <1>1, <1>2, ThreadPromises
<1> USE DEF Places, Promises, Desync, TypeOK, LinkTypeOK, entry
<1>3. CASE Start \/ Hangs
  BY <1>1, <1>3 DEF Start, ThreadStart, Sleep, Hangs, Hang, driver
<1>4. CASE LinkResult \/ LinkLost \/ LinkBound
  BY <1>1, <1>4 DEF LinkResult, Associate, Refuse, LinkLost, Lose, LinkBound, Bind, thread
<1>5. CASE Booted
  BY <1>5 DEF Booted
<1>6. CASE UNCHANGED <<linkVars, promise>>
  BY <1>1, <1>6 DEF linkVars, thread, driver
<1>7. CASE Tick
  BY <1>1, <1>7 DEF Tick, driver
<1> QED
  BY <1>2, <1>3, <1>4, <1>5, <1>6, <1>7, OtherSteps DEF ClockNext, clockVars, vars

\* A thread that hangs has not been unaware for longer than the attempts last.
LEMMA WaitsBound ==
    ASSUME Inductive, HealInv, Desync, ~stuck
    PROVE  unaware <= RetriesLast
<1>1. /\ fails \in 0..MaxFails /\ rest \in Int /\ rest >= -Late /\ unaware \in Nat
      /\ Late \in Nat /\ Retry \in Nat /\ Round \in Nat /\ RetriesLast \in Nat
  BY RoundIsTime, WifiLinkAssumption, SupervisorAssumption
     DEF Inductive, TypeOK, LinkTypeOK, LinkTimesOK, Paced, HealInv, Desync
<1>2. Owed(fails) \in Nat
  BY <1>1, OwedFacts
<1>3. wpc \in {"poll", "decide", "retry", "top", "request"}
  BY DEF Inductive, TypeOK, LinkTypeOK, HealInv, Places, Desync
<1> QED
  BY <1>1, <1>2, <1>3 DEF HealInv, Waits

LEMMA WaitsKept ==
    ASSUME Inductive, HealInv, [ClockNext]_clockVars
    PROVE  (unaware \in Nat)' /\ Waits' /\ Overrun'
<1>1. unaware \in Nat /\ age \in Nat /\ RetriesLast \in Nat
  BY RoundIsTime DEF Inductive, TypeOK, TimesOK, HealInv
<1>2. CASE Tick /\ unaware' = IF Desync THEN OneLater ELSE 0
  <2>1. Desync' = Desync /\ stuck' = stuck /\ UNCHANGED <<wpc, fails>>
    BY <1>2 DEF Tick, Desync, driver
  <2>2. OneLater \in Nat /\ OneLater <= unaware + 1
    BY <1>1 DEF OneLater
  <2>3. unaware' \in Nat
    BY <1>2, <2>2
  <2>4. Waits'
    <3> SUFFICES ASSUME Desync, ~stuck PROVE Waits'
      BY <2>1 DEF Waits
    <3>1. rest' = rest - 1 /\ unaware' \in Nat /\ unaware' <= unaware + 1
      BY <1>2, <2>2 DEF Tick, Desync
    <3>2. /\ fails \in 0..MaxFails /\ rest \in Int /\ Late \in Nat /\ Retry \in Nat
          /\ Round \in Nat
      BY RoundIsTime, WifiLinkAssumption, SupervisorAssumption
         DEF Inductive, TypeOK, LinkTypeOK, LinkTimesOK
    <3>3. Owed(fails) \in Nat
      BY <3>2, OwedFacts
    <3> QED
      BY <1>1, <2>1, <3>1, <3>2, <3>3 DEF HealInv, Waits
  <2>5. Overrun'
    <3>1. Desync => age' = age + 1
      <4>1. Desync => promise # 0
        BY DEF HealInv, Promises, Desync
      <4> QED
        BY <1>2, <4>1 DEF Tick
    <3> QED
      BY <1>1, <1>2, <2>1, <2>2, <3>1 DEF HealInv, Overrun
  <2> QED
    BY <2>3, <2>4, <2>5
<1>3. CASE Untimed /\ unaware' = IF Desync /\ Desync' THEN unaware ELSE 0
  <2>1. unaware' \in Nat
    BY <1>1, <1>3
  <2>2. CASE WifiThread
    BY <1>3, <2>1, <2>2, ThreadWaits
  <2>3. CASE Hangs
    <3>1. stuck' /\ ~stuck /\ Desync' = Desync /\ UNCHANGED age
      BY <2>3 DEF Hangs, Hang, Desync, driver, entry
    <3>2. Desync => unaware <= RetriesLast
      BY <3>1, WaitsBound
    <3> QED
      BY <1>1, <1>3, <2>1, <3>1, <3>2 DEF Waits, Overrun
  <2>4. CASE Start \/ LinkResult \/ LinkLost \/ Booted
    <3>1. ~Desync'
      BY <2>4 DEF Start, ThreadStart, LinkResult, Associate, Refuse, LinkLost, Lose, Booted,
                  Desync, HealInv, Places, driver
    <3> QED
      BY <2>1, <3>1 DEF Waits, Overrun
  <2>5. CASE LinkBound \/ UNCHANGED <<linkVars, promise, age>>
    <3>1. UNCHANGED <<wpc, rest, fails, stuck, connected, link, age>>
      BY <2>5 DEF LinkBound, Bind, linkVars, thread, driver, entry
    <3>2. Desync' = Desync
      BY <3>1 DEF Desync
    <3> QED
      BY <1>3, <2>1, <3>1, <3>2 DEF HealInv, Waits, Overrun
  <2> QED
    BY <1>3, <2>2, <2>3, <2>4, <2>5, OtherSteps
<1>4. CASE UNCHANGED clockVars
  BY <1>4 DEF clockVars, vars, linkVars, thread, driver, entry, HealInv, Waits, Overrun, Desync
<1> QED
  BY <1>2, <1>3, <1>4 DEF ClockNext

LEMMA FoundKept ==
    ASSUME Inductive, HealInv, [Next]_vars
    PROVE  Found'
<1> USE SupervisorAssumption DEF Inductive, TypeOK, TimesOK, HealInv, Found
<1>1. CASE WifiThread
  BY <1>1, ThreadPaces, ThreadLeaves DEF Paces, manager
<1>2. CASE Start \/ Hangs
  BY <1>2 DEF Start, Hangs, manager, entry
<1>3. CASE LinkResult \/ LinkLost \/ LinkBound \/ MqttEvent \/ Wrap
  BY <1>3 DEF LinkResult, LinkLost, LinkBound, MqttEvent, Wrap, manager, entry
<1>4. CASE FeedWatchdog \/ CheckThreads \/ CheckNetwork
  BY <1>4 DEF FeedWatchdog, CheckThreads, CheckNetwork, ManagerRuns, entry
<1>5. CASE ManagerHangs
  <2>1. StallCaught /\ WatchdogQuiet
    BY DEF Rounds, StallRounds, StallCaught, WatchdogQuiet
  <2> QED
    BY <1>5, <2>1 DEF ManagerHangs, StallCaught, entry
<1>6. CASE Booted
  BY <1>6 DEF Booted
<1>7. CASE Tick
  BY <1>7 DEF Tick, MayWait
<1>8. CASE UNCHANGED vars
  BY <1>8 DEF vars, manager, entry
<1> QED
  BY <1>1, <1>2, <1>3, <1>4, <1>5, <1>6, <1>7, <1>8
     DEF Next, WifiDriver, Manager, Faults, Assert, Bite

\* A lost report does not stay lost for longer than the attempts that are left
\* before the interface is taken down, for all durations; a hang on top of it
\* ends with the restart.
THEOREM HealsInTimeAlways == ClockSpec => []HealsInTime
<1>1. ClockInit => HealInv
  <2> SUFFICES ASSUME ClockInit PROVE HealInv
    OBVIOUS
  <2>1. wpc = "off" /\ link = "down" /\ promise = 0 /\ fed = 0 /\ unaware = 0 /\ ~mstuck
    BY DEF ClockInit, Init, LinkInit
  <2>2. ~Desync
    BY <2>1 DEF Desync
  <2> QED
    BY <2>1, <2>2, SupervisorAssumption
       DEF HealInv, Places, Promises, Waits, Overrun, Found
<1>2. Inductive /\ HealInv /\ [ClockNext]_clockVars => HealInv'
  BY PlacesKept, PromisesKept, WaitsKept, FoundKept, ClockStep DEF HealInv
<1>3. ClockSpec => []Inductive
  BY ClockIsSupervisor, Invariance
<1>4. Inductive /\ HealInv => HealsInTime
  <2> SUFFICES ASSUME Inductive, HealInv, Desync PROVE HealsInTime
    BY DEF HealsInTime
  <2>1. CASE ~stuck
    BY <2>1, WaitsBound DEF HealsInTime
  <2>2. CASE stuck
    <3>1. promise # 0 /\ promise <= Longest /\ Longest \in Nat
      BY WifiLinkAssumption DEF HealInv, Promises, Desync, Longest
    <3>2. age <= promise + Tolerance + Feed + Countdown + 3 * Late + Watchdog
      BY <3>1, SupervisorAssumption
         DEF Inductive, TypeOK, TimesOK, Rounds, StallRounds, HealInv, Found
    <3>3. unaware <= RetriesLast + age
      BY <2>2 DEF HealInv, Overrun
    <3>4. promise \in Nat /\ age \in Nat /\ unaware \in Nat /\ RetriesLast \in Nat
      BY RoundIsTime DEF Inductive, TypeOK, TimesOK, HealInv
    <3> QED
      BY <2>2, <3>1, <3>2, <3>3, <3>4, SupervisorAssumption DEF HealsInTime, StallLasts
  <2> QED
    BY <2>1, <2>2
<1> QED
  BY <1>1, <1>2, <1>3, <1>4, PTL DEF ClockSpec
=============================================================================
