----------------------------- MODULE NodeProofs -----------------------------
(***************************************************************************)
(* Proofs about a node, for every bound. Of NodeRadio: type correctness,   *)
(* NotStranded (whatever overlaps), and from the phases of a cycle that    *)
(* nothing overlaps NeverCut, OneRetry, AttemptsTrue and Answered. Of      *)
(* NodeRing: it implements NodeRadio, so that all of these hold of it, and *)
(* RightAnswer, from them and the parameters each phase of a cycle leaves. *)
(***************************************************************************)
EXTENDS NodeRing, TLAPS

-----------------------------------------------------------------------------

\* The flags are truth values, the counters numbers in their range.
LEMMA FlagsKept == ASSUME FlagsOK, [Next]_vars PROVE FlagsOK'
<1> USE DEF FlagsOK
<1>1. CASE RxReceived
  BY <1>1 DEF RxReceived, Quiet
<1>2. CASE \E n \in 1..MaxAttempts : TxSuccess(n) \/ TxFailed(n) \/ TxFailedAgain(n)
  BY <1>2 DEF TxSuccess, TxFailed, TxFailedAgain, TxEvent, TxDone
<1>3. CASE SwitchToPtx \/ RetryPtx \/ SwitchToPrx
  BY <1>3 DEF SwitchToPtx, RetryPtx, SwitchToPrx, EnterPtx, PtxEntered, PtxFails, EnterPrx, PrxFails,
              flags
<1>4. CASE TakePtx \/ TakeRetry \/ TakePrx \/ Skip
  BY <1>4 DEF TakePtx, TakeRetry, TakePrx, Skip, flags, history
<1>5. CASE UNCHANGED vars
  BY <1>5 DEF vars, flags, history
<1> QED
  BY <1>1, <1>2, <1>3, <1>4, <1>5 DEF Next, Interrupt, MainLoop

LEMMA CountersKept == ASSUME CountersOK, [Next]_vars PROVE CountersOK'
<1> USE NodeRadioAssumption DEF CountersOK, UINT8
<1>1. CASE RxReceived
  BY <1>1 DEF RxReceived, attempts
<1>2. ASSUME NEW n \in 1..MaxAttempts,
             TxSuccess(n) \/ TxFailed(n) \/ TxFailedAgain(n)
      PROVE  CountersOK'
  <2>1. (total + n) % 256 \in UINT8 /\ spent + n \in Nat
    OBVIOUS
  <2>2. UNCHANGED <<faults, triggers, sends>> /\ total' = (total + n) % 256 /\ spent' = spent + n
    BY <1>2 DEF TxSuccess, TxFailed, TxFailedAgain, TxEvent
  <2>3. lastTx' \in {lastTx, total'}
    BY <1>2 DEF TxSuccess, TxFailed, TxFailedAgain, TxDone
  <2> QED
    BY <2>1, <2>2, <2>3
<1>3. CASE SwitchToPtx \/ RetryPtx \/ SwitchToPrx
  BY <1>3 DEF SwitchToPtx, RetryPtx, SwitchToPrx, EnterPtx, PtxEntered, PtxFails, EnterPrx, PrxFails,
              Fault, attempts
<1>4. CASE TakePtx \/ TakeRetry \/ TakePrx \/ Skip
  BY <1>4 DEF TakePtx, TakeRetry, TakePrx, Skip, attempts, history
<1>5. CASE UNCHANGED vars
  BY <1>5 DEF vars, attempts, history
<1> QED
  BY <1>1, <1>2, <1>3, <1>4, <1>5 DEF Next, Interrupt, MainLoop

\* Every variable keeps its type: a step of the loop or of the interrupt leaves
\* no flag, counter or role out of range.
THEOREM TypeCorrect == Spec => []TypeOK
<1>1. Init => TypeOK
  <2>1. Init => FlagsOK
    BY DEF Init, FlagsOK
  <2>2. Init => CountersOK
    BY NodeRadioAssumption DEF Init, CountersOK, UINT8
  <2> QED
    BY <2>1, <2>2 DEF Init, TypeOK
<1>2. TypeOK /\ [Next]_vars => TypeOK'
  <2> SUFFICES ASSUME TypeOK, [Next]_vars PROVE TypeOK'
    OBVIOUS
  <2> USE DEF TypeOK
  <2>1. CASE RxReceived
    BY <2>1, FlagsKept, CountersKept DEF RxReceived
  <2>2. CASE \E n \in 1..MaxAttempts : TxSuccess(n) \/ TxFailed(n) \/ TxFailedAgain(n)
    BY <2>2, FlagsKept, CountersKept DEF TxSuccess, TxFailed, TxFailedAgain, TxEvent, TxDone
  <2>3. CASE SwitchToPtx \/ RetryPtx \/ SwitchToPrx
    BY <2>3, FlagsKept, CountersKept DEF SwitchToPtx, RetryPtx, SwitchToPrx, EnterPtx, PtxEntered, PtxFails, EnterPrx, PrxFails
  <2>4. CASE TakePtx \/ TakeRetry \/ TakePrx \/ Skip
    BY <2>4, FlagsKept, CountersKept DEF TakePtx, TakeRetry, TakePrx, Skip, history
  <2>5. CASE UNCHANGED vars
    BY <2>5, FlagsKept, CountersKept DEF vars, history
  <2> QED
    BY <2>1, <2>2, <2>3, <2>4, <2>5 DEF Next, Interrupt, MainLoop
<1> QED
  BY <1>1, <1>2, PTL DEF Spec

-----------------------------------------------------------------------------

\* A node in PTX is always on its way back to listening: NotStranded is an
\* inductive invariant, with overlapping broadcasts and failures of the radio.
THEOREM NeverStranded == Spec => []NotStranded
<1>1. Init => NotStranded
  BY DEF Init, NotStranded
<1>2. TypeOK /\ NotStranded /\ [Next]_vars => NotStranded'
  <2> SUFFICES ASSUME TypeOK, NotStranded, [Next]_vars PROVE NotStranded'
    OBVIOUS
  <2> USE DEF NotStranded
  <2>1. CASE RxReceived
    BY <2>1 DEF RxReceived
  <2>2. ASSUME NEW n \in 1..MaxAttempts,
               TxSuccess(n) \/ TxFailed(n) \/ TxFailedAgain(n)
        PROVE  NotStranded'
    BY <2>2 DEF TxSuccess, TxFailed, TxFailedAgain, TxDone
  <2>3. CASE SwitchToPtx \/ RetryPtx
    BY <2>3 DEF SwitchToPtx, RetryPtx, EnterPtx, PtxEntered, PtxFails, EnterPrx, PrxFails
  <2>4. CASE SwitchToPrx
    BY <2>4 DEF SwitchToPrx, EnterPrx, PrxFails
  <2>5. CASE TakePtx \/ TakeRetry \/ TakePrx \/ Skip
    BY <2>5 DEF TakePtx, TakeRetry, TakePrx, Skip, flags
  <2>6. CASE UNCHANGED vars
    BY <2>6 DEF vars, flags
  <2> QED
    BY <2>1, <2>2, <2>3, <2>4, <2>5, <2>6 DEF Next, Interrupt, MainLoop
<1> QED
  BY <1>1, <1>2, TypeCorrect, PTL DEF Spec

-----------------------------------------------------------------------------
(* The phases of a cycle, while no broadcasts have overlapped. In each of  *)
(* them at most one thing is pending: a flag, a packet on the air, or a    *)
(* flag that the loop has taken.                                           *)

Pending(ptx, retry, prx, sending) ==
    wantPtx = ptx /\ wantRetry = retry /\ wantPrx = prx /\ onAir = sending

Polling == pc \in {"ptx", "retry", "prx"}

Reported == outcome \in {"delivered", "givenUp"} => lastTx = spent % 256

Listening ==
    /\ Pending(FALSE, FALSE, FALSE, FALSE) /\ Polling
    /\ radio # "PTX" /\ outcome # "open" /\ Reported

Asked ==
    /\ Pending(TRUE, FALSE, FALSE, FALSE) /\ Polling
    /\ radio = "PRX" /\ outcome = "open" /\ sends = 0 /\ spent = 0

Staggering ==
    /\ Pending(FALSE, FALSE, FALSE, FALSE) /\ pc = "stagger"
    /\ radio = "PRX" /\ outcome = "open"
    /\ sends = 0 /\ spent = 0 /\ total = 0

Sending ==
    /\ Pending(FALSE, FALSE, FALSE, TRUE) /\ Polling
    /\ radio = "PTX" /\ outcome = "open" /\ total = spent % 256
    /\ retried \/ sends = 1

RetryAsked ==
    /\ Pending(FALSE, TRUE, FALSE, FALSE) /\ Polling
    /\ radio = "PTX" /\ outcome = "open" /\ total = spent % 256
    /\ retried /\ sends = 1

Resending ==
    /\ Pending(FALSE, FALSE, FALSE, FALSE) /\ pc = "resend"
    /\ radio = "PTX" /\ outcome = "open" /\ total = spent % 256
    /\ retried /\ sends = 1

Done ==
    /\ Pending(FALSE, FALSE, TRUE, FALSE) /\ Polling
    /\ radio = "PTX" /\ outcome # "open" /\ Reported

GoingBack ==
    /\ Pending(FALSE, FALSE, FALSE, FALSE) /\ pc = "back"
    /\ radio = "PTX" /\ outcome # "open" /\ Reported

Ended == pc = "ended" /\ radio = "off" /\ ~onAir /\ outcome # "open" /\ Reported

Phase == Listening \/ Asked \/ Staggering \/ Sending \/ RetryAsked \/ Resending
         \/ Done \/ GoingBack \/ Ended

CycleInv == ~overlap => Phase /\ ~cut /\ sends <= 2

\* Attempts are counted modulo 2^8 in steps, or all at once: the same.
LEMMA CountModulo ==
    ASSUME NEW s \in Nat, NEW n \in Nat
    PROVE  ((s % 256) + n) % 256 = (s + n) % 256
OBVIOUS

LEMMA CycleInit == Init => CycleInv
BY DEF Init, CycleInv, Phase, Listening, Pending, Polling, Reported

LEMMA CycleInterrupt ==
    ASSUME TypeOK, CycleInv, Interrupt
    PROVE  CycleInv'
<1> USE DEF CycleInv
<1>1. CASE RxReceived
  <2>1. CASE overlap'
    BY <2>1
  <2>2. CASE ~overlap'
    <3>1. ~overlap /\ Quiet
      BY <1>1, <2>2 DEF RxReceived
    <3>2. ~wantPtx /\ ~wantRetry /\ ~wantPrx /\ ~onAir /\ Polling
      BY <3>1 DEF Quiet, Polling
    <3>3. Asked'
      BY <1>1, <3>2 DEF RxReceived, Asked, Pending, Polling, TypeOK
    <3> QED
      BY <1>1, <3>1, <3>3 DEF RxReceived, Phase
  <2> QED
    BY <2>1, <2>2
<1>2. ASSUME NEW n \in 1..MaxAttempts,
             TxSuccess(n) \/ TxFailed(n) \/ TxFailedAgain(n)
      PROVE  CycleInv'
  <2> SUFFICES ASSUME ~overlap PROVE Phase' /\ ~cut' /\ sends' <= 2
    BY <1>2 DEF TxSuccess, TxFailed, TxFailedAgain, TxEvent
  <2>1. TxEvent(n)
    BY <1>2 DEF TxSuccess, TxFailed, TxFailedAgain
  <2>2. Sending
    BY <2>1 DEF TxEvent, Phase, Listening, Asked, Staggering, RetryAsked,
                Resending, Done, GoingBack, Ended, Pending
  <2>3. n \in Nat /\ spent \in Nat
    BY DEF TypeOK, CountersOK
  <2>4. total' = spent' % 256
    BY <2>1, <2>2, <2>3, CountModulo DEF TxEvent, Sending
  <2>5. CASE TxFailed(n)
    <3>1. RetryAsked'
      BY <2>2, <2>4, <2>5 DEF TxFailed, TxEvent, Sending, RetryAsked, Pending,
                              Polling
    <3> QED
      BY <2>1, <3>1 DEF TxEvent, Phase
  <2>6. CASE TxSuccess(n) \/ TxFailedAgain(n)
    <3>1. Done'
      BY <2>2, <2>4, <2>6 DEF TxSuccess, TxFailedAgain, TxDone, TxEvent,
                              Sending, Done, Pending, Polling, Reported
    <3> QED
      BY <2>1, <3>1 DEF TxEvent, Phase
  <2> QED
    BY <1>2, <2>5, <2>6
<1> QED
  BY <1>1, <1>2 DEF Interrupt

\* Entering PTX with nothing pending: the answer is on the air, or given up.
LEMMA CycleEnterPtx ==
    ASSUME EnterPtx, UNCHANGED <<flags, retried, attempts, spent>>,
           Pending(FALSE, FALSE, FALSE, FALSE), Polling', ~cut,
           outcome = "open", total = spent % 256,
           (sends = 0 \/ (sends = 1 /\ retried))
    PROVE  Phase' /\ ~cut' /\ sends' <= 2
<1> USE DEF Pending, flags
<1>1. CASE PtxEntered
  <2>1. Pending(FALSE, FALSE, FALSE, TRUE)' /\ ~cut'
    BY <1>1 DEF PtxEntered
  <2>2. radio' = "PTX" /\ outcome' = "open"
    BY <1>1 DEF PtxEntered
  <2>3. sends' = sends + 1 /\ total' = spent' % 256
    BY <1>1 DEF PtxEntered, attempts
  <2>4. retried' \/ sends' = 1
    BY <2>3
  <2> QED
    BY <2>1, <2>2, <2>3, <2>4 DEF Sending, Phase
<1>2. CASE PtxFails
  <2>1. Pending(FALSE, FALSE, FALSE, FALSE)' /\ ~cut'
    BY <1>2 DEF PtxFails, EnterPrx, PrxFails
  <2>2. radio' # "PTX" /\ outcome' = "notSent" /\ sends' = sends
    BY <1>2 DEF PtxFails, EnterPrx, PrxFails
  <2> QED
    BY <2>1, <2>2 DEF Listening, Reported, Phase
<1> QED
  BY <1>1, <1>2 DEF EnterPtx

LEMMA CycleMainLoop ==
    ASSUME TypeOK, CycleInv, MainLoop
    PROVE  CycleInv'
<1> USE DEF CycleInv
<1> SUFFICES ASSUME ~overlap PROVE Phase' /\ ~cut' /\ sends' <= 2
  BY DEF MainLoop, TakePtx, SwitchToPtx, TakeRetry, RetryPtx, TakePrx,
         SwitchToPrx, Skip, history
<1> USE DEF Pending, Polling, Reported
<1>1. CASE TakePtx
  <2>1. Asked
    BY <1>1 DEF TakePtx, Phase, Listening, Staggering, Sending, RetryAsked,
                Resending, Done, GoingBack, Ended
  <2>2. Staggering'
    <3>1. total' = 0 /\ pc' = "stagger"
      BY <1>1 DEF TakePtx
    <3> QED
      <4>1. Pending(FALSE, FALSE, FALSE, FALSE)' /\ UNCHANGED <<radio, outcome>>
        BY <1>1, <2>1 DEF TakePtx, Asked, history
      <4>2. sends' = 0 /\ spent' = 0 /\ radio = "PRX" /\ outcome = "open"
        BY <1>1, <2>1 DEF TakePtx, Asked, history
      <4> QED
        BY <3>1, <4>1, <4>2 DEF Staggering
  <2> QED
    BY <1>1, <2>2 DEF TakePtx, Phase, history
<1>2. CASE SwitchToPtx
  <2>1. Staggering
    BY <1>2 DEF SwitchToPtx, Phase, Listening, Asked, Sending, RetryAsked,
                Resending, Done, GoingBack, Ended
  <2>2. EnterPtx /\ UNCHANGED <<flags, retried, attempts, spent>> /\ Polling'
    BY <1>2 DEF SwitchToPtx
  <2>3. /\ Pending(FALSE, FALSE, FALSE, FALSE) /\ ~cut
        /\ outcome = "open" /\ (sends = 0 \/ (sends = 1 /\ retried))
    BY <2>1 DEF Staggering
  <2>4. total = spent % 256
    <3>1. total = 0 /\ spent = 0
      BY <2>1 DEF Staggering
    <3>2. 0 % 256 = 0
      OBVIOUS
    <3> QED
      BY <3>1, <3>2
  <2> QED
    BY <2>2, <2>3, <2>4, CycleEnterPtx
<1>3. CASE TakeRetry
  <2>1. RetryAsked
    BY <1>3 DEF TakeRetry, Phase, Listening, Asked, Staggering, Sending,
                Resending, Done, GoingBack, Ended
  <2>2. Resending'
    <3>1. total' = spent' % 256 /\ sends' = 1
      BY <1>3, <2>1 DEF TakeRetry, RetryAsked, attempts, history
    <3> QED
      <4>1. Pending(FALSE, FALSE, FALSE, FALSE)' /\ UNCHANGED <<radio, outcome, retried>>
        BY <1>3, <2>1 DEF TakeRetry, RetryAsked, history
      <4>2. pc' = "resend" /\ radio = "PTX" /\ outcome = "open" /\ retried
        BY <1>3, <2>1 DEF TakeRetry, RetryAsked
      <4> QED
        BY <3>1, <4>1, <4>2 DEF Resending
  <2> QED
    BY <1>3, <2>2 DEF TakeRetry, Phase, history
<1>4. CASE RetryPtx
  <2>1. Resending
    BY <1>4 DEF RetryPtx, Phase, Listening, Asked, Staggering, Sending,
                RetryAsked, Done, GoingBack, Ended
  <2>2. EnterPtx /\ UNCHANGED <<flags, retried, attempts, spent>> /\ Polling'
    BY <1>4 DEF RetryPtx
  <2>3. /\ Pending(FALSE, FALSE, FALSE, FALSE) /\ ~cut
        /\ outcome = "open" /\ (sends = 0 \/ (sends = 1 /\ retried))
    BY <2>1 DEF Resending
  <2>4. total = spent % 256
    BY <2>1 DEF Resending
  <2> QED
    BY <2>2, <2>3, <2>4, CycleEnterPtx
<1>5. CASE TakePrx
  <2>1. Done
    BY <1>5 DEF TakePrx, Phase, Listening, Asked, Staggering, Sending,
                RetryAsked, Resending, GoingBack, Ended
  <2>2. GoingBack'
    BY <1>5, <2>1 DEF TakePrx, Done, GoingBack, attempts, history
  <2> QED
    BY <1>5, <2>2 DEF TakePrx, Phase, history
<1>6. CASE SwitchToPrx
  <2>1. GoingBack
    BY <1>6 DEF SwitchToPrx, Phase, Listening, Asked, Staggering, Sending,
                RetryAsked, Resending, Done, Ended
  <2>2. Listening' \/ Ended'
    BY <1>6, <2>1 DEF SwitchToPrx, EnterPrx, PrxFails, GoingBack, Listening,
                      Ended, flags, attempts
  <2>3. ~cut' /\ sends' <= 2
    BY <1>6, <2>1 DEF SwitchToPrx, EnterPrx, PrxFails, GoingBack
  <2> QED
    BY <2>2, <2>3 DEF Phase
<1>7. CASE Skip
  <2>1. Listening \/ Asked \/ Sending \/ RetryAsked \/ Done
    BY <1>7 DEF Skip, Phase, Staggering, Resending, GoingBack, Ended
  <2>2. Listening' \/ Asked' \/ Sending' \/ RetryAsked' \/ Done'
    BY <1>7, <2>1 DEF Skip, Listening, Asked, Sending, RetryAsked, Done, flags,
                      attempts, history
  <2> QED
    BY <1>7, <2>2 DEF Skip, Phase, history
<1> QED
  BY <1>1, <1>2, <1>3, <1>4, <1>5, <1>6, <1>7 DEF MainLoop

LEMMA CycleAlways == Spec => [](TypeOK /\ CycleInv)
<1>1. TypeOK /\ CycleInv /\ [Next]_vars => CycleInv'
  <2> SUFFICES ASSUME TypeOK, CycleInv, [Next]_vars PROVE CycleInv'
    OBVIOUS
  <2>1. CASE UNCHANGED vars
    BY <2>1 DEF vars, flags, attempts, history, CycleInv, Phase, Listening,
                Asked, Staggering, Sending, RetryAsked, Resending, Done,
                GoingBack, Ended, Pending, Polling, Reported
  <2> QED
    BY <2>1, CycleInterrupt, CycleMainLoop DEF Next
<1> QED
  BY <1>1, CycleInit, TypeCorrect, PTL DEF Spec

\* Unless broadcasts overlap, no role switch interrupts an answer and none is
\* written more than twice.
THEOREM AnswerWhole == Spec => [](NeverCut /\ OneRetry)
<1>1. CycleInv => NeverCut /\ OneRetry
  BY DEF CycleInv, NeverCut, OneRetry
<1> QED
  BY <1>1, CycleAlways, PTL

\* Unless broadcasts overlap, a node that listens again has dealt with the
\* broadcast it heard.
THEOREM AnswerGiven == Spec => []Answered
<1>1. CycleInv => Answered
  BY DEF CycleInv, Answered, Quiet, Phase, Listening, Asked, Staggering, Sending,
         RetryAsked, Resending, Done, GoingBack, Ended, Pending
<1> QED
  BY <1>1, CycleAlways, PTL

\* Unless broadcasts overlap, the attempts reported are those of the answer and
\* its retry together, in a uint8_t.
THEOREM AttemptsCounted == Spec => []AttemptsTrue
<1>1. CycleInv => AttemptsTrue
  BY DEF CycleInv, AttemptsTrue, Phase, Listening, Asked, Staggering, Sending,
         RetryAsked, Resending, Done, GoingBack, Ended, Reported
<1> QED
  BY <1>1, CycleAlways, PTL

-----------------------------------------------------------------------------
(* NodeRing implements NodeRadio.                                          *)

LEMMA RingStep == [RingNext]_allVars => [Next]_vars
<1> SUFFICES ASSUME [RingNext]_allVars PROVE [Next]_vars
  OBVIOUS
<1>1. CASE Bind \/ RecvNodeId \/ Start \/ \E p \in Packet : RxOther(p)
  BY <1>1 DEF Bind, RecvNodeId, Start, RxOther
<1>2. CASE \E p \in Packet : RxTrigger(p)
  BY <1>2 DEF RxTrigger, Next, Interrupt
<1>3. CASE RingTx
  BY <1>3 DEF RingTx, RingTxFailed, RingTxDone, Next, Interrupt
<1>4. CASE RingLoop
  BY <1>4 DEF RingLoop, RingTakePtx, RingTakeRetry, RingEnterPtx, RingRest,
              Next, MainLoop
<1>5. CASE UNCHANGED allVars
  BY <1>5 DEF allVars
<1> QED
  BY <1>1, <1>2, <1>3, <1>4, <1>5 DEF RingNext

\* A node with its ring, payload and parameters is a node radio: whatever these
\* are, they never change which step of it is taken (main.c 714-800).
THEOREM RingIsRadio == RingSpec => Spec
<1>1. RingInit => Init
  BY DEF RingInit
<1> QED
  BY <1>1, RingStep, PTL DEF RingSpec, Spec

\* What NodeRadio promises, the node with its ring keeps: it is never stranded
\* in PTX and, unless broadcasts overlap, gives each one whole answer, tried
\* twice at most and counted rightly, before it listens again.
THEOREM RingKeepsPromises ==
    RingSpec => [](NotStranded /\ NeverCut /\ OneRetry /\ AttemptsTrue /\ Answered)
  BY RingIsRadio, NeverStranded, AnswerWhole, AttemptsCounted, AnswerGiven, PTL

-----------------------------------------------------------------------------
(* The inductive invariant, over that of NodeRadio.                        *)

\* The payload is the answer to the last broadcast, on the air or not.
PayloadRight ==
    /\ ring \in 1..3
    /\ boot # "up" => heard = Short
    /\ payload.number = triggers /\ payload.byte = Echo
    /\ onAir => radio = "PTX" /\ air.number = triggers /\ air.byte = Echo

FirstTry(n, d, w) == n = 3 /\ d = 600 /\ w = 0

SecondTry(n, d, w) ==
    n = 3 + Extra[ring] /\ d = 600 + LeastOffset[ring] /\ w = 3

AirRight ==
    \/ sends = 1 /\ FirstTry(air.count, air.delay, air.power)
                 /\ FirstTry(count, delay, power)
    \/ sends = 2 /\ SecondTry(air.count, air.delay, air.power)

\* The parameters follow the phases of the cycle.
ParamsRight ==
    ~overlap =>
        /\ lastTx = before
        /\ outcome = "open" => payload.attempts = before
        /\ pc = "stagger" => FirstTry(count, delay, power)
        /\ RetryAsked => count = 3 + Extra[ring] /\ delay = 600 /\ power = 3
        /\ Resending => SecondTry(count, delay, power)
        /\ onAir => air.attempts = before /\ AirRight

\* The offsets of a ring are small: no uint16_t wraps.
LEMMA Offsets ==
    ASSUME NEW r \in 1..3
    PROVE  /\ Extra[r] \in 5..10 /\ LeastOffset[r] \in 0..1500
           /\ (3 + Extra[r]) % 65536 = 3 + Extra[r]
           /\ (600 + LeastOffset[r]) % 65536 = 600 + LeastOffset[r]
<1>1. CASE r = 1
  BY <1>1 DEF Extra, LeastOffset
<1>2. CASE r = 2
  BY <1>2 DEF Extra, LeastOffset
<1>3. CASE r = 3
  BY <1>3 DEF Extra, LeastOffset
<1> QED
  BY <1>1, <1>2, <1>3

LEMMA PayloadKept ==
    ASSUME PayloadRight, TypeOK, [RingNext]_allVars
    PROVE  PayloadRight'
<1> USE DEF PayloadRight, Echo
<1>1. CASE Bind \/ RecvNodeId
  BY <1>1 DEF Bind, RecvNodeId, vars, history, answer
<1>2. CASE Start
  BY <1>2 DEF Start, vars, history, answer
<1>3. ASSUME NEW p \in Packet, RxOther(p) PROVE PayloadRight'
  <2>1. RingOf(p) \in 1..3
    BY DEF RingOf
  <2> QED
    BY <1>3, <2>1 DEF RxOther, start, vars, history, answer
<1>4. ASSUME NEW p \in Packet, RxTrigger(p) PROVE PayloadRight'
  <2>1. RingOf(p) \in 1..3
    BY DEF RingOf
  <2>2. radio = "PRX" /\ UNCHANGED <<radio, onAir>>
    BY <1>4 DEF RxTrigger, RxReceived
  <2>3. payload'.number = triggers' /\ payload'.byte = Echo'
    BY <1>4 DEF RxTrigger, Reads, start
  <2> QED
    BY <1>4, <2>1, <2>2, <2>3 DEF RxTrigger, start
<1>5. CASE RingTx
  BY <1>5 DEF RingTx, RingTxFailed, RingTxDone, TxSuccess, TxFailed,
              TxFailedAgain, TxEvent, start, answer
<1>6. CASE RingTakePtx \/ RingTakeRetry
  BY <1>6 DEF RingTakePtx, RingTakeRetry, TakePtx, TakeRetry, start, answer,
              history
<1>7. CASE RingEnterPtx
  <2>1. onAir' => radio' = "PTX"
    BY <1>7 DEF RingEnterPtx, SwitchToPtx, RetryPtx, EnterPtx, PtxEntered,
                PtxFails, EnterPrx, PrxFails
  <2>2. UNCHANGED <<triggers, boot, resolved, ring, payload, heard>>
    BY <1>7 DEF RingEnterPtx, SwitchToPtx, RetryPtx, start, answer
  <2>3. onAir' => air' = Written
    BY <1>7 DEF RingEnterPtx
  <2> QED
    BY <2>1, <2>2, <2>3 DEF Written
<1>8. CASE RingRest
  BY <1>8 DEF RingRest, TakePrx, SwitchToPrx, Skip, EnterPrx, PrxFails,
              ringVars, start, answer, history
<1>9. CASE UNCHANGED allVars
  BY <1>9 DEF allVars, vars, ringVars, start, answer, history
<1> QED
  BY <1>1, <1>2, <1>3, <1>4, <1>5, <1>6, <1>7, <1>8, <1>9
     DEF RingNext, RingLoop

-----------------------------------------------------------------------------

LEMMA ParamsTx ==
    ASSUME PayloadRight, ParamsRight, TypeOK, CycleInv, RingTx
    PROVE  ParamsRight'
<1> SUFFICES ASSUME ~overlap PROVE ParamsRight'
  BY DEF RingTx, RingTxFailed, RingTxDone, TxSuccess, TxFailed, TxFailedAgain,
         TxEvent, ParamsRight
<1>1. PICK n \in 1..MaxAttempts : RingTxFailed(n) \/ RingTxDone(n)
  BY DEF RingTx
<1>2. TxEvent(n)
  BY <1>1 DEF RingTxFailed, RingTxDone, TxSuccess, TxFailed, TxFailedAgain
<1>3. Sending /\ sends <= 2
  BY <1>2 DEF TxEvent, CycleInv, Phase, Listening, Asked, Staggering,
              RetryAsked, Resending, Done, GoingBack, Ended, Pending
<1>4. ~onAir' /\ UNCHANGED <<pc, sends, overlap>> /\ Polling'
  BY <1>2, <1>3 DEF TxEvent, Sending, Polling
<1>5. CASE RingTxFailed(n)
  <2>1. UNCHANGED <<lastTx, outcome, ring, payload, delay, before>>
    BY <1>5 DEF RingTxFailed, TxFailed, answer
  <2>2. sends = 1 /\ FirstTry(count, delay, power)
    BY <1>2, <1>3, <1>5
       DEF TxEvent, Sending, RingTxFailed, TxFailed, ParamsRight, AirRight
  <2>3. count' = 3 + Extra[ring] /\ power' = 3
    BY <1>5, <2>2, Offsets DEF RingTxFailed, FirstTry, PayloadRight
  <2> QED
    BY <1>4, <2>1, <2>2, <2>3
       DEF ParamsRight, FirstTry, Polling, Resending
<1>6. CASE RingTxDone(n)
  <2>1. lastTx' = total' /\ outcome' # "open" /\ before' = (spent + n) % 256
    BY <1>6 DEF RingTxDone, TxSuccess, TxFailedAgain, TxDone
  <2>2. n \in Nat /\ spent \in Nat
    BY DEF TypeOK, CountersOK
  <2>3. total' = (spent + n) % 256
    BY <1>2, <1>3, <2>2, CountModulo DEF TxEvent, Sending
  <2> QED
    BY <1>4, <2>1, <2>3 DEF ParamsRight, Polling, RetryAsked, Resending
<1> QED
  BY <1>1, <1>5, <1>6

LEMMA ParamsEnterPtx ==
    ASSUME PayloadRight, ParamsRight, TypeOK, CycleInv, RingEnterPtx
    PROVE  ParamsRight'
<1> SUFFICES ASSUME ~overlap PROVE ParamsRight'
  BY DEF RingEnterPtx, SwitchToPtx, RetryPtx, ParamsRight
<1>1. UNCHANGED <<ring, payload, params, before, lastTx, overlap, flags>>
  BY DEF RingEnterPtx, SwitchToPtx, RetryPtx, answer, attempts
<1>2. pc' \notin {"stagger", "resend"} /\ ~wantRetry'
  <2>1. ~wantRetry
    BY DEF RingEnterPtx, SwitchToPtx, RetryPtx, CycleInv, Phase, Listening,
           Asked, Staggering, Sending, RetryAsked, Resending, Done, GoingBack,
           Ended, Pending, Polling
  <2> QED
    BY <1>1, <2>1 DEF RingEnterPtx, SwitchToPtx, RetryPtx, flags
<1>3. outcome = "open" /\ (outcome' = "open" => UNCHANGED outcome)
  BY DEF RingEnterPtx, SwitchToPtx, RetryPtx, CycleInv, Phase, Listening,
         Asked, Staggering, Sending, RetryAsked, Resending, Done, GoingBack,
         Ended, Polling
<1>4. ASSUME onAir'
      PROVE  air'.attempts = before /\ AirRight'
  <2>1. air' = Written /\ sends' = sends + 1
    BY <1>4 DEF RingEnterPtx, SwitchToPtx, RetryPtx, EnterPtx, PtxEntered,
                PtxFails, EnterPrx, PrxFails
  <2>2. air'.attempts = before
    BY <1>3, <2>1 DEF Written, ParamsRight
  <2>3. CASE SwitchToPtx
    <3>1. Staggering
      BY <2>3 DEF SwitchToPtx, CycleInv, Phase, Listening, Asked, Sending,
                  RetryAsked, Resending, Done, GoingBack, Ended, Polling
    <3>2. sends' = 1
      BY <2>1, <3>1 DEF Staggering
    <3>3. FirstTry(count, delay, power)
      BY <3>1 DEF Staggering, ParamsRight
    <3> QED
      BY <1>1, <2>1, <2>2, <3>2, <3>3
         DEF AirRight, FirstTry, Written, params
  <2>4. CASE RetryPtx
    <3>1. Resending
      BY <2>4 DEF RetryPtx, CycleInv, Phase, Listening, Asked, Staggering,
                  Sending, RetryAsked, Done, GoingBack, Ended, Polling
    <3>2. sends' = 2
      BY <2>1, <3>1 DEF Resending
    <3>3. SecondTry(count, delay, power)
      BY <3>1 DEF ParamsRight
    <3> QED
      BY <1>1, <2>1, <2>2, <3>2, <3>3 DEF AirRight, SecondTry, Written
  <2> QED
    BY <2>3, <2>4 DEF RingEnterPtx
<1> QED
  BY <1>1, <1>2, <1>3, <1>4
     DEF ParamsRight, RetryAsked, Resending, Pending

LEMMA ParamsTake ==
    ASSUME PayloadRight, ParamsRight, TypeOK, CycleInv,
           RingTakePtx \/ RingTakeRetry
    PROVE  ParamsRight'
<1> SUFFICES ASSUME ~overlap PROVE ParamsRight'
  BY DEF RingTakePtx, RingTakeRetry, TakePtx, TakeRetry, ParamsRight, history
<1>1. UNCHANGED <<ring, payload, air, before, lastTx, outcome, onAir, sends, overlap>>
  BY DEF RingTakePtx, RingTakeRetry, TakePtx, TakeRetry, answer, history,
         attempts
<1>2. CASE RingTakePtx
  <2>1. Asked
    BY <1>2 DEF RingTakePtx, TakePtx, CycleInv, Phase, Listening, Staggering,
                Sending, RetryAsked, Resending, Done, GoingBack, Ended, Pending
  <2>2. pc' = "stagger" /\ ~onAir'
    BY <1>2, <2>1 DEF RingTakePtx, TakePtx, Asked, Pending
  <2>3. FirstTry(count, delay, power)'
    BY <1>2 DEF RingTakePtx, FirstTry
  <2> QED
    BY <1>1, <2>2, <2>3
       DEF ParamsRight, RetryAsked, Resending, Polling
<1>3. CASE RingTakeRetry
  <2>1. RetryAsked
    BY <1>3 DEF RingTakeRetry, TakeRetry, CycleInv, Phase, Listening, Asked,
                Staggering, Sending, Resending, Done, GoingBack, Ended, Pending
  <2>2. pc' = "resend" /\ ~onAir'
    BY <1>3, <2>1 DEF RingTakeRetry, TakeRetry, RetryAsked, Pending
  <2>3. SecondTry(count, delay, power)'
    <3>1. count = 3 + Extra[ring] /\ delay = 600 /\ power = 3
      BY <2>1 DEF ParamsRight
    <3>2. delay' = 600 + LeastOffset[ring]
      BY <1>3, <3>1, Offsets DEF RingTakeRetry, PayloadRight
    <3> QED
      BY <1>3, <1>1, <3>1, <3>2 DEF RingTakeRetry, SecondTry
  <2> QED
    BY <1>1, <2>2, <2>3
       DEF ParamsRight, RetryAsked, Polling
<1> QED
  BY <1>2, <1>3

LEMMA ParamsKept ==
    ASSUME PayloadRight, ParamsRight, TypeOK, CycleInv, [RingNext]_allVars
    PROVE  ParamsRight'
<1>1. CASE Bind \/ RecvNodeId \/ Start \/ UNCHANGED allVars
  BY <1>1 DEF Bind, RecvNodeId, Start, allVars, ringVars, vars, flags, history,
              attempts, params, answer, ParamsRight, AirRight, FirstTry,
              SecondTry, RetryAsked, Resending, Pending, Polling
<1>2. ASSUME NEW p \in Packet, RxOther(p) PROVE ParamsRight'
  <2>1. radio = "PRX" /\ UNCHANGED <<vars, answer, params, air, before>>
    BY <1>2 DEF RxOther
  <2>2. ~onAir
    BY <2>1 DEF PayloadRight
  <2> QED
    BY <2>1, <2>2 DEF vars, flags, history, attempts, params, answer,
                      ParamsRight, FirstTry, RetryAsked, Resending
<1>3. ASSUME NEW p \in Packet, RxTrigger(p) PROVE ParamsRight'
  <2>1. RxReceived /\ UNCHANGED <<params, air, before, lastTx, pc, radio, onAir>>
    BY <1>3 DEF RxTrigger, RxReceived, attempts
  <2>2. radio = "PRX" /\ ~onAir
    BY <2>1 DEF RxReceived, PayloadRight
  <2>3. payload'.attempts = lastTx
    BY <1>3 DEF RxTrigger
  <2>4. ~overlap' => ~overlap /\ pc # "stagger"
    BY <2>1 DEF RxReceived, Quiet
  <2> QED
    BY <2>1, <2>2, <2>3, <2>4 DEF ParamsRight, RetryAsked, Resending
<1>4. CASE RingRest
  <2> SUFFICES ASSUME ~overlap PROVE ParamsRight'
    BY <1>4 DEF RingRest, TakePrx, SwitchToPrx, Skip, history, ParamsRight
  <2>1. UNCHANGED <<ringVars, lastTx, outcome, sends, overlap, retried, total, spent, wantRetry>>
    BY <1>4 DEF RingRest, TakePrx, SwitchToPrx, Skip, history, attempts, flags
  <2>2. pc' \notin {"stagger", "resend"} /\ (onAir' => onAir)
    BY <1>4 DEF RingRest, TakePrx, SwitchToPrx, Skip, EnterPrx, PrxFails
  <2>3. RetryAsked' => RetryAsked
    <3>1. CASE Skip
      BY <3>1 DEF Skip, RetryAsked, Pending, Polling, flags, attempts, history
    <3>2. CASE TakePrx
      BY <3>2 DEF TakePrx, RetryAsked, Polling
    <3>3. CASE SwitchToPrx
      BY <3>3 DEF SwitchToPrx, EnterPrx, PrxFails, RetryAsked
    <3> QED
      BY <1>4, <3>1, <3>2, <3>3 DEF RingRest
  <2>4. UNCHANGED <<ring, payload, count, delay, power, air, before>>
    BY <2>1 DEF ringVars, answer, params
  <2>5. onAir' => air'.attempts = before' /\ AirRight'
    BY <2>1, <2>2, <2>4 DEF ParamsRight, AirRight, FirstTry, SecondTry
  <2> QED
    BY <2>1, <2>2, <2>3, <2>4, <2>5 DEF ParamsRight, Resending
<1> QED
  BY <1>1, <1>2, <1>3, <1>4, ParamsTx, ParamsEnterPtx, ParamsTake
     DEF RingNext, RingLoop

LEMMA Defaults == 3 \in UINT16 /\ 600 \in UINT16
BY DEF UINT16

LEMMA Below == ASSUME NEW k \in Nat PROVE k % 65536 \in UINT16
BY DEF UINT16

LEMMA CountWidth ==
    ASSUME count \in UINT16, ring \in 1..3
    PROVE  (count + Extra[ring]) % 65536 \in UINT16
<1>1. Extra[ring] \in Nat
  BY DEF Extra
<1>2. count \in Nat
  BY DEF UINT16
<1>3. count + Extra[ring] \in Nat
  BY <1>1, <1>2
<1> QED
  BY <1>3, Below

LEMMA DelayWidth ==
    ASSUME delay \in UINT16, ring \in 1..3
    PROVE  (delay + LeastOffset[ring]) % 65536 \in UINT16
<1>1. LeastOffset[ring] \in Nat
  BY DEF LeastOffset
<1>2. delay \in Nat
  BY DEF UINT16
<1>3. delay + LeastOffset[ring] \in Nat
  BY <1>1, <1>2
<1> QED
  BY <1>3, Below

LEMMA NamedNibble ==
    ASSUME NEW p \in Packet
    PROVE  p.mine \in 0..Short
<1>1. p.mine \in Nibble \cup {Short}
  BY DEF Packet
<1>2. CASE p.mine \in Nibble
  <2>1. p.mine \in 0..3
    BY <1>2, NodeRingAssumption
  <2> QED
    BY <2>1 DEF Short
<1>3. CASE p.mine = Short
  BY <1>3 DEF Short
<1> QED
  BY <1>1, <1>2, <1>3

\* The variables NodeRing adds keep their types: the counters of a uint16_t
\* and a uint8_t stay in range.
THEOREM RingTypeCorrect == RingSpec => []RingTypeOK
<1> USE DEF RingTypeOK
<1>1. RingInit => RingTypeOK
  <2> SUFFICES ASSUME RingInit PROVE RingTypeOK
    OBVIOUS
  <2>1. 3 \in UINT16 /\ 600 \in UINT16 /\ 0 \in UINT8 /\ 0 \in 0..MaxTriggers
    BY NodeRadioAssumption DEF UINT8, UINT16
  <2>2. payload \in [number : 0..MaxTriggers, byte : 0..3, attempts : UINT8]
    BY <2>1 DEF RingInit
  <2>3. count \in UINT16 /\ delay \in UINT16 /\ power \in {0, 3}
    BY <2>1 DEF RingInit
  <2>4. air \in [number : 0..MaxTriggers, byte : 0..3, attempts : UINT8,
                  count : UINT16, delay : UINT16, power : {0, 3}]
    BY <2>2, <2>3 DEF RingInit, Written
  <2> QED
    <3>1. heard \in 0..Short /\ ring \in 1..3
      BY DEF RingInit, Short
    <3> QED
      BY <2>1, <2>2, <2>3, <2>4, <3>1 DEF RingInit
<1>2. RingTypeOK /\ TypeOK /\ TypeOK' /\ [RingNext]_allVars => RingTypeOK'
  <2> SUFFICES ASSUME RingTypeOK, TypeOK, TypeOK', [RingNext]_allVars
               PROVE  RingTypeOK'
    OBVIOUS
  <2>1. CASE Bind \/ RecvNodeId \/ Start
    BY <2>1 DEF Bind, RecvNodeId, Start, params, answer
  <2>2. ASSUME NEW p \in Packet, RxOther(p) \/ RxTrigger(p)
        PROVE  RingTypeOK'
    <3>1. RingOf(p) \in 1..3 /\ p.mine \in 0..Short
      <4>1. RingOf(p) \in 1..3
        BY DEF RingOf
      <4> QED
        BY <4>1, <2>2, NamedNibble
    <3>2. Reads(p) => p.mine \in 0..3
      BY <3>1 DEF Reads, Short
    <3>3. lastTx \in UINT8 /\ triggers' \in 0..MaxTriggers
      BY DEF TypeOK, CountersOK
    <3>4. CASE RxOther(p)
      BY <2>2, <3>1, <3>4 DEF RxOther, start, answer, params
    <3>5. CASE RxTrigger(p)
      <4>1. payload' \in [number : 0..MaxTriggers, byte : 0..3, attempts : UINT8]
        BY <3>2, <3>3, <3>5 DEF RxTrigger
      <4> QED
        BY <3>1, <3>5, <4>1 DEF RxTrigger, start, params
    <3> QED
      BY <2>2, <3>4, <3>5
  <2>3. CASE RingTx
    <3>1. PICK n \in 1..MaxAttempts : RingTxFailed(n) \/ RingTxDone(n)
      BY <2>3 DEF RingTx
    <3>2. (spent + n) % 256 \in UINT8
      BY NodeRadioAssumption DEF TypeOK, CountersOK, UINT8
    <3>3. (count + Extra[ring]) % 65536 \in UINT16
      BY CountWidth
    <3> QED
      BY <3>1, <3>2, <3>3 DEF RingTxFailed, RingTxDone, start, answer, params
  <2>4. CASE RingTakePtx
    <3>1. 3 \in UINT16 /\ 600 \in UINT16
      BY Defaults
    <3> QED
      BY <2>4, <3>1 DEF RingTakePtx, start, answer
  <2>5. CASE RingTakeRetry
    <3>1. (delay + LeastOffset[ring]) % 65536 \in UINT16
      BY DelayWidth
    <3> QED
      BY <2>5, <3>1 DEF RingTakeRetry, start, answer
  <2>6. CASE RingEnterPtx
    BY <2>6 DEF RingEnterPtx, Written, start, answer, params
  <2>7. CASE RingRest \/ UNCHANGED allVars
    BY <2>7 DEF RingRest, allVars, ringVars, start, answer, params
  <2> QED
    BY <2>1, <2>2, <2>3, <2>4, <2>5, <2>6, <2>7 DEF RingNext, RingLoop
<1>3. RingSpec => []TypeOK
  BY RingIsRadio, TypeCorrect
<1> QED
  BY <1>1, <1>2, <1>3, PTL DEF RingSpec

\* Whatever a node sends is the answer to the last broadcast it heard, with its
\* own ring byte; without overlaps also with the attempts of the answer before,
\* and with the parameters of its try.
THEOREM AnswerRight == RingSpec => []RightAnswer
<1>1. RingInit => PayloadRight /\ ParamsRight
  <2>1. RingInit => PayloadRight
    BY DEF RingInit, Init, PayloadRight, Echo
  <2>2. RingInit => ParamsRight
    BY DEF RingInit, Init, ParamsRight, RetryAsked, Resending, Pending
  <2> QED
    BY <2>1, <2>2
<1>2. RingSpec => [](TypeOK /\ CycleInv)
  BY RingIsRadio, CycleAlways
<1>3. /\ PayloadRight /\ ParamsRight /\ TypeOK /\ CycleInv
      /\ [RingNext]_allVars
      => PayloadRight' /\ ParamsRight'
  BY PayloadKept, ParamsKept
<1>4. PayloadRight /\ ParamsRight => RightAnswer
  BY DEF PayloadRight, ParamsRight, AirRight, FirstTry, SecondTry, RightAnswer
<1> QED
  BY <1>1, <1>2, <1>3, <1>4, PTL DEF RingSpec
=============================================================================
