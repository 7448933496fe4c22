------------------------------ MODULE NodeRadio ------------------------------
(***************************************************************************)
(* The radio of a node: net_ipc/src/main.c of the node's network core. The *)
(* node listens (PRX); a 0x92 broadcast makes it switch to PTX, answer with*)
(* one packet, try once more with a backed-off configuration if nobody     *)
(* acknowledges, and listen again.                                         *)
(*                                                                         *)
(* The radio interrupt (event_handler) talks to the main loop through three*)
(* atomic flags and plain globals, and may run between any two steps of it.*)
(***************************************************************************)
EXTENDS Naturals

CONSTANTS
    MaxTriggers,  \* bound: 0x92 broadcasts heard in a run of the model
    MaxFaults,    \* bound: failures of enter_ptx and enter_prx
    MaxAttempts   \* bound: transmissions of one packet the radio reports

ASSUME NodeRadioAssumption ==
    /\ MaxTriggers \in Nat
    /\ MaxFaults \in Nat
    /\ MaxAttempts \in Nat \ {0}

VARIABLES
    radio,     \* the role ESB is initialised for, "off" if that failed
    onAir,     \* a packet is being transmitted
    wantPtx,   \* do_switch_to_ptx
    wantPrx,   \* do_switch_to_prx
    wantRetry, \* do_retry_ptx
    retried,   \* tx_retried
    total,     \* current_packet_total_attempts, a uint8_t
    lastTx,    \* last_tx_attempts, a uint8_t
    pc,        \* where the main loop stands
    faults,    \* failures so far
    triggers,  \* history: broadcasts heard
    overlap,   \* history: one was heard before the last one was dealt with
    sends,     \* history: packets written since the last broadcast
    spent,     \* history: transmissions since the last broadcast
    outcome,   \* history: what has become of the last broadcast
    cut        \* history: a packet on the air was cut short

flags == <<wantPtx, wantPrx, wantRetry>>
attempts == <<total, lastTx>>
history == <<triggers, overlap, sends, spent, outcome, cut>>
vars == <<radio, onAir, flags, retried, attempts, pc, faults, history>>

UINT8 == 0..255

FlagsOK ==
    /\ onAir \in BOOLEAN
    /\ wantPtx \in BOOLEAN
    /\ wantPrx \in BOOLEAN
    /\ wantRetry \in BOOLEAN
    /\ retried \in BOOLEAN
    /\ overlap \in BOOLEAN
    /\ cut \in BOOLEAN

CountersOK ==
    /\ total \in UINT8
    /\ lastTx \in UINT8
    /\ faults \in 0..MaxFaults
    /\ triggers \in 0..MaxTriggers
    /\ sends \in Nat
    /\ spent \in Nat

TypeOK ==
    /\ radio \in {"PRX", "PTX", "off"}
    /\ pc \in {"ptx", "stagger", "retry", "resend", "prx", "back", "ended"}
    /\ outcome \in {"none", "open", "delivered", "givenUp", "notSent"}
    /\ FlagsOK
    /\ CountersOK

-----------------------------------------------------------------------------
(* The radio interrupt.                                                    *)

\* Nothing is under way for an earlier broadcast.
Quiet == ~wantPtx /\ ~wantPrx /\ ~wantRetry /\ ~onAir
         /\ pc \in {"ptx", "retry", "prx"}

\* A packet that begins with 0x92: the answer is prepared in tx_payload, over
\* the one of an earlier broadcast, and the main loop is asked to send it.
RxReceived ==
    /\ radio = "PRX" /\ triggers < MaxTriggers
    /\ wantPtx' = TRUE
    /\ triggers' = triggers + 1
    /\ overlap' = (overlap \/ ~Quiet)
    /\ sends' = 0 /\ spent' = 0 /\ outcome' = "open"
    /\ UNCHANGED <<radio, onAir, wantPrx, wantRetry, retried, attempts, pc,
                   faults, cut>>

\* Every TX event adds the attempts it reports to those of the packet.
TxEvent(n) ==
    /\ onAir /\ onAir' = FALSE
    /\ total' = (total + n) % 256
    /\ spent' = spent + n
    /\ UNCHANGED <<radio, wantPtx, pc, faults, triggers, overlap, sends, cut>>

\* The packet is done with, one way or the other.
TxDone(result) ==
    /\ lastTx' = total'
    /\ retried' = FALSE
    /\ wantPrx' = TRUE
    /\ outcome' = result
    /\ UNCHANGED wantRetry

TxSuccess(n) == TxEvent(n) /\ TxDone("delivered")

\* Mutation: the flags are swapped, so the first failure ends the cycle.
TxFailedGoesBack(n) ==
    /\ ~retried /\ retried' = TRUE
    /\ TxEvent(n)
    /\ wantPrx' = TRUE
    /\ UNCHANGED <<wantRetry, lastTx, outcome>>

\* The first failure asks for a retry ...
TxFailed(n) ==
    /\ ~retried /\ retried' = TRUE
    /\ TxEvent(n)
    /\ wantRetry' = TRUE
    /\ UNCHANGED <<wantPrx, lastTx, outcome>>

\* Mutation: the answer is given up without going back to listening.
TxFailedAgainStays(n) ==
    /\ retried /\ retried' = FALSE
    /\ TxEvent(n)
    /\ lastTx' = total' /\ outcome' = "givenUp"
    /\ UNCHANGED <<wantPrx, wantRetry>>

\* Mutation: the attempts of the retry are reported without the first ones.
TxFailedAgainLastOnly(n) ==
    /\ retried /\ retried' = FALSE
    /\ TxEvent(n)
    /\ lastTx' = n /\ wantPrx' = TRUE /\ outcome' = "givenUp"
    /\ UNCHANGED wantRetry

\* ... the second one gives the answer up.
TxFailedAgain(n) == retried /\ TxEvent(n) /\ TxDone("givenUp")

Interrupt ==
    \/ RxReceived
    \/ \E n \in 1..MaxAttempts : TxSuccess(n) \/ TxFailed(n) \/ TxFailedAgain(n)

-----------------------------------------------------------------------------
(* The main loop. enter_ptx and enter_prx disable ESB and initialise it    *)
(* again: a packet still on the air is cut short.                          *)

Fault == faults < MaxFaults /\ faults' = faults + 1

\* enter_prx, and its failure, which leaves no radio.
EnterPrx ==
    /\ radio' = "PRX" /\ onAir' = FALSE
    /\ cut' = (cut \/ onAir)

PrxFails ==
    /\ radio' = "off" /\ onAir' = FALSE
    /\ cut' = (cut \/ onAir)

\* enter_ptx writes tx_payload, which starts the transmission. When it fails,
\* the loop goes back to PRX and does not look at how that ended.
PtxEntered ==
    /\ radio' = "PTX" /\ onAir' = TRUE
    /\ cut' = (cut \/ onAir)
    /\ sends' = sends + 1
    /\ UNCHANGED <<faults, outcome>>

PtxFails ==
    /\ Fault
    /\ EnterPrx \/ PrxFails
    /\ outcome' = "notSent"
    /\ UNCHANGED sends

\* Mutation: a failed enter_ptx is only logged.
EnterPtxOrStay ==
    \/ PtxEntered
    \/ /\ Fault
       /\ radio' = "PTX" /\ onAir' = FALSE /\ cut' = (cut \/ onAir)
       /\ outcome' = "notSent"
       /\ UNCHANGED sends

EnterPtx == PtxEntered \/ PtxFails

\* Mutation: the flag is taken without being cleared.
TakePtxKeepsFlag ==
    /\ pc = "ptx" /\ wantPtx
    /\ total' = 0
    /\ pc' = "stagger"
    /\ UNCHANGED <<radio, onAir, flags, retried, lastTx, faults, history>>

\* A new cycle resets the PTX parameters and the attempts, not tx_retried.
TakePtx ==
    /\ pc = "ptx" /\ wantPtx /\ wantPtx' = FALSE
    /\ total' = 0
    /\ pc' = "stagger"
    /\ UNCHANGED <<radio, onAir, wantPrx, wantRetry, retried, lastTx, faults,
                   history>>

\* After the ring's stagger.
SwitchToPtx ==
    /\ pc = "stagger" /\ pc' = "retry"
    /\ EnterPtx
    /\ UNCHANGED <<flags, retried, attempts, triggers, overlap, spent>>

TakeRetry ==
    /\ pc = "retry" /\ wantRetry /\ wantRetry' = FALSE
    /\ pc' = "resend"
    /\ UNCHANGED <<radio, onAir, wantPtx, wantPrx, retried, attempts, faults,
                   history>>

RetryPtx ==
    /\ pc = "resend" /\ pc' = "prx"
    /\ EnterPtx
    /\ UNCHANGED <<flags, retried, attempts, triggers, overlap, spent>>

TakePrx ==
    /\ pc = "prx" /\ wantPrx /\ wantPrx' = FALSE
    /\ pc' = "back"
    /\ UNCHANGED <<radio, onAir, wantPtx, wantRetry, retried, attempts, faults,
                   history>>

\* Back to listening; here a failure ends the loop.
SwitchToPrx ==
    /\ pc = "back"
    /\ \/ EnterPrx /\ pc' = "ptx" /\ UNCHANGED faults
       \/ Fault /\ PrxFails /\ pc' = "ended"
    /\ UNCHANGED <<flags, retried, attempts, triggers, overlap, sends, spent,
                   outcome>>

\* A flag that is not set; k_msleep(1) closes the round.
Skip ==
    /\ \/ pc = "ptx" /\ ~wantPtx /\ pc' = "retry"
       \/ pc = "retry" /\ ~wantRetry /\ pc' = "prx"
       \/ pc = "prx" /\ ~wantPrx /\ pc' = "ptx"
    /\ UNCHANGED <<radio, onAir, flags, retried, attempts, faults, history>>

MainLoop == TakePtx \/ SwitchToPtx \/ TakeRetry \/ RetryPtx \/ TakePrx
            \/ SwitchToPrx \/ Skip

-----------------------------------------------------------------------------

Init ==
    /\ radio = "PRX" /\ onAir = FALSE
    /\ wantPtx = FALSE /\ wantPrx = FALSE /\ wantRetry = FALSE
    /\ retried = FALSE
    /\ total = 0 /\ lastTx = 0
    /\ pc = "ptx" /\ faults = 0
    /\ triggers = 0 /\ overlap = FALSE
    /\ sends = 0 /\ spent = 0 /\ outcome = "none" /\ cut = FALSE

Next == Interrupt \/ MainLoop

Spec == Init /\ [][Next]_vars

-----------------------------------------------------------------------------
(* Properties.                                                             *)

\* However events and the loop interleave, a node that has left PRX is on its
\* way back: a TX event is due, a flag is set, or the loop has taken one. A node
\* without either would be deaf for ever (main.c 448-493, 720-797).
NotStranded ==
    radio = "PTX" => onAir \/ wantPtx \/ wantPrx \/ wantRetry
                     \/ pc \in {"stagger", "resend", "back"}

\* Unless broadcasts overlap, a role switch never cuts the answer off that is
\* on the air.
NeverCut == ~overlap => ~cut

\* Unless broadcasts overlap, an answer is written at most twice.
OneRetry == ~overlap => sends <= 2

\* The attempts reported to the cluster head are those of the whole answer, the
\* retry included ("Running total for the currently active packet across
\* retries", main.c 79), unless broadcasts overlap.
AttemptsTrue ==
    ~overlap /\ outcome \in {"delivered", "givenUp"} => lastTx = spent % 256

\* Unless broadcasts overlap, a node that is listening again has dealt with the
\* broadcast it heard: delivered, given up, or not sent for want of a radio.
Answered == ~overlap /\ Quiet /\ radio = "PRX" => outcome # "open"

\* The node does not stay in PTX for ever.
ListensAgain == []<>(radio # "PTX")
=============================================================================
