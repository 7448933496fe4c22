------------------------------- MODULE NodeRing -------------------------------
(***************************************************************************)
(* NodeRadio with what a node answers and how: the start of main, which    *)
(* looks its node id up once; the ring that a packet assigns to the node;  *)
(* the answer prepared from a broadcast; and the PTX parameters, backed    *)
(* off by the ring for the retry. Each step is one of NodeRadio, or leaves *)
(* its variables alone.                                                    *)
(*                                                                         *)
(* Of a packet remain: whether it begins with 0x92, the ring nibble at this*)
(* node's index (Short if the packet ends before), and the ring of the     *)
(* first legacy indicator in it, 0 for none. Broadcasts are numbered. The  *)
(* random part of the delays is left out.                                  *)
(***************************************************************************)
EXTENDS NodeRadio

CONSTANT Nibble  \* bound: the ring nibbles and indicators of packets

ASSUME NodeRingAssumption == Nibble \subseteq 0..3

Short == 4
Packet == [trigger : BOOLEAN, mine : Nibble \cup {Short}, first : Nibble]

VARIABLES
    boot,     \* where main stands before its loop
    id,       \* remote_node_id: none, listed in node_table or not
    resolved, \* my_packet_index # 0xFF
    ring,     \* selected_ring
    payload,  \* tx_payload
    count,    \* ptx_retransmit_count, a uint16_t
    delay,    \* ptx_retransmit_delay, a uint16_t, at the least
    power,    \* ptx_tx_output_power
    air,      \* the packet that was written last, and its parameters
    heard,    \* history: the last broadcast's nibble for this node
    before    \* history: transmissions of the last answer dealt with

start == <<boot, id, resolved>>
params == <<count, delay, power>>
answer == <<payload, heard>>
ringVars == <<start, ring, answer, params, air, before>>
allVars == <<vars, ringVars>>

UINT16 == 0..65535

-----------------------------------------------------------------------------
(* The start of main, and the application core.                            *)

\* ipc_init ends when the endpoint is bound, or main does after 5 s.
Bind ==
    /\ boot = "ipc" /\ boot' \in {"bound", "over"}
    /\ UNCHANGED <<vars, id, resolved, ring, answer, params, air, before>>

\* ep_recv, a node id: the application core sends it once, when its side of
\* the endpoint is bound.
RecvNodeId ==
    /\ boot \in {"bound", "up"} /\ id = "none"
    /\ id' \in {"listed", "unlisted"}
    /\ UNCHANGED <<vars, boot, resolved, ring, answer, params, air, before>>

\* The node id, if it is there by now, is looked up; then the radio starts, or
\* main returns.
Start ==
    /\ boot = "bound" /\ boot' \in {"up", "over"}
    /\ resolved' = (id = "listed")
    /\ UNCHANGED <<vars, id, ring, answer, params, air, before>>

-----------------------------------------------------------------------------
(* event_handler.                                                          *)

\* The node's own byte can be read.
Reads(p) == resolved /\ p.mine # Short

\* A nibble that is no ring leaves the ring as it was.
RingOf(p) ==
    LET named == IF Reads(p) THEN p.mine ELSE p.first
    IN  IF named \in 1..3 THEN named ELSE ring

\* Any other packet only selects the ring.
RxOther(p) ==
    /\ boot = "up" /\ radio = "PRX" /\ ~p.trigger
    /\ ring' = RingOf(p)
    /\ UNCHANGED <<vars, start, answer, params, air, before>>

\* A broadcast: the answer is prepared.
RxTrigger(p) ==
    /\ boot = "up" /\ p.trigger
    /\ RxReceived
    /\ heard' = p.mine
    /\ payload' = [number |-> triggers', attempts |-> lastTx,
                   byte |-> IF Reads(p) THEN p.mine ELSE 0]
    /\ ring' = RingOf(p)
    /\ UNCHANGED <<start, params, air, before>>

Extra == <<5, 7, 10>>

\* The first failure backs the parameters off, by the ring of the moment.
RingTxFailed(n) ==
    /\ TxFailed(n)
    /\ count' = (count + Extra[ring]) % 65536
    /\ power' = 3
    /\ UNCHANGED <<start, ring, answer, delay, air, before>>

RingTxDone(n) ==
    /\ TxSuccess(n) \/ TxFailedAgain(n)
    /\ before' = (spent + n) % 256
    /\ UNCHANGED <<start, ring, answer, params, air>>

-----------------------------------------------------------------------------
(* The main loop.                                                          *)

\* Mutation: the parameters of the last cycle are kept.
RingTakePtxKeeps ==
    /\ TakePtx
    /\ UNCHANGED ringVars

\* A new cycle starts with the default parameters.
RingTakePtx ==
    /\ TakePtx
    /\ count' = 3 /\ delay' = 600 /\ power' = 0
    /\ UNCHANGED <<start, ring, answer, air, before>>

LeastOffset == <<0, 500, 1500>>

\* The delay is backed off here, since the interrupt must not draw a number.
RingTakeRetry ==
    /\ TakeRetry
    /\ delay' = (delay + LeastOffset[ring]) % 65536
    /\ UNCHANGED <<start, ring, answer, count, power, air, before>>

Written == [number |-> payload.number, byte |-> payload.byte,
            attempts |-> payload.attempts,
            count |-> count, delay |-> delay, power |-> power]

\* enter_ptx, of either try.
RingEnterPtx ==
    /\ SwitchToPtx \/ RetryPtx
    /\ air' = IF onAir' THEN Written ELSE air
    /\ UNCHANGED <<start, ring, answer, params, before>>

RingRest ==
    /\ TakePrx \/ SwitchToPrx \/ Skip
    /\ UNCHANGED ringVars

RingLoop ==
    /\ boot = "up"
    /\ RingTakePtx \/ RingTakeRetry \/ RingEnterPtx \/ RingRest

-----------------------------------------------------------------------------

RingInit ==
    /\ Init
    /\ boot = "ipc" /\ id = "none" /\ resolved = FALSE
    /\ ring = 3
    /\ payload = [number |-> 0, byte |-> 0, attempts |-> 0]
    /\ count = 3 /\ delay = 600 /\ power = 0
    /\ air = Written
    /\ heard = Short /\ before = 0

RingTx == \E n \in 1..MaxAttempts : RingTxFailed(n) \/ RingTxDone(n)

RingNext ==
    \/ Bind \/ RecvNodeId \/ Start
    \/ \E p \in Packet : RxTrigger(p) \/ RxOther(p)
    \/ RingTx
    \/ RingLoop

RingSpec == RingInit /\ [][RingNext]_allVars

\* The loop is the only thread of its core that matters, and a radio that
\* transmits reports how that ended.
RingFairSpec == RingSpec /\ WF_allVars(RingLoop) /\ WF_allVars(RingTx)

-----------------------------------------------------------------------------
(* Properties.                                                             *)

\* The types of the state that NodeRadio does not have.
RingTypeOK ==
    /\ boot \in {"ipc", "bound", "up", "over"}
    /\ id \in {"none", "listed", "unlisted"} /\ resolved \in BOOLEAN
    /\ ring \in 1..3 /\ heard \in 0..Short
    /\ payload \in [number : 0..MaxTriggers, byte : 0..3, attempts : UINT8]
    /\ count \in UINT16 /\ delay \in UINT16 /\ power \in {0, 3}
    /\ air \in [number : 0..MaxTriggers, byte : 0..3, attempts : UINT8,
                count : UINT16, delay : UINT16, power : {0, 3}]
    /\ before \in UINT8

\* The byte that was meant for this node, 0 if it knows of none.
Echo == IF resolved /\ heard # Short THEN heard ELSE 0

\* What is on the air is the answer to the last broadcast heard, with the ring
\* byte that was meant for this node, however broadcasts overlap and events
\* interleave with the loop (main.c 358-372). Unless broadcasts overlap, it also
\* reports the transmissions of the answer before it (381), goes out with the
\* default parameters first and with count, delay and power all backed off by
\* the node's ring the second time (468-475, 723-726, 763-773), and there is no
\* third time.
RightAnswer ==
    onAir =>
        /\ air.number = triggers /\ air.byte = Echo
        /\ ~overlap =>
              /\ air.attempts = before
              /\ \/ /\ sends = 1
                    /\ air.count = 3 /\ air.delay = 600 /\ air.power = 0
                 \/ /\ sends = 2
                    /\ air.count = 3 + Extra[ring]
                    /\ air.delay = 600 + LeastOffset[ring]
                    /\ air.power = 3
=============================================================================
