------------------------------ MODULE LossyFifo ------------------------------
(***************************************************************************)
(* What the outbound queue promises a publisher, whatever the network does *)
(* and however its callbacks interleave: accepted messages are handed to   *)
(* the MQTT client in the order they were accepted, a message of QoS 0 at  *)
(* most once, and never more than Capacity of them wait. It does not       *)
(* promise that a message is ever handed over.                             *)
(***************************************************************************)
EXTENDS Naturals, Sequences

CONSTANT Capacity

VARIABLES
    pending,  \* accepted messages, each an id and a QoS; ids grow
    next,     \* the id of the next message to be accepted
    last,     \* the id of the message handed over last, 0 for none
    inHand    \* the message the client is handling, NoMessage for none

NoMessage == [id |-> 0, qos |-> 0]

Accept ==
    /\ Len(pending) < Capacity
    /\ \E q \in {0, 1} : pending' = Append(pending, [id |-> next, qos |-> q])
    /\ next' = next + 1
    /\ UNCHANGED <<last, inHand>>

\* Only the oldest message is handed over; one of QoS 1 possibly again.
HandOver ==
    /\ pending # <<>> /\ inHand = NoMessage
    /\ Head(pending).id >= last
    /\ Head(pending).qos = 0 => Head(pending).id > last
    /\ last' = Head(pending).id /\ inHand' = Head(pending)
    /\ UNCHANGED <<pending, next>>

DropOldest ==
    /\ pending' = IF pending = <<>> THEN <<>> ELSE Tail(pending)
    /\ UNCHANGED <<next, last>>

\* The client is done with the message, which may stay to be handed over again.
Finish ==
    /\ inHand # NoMessage /\ inHand' = NoMessage
    /\ DropOldest \/ UNCHANGED <<pending, next, last>>

Drop == DropOldest /\ UNCHANGED inHand

DropAll == pending' = <<>> /\ UNCHANGED <<next, last, inHand>>

Init == pending = <<>> /\ next = 1 /\ last = 0 /\ inHand = NoMessage

Next == Accept \/ HandOver \/ Finish \/ Drop \/ DropAll

Spec == Init /\ [][Next]_<<pending, next, last, inHand>>
=============================================================================
