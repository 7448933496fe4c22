---------------------------- MODULE AnswerChannel ----------------------------
(***************************************************************************)
(* What a cluster head promises about the answers its radio receives: each *)
(* is forwarded at most once and none before one that was received earlier.*)
(* Answers may be lost, any run of neighbours at a time.                   *)
(***************************************************************************)
EXTENDS Naturals, Sequences

CONSTANT Trigger \* what an answer may answer

VARIABLES
    pending,   \* answers received and not forwarded yet, oldest first
    received,  \* how many have been received; answers are numbered
    forwarded  \* the number of the one forwarded last, 0 for none

Receive ==
    /\ received' = received + 1
    /\ \E trigger \in Trigger :
           pending' = Append(pending, [id |-> received', trigger |-> trigger])
    /\ UNCHANGED forwarded

Forward ==
    /\ pending # <<>>
    /\ forwarded' = Head(pending).id
    /\ pending' = Tail(pending)
    /\ UNCHANGED received

Lose ==
    /\ \E i, j \in 0..Len(pending) :
           /\ i < j
           /\ pending' = SubSeq(pending, 1, i)
                         \o SubSeq(pending, j + 1, Len(pending))
    /\ UNCHANGED <<received, forwarded>>

Init == pending = <<>> /\ received = 0 /\ forwarded = 0

Next == Receive \/ Forward \/ Lose

Spec == Init /\ [][Next]_<<pending, received, forwarded>>
=============================================================================
