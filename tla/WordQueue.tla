----------------------------- MODULE WordQueue -----------------------------
(***************************************************************************)
(* What a queue between two clock domains promises: words come out in the  *)
(* order they went in, none lost, repeated or invented, and never more     *)
(* than Capacity are waiting.  Put and Get may fall together; Clear        *)
(* empties the queue and says nothing of the output register.              *)
(***************************************************************************)
EXTENDS Naturals, Sequences

CONSTANTS Word, Capacity, Output

VARIABLES
    in,       \* the word last put in
    waiting,  \* the words put in and not yet got
    out       \* the output register

queueVars == <<in, waiting, out>>

QueueInit == in \in Word /\ waiting = <<>> /\ out \in Output

Put ==
    /\ Len(waiting) < Capacity
    /\ in' \in Word
    /\ waiting' = Append(waiting, in')
    /\ UNCHANGED out

Get ==
    /\ waiting # <<>>
    /\ out' = Head(waiting)
    /\ waiting' = Tail(waiting)
    /\ UNCHANGED in

PutAndGet ==
    /\ waiting # <<>>
    /\ out' = Head(waiting)
    /\ in' \in Word
    /\ waiting' = Append(Tail(waiting), in')

Clear == waiting' = <<>> /\ in' \in Word /\ out' \in Output

\* The queue with and without resets.
QueueSpec == QueueInit /\ [][Put \/ Get \/ PutAndGet \/ Clear]_queueVars
SteadySpec == QueueInit /\ [][Put \/ Get \/ PutAndGet]_queueVars
=============================================================================
