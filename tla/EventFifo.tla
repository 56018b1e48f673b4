------------------------------ MODULE EventFifo ------------------------------
(***************************************************************************)
(* What the event ring and the consumer loop promise to the rest of the    *)
(* feed handler, without indices, caches or memory order: a bounded FIFO   *)
(* that hands over every accepted event exactly once and in order, that    *)
(* drops an event only after it has been filled at least once, and whose   *)
(* consumer stops only when the feed has ended and the queue is drained.   *)
(* Events are numbered by the order in which they are offered.             *)
(***************************************************************************)
EXTENDS Naturals, Sequences

CONSTANTS Capacity    \* number of events the queue holds

VARIABLES queue,      \* accepted and not yet received
          received,   \* received by the consumer, in order
          lost,       \* number of events dropped
          ended,      \* the feed has ended
          stopped     \* the consumer has stopped

fifoVars == <<queue, received, lost, ended, stopped>>

Accepted == Len(received) + Len(queue)
Offered  == Accepted + lost

Init == /\ queue = <<>>
        /\ received = <<>>
        /\ lost = 0
        /\ ended = FALSE
        /\ stopped = FALSE

Accept == /\ ~ended
          /\ Len(queue) < Capacity
          /\ queue' = Append(queue, Offered + 1)
          /\ UNCHANGED <<received, lost, ended, stopped>>

Drop == /\ ~ended
        /\ Accepted >= Capacity
        /\ lost' = lost + 1
        /\ UNCHANGED <<queue, received, ended, stopped>>

Receive == /\ ~stopped
           /\ queue # <<>>
           /\ received' = Append(received, Head(queue))
           /\ queue' = Tail(queue)
           /\ UNCHANGED <<lost, ended, stopped>>

End == /\ ~ended
       /\ ended' = TRUE
       /\ UNCHANGED <<queue, received, lost, stopped>>

Stop == /\ ended
        /\ queue = <<>>
        /\ stopped' = TRUE
        /\ UNCHANGED <<queue, received, lost, ended>>

Next == Accept \/ Drop \/ Receive \/ End \/ Stop

Spec == Init /\ [][Next]_fifoVars
=============================================================================
