------------------------------ MODULE LossyFifo ------------------------------
(***************************************************************************)
(* What the message queues of the radio middleware promise their threads:  *)
(* messages arrive in the order they were sent, each at most once, and the *)
(* only loss is the wrap-around of a ring that nobody emptied.  The ring   *)
(* of mw/src/util/tcradio_msgq.c never tests for "full": the message that  *)
(* would be the Capacity+1st unread one makes the write index catch up     *)
(* with the read index, and every unread message is forgotten.             *)
(***************************************************************************)
EXTENDS Naturals, Sequences

CONSTANTS Message,     \* what can be sent
          Capacity     \* unread messages the queue holds

VARIABLES queue,       \* the unread messages, oldest first
          inbox        \* the receiver's buffer: last message taken, and whether it is new

fifoVars == <<queue, inbox>>

Init == /\ queue = <<>>
        /\ inbox = [isNew |-> FALSE, msg |-> <<>>]

(* The message joins the queue; on a queue at capacity everything is lost. *)
Send(m) == /\ queue' = IF Len(queue) < Capacity THEN Append(queue, m) ELSE <<>>
           /\ UNCHANGED inbox

(* The receiver takes the oldest message. *)
Receive == /\ queue # <<>>
           /\ inbox' = [isNew |-> TRUE, msg |-> <<Head(queue)>>]
           /\ queue' = Tail(queue)

(* The receiver looks and finds nothing: its buffer keeps the old message. *)
ReceiveNothing == /\ queue = <<>>
                  /\ inbox' = [inbox EXCEPT !.isNew = FALSE]
                  /\ UNCHANGED queue

Next == Receive \/ ReceiveNothing \/ \E m \in Message : Send(m)

Spec == Init /\ [][Next]_fifoVars
=============================================================================
