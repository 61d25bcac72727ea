------------------------------ MODULE MsgQueue ------------------------------
(***************************************************************************)
(* A message queue of the radio middleware, mw/src/util/tcradio_msgq.c: a  *)
(* ring of MSGQ_SIZE slots with a write index wp and a read index rp, one  *)
(* mutex, any number of sending threads and one receiving thread.  The     *)
(* five queues of the file (service, application, RDS, sound, background   *)
(* scan) run the same code.  A send is three steps under the mutex: lock,  *)
(* fill the slot, advance wp and unlock; a receive is two.                 *)
(***************************************************************************)
EXTENDS Integers, Sequences

CONSTANTS Senders,     \* the threads that send
          Receiver,    \* the thread that owns the queue
          NoOne,       \* the value of holder when the mutex is free
          MSGQ_SIZE,   \* slots of the ring (32 in the code)
          MaxSends     \* BOUND: messages each sender sends

ASSUME QueueAssumption == /\ MSGQ_SIZE \in Nat \ {0, 1}
                          /\ MaxSends \in Nat
                          /\ Receiver \notin Senders
                          /\ NoOne \notin Senders \cup {Receiver}

VARIABLES wp,          \* pstMsgQ->wp
          rp,          \* pstMsgQ->rp
          msg,         \* pstMsgQ->msg: slot -> flag fNewMsg and content
          holder,      \* who holds the queue's mutex
          pc,          \* where each sender is in sendMessage
          sent,        \* messages each sender has put in the queue
          rcv          \* pstRsvMsgBuf of the receiver

vars == <<wp, rp, msg, holder, pc, sent, rcv>>

Slot == 0 .. MSGQ_SIZE - 1

Message == Senders \X (1 .. MaxSends)

(* msg is <<>> in a slot that was never written, <<m>> afterwards. *)
Content == {<<>>} \cup {<<m>> : m \in Message}

Buffer == [isNew : BOOLEAN, msg : Content]

TypeOK == /\ wp \in Slot
          /\ rp \in Slot
          /\ msg \in [Slot -> Buffer]
          /\ holder \in Senders \cup {Receiver, NoOne}
          /\ pc \in [Senders -> {"idle", "fill", "advance"}]
          /\ sent \in [Senders -> 0 .. MaxSends]
          /\ rcv \in Buffer

-----------------------------------------------------------------------------

(* messageInit: the queue is zeroed. *)
Init == /\ wp = 0
        /\ rp = 0
        /\ msg = [i \in Slot |-> [isNew |-> FALSE, msg |-> <<>>]]
        /\ holder = NoOne
        /\ pc = [s \in Senders |-> "idle"]
        /\ sent = [s \in Senders |-> 0]
        /\ rcv = [isNew |-> FALSE, msg |-> <<>>]

(* A wrong variant of NextRp: a read index that stays.                      *)
KeepRp == rp

Advance(index) == IF index + 1 >= MSGQ_SIZE THEN 0 ELSE index + 1

MutexFree == holder = NoOne

HasMessage == wp # rp

NextRp == Advance(rp)

(* sendMessage takes the mutex ... *)
LockQueue(s) ==
  /\ pc[s] = "idle"
  /\ sent[s] < MaxSends
  /\ MutexFree
  /\ holder' = s
  /\ pc' = [pc EXCEPT ![s] = "fill"]
  /\ UNCHANGED <<wp, rp, msg, sent, rcv>>

(* ... copies its arguments into the slot at wp ... *)
FillSlot(s) ==
  /\ pc[s] = "fill"
  /\ msg' = [msg EXCEPT ![wp] = [isNew |-> TRUE, msg |-> << <<s, sent[s] + 1>> >>]]
  /\ pc' = [pc EXCEPT ![s] = "advance"]
  /\ UNCHANGED <<wp, rp, holder, sent, rcv>>

(* ... and moves wp on without looking at rp, then unlocks. *)
AdvanceWp(s) ==
  /\ pc[s] = "advance"
  /\ wp' = Advance(wp)
  /\ sent' = [sent EXCEPT ![s] = @ + 1]
  /\ holder' = NoOne
  /\ pc' = [pc EXCEPT ![s] = "idle"]
  /\ UNCHANGED <<rp, msg, rcv>>

LockToReceive ==
  /\ MutexFree
  /\ holder' = Receiver
  /\ UNCHANGED <<wp, rp, msg, pc, sent, rcv>>

(* getMessage under the mutex: the buffer's flag is cleared, and if the    *)
(* indices differ the slot at rp is copied, flag included, and given back. *)
GetMessage ==
  /\ holder = Receiver
  /\ IF HasMessage
       THEN /\ rcv' = msg[rp]
            /\ msg' = [msg EXCEPT ![rp].isNew = FALSE]
            /\ rp' = NextRp
       ELSE /\ rcv' = [rcv EXCEPT !.isNew = FALSE]
            /\ UNCHANGED <<msg, rp>>
  /\ holder' = NoOne
  /\ UNCHANGED <<wp, pc, sent>>

Next == \/ \E s \in Senders : LockQueue(s) \/ FillSlot(s) \/ AdvanceWp(s)
        \/ LockToReceive
        \/ GetMessage

Spec == Init /\ [][Next]_vars

-----------------------------------------------------------------------------

(* How many messages the indices say are unread, and the slot of the i-th. *)
Unread == IF wp >= rp THEN wp - rp ELSE wp - rp + MSGQ_SIZE

SlotOf(i) == IF rp + i - 1 < MSGQ_SIZE THEN rp + i - 1 ELSE rp + i - 1 - MSGQ_SIZE

Pending == [i \in 1 .. Unread |-> msg[SlotOf(i)].msg[1]]

(* Every slot between rp and wp carries a message marked new: a slot whose *)
(* flag is down would be taken and then ignored by the thread's            *)
(* "if(fNewMsg == eNEW_MSG_EXIST)", a message silently dropped.            *)
PendingIsNew == \A i \in 1 .. Unread : /\ msg[SlotOf(i)].isNew
                                       /\ msg[SlotOf(i)].msg # <<>>

(* Only the thread that holds the mutex is between lock and unlock of      *)
(* sendMessage, so two senders never fill the same slot.                   *)
OneSenderInside == \A s \in Senders : pc[s] # "idle" => holder = s

(* The ring implements the queue that loses everything when it overflows:  *)
(* order, single delivery and no loss other than by overflow follow.       *)
Fifo == INSTANCE LossyFifo WITH Message <- Message,
                                Capacity <- MSGQ_SIZE - 1,
                                queue <- Pending,
                                inbox <- rcv
ImplementsFifo == Fifo!Spec

(* A thread that polls gets a sender's messages in the order they were     *)
(* sent and none twice, whatever was lost in between: what is unread is in *)
(* sending order, and younger than the message the receiver took last.     *)
InOrder ==
  \A i \in 1 .. Unread :
    /\ \A j \in i + 1 .. Unread :
         Pending[i][1] = Pending[j][1] => Pending[i][2] < Pending[j][2]
    /\ (rcv.msg # <<>> /\ Pending[i][1] = rcv.msg[1][1]) => Pending[i][2] > rcv.msg[1][2]
=============================================================================
