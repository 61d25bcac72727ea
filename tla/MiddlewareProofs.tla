-------------------------- MODULE MiddlewareProofs --------------------------
(***************************************************************************)
(* The queues of the middleware, the starting and stopping of its parts    *)
(* and of those of the HD framework, and the sound: for every number of    *)
(* slots, senders, threads, initialisations and failures.                  *)
(***************************************************************************)
EXTENDS MsgQueue, RadioLife, HdLife, RadioSound, SequenceTheorems, FiniteSetTheorems, TLAPS

(* The slot a sender filled waits at wp until the sender moves wp on.      *)
SlotReady == \A s \in Senders :
               /\ pc[s] # "idle" => sent[s] < MaxSends
               /\ pc[s] = "advance" => msg[wp] = [isNew |-> TRUE, msg |-> << <<s, sent[s] + 1>> >>]

(* Nothing unread, and nothing taken, is numbered beyond what was sent. *)
NothingInvented ==
  /\ \A i \in 1 .. Unread : Pending[i][2] <= sent[Pending[i][1]]
  /\ rcv.msg # <<>> => rcv.msg[1][2] <= sent[rcv.msg[1][1]]

(* The inductive invariant.  PendingIsNew alone is not inductive: AdvanceWp *)
(* makes slot wp pending, so the filled slot must be remembered (SlotReady) *)
(* and nobody else may be filling it (OneSenderInside).                     *)
QueueInv == TypeOK /\ OneSenderInside /\ SlotReady /\ PendingIsNew

(* InOrder is inductive together with NothingInvented: the message a       *)
(* sender appends is younger than everything of its own.                   *)
OrderInv == QueueInv /\ NothingInvented /\ InOrder

-----------------------------------------------------------------------------

LEMMA SlotArithmetic ==
  ASSUME TypeOK
  PROVE  /\ Unread \in 0 .. MSGQ_SIZE - 1
         /\ Unread = 0 <=> wp = rp
         /\ \A i \in 1 .. Unread : SlotOf(i) \in Slot /\ SlotOf(i) # wp
         /\ \A i, j \in 1 .. Unread : SlotOf(i) = SlotOf(j) => i = j
         /\ Unread > 0 => SlotOf(1) = rp
         /\ Unread < MSGQ_SIZE - 1 => SlotOf(Unread + 1) = wp
  BY QueueAssumption DEF TypeOK, Slot, Unread, SlotOf

(* The next index stays in the ring. *)
LEMMA AdvanceInRing ==
  ASSUME NEW i \in Slot
  PROVE  Advance(i) \in Slot
  BY QueueAssumption DEF Slot, Advance

(* Taking the oldest message renumbers the others. *)
LEMMA PoppedSlots ==
  ASSUME TypeOK, wp # rp, wp' = wp, rp' = Advance(rp)
  PROVE  /\ Unread' = Unread - 1
         /\ \A i \in 1 .. Unread' : /\ i + 1 \in 1 .. Unread
                                    /\ SlotOf(i)' = SlotOf(i + 1)
                                    /\ SlotOf(i + 1) # rp
<1> USE QueueAssumption
<1>1. wp \in Int /\ rp \in Int /\ 0 <= wp /\ wp < MSGQ_SIZE /\ 0 <= rp /\ rp < MSGQ_SIZE
  BY DEF TypeOK, Slot
<1>2. Unread' = Unread - 1 /\ Unread \in 1 .. MSGQ_SIZE - 1
  BY <1>1 DEF Unread, Advance
<1>3. ASSUME NEW i \in 1 .. Unread'
      PROVE  /\ i + 1 \in 1 .. Unread
             /\ SlotOf(i)' = SlotOf(i + 1)
             /\ SlotOf(i + 1) # rp
  <2>1. i \in Int /\ 1 <= i /\ i + 1 <= Unread /\ i + 1 < MSGQ_SIZE
    BY <1>2
  <2>2. SlotOf(i)' = SlotOf(i + 1)
    BY <1>1, <2>1 DEF SlotOf, Advance
  <2>3. SlotOf(i + 1) # rp
    BY <1>1, <1>2, <2>1 DEF SlotOf
  <2> QED
    BY <2>1, <2>2, <2>3, <1>2
<1> QED
  BY <1>2, <1>3

LEMMA InitialInv == Init => QueueInv
<1> SUFFICES ASSUME Init PROVE QueueInv
  OBVIOUS
<1>1. TypeOK
  BY QueueAssumption DEF Init, TypeOK, Slot, Buffer, Content
<1>2. OneSenderInside /\ SlotReady
  BY DEF Init, OneSenderInside, SlotReady
<1>3. PendingIsNew
  BY QueueAssumption DEF Init, PendingIsNew, Unread
<1> QED
  BY <1>1, <1>2, <1>3 DEF QueueInv

LEMMA TypeStep == QueueInv /\ [Next]_vars => TypeOK'
<1> SUFFICES ASSUME QueueInv, [Next]_vars PROVE TypeOK'
  OBVIOUS
<1> USE QueueAssumption
<1>1. ASSUME NEW s \in Senders, LockQueue(s) PROVE TypeOK'
  BY <1>1 DEF QueueInv, TypeOK, LockQueue
<1>2. ASSUME NEW s \in Senders, FillSlot(s) PROVE TypeOK'
  <2>1. <<s, sent[s] + 1>> \in Message
    BY <1>2 DEF QueueInv, SlotReady, TypeOK, FillSlot, Message
  <2>2. [isNew |-> TRUE, msg |-> << <<s, sent[s] + 1>> >>] \in Buffer
    BY <2>1 DEF Buffer, Content
  <2> QED
    BY <1>2, <2>2 DEF QueueInv, TypeOK, FillSlot
<1>3. ASSUME NEW s \in Senders, AdvanceWp(s) PROVE TypeOK'
  <2>1. sent[s] + 1 \in 0 .. MaxSends
    BY <1>3 DEF QueueInv, SlotReady, TypeOK, AdvanceWp
  <2> QED
    BY <1>3, <2>1, AdvanceInRing DEF QueueInv, TypeOK, AdvanceWp
<1>4. CASE LockToReceive
  BY <1>4 DEF QueueInv, TypeOK, LockToReceive
<1>5. CASE GetMessage
  <2>1. CASE wp # rp
    <3>1. msg[rp] \in Buffer
      BY DEF QueueInv, TypeOK
    <3>2. [msg[rp] EXCEPT !.isNew = FALSE] \in Buffer
      BY <3>1 DEF Buffer
    <3>3. msg' = [msg EXCEPT ![rp] = [msg[rp] EXCEPT !.isNew = FALSE]]
      BY <1>5, <2>1 DEF GetMessage, HasMessage, NextRp
    <3>4. msg' \in [Slot -> Buffer]
      BY <3>2, <3>3 DEF QueueInv, TypeOK
    <3> QED
      BY <1>5, <2>1, <3>1, <3>4, AdvanceInRing DEF QueueInv, TypeOK, GetMessage, HasMessage, NextRp
  <2>2. CASE wp = rp
    <3>1. rcv' \in Buffer
      BY <1>5, <2>2 DEF QueueInv, TypeOK, GetMessage, Buffer
    <3> QED
      BY <1>5, <2>2, <3>1 DEF QueueInv, TypeOK, GetMessage, HasMessage, NextRp
  <2> QED
    BY <2>1, <2>2
<1>6. CASE UNCHANGED vars
  BY <1>6 DEF QueueInv, TypeOK, vars
<1> QED
  BY <1>1, <1>2, <1>3, <1>4, <1>5, <1>6 DEF Next

LEMMA MutexStep == QueueInv /\ [Next]_vars => OneSenderInside'
  BY QueueAssumption
  DEF QueueInv, TypeOK, OneSenderInside, Next, vars,
      LockQueue, FillSlot, AdvanceWp, LockToReceive, GetMessage, HasMessage, NextRp, MutexFree

LEMMA SlotReadyStep == QueueInv /\ [Next]_vars => SlotReady'
<1> SUFFICES ASSUME QueueInv, [Next]_vars PROVE SlotReady'
  OBVIOUS
<1> USE QueueAssumption
<1>1. ASSUME NEW s \in Senders, LockQueue(s) PROVE SlotReady'
  BY <1>1 DEF QueueInv, TypeOK, SlotReady, LockQueue
<1>2. ASSUME NEW s \in Senders, FillSlot(s) PROVE SlotReady'
  BY <1>2 DEF QueueInv, TypeOK, OneSenderInside, SlotReady, FillSlot
<1>3. ASSUME NEW s \in Senders, AdvanceWp(s) PROVE SlotReady'
  BY <1>3 DEF QueueInv, TypeOK, OneSenderInside, SlotReady, AdvanceWp
<1>4. CASE LockToReceive
  BY <1>4 DEF QueueInv, SlotReady, LockToReceive
<1>5. CASE GetMessage
  BY <1>5 DEF QueueInv, TypeOK, OneSenderInside, SlotReady, GetMessage, HasMessage, NextRp
<1>6. CASE UNCHANGED vars
  BY <1>6 DEF QueueInv, SlotReady, vars
<1> QED
  BY <1>1, <1>2, <1>3, <1>4, <1>5, <1>6 DEF Next

LEMMA PendingStep == QueueInv /\ [Next]_vars => PendingIsNew'
<1> SUFFICES ASSUME QueueInv, [Next]_vars PROVE PendingIsNew'
  OBVIOUS
<1> USE QueueAssumption
<1>1. ASSUME NEW s \in Senders, LockQueue(s) PROVE PendingIsNew'
  BY <1>1 DEF QueueInv, PendingIsNew, Unread, SlotOf, LockQueue
<1>2. ASSUME NEW s \in Senders, FillSlot(s) PROVE PendingIsNew'
  <2>1. \A i \in 1 .. Unread : msg'[SlotOf(i)] = msg[SlotOf(i)]
    BY <1>2, SlotArithmetic DEF QueueInv, TypeOK, FillSlot
  <2> QED
    BY <1>2, <2>1 DEF QueueInv, PendingIsNew, Unread, SlotOf, FillSlot
<1>3. ASSUME NEW s \in Senders, AdvanceWp(s) PROVE PendingIsNew'
  <2>1. msg[wp].isNew /\ msg[wp].msg # <<>>
    <3>1. msg[wp] = [isNew |-> TRUE, msg |-> << <<s, sent[s] + 1>> >>]
      BY <1>3 DEF QueueInv, SlotReady, AdvanceWp
    <3>2. << <<s, sent[s] + 1>> >> # <<>>
      OBVIOUS
    <3>3. msg[wp].isNew = TRUE /\ msg[wp].msg = << <<s, sent[s] + 1>> >>
      BY <3>1
    <3> QED
      BY <3>2, <3>3
  <2>2. \A i \in 1 .. Unread' : \/ i \in 1 .. Unread /\ SlotOf(i)' = SlotOf(i)
                                \/ SlotOf(i)' = wp
    BY <1>3 DEF QueueInv, TypeOK, Slot, Unread, SlotOf, AdvanceWp, Advance
  <2> QED
    BY <1>3, <2>1, <2>2 DEF QueueInv, PendingIsNew, AdvanceWp
<1>4. CASE LockToReceive
  BY <1>4 DEF QueueInv, PendingIsNew, Unread, SlotOf, LockToReceive
<1>5. CASE GetMessage
  <2>1. CASE wp # rp
    <3>1. \A i \in 1 .. Unread' : /\ i + 1 \in 1 .. Unread
                                  /\ SlotOf(i)' = SlotOf(i + 1)
                                  /\ SlotOf(i + 1) # rp
      BY <1>5, <2>1, PoppedSlots DEF QueueInv, GetMessage, HasMessage, NextRp
    <3>2. \A i \in Slot : i # rp => msg'[i] = msg[i]
      BY <1>5, <2>1 DEF QueueInv, TypeOK, GetMessage, HasMessage, NextRp
    <3>3. \A i \in 1 .. Unread : SlotOf(i) \in Slot
      BY SlotArithmetic DEF QueueInv
    <3> QED
      BY <3>1, <3>2, <3>3 DEF QueueInv, PendingIsNew
  <2>2. CASE wp = rp
    BY <1>5, <2>2 DEF QueueInv, PendingIsNew, Unread, SlotOf, GetMessage, HasMessage, NextRp
  <2> QED
    BY <2>1, <2>2
<1>6. CASE UNCHANGED vars
  BY <1>6 DEF QueueInv, PendingIsNew, Unread, SlotOf, vars
<1> QED
  BY <1>1, <1>2, <1>3, <1>4, <1>5, <1>6 DEF Next

LEMMA InvInductive == QueueInv /\ [Next]_vars => QueueInv'
  BY TypeStep, MutexStep, SlotReadyStep, PendingStep DEF QueueInv

(* The mutex serialises senders, and every unread slot of the ring is one  *)
(* a sender finished, whatever the ring size and however often it          *)
(* overflows: no message is dropped for a flag that is down.               *)
THEOREM QueueSafe == Spec => [](TypeOK /\ OneSenderInside /\ PendingIsNew)
<1>1. QueueInv => TypeOK /\ OneSenderInside /\ PendingIsNew
  BY DEF QueueInv
<1> QED
  BY InitialInv, InvInductive, <1>1, PTL DEF Spec

-----------------------------------------------------------------------------

(* The unread messages form a sequence, of the length the indices say. *)
LEMMA PendingIsSeq ==
  ASSUME QueueInv
  PROVE  /\ Pending \in Seq(Message)
         /\ Len(Pending) = Unread
         /\ Unread \in 0 .. MSGQ_SIZE - 1
<1> USE QueueAssumption
<1>1. Unread \in 0 .. MSGQ_SIZE - 1
  BY SlotArithmetic DEF QueueInv
<1>2. ASSUME NEW i \in 1 .. Unread PROVE msg[SlotOf(i)].msg[1] \in Message
  <2>1. msg[SlotOf(i)] \in Buffer
    BY SlotArithmetic DEF QueueInv, TypeOK
  <2>2. msg[SlotOf(i)].msg \in Content /\ msg[SlotOf(i)].msg # <<>>
    BY <2>1 DEF Buffer, QueueInv, PendingIsNew
  <2> QED
    BY <2>2 DEF Content
<1>3. Pending \in [1 .. Unread -> Message]
  BY <1>2 DEF Pending
<1> QED
  BY <1>1, <1>3

(* The same in the state after a step. *)
PendingHasLength == Len(Pending) = Unread

LEMMA PendingIsSeqNext == QueueInv' => PendingHasLength'
<1>1. QueueInv => PendingHasLength
  BY PendingIsSeq DEF PendingHasLength
<1> QED
  BY <1>1, PTL

LEMMA SlotsUnchanged ==
  ASSUME UNCHANGED <<wp, rp>>
  PROVE  Unread' = Unread /\ \A i \in 1 .. Unread : SlotOf(i)' = SlotOf(i)
  BY DEF Unread, SlotOf

(* A step that leaves the indices and the pending slots alone is not seen. *)
LEMMA PendingUnchanged ==
  ASSUME UNCHANGED <<wp, rp>>, \A i \in 1 .. Unread : msg'[SlotOf(i)].msg = msg[SlotOf(i)].msg
  PROVE  Pending' = Pending
<1>1. Unread' = Unread /\ \A i \in 1 .. Unread : SlotOf(i)' = SlotOf(i)
  BY SlotsUnchanged
<1> QED
  BY <1>1 DEF Pending

LEMMA SendRefines ==
  ASSUME QueueInv, NEW s \in Senders, AdvanceWp(s)
  PROVE  Fifo!Send(<<s, sent[s] + 1>>)
<1> USE QueueAssumption
<1> DEFINE m == <<s, sent[s] + 1>>
<1>1. wp \in Int /\ rp \in Int /\ 0 <= wp /\ wp < MSGQ_SIZE /\ 0 <= rp /\ rp < MSGQ_SIZE
  BY DEF QueueInv, TypeOK, Slot
<1>2. wp' = Advance(wp) /\ UNCHANGED <<rp, msg, rcv>>
  BY DEF AdvanceWp
<1>3. msg[wp] = [isNew |-> TRUE, msg |-> <<m>>]
  BY DEF QueueInv, SlotReady, AdvanceWp
<1>4. msg[wp].msg[1] = m
  <2>1. msg[wp].msg = <<m>>
    BY <1>3
  <2> QED
    BY <2>1
<1>5. Pending \in Seq(Message) /\ Len(Pending) = Unread /\ Unread \in 0 .. MSGQ_SIZE - 1
  BY PendingIsSeq
<1>6. CASE Unread < MSGQ_SIZE - 1
  <2>1. Unread' = Unread + 1
    BY <1>1, <1>2, <1>6 DEF Unread, Advance
  <2>2. \A i \in 1 .. Unread' : SlotOf(i)' = SlotOf(i)
    BY <1>2 DEF SlotOf
  <2>3. SlotOf(Unread + 1) = wp
    BY <1>6, SlotArithmetic DEF QueueInv
  <2>4. Pending' = [i \in 1 .. Unread + 1 |-> msg[SlotOf(i)].msg[1]]
    BY <1>2, <2>1, <2>2 DEF Pending
  <2>5. Append(Pending, m) = [i \in 1 .. Unread + 1 |-> IF i <= Unread THEN Pending[i] ELSE m]
    BY <1>5
  <2>6. ASSUME NEW i \in 1 .. Unread + 1
        PROVE  msg[SlotOf(i)].msg[1] = IF i <= Unread THEN Pending[i] ELSE m
    <3>1. CASE i <= Unread
      BY <1>5, <3>1 DEF Pending
    <3>2. CASE ~(i <= Unread)
      <4>1. i = Unread + 1
        BY <1>5, <3>2
      <4> QED
        BY <1>4, <2>3, <3>2, <4>1
    <3> QED
      BY <3>1, <3>2
  <2>7. Pending' = Append(Pending, m)
    BY <2>4, <2>5, <2>6
  <2> QED
    BY <1>2, <1>5, <1>6, <2>7 DEF Fifo!Send
<1>7. CASE ~(Unread < MSGQ_SIZE - 1)
  <2>1. Unread' = 0
    BY <1>1, <1>2, <1>5, <1>7 DEF Unread, Advance
  <2>2. Pending' = <<>>
    BY <2>1 DEF Pending
  <2> QED
    BY <1>2, <1>5, <1>7, <2>2 DEF Fifo!Send
<1> QED
  BY <1>6, <1>7

LEMMA ReceiveRefines ==
  ASSUME QueueInv, GetMessage
  PROVE  Fifo!Receive \/ Fifo!ReceiveNothing
<1> USE QueueAssumption
<1>1. Pending \in Seq(Message) /\ Len(Pending) = Unread /\ Unread \in 0 .. MSGQ_SIZE - 1
  BY PendingIsSeq
<1>2. wp' = wp
  BY DEF GetMessage, HasMessage, NextRp
<1>3. CASE wp # rp
  <2>1. rcv' = msg[rp] /\ msg' = [msg EXCEPT ![rp].isNew = FALSE] /\ rp' = Advance(rp)
    BY <1>3 DEF GetMessage, HasMessage, NextRp
  <2>2. Unread > 0 /\ SlotOf(1) = rp
    BY <1>1, <1>3, SlotArithmetic DEF QueueInv
  <2>3. Head(Pending) = msg[rp].msg[1]
    BY <1>1, <2>2 DEF Pending
  <2>4. msg[rp].isNew = TRUE /\ msg[rp].msg # <<>> /\ msg[rp] \in Buffer
    BY <2>2, <1>1 DEF QueueInv, PendingIsNew, TypeOK, Buffer
  <2>5. rcv' = [isNew |-> TRUE, msg |-> <<Head(Pending)>>]
    <3>1. msg[rp].msg \in Content
      BY <2>4 DEF Buffer
    <3>2. msg[rp].msg = <<msg[rp].msg[1]>>
      BY <2>4, <3>1 DEF Content
    <3> QED
      BY <2>1, <2>3, <2>4, <3>2 DEF Buffer
  <2>6. /\ Unread' = Unread - 1
        /\ \A i \in 1 .. Unread' : /\ i + 1 \in 1 .. Unread
                                   /\ SlotOf(i)' = SlotOf(i + 1)
                                   /\ SlotOf(i + 1) # rp
    BY <1>2, <1>3, <2>1, PoppedSlots DEF QueueInv
  <2>7. \A i \in Slot : msg'[i].msg = msg[i].msg
    BY <2>1 DEF QueueInv, TypeOK, Buffer
  <2>8. Pending' = [i \in 1 .. Unread - 1 |-> msg[SlotOf(i + 1)].msg[1]]
    <3>1. \A i \in 1 .. Unread' : msg'[SlotOf(i)'].msg = msg[SlotOf(i + 1)].msg
      BY <2>6, <2>7, SlotArithmetic DEF QueueInv
    <3> QED
      BY <2>6, <3>1 DEF Pending
  <2>9. Tail(Pending) = [i \in 1 .. Unread - 1 |-> Pending[i + 1]]
    <3>1. Pending # <<>>
      BY <1>1, <2>2
    <3>2. Tail(Pending) \in Seq(Message) /\ Len(Tail(Pending)) = Unread - 1
      BY <1>1, <3>1, HeadTailProperties
    <3>3. \A i \in 1 .. Unread - 1 : Tail(Pending)[i] = Pending[i + 1]
      BY <1>1, <3>1, <3>2, HeadTailProperties
    <3>4. Tail(Pending) = [i \in 1 .. Unread - 1 |-> Tail(Pending)[i]]
      <4>1. Tail(Pending) \in [1 .. Len(Tail(Pending)) -> Message]
        BY <3>2, LenProperties
      <4> QED
        BY <3>2, <4>1
    <3> QED
      BY <3>3, <3>4
  <2>10. \A i \in 1 .. Unread - 1 : Pending[i + 1] = msg[SlotOf(i + 1)].msg[1]
    BY <1>1 DEF Pending
  <2>11. Pending' = Tail(Pending)
    BY <2>8, <2>9, <2>10
  <2>12. Pending # <<>>
    BY <1>1, <2>2
  <2> QED
    BY <2>5, <2>11, <2>12 DEF Fifo!Receive
<1>4. CASE wp = rp
  <2>1. rcv' = [rcv EXCEPT !.isNew = FALSE] /\ UNCHANGED <<wp, rp, msg>>
    BY <1>4 DEF GetMessage, HasMessage, NextRp
  <2>2. Pending' = Pending
    BY <2>1, PendingUnchanged
  <2>3. Pending = <<>>
    <3>1. Unread = 0
      BY <1>4, SlotArithmetic DEF QueueInv
    <3> QED
      BY <3>1 DEF Pending
  <2> QED
    BY <2>1, <2>2, <2>3 DEF Fifo!ReceiveNothing
<1> QED
  BY <1>3, <1>4

LEMMA InitRefines == Init => Fifo!Init
<1> SUFFICES ASSUME Init PROVE Fifo!Init
  OBVIOUS
<1>1. Unread = 0
  BY QueueAssumption DEF Init, Unread
<1>2. Pending = <<>>
  BY <1>1 DEF Pending
<1> QED
  BY <1>2 DEF Init, Fifo!Init

LEMMA StepRefines == QueueInv /\ [Next]_vars => [Fifo!Next]_(Fifo!fifoVars)
<1> SUFFICES ASSUME QueueInv, [Next]_vars PROVE [Fifo!Next]_(Fifo!fifoVars)
  OBVIOUS
<1> USE QueueAssumption
<1>1. ASSUME NEW s \in Senders, LockQueue(s) PROVE UNCHANGED <<Pending, rcv>>
  BY <1>1, PendingUnchanged DEF LockQueue
<1>2. ASSUME NEW s \in Senders, FillSlot(s) PROVE UNCHANGED <<Pending, rcv>>
  <2>1. \A i \in 1 .. Unread : msg'[SlotOf(i)] = msg[SlotOf(i)]
    BY <1>2, SlotArithmetic DEF QueueInv, TypeOK, FillSlot
  <2> QED
    BY <1>2, <2>1, PendingUnchanged DEF FillSlot
<1>3. ASSUME NEW s \in Senders, AdvanceWp(s) PROVE Fifo!Next
  <2>1. <<s, sent[s] + 1>> \in Message
    BY <1>3 DEF QueueInv, TypeOK, SlotReady, AdvanceWp, Message
  <2> QED
    BY <1>3, <2>1, SendRefines DEF Fifo!Next
<1>4. CASE LockToReceive
  <2> QED
    BY <1>4, PendingUnchanged DEF LockToReceive, Fifo!fifoVars
<1>5. CASE GetMessage
  BY <1>5, ReceiveRefines DEF Fifo!Next
<1>6. CASE UNCHANGED vars
  BY <1>6, PendingUnchanged DEF vars, Fifo!fifoVars
<1> QED
  BY <1>1, <1>2, <1>3, <1>4, <1>5, <1>6 DEF Next, Fifo!fifoVars

(* The ring with its mutex implements the queue that delivers in order,    *)
(* each message at most once, and loses messages only by overflowing.      *)
THEOREM QueueImplementsFifo == Spec => ImplementsFifo
  BY InitialInv, InvInductive, InitRefines, StepRefines, PTL
  DEF Spec, ImplementsFifo, Fifo!Spec

-----------------------------------------------------------------------------

LEMMA OrderInit == Init => OrderInv
<1> SUFFICES ASSUME Init PROVE OrderInv
  OBVIOUS
<1>1. Unread = 0
  BY QueueAssumption DEF Init, Unread
<1> QED
  BY <1>1, InitialInv DEF Init, OrderInv, NothingInvented, InOrder

(* What a stutter of the abstract queue leaves alone. *)
LEMMA OrderUnchanged ==
  ASSUME OrderInv, Unread' = Unread, UNCHANGED <<Pending, sent>>, rcv'.msg = rcv.msg
  PROVE  NothingInvented' /\ InOrder'
  BY DEF OrderInv, NothingInvented, InOrder

LEMMA OrderStep == OrderInv /\ [Next]_vars => OrderInv'
<1> SUFFICES ASSUME OrderInv, [Next]_vars PROVE NothingInvented' /\ InOrder'
  BY InvInductive DEF OrderInv
<1> USE QueueAssumption
<1>0. /\ Pending \in Seq(Message) /\ Len(Pending) = Unread
      /\ Unread \in 0 .. MSGQ_SIZE - 1
      /\ \A i \in 1 .. Unread : Pending[i] \in Message
      /\ sent \in [Senders -> 0 .. MaxSends]
      /\ QueueInv
  BY PendingIsSeq, ElementOfSeq DEF OrderInv, QueueInv, TypeOK
<1>m. \A m \in Message : m[1] \in Senders /\ m[2] \in Int
  BY DEF Message
<1>r. rcv.msg # <<>> => rcv.msg[1] \in Message
  BY <1>0 DEF QueueInv, TypeOK, Buffer, Content
<1>1. ASSUME NEW s \in Senders, LockQueue(s) PROVE NothingInvented' /\ InOrder'
  <2>1. Unread' = Unread /\ UNCHANGED <<Pending, sent, rcv>>
    BY <1>1, PendingUnchanged, SlotsUnchanged DEF LockQueue
  <2> QED
    BY <2>1, OrderUnchanged
<1>2. ASSUME NEW s \in Senders, FillSlot(s) PROVE NothingInvented' /\ InOrder'
  <2>1. \A i \in 1 .. Unread : msg'[SlotOf(i)] = msg[SlotOf(i)]
    BY <1>0, <1>2, SlotArithmetic DEF QueueInv, TypeOK, FillSlot
  <2>2. Unread' = Unread /\ UNCHANGED <<Pending, sent, rcv>>
    BY <1>2, <2>1, PendingUnchanged, SlotsUnchanged DEF FillSlot
  <2> QED
    BY <2>2, OrderUnchanged
<1>3. ASSUME NEW s \in Senders, AdvanceWp(s) PROVE NothingInvented' /\ InOrder'
  <2> DEFINE m == <<s, sent[s] + 1>>
  <2>1. /\ Pending' = IF Len(Pending) < MSGQ_SIZE - 1 THEN Append(Pending, m) ELSE <<>>
        /\ rcv' = rcv
    BY <1>0, <1>3, SendRefines DEF Fifo!Send
  <2>2. Unread' = Len(Pending')
    <3>1. QueueInv'
      BY <1>0, <1>3, InvInductive DEF Next
    <3> QED
      BY <3>1, PendingIsSeqNext DEF PendingHasLength
  <2>3. sent' = [sent EXCEPT ![s] = @ + 1] /\ sent[s] < MaxSends
    BY <1>0, <1>3 DEF AdvanceWp, QueueInv, SlotReady
  <2>4. \A t \in Senders : sent[t] \in Int /\ sent'[t] \in Int /\ sent[t] <= sent'[t]
    BY <1>0, <2>3
  <2>5. m \in Message /\ m[1] = s /\ m[2] = sent[s] + 1 /\ sent'[s] = sent[s] + 1
    BY <1>0, <2>3 DEF Message
  <2>6. rcv.msg # <<>> => /\ rcv.msg[1][2] <= sent[rcv.msg[1][1]]
                          /\ rcv.msg[1][1] \in Senders
                          /\ rcv.msg[1][2] \in Int
    BY <1>m, <1>r DEF OrderInv, NothingInvented
  <2>7. CASE Len(Pending) < MSGQ_SIZE - 1
    <3>1. Unread' = Unread + 1 /\ Pending'[Unread + 1] = m
      BY <1>0, <2>1, <2>2, <2>5, <2>7, AppendProperties
    <3>2. \A i \in 1 .. Unread : Pending'[i] = Pending[i]
      BY <1>0, <2>1, <2>5, <2>7, AppendProperties
    <3>3. \A i \in 1 .. Unread : /\ Pending[i][1] \in Senders /\ Pending[i][2] \in Int
                                 /\ Pending[i][2] <= sent[Pending[i][1]]
      BY <1>0, <1>m DEF OrderInv, NothingInvented
    <3>4. ASSUME NEW i \in 1 .. Unread' PROVE i \in 1 .. Unread \/ i = Unread + 1
      BY <1>0, <3>1
    <3>5. \A i \in 1 .. Unread' : Pending'[i][2] <= sent'[Pending'[i][1]]
      <4>1. ASSUME NEW i \in 1 .. Unread PROVE Pending'[i][2] <= sent'[Pending'[i][1]]
        BY <2>4, <3>2, <3>3
      <4>2. Pending'[Unread + 1][2] <= sent'[Pending'[Unread + 1][1]]
        BY <2>4, <2>5, <3>1
      <4> QED
        BY <3>4, <4>1, <4>2
    <3>6. NothingInvented'
      <4>1. rcv.msg # <<>> => rcv.msg[1][2] <= sent'[rcv.msg[1][1]]
        BY <2>4, <2>6
      <4> QED
        BY <2>1, <3>5, <4>1 DEF NothingInvented
    <3>7. ASSUME NEW i \in 1 .. Unread', NEW j \in i + 1 .. Unread',
                 Pending'[i][1] = Pending'[j][1]
          PROVE  Pending'[i][2] < Pending'[j][2]
      <4>1. i \in 1 .. Unread /\ (j \in i + 1 .. Unread \/ j = Unread + 1)
        BY <1>0, <3>1
      <4>2. CASE j \in i + 1 .. Unread
        BY <3>2, <3>7, <4>1, <4>2 DEF OrderInv, InOrder
      <4>3. CASE j = Unread + 1
        BY <2>4, <2>5, <3>1, <3>2, <3>3, <3>7, <4>1, <4>3
      <4> QED
        BY <4>1, <4>2, <4>3
    <3>8. ASSUME NEW i \in 1 .. Unread', rcv.msg # <<>>, Pending'[i][1] = rcv.msg[1][1]
          PROVE  Pending'[i][2] > rcv.msg[1][2]
      <4>1. CASE i \in 1 .. Unread
        BY <3>2, <3>8, <4>1 DEF OrderInv, InOrder
      <4>2. CASE i = Unread + 1
        BY <2>4, <2>5, <2>6, <3>1, <3>8, <4>2
      <4> QED
        BY <3>4, <4>1, <4>2
    <3>9. InOrder'
      BY <2>1, <3>7, <3>8 DEF InOrder
    <3> QED
      BY <3>6, <3>9
  <2>8. CASE ~(Len(Pending) < MSGQ_SIZE - 1)
    <3>1. Unread' = 0
      BY <2>1, <2>2, <2>8
    <3> QED
      BY <2>1, <2>4, <2>6, <3>1 DEF NothingInvented, InOrder
  <2> QED
    BY <2>7, <2>8
<1>4. CASE LockToReceive
  <2>1. Unread' = Unread /\ UNCHANGED <<Pending, sent, rcv>>
    BY <1>4, PendingUnchanged, SlotsUnchanged DEF LockToReceive, MutexFree
  <2> QED
    BY <2>1, OrderUnchanged
<1>5. CASE GetMessage
  <2>0. sent' = sent
    BY <1>5 DEF GetMessage, HasMessage, NextRp
  <2>1. CASE Fifo!ReceiveNothing
    <3>1. Pending' = Pending /\ rcv'.msg = rcv.msg
      BY <1>0, <2>1 DEF Fifo!ReceiveNothing, QueueInv, TypeOK, Buffer
    <3>2. Unread' = Unread
      <4>1. QueueInv'
        BY <1>0, <1>5, InvInductive DEF Next
      <4> QED
        BY <1>0, <3>1, <4>1, PendingIsSeqNext DEF PendingHasLength
    <3> QED
      BY <2>0, <3>1, <3>2, OrderUnchanged
  <2>2. CASE Fifo!Receive
    <3>1. Pending # <<>> /\ rcv' = [isNew |-> TRUE, msg |-> <<Head(Pending)>>] /\ Pending' = Tail(Pending)
      BY <2>2 DEF Fifo!Receive
    <3>2. rcv'.msg = <<Pending[1]>>
      BY <1>0, <3>1
    <3>3. Unread > 0
      BY <1>0, <3>1
    <3>4. Unread' = Unread - 1
      <4>1. QueueInv'
        BY <1>0, <1>5, InvInductive DEF Next
      <4> QED
        BY <1>0, <3>1, <4>1, HeadTailProperties, PendingIsSeqNext DEF PendingHasLength
    <3>5. \A i \in 1 .. Unread' : i + 1 \in 2 .. Unread /\ Pending'[i] = Pending[i + 1]
      BY <1>0, <3>1, <3>4, HeadTailProperties
    <3>6. NothingInvented'
      <4>1. \A i \in 1 .. Unread' : Pending'[i][2] <= sent'[Pending'[i][1]]
        BY <1>0, <2>0, <3>5 DEF OrderInv, NothingInvented
      <4>2. rcv'.msg[1][2] <= sent'[rcv'.msg[1][1]]
        BY <1>0, <2>0, <3>2, <3>3 DEF OrderInv, NothingInvented
      <4> QED
        BY <4>1, <4>2 DEF NothingInvented
    <3>7. ASSUME NEW i \in 1 .. Unread', NEW j \in i + 1 .. Unread',
                 Pending'[i][1] = Pending'[j][1]
          PROVE  Pending'[i][2] < Pending'[j][2]
      <4>1. i + 1 \in 1 .. Unread /\ j + 1 \in (i + 1) + 1 .. Unread /\ j \in 1 .. Unread'
        BY <1>0, <3>4
      <4> QED
        BY <3>5, <3>7, <4>1 DEF OrderInv, InOrder
    <3>8. ASSUME NEW i \in 1 .. Unread', Pending'[i][1] = rcv'.msg[1][1]
          PROVE  Pending'[i][2] > rcv'.msg[1][2]
      <4>1. i + 1 \in 1 + 1 .. Unread /\ 1 \in 1 .. Unread
        BY <1>0, <3>3, <3>4
      <4>2. Pending[1][2] < Pending[i + 1][2]
        BY <3>2, <3>5, <3>8, <4>1 DEF OrderInv, InOrder
      <4>3. Pending[1][2] \in Int /\ Pending[i + 1][2] \in Int
        BY <1>0, <1>m, <4>1
      <4> QED
        BY <3>2, <3>5, <4>2, <4>3
    <3>9. InOrder'
      BY <3>7, <3>8 DEF InOrder
    <3> QED
      BY <3>6, <3>9
  <2> QED
    BY <1>0, <1>5, <2>1, <2>2, ReceiveRefines
<1>6. CASE UNCHANGED vars
  <2>1. Unread' = Unread /\ UNCHANGED <<Pending, sent, rcv>>
    BY <1>6, PendingUnchanged, SlotsUnchanged DEF vars
  <2> QED
    BY <2>1, OrderUnchanged
<1> QED
  BY <1>1, <1>2, <1>3, <1>4, <1>5, <1>6 DEF Next

(* A receiver sees each sender's messages in sending order and none twice, *)
(* overflows included, for every ring size and any number of senders.      *)
THEOREM QueueInOrder == Spec => []InOrder
<1>1. OrderInv => InOrder
  BY DEF OrderInv
<1> QED
  BY OrderInit, OrderStep, <1>1, PTL DEF Spec

-----------------------------------------------------------------------------
(* The sound: its flag and its source tell which devices are open.  The    *)
(* property is inductive with the types it needs.                          *)

SoundInv == SoundTypeOK /\ FlagTells

LEMMA SoundInvInit == SoundInit => SoundInv
<1> SUFFICES ASSUME SoundInit PROVE SoundInv
  OBVIOUS
<1>1. SoundTypeOK
  <2>1. opens \in 0 .. MaxOpens
    BY SoundAssumption DEF SoundInit
  <2> QED
    BY <2>1, Zenon DEF SoundInit, SoundTypeOK
<1>2. FlagTells
  BY DEF SoundInit, FlagTells
<1> QED
  BY <1>1, <1>2 DEF SoundInv

(* What an attempt to open an input may leave. *)
Opened(i) ==
  /\ i.source \in Sources /\ i.ain \in BOOLEAN /\ i.ok \in BOOLEAN
  /\ i.blend \in {"closed", "set", "started"}
  /\ i.ok => /\ i.source = "I2S" => i.ain
             /\ i.source = "TC_I2S" => i.blend # "closed"
  /\ i.source # "TC_I2S" => i.blend = blend
  /\ i.source # "I2S" => i.ain = ain \/ ~i.ok

LEMMA AlsaResult ==
  ASSUME NEW a \in AlsaOpened
  PROVE  a[1] \in BOOLEAN /\ a[2] \in BOOLEAN /\ (a[2] => a[1])
<1>1. a = <<TRUE, TRUE>> \/ a = <<TRUE, FALSE>> \/ a = <<FALSE, FALSE>>
  BY DEF AlsaOpened
<1>2. CASE a = <<TRUE, TRUE>>
  BY <1>2
<1>3. CASE a = <<TRUE, FALSE>>
  BY <1>3
<1>4. CASE a = <<FALSE, FALSE>>
  BY <1>4
<1> QED
  BY <1>1, <1>2, <1>3, <1>4

LEMMA InputOpenedSound ==
  ASSUME SoundTypeOK, NEW src \in {"SDR", "TC_I2S"}, NEW i \in InputOpened(src)
  PROVE  Opened(i)
<1>0. /\ ain \in BOOLEAN /\ blend \in {"closed", "set", "started"}
  BY DEF SoundTypeOK
<1>1. ASSUME i = Input(ain, blend, "SDR", TRUE) PROVE Opened(i)
  BY <1>0, <1>1 DEF Opened, Input, Sources
<1>2. ASSUME NEW b \in {"set", "started"}, i = Input(ain, b, "TC_I2S", TRUE) PROVE Opened(i)
  BY <1>0, <1>2 DEF Opened, Input, Sources
<1>3. ASSUME NEW b \in {"closed"}, i = Input(ain, b, "TC_I2S", FALSE) PROVE Opened(i)
  BY <1>0, <1>3 DEF Opened, Input, Sources
<1>4. ASSUME NEW a \in AlsaOpened, blend = "closed",
             i = Input(a[1], blend, IF a[2] THEN "I2S" ELSE "TC_I2S", a[2])
      PROVE  Opened(i)
  <2>1. a[1] \in BOOLEAN /\ a[2] \in BOOLEAN /\ (a[2] => a[1])
    BY AlsaResult
  <2>2. i.ain = a[1] /\ i.blend = blend /\ i.source = (IF a[2] THEN "I2S" ELSE "TC_I2S") /\ i.ok = a[2]
    BY <1>4 DEF Input
  <2> QED
    BY <1>0, <1>4, <2>1, <2>2, Zenon DEF Opened, Sources
<1>5. CASE src = "SDR"
  BY <1>1, <1>5 DEF InputOpened
<1>6. CASE src # "SDR"
  <2>1. \A s \in BlendSetUp : /\ s[2] => BlendStarted(s[1]) \subseteq {"set", "started"}
                              /\ ~s[2] => s[1] = "closed"
    <3> SUFFICES ASSUME NEW s \in BlendSetUp
                 PROVE  /\ s[2] => BlendStarted(s[1]) \subseteq {"set", "started"}
                        /\ ~s[2] => s[1] = "closed"
      OBVIOUS
    <3>1. \/ s = <<blend, TRUE>> /\ blend \in {"set", "started"}
          \/ s = <<"set", TRUE>> \/ s = <<"closed", FALSE>>
      BY DEF BlendSetUp
    <3>2. ASSUME NEW b, s = <<b, TRUE>> PROVE s[1] = b /\ s[2] = TRUE
      BY <3>2
    <3>3. CASE s = <<"closed", FALSE>>
      <4>1. s[1] = "closed" /\ s[2] = FALSE
        BY <3>3
      <4> QED
        BY <4>1
    <3>4. CASE s # <<"closed", FALSE>>
      <4>1. s[2] = TRUE /\ s[1] \in {"set", "started"}
        BY <3>1, <3>2, <3>4
      <4> QED
        BY <4>1 DEF BlendStarted
    <3> QED
      BY <3>3, <3>4
  <2>2. i \in FromTcI2s
    BY <1>6 DEF InputOpened
  <2>3. \/ \E b \in UNION {BlendStarted(s[1]) : s \in {t \in BlendSetUp : t[2]}} : i = Input(ain, b, "TC_I2S", TRUE)
        \/ \E s \in {t \in BlendSetUp : ~t[2]} : i = Input(ain, s[1], "TC_I2S", FALSE)
        \/ blend = "closed" /\ \E a \in AlsaOpened : i = Input(a[1], blend, IF a[2] THEN "I2S" ELSE "TC_I2S", a[2])
    BY <2>2 DEF FromTcI2s
  <2> QED
    BY <1>2, <1>3, <1>4, <2>1, <2>3
<1> QED
  BY <1>5, <1>6

LEMMA SoundInvNext == SoundInv /\ [SoundNext]_soundVars => SoundInv'
<1> SUFFICES ASSUME SoundInv, [SoundNext]_soundVars PROVE SoundInv'
  OBVIOUS
<1>0. /\ SoundTypeOK /\ FlagTells
      /\ opens' \in 0 .. MaxOpens
  <2>1. opens' \in 0 .. MaxOpens
    <3>1. opens \in 0 .. MaxOpens /\ (opens' = opens \/ (opens < MaxOpens /\ opens' = opens + 1))
      BY DEF SoundInv, SoundTypeOK, SoundNext, OpenSound, OpenSoundAgain, CloseSound, DeinitSound, SetAudio,
             StartSound, Playback, soundVars
    <3> QED
      BY <3>1, SoundAssumption
  <2> QED
    BY <2>1 DEF SoundInv
<1>1. CASE \E src \in {"SDR", "TC_I2S"} : OpenSound(src)
  <2>1. PICK src \in {"SDR", "TC_I2S"} : OpenSound(src)
    BY <1>1
  <2>2. PICK o \in AlsaOpened :
          /\ aout' = o[1]
          /\ IF ~o[2]
               THEN /\ UNCHANGED <<driverOpen, ain, blend, firstTime>>
                    /\ source' = src
                    /\ harmed' = (harmed \/ o[1])
               ELSE \E i \in InputOpened(src) :
                      /\ ain' = i.ain /\ blend' = i.blend /\ source' = i.source
                      /\ driverOpen' = Flag(i)
                      /\ firstTime' = (firstTime \/ i.ok)
                      /\ harmed' = (harmed \/ ~i.ok)
    BY <2>1 DEF OpenSound
  <2>3. /\ o[1] \in BOOLEAN /\ o[2] \in BOOLEAN /\ (o[2] => o[1])
        /\ ~driverOpen /\ playing' = playing /\ started' = started
    BY <2>1, AlsaResult DEF OpenSound
  <2>4. CASE ~o[2]
    <3>1. /\ UNCHANGED <<driverOpen, ain, blend, firstTime>> /\ source' \in Sources
          /\ harmed' = (harmed \/ o[1]) /\ aout' = o[1]
      BY <2>2, <2>4 DEF Sources
    <3> QED
      BY <1>0, <2>3, <3>1, Zenon DEF SoundInv, SoundTypeOK, FlagTells
  <2>5. CASE o[2]
    <3>1. PICK i \in InputOpened(src) :
             /\ ain' = i.ain /\ blend' = i.blend /\ source' = i.source /\ driverOpen' = i.ok
             /\ firstTime' = (firstTime \/ i.ok) /\ harmed' = (harmed \/ ~i.ok)
      BY <2>2, <2>5, Zenon DEF Flag
    <3>2. Opened(i)
      BY <1>0, InputOpenedSound
    <3> QED
      BY <1>0, <2>2, <2>3, <2>5, <3>1, <3>2, Zenon DEF SoundInv, SoundTypeOK, FlagTells, Opened
  <2> QED
    BY <2>3, <2>4, <2>5
<1>2. CASE OpenSoundAgain
  BY <1>0, <1>2, Zenon DEF OpenSoundAgain, devices, SoundInv, SoundTypeOK, FlagTells
<1>3. CASE CloseSound
  <2>1. PICK b : /\ b \in {"closed", "set", "started"} /\ blend' = b
                 /\ (source # "TC_I2S" => b = blend)
                 /\ harmed' = (harmed \/ (source = "TC_I2S" /\ b # "closed"))
    BY <1>0, <1>3 DEF CloseSound, ClosedBlend, SoundTypeOK
  <2>2. /\ driverOpen /\ driverOpen' = FALSE /\ firstTime' = FALSE /\ aout' = FALSE
        /\ ain' = (ain /\ source # "I2S")
        /\ playing' = playing /\ source' = source /\ started' = started
    BY <1>3 DEF CloseSound
  <2>3. SoundTypeOK'
    BY <1>0, <2>1, <2>2, Zenon DEF SoundTypeOK
  <2>4. ASSUME ~harmed' PROVE ~ain' /\ blend' = "closed"
    <3>1. /\ ~harmed /\ (source = "TC_I2S" => b = "closed")
      BY <2>1, <2>4
    <3>2. (ain => source = "I2S") /\ (blend # "closed" => source = "TC_I2S")
      BY <1>0, <2>2, <3>1, Zenon DEF FlagTells
    <3>3. ~ain'
      BY <2>2, <3>2, Zenon
    <3>4. blend' = "closed"
      <4>1. CASE source = "TC_I2S"
        BY <2>1, <3>1, <4>1
      <4>2. CASE source # "TC_I2S"
        BY <2>1, <3>2, <4>2, Zenon
      <4> QED
        BY <4>1, <4>2
    <3> QED
      BY <3>3, <3>4
  <2>5. FlagTells'
    BY <2>2, <2>4, Zenon DEF FlagTells
  <2> QED
    BY <2>3, <2>5 DEF SoundInv
<1>4. CASE DeinitSound
  <2>1. FlagTells'
    BY <1>0, <1>4 DEF DeinitSound, devices, FlagTells
  <2>2. SoundTypeOK'
    BY <1>0, <1>4, Zenon DEF DeinitSound, devices, SoundTypeOK
  <2> QED
    BY <2>1, <2>2 DEF SoundInv
<1>7. CASE \E play \in BOOLEAN : SetAudio(play)
  <2>1. UNCHANGED <<source, aout, ain, blend, driverOpen, harmed, started, firstTime>> /\ playing' \in BOOLEAN
    BY <1>7 DEF SetAudio, devices
  <2>2. FlagTells'
    BY <1>0, <2>1 DEF FlagTells
  <2>3. SoundTypeOK'
    BY <1>0, <2>1 DEF SoundTypeOK
  <2> QED
    BY <2>2, <2>3 DEF SoundInv
<1>8. CASE StartSound
  <2>1. /\ UNCHANGED <<source, aout, ain, blend, playing, firstTime>>
        /\ driverOpen' = FALSE /\ started' = TRUE /\ harmed' = (harmed \/ driverOpen)
    BY <1>8 DEF StartSound, devices
  <2>2. FlagTells'
    <3>1. CASE driverOpen
      BY <2>1, <3>1, Zenon DEF FlagTells
    <3>2. CASE ~driverOpen
      <4>1. driverOpen' = driverOpen /\ harmed' = harmed
        BY <1>0, <2>1, <3>2, Zenon DEF SoundTypeOK
      <4> QED
        BY <1>0, <2>1, <4>1 DEF FlagTells
    <3> QED
      BY <3>1, <3>2
  <2>3. SoundTypeOK'
    BY <1>0, <2>1, Zenon DEF SoundTypeOK
  <2> QED
    BY <2>2, <2>3 DEF SoundInv
<1>5. CASE Playback
  BY <1>0, <1>5, Zenon DEF Playback, SoundInv, SoundTypeOK, FlagTells
<1>6. CASE UNCHANGED soundVars
  BY <1>0, <1>6, Zenon DEF soundVars, devices, SoundInv, SoundTypeOK, FlagTells
<1> QED
  BY <1>1, <1>2, <1>3, <1>4, <1>5, <1>6, <1>7, <1>8 DEF SoundNext

(* Whatever opened, failed, was closed or played, and in which order: the  *)
(* flag and the source that the playing thread goes by tell which input is *)
(* open, and nothing else is open until something failed.                  *)
THEOREM SoundFlagTells == SoundSpec => []FlagTells
<1>1. SoundInv => FlagTells
  BY DEF SoundInv
<1> QED
  BY <1>1, SoundInvInit, SoundInvNext, PTL DEF SoundSpec

-----------------------------------------------------------------------------
(* The life of the middleware's parts. *)

ThreadStates == [pc : {"born", "loop"}, again : BOOLEAN]
PartSteps        == {"create", "queue", "fifo"}

LifeTypes ==
  /\ app \in {Idle, At("bg", "deinit")} \cup (Parts \X PartSteps)
  /\ handle \in [Parts -> BOOLEAN] /\ running \in [Parts -> BOOLEAN]
  /\ threads \in [Parts -> Seq(ThreadStates)]
  /\ msgs = [p \in Parts |-> msgs[p]]

(* The newest thread of a part that has a handle is about to run, or runs  *)
(* with its flag set, and has taken no DEINIT.                             *)
NewestRuns ==
  \A p \in Parts : handle[p] =>
    LET n == Len(threads[p])
    IN  /\ n > 0
        /\ threads[p][n].again = FALSE
        /\ threads[p][n].pc = "born" \/ running[p]

Starting == app \in Parts \X PartSteps

(* Only the threads that have their handle, and no message. *)
Quiet == \A p \in Parts : /\ handle[p] => Len(threads[p]) = 1
                          /\ ~handle[p] => Len(threads[p]) = 0
                          /\ msgs[p] \in {NoQueue, <<>>}

Before(p) == CASE p = "service" -> {}
               [] p = "rds"     -> {"service"}
               [] p = "sound"   -> {"service", "rds"}
               [] p = "bg"      -> {"service", "rds", "sound"}

(* What an initialisation that is on its way has built. *)
BuiltSoFar ==
  /\ halUp
  /\ \A p \in Before(app[1]) : Exists(p)
  /\ app[2] # "create" => handle[app[1]]
  /\ app[2] = "fifo" => app[1] = "sound" /\ msgs["sound"] # NoQueue
  /\ app[1] = "bg" => fifo

(* The inductive invariant.  Whole alone is not inductive: the thread that *)
(* was there before could still end, so what an undisturbed initialisation *)
(* met and built is kept.                                                  *)
LifeInv ==
  /\ LifeTypes /\ NewestRuns
  /\ inited => app = Idle
  /\ orderly /\ (Starting \/ inited) => Quiet
  /\ orderly /\ Starting => BuiltSoFar
  /\ Whole

LEMMA LifeInvInit == LifeInit => LifeInv
<1> SUFFICES ASSUME LifeInit PROVE LifeInv
  OBVIOUS
<1>1. LifeTypes
  BY DEF LifeInit, LifeTypes
<1>2. NewestRuns
  BY DEF LifeInit, NewestRuns
<1>3. ~Starting
  BY DEF LifeInit, Starting, Idle, PartSteps
<1> QED
  BY <1>1, <1>2, <1>3 DEF LifeInit, LifeInv, Whole

(* What removing one element leaves. *)
LEMMA RemovedOne ==
  ASSUME NEW S, NEW s \in Seq(S), NEW i \in 1 .. Len(s)
  PROVE  /\ RemoveAt(s, i) \in Seq(S)
         /\ Len(RemoveAt(s, i)) = Len(s) - 1
         /\ i < Len(s) => RemoveAt(s, i)[Len(s) - 1] = s[Len(s)]
<1> DEFINE front == SubSeq(s, 1, i - 1)
           rest  == SubSeq(s, i + 1, Len(s))
<1>1. Len(s) \in Nat /\ i \in Nat /\ 1 <= i /\ i <= Len(s)
  BY LenProperties
<1>2. front \in Seq(S) /\ Len(front) = i - 1
  BY <1>1, SubSeqProperties
<1>3. rest \in Seq(S) /\ Len(rest) = Len(s) - i
      /\ \A k \in 1 .. Len(s) - i : rest[k] = s[i + k]
  BY <1>1, SubSeqProperties
<1>4. RemoveAt(s, i) = front \o rest
  BY DEF RemoveAt
<1> HIDE DEF front, rest
<1>5. front \o rest \in Seq(S) /\ Len(front \o rest) = Len(s) - 1
  <2>1. front \o rest \in Seq(S) /\ Len(front \o rest) = Len(front) + Len(rest)
    BY <1>2, <1>3, ConcatProperties
  <2> QED
    BY <1>1, <1>2, <1>3, <2>1
<1>6. ASSUME i < Len(s) PROVE (front \o rest)[Len(s) - 1] = s[Len(s)]
  <2>1. (front \o rest)[Len(s) - 1] = rest[Len(s) - i]
    BY <1>1, <1>2, <1>3, <1>6, ConcatProperties
  <2> QED
    BY <1>1, <1>3, <1>6, <2>1
<1> QED
  BY <1>4, <1>5, <1>6

(* What a thread may do while an initialisation is undisturbed, or done:   *)
(* nothing but start.                                                      *)
LEMMA OnlyStarts ==
  ASSUME LifeTypes, NewestRuns, Quiet,
         NEW p \in Parts, NEW i \in DOMAIN threads[p]
  PROVE  ~ServeDeinit(p, i) /\ ~ServeNothing(p, i) /\ ~Leave(p, i)
<1>1. threads[p] \in Seq(ThreadStates) /\ i \in 1 .. Len(threads[p])
  BY LenProperties DEF LifeTypes
<1>2. handle[p] /\ Len(threads[p]) = 1 /\ i = 1
  BY <1>1, LenProperties DEF Quiet
<1>3. threads[p][i].again = FALSE /\ (threads[p][i].pc = "born" \/ running[p])
  BY <1>2 DEF NewestRuns
<1>4. msgs[p] = NoQueue \/ msgs[p] = <<>>
  BY DEF Quiet
<1> QED
  BY <1>3, <1>4 DEF ServeDeinit, ServeNothing, Leave

(* The types and the newest threads, step by step. *)
LEMMA ThreadMoves ==
  ASSUME LifeTypes, NewestRuns, NEW p \in Parts, NEW i \in DOMAIN threads[p],
         NEW where \in {"born", "loop"}, NEW again \in BOOLEAN, Goes(p, i, where, again)
  PROVE  /\ threads' \in [Parts -> Seq(ThreadStates)]
         /\ \A q \in Parts : Len(threads'[q]) = Len(threads[q])
         /\ threads'[p][i] = Thread(where, again)
         /\ \A q \in Parts : \A j \in 1 .. Len(threads[q]) :
              <<q, j>> # <<p, i>> => threads'[q][j] = threads[q][j]
<1>1. threads[p] \in Seq(ThreadStates) /\ i \in 1 .. Len(threads[p])
  BY LenProperties DEF LifeTypes
<1>2. Thread(where, again) \in ThreadStates
  BY DEF Thread, ThreadStates
<1> DEFINE new == [threads[p] EXCEPT ![i] = Thread(where, again)]
<1>3. threads' = [threads EXCEPT ![p] = new]
  BY DEF Goes
<1>4. /\ new \in Seq(ThreadStates) /\ Len(new) = Len(threads[p])
      /\ \A j \in 1 .. Len(threads[p]) :
           new[j] = IF j = i THEN Thread(where, again) ELSE threads[p][j]
  BY <1>1, <1>2, ExceptSeq
<1> HIDE DEF new
<1> QED
  BY <1>1, <1>3, <1>4 DEF LifeTypes

LEMMA TypesNext == LifeInv /\ [LifeNext]_lifeVars => LifeTypes' /\ NewestRuns'
<1> SUFFICES ASSUME LifeInv, [LifeNext]_lifeVars PROVE LifeTypes' /\ NewestRuns'
  OBVIOUS
<1>1. LifeTypes /\ NewestRuns
  BY DEF LifeInv
<1>2. CASE InitBegin
  <2>1. LifeTypes'
    BY <1>1, <1>2 DEF LifeTypes, InitBegin, At, Parts, PartSteps
  <2> QED
    BY <1>1, <1>2, <2>1 DEF NewestRuns, InitBegin
<1>3. ASSUME NEW p \in Parts, CreateThread(p) PROVE LifeTypes' /\ NewestRuns'
  <2>1. app' \in {Idle, At("bg", "deinit")} \cup (Parts \X PartSteps)
    <3>1. app' \in {Idle, <<p, "queue">>}
      BY <1>3 DEF CreateThread, Fail, At
    <3> QED
      BY <3>1 DEF PartSteps
  <2>2. running' \in [Parts -> BOOLEAN] /\ running' = running /\ msgs' = msgs
    BY <1>1, <1>3 DEF LifeTypes, CreateThread
  <2>3. CASE UNCHANGED <<handle, threads>>
    BY <1>1, <2>1, <2>2, <2>3 DEF LifeTypes, NewestRuns
  <2>4. CASE /\ handle' = [handle EXCEPT ![p] = TRUE]
             /\ threads' = [threads EXCEPT ![p] = Append(@, Thread("born", FALSE))]
    <3> DEFINE new == Append(threads[p], Thread("born", FALSE))
    <3>1. Thread("born", FALSE) \in ThreadStates
      BY DEF Thread, ThreadStates
    <3>2. threads[p] \in Seq(ThreadStates)
      BY <1>1 DEF LifeTypes
    <3>3. /\ new \in Seq(ThreadStates) /\ Len(new) = Len(threads[p]) + 1
          /\ new[Len(threads[p]) + 1] = Thread("born", FALSE)
      <4> DEFINE old == threads[p]
                 e == Thread("born", FALSE)
      <4>1. old \in Seq(ThreadStates) /\ e \in ThreadStates
        BY <3>1, <3>2
      <4>2. new = Append(old, e)
        OBVIOUS
      <4> HIDE DEF old, e, new
      <4>3. new \in Seq(ThreadStates) /\ Len(new) = Len(old) + 1 /\ new[Len(old) + 1] = e
        BY <4>1, <4>2, AppendProperties
      <4>4. QED
        BY <4>3 DEF old, e
    <3>4. Len(threads[p]) \in Nat
      BY <3>2, LenProperties
    <3>5. threads' = [threads EXCEPT ![p] = new]
      BY <2>4
    <3> HIDE DEF new
    <3>6. threads' \in [Parts -> Seq(ThreadStates)]
      BY <1>1, <3>3, <3>5 DEF LifeTypes
    <3>7. handle' \in [Parts -> BOOLEAN]
      BY <1>1, <2>4 DEF LifeTypes
    <3>8. LifeTypes'
      BY <1>1, <2>1, <2>2, <3>6, <3>7 DEF LifeTypes
    <3>9. NewestRuns'
      <4> SUFFICES ASSUME NEW q \in Parts, handle'[q]
                   PROVE  LET n == Len(threads'[q])
                          IN  /\ n > 0 /\ threads'[q][n].again = FALSE
                              /\ threads'[q][n].pc = "born" \/ running'[q]
        BY DEF NewestRuns
      <4>1. CASE q = p
        <5>1. threads'[q] = new
          BY <1>1, <3>5, <4>1 DEF LifeTypes
        <5> QED
          BY <5>1, <3>3, <3>4 DEF Thread
      <4>2. CASE q # p
        <5>1. threads'[q] = threads[q] /\ handle'[q] = handle[q] /\ running'[q] = running[q]
          BY <1>1, <2>2, <2>4, <3>5, <4>2 DEF LifeTypes
        <5> QED
          BY <1>1, <5>1 DEF NewestRuns
      <4> QED
        BY <4>1, <4>2
    <3> QED
      BY <3>8, <3>9
  <2> QED
    BY <1>3, <2>3, <2>4 DEF CreateThread
<1>4. ASSUME NEW p \in Parts, MessageInit(p) PROVE LifeTypes' /\ NewestRuns'
  <2>1. app' \in {Idle, At("bg", "deinit")} \cup (Parts \X PartSteps)
    BY <1>4 DEF MessageInit, AfterPart, Fail, At, Parts, PartSteps
  <2>2. msgs' = [q \in Parts |-> msgs'[q]]
    BY <1>1, <1>4 DEF LifeTypes, MessageInit
  <2>3. UNCHANGED <<handle, running, threads>>
    BY <1>4 DEF MessageInit
  <2> QED
    BY <1>1, <2>1, <2>2, <2>3 DEF LifeTypes, NewestRuns
<1>5. CASE FifoInit
  <2>1. app' \in {Idle, At("bg", "deinit")} \cup (Parts \X PartSteps)
    BY <1>5 DEF FifoInit, AfterPart, Fail, At, Parts, PartSteps
  <2> QED
    BY <1>1, <1>5, <2>1 DEF LifeTypes, NewestRuns, FifoInit
<1>6. CASE Deinit \/ DeinitBg
  <2>1. app' \in {Idle, At("bg", "deinit")} \cup (Parts \X PartSteps)
    BY <1>1, <1>6 DEF LifeTypes, Deinit, DeinitBg
  <2>2. UNCHANGED <<handle, running, threads>>
    BY <1>6 DEF Deinit, DeinitBg
  <2>3. msgs' = [q \in Parts |-> msgs'[q]]
    BY <1>1, <1>6 DEF LifeTypes, Deinit, DeinitBg
  <2> QED
    BY <1>1, <2>1, <2>2, <2>3 DEF LifeTypes, NewestRuns
<1>7. ASSUME NEW p \in Parts, NEW i \in DOMAIN threads[p],
             Start(p, i) \/ ServeDeinit(p, i) \/ ServeNothing(p, i)
      PROVE LifeTypes' /\ NewestRuns'
  <2>0. threads[p] \in Seq(ThreadStates) /\ i \in 1 .. Len(threads[p])
    BY <1>1, LenProperties DEF LifeTypes
  <2>1. app' = app
    BY <1>7 DEF Start, ServeDeinit, ServeNothing
  <2>2. msgs' = [q \in Parts |-> msgs'[q]]
    BY <1>1, <1>7 DEF LifeTypes, Start, ServeDeinit, ServeNothing
  <2>3. CASE Start(p, i)
    <3>1. Goes(p, i, "loop", FALSE) /\ handle' = handle
      BY <2>3 DEF Start
    <3>2. /\ running' \in [Parts -> BOOLEAN] /\ running'[p]
          /\ \A q \in Parts : running[q] => running'[q]
      BY <1>1, <2>3 DEF Start, LifeTypes
    <3>3. LifeTypes'
      BY <1>1, <2>1, <2>2, <3>1, <3>2, ThreadMoves DEF LifeTypes
    <3>4. \A q \in Parts : /\ Len(threads'[q]) = Len(threads[q])
                           /\ \A j \in 1 .. Len(threads[q]) :
                                \/ threads'[q][j] = threads[q][j]
                                \/ q = p /\ threads'[q][j].again = FALSE
      <4>1. /\ \A q \in Parts : Len(threads'[q]) = Len(threads[q])
            /\ threads'[p][i] = Thread("loop", FALSE)
            /\ \A q \in Parts : \A j \in 1 .. Len(threads[q]) :
                 <<q, j>> # <<p, i>> => threads'[q][j] = threads[q][j]
        BY <1>1, <3>1, ThreadMoves
      <4>2. Thread("loop", FALSE).again = FALSE
        BY DEF Thread
      <4> QED
        BY <4>1, <4>2
    <3>5. \A q \in Parts : Len(threads[q]) \in Nat
      BY <1>1, LenProperties DEF LifeTypes
    <3>7. \A q \in Parts : q # p => \A j \in 1 .. Len(threads[q]) : threads'[q][j] = threads[q][j]
      BY <3>4
    <3>6. NewestRuns'
      <4> SUFFICES ASSUME NEW q \in Parts, handle'[q]
                   PROVE  LET n == Len(threads'[q])
                          IN  /\ n > 0 /\ threads'[q][n].again = FALSE
                              /\ threads'[q][n].pc = "born" \/ running'[q]
        BY DEF NewestRuns
      <4>1. Len(threads[q]) \in 1 .. Len(threads[q]) /\ threads[q][Len(threads[q])].again = FALSE
            /\ (threads[q][Len(threads[q])].pc = "born" \/ running[q])
        BY <1>1, <3>1, <3>5 DEF NewestRuns
      <4>2. q = p => running'[q]
        BY <3>2
      <4>3. q # p => threads'[q][Len(threads[q])] = threads[q][Len(threads[q])]
        BY <3>7, <4>1
      <4> QED
        BY <3>2, <3>4, <4>1, <4>2, <4>3
    <3> QED
      BY <3>3, <3>6
  <2>4. CASE ServeNothing(p, i)
    <3>1. Goes(p, i, "loop", FALSE) /\ UNCHANGED <<handle, running>> /\ running[p]
      BY <2>4 DEF ServeNothing
    <3>2. LifeTypes'
      BY <1>1, <2>1, <2>2, <3>1, ThreadMoves DEF LifeTypes
    <3>3. \A q \in Parts : /\ Len(threads'[q]) = Len(threads[q])
                           /\ \A j \in 1 .. Len(threads[q]) :
                                \/ threads'[q][j] = threads[q][j]
                                \/ q = p /\ threads'[q][j].again = FALSE
      <4>1. /\ \A q \in Parts : Len(threads'[q]) = Len(threads[q])
            /\ threads'[p][i] = Thread("loop", FALSE)
            /\ \A q \in Parts : \A j \in 1 .. Len(threads[q]) :
                 <<q, j>> # <<p, i>> => threads'[q][j] = threads[q][j]
        BY <1>1, <3>1, ThreadMoves
      <4>2. Thread("loop", FALSE).again = FALSE
        BY DEF Thread
      <4> QED
        BY <4>1, <4>2
    <3>4. \A q \in Parts : Len(threads[q]) \in Nat
      BY <1>1, LenProperties DEF LifeTypes
    <3> QED
      BY <1>1, <3>1, <3>2, <3>3, <3>4 DEF NewestRuns
  <2>5. CASE ServeDeinit(p, i)
    <3>1. /\ Goes(p, i, "loop", TRUE)
          /\ running' = [q \in Parts |-> running[q] /\ q \notin StoppedBy(p)]
          /\ handle' = [q \in Parts |-> handle[q] /\ q \notin StoppedBy(p)]
          /\ p \in StoppedBy(p)
      BY <2>5 DEF ServeDeinit, StoppedBy
    <3>2. /\ running' \in [Parts -> BOOLEAN] /\ handle' \in [Parts -> BOOLEAN]
          /\ ~handle'[p]
          /\ \A q \in Parts : handle'[q] => handle[q] /\ running'[q] = running[q]
      BY <1>1, <3>1 DEF LifeTypes
    <3>3. LifeTypes'
      BY <1>1, <2>1, <2>2, <3>1, <3>2, ThreadMoves DEF LifeTypes
    <3>4. \A q \in Parts : q # p => /\ Len(threads'[q]) = Len(threads[q])
                                   /\ \A j \in 1 .. Len(threads[q]) :
                                        threads'[q][j] = threads[q][j]
      BY <1>1, <3>1, ThreadMoves
    <3>5. \A q \in Parts : Len(threads[q]) \in Nat
      BY <1>1, LenProperties DEF LifeTypes
    <3> QED
      BY <1>1, <3>2, <3>3, <3>4, <3>5 DEF NewestRuns
  <2> QED
    BY <1>7, <2>3, <2>4, <2>5
<1>8. ASSUME NEW p \in Parts, NEW i \in DOMAIN threads[p], Leave(p, i)
      PROVE LifeTypes' /\ NewestRuns'
  <2> DEFINE new == RemoveAt(threads[p], i)
  <2>1. threads[p] \in Seq(ThreadStates) /\ i \in 1 .. Len(threads[p])
    BY <1>1, LenProperties DEF LifeTypes
  <2>2. /\ new \in Seq(ThreadStates) /\ Len(new) = Len(threads[p]) - 1
        /\ i < Len(threads[p]) => new[Len(threads[p]) - 1] = threads[p][Len(threads[p])]
    BY <2>1, RemovedOne
  <2>3. threads' = [threads EXCEPT ![p] = new] /\ UNCHANGED <<app, handle>>
    BY <1>8 DEF Leave
  <2>4. msgs' = [q \in Parts |-> msgs'[q]]
    BY <1>1, <1>8 DEF LifeTypes, Leave
  <2>5. running' = running
    BY <1>1, <1>8 DEF LifeTypes, Leave
  <2>6. threads[p][i].pc = "loop" /\ ~running[p]
    BY <1>8 DEF Leave
  <2> HIDE DEF new
  <2>7. LifeTypes'
    BY <1>1, <2>2, <2>3, <2>4, <2>5 DEF LifeTypes
  <2>8. ASSUME handle[p] PROVE i < Len(threads[p])
    <3>1. i # Len(threads[p])
      BY <1>1, <2>6, <2>8 DEF NewestRuns
    <3> QED
      BY <2>1, <3>1, LenProperties
  <2>9. NewestRuns'
    <3> SUFFICES ASSUME NEW q \in Parts, handle'[q]
                 PROVE  LET n == Len(threads'[q])
                        IN  /\ n > 0 /\ threads'[q][n].again = FALSE
                            /\ threads'[q][n].pc = "born" \/ running'[q]
      BY DEF NewestRuns
    <3>1. CASE q = p
      <4>1. threads'[q] = new
        BY <1>1, <2>3, <3>1 DEF LifeTypes
      <4> QED
        BY <1>1, <2>1, <2>2, <2>3, <2>5, <2>8, <3>1, <4>1, LenProperties DEF NewestRuns
    <3>2. CASE q # p
      BY <1>1, <2>3, <2>5, <3>2 DEF LifeTypes, NewestRuns
    <3> QED
      BY <3>1, <3>2
  <2> QED
    BY <2>7, <2>9
<1>9. CASE UNCHANGED lifeVars
  BY <1>1, <1>9 DEF LifeTypes, NewestRuns, lifeVars
<1> QED
  BY <1>2, <1>3, <1>4, <1>5, <1>6, <1>7, <1>8, <1>9 DEF LifeNext, ThreadStep

LEMMA WholeNext == LifeInv /\ [LifeNext]_lifeVars => LifeInv'
<1> SUFFICES ASSUME LifeInv, [LifeNext]_lifeVars PROVE LifeInv'
  OBVIOUS
<1>1. LifeTypes' /\ NewestRuns'
  BY TypesNext
<1>2. LifeTypes /\ NewestRuns
  BY DEF LifeInv
<1> DEFINE Rest == /\ inited => app = Idle
                   /\ orderly /\ (Starting \/ inited) => Quiet
                   /\ orderly /\ Starting => BuiltSoFar
                   /\ Whole
<1>3. CASE InitBegin
  <2>1. app' = <<"service", "create">> /\ halUp' /\ ~inited'
    BY <1>3 DEF InitBegin, At
  <2>2. BuiltSoFar'
    BY <2>1 DEF BuiltSoFar, Before
  <2>3. orderly' => Quiet'
    BY <1>3 DEF InitBegin, NoneEnding, Quiet
  <2> QED
    BY <1>1, <2>1, <2>2, <2>3 DEF LifeInv, Whole
<1>4. ASSUME NEW p \in Parts, CreateThread(p) PROVE LifeInv'
  <2>1. app = <<p, "create">> /\ UNCHANGED <<msgs, halUp, fifo, orderly, inited>>
    BY <1>4 DEF CreateThread, At
  <2>2. Starting /\ ~inited
    BY <2>1 DEF Starting, PartSteps, LifeInv, Idle
  <2>3. CASE app' = Idle
    BY <1>1, <2>1, <2>2, <2>3 DEF LifeInv, Whole, Starting, Idle, Parts
  <2>4. CASE /\ app' = <<p, "queue">>
             /\ \/ UNCHANGED <<handle, threads>> /\ handle[p]
                \/ /\ ~handle[p]
                   /\ handle' = [handle EXCEPT ![p] = TRUE]
                   /\ threads' = [threads EXCEPT ![p] = Append(@, Thread("born", FALSE))]
    <3>1. ASSUME orderly PROVE Quiet'
      <4>1. Quiet
        BY <2>2, <3>1 DEF LifeInv
      <4>2. threads[p] \in Seq(ThreadStates) /\ Thread("born", FALSE) \in ThreadStates
        BY <1>2 DEF LifeTypes, Thread, ThreadStates
      <4>3. Len(Append(threads[p], Thread("born", FALSE))) = Len(threads[p]) + 1
        BY <4>2, AppendProperties
      <4>4. CASE UNCHANGED <<handle, threads>>
        BY <2>1, <4>1, <4>4 DEF Quiet
      <4>5. CASE /\ ~handle[p]
                 /\ handle' = [handle EXCEPT ![p] = TRUE]
                 /\ threads' = [threads EXCEPT ![p] = Append(@, Thread("born", FALSE))]
        <5>1. Len(threads[p]) = 0 /\ Len(threads'[p]) = 1 /\ handle'[p]
          BY <1>2, <4>1, <4>3, <4>5 DEF Quiet, LifeTypes
        <5>2. \A q \in Parts : q # p => handle'[q] = handle[q] /\ threads'[q] = threads[q]
          BY <1>2, <4>5 DEF LifeTypes
        <5> QED
          BY <2>1, <4>1, <5>1, <5>2 DEF Quiet
      <4> QED
        BY <2>4, <4>4, <4>5
    <3>2. handle'[p] /\ \A q \in Parts : handle[q] => handle'[q]
      BY <1>2, <2>4 DEF LifeTypes
    <3>3. ASSUME orderly PROVE BuiltSoFar'
      <4>1. BuiltSoFar
        BY <2>2, <3>3 DEF LifeInv
      <4>2. Before(p) \subseteq Parts
        BY DEF Before, Parts
      <4> QED
        BY <2>1, <2>4, <3>2, <4>1, <4>2 DEF BuiltSoFar, Exists
    <3> QED
      BY <1>1, <2>1, <2>2, <2>4, <3>1, <3>3 DEF LifeInv, Whole
  <2> QED
    BY <1>4, <2>3, <2>4 DEF CreateThread, Creates, Fail, At
<1>5. ASSUME NEW p \in Parts, MessageInit(p) PROVE LifeInv'
  <2>1. app = <<p, "queue">> /\ UNCHANGED <<handle, threads, halUp, fifo, orderly>>
    BY <1>5 DEF MessageInit, At
  <2>2. Starting /\ ~inited
    BY <2>1 DEF Starting, PartSteps, LifeInv, Idle
  <2>3. CASE msgs' = [msgs EXCEPT ![p] = NoQueue] /\ app' = Idle /\ UNCHANGED inited
    BY <1>1, <2>1, <2>2, <2>3 DEF LifeInv, Whole, Starting, Idle, Parts
  <2>4. CASE /\ msgs' = [msgs EXCEPT ![p] = <<>>]
             /\ app' = IF p = "sound" THEN At(p, "fifo") ELSE AfterPart(p)
             /\ inited' = (p = "bg")
    <3>1. ASSUME orderly PROVE Quiet'
      BY <1>2, <2>1, <2>2, <2>4, <3>1 DEF LifeInv, Quiet, LifeTypes
    <3>2. ASSUME orderly PROVE /\ halUp /\ handle[p] /\ (p = "bg" => fifo)
                               /\ \A q \in Before(p) : Exists(q)
      BY <2>1, <2>2, <3>2 DEF LifeInv, BuiltSoFar
    <3>3. /\ msgs'[p] # NoQueue
          /\ \A q \in Parts : msgs[q] # NoQueue => msgs'[q] # NoQueue
      BY <1>2, <2>4 DEF LifeTypes, NoQueue
    <3>4. ASSUME orderly PROVE \A q \in Before(p) \cup {p} : Exists(q)'
      <4>1. Before(p) \subseteq Parts
        BY DEF Before, Parts
      <4> QED
        BY <2>1, <3>2, <3>3, <3>4, <4>1, Zenon DEF Exists
    <3>9. ~inited'
             \/ p = "bg"
      BY <2>4
    <3>5. CASE p = "service"
      <4>1. app' = <<"rds", "create">>
        BY <2>4, <3>5 DEF AfterPart, At
      <4>2. orderly => BuiltSoFar' /\ orderly'
        BY <2>1, <3>2, <3>3, <3>4, <3>5, <4>1 DEF BuiltSoFar, Before
      <4> QED
        BY <1>1, <2>1, <3>1, <3>5, <3>9, <4>1, <4>2 DEF LifeInv, Whole
    <3>6. CASE p = "rds"
      <4>1. app' = <<"sound", "create">>
        BY <2>4, <3>6 DEF AfterPart, At
      <4>2. orderly => BuiltSoFar' /\ orderly'
        BY <2>1, <3>2, <3>3, <3>4, <3>6, <4>1 DEF BuiltSoFar, Before
      <4> QED
        BY <1>1, <2>1, <3>1, <3>6, <3>9, <4>1, <4>2 DEF LifeInv, Whole
    <3>7. CASE p = "sound"
      <4>1. app' = <<"sound", "fifo">>
        BY <2>4, <3>7 DEF At
      <4>2. orderly => BuiltSoFar' /\ orderly'
        BY <2>1, <3>2, <3>3, <3>4, <3>7, <4>1 DEF BuiltSoFar, Before
      <4> QED
        BY <1>1, <2>1, <3>1, <3>7, <3>9, <4>1, <4>2 DEF LifeInv, Whole
    <3>8. CASE p = "bg"
      <4>1. app' = Idle /\ ~Starting'
        BY <2>4, <3>8 DEF AfterPart, Starting, Idle, Parts
      <4>2. orderly => \A q \in Parts : Len(threads'[q]) = 1 /\ Exists(q)'
        BY <2>1, <3>1, <3>4, <3>8 DEF Quiet, Parts, Before, Exists
      <4>3. orderly => halUp' /\ fifo'
        BY <2>1, <3>2, <3>8
      <4> QED
        BY <1>1, <2>1, <3>1, <3>2, <3>8, <4>1, <4>2, <4>3 DEF LifeInv, Whole
    <3> QED
      BY <3>5, <3>6, <3>7, <3>8 DEF Parts
  <2> QED
    BY <1>5, <2>3, <2>4 DEF MessageInit, Fail
<1>6. CASE FifoInit
  <2>1. app = <<"sound", "fifo">> /\ UNCHANGED <<handle, threads, msgs, halUp, orderly, inited>>
    BY <1>6 DEF FifoInit, At
  <2>2. Starting /\ ~inited
    BY <2>1 DEF Starting, PartSteps, LifeInv, Idle, Parts
  <2>3. CASE app' = Idle
    BY <1>1, <2>1, <2>2, <2>3 DEF LifeInv, Whole, Starting, Idle, Parts
  <2>4. CASE fifo' = TRUE /\ app' = <<"bg", "create">>
    <3>1. ASSUME orderly PROVE Quiet' /\ BuiltSoFar'
      BY <2>1, <2>2, <2>4, <3>1 DEF LifeInv, Quiet, BuiltSoFar, Before, Exists
    <3> QED
      BY <1>1, <2>1, <2>2, <2>4, <3>1 DEF LifeInv, Whole
  <2> QED
    BY <1>6, <2>3, <2>4 DEF FifoInit, AfterPart, Fail, At
<1>7. CASE Deinit \/ DeinitBg
  <2>1. ~inited' /\ ~Starting'
    <3>1. CASE Deinit
      <4>1. ~inited' /\ (app' = app \/ app' = <<"bg", "deinit">>) /\ app = <<"idle", "none">>
        BY <3>1 DEF Deinit, Idle, At
      <4> QED
        BY <4>1 DEF Starting, PartSteps
    <3>2. CASE DeinitBg
      <4>1. app' = <<"idle", "none">> /\ app # Idle /\ inited' = inited
        BY <3>2 DEF DeinitBg, Idle, At
      <4> QED
        BY <4>1 DEF Starting, PartSteps, LifeInv
    <3> QED
      BY <1>7, <3>1, <3>2
  <2> QED
    BY <1>1, <2>1 DEF LifeInv, Whole
<1>8. ASSUME NEW p \in Parts, NEW i \in DOMAIN threads[p],
             Start(p, i) \/ ServeDeinit(p, i) \/ ServeNothing(p, i) \/ Leave(p, i)
      PROVE LifeInv'
  <2>1. UNCHANGED <<app, orderly, inited>>
    BY <1>8 DEF Start, ServeDeinit, ServeNothing, Leave
  <2>2. CASE orderly /\ (Starting \/ inited)
    <3>1. Quiet
      BY <2>2 DEF LifeInv
    <3>2. Start(p, i)
      BY <1>2, <1>8, <3>1, OnlyStarts
    <3>3. Goes(p, i, "loop", FALSE) /\ UNCHANGED <<handle, msgs, halUp, fifo>>
      BY <3>2 DEF Start
    <3>4. \A q \in Parts : Len(threads'[q]) = Len(threads[q])
      BY <1>2, <3>3, ThreadMoves
    <3>5. Quiet' /\ Whole'
      BY <2>1, <3>1, <3>3, <3>4 DEF LifeInv, Quiet, Whole, Exists
    <3>6. Starting => BuiltSoFar'
      BY <2>1, <2>2, <3>3 DEF LifeInv, BuiltSoFar, Exists
    <3> QED
      BY <1>1, <2>1, <3>5, <3>6 DEF LifeInv, Starting
  <2>3. CASE ~(orderly /\ (Starting \/ inited))
    BY <1>1, <2>1, <2>3 DEF LifeInv, Whole, Starting
  <2> QED
    BY <2>2, <2>3
<1>9. CASE UNCHANGED lifeVars
  BY <1>1, <1>9 DEF LifeInv, lifeVars, Whole, Starting, Quiet, BuiltSoFar, Exists
<1> QED
  BY <1>3, <1>4, <1>5, <1>6, <1>7, <1>8, <1>9 DEF LifeNext, ThreadStep

(* tcradio_init builds every part of the middleware exactly once. *)
THEOREM InitBuildsWhole == LifeSpec => []Whole
<1>1. LifeInv => Whole
  BY DEF LifeInv
<1> QED
  BY LifeInvInit, WholeNext, <1>1, PTL DEF LifeSpec

-----------------------------------------------------------------------------
(* The HD framework: what a successful initialisation built stays.         *)

(* An initialisation under way that met nothing of an earlier one, or one *)
(* that is over and was not ended by a deinit. *)
Building == hdApp # {} /\ hdApp \subseteq InitParts
Stands   == tidy /\ (Building \/ hdInit)

HdTypes ==
  /\ hdRunning \in [HdThreads -> Int] /\ DOMAIN hdThreads = HdThreads
  /\ hdThreads = [t \in HdThreads |-> hdThreads[t]]
  /\ live \subseteq Resources /\ hdInit \in BOOLEAN /\ tidy \in BOOLEAN

(* A thread of a name that is there once, not on its way out, and whose *)
(* flag is up from its beginning on. *)
AtItsPlace(t) ==
  \E place \in {"born", "loop", "wait", "samples"}, mine \in BOOLEAN :
    /\ hdThreads[t] = <<Thread0(place, mine)>>
    /\ place # "born" => hdRunning[t] = 1

ThreadStands(t) == /\ <<"create", t>> \in hdApp => hdThreads[t] = <<>>
                   /\ <<"create", t>> \notin hdApp /\ t \notin Consoles => AtItsPlace(t)

PartStands(p) == <<"make", p>> \notin hdApp => Makes(p) \cap Resources \subseteq live

HdLifeInv ==
  /\ HdTypes
  /\ hdInit => hdApp = {}
  /\ hdApp \subseteq InitParts \/ hdApp \subseteq DeinitParts
  /\ Stands => /\ \A t \in HdThreads : ThreadStands(t)
               /\ \A p \in HdParts : PartStands(p)

LEMMA StepsApart ==
  /\ \A p \in HdParts : <<"make", p>> \in InitParts /\ <<"make", p>> \notin DeinitParts
  /\ \A t \in HdThreads : <<"create", t>> \in InitParts /\ <<"create", t>> \notin DeinitParts
  /\ \A t : <<"stop", t>> \notin InitParts /\ <<"wake", t>> \notin InitParts
  /\ InitParts # {} /\ \A s \in DeinitParts : s \notin InitParts
<1>1. "make" # "stop" /\ "make" # "wake" /\ "create" # "stop" /\ "create" # "wake"
  OBVIOUS
<1>2. "audin" \in HdParts
  BY DEF HdParts
<1>3. \A s \in DeinitParts : s[1] \in {"stop", "wake"}
  BY DEF DeinitParts
<1>4. \A s \in InitParts : s[1] \in {"make", "create"}
  BY DEF InitParts
<1>5. \A s \in DeinitParts : s \notin InitParts
  BY <1>1, <1>3, <1>4
<1>6. /\ \A p \in HdParts : <<"make", p>> \in InitParts
      /\ \A t \in HdThreads : <<"create", t>> \in InitParts
  BY DEF InitParts
<1>7. \A t : <<"stop", t>> \notin InitParts /\ <<"wake", t>> \notin InitParts
  BY DEF InitParts
<1> QED
  BY <1>2, <1>5, <1>6, <1>7

(* What the parts make is all there is to release. *)
LEMMA AllMade ==
  ASSUME NEW r \in Resources
  PROVE  \E p \in HdParts : r \in Makes(p)
<1>1. PICK t \in HdThreads : r \in Releases(t)
  BY DEF Resources
<1>2. r \in {"analogAudioBuffer", "readIQ01", "bbQueue", "mainQueue", "blendingQueue", "audioQueue", "serviceQueues"}
  BY <1>1 DEF Releases
<1> QED
  BY <1>2 DEF Makes, HdParts

(* One thread, and what becomes of it. *)
LEMMA Becoming ==
  ASSUME NEW t \in HdThreads, NEW x, NEW y, NEW i \in DOMAIN hdThreads[t], HdTypes,
         hdThreads[t] = <<x>>, Becomes(t, i, y)
  PROVE  i = 1 /\ hdThreads[t][i] = x /\ hdThreads'[t] = <<y>>
<1>1. i = 1
  OBVIOUS
<1>2. hdThreads' = [hdThreads EXCEPT ![t] = [@ EXCEPT ![i] = y]]
  BY DEF Becomes
<1>3. hdThreads'[t] = [<<x>> EXCEPT ![1] = y]
  BY <1>1, <1>2 DEF HdTypes
<1>4. [<<x>> EXCEPT ![1] = y] = <<y>>
  OBVIOUS
<1> QED
  BY <1>1, <1>3, <1>4

LEMMA HdLifeInvInit == HdLifeInit => HdLifeInv
<1> SUFFICES ASSUME HdLifeInit PROVE HdLifeInv
  OBVIOUS
<1>1. HdTypes
  <2>1. hdInit \in BOOLEAN /\ tidy \in BOOLEAN
    BY Zenon DEF HdLifeInit
  <2> QED
    BY <2>1 DEF HdLifeInit, HdTypes
<1>2. ~Stands
  BY DEF Stands, Building, HdLifeInit
<1> QED
  BY <1>1, <1>2 DEF HdLifeInit, HdLifeInv

LEMMA HdTypesNext == HdTypes /\ [HdLifeNext]_hdLifeVars => HdTypes'
<1> SUFFICES ASSUME HdTypes, [HdLifeNext]_hdLifeVars PROVE HdTypes'
  OBVIOUS
<1>0. /\ hdRunning \in [HdThreads -> Int] /\ DOMAIN hdThreads = HdThreads
      /\ hdThreads = [t \in HdThreads |-> hdThreads[t]]
      /\ live \subseteq Resources /\ hdInit \in BOOLEAN /\ tidy \in BOOLEAN
  BY DEF HdTypes
<1>1. CASE HdInitBegin \/ HdDeinit
  <2>1. UNCHANGED <<hdRunning, hdThreads, live>>
    BY <1>1 DEF HdInitBegin, HdDeinit
  <2>2. hdInit' \in BOOLEAN /\ tidy' \in BOOLEAN
    <3>1. CASE HdInitBegin
      <4>1. NoThreads \in BOOLEAN /\ tidy' = NoThreads /\ hdInit' = hdInit
        BY <3>1, Zenon DEF HdInitBegin, NoThreads
      <4> QED
        BY <1>0, <4>1, Zenon
    <3>2. CASE HdDeinit
      BY <1>0, <3>2, Zenon DEF HdDeinit, about
    <3> QED
      BY <1>1, <3>1, <3>2
  <2> QED
    BY <1>0, <2>1, <2>2 DEF HdTypes
<1>2. ASSUME NEW p \in HdParts, MakePart(p) PROVE HdTypes'
  <2>1. UNCHANGED <<hdRunning, hdThreads, tidy>>
    BY <1>2 DEF MakePart, about
  <2>2. live' \subseteq Resources
    BY <1>0, <1>2 DEF MakePart
  <2>3. hdInit' \in BOOLEAN
    <3> DEFINE over == hdInit \/ hdApp = {<<"make", p>>}
    <3>1. over \in BOOLEAN /\ (hdInit' = hdInit \/ hdInit' = over)
      BY <1>2, Zenon DEF MakePart, HdDone, HdFail
    <3> QED
      BY <1>0, <3>1, Zenon
  <2> QED
    BY <1>0, <2>1, <2>2, <2>3 DEF HdTypes
<1>3. ASSUME NEW t \in HdThreads, Create(t) PROVE HdTypes'
  <2>1. UNCHANGED <<live, tidy>> /\ hdRunning' = [hdRunning EXCEPT ![t] = 0]
    BY <1>3 DEF Create, about
  <2>2. hdThreads' = hdThreads \/ hdThreads' = [hdThreads EXCEPT ![t] = Append(@, Thread0("born", TRUE))]
    BY <1>3 DEF Create
  <2>3. hdInit' \in BOOLEAN
    <3> DEFINE over == hdInit \/ hdApp = {<<"create", t>>}
    <3>1. over \in BOOLEAN /\ (hdInit' = hdInit \/ hdInit' = over)
      BY <1>3, Zenon DEF Create, HdDone, HdFail
    <3> QED
      BY <1>0, <3>1, Zenon
  <2>4. DOMAIN hdThreads' = HdThreads /\ hdThreads' = [u \in HdThreads |-> hdThreads'[u]]
    BY <1>0, <2>2
  <2>5. hdRunning' \in [HdThreads -> Int] /\ live' \subseteq Resources /\ tidy' \in BOOLEAN
    BY <1>0, <2>1
  <2> QED
    BY <2>3, <2>4, <2>5 DEF HdTypes
<1>4. ASSUME NEW t \in HdThreads, Stop(t) \/ Wake(t) PROVE HdTypes'
  <2>1. UNCHANGED <<hdThreads, live, tidy, hdInit>> /\ (hdRunning' = hdRunning \/ hdRunning' = [hdRunning EXCEPT ![t] = 0])
    BY <1>4 DEF Stop, Wake, about
  <2> QED
    BY <1>0, <2>1 DEF HdTypes
<1>5. ASSUME NEW t \in HdThreads, NEW i \in DOMAIN hdThreads[t],
             \/ Begin(t, i) \/ Turn(t, i) \/ NoSamplesNeeded(t, i) \/ SamplesThere(t, i)
             \/ Awake(t, i) \/ Leaves(t, i) \/ Release(t, i)
      PROVE  HdTypes'
  <2>1. /\ UNCHANGED <<tidy, hdInit>>
        /\ hdRunning' = hdRunning \/ \E n \in {-1, 0, 1} : hdRunning' = [hdRunning EXCEPT ![t] = n]
        /\ live' = live \/ live' = live \ Releases(t)
    BY <1>5 DEF Begin, Turn, NoSamplesNeeded, SamplesThere, Awake, Leaves, Release, about
  <2>2. \/ hdThreads' = hdThreads
        \/ \E q : hdThreads' = [hdThreads EXCEPT ![t] = q]
    BY <1>5 DEF Begin, Turn, NoSamplesNeeded, SamplesThere, Awake, Leaves, Release, Becomes
  <2>3. hdRunning' \in [HdThreads -> Int]
    BY <1>0, <2>1
  <2>4. DOMAIN hdThreads' = HdThreads /\ hdThreads' = [u \in HdThreads |-> hdThreads'[u]]
    BY <1>0, <2>2
  <2>5. live' \subseteq Resources /\ hdInit' \in BOOLEAN /\ tidy' \in BOOLEAN
    BY <1>0, <2>1
  <2> QED
    BY <2>3, <2>4, <2>5 DEF HdTypes
<1>6. CASE HdOpen \/ HdTune \/ HdClose \/ UNCHANGED hdLifeVars
  <2>1. UNCHANGED <<hdRunning, hdThreads, live, hdInit, tidy>>
    BY <1>6 DEF HdOpen, HdTune, HdClose, Asks, hdLifeVars, about
  <2> QED
    BY <1>0, <2>1 DEF HdTypes
<1> QED
  BY <1>1, <1>2, <1>3, <1>4, <1>5, <1>6 DEF HdLifeNext, HdThreadStep, HdSamples

LEMMA HdLifeInvNext == HdLifeInv /\ [HdLifeNext]_hdLifeVars => HdLifeInv'
<1> SUFFICES ASSUME HdLifeInv, [HdLifeNext]_hdLifeVars PROVE HdLifeInv'
  OBVIOUS
<1>0. /\ HdTypes /\ (hdInit => hdApp = {})
      /\ hdApp \subseteq InitParts \/ hdApp \subseteq DeinitParts
      /\ HdTypes'
  BY HdTypesNext DEF HdLifeInv
<1>t. /\ hdRunning \in [HdThreads -> Int] /\ DOMAIN hdThreads = HdThreads
      /\ hdThreads = [t \in HdThreads |-> hdThreads[t]]
  BY <1>0 DEF HdTypes
<1>s. ASSUME Stands
      PROVE  (\A t \in HdThreads : ThreadStands(t)) /\ (\A p \in HdParts : PartStands(p))
  BY <1>s DEF HdLifeInv
<1>1. CASE HdInitBegin
  <2>1. /\ hdApp = {} /\ ~hdInit /\ hdInit' = hdInit /\ hdApp' = InitParts
        /\ tidy' = NoThreads /\ hdThreads' = hdThreads
    BY <1>1 DEF HdInitBegin
  <2>2. ASSUME tidy', NEW t \in HdThreads PROVE ThreadStands(t)'
    BY <2>1, <2>2, StepsApart DEF ThreadStands, NoThreads
  <2>3. ASSUME NEW p \in HdParts PROVE PartStands(p)'
    BY <2>1, StepsApart DEF PartStands
  <2> QED
    BY <1>0, <2>1, <2>2, <2>3 DEF HdLifeInv, Stands
<1>2. ASSUME NEW p \in HdParts, MakePart(p) PROVE HdLifeInv'
  <2>1. <<"make", p>> \in hdApp /\ hdApp \subseteq InitParts /\ ~hdInit
    BY <1>0, <1>2, StepsApart DEF MakePart, IsNext
  <2>2. UNCHANGED <<hdRunning, hdThreads, tidy>>
    BY <1>2 DEF MakePart, about
  <2>3. CASE HdDone(<<"make", p>>) /\ live' = live \cup (Makes(p) \cap Resources)
    <3>1. hdApp' = hdApp \ {<<"make", p>>} /\ (hdInit' => hdApp' = {})
      BY <2>1, <2>3 DEF HdDone
    <3>2. Stands' => Stands
      BY <2>1, <2>2 DEF Stands, Building
    <3>3. ASSUME Stands, NEW t \in HdThreads PROVE ThreadStands(t)'
      <4>1. <<"create", t>> \in hdApp' <=> <<"create", t>> \in hdApp
        BY <3>1
      <4>2. AtItsPlace(t)' <=> AtItsPlace(t)
        BY <2>2 DEF AtItsPlace
      <4> QED
        BY <1>s, <2>2, <3>3, <4>1, <4>2 DEF ThreadStands
    <3>4. ASSUME Stands, NEW u \in HdParts PROVE PartStands(u)'
      <4>1. CASE u = p
        BY <2>3, <4>1 DEF PartStands
      <4>2. CASE u # p
        BY <1>s, <2>3, <3>1, <3>4, <4>2 DEF PartStands
      <4> QED
        BY <4>1, <4>2
    <3> QED
      BY <1>0, <2>1, <3>1, <3>2, <3>3, <3>4 DEF HdLifeInv
  <2>4. CASE HdFail
    <3>1. hdApp' = {} /\ ~hdInit'
      BY <2>1, <2>4 DEF HdFail
    <3> QED
      BY <1>0, <3>1 DEF HdLifeInv, Stands, Building
  <2> QED
    BY <1>2, <2>3, <2>4 DEF MakePart
<1>3. ASSUME NEW t \in HdThreads, Create(t) PROVE HdLifeInv'
  <2>1. <<"create", t>> \in hdApp /\ hdApp \subseteq InitParts /\ ~hdInit
    BY <1>0, <1>3, StepsApart DEF Create, IsNext
  <2>2. UNCHANGED <<live, tidy>> /\ hdRunning' = [hdRunning EXCEPT ![t] = 0]
    BY <1>3 DEF Create, about
  <2>3. CASE HdDone(<<"create", t>>) /\ hdThreads' = [hdThreads EXCEPT ![t] = Append(@, Thread0("born", TRUE))]
    <3>1. hdApp' = hdApp \ {<<"create", t>>} /\ (hdInit' => hdApp' = {})
      BY <2>1, <2>3 DEF HdDone
    <3>2. Stands' => Stands
      BY <2>1, <2>2 DEF Stands, Building
    <3>3. ASSUME Stands, NEW u \in HdThreads PROVE ThreadStands(u)'
      <4>1. CASE u = t
        <5>1. hdThreads[t] = <<>>
          BY <1>s, <2>1, <3>3 DEF ThreadStands
        <5>2. hdThreads'[t] = <<Thread0("born", TRUE)>>
          <6>1. hdThreads'[t] = Append(<<>>, Thread0("born", TRUE))
            BY <1>t, <2>3, <5>1
          <6> QED
            BY <6>1
        <5>3. AtItsPlace(t)'
          BY <5>2 DEF AtItsPlace
        <5> QED
          BY <3>1, <4>1, <5>3 DEF ThreadStands
      <4>2. CASE u # t
        <5>1. hdThreads'[u] = hdThreads[u] /\ hdRunning'[u] = hdRunning[u]
          BY <1>t, <2>2, <2>3, <4>2
        <5>2. AtItsPlace(u)' <=> AtItsPlace(u)
          BY <5>1 DEF AtItsPlace
        <5> QED
          BY <1>s, <3>1, <3>3, <4>2, <5>1, <5>2 DEF ThreadStands
      <4> QED
        BY <4>1, <4>2
    <3>4. ASSUME Stands, NEW p \in HdParts PROVE PartStands(p)'
      BY <1>s, <2>2, <3>1, <3>4 DEF PartStands
    <3> QED
      BY <1>0, <2>1, <3>1, <3>2, <3>3, <3>4 DEF HdLifeInv
  <2>4. CASE HdFail
    <3>1. hdApp' = {} /\ ~hdInit'
      BY <2>1, <2>4 DEF HdFail
    <3> QED
      BY <1>0, <3>1 DEF HdLifeInv, Stands, Building
  <2> QED
    BY <1>3, <2>3, <2>4 DEF Create
<1>4. CASE HdDeinit
  <2>1. ~hdInit' /\ hdApp' = DeinitParts
    BY <1>4 DEF HdDeinit
  <2>2. ~Building'
    BY <2>1, StepsApart DEF Building
  <2> QED
    BY <1>0, <2>1, <2>2 DEF HdLifeInv, Stands
<1>5. ASSUME NEW t \in HdThreads, Stop(t) \/ Wake(t) PROVE HdLifeInv'
  <2>1. hdApp \subseteq DeinitParts /\ ~hdInit
    BY <1>0, <1>5, StepsApart DEF Stop, Wake, IsNext
  <2>2. hdInit' = hdInit /\ hdApp' \subseteq hdApp
    BY <1>5 DEF Stop, Wake
  <2>3. ~Building'
    BY <2>1, <2>2, StepsApart DEF Building
  <2> QED
    BY <1>0, <2>1, <2>2, <2>3 DEF HdLifeInv, Stands
<1>6. ASSUME NEW t \in HdThreads, NEW i \in DOMAIN hdThreads[t],
             \/ Begin(t, i) \/ Turn(t, i) \/ NoSamplesNeeded(t, i) \/ SamplesThere(t, i)
             \/ Awake(t, i) \/ Leaves(t, i) \/ Release(t, i)
      PROVE  HdLifeInv'
  <2>1. UNCHANGED <<tidy, hdInit, hdApp>>
    BY <1>6 DEF Begin, Turn, NoSamplesNeeded, SamplesThere, Awake, Leaves, Release, about
  <2>2. Stands' <=> Stands
    BY <2>1 DEF Stands, Building
  <2>3. ASSUME Stands, NEW u \in HdThreads, u # t PROVE ThreadStands(u)'
    <3>1. /\ hdRunning' = hdRunning \/ \E n \in {-1, 0, 1} : hdRunning' = [hdRunning EXCEPT ![t] = n]
          /\ hdThreads' = hdThreads \/ \E q : hdThreads' = [hdThreads EXCEPT ![t] = q]
      BY <1>6 DEF Begin, Turn, NoSamplesNeeded, SamplesThere, Awake, Leaves, Release, Becomes
    <3>2. hdThreads'[u] = hdThreads[u] /\ hdRunning'[u] = hdRunning[u]
      BY <1>t, <2>3, <3>1
    <3>3. AtItsPlace(u)' <=> AtItsPlace(u)
      BY <3>2 DEF AtItsPlace
    <3> QED
      BY <1>s, <2>1, <2>3, <3>2, <3>3 DEF ThreadStands
  <2>4. ASSUME Stands PROVE <<"create", t>> \notin hdApp
    BY <1>s, <2>4 DEF ThreadStands
  <2>5. ASSUME Stands, t \notin Consoles
        PROVE  AtItsPlace(t)' /\ ~Release(t, i)
    <3>1. AtItsPlace(t)
      BY <1>s, <2>4, <2>5 DEF ThreadStands
    <3>2. PICK place \in {"born", "loop", "wait", "samples"}, mine \in BOOLEAN :
            /\ hdThreads[t] = <<Thread0(place, mine)>>
            /\ place # "born" => hdRunning[t] = 1
      BY <3>1 DEF AtItsPlace
    <3>3. i = 1 /\ hdThreads[t][i] = Thread0(place, mine)
      BY <3>2
    <3>4. hdThreads[t][i].pc = place
      BY <3>3 DEF Thread0
    <3>5. ~Release(t, i) /\ ~Leaves(t, i)
      BY <3>2, <3>4 DEF Release, Leaves
    <3>6. CASE Begin(t, i)
      <4>1. hdRunning' = [hdRunning EXCEPT ![t] = 1]
        BY <2>5, <3>6 DEF Begin
      <4>2. PICK m \in {TRUE, NumberStands(t)} : Becomes(t, i, Thread0("loop", m))
        BY <3>6 DEF Begin
      <4>3. hdThreads'[t] = <<Thread0("loop", m)>>
        BY <1>0, <3>2, <4>2, Becoming
      <4>4. m \in BOOLEAN
        BY Zenon DEF NumberStands
      <4> QED
        BY <1>t, <3>5, <4>1, <4>3, <4>4 DEF AtItsPlace
    <3>7. CASE Turn(t, i)
      <4>1. hdRunning' = hdRunning /\ place = "loop"
        BY <3>4, <3>7 DEF Turn
      <4>2. Becomes(t, i, [hdThreads[t][i] EXCEPT !.pc = WaitsAt(t)])
        BY <3>7 DEF Turn
      <4>3. [hdThreads[t][i] EXCEPT !.pc = WaitsAt(t)] = Thread0(WaitsAt(t), mine)
        BY <3>3 DEF Thread0
      <4>4. hdThreads'[t] = <<Thread0(WaitsAt(t), mine)>>
        BY <1>0, <3>2, <4>2, <4>3, Becoming
      <4>5. WaitsAt(t) \in {"loop", "wait", "samples"}
        BY DEF WaitsAt
      <4> QED
        BY <3>2, <3>5, <4>1, <4>4, <4>5 DEF AtItsPlace
    <3>8. CASE Awake(t, i) \/ NoSamplesNeeded(t, i) \/ SamplesThere(t, i)
      <4>1. hdRunning' = hdRunning /\ place \in {"wait", "samples"}
        BY <3>4, <3>8 DEF Awake, NoSamplesNeeded, SamplesThere
      <4>2. Becomes(t, i, [hdThreads[t][i] EXCEPT !.pc = "loop"])
        BY <3>2, <3>8, <4>1 DEF Awake, NoSamplesNeeded, SamplesThere
      <4>3. [hdThreads[t][i] EXCEPT !.pc = "loop"] = Thread0("loop", mine)
        BY <3>3 DEF Thread0
      <4>4. hdThreads'[t] = <<Thread0("loop", mine)>>
        BY <1>0, <3>2, <4>2, <4>3, Becoming
      <4> QED
        BY <3>2, <3>5, <4>1, <4>4 DEF AtItsPlace
    <3> QED
      BY <1>6, <3>5, <3>6, <3>7, <3>8
  <2>6. ASSUME Stands PROVE live' = live
    <3>1. CASE Release(t, i)
      <4>1. t \in Consoles
        BY <2>5, <2>6, <3>1
      <4>2. Releases(t) = {}
        BY <4>1 DEF Releases, Consoles
      <4> QED
        BY <3>1, <4>2 DEF Release
    <3>2. CASE ~Release(t, i)
      BY <1>6, <3>2 DEF Begin, Turn, NoSamplesNeeded, SamplesThere, Awake, Leaves
    <3> QED
      BY <3>1, <3>2
  <2>7. ASSUME Stands PROVE ThreadStands(t)'
    BY <2>1, <2>4, <2>5, <2>7 DEF ThreadStands
  <2>8. ASSUME Stands, NEW p \in HdParts PROVE PartStands(p)'
    BY <1>s, <2>1, <2>6, <2>8 DEF PartStands
  <2>9. ASSUME Stands, NEW u \in HdThreads PROVE ThreadStands(u)'
    BY <2>3, <2>7, <2>9
  <2> QED
    BY <1>0, <2>1, <2>2, <2>8, <2>9 DEF HdLifeInv
<1>7. CASE HdOpen \/ HdTune \/ HdClose \/ UNCHANGED hdLifeVars
  <2>1. UNCHANGED <<hdApp, hdInit, hdRunning, hdThreads, live, tidy>>
    BY <1>7 DEF HdOpen, HdTune, HdClose, Asks, hdLifeVars, about
  <2>2. Stands' <=> Stands
    BY <2>1 DEF Stands, Building
  <2>3. ASSUME NEW u \in HdThreads PROVE ThreadStands(u)' <=> ThreadStands(u)
    BY <2>1 DEF ThreadStands, AtItsPlace
  <2>4. ASSUME NEW p \in HdParts PROVE PartStands(p)' <=> PartStands(p)
    BY <2>1 DEF PartStands
  <2> QED
    BY <1>0, <1>s, <2>1, <2>2, <2>3, <2>4 DEF HdLifeInv
<1> QED
  BY <1>1, <1>2, <1>3, <1>4, <1>5, <1>6, <1>7 DEF HdLifeNext, HdThreadStep, HdSamples

LEMMA StandsWhole == HdLifeInv => HdWhole
<1> SUFFICES ASSUME HdLifeInv, tidy, hdInit
             PROVE  /\ live = Resources
                    /\ \A t \in HdThreads \ Consoles :
                         /\ Len(hdThreads[t]) = 1
                         /\ hdThreads[t][1].pc \in {"born", "loop", "wait", "samples"}
  BY DEF HdWhole
<1>1. hdApp = {} /\ Stands /\ live \subseteq Resources
  BY DEF HdLifeInv, Stands, HdTypes
<1>2. \A p \in HdParts : Makes(p) \cap Resources \subseteq live
  BY <1>1 DEF HdLifeInv, PartStands
<1>3. live = Resources
  BY <1>1, <1>2, AllMade
<1>4. ASSUME NEW t \in HdThreads \ Consoles
      PROVE  Len(hdThreads[t]) = 1 /\ hdThreads[t][1].pc \in {"born", "loop", "wait", "samples"}
  <2>1. AtItsPlace(t)
    BY <1>1 DEF HdLifeInv, ThreadStands
  <2>2. PICK place \in {"born", "loop", "wait", "samples"}, mine \in BOOLEAN : hdThreads[t] = <<Thread0(place, mine)>>
    BY <2>1 DEF AtItsPlace
  <2>3. Len(hdThreads[t]) = 1 /\ hdThreads[t][1] = Thread0(place, mine)
    BY <2>2
  <2> QED
    BY <2>3 DEF Thread0
<1> QED
  BY <1>3, <1>4

(* Whatever threads the instance has, in any order of initialisations,     *)
(* failures, deinits and steps of the threads: what a tidy initialisation  *)
(* built, and said OK to, is all there until a deinit. *)
THEOREM HdLifeWhole == HdLifeSpec => []HdWhole
<1>1. HdLifeInv /\ [HdLifeNext]_hdLifeVars => HdLifeInv'
  BY HdLifeInvNext
<1> QED
  BY <1>1, HdLifeInvInit, StandsWhole, PTL DEF HdLifeSpec
=============================================================================
