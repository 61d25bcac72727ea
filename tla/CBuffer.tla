------------------------------ MODULE CBuffer -------------------------------
(***************************************************************************)
(* The operations of hd/src/support/tchdr_cbuffer.c, one call at a time:   *)
(* every call runs its check and its critical section with no other call   *)
(* in between.  A refused call changes nothing.  (Calls of several threads *)
(* on one buffer are in AudioOutput and AnalogAudio.)                      *)
(***************************************************************************)
EXTENDS CircBuff

VARIABLES cb,          \* the buffer
          passed       \* the elements the last call copied in or out

vars == <<cb, passed>>

TypeOK == cb \in Buffer /\ passed \in UNION {[1 .. n -> Elements] : n \in Indices}

Init == (\E data \in [Cells -> Elements] : cb = Fresh(data)) /\ passed = <<>>

Fits(n)    == AvailSpace(cb) >= n
CanMove(n) == n <= cb.elemCount /\ cb.elemCount - n <= SIZE

CB_write(vals) == /\ Fits(Len(vals))
                  /\ cb' = Put(cb, vals)
                  /\ passed' = vals

CB_fill(n) == /\ Fits(n)
              /\ cb' = Put(cb, Filled(Zero, n))
              /\ passed' = Filled(Zero, n)

CB_reset == cb' = Emptied(cb) /\ UNCHANGED passed

CB_reset_and_fill(n) == /\ SIZE >= n
                        /\ cb' = Put(Emptied(cb), Filled(Zero, n))
                        /\ UNCHANGED passed

CB_read(n) == /\ cb.elemCount >= n
              /\ cb' = Taken(cb, n)
              /\ passed' = Read(cb, n)

CB_moveReadIndex(n) == /\ CanMove(n)
                       /\ cb' = Skipped(cb, n)
                       /\ UNCHANGED passed

CB_flush == /\ cb' = Buff(cb.wp, cb.rp, cb.elemCount, [c \in Cells |-> Zero])
            /\ UNCHANGED passed

Next == \/ \E n \in 1 .. SIZE : \E vals \in [1 .. n -> Elements] : CB_write(vals)
        \/ \E n \in 1 .. SIZE : CB_fill(n) \/ CB_reset_and_fill(n) \/ CB_read(n)
        \/ \E n \in -SIZE .. SIZE : CB_moveReadIndex(n)
        \/ CB_reset
        \/ CB_flush

Spec == Init /\ [][Next]_vars

-----------------------------------------------------------------------------

(* The read index is elemCount elements behind the write index, however    *)
(* often both went round and whichever of them stopped at the end.         *)
IndicesAgree == Consistent(cb)

(* The elements from the write index on, the oldest of the stream first. *)
WindowOf(b) == [k \in 1 .. SIZE |-> b.data[Cell(b.wp, k - 1)]]

Stream == INSTANCE StreamWindow WITH window <- WindowOf(cb), unread <- cb.elemCount

(* Whatever is written, filled, reset, read, skipped and taken back, a     *)
(* read returns the oldest unread elements of the stream and nothing else. *)
ImplementsStream == Stream!Spec
=============================================================================
