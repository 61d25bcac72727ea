------------------------------ MODULE HalRing -------------------------------
(***************************************************************************)
(* The byte ring of hal/src/util/tcradio_hal_rbuf.c as the audio fifo of   *)
(* hal/src/fifo/tcradio_hal_fifo.c uses it: every operation runs under the *)
(* mutex of the fifo, so a call is a step.  Both indices run from 0 to     *)
(* RING_SIZE, the end included, and equal indices mean empty or full: the  *)
(* state tells which.  No caller passes a size of 0.                       *)
(***************************************************************************)
EXTENDS Integers, Sequences

CONSTANTS RING_SIZE,   \* AUDIO_FIFO_BUFFER_SIZE
          Bytes

ASSUME HalRingAssumption == RING_SIZE \in Nat \ {0} /\ Bytes # {}

VARIABLES ring,        \* stBUFFER_RING_t and the memory it points to
          got,         \* the bytes the last pop gave
          answer       \* what the last call returned

ringVars == <<ring, got, answer>>

EMPTY  == "eBUFFER_EMPTY"
FULL   == "eBUFFER_FULL"
NORMAL == "eBUFFER_NORMAL"

Offsets == 0 .. RING_SIZE - 1

(* ringbuffer_init; the memory holds what it held. *)
Cleared(data) == [wp |-> 0, rp |-> 0, state |-> EMPTY, data |-> data]

RingInit == /\ \E data \in [Offsets -> Bytes] : ring = Cleared(data)
            /\ got = <<>> /\ answer = 0

(* Wrong variant: a pop that never finds the ring empty. *)
NeverEmpty(rp, wp) == NORMAL

(* ringbuffer_getBlankSize: the bytes to be read, despite its name. *)
Held == IF ring.state = EMPTY THEN 0
        ELSE IF ring.rp < ring.wp THEN ring.wp - ring.rp
        ELSE RING_SIZE - ring.rp + ring.wp

(* The index after n bytes; it stays at the end until the next transfer. *)
After(pos, n) == IF n <= RING_SIZE - pos THEN pos + n ELSE n - (RING_SIZE - pos)

(* The cell k bytes after pos. *)
CellAt(pos, k) == (pos + k) % RING_SIZE

HasRoom(n) ==
  /\ ring.state # FULL
  /\ n <= RING_SIZE
  /\ IF ring.rp > ring.wp THEN ring.rp - ring.wp >= n
                          ELSE RING_SIZE - ring.wp + ring.rp > n \/ ring.state = EMPTY

StateAfterPush(wp) == IF ring.rp = wp THEN FULL ELSE NORMAL
StateAfterPop(rp, wp) == IF rp = wp THEN EMPTY ELSE NORMAL

(* A push that wraps returns what it stored after the wrap only. *)
Stored(n) == IF ring.rp > ring.wp \/ n <= RING_SIZE - ring.wp THEN n ELSE n - (RING_SIZE - ring.wp)

Push(vals) ==
  /\ HasRoom(Len(vals))
  /\ LET n == Len(vals)
         Written == {CellAt(ring.wp, k - 1) : k \in 1 .. n}
     IN ring' = [wp |-> After(ring.wp, n), rp |-> ring.rp,
                 state |-> StateAfterPush(After(ring.wp, n)),
                 data |-> [c \in Offsets |-> IF c \in Written
                             THEN vals[CHOOSE k \in 1 .. n : CellAt(ring.wp, k - 1) = c]
                             ELSE ring.data[c]]]
  /\ answer' = Stored(Len(vals))
  /\ UNCHANGED got

Refuse(n) == ~HasRoom(n) /\ answer' = 0 /\ UNCHANGED <<ring, got>>

Take(n) ==
  /\ got' = [k \in 1 .. n |-> ring.data[CellAt(ring.rp, k - 1)]]
  /\ ring' = [ring EXCEPT !.rp = After(@, n), !.state = StateAfterPop(After(ring.rp, n), ring.wp)]
  /\ answer' = n

NothingTaken == got' = <<>> /\ answer' = 0 /\ UNCHANGED ring

(* ringbuffer_getDataEx: as many as there are, up to n. *)
Pop(n) == IF Held = 0 THEN NothingTaken ELSE Take(IF n <= Held THEN n ELSE Held)

(* ringbuffer_getData: n bytes or nothing. *)
GetData(n) == IF n <= Held THEN Take(n) ELSE NothingTaken

Reset == ring' = Cleared(ring.data) /\ UNCHANGED <<got, answer>>

RingNext == \/ \E n \in 1 .. RING_SIZE + 1 : \E vals \in [1 .. n -> Bytes] : Push(vals)
            \/ \E n \in 1 .. RING_SIZE + 1 : Refuse(n) \/ Pop(n) \/ GetData(n)
            \/ Reset

RingSpec == RingInit /\ [][RingNext]_ringVars

-----------------------------------------------------------------------------
Unread == [k \in 1 .. Held |-> ring.data[CellAt(ring.rp, k - 1)]]

Queue == INSTANCE ByteQueue WITH bytes <- Unread

(* Whatever is pushed and popped, across both ends of the memory and with  *)
(* equal indices meaning either of two things, the bytes come out in order *)
(* and once, and 0 is answered exactly when nothing was stored.            *)
ImplementsByteQueue == Queue!Spec
=============================================================================
