------------------------------ MODULE CircBuff ------------------------------
(***************************************************************************)
(* The circular buffer of the HD radio framework, stCIRC_BUFF_t of         *)
(* hd/src/support/tchdr_cbuffer.c, as operators on its record: one         *)
(* operator per critical section, one per check made before the lock.  The *)
(* write and read indices run from 0 to SIZE, both ends included: an index *)
(* that reaches SIZE stays there until the next transfer.  elemCount is an *)
(* unsigned word, so it wraps modulo WORD.                                 *)
(***************************************************************************)
EXTENDS Integers, Sequences

CONSTANTS SIZE,        \* cb->size, in elements
          WORD,        \* number of values of a U32
          Elements,    \* what the cells hold
          Zero         \* the element a fill writes

ASSUME CircBuffAssumption == /\ SIZE \in Nat \ {0}
                             /\ WORD \in Nat
                             /\ WORD > 2 * SIZE
                             /\ Zero \in Elements

Cells   == 0 .. SIZE - 1
Indices == 0 .. SIZE
Words   == 0 .. WORD - 1

Buffer == [wp : Indices, rp : Indices, elemCount : 0 .. SIZE, data : [Cells -> Elements]]

(* The read index is elemCount elements behind the write index. *)
Consistent(b) == b.wp - b.rp - b.elemCount \in {0, -SIZE}

Word(x) == IF x < 0 THEN x + WORD ELSE IF x >= WORD THEN x - WORD ELSE x

Buff(wp, rp, n, data) == [wp |-> wp, rp |-> rp, elemCount |-> n, data |-> data]

(* CB_init: empty; the memory holds what it held. *)
Fresh(data) == Buff(0, 0, 0, data)

(* CB_reset: only the indices and the count. *)
Emptied(cb) == Buff(0, 0, 0, cb.data)

(* A wrong variant: a copy that does not wrap.                             *)
CopiedFlat(data, pos, vals) ==
  [c \in Cells |-> IF c >= pos /\ c - pos < Len(vals) THEN vals[c - pos + 1] ELSE data[c]]

(* CB_availSpace. *)
AvailSpace(cb) == Word(SIZE - cb.elemCount)

(* The index after a transfer of n elements from pos. *)
Moved(pos, n) == IF n > SIZE - pos THEN n - (SIZE - pos) ELSE pos + n

(* The k-th cell of a transfer that starts at pos, from 0. *)
Cell(pos, k) == IF k < SIZE - pos THEN pos + k ELSE k - (SIZE - pos)

(* Which element of the transfer a cell gets, from 0. *)
Distance(pos, c) == IF c >= pos THEN c - pos ELSE c + (SIZE - pos)

(* One or two memory copies: up to the end, then from the beginning. *)
Copied(data, pos, vals) ==
  [c \in Cells |-> IF Distance(pos, c) < Len(vals) THEN vals[Distance(pos, c) + 1]
                                                   ELSE data[c]]

(* The critical section of CB_write, and of CB_fill for a constant vals. *)
Put(cb, vals) == Buff(Moved(cb.wp, Len(vals)), cb.rp, Word(cb.elemCount + Len(vals)),
                      Copied(cb.data, cb.wp, vals))

(* The critical section of CB_read: what is left, and what is returned. *)
Taken(cb, n) == Buff(cb.wp, Moved(cb.rp, n), Word(cb.elemCount - n), cb.data)
Read(cb, n)  == [k \in 1 .. n |-> cb.data[Cell(cb.rp, k - 1)]]

(* The critical section of CB_moveReadIndex; n < 0 takes elements back. *)
Back(rp, n) == IF rp + n > SIZE THEN n - (SIZE - rp)
               ELSE IF rp + n < 0 THEN SIZE + (rp + n) ELSE rp + n
Skipped(cb, n) == Buff(cb.wp, Back(cb.rp, n), cb.elemCount - n, cb.data)

Filled(v, n) == [k \in 1 .. n |-> v]
=============================================================================
