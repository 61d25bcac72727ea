--------------------------- MODULE CircBuffProofs ---------------------------
(***************************************************************************)
(* What the critical sections of a circular buffer do to its indices, for  *)
(* every size: the lemmas the proofs about its users rest on.              *)
(***************************************************************************)
EXTENDS CircBuff, TLAPS

(* What every critical section preserves. *)
Good(b) == b \in Buffer /\ Consistent(b)

LEMMA FieldsOf ==
  ASSUME NEW b \in Buffer
  PROVE  /\ b.wp \in Indices /\ b.rp \in Indices
         /\ b.elemCount \in 0 .. SIZE /\ b.data \in [Cells -> Elements]
  BY DEF Buffer

LEMMA BuffGood ==
  ASSUME NEW wp \in Indices, NEW rp \in Indices, NEW n \in 0 .. SIZE,
         NEW data \in [Cells -> Elements], wp - rp - n = 0 \/ wp - rp - n = -SIZE
  PROVE  Good(Buff(wp, rp, n, data))
  BY DEF Good, Consistent, Buffer, Buff

(* An index stays in the buffer and goes round at most once. *)
LEMMA MovedIndex ==
  ASSUME NEW pos \in Indices, NEW n \in 0 .. SIZE
  PROVE  /\ Moved(pos, n) \in Indices
         /\ Moved(pos, n) = IF pos + n > SIZE THEN pos + n - SIZE ELSE pos + n
  BY CircBuffAssumption DEF Moved, Indices

(* The indices agree after a transfer on either side. *)
LEMMA MovedAgrees ==
  ASSUME NEW wp \in Indices, NEW rp \in Indices, NEW count \in 0 .. SIZE, NEW n \in 0 .. SIZE,
         wp - rp - count = 0 \/ wp - rp - count = -SIZE
  PROVE  /\ count + n <= SIZE => \/ Moved(wp, n) - rp - (count + n) = 0
                                 \/ Moved(wp, n) - rp - (count + n) = -SIZE
         /\ n <= count => \/ wp - Moved(rp, n) - (count - n) = 0
                          \/ wp - Moved(rp, n) - (count - n) = -SIZE
  BY CircBuffAssumption DEF Moved, Indices

LEMMA CellInside ==
  ASSUME NEW pos \in Indices, NEW k \in Cells
  PROVE  Cell(pos, k) \in Cells /\ Distance(pos, Cell(pos, k)) = k
  BY CircBuffAssumption DEF Cell, Distance, Indices, Cells

(* The cells counted from an index after a transfer are the cells counted  *)
(* from the index before it, n further on.                                 *)
LEMMA CellAfterMove ==
  ASSUME NEW pos \in Indices, NEW n \in 0 .. SIZE, NEW k \in Cells
  PROVE  Cell(Moved(pos, n), k) = IF k + n < SIZE THEN Cell(pos, k + n)
                                                  ELSE Cell(pos, k + n - SIZE)
  BY CircBuffAssumption DEF Cell, Moved, Indices, Cells

LEMMA CopiedType ==
  ASSUME NEW data \in [Cells -> Elements], NEW pos \in Indices,
         NEW n \in 0 .. SIZE, NEW vals \in [1 .. n -> Elements]
  PROVE  Copied(data, pos, vals) \in [Cells -> Elements]
<1>1. Len(vals) = n
  OBVIOUS
<1>2. \A c \in Cells : Distance(pos, c) >= 0 /\ Distance(pos, c) \in Int
  BY CircBuffAssumption DEF Distance, Cells, Indices
<1>3. \A c \in Cells : Distance(pos, c) < n => vals[Distance(pos, c) + 1] \in Elements
  BY <1>2
<1> QED
  BY <1>1, <1>3 DEF Copied

-----------------------------------------------------------------------------

(* A write or a fill: n elements more, the write index n further on. *)
LEMMA PutStep ==
  ASSUME NEW b, Good(b), NEW n \in 0 .. SIZE,
         NEW vals \in [1 .. n -> Elements], b.elemCount + n <= SIZE
  PROVE  /\ Good(Put(b, vals))
         /\ Put(b, vals) = Buff(Moved(b.wp, n), b.rp, b.elemCount + n,
                                Copied(b.data, b.wp, vals))
<1>1. /\ b.wp \in Indices /\ b.rp \in Indices
      /\ b.elemCount \in 0 .. SIZE /\ b.data \in [Cells -> Elements]
  BY FieldsOf DEF Good
<1>2. Len(vals) = n
  OBVIOUS
<1>3. Word(b.elemCount + n) = b.elemCount + n
  BY <1>1, CircBuffAssumption DEF Word
<1>4. Put(b, vals) = Buff(Moved(b.wp, n), b.rp, b.elemCount + n,
                          Copied(b.data, b.wp, vals))
  BY <1>2, <1>3 DEF Put
<1>5. /\ Moved(b.wp, n) \in Indices
      /\ b.elemCount + n \in 0 .. SIZE
  <2>1. Moved(b.wp, n) \in Indices
    BY <1>1, MovedIndex
  <2>2. b.elemCount + n \in 0 .. SIZE
    BY <1>1
  <2> QED
    BY <2>1, <2>2
<1>6. b.wp - b.rp - b.elemCount = 0 \/ b.wp - b.rp - b.elemCount = -SIZE
  BY DEF Good, Consistent
<1>7. \/ Moved(b.wp, n) - b.rp - (b.elemCount + n) = 0
      \/ Moved(b.wp, n) - b.rp - (b.elemCount + n) = -SIZE
  BY <1>1, <1>6, MovedAgrees
<1>8. Good(Buff(Moved(b.wp, n), b.rp, b.elemCount + n, Copied(b.data, b.wp, vals)))
  BY <1>1, <1>5, <1>7, CopiedType, BuffGood
<1> QED
  BY <1>4, <1>8

(* A read: n elements fewer, the read index n further on. *)
LEMMA TakenStep ==
  ASSUME NEW b, Good(b), NEW n \in 0 .. SIZE, n <= b.elemCount
  PROVE  /\ Good(Taken(b, n))
         /\ Taken(b, n) = Buff(b.wp, Moved(b.rp, n), b.elemCount - n, b.data)
<1>1. /\ b.wp \in Indices /\ b.rp \in Indices
      /\ b.elemCount \in 0 .. SIZE /\ b.data \in [Cells -> Elements]
  BY FieldsOf DEF Good
<1>2. Word(b.elemCount - n) = b.elemCount - n /\ b.elemCount - n \in 0 .. SIZE
  BY <1>1, CircBuffAssumption DEF Word
<1>3. Moved(b.rp, n) \in Indices
  BY <1>1, MovedIndex
<1>4. b.wp - b.rp - b.elemCount = 0 \/ b.wp - b.rp - b.elemCount = -SIZE
  BY DEF Good, Consistent
<1>5. \/ b.wp - Moved(b.rp, n) - (b.elemCount - n) = 0
      \/ b.wp - Moved(b.rp, n) - (b.elemCount - n) = -SIZE
  BY <1>1, <1>4, MovedAgrees
<1>6. Good(Buff(b.wp, Moved(b.rp, n), b.elemCount - n, b.data))
  BY <1>1, <1>2, <1>3, <1>5, BuffGood
<1> QED
  BY <1>2, <1>6 DEF Taken

(* A move of the read index, forwards or back. *)
LEMMA SkippedStep ==
  ASSUME NEW b, Good(b), NEW n \in -SIZE .. SIZE, n <= b.elemCount,
         b.elemCount - n <= SIZE
  PROVE  Good(Skipped(b, n))
<1>1. /\ b.wp \in Indices /\ b.rp \in Indices
      /\ b.elemCount \in 0 .. SIZE /\ b.data \in [Cells -> Elements]
  BY FieldsOf DEF Good
<1>2. b.wp - b.rp - b.elemCount = 0 \/ b.wp - b.rp - b.elemCount = -SIZE
  BY DEF Good, Consistent
<1>3. Back(b.rp, n) \in Indices /\ b.elemCount - n \in 0 .. SIZE
  BY <1>1, CircBuffAssumption DEF Back, Indices
<1>4. \/ b.wp - Back(b.rp, n) - (b.elemCount - n) = 0
      \/ b.wp - Back(b.rp, n) - (b.elemCount - n) = -SIZE
  BY <1>1, <1>2, CircBuffAssumption DEF Back, Indices
<1> QED
  BY <1>1, <1>3, <1>4, BuffGood DEF Skipped

LEMMA FreshGood ==
  ASSUME NEW data \in [Cells -> Elements]
  PROVE  Good(Buff(0, 0, 0, data))
  BY BuffGood, CircBuffAssumption DEF Indices

LEMMA FilledType ==
  ASSUME NEW n \in 0 .. SIZE
  PROVE  Filled(Zero, n) \in [1 .. n -> Elements] /\ Len(Filled(Zero, n)) = n
  BY CircBuffAssumption DEF Filled

LEMMA FieldsOfBuff ==
  ASSUME NEW wp, NEW rp, NEW n, NEW data
  PROVE  /\ Buff(wp, rp, n, data).wp = wp /\ Buff(wp, rp, n, data).rp = rp
         /\ Buff(wp, rp, n, data).elemCount = n /\ Buff(wp, rp, n, data).data = data
  BY DEF Buff
=============================================================================
