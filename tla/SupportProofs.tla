--------------------------- MODULE SupportProofs ----------------------------
(***************************************************************************)
(* The arithmetic, the two buffers and the text of RDS, for every width,   *)
(* every size, every type of element and every set of contents.            *)
(***************************************************************************)
EXTENDS MCSupport, CircBuffProofs, SequenceTheorems

(* Sums and differences never wrap around, for every width. *)
THEOREM SumsNeverWrap ==
  ASSUME NEW a \in Signed, NEW b \in Signed, NEW c \in Unsigned, NEW d \in Unsigned
  PROVE  SumsSaturate(a, b, c, d)
<1> USE WidthAssumption DEF Signed, Unsigned, S_MIN, U_MAX, WrapS, WrapU, Clamp
<1>1. sadd(a, b) = Clamp(a + b, S_MIN, S_MAX)
  BY DEF sadd
<1>2. ssub(a, b) = Clamp(a - b, S_MIN, S_MAX)
  BY DEF ssub
<1>3. uadd(c, d) = Clamp(c + d, 0, U_MAX)
  BY DEF uadd
<1>4. ulongadd(c, d) = Clamp(c + d, 0, U_MAX)
  BY DEF ulongadd
<1>5. usub(c, d) = Clamp(c - d, 0, U_MAX)
  BY DEF usub
<1> QED
  BY <1>1, <1>2, <1>3, <1>4, <1>5 DEF SumsSaturate

(* An unsigned division decides an overflow of the product exactly. *)
LEMMA DivisionDecides ==
  ASSUME NEW c \in Unsigned, NEW d \in Unsigned, d # 0
  PROVE  U_MAX \div d >= c <=> c * d <= U_MAX
<1> DEFINE q == U_MAX \div d
           r == U_MAX % d
<1> USE WidthAssumption DEF Unsigned, U_MAX
<1>1. q \in Int /\ r \in Int /\ U_MAX = d * q + r /\ 0 <= r /\ r < d
  OBVIOUS
<1> HIDE DEF q, r, U_MAX
<1>2. U_MAX \in Int /\ c \in Int /\ d \in Int /\ d > 0 /\ c >= 0
  BY DEF U_MAX
<1>3. ASSUME q >= c PROVE c * d <= U_MAX
  <2>1. c * d <= q * d
    BY <1>1, <1>2, <1>3
  <2> QED
    BY <1>1, <1>2, <2>1
<1>4. ASSUME ~(q >= c) PROVE c * d > U_MAX
  <2>1. c >= q + 1
    BY <1>1, <1>2, <1>4
  <2>2. c * d >= (q + 1) * d
    BY <1>1, <1>2, <2>1
  <2>3. (q + 1) * d = d * q + d
    BY <1>1, <1>2
  <2> QED
    BY <1>1, <1>2, <2>2, <2>3
<1> QED
  BY <1>2, <1>3, <1>4 DEF q

(* Products never wrap around, for every width. *)
THEOREM ProductsNeverWrap ==
  ASSUME NEW a \in Signed, NEW b \in Signed, NEW c \in Unsigned, NEW d \in Unsigned
  PROVE  ProductsSaturate(a, b, c, d)
<1>1. a \in Int /\ b \in Int /\ c \in Int /\ d \in Int /\ c >= 0 /\ d >= 0
  BY WidthAssumption DEF Signed, Unsigned, S_MIN, U_MAX
<1>2. smul(a, b) = Clamp(a * b, S_MIN, S_MAX)
  <2> DEFINE p == a * b
  <2>1. p \in Int
    BY <1>1
  <2> HIDE DEF p
  <2>2. (IF p >= 0 THEN (IF p < S_MAX THEN p ELSE S_MAX)
                   ELSE (IF p > S_MIN THEN p ELSE S_MIN)) = Clamp(p, S_MIN, S_MAX)
    BY <2>1, WidthAssumption DEF S_MIN, Clamp
  <2> QED
    BY <2>2 DEF smul, p
<1>3. umul(c, d) = Clamp(c * d, 0, U_MAX)
  <2>1. c * d \in Int /\ c * d >= 0
    BY <1>1
  <2>2. U_MAX \in Int
    BY WidthAssumption DEF U_MAX
  <2> QED
    BY <2>1, <2>2 DEF umul, Clamp
<1>4. ulongmul(c, d) = umul(c, d)
  <2>1. CASE c = 0 \/ d = 0
    <3>1. c * d = 0 /\ 0 <= U_MAX
      BY <1>1, <2>1, WidthAssumption DEF U_MAX
    <3> QED
      BY <2>1, <3>1 DEF ulongmul, umul
  <2>2. CASE ~(c = 0 \/ d = 0)
    BY <2>2, DivisionDecides DEF ulongmul, umul
  <2> QED
    BY <2>1, <2>2
<1> QED
  BY <1>2, <1>3, <1>4 DEF ProductsSaturate

(* A cast never changes the sign or the order of what fits. *)
THEOREM CastsNeverWrap ==
  ASSUME NEW a \in Signed, NEW c \in Unsigned, NEW wide \in Nat
  PROVE  CastsClamp(a, c, wide)
  BY WidthAssumption
  DEF CastsClamp, Signed, Unsigned, S_MIN, U_MAX, Clamp, u_to_s, s_to_u, u_narrow

(* The operands of the check, whatever part of it moves. *)
Operands == left \in Signed /\ right \in Signed

(* Every result the runs compute is exact or saturated, at every width.    *)
THEOREM ArithmeticNeverWraps == MCSpec => []ExactOrSaturated
<1>1. MCInit => Operands
  BY WidthAssumption DEF MCInit, Operands, Signed, S_MIN
<1>2. Operands /\ [MCNext]_allVars => Operands'
  BY DEF MCNext, allVars, Operands, Arithmetic, Buffers, Rings, RdsTurn
<1>3. Operands => ExactOrSaturated
  <2> SUFFICES ASSUME Operands PROVE ExactOrSaturated
    OBVIOUS
  <2>1. /\ left \in Signed /\ right \in Signed /\ Value(left) \in Unsigned /\ Value(right) \in Unsigned
        /\ Value(left) + Value(right) \in Nat
    BY WidthAssumption DEF Operands, Value, Signed, Unsigned, S_MIN, U_MAX
  <2> QED
    BY <2>1, SumsNeverWrap, ProductsNeverWrap, CastsNeverWrap DEF ExactOrSaturated
<1> QED
  BY <1>1, <1>2, <1>3, PTL DEF MCSpec

-----------------------------------------------------------------------------
IInv == Good(cb)

-----------------------------------------------------------------------------

LEMMA InvInit == Init => IInv
  BY FreshGood DEF Init, IInv, Fresh

LEMMA InvNext == IInv /\ [Next]_vars => IInv'
<1> SUFFICES ASSUME IInv, [Next]_vars PROVE IInv'
  OBVIOUS
<1>0. /\ Good(cb)
      /\ cb.wp \in Indices /\ cb.rp \in Indices
      /\ cb.elemCount \in 0 .. SIZE /\ cb.data \in [Cells -> Elements]
  BY FieldsOf DEF IInv, Good
<1>1. ASSUME NEW n \in 1 .. SIZE, NEW vals \in [1 .. n -> Elements], CB_write(vals)
      PROVE  IInv'
  <2>1. n \in 0 .. SIZE /\ Len(vals) = n
    OBVIOUS
  <2>2. AvailSpace(cb) = SIZE - cb.elemCount
    BY <1>0, CircBuffAssumption DEF AvailSpace, Word
  <2>3. cb.elemCount + n <= SIZE
    <3>1. SIZE - cb.elemCount >= n
      BY <1>1, <2>1, <2>2 DEF CB_write, Fits
    <3> QED
      BY <3>1, <1>0, CircBuffAssumption
  <2>4. cb' = Put(cb, vals)
    BY <1>1 DEF CB_write
  <2> QED
    BY <1>0, <2>1, <2>3, <2>4, PutStep DEF IInv
<1>2. ASSUME NEW n \in 1 .. SIZE, CB_fill(n)
      PROVE  IInv'
  <2>1. n \in 0 .. SIZE /\ Filled(Zero, n) \in [1 .. n -> Elements]
    BY FilledType
  <2>2. AvailSpace(cb) = SIZE - cb.elemCount
    BY <1>0, CircBuffAssumption DEF AvailSpace, Word
  <2>3. cb.elemCount + n <= SIZE
    <3>1. SIZE - cb.elemCount >= n
      BY <1>2, <2>2 DEF CB_fill, Fits
    <3> QED
      BY <3>1, <1>0, CircBuffAssumption
  <2>4. cb' = Put(cb, Filled(Zero, n))
    BY <1>2 DEF CB_fill
  <2> QED
    BY <1>0, <2>1, <2>3, <2>4, PutStep DEF IInv
<1>3. ASSUME NEW n \in 1 .. SIZE, CB_reset_and_fill(n)
      PROVE  IInv'
  <2>1. n \in 0 .. SIZE /\ Filled(Zero, n) \in [1 .. n -> Elements]
    BY FilledType
  <2>2. Good(Emptied(cb)) /\ Emptied(cb).elemCount = 0
    BY <1>0, FreshGood, FieldsOfBuff DEF Emptied
  <2>3. 0 + n <= SIZE
    OBVIOUS
  <2>4. Good(Put(Emptied(cb), Filled(Zero, n)))
    BY <2>1, <2>2, <2>3, PutStep
  <2> QED
    BY <1>3, <2>4 DEF CB_reset_and_fill, IInv
<1>4. ASSUME NEW n \in 1 .. SIZE, CB_read(n)
      PROVE  IInv'
  <2>1. n \in 0 .. SIZE /\ n <= cb.elemCount
    BY <1>0, <1>4 DEF CB_read
  <2>2. cb' = Taken(cb, n)
    BY <1>4 DEF CB_read
  <2> QED
    BY <1>0, <2>1, <2>2, TakenStep DEF IInv
<1>5. ASSUME NEW n \in -SIZE .. SIZE, CB_moveReadIndex(n)
      PROVE  IInv'
  <2>1. n <= cb.elemCount /\ cb.elemCount - n <= SIZE /\ cb' = Skipped(cb, n)
    BY <1>5 DEF CB_moveReadIndex, CanMove
  <2> QED
    BY <1>0, <2>1, SkippedStep DEF IInv
<1>6. CASE CB_reset
  BY <1>0, <1>6, FreshGood DEF CB_reset, Emptied, IInv
<1>7. CASE CB_flush
  <2>1. [c \in Cells |-> Zero] \in [Cells -> Elements]
    BY CircBuffAssumption
  <2>2. cb.wp - cb.rp - cb.elemCount = 0 \/ cb.wp - cb.rp - cb.elemCount = -SIZE
    BY <1>0 DEF Good, Consistent
  <2> QED
    BY <1>0, <1>7, <2>1, <2>2, BuffGood DEF CB_flush, IInv
<1>8. CASE UNCHANGED vars
  BY <1>8 DEF vars, IInv, Good, Consistent
<1> QED
  BY <1>1, <1>2, <1>3, <1>4, <1>5, <1>6, <1>7, <1>8 DEF Next

(* However the calls are combined, the read index stays elemCount elements *)
(* behind the write index and both stay in the buffer.                     *)
THEOREM IndicesAlwaysAgree == Spec => []IndicesAgree
<1>1. IInv => IndicesAgree
  BY DEF IInv, Good, IndicesAgree
<1> QED
  BY <1>1, InvInit, InvNext, PTL DEF Spec
-----------------------------------------------------------------------------

LEMMA WindowType ==
  ASSUME NEW b, Good(b)
  PROVE  WindowOf(b) \in [1 .. SIZE -> Elements]
<1>1. b.wp \in Indices /\ b.data \in [Cells -> Elements]
  BY FieldsOf DEF Good
<1>2. \A k \in 1 .. SIZE : k - 1 \in Cells
  BY CircBuffAssumption DEF Cells
<1>3. \A k \in 1 .. SIZE : Cell(b.wp, k - 1) \in Cells
  BY <1>1, <1>2, CellInside
<1>4. \A k \in 1 .. SIZE : b.data[Cell(b.wp, k - 1)] \in Elements
  BY <1>1, <1>3
<1> QED
  BY <1>4 DEF WindowOf

(* Writing slides the window: the n oldest elements go, vals come last. *)
LEMMA PutSlides ==
  ASSUME NEW b, Good(b), NEW n \in 0 .. SIZE,
         NEW vals \in [1 .. n -> Elements], b.elemCount + n <= SIZE
  PROVE  WindowOf(Put(b, vals)) =
           [k \in 1 .. SIZE |-> IF k <= SIZE - n THEN WindowOf(b)[k + n]
                                                 ELSE vals[k - (SIZE - n)]]
<1> DEFINE data == b.data
           wp   == b.wp
           new  == Copied(data, wp, vals)
<1>1. wp \in Indices /\ Len(vals) = n
  BY FieldsOf DEF Good
<1>2. Put(b, vals).wp = Moved(wp, n) /\ Put(b, vals).data = new
  BY PutStep, FieldsOfBuff
<1>3. ASSUME NEW k \in 1 .. SIZE
      PROVE  new[Cell(Moved(wp, n), k - 1)] =
               IF k <= SIZE - n THEN WindowOf(b)[k + n] ELSE vals[k - (SIZE - n)]
  <2>1. k - 1 \in Cells
    BY CircBuffAssumption DEF Cells
  <2>2. CASE k <= SIZE - n
    <3>1. k - 1 + n \in Cells /\ k + n \in 1 .. SIZE /\ (k + n) - 1 = k - 1 + n
      BY <2>2, CircBuffAssumption DEF Cells
    <3>2. Cell(Moved(wp, n), k - 1) = Cell(wp, k - 1 + n)
      <4>1. (k - 1) + n < SIZE
        BY <2>2, CircBuffAssumption
      <4> QED
        BY <1>1, <2>1, <4>1, CellAfterMove
    <3>3. /\ Cell(wp, k - 1 + n) \in Cells
          /\ Distance(wp, Cell(wp, k - 1 + n)) = k - 1 + n
      BY <1>1, <3>1, CellInside
    <3>4. ~(k - 1 + n < n)
      BY <2>1 DEF Cells
    <3>5. new[Cell(wp, k - 1 + n)] = data[Cell(wp, k - 1 + n)]
      BY <1>1, <3>3, <3>4 DEF Copied
    <3>6. WindowOf(b)[k + n] = data[Cell(wp, k - 1 + n)]
      BY <3>1 DEF WindowOf
    <3> QED
      BY <2>2, <3>2, <3>5, <3>6
  <2>3. CASE ~(k <= SIZE - n)
    <3>1. /\ k - 1 + n - SIZE \in Cells /\ ~(k - 1 + n < SIZE)
          /\ k - 1 + n - SIZE < n /\ (k - 1 + n - SIZE) + 1 = k - (SIZE - n)
      BY <2>3, CircBuffAssumption DEF Cells
    <3>2. Cell(Moved(wp, n), k - 1) = Cell(wp, k - 1 + n - SIZE)
      BY <1>1, <2>1, <3>1, CellAfterMove
    <3>3. /\ Cell(wp, k - 1 + n - SIZE) \in Cells
          /\ Distance(wp, Cell(wp, k - 1 + n - SIZE)) = k - 1 + n - SIZE
      BY <1>1, <3>1, CellInside
    <3>4. new[Cell(wp, k - 1 + n - SIZE)] = vals[(k - 1 + n - SIZE) + 1]
      BY <1>1, <3>1, <3>3 DEF Copied
    <3> QED
      BY <2>3, <3>1, <3>2, <3>4
  <2> QED
    BY <2>2, <2>3
<1>4. WindowOf(Put(b, vals)) = [k \in 1 .. SIZE |-> new[Cell(Moved(wp, n), k - 1)]]
  BY <1>2 DEF WindowOf
<1> QED
  BY <1>3, <1>4

(* Reading returns the oldest unread elements of the window. *)
LEMMA ReadFromWindow ==
  ASSUME NEW b, Good(b), NEW n \in 0 .. SIZE, n <= b.elemCount
  PROVE  Read(b, n) = [k \in 1 .. n |-> WindowOf(b)[SIZE - b.elemCount + k]]
<1> DEFINE count == b.elemCount
<1>1. /\ b.wp \in Indices /\ b.rp \in Indices /\ count \in 0 .. SIZE
  BY FieldsOf DEF Good
<1>2. b.wp - b.rp - count = 0 \/ b.wp - b.rp - count = -SIZE
  BY DEF Good, Consistent
<1>3. ASSUME NEW k \in 1 .. n
      PROVE  b.data[Cell(b.rp, k - 1)] = WindowOf(b)[SIZE - count + k]
  <2>1. SIZE - count + k \in 1 .. SIZE
    BY <1>1, CircBuffAssumption
  <2>2. Cell(b.rp, k - 1) = Cell(b.wp, (SIZE - count + k) - 1)
    BY <1>1, <1>2, CircBuffAssumption DEF Cell, Indices
  <2> QED
    BY <2>1, <2>2 DEF WindowOf
<1> QED
  BY <1>3 DEF Read
-----------------------------------------------------------------------------

LEMMA StreamInit == Init => Stream!Init
<1> SUFFICES ASSUME Init PROVE Stream!Init
  OBVIOUS
<1>1. Good(cb)
  BY InvInit DEF IInv
<1>2. cb.elemCount = 0 /\ passed = <<>>
  BY FieldsOfBuff DEF Init, Fresh
<1> QED
  BY <1>1, <1>2, WindowType DEF Stream!Init, Stream!Positions

LEMMA StreamStep == IInv /\ [Next]_vars => [Stream!Next]_(Stream!vars)
<1> SUFFICES ASSUME IInv, [Next]_vars PROVE [Stream!Next]_(Stream!vars)
  OBVIOUS
<1>0. /\ Good(cb) /\ Good(cb)'
      /\ cb.wp \in Indices /\ cb.rp \in Indices
      /\ cb.elemCount \in 0 .. SIZE /\ cb.data \in [Cells -> Elements]
  BY FieldsOf, InvNext DEF IInv, Good
<1>a. /\ Good(cb') /\ WindowOf(cb)' = WindowOf(cb') /\ WindowOf(cb') \in [1 .. SIZE -> Elements]
      /\ cb'.elemCount \in 0 .. SIZE
  BY <1>0, WindowType, FieldsOf DEF WindowOf, Good, Consistent
<1>b. AvailSpace(cb) = SIZE - cb.elemCount
  BY <1>0, CircBuffAssumption DEF AvailSpace, Word
<1>w. ASSUME NEW n \in 1 .. SIZE, NEW vals \in [1 .. n -> Elements], Fits(n),
             cb' = Put(cb, vals), passed' = vals
      PROVE  Stream!Write(vals)
  <2>1. n \in 0 .. SIZE /\ Len(vals) = n
    OBVIOUS
  <2>2. n <= SIZE - cb.elemCount
    BY <1>b, <1>w DEF Fits
  <2>3. cb.elemCount + n <= SIZE
    BY <2>2, <1>0, CircBuffAssumption
  <2>4. WindowOf(cb') = Stream!Slid(vals)
    BY <1>0, <2>1, <2>3, <1>w, PutSlides DEF Stream!Slid, Stream!Positions
  <2>5. cb'.elemCount = cb.elemCount + n
    <3>1. Put(cb, vals) = Buff(Moved(cb.wp, n), cb.rp, cb.elemCount + n, Copied(cb.data, cb.wp, vals))
      BY <1>0, <2>1, <2>3, PutStep
    <3> QED
      BY <1>w, <3>1, FieldsOfBuff
  <2> QED
    BY <1>a, <1>w, <2>1, <2>2, <2>4, <2>5 DEF Stream!Write
<1>1. ASSUME NEW n \in 1 .. SIZE, NEW vals \in [1 .. n -> Elements], CB_write(vals)
      PROVE  Stream!Next
  <2>1. Len(vals) = n
    OBVIOUS
  <2>2. Stream!Write(vals)
    BY <1>1, <2>1, <1>w DEF CB_write
  <2> QED
    BY <2>2 DEF Stream!Next, Stream!Positions
<1>2. ASSUME NEW n \in 1 .. SIZE, CB_fill(n)
      PROVE  Stream!Next
  <2>1. Filled(Zero, n) \in [1 .. n -> Elements]
    BY FilledType
  <2>2. Stream!Write(Filled(Zero, n))
    BY <1>2, <2>1, <1>w DEF CB_fill
  <2> QED
    BY <2>1, <2>2 DEF Stream!Next, Stream!Positions
<1>3. ASSUME NEW n \in 1 .. SIZE, CB_reset_and_fill(n)
      PROVE  Stream!Next
  <2> DEFINE b == Emptied(cb)
  <2>1. n \in 0 .. SIZE /\ Filled(Zero, n) \in [1 .. n -> Elements] /\ 0 + n = n
    BY FilledType
  <2>2. Good(b) /\ b.elemCount = 0
    BY <1>0, FreshGood, FieldsOfBuff DEF Emptied
  <2>3. cb' = Put(b, Filled(Zero, n)) /\ passed' = passed
    BY <1>3 DEF CB_reset_and_fill
  <2>4. b.elemCount + n <= SIZE
    BY <2>2
  <2>5. cb'.elemCount = n
    <3>1. cb'.elemCount = b.elemCount + n
      BY <2>1, <2>2, <2>3, <2>4, PutStep, FieldsOfBuff
    <3> QED
      BY <3>1, <2>1, <2>2
  <2>6. WindowOf(cb') = [k \in 1 .. SIZE |-> IF k <= SIZE - n THEN WindowOf(b)[k + n]
                                             ELSE Filled(Zero, n)[k - (SIZE - n)]]
    BY <2>1, <2>2, <2>3, <2>4, PutSlides
  <2>7. ASSUME NEW k \in 1 .. SIZE, k > SIZE - n
        PROVE  WindowOf(cb')[k] = Zero
    <3>1. k - (SIZE - n) \in 1 .. n /\ ~(k <= SIZE - n)
      BY <2>7, CircBuffAssumption
    <3>2. WindowOf(cb')[k] = Filled(Zero, n)[k - (SIZE - n)]
      BY <2>6, <3>1
    <3> QED
      BY <3>1, <3>2 DEF Filled
  <2>8. Stream!Restart(n)
    BY <1>a, <2>3, <2>5, <2>7 DEF Stream!Restart, Stream!Positions
  <2> QED
    BY <2>8 DEF Stream!Next, Stream!Positions
<1>4. ASSUME NEW n \in 1 .. SIZE, CB_read(n)
      PROVE  Stream!Next
  <2>1. n \in 0 .. SIZE /\ n <= cb.elemCount
    BY <1>0, <1>4 DEF CB_read
  <2>2. cb' = Taken(cb, n) /\ passed' = Read(cb, n)
    BY <1>4 DEF CB_read
  <2>3. cb' = Buff(cb.wp, Moved(cb.rp, n), cb.elemCount - n, cb.data)
    BY <1>0, <2>1, <2>2, TakenStep
  <2>4. cb'.elemCount = cb.elemCount - n /\ cb'.wp = cb.wp /\ cb'.data = cb.data
    BY <2>3, FieldsOfBuff
  <2>5. WindowOf(cb') = WindowOf(cb)
    BY <2>4 DEF WindowOf
  <2>6. passed' = [k \in 1 .. n |-> WindowOf(cb)[SIZE - cb.elemCount + k]]
    BY <1>0, <2>1, <2>2, ReadFromWindow
  <2>7. Stream!Read(n)
    BY <1>a, <2>1, <2>4, <2>5, <2>6 DEF Stream!Read
  <2> QED
    BY <2>7 DEF Stream!Next, Stream!Positions
<1>5. ASSUME NEW n \in -SIZE .. SIZE, CB_moveReadIndex(n)
      PROVE  Stream!Next
  <2>1. n <= cb.elemCount /\ cb.elemCount - n <= SIZE /\ cb' = Skipped(cb, n) /\ passed' = passed
    BY <1>5 DEF CB_moveReadIndex, CanMove
  <2>2. cb'.elemCount = cb.elemCount - n /\ cb'.wp = cb.wp /\ cb'.data = cb.data
    BY <2>1, FieldsOfBuff DEF Skipped
  <2>3. WindowOf(cb') = WindowOf(cb)
    BY <2>2 DEF WindowOf
  <2>4. cb.elemCount - n \in 0 .. SIZE
    BY <1>0, <2>1, CircBuffAssumption
  <2>5. Stream!Move(n)
    BY <1>a, <2>1, <2>2, <2>3, <2>4 DEF Stream!Move
  <2> QED
    BY <2>5 DEF Stream!Next
<1>6. CASE CB_reset
  <2>1. cb'.elemCount = 0 /\ passed' = passed
    BY <1>6, FieldsOfBuff DEF CB_reset, Emptied
  <2> QED
    BY <1>a, <2>1 DEF Stream!Next, Stream!Forget, Stream!Positions
<1>7. CASE CB_flush
  <2>1. /\ cb'.elemCount = cb.elemCount /\ cb'.wp = cb.wp /\ passed' = passed
        /\ cb'.data = [c \in Cells |-> Zero]
    BY <1>7, FieldsOfBuff DEF CB_flush
  <2>2. \A k \in 1 .. SIZE : k - 1 \in Cells
    BY CircBuffAssumption DEF Cells
  <2>3. \A k \in 1 .. SIZE : Cell(cb.wp, k - 1) \in Cells
    BY <1>0, <2>2, CellInside
  <2>4. WindowOf(cb') = [k \in 1 .. SIZE |-> Zero]
    BY <2>1, <2>3 DEF WindowOf
  <2> QED
    BY <1>a, <2>1, <2>4 DEF Stream!Next, Stream!Blank, Stream!Positions
<1>8. CASE UNCHANGED vars
  <2>1. cb' = cb /\ passed' = passed
    BY <1>8 DEF vars
  <2>2. WindowOf(cb)' = WindowOf(cb) /\ (cb.elemCount)' = cb.elemCount
    BY <2>1 DEF WindowOf
  <2> QED
    BY <2>1, <2>2 DEF Stream!vars
<1> QED
  BY <1>1, <1>2, <1>3, <1>4, <1>5, <1>6, <1>7, <1>8 DEF Next

(* For every size and every sequence of calls, a circular buffer is a      *)
(* window on the stream written into it: reads return its oldest unread    *)
(* elements, a move takes back exactly the elements read last.             *)
THEOREM BufferImplementsStream == Spec => ImplementsStream
<1>1. Init => Stream!Init
  BY StreamInit
<1>2. IInv /\ [Next]_vars => [Stream!Next]_(Stream!vars)
  BY StreamStep
<1> QED
  BY <1>1, <1>2, InvInit, InvNext, PTL DEF Spec, ImplementsStream, Stream!Spec

-----------------------------------------------------------------------------
(* The byte ring.  Equal indices are told apart by the state, and an index *)
(* at the beginning of the memory means that nothing was ever read there:  *)
(* a transfer that ends at the end stays at the end.                       *)
RingInv ==
  /\ ring \in [wp : 0 .. RING_SIZE, rp : 0 .. RING_SIZE, state : {EMPTY, FULL, NORMAL},
               data : [Offsets -> Bytes]]
  /\ ring.wp = 0 => ring.rp = 0
  /\ ring.wp = ring.rp <=> ring.state # NORMAL
  /\ ring.state = FULL => ring.wp # 0

(* The remainder of what is less than twice the divisor. *)
LEMMA SmallRemainder ==
  ASSUME NEW n \in Nat \ {0}, NEW x \in 0 .. 2 * n - 1
  PROVE  x % n = IF x < n THEN x ELSE x - n
<1> DEFINE q == x \div n
           r == x % n
<1>1. q \in Int /\ r \in 0 .. n - 1 /\ x = n * q + r
  OBVIOUS
<1> HIDE DEF q, r
<1>2. CASE q <= -1
  <2>1. n * q <= n * (-1)
    BY <1>1, <1>2
  <2> QED
    BY <1>1, <2>1
<1>3. CASE q = 0
  BY <1>1, <1>3 DEF r
<1>4. CASE q = 1
  BY <1>1, <1>4 DEF r
<1>5. CASE q >= 2
  <2>1. n * q >= n * 2
    BY <1>1, <1>5
  <2> QED
    BY <1>1, <2>1
<1> QED
  BY <1>1, <1>2, <1>3, <1>4, <1>5

LEMMA CellOfRing ==
  ASSUME NEW pos \in 0 .. RING_SIZE, NEW k \in 0 .. RING_SIZE - 1
  PROVE  /\ CellAt(pos, k) = IF pos + k < RING_SIZE THEN pos + k ELSE pos + k - RING_SIZE
         /\ CellAt(pos, k) \in Offsets
<1>1. pos + k \in 0 .. 2 * RING_SIZE - 1 /\ RING_SIZE \in Nat \ {0}
  BY HalRingAssumption
<1>2. CellAt(pos, k) = IF pos + k < RING_SIZE THEN pos + k ELSE pos + k - RING_SIZE
  <2> DEFINE x == pos + k
  <2>1. x \in 0 .. 2 * RING_SIZE - 1
    BY <1>1
  <2> HIDE DEF x
  <2>2. x % RING_SIZE = IF x < RING_SIZE THEN x ELSE x - RING_SIZE
    BY <1>1, <2>1, SmallRemainder
  <2>3. CellAt(pos, k) = x % RING_SIZE
    BY Zenon DEF CellAt, x
  <2>4. CellAt(pos, k) = IF x < RING_SIZE THEN x ELSE x - RING_SIZE
    BY <2>2, <2>3
  <2> QED
    BY <1>1, <2>4 DEF x
<1> QED
  BY <1>1, <1>2 DEF Offsets

(* The cells after n more bytes are those of the index after n bytes.      *)
LEMMA CellAfter ==
  ASSUME NEW pos \in 0 .. RING_SIZE, NEW n \in 1 .. RING_SIZE, NEW k \in Nat, n + k < RING_SIZE
  PROVE  After(pos, n) \in 1 .. RING_SIZE /\ CellAt(After(pos, n), k) = CellAt(pos, n + k)
<1>1. After(pos, n) \in 1 .. RING_SIZE
  BY HalRingAssumption DEF After
<1>2. n + k \in 0 .. RING_SIZE - 1 /\ k \in 0 .. RING_SIZE - 1
  BY HalRingAssumption
<1> QED
  BY <1>1, <1>2, CellOfRing, HalRingAssumption DEF After

LEMMA HeldBounds ==
  ASSUME RingInv
  PROVE  /\ Held \in 0 .. RING_SIZE
         /\ Held = 0 <=> ring.state = EMPTY
         /\ \A n \in 1 .. RING_SIZE + 1 : HasRoom(n) => Held + n <= RING_SIZE
         /\ \A n \in 1 .. RING_SIZE + 1 : ~HasRoom(n) => Held + n >= RING_SIZE
  BY HalRingAssumption DEF RingInv, Held, HasRoom, EMPTY, FULL, NORMAL

(* The next byte goes behind the last one held. *)
LEMMA NextCell ==
  ASSUME RingInv, NEW k \in Nat, Held + k < RING_SIZE
  PROVE  CellAt(ring.wp, k) = CellAt(ring.rp, Held + k)
<1>1. /\ ring.wp \in 0 .. RING_SIZE /\ ring.rp \in 0 .. RING_SIZE
      /\ Held \in 0 .. RING_SIZE /\ RING_SIZE \in Nat \ {0}
  BY HeldBounds, HalRingAssumption DEF RingInv
<1>2. /\ CellAt(ring.wp, k) = IF ring.wp + k < RING_SIZE THEN ring.wp + k ELSE ring.wp + k - RING_SIZE
      /\ CellAt(ring.rp, Held + k) = IF ring.rp + (Held + k) < RING_SIZE THEN ring.rp + (Held + k)
                                     ELSE ring.rp + (Held + k) - RING_SIZE
  BY <1>1, CellOfRing
<1> QED
  BY <1>1, <1>2 DEF RingInv, Held, EMPTY, FULL, NORMAL

LEMMA UnreadIs ==
  ASSUME RingInv
  PROVE  /\ Unread \in Seq(Bytes) /\ Len(Unread) = Held
         /\ \A k \in 1 .. Held : Unread[k] = ring.data[CellAt(ring.rp, k - 1)]
<1>1. Held \in 0 .. RING_SIZE /\ RING_SIZE \in Nat \ {0}
  BY HeldBounds, HalRingAssumption
<1>2. \A k \in 1 .. Held : CellAt(ring.rp, k - 1) \in Offsets
  BY <1>1, CellOfRing DEF RingInv
<1>3. \A k \in 1 .. Held : ring.data[CellAt(ring.rp, k - 1)] \in Bytes
  BY <1>2 DEF RingInv
<1> QED
  BY <1>1, <1>3 DEF Unread

LEMMA PushAppends ==
  ASSUME RingInv, NEW n \in 1 .. RING_SIZE + 1, NEW vals \in [1 .. n -> Bytes], Push(vals)
  PROVE  RingInv' /\ n <= RING_SIZE /\ Queue!Push(vals)
<1> DEFINE Written == {CellAt(ring.wp, k - 1) : k \in 1 .. n}
<1>1. Len(vals) = n /\ HasRoom(n)
  BY HalRingAssumption DEF Push
<1>2. /\ ring.wp \in 0 .. RING_SIZE /\ ring.rp \in 0 .. RING_SIZE /\ ring.data \in [Offsets -> Bytes]
      /\ Held \in 0 .. RING_SIZE /\ RING_SIZE \in Nat \ {0}
      /\ Held + n <= RING_SIZE /\ n \in 1 .. RING_SIZE
  BY <1>1, HeldBounds, HalRingAssumption DEF RingInv
<1>3. /\ ring'.wp = After(ring.wp, n) /\ ring'.rp = ring.rp
      /\ ring'.state = StateAfterPush(After(ring.wp, n))
      /\ ring'.data = [c \in Offsets |-> IF c \in Written
                         THEN vals[CHOOSE k \in 1 .. n : CellAt(ring.wp, k - 1) = c]
                         ELSE ring.data[c]]
      /\ ring' = [wp |-> ring'.wp, rp |-> ring'.rp, state |-> ring'.state, data |-> ring'.data]
      /\ answer' = Stored(n) /\ got' = got
  BY <1>1 DEF Push
<1>4. ASSUME NEW k \in 1 .. n, NEW l \in 1 .. n, CellAt(ring.wp, k - 1) = CellAt(ring.wp, l - 1)
      PROVE  k = l
  <2>1. k - 1 \in 0 .. RING_SIZE - 1 /\ l - 1 \in 0 .. RING_SIZE - 1
    BY <1>2
  <2>2. /\ CellAt(ring.wp, k - 1) = IF ring.wp + (k - 1) < RING_SIZE THEN ring.wp + (k - 1) ELSE ring.wp + (k - 1) - RING_SIZE
        /\ CellAt(ring.wp, l - 1) = IF ring.wp + (l - 1) < RING_SIZE THEN ring.wp + (l - 1) ELSE ring.wp + (l - 1) - RING_SIZE
    BY <1>2, <2>1, CellOfRing
  <2> QED
    BY <1>2, <1>4, <2>1, <2>2
<1>5. \A k \in 1 .. n : CellAt(ring.wp, k - 1) \in Offsets /\ ring'.data[CellAt(ring.wp, k - 1)] = vals[k]
  <2> SUFFICES ASSUME NEW k \in 1 .. n
               PROVE  CellAt(ring.wp, k - 1) \in Offsets /\ ring'.data[CellAt(ring.wp, k - 1)] = vals[k]
    OBVIOUS
  <2>1. CellAt(ring.wp, k - 1) \in Offsets
    <3>1. k - 1 \in 0 .. RING_SIZE - 1
      BY <1>2
    <3> QED
      BY <1>2, <3>1, CellOfRing
  <2>2. (CHOOSE l \in 1 .. n : CellAt(ring.wp, l - 1) = CellAt(ring.wp, k - 1)) = k
    BY <1>4
  <2> QED
    BY <1>3, <2>1, <2>2
<1>6. ring'.data \in [Offsets -> Bytes]
  <2>1. ASSUME NEW c \in Offsets PROVE ring'.data[c] \in Bytes
    <3>1. CASE c \in Written
      <4>1. PICK k \in 1 .. n : c = CellAt(ring.wp, k - 1)
        BY <3>1
      <4> QED
        BY <1>5, <4>1
    <3>2. CASE c \notin Written
      BY <1>2, <1>3, <3>2
    <3> QED
      BY <3>1, <3>2
  <2> QED
    BY <1>3, <2>1
<1>7. After(ring.wp, n) \in 1 .. RING_SIZE
  BY <1>2 DEF After
<1>8. /\ ring'.wp \in 1 .. RING_SIZE
      /\ ring'.state \in {EMPTY, FULL, NORMAL}
      /\ ring'.wp = ring'.rp <=> ring'.state # NORMAL
  BY <1>2, <1>3, <1>7 DEF StateAfterPush, EMPTY, FULL, NORMAL
<1>9. RingInv'
  <2>1. ring' \in [wp : 0 .. RING_SIZE, rp : 0 .. RING_SIZE, state : {EMPTY, FULL, NORMAL},
                   data : [Offsets -> Bytes]]
    <3>1. ring'.rp \in 0 .. RING_SIZE /\ ring'.wp \in 0 .. RING_SIZE
      BY <1>2, <1>3, <1>8
    <3>2. ring' = [wp |-> ring'.wp, rp |-> ring'.rp, state |-> ring'.state, data |-> ring'.data]
      BY <1>3
    <3> QED
      BY <3>1, <3>2, <1>6, <1>8, Zenon
  <2>2. ring'.wp # 0
    BY <1>2, <1>8
  <2> QED
    BY <1>8, <2>1, <2>2 DEF RingInv
<1>10. Held' = Held + n
  <2>1. Held' = IF ring'.state = EMPTY THEN 0
                ELSE IF ring'.rp < ring'.wp THEN ring'.wp - ring'.rp
                ELSE RING_SIZE - ring'.rp + ring'.wp
    BY DEF Held
  <2>2. ring'.state # EMPTY
    BY <1>3 DEF StateAfterPush, EMPTY, FULL, NORMAL
  <2>3. ring.state # FULL /\ (ring.rp <= ring.wp => RING_SIZE - ring.wp + ring.rp > n \/ ring.state = EMPTY)
        /\ (ring.rp > ring.wp => ring.rp - ring.wp >= n)
    BY <1>1, <1>2 DEF HasRoom
  <2>4. ring.wp = ring.rp <=> ring.state # NORMAL
    BY DEF RingInv
  <2>5. ring.state \in {EMPTY, FULL, NORMAL}
    BY DEF RingInv
  <2>6. ring'.rp = ring.rp /\ ring'.wp = IF n <= RING_SIZE - ring.wp THEN ring.wp + n
                                         ELSE n - (RING_SIZE - ring.wp)
    BY <1>3 DEF After
  <2>7. Held' = IF ring'.rp < ring'.wp THEN ring'.wp - ring'.rp ELSE RING_SIZE - ring'.rp + ring'.wp
    BY <2>1, <2>2
  <2>8. CASE ring.rp < ring.wp
    <3>1. Held = ring.wp - ring.rp /\ RING_SIZE - ring.wp + ring.rp > n
      BY <1>2, <2>3, <2>4, <2>5, <2>8 DEF Held, EMPTY, FULL, NORMAL
    <3>2. CASE n <= RING_SIZE - ring.wp
      BY <1>2, <2>6, <2>7, <2>8, <3>1, <3>2
    <3>3. CASE n > RING_SIZE - ring.wp
      <4>1. ring'.wp = n - (RING_SIZE - ring.wp) /\ ring'.rp = ring.rp /\ ring'.wp < ring'.rp
        BY <1>2, <2>6, <3>1, <3>3
      <4> QED
        BY <1>2, <2>7, <3>1, <4>1
    <3> QED
      BY <1>2, <3>2, <3>3
  <2>9. CASE ring.rp = ring.wp
    <3>1. Held = 0
      BY <1>2, <2>3, <2>4, <2>5, <2>9 DEF Held, EMPTY, FULL, NORMAL
    <3> QED
      BY <1>2, <2>6, <2>7, <2>9, <3>1
  <2>10. CASE ring.rp > ring.wp
    <3>1. Held = RING_SIZE - ring.rp + ring.wp /\ ring.rp - ring.wp >= n
      BY <1>2, <2>3, <2>4, <2>5, <2>10 DEF Held, EMPTY, FULL, NORMAL
    <3> QED
      BY <1>2, <2>6, <2>7, <2>10, <3>1
  <2> QED
    BY <1>2, <2>8, <2>9, <2>10
<1>11. Unread' = Unread \o vals
  <2>1. /\ Unread \in Seq(Bytes) /\ Len(Unread) = Held
        /\ \A k \in 1 .. Held : Unread[k] = ring.data[CellAt(ring.rp, k - 1)]
    BY UnreadIs
  <2>2. Unread' = [k \in 1 .. Held + n |-> ring'.data[CellAt(ring.rp, k - 1)]]
    BY <1>3, <1>10 DEF Unread
  <2>3. vals \in Seq(Bytes) /\ Len(vals) = n
    BY <1>1, <1>2
  <2>4. /\ Unread \o vals \in Seq(Bytes) /\ Len(Unread \o vals) = Held + n
        /\ \A k \in 1 .. Held + n : (Unread \o vals)[k] = IF k <= Held THEN Unread[k] ELSE vals[k - Held]
    BY <2>1, <2>3, ConcatProperties
  <2>5. ASSUME NEW k \in 1 .. Held + n
        PROVE  ring'.data[CellAt(ring.rp, k - 1)] = IF k <= Held THEN Unread[k] ELSE vals[k - Held]
    <3>1. CASE k <= Held
      <4>1. k \in 1 .. Held /\ k - 1 \in 0 .. RING_SIZE - 1
        BY <1>2, <3>1
      <4>2. CellAt(ring.rp, k - 1) \in Offsets
        BY <1>2, <4>1, CellOfRing
      <4>3. CellAt(ring.rp, k - 1) \notin Written
        <5> SUFFICES ASSUME NEW l \in 1 .. n, CellAt(ring.wp, l - 1) = CellAt(ring.rp, k - 1)
                     PROVE  FALSE
          OBVIOUS
        <5>1. l - 1 \in Nat /\ Held + (l - 1) < RING_SIZE /\ Held + (l - 1) \in 0 .. RING_SIZE - 1
          BY <1>2
        <5>2. CellAt(ring.rp, Held + (l - 1)) = CellAt(ring.rp, k - 1)
          BY <5>1, NextCell
        <5> DEFINE i == Held + (l - 1)
        <5>3. i \in 0 .. RING_SIZE - 1 /\ k - 1 \in 0 .. RING_SIZE - 1 /\ k - 1 < i
          BY <1>2, <4>1, <5>1
        <5>4. CellAt(ring.rp, i) = CellAt(ring.rp, k - 1)
          BY <5>2
        <5> HIDE DEF i
        <5>5. /\ CellAt(ring.rp, i) = IF ring.rp + i < RING_SIZE THEN ring.rp + i ELSE ring.rp + i - RING_SIZE
              /\ CellAt(ring.rp, k - 1) = IF ring.rp + (k - 1) < RING_SIZE THEN ring.rp + (k - 1)
                                          ELSE ring.rp + (k - 1) - RING_SIZE
          BY <1>2, <5>3, CellOfRing
        <5> QED
          BY <1>2, <5>3, <5>4, <5>5
      <4> QED
        BY <1>3, <2>1, <3>1, <4>1, <4>2, <4>3
    <3>2. CASE k > Held
      <4>1. k - Held \in 1 .. n /\ k - Held - 1 \in Nat /\ Held + (k - Held - 1) = k - 1
            /\ Held + (k - Held - 1) < RING_SIZE
        BY <1>2, <3>2
      <4>2. CellAt(ring.wp, k - Held - 1) = CellAt(ring.rp, k - 1)
        BY <4>1, NextCell
      <4> QED
        BY <1>2, <1>5, <3>2, <4>1, <4>2
    <3> QED
      BY <1>2, <3>1, <3>2
  <2> DEFINE u == Unread \o vals
             h == Held + n
  <2> HIDE DEF u, h
  <2>a. u \in Seq(Bytes) /\ Len(u) = h
    BY <2>4 DEF u, h
  <2>b. u = [k \in 1 .. h |-> u[k]]
    BY <2>a
  <2>6. Unread \o vals = [k \in 1 .. Held + n |-> (Unread \o vals)[k]]
    BY <2>b, Zenon DEF u, h
  <2> QED
    BY <2>2, <2>4, <2>5, <2>6
<1>12. Stored(n) \in 1 .. n
  BY <1>2 DEF Stored
<1> QED
  BY <1>1, <1>2, <1>3, <1>9, <1>11, <1>12, UnreadIs DEF Queue!Push

LEMMA TakeRemoves ==
  ASSUME RingInv, NEW n \in 1 .. RING_SIZE, n <= Held, Take(n)
  PROVE  /\ RingInv' /\ answer' = n
         /\ got' = SubSeq(Unread, 1, n)
         /\ Unread' = SubSeq(Unread, n + 1, Len(Unread))
<1>1. /\ ring.wp \in 0 .. RING_SIZE /\ ring.rp \in 0 .. RING_SIZE /\ ring.data \in [Offsets -> Bytes]
      /\ Held \in 0 .. RING_SIZE /\ RING_SIZE \in Nat \ {0}
  BY HeldBounds, HalRingAssumption DEF RingInv
<1>2. /\ ring'.wp = ring.wp /\ ring'.rp = After(ring.rp, n) /\ ring'.data = ring.data
      /\ ring'.state = StateAfterPop(After(ring.rp, n), ring.wp)
      /\ ring' = [wp |-> ring'.wp, rp |-> ring'.rp, state |-> ring'.state, data |-> ring'.data]
      /\ got' = [k \in 1 .. n |-> ring.data[CellAt(ring.rp, k - 1)]] /\ answer' = n
  BY DEF Take, RingInv
<1>3. After(ring.rp, n) \in 1 .. RING_SIZE
  BY <1>1 DEF After
<1>4. ring.wp # 0
  BY <1>1 DEF RingInv, Held, EMPTY, FULL, NORMAL
<1>5. RingInv'
  BY <1>1, <1>2, <1>3, <1>4 DEF RingInv, StateAfterPop, EMPTY, FULL, NORMAL
<1>6. Held' = Held - n
  <2>1. Held' = IF ring'.state = EMPTY THEN 0
                ELSE IF ring'.rp < ring'.wp THEN ring'.wp - ring'.rp
                ELSE RING_SIZE - ring'.rp + ring'.wp
    BY DEF Held
  <2>2. /\ ring.wp = ring.rp <=> ring.state # NORMAL
        /\ ring.state \in {EMPTY, FULL, NORMAL}
    BY DEF RingInv
  <2>3. ring'.wp = ring.wp /\ ring'.rp = IF n <= RING_SIZE - ring.rp THEN ring.rp + n
                                         ELSE n - (RING_SIZE - ring.rp)
    BY <1>2 DEF After
  <2>4. Held' = IF ring'.rp = ring'.wp THEN 0
                ELSE IF ring'.rp < ring'.wp THEN ring'.wp - ring'.rp
                ELSE RING_SIZE - ring'.rp + ring'.wp
    BY <1>2, <2>1 DEF StateAfterPop, EMPTY, NORMAL
  <2>5. CASE ring.rp < ring.wp
    <3>1. Held = ring.wp - ring.rp
      BY <1>1, <2>2, <2>5 DEF Held, EMPTY, NORMAL
    <3> QED
      BY <1>1, <2>3, <2>4, <2>5, <3>1
  <2>6. CASE ring.rp >= ring.wp
    <3>1. Held = RING_SIZE - ring.rp + ring.wp
      BY <1>1, <2>2, <2>6 DEF Held, EMPTY, NORMAL
    <3> QED
      BY <1>1, <1>4, <2>3, <2>4, <2>6, <3>1
  <2> QED
    BY <1>1, <2>5, <2>6
<1>7. /\ Unread \in Seq(Bytes) /\ Len(Unread) = Held
      /\ \A k \in 1 .. Held : Unread[k] = ring.data[CellAt(ring.rp, k - 1)]
  BY UnreadIs
<1>8. got' = SubSeq(Unread, 1, n)
  <2>1. SubSeq(Unread, 1, n) = [k \in 1 .. n |-> Unread[k]]
    BY <1>1, <1>7
  <2> QED
    BY <1>1, <1>2, <1>7, <2>1
<1>9. Unread' = SubSeq(Unread, n + 1, Len(Unread))
  <2>1. SubSeq(Unread, n + 1, Len(Unread)) = [k \in 1 .. Held - n |-> Unread[k + n]]
    BY <1>1, <1>7
  <2>2. Unread' = [k \in 1 .. Held - n |-> ring.data[CellAt(After(ring.rp, n), k - 1)]]
    BY <1>2, <1>6 DEF Unread
  <2>3. ASSUME NEW k \in 1 .. Held - n
        PROVE  ring.data[CellAt(After(ring.rp, n), k - 1)] = Unread[k + n]
    <3>1. k + n \in 1 .. Held /\ k - 1 \in Nat /\ n + (k - 1) < RING_SIZE /\ n + (k - 1) = k + n - 1
      BY <1>1
    <3>2. CellAt(After(ring.rp, n), k - 1) = CellAt(ring.rp, k + n - 1)
      BY <1>1, <3>1, CellAfter
    <3> QED
      BY <1>7, <3>1, <3>2
  <2> QED
    BY <2>1, <2>2, <2>3
<1> QED
  BY <1>2, <1>5, <1>8, <1>9

LEMMA RingStep == RingInv /\ [RingNext]_ringVars => RingInv' /\ [Queue!Next]_(Queue!queueVars)
<1> SUFFICES ASSUME RingInv, [RingNext]_ringVars
             PROVE  RingInv' /\ [Queue!Next]_(Queue!queueVars)
  OBVIOUS
<1>1. Held \in 0 .. RING_SIZE /\ RING_SIZE \in Nat \ {0}
  BY HeldBounds, HalRingAssumption
<1>2. /\ Unread \in Seq(Bytes) /\ Len(Unread) = Held
  BY UnreadIs
<1>3. ASSUME UNCHANGED ring PROVE RingInv' /\ Unread' = Unread
  BY <1>3 DEF RingInv, Unread, Held
<1>4. ASSUME NothingTaken PROVE RingInv' /\ Queue!Pop(0)
  <2>1. SubSeq(Unread, 1, 0) = <<>> /\ SubSeq(Unread, 1, Len(Unread)) = Unread
    BY <1>1, <1>2
  <2> QED
    BY <1>1, <1>2, <1>3, <1>4, <2>1 DEF NothingTaken, Queue!Pop
<1>5. ASSUME NEW n \in 1 .. RING_SIZE + 1, NEW vals \in [1 .. n -> Bytes], Push(vals)
      PROVE  RingInv' /\ Queue!Next
  BY <1>1, <1>5, PushAppends DEF Queue!Next
<1>6. ASSUME NEW n \in 1 .. RING_SIZE + 1, Refuse(n)
      PROVE  RingInv' /\ Queue!Next
  <2>1. Queue!Refuse(n)
    BY <1>2, <1>3, <1>6, HeldBounds DEF Refuse, Queue!Refuse
  <2> QED
    BY <1>3, <1>6, <2>1 DEF Refuse, Queue!Next
<1>7. ASSUME NEW n \in 1 .. RING_SIZE + 1, Pop(n)
      PROVE  RingInv' /\ Queue!Next
  <2>1. CASE Held = 0
    <3>1. NothingTaken
      BY <1>7, <2>1 DEF Pop
    <3>2. Queue!Pop(n)
      BY <1>1, <1>2, <1>4, <2>1, <3>1 DEF Queue!Pop
    <3> QED
      BY <1>4, <3>1, <3>2 DEF Queue!Next
  <2>2. CASE Held # 0
    <3> DEFINE k == IF n <= Held THEN n ELSE Held
    <3>1. Take(k) /\ k \in 1 .. RING_SIZE /\ k <= Held
      BY <1>1, <1>7, <2>2 DEF Pop
    <3> HIDE DEF k
    <3>2. /\ RingInv' /\ answer' = k /\ got' = SubSeq(Unread, 1, k)
          /\ Unread' = SubSeq(Unread, k + 1, Len(Unread))
      BY <3>1, TakeRemoves
    <3>3. Queue!Pop(n)
      BY <1>2, <3>2 DEF k, Queue!Pop
    <3> QED
      BY <3>2, <3>3 DEF Queue!Next
  <2> QED
    BY <2>1, <2>2
<1>8. ASSUME NEW n \in 1 .. RING_SIZE + 1, GetData(n)
      PROVE  RingInv' /\ Queue!Next
  <2>1. CASE n <= Held
    <3>1. Take(n) /\ n \in 1 .. RING_SIZE
      BY <1>1, <1>8, <2>1 DEF GetData
    <3>2. /\ RingInv' /\ answer' = n /\ got' = SubSeq(Unread, 1, n)
          /\ Unread' = SubSeq(Unread, n + 1, Len(Unread))
      BY <2>1, <3>1, TakeRemoves
    <3>3. Queue!PopExactly(n)
      BY <1>2, <2>1, <3>2 DEF Queue!Pop, Queue!PopExactly
    <3> QED
      BY <3>2, <3>3 DEF Queue!Next
  <2>2. CASE ~(n <= Held)
    <3>1. RingInv' /\ Queue!Pop(0)
      BY <1>4, <1>8, <2>2 DEF GetData
    <3> QED
      BY <1>2, <2>2, <3>1 DEF Queue!PopExactly, Queue!Next
  <2> QED
    BY <2>1, <2>2
<1>9. ASSUME Reset PROVE RingInv' /\ Queue!Next
  <2>1. ring' = Cleared(ring.data) /\ UNCHANGED <<got, answer>>
    BY <1>9 DEF Reset
  <2>2. RingInv' /\ Held' = 0
    BY <1>1, <2>1 DEF RingInv, Cleared, Held, EMPTY, FULL, NORMAL
  <2>3. Unread' = <<>>
    BY <2>2 DEF Unread
  <2> QED
    BY <2>1, <2>2, <2>3 DEF Queue!Reset, Queue!Next
<1>10. CASE UNCHANGED ringVars
  BY <1>3, <1>10 DEF ringVars, Queue!queueVars
<1> QED
  BY <1>5, <1>6, <1>7, <1>8, <1>9, <1>10 DEF RingNext

(* For every size of the ring and every sequence of pushes, reads and      *)
(* resets: the bytes come out once and in order, and a push is refused     *)
(* only when it would fill the ring.                                       *)
THEOREM RingImplementsByteQueue == RingSpec => ImplementsByteQueue
<1>1. RingInit => RingInv /\ Queue!Init
  <2> SUFFICES ASSUME RingInit PROVE RingInv /\ Queue!Init
    OBVIOUS
  <2>1. PICK data \in [Offsets -> Bytes] : ring = Cleared(data)
    BY DEF RingInit
  <2>2. RingInv /\ Held = 0
    BY <2>1, HalRingAssumption DEF RingInv, Cleared, Held, EMPTY, FULL, NORMAL
  <2>3. Unread = <<>>
    BY <2>2 DEF Unread
  <2> QED
    BY <2>2, <2>3 DEF RingInit, Queue!Init
<1> QED
  BY <1>1, RingStep, PTL DEF RingSpec, ImplementsByteQueue, Queue!Spec

-----------------------------------------------------------------------------
(* RDS.  What has been received of the one text heard under the present    *)
(* mark is its own, and its end, once known, is its length; with nothing   *)
(* heard nothing has been received and the next text is awaited.           *)
Texts       == {c.text : c \in Contents} \ {NoData}
AllMessages == (UNION {OfOne(c) : c \in Contents}) \cup (UNION {OfSeveral(l) : l \in Seq(Contents)})

Received(t) == /\ rtGot \subseteq 1 .. Len(t.pieces)
               /\ \A i \in rtGot : rtBuf[i] = t.pieces[i]
               /\ rtEnd \in {NoData, Len(t.pieces)}

TextInv ==
  /\ now \in air /\ air \in Airs /\ lately \in Seq(Contents) /\ batch \in Seq(AllMessages)
  /\ rtBuf = [i \in TextSegs |-> rtBuf[i]] /\ rtNeeded \in BOOLEAN
  /\ heard \subseteq Texts \cup {NoData}
  /\ heard = {} => rtGot = {} /\ rtEnd = NoData /\ rtNeeded
  /\ \A t \in Texts : heard = {t} => (rtNeeded /\ Received(t)) \/ (~rtNeeded /\ rtDisplay = t.pieces)

LEMMA TextShape ==
  ASSUME NEW t \in Texts
  PROVE  /\ Len(t.pieces) \in 1 .. TEXTLEN
         /\ t.pieces = [i \in 1 .. Len(t.pieces) |-> t.pieces[i]]
         /\ \A i \in 1 .. Len(t.pieces) : t.pieces[i] \in Ending => i = Len(t.pieces)
         /\ TEXTLEN \in Nat
<1>1. PICK c \in Contents : t = c.text /\ c.text # NoData
  BY DEF Texts
<1>2. PICK n \in 1 .. TEXTLEN :
        /\ t.pieces = [i \in 1 .. n |-> t.pieces[i]]
        /\ \A i \in 1 .. n : t.pieces[i] \in Ending => i = n
  BY <1>1, RdsAssumption
<1>3. TEXTLEN \in Nat
  BY RdsAssumption
<1>4. Len(t.pieces) = n
  BY <1>2, <1>3
<1> QED
  BY <1>2, <1>3, <1>4

(* Whatever is joined, the segment of a piece of a text is one the text    *)
(* has: it comes from one block. *)
LEMMA TextOfHead ==
  ASSUME NEW c \in Contents, NEW h \in Heads(c), NEW codes, NEW chars,
         Message(codes, h, chars).piece # NoData, Message(codes, h, chars).piece.of = "text"
  PROVE  /\ Message(codes, h, chars).piece.text \in Texts
         /\ Message(codes, h, chars).piece.seg \in 1 .. Len(Message(codes, h, chars).piece.text.pieces)
<1>1. Message(codes, h, chars).piece = [of |-> h.of, seg |-> h.seg, text |-> h.from.text, chars |-> chars]
  BY DEF Message
<1>2. h.of = "text"
  BY <1>1
<1>3. h \in TextHeads(c)
  BY <1>2 DEF Heads, NameHeads
<1>4. c.text # NoData /\ h.from = c /\ h.seg \in 1 .. Len(c.text.pieces)
  BY <1>3 DEF TextHeads
<1> QED
  BY <1>1, <1>4 DEF Texts

LEMMA TextMessage ==
  ASSUME NEW m \in AllMessages, m.piece # NoData, m.piece.of = "text"
  PROVE  m.piece.text \in Texts /\ m.piece.seg \in 1 .. Len(m.piece.text.pieces)
<1>1. CASE m \in UNION {OfOne(c) : c \in Contents}
  <2>1. PICK c \in Contents : m \in OfOne(c)
    BY <1>1
  <2>2. ASSUME NEW codes, m = Message(codes, NoData, NoData) PROVE FALSE
    BY <2>2 DEF Message
  <2>3. PICK h \in Heads(c) : \E codes, chars : m = Message(codes, h, chars)
    BY <2>1, <2>2 DEF OfOne
  <2> QED
    BY <2>3, TextOfHead
<1>2. CASE m \in UNION {OfSeveral(l) : l \in Seq(Contents)}
  <2>1. PICK l \in Seq(Contents) : m \in OfSeveral(l)
    BY <1>2
  <2>2. PICK at \in InOrder(l) : \E h \in Heads(l[at[2]]) : \E codes, chars : m = Message(codes, h, chars)
    <3>1. PICK at \in InOrder(l) : m \in UNION {Joined(l, at, h) : h \in Heads(l[at[2]])}
      BY <2>1 DEF OfSeveral
    <3>2. PICK h \in Heads(l[at[2]]) : m \in Joined(l, at, h)
      BY <3>1
    <3>3. \E codes, chars : m = Message(codes, h, chars)
      BY <3>2 DEF Joined
    <3> QED
      BY <3>2, <3>3
  <2>3. at[2] \in DOMAIN l
    BY <2>2 DEF InOrder
  <2>4. l[at[2]] \in Contents
    BY <2>1, <2>3
  <2> QED
    BY <2>2, <2>4, TextOfHead
<1> QED
  BY <1>1, <1>2 DEF AllMessages

LEMMA ExtractKeeps ==
  ASSUME TextInv, NEW m \in AllMessages, m.piece # NoData, m.piece.of = "text", ExtractRT(m.piece)
  PROVE  /\ rtBuf' = [i \in TextSegs |-> rtBuf'[i]] /\ rtNeeded' \in BOOLEAN
         /\ heard' \subseteq Texts \cup {NoData} /\ heard' # {}
         /\ \A t \in Texts : heard' = {t} => (rtNeeded' /\ Received(t)') \/ (~rtNeeded' /\ rtDisplay' = t.pieces)
<1> DEFINE t   == m.piece.text
           s   == m.piece.seg
           c   == m.piece.chars
           have == GotAtMark(t) \cup {s}
           end == EndAfter(t, s, c)
           buf == [BufAtMark(t) EXCEPT ![s] = c]
           all == WholeText(have, end)
<1>1. t \in Texts /\ s \in 1 .. Len(t.pieces)
  BY TextMessage
<1>2. /\ Len(t.pieces) \in 1 .. TEXTLEN /\ TEXTLEN \in Nat
      /\ t.pieces = [i \in 1 .. Len(t.pieces) |-> t.pieces[i]]
      /\ \A i \in 1 .. Len(t.pieces) : t.pieces[i] \in Ending => i = Len(t.pieces)
  BY <1>1, TextShape
<1>3. s \in TextSegs
  BY <1>1, <1>2 DEF TextSegs
<1>4. /\ rtGot' = (IF all THEN {} ELSE have) /\ rtEnd' = (IF all THEN NoData ELSE end)
      /\ rtBuf' = (IF all THEN EmptyText ELSE buf)
      /\ rtNeeded' = (NeededAtMark(t) /\ ~all)
      /\ rtDisplay' = (IF all /\ NeededAtMark(t) THEN SubSeq(buf, 1, end) ELSE rtDisplay)
      /\ heard' = (IF rtMark = Mark(t) THEN heard ELSE {}) \cup {IF c = t.pieces[s] THEN t ELSE NoData}
  BY DEF ExtractRT
<1>5. BufAtMark(t) = [i \in TextSegs |-> BufAtMark(t)[i]] /\ NeededAtMark(t) \in BOOLEAN
  <2>1. EmptyText = [i \in TextSegs |-> EmptyText[i]]
    BY DEF EmptyText
  <2> QED
    BY <2>1 DEF TextInv, BufAtMark, NeededAtMark
<1>6. buf = [i \in TextSegs |-> buf[i]] /\ \A i \in TextSegs : buf[i] = IF i = s THEN c ELSE BufAtMark(t)[i]
  BY <1>3, <1>5
<1>7. rtBuf' = [i \in TextSegs |-> rtBuf'[i]]
  BY <1>4, <1>6 DEF EmptyText
<1>8. rtNeeded' \in BOOLEAN /\ heard' \subseteq Texts \cup {NoData} /\ heard' # {}
  BY <1>1, <1>4, <1>5 DEF TextInv
<1>9. ASSUME NEW u \in Texts, heard' = {u}
      PROVE  (rtNeeded' /\ Received(u)') \/ (~rtNeeded' /\ rtDisplay' = u.pieces)
  <2>1. u = t /\ c = t.pieces[s] /\ (rtMark = Mark(t) => heard = {} \/ heard = {t})
    BY <1>4, <1>9 DEF Texts
  <2>2. \/ /\ NeededAtMark(t) /\ GotAtMark(t) \subseteq 1 .. Len(t.pieces)
           /\ \A i \in GotAtMark(t) : BufAtMark(t)[i] = t.pieces[i]
           /\ EndAtMark(t) \in {NoData, Len(t.pieces)}
        \/ /\ ~NeededAtMark(t) /\ rtDisplay = t.pieces
    <3>1. CASE rtMark # Mark(t)
      BY <3>1 DEF GotAtMark, NeededAtMark, EndAtMark
    <3>2. CASE rtMark = Mark(t) /\ heard = {}
      BY <3>2 DEF GotAtMark, NeededAtMark, EndAtMark, TextInv
    <3>3. CASE rtMark = Mark(t) /\ heard = {t}
      BY <1>1, <3>3 DEF GotAtMark, NeededAtMark, EndAtMark, BufAtMark, TextInv, Received
    <3> QED
      BY <2>1, <3>1, <3>2, <3>3
  <2>3. CASE ~NeededAtMark(t)
    BY <1>4, <2>1, <2>2, <2>3
  <2>4. CASE NeededAtMark(t)
    <3>1. /\ GotAtMark(t) \subseteq 1 .. Len(t.pieces) /\ EndAtMark(t) \in {NoData, Len(t.pieces)}
          /\ \A i \in GotAtMark(t) : BufAtMark(t)[i] = t.pieces[i]
      BY <2>2, <2>4
    <3>2. have \subseteq 1 .. Len(t.pieces) /\ end \in {NoData, Len(t.pieces)}
      BY <1>1, <1>2, <2>1, <3>1 DEF EndAfter
    <3>3. \A i \in have : buf[i] = t.pieces[i]
      BY <1>1, <1>2, <1>6, <2>1, <3>1 DEF TextSegs
    <3>4. CASE all
      <4>1. end = Len(t.pieces) /\ have = 1 .. end
        BY <3>2, <3>4 DEF WholeText
      <4> HIDE DEF buf, end, have
      <4>2. SubSeq(buf, 1, end) = [i \in 1 .. end |-> buf[i]]
        BY <1>2, <4>1
      <4>3. SubSeq(buf, 1, end) = t.pieces
        BY <1>2, <3>3, <4>1, <4>2
      <4> QED
        BY <1>4, <2>1, <2>4, <3>4, <4>3
    <3>5. CASE ~all
      BY <1>4, <2>1, <2>4, <3>2, <3>3, <3>5 DEF Received
    <3> QED
      BY <3>4, <3>5
  <2> QED
    BY <1>5, <2>3, <2>4
<1> QED
  BY <1>7, <1>8, <1>9

LEMMA TextInvInit == RdsInit => TextInv
<1> SUFFICES ASSUME RdsInit PROVE TextInv
  OBVIOUS
<1>1. batch \in Seq(AllMessages) /\ lately \in Seq(Contents)
  BY DEF RdsInit, Contents
<1>2. rtBuf = [i \in TextSegs |-> rtBuf[i]] /\ rtNeeded \in BOOLEAN
  BY DEF RdsInit, EmptyText
<1>3. heard = {NoData} /\ NoData \notin Texts
  BY DEF RdsInit, Texts
<1> QED
  BY <1>1, <1>2, <1>3 DEF RdsInit, TextInv

LEMMA TextInvNext == TextInv /\ [RdsNext]_rdsVars => TextInv'
<1> SUFFICES ASSUME TextInv, [RdsNext]_rdsVars PROVE TextInv'
  OBVIOUS
<1>1. ASSUME UNCHANGED text, air' = air, now' \in air,
             lately' \in Seq(Contents), batch' \in Seq(AllMessages)
      PROVE  TextInv'
  BY <1>1 DEF TextInv, text, Received
<1>2. CASE ChangeNow
  <2>1. now' \in Contents
    BY <1>2 DEF ChangeNow, TextInv, Contents
  <2> QED
    BY <1>1, <1>2, <2>1 DEF ChangeNow, TextInv, name, text
<1>3. CASE OpenRds
  BY <1>1, <1>3 DEF OpenRds, TextInv, tuned, tuner
<1>4. CASE CloseRds
  <2>1. /\ rtGot' = {} /\ rtEnd' = NoData /\ rtNeeded' = TRUE /\ heard' = {}
        /\ rtBuf' = EmptyText /\ UNCHANGED <<air, now, lately, batch>>
    BY <1>4 DEF CloseRds, tuned, tuner
  <2>2. rtBuf' = [i \in TextSegs |-> rtBuf'[i]]
    BY <2>1 DEF EmptyText
  <2> QED
    BY <2>1, <2>2 DEF TextInv
<1>5. CASE Fetch
  <2>1. PICK n \in 0 .. BATCH : \E ms \in [1 .. n -> Messages] : FetchBatch(ms)
    BY <1>5 DEF Fetch
  <2>2. PICK ms \in [1 .. n -> Messages] : FetchBatch(ms)
    BY <2>1
  <2>3. Messages \subseteq AllMessages
    <3>1. \A i \in DOMAIN lately : lately[i] \in Contents
      BY DEF TextInv
    <3> QED
      BY <3>1 DEF TextInv, Messages, Whole, AllMessages
  <2>4. n \in Nat
    BY RdsAssumption
  <2>5. ms \in Seq(AllMessages)
    BY <2>2, <2>3, <2>4
  <2>6. lately' \in Seq(Contents)
    BY <2>2 DEF FetchBatch, TextInv, Contents
  <2> QED
    BY <1>1, <2>2, <2>5, <2>6 DEF FetchBatch, TextInv, tuned
<1>6. CASE ParseMessage
  <2>1. Head(batch) \in AllMessages /\ Tail(batch) \in Seq(AllMessages)
    BY <1>6 DEF ParseMessage, TextInv
  <2>2. CASE UNCHANGED text
    BY <1>1, <1>6, <2>1, <2>2 DEF ParseMessage, TextInv, tuned, tuner
  <2>3. CASE Head(batch).piece # NoData /\ Head(batch).piece.of = "text" /\ ExtractRT(Head(batch).piece)
    <3>1. /\ rtBuf' = [i \in TextSegs |-> rtBuf'[i]] /\ rtNeeded' \in BOOLEAN
          /\ heard' \subseteq Texts \cup {NoData} /\ heard' # {}
          /\ \A t \in Texts : heard' = {t} => (rtNeeded' /\ Received(t)') \/ (~rtNeeded' /\ rtDisplay' = t.pieces)
      BY <2>1, <2>3, ExtractKeeps
    <3>2. UNCHANGED <<air, now, lately>> /\ batch' = Tail(batch)
      BY <1>6 DEF ParseMessage, tuned, tuner
    <3> QED
      BY <2>1, <3>1, <3>2 DEF TextInv
  <2>4. \/ Head(batch).piece = NoData /\ UNCHANGED <<name, text>>
        \/ Head(batch).piece # NoData /\ Head(batch).piece.of = "name" /\ ExtractPs(Head(batch).piece)
        \/ Head(batch).piece # NoData /\ Head(batch).piece.of = "text" /\ ExtractRT(Head(batch).piece)
    BY <1>6 DEF ParseMessage
  <2>5. ASSUME ExtractPs(Head(batch).piece) PROVE UNCHANGED text
    BY <2>5 DEF ExtractPs
  <2> QED
    BY <2>2, <2>3, <2>4, <2>5
<1>7. CASE UNCHANGED rdsVars
  BY <1>1, <1>7 DEF rdsVars, tuned, tuner, TextInv
<1> QED
  BY <1>2, <1>3, <1>4, <1>5, <1>6, <1>7 DEF RdsNext

(* For every set of contents, every length of texts and every interleaving *)
(* of changes, fetches and RDS on and off, with messages joined from any   *)
(* groups of any stations: a text is shown whole and with nothing of       *)
(* another while nothing else was heard under its mark.                    *)
THEOREM ShownTextIsOne == RdsSpec => []TextIsOne
<1>1. TextInv => TextIsOne
  BY DEF TextInv, TextIsOne
<1>2. RdsInit => TextInv
  BY TextInvInit
<1>3. TextInv /\ [RdsNext]_rdsVars => TextInv'
  BY TextInvNext
<1> QED
  BY <1>1, <1>2, <1>3, PTL DEF RdsSpec
=============================================================================
