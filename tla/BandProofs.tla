----------------------------- MODULE BandProofs -----------------------------
(* The steps of a seek and of a scan over the frequencies of a band.       *)
EXTENDS Band, TLAPS

(* Between two multiples of k there is room for k. *)
LEMMA StepFits ==
  ASSUME NEW k \in Nat, NEW i \in Nat, NEW n \in Nat, k * i < k * n
  PROVE  k * i + k <= k * n
<1>1. i < n
  <2>1. ASSUME n <= i PROVE FALSE
    <3> DEFINE d == i - n
    <3>1. d \in Nat /\ i = n + d
      BY <2>1
    <3>2. k * (n + d) = k * n + k * d /\ k * d \in Nat
      BY <3>1
    <3> QED BY <3>1, <3>2
  <2> QED BY <2>1
<1> DEFINE d == n - i - 1
<1>2. d \in Nat /\ n = i + 1 + d
  BY <1>1
<1>3. k * (i + 1 + d) = k * i + k + k * d /\ k * d \in Nat
  BY <1>2
<1> QED BY <1>2, <1>3

(* A multiple has no remainder. *)
LEMMA Multiple ==
  ASSUME NEW k \in Nat \ {0}, NEW i \in Nat
  PROVE  (k * i) % k = 0 /\ k * i \in Nat
<1>1. (k * i) % k = 0
  OBVIOUS
<1>2. k * i \in Nat
  OBVIOUS
<1> QED BY <1>1, <1>2

(* Whole division with its remainder. *)
LEMMA Divided ==
  ASSUME NEW k \in Nat \ {0}, NEW x \in Nat
  PROVE  /\ x = k * (x \div k) + (x % k)
         /\ x \div k \in Nat /\ x % k \in 0 .. k - 1
OBVIOUS

(* Two distances on a step: one more step is on a step, and within the     *)
(* greater one.                                                            *)
LEMMA StepUp ==
  ASSUME NEW k \in Nat \ {0}, NEW x \in Nat, NEW y \in Nat,
         x % k = 0, y % k = 0, x < y
  PROVE  x + k <= y /\ (x + k) % k = 0
<1> DEFINE i == x \div k
           n == y \div k
<1>1. i \in Nat /\ n \in Nat /\ x = k * i /\ y = k * n
  BY Divided
<1>2. k * i + k <= k * n
  BY <1>1, StepFits
<1>3. k * i + k = k * (i + 1)
  BY <1>1
<1>4. (k * (i + 1)) % k = 0
  BY <1>1, Multiple
<1> HIDE DEF i, n
<1> QED BY <1>1, <1>2, <1>3, <1>4

(* One step less is on a step, and not below 0. *)
LEMMA StepDown ==
  ASSUME NEW k \in Nat \ {0}, NEW x \in Nat, x % k = 0, 0 < x
  PROVE  x - k \in Nat /\ (x - k) % k = 0
<1> DEFINE i == x \div k
<1>1. i \in Nat /\ x = k * i
  BY Divided
<1>2. i # 0
  <2>1. k * 0 = 0
    OBVIOUS
  <2> HIDE DEF i
  <2> QED BY <1>1, <2>1
<1>3. i - 1 \in Nat /\ k * (i - 1) = k * i - k
  BY <1>1, <1>2
<1> HIDE DEF i
<1> DEFINE j == i - 1
<1>4. j \in Nat /\ k * j = x - k
  BY <1>1, <1>3
<1> HIDE DEF j
<1>5. (k * j) % k = 0 /\ k * j \in Nat
  BY <1>4, Multiple
<1> QED BY <1>4, <1>5

(* The frequencies of a band. *)
LEMMA GridRange ==
  ASSUME NEW c, IsBand(c), NEW f \in Grid(c)
  PROVE  f \in Nat /\ c.start <= f /\ f <= c.end
<1>1. f \in c.start .. c.end
  BY DEF Grid
<1> QED
  BY <1>1 DEF IsBand

(* getFreqCounter never leaves the frequencies of the band. *)
THEOREM NextFreqOnGrid ==
  ASSUME NEW c, IsBand(c), NEW f \in Grid(c), NEW down \in BOOLEAN
  PROVE  NextFreq(c, f, down) \in Grid(c)
<1> DEFINE s == c.start
           e == c.end
           k == c.step
<1>1. s \in Nat /\ e \in Nat /\ k \in Nat \ {0} /\ s < e /\ (e - s) % k = 0
  BY DEF IsBand
<1>2. f \in s .. e /\ (f - s) % k = 0
  BY DEF Grid, OnStep
<1>3. (s - s) % k = 0
  BY <1>1, Multiple, k * 0 = 0
<1>4. f < e => f + k <= e /\ (f + k - s) % k = 0
  <2> SUFFICES ASSUME f < e PROVE f + k <= e /\ (f + k - s) % k = 0
    OBVIOUS
  <2> DEFINE x == f - s
             y == e - s
  <2>1. x \in Nat /\ y \in Nat /\ x < y /\ x % k = 0 /\ y % k = 0
    BY <1>1, <1>2
  <2>2. x + k <= y /\ (x + k) % k = 0
    <3> HIDE DEF x, y, k
    <3> QED BY <1>1, <2>1, StepUp
  <2>3. x + k = f + k - s
    BY <1>1, <1>2
  <2> QED BY <1>1, <1>2, <2>2, <2>3
<1>5. f > s => f - k >= s /\ (f - k - s) % k = 0
  <2> SUFFICES ASSUME f > s PROVE f - k >= s /\ (f - k - s) % k = 0
    OBVIOUS
  <2> DEFINE x == f - s
  <2>1. x \in Nat /\ 0 < x /\ x % k = 0
    BY <1>1, <1>2
  <2>2. x - k \in Nat /\ (x - k) % k = 0
    <3> HIDE DEF x, k
    <3> QED BY <1>1, <2>1, StepDown
  <2>3. x - k = f - k - s
    BY <1>1, <1>2
  <2> QED BY <1>1, <1>2, <2>2, <2>3
<1> HIDE DEF s, e, k
<1>6. NextFreq(c, f, down) = IF down THEN IF f <= s THEN e ELSE f - k
                                     ELSE IF f >= e THEN s ELSE f + k
  BY DEF NextFreq, s, e, k
<1>7. Grid(c) = {g \in s .. e : (g - s) % k = 0}
  BY DEF Grid, OnStep, s, e, k
<1> QED BY <1>1, <1>2, <1>3, <1>4, <1>5, <1>6, <1>7

(* The steps next to a distance that is not on a step. *)
LEMMA StepsAround ==
  ASSUME NEW k \in Nat \ {0}, NEW x \in Nat, NEW y \in Nat,
         x <= y, y % k = 0, x % k # 0
  PROVE  /\ x - (x % k) \in 0 .. y /\ (x - (x % k)) % k = 0
         /\ x + (k - (x % k)) \in 0 .. y /\ (x + (k - (x % k))) % k = 0
<1> DEFINE i == x \div k
           r == x % k
           z == k * i
<1>1. i \in Nat /\ x = z + r /\ r \in 0 .. k - 1
  BY Divided
<1> HIDE DEF i, r
<1>2. z \in Nat /\ z % k = 0
  BY <1>1, Multiple
<1> HIDE DEF z
<1>3. z < y
  BY <1>1, <1>2 DEF r
<1>4. z + k <= y /\ (z + k) % k = 0
  BY <1>2, <1>3, StepUp
<1>5. x - r = z /\ x + (k - r) = z + k
  BY <1>1, <1>2
<1>6. /\ x - r \in 0 .. y /\ (x - r) % k = 0
      /\ x + (k - r) \in 0 .. y /\ (x + (k - r)) % k = 0
  BY <1>1, <1>2, <1>3, <1>4, <1>5
<1> QED BY <1>6 DEF r

(* Nor does it go below 0, even from a frequency between two of the band.  *)
LEMMA NextFreqNat ==
  ASSUME NEW c, IsBand(c), NEW f \in Nat, NEW down \in BOOLEAN
  PROVE  NextFreq(c, f, down) \in Nat
BY DEF NextFreq, IsBand

(* initSeek starts on a frequency of the band, wherever the tuner was. *)
THEOREM AlignOnGrid ==
  ASSUME NEW c, IsBand(c), NEW f \in Nat, NEW down \in BOOLEAN
  PROVE  Align(c, f, down) \in Grid(c)
<1> DEFINE s == c.start
           e == c.end
           k == c.step
           r == (f - s) % k
<1>1. s \in Nat /\ e \in Nat /\ k \in Nat \ {0} /\ s < e /\ (e - s) % k = 0
  BY DEF IsBand
<1>2. (s - s) % k = 0
  BY <1>1, Multiple, k * 0 = 0
<1>3. ASSUME s <= f, f <= e, r # 0
      PROVE  /\ f - r \in s .. e /\ (f - r - s) % k = 0
             /\ f + (k - r) \in s .. e /\ ((f + (k - r)) - s) % k = 0
  <2> DEFINE x == f - s
             y == e - s
  <2>1. x \in Nat /\ y \in Nat /\ x <= y /\ y % k = 0 /\ x % k = r
    BY <1>1, <1>3
  <2> HIDE DEF k, r
  <2>2. /\ x - r \in 0 .. y /\ (x - r) % k = 0
        /\ x + (k - r) \in 0 .. y /\ (x + (k - r)) % k = 0
    <3> HIDE DEF x, y
    <3> QED BY <1>1, <1>3, <2>1, StepsAround
  <2>3. r \in Nat /\ r < k
    <3> HIDE DEF x
    <3>1. x % k \in 0 .. k - 1
      BY <1>1, <2>1, Divided
    <3> QED BY <1>1, <2>1, <3>1
  <2> HIDE DEF s, e
  <2>4. x - r = f - r - s /\ x + (k - r) = (f + (k - r)) - s
    BY <1>1, <2>3
  <2> QED BY <1>1, <2>2, <2>3, <2>4
<1> HIDE DEF s, e, k
<1>4. Align(c, f, down) = IF f < s THEN s ELSE IF f > e THEN e
                          ELSE IF r = 0 THEN f ELSE IF down THEN f + (k - r) ELSE f - r
  BY DEF Align, OnStep, s, e, k
<1>5. Grid(c) = {g \in s .. e : (g - s) % k = 0}
  BY DEF Grid, OnStep, s, e, k
<1>6. CASE f < s \/ f > e
  BY <1>1, <1>2, <1>4, <1>5, <1>6
<1>7. CASE s <= f /\ f <= e /\ r = 0
  BY <1>1, <1>4, <1>5, <1>7
<1>8. CASE s <= f /\ f <= e /\ r # 0
  <2>1. Align(c, f, down) = IF down THEN f + (k - r) ELSE f - r
    <3> HIDE DEF r
    <3> QED BY <1>1, <1>4, <1>8
  <2> HIDE DEF r
  <2>2. Align(c, f, down) \in s .. e /\ (Align(c, f, down) - s) % k = 0
    <3>1. CASE down
      BY <1>3, <1>8, <2>1, <3>1
    <3>2. CASE ~down
      BY <1>3, <1>8, <2>1, <3>2
    <3> QED BY <3>1, <3>2
  <2> QED BY <1>5, <2>2
<1> QED BY <1>1, <1>6, <1>7, <1>8

(* One step up is never beyond the next frequency of the band. *)
LEMMA NextIsNearest ==
  ASSUME NEW c, IsBand(c), NEW f \in Grid(c), NEW g \in Grid(c), f < g
  PROVE  f + c.step <= g
<1>1. c.start \in Nat /\ c.step \in Nat \ {0}
  BY DEF IsBand
<1>2. f \in Nat /\ g \in Nat /\ c.start <= f /\ (f - c.start) % c.step = 0 /\ (g - c.start) % c.step = 0
  BY <1>1 DEF Grid, OnStep, IsBand
<1> DEFINE x == f - c.start
           y == g - c.start
<1>3. x \in Nat /\ y \in Nat /\ x % c.step = 0 /\ y % c.step = 0 /\ x < y
  BY <1>1, <1>2
<1>4. x + c.step <= y
  <2> HIDE DEF x, y
  <2> QED
    BY <1>1, <1>3, StepUp
<1> QED
  BY <1>1, <1>2, <1>4

LEMMA StartOnGrid == ASSUME NEW c, IsBand(c) PROVE c.start \in Grid(c)
<1>1. c.start \in Nat /\ c.step \in Nat \ {0} /\ c.start < c.end /\ c.end \in Nat
  BY DEF IsBand
<1>2. (c.start - c.start) % c.step = 0
  <2>1. c.step * 0 = 0 /\ c.start - c.start = 0
    BY <1>1
  <2> QED
    BY <1>1, <2>1, Multiple
<1> QED
  BY <1>1, <1>2 DEF Grid, OnStep

(* A frequency between the start s of a round upwards and where it is now, *)
(* f, with the wrap around at the end of the band. *)
Behind(s, f, g) == IF s < f THEN s < g /\ g < f ELSE s < g \/ g < f

(* A step of a round that is not over leaves behind what it has been at.   *)
LEMMA RoundGoesOn ==
  ASSUME NEW c, IsBand(c), NEW s \in Grid(c), NEW f \in Grid(c), f # s,
         NEW g \in Grid(c), g = f \/ Behind(s, f, g)
  PROVE  Behind(s, NextFreq(c, f, FALSE), g)
<1>1. /\ c.start \in Nat /\ c.end \in Nat /\ c.step \in Nat \ {0}
      /\ s \in Nat /\ f \in Nat /\ g \in Nat /\ c.start <= s /\ s <= c.end /\ c.start <= f
  BY GridRange DEF IsBand
<1>2. f < s => f + c.step <= s
  BY NextIsNearest
<1>3. CASE f >= c.end
  BY <1>1, <1>2, <1>3 DEF NextFreq, Behind
<1>4. CASE f < c.end
  BY <1>1, <1>2, <1>4 DEF NextFreq, Behind
<1>5. f >= c.end \/ f < c.end
  BY <1>1
<1> QED
  BY <1>3, <1>4, <1>5

(* The frequencies a round in either direction has left behind. *)
Passed(down, s, f, g) == IF down THEN Behind(f, s, g) ELSE Behind(s, f, g)

(* The step of a round that is not over passes where it was and no other.  *)
LEMMA RoundStep ==
  ASSUME NEW c, IsBand(c), NEW s \in Grid(c), NEW f \in Grid(c), f # s,
         NEW g \in Grid(c), NEW down \in BOOLEAN
  PROVE  Passed(down, s, NextFreq(c, f, down), g) <=> g = f \/ Passed(down, s, f, g)
<1>1. /\ c.start \in Nat /\ c.end \in Nat /\ c.step \in Nat \ {0}
      /\ s \in Nat /\ f \in Nat /\ g \in Nat
      /\ c.start <= s /\ s <= c.end /\ c.start <= f /\ f <= c.end /\ c.start <= g /\ g <= c.end
  BY GridRange DEF IsBand
<1>2. /\ f < s => f + c.step <= s
      /\ f < g => f + c.step <= g
      /\ s < f => s + c.step <= f
      /\ g < f => g + c.step <= f
  BY NextIsNearest
<1>3. CASE down
  <2>1. NextFreq(c, f, down) = IF f <= c.start THEN c.end ELSE f - c.step
    BY <1>3 DEF NextFreq
  <2>2. Passed(down, s, NextFreq(c, f, down), g) <=> Behind(NextFreq(c, f, down), s, g)
    BY <1>3 DEF Passed
  <2>3. Passed(down, s, f, g) <=> Behind(f, s, g)
    BY <1>3 DEF Passed
  <2>4. CASE f <= c.start
    <3>1. NextFreq(c, f, down) = c.end
      BY <2>1, <2>4
    <3>2. Behind(c.end, s, g) <=> g = f \/ Behind(f, s, g)
      BY <1>1, <2>4 DEF Behind
    <3> QED
      BY <2>2, <2>3, <3>1, <3>2
  <2>5. CASE c.start < f
    <3>1. NextFreq(c, f, down) = f - c.step
      BY <1>1, <2>1, <2>5
    <3>2. Behind(f - c.step, s, g) <=> g = f \/ Behind(f, s, g)
      BY <1>1, <1>2, <2>5 DEF Behind
    <3> QED
      BY <2>2, <2>3, <3>1, <3>2
  <2> QED
    BY <1>1, <2>4, <2>5
<1>4. CASE ~down
  <2>1. NextFreq(c, f, down) = IF f >= c.end THEN c.start ELSE f + c.step
    BY <1>4 DEF NextFreq
  <2> QED
    BY <1>1, <1>2, <1>4, <2>1 DEF Passed, Behind
<1> QED
  BY <1>3, <1>4

(* The first step passes nothing. *)
LEMMA RoundBegins ==
  ASSUME NEW c, IsBand(c), NEW s \in Grid(c), NEW g \in Grid(c), NEW down \in BOOLEAN
  PROVE  ~Passed(down, s, NextFreq(c, s, down), g)
<1>1. /\ c.start \in Nat /\ c.end \in Nat /\ c.step \in Nat \ {0} /\ c.start < c.end
      /\ s \in Nat /\ g \in Nat
      /\ c.start <= s /\ s <= c.end /\ c.start <= g /\ g <= c.end
  BY GridRange DEF IsBand
<1>2. (s < g => s + c.step <= g) /\ (g < s => g + c.step <= s)
  BY NextIsNearest
<1>3. CASE down
  <2>1. NextFreq(c, s, down) = IF s <= c.start THEN c.end ELSE s - c.step
    BY <1>3 DEF NextFreq
  <2>2. Passed(down, s, NextFreq(c, s, down), g) <=> Behind(NextFreq(c, s, down), s, g)
    BY <1>3 DEF Passed
  <2>4. CASE s <= c.start
    <3>1. NextFreq(c, s, down) = c.end
      BY <2>1, <2>4
    <3>2. ~Behind(c.end, s, g)
      BY <1>1, <2>4 DEF Behind
    <3> QED
      BY <2>2, <3>1, <3>2
  <2>5. CASE c.start < s
    <3>1. NextFreq(c, s, down) = s - c.step
      BY <1>1, <2>1, <2>5
    <3>2. ~Behind(s - c.step, s, g)
      BY <1>1, <1>2, <2>5 DEF Behind
    <3> QED
      BY <2>2, <3>1, <3>2
  <2> QED
    BY <1>1, <2>4, <2>5
<1>4. CASE ~down
  <2>1. NextFreq(c, s, down) = IF s >= c.end THEN c.start ELSE s + c.step
    BY <1>4 DEF NextFreq
  <2> QED
    BY <1>1, <1>2, <1>4, <2>1 DEF Passed, Behind
<1> QED
  BY <1>3, <1>4

(* A frequency is never passed before the round leaves it, and when the    *)
(* round is back at its start all the others are.                          *)
LEMMA RoundPassesAll ==
  ASSUME NEW c, IsBand(c), NEW s \in Grid(c), NEW f \in Grid(c), NEW down \in BOOLEAN
  PROVE  /\ ~Passed(down, s, f, f)
         /\ \A g \in Grid(c) : g # s => Passed(down, s, s, g)
<1>1. s \in Nat /\ f \in Nat /\ \A g \in Grid(c) : g \in Nat
  BY GridRange
<1> QED
  BY <1>1 DEF Passed, Behind
=============================================================================
