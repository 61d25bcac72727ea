------------------------------ MODULE SatArith ------------------------------
(***************************************************************************)
(* The saturating arithmetic of the HD radio framework,                    *)
(* hd/src/support/tchdr_std.c (tables stCast and stArith): every sum,      *)
(* difference, product and narrowing the framework makes on sizes,         *)
(* indices and times goes through it.  The functions of one family differ  *)
(* only in their width, so each family is one operator and the width is a  *)
(* constant.  Native C arithmetic on the width is Wrapped: a result out of *)
(* range comes back modulo 2^width.                                        *)
(***************************************************************************)
EXTENDS Integers

CONSTANT S_MAX         \* the largest signed value: 2^(width-1) - 1

ASSUME WidthAssumption == S_MAX \in Nat \ {0}

S_MIN == -S_MAX - 1
U_MAX == 2 * S_MAX + 1

Signed   == S_MIN .. S_MAX
Unsigned == 0 .. U_MAX

(* One native addition or subtraction overflows by less than 2^width. *)
WrapS(x) == IF x > S_MAX THEN x - (U_MAX + 1)
            ELSE IF x < S_MIN THEN x + (U_MAX + 1) ELSE x
WrapU(x) == IF x > U_MAX THEN x - (U_MAX + 1)
            ELSE IF x < 0 THEN x + (U_MAX + 1) ELSE x

(* The reference: the exact result, or the nearest value of the type. *)
Clamp(x, low, high) == IF x < low THEN low ELSE IF x > high THEN high ELSE x

-----------------------------------------------------------------------------

(* Wrong variant: the test of sadd kept in the difference. *)
SubTestedAsAdd(a, b) ==
  IF a < 0 THEN IF b > 0 /\ ~(a > WrapS(S_MIN - b)) THEN S_MIN ELSE WrapS(a - b)
           ELSE IF b > 0 \/ a < WrapS(S_MAX + b) THEN WrapS(a - b) ELSE S_MAX

(* tchdr_u32tos32, tchdr_u32tos16: to the signed type of the width. *)
u_to_s(in) == IF in < S_MAX THEN in ELSE S_MAX

(* tchdr_s32tou32, tchdr_slongtoulong. *)
s_to_u(in) == IF in > 0 THEN in ELSE 0

(* tchdr_u32tou16, tchdr_u32tou8: a wider unsigned into this width. *)
u_narrow(in) == IF in < U_MAX THEN in ELSE U_MAX

(* tchdr_s32add, tchdr_slongadd. *)
sadd(a, b) ==
  IF a < 0 THEN IF b < 0 /\ ~(a > WrapS(S_MIN - b)) THEN S_MIN ELSE WrapS(a + b)
           ELSE IF b < 0 \/ a < WrapS(S_MAX - b) THEN WrapS(a + b) ELSE S_MAX

(* tchdr_s32sub, tchdr_s64sub. *)
ssub(a, b) ==
  IF a < 0 THEN IF b > 0 /\ ~(a > WrapS(S_MIN + b)) THEN S_MIN ELSE WrapS(a - b)
           ELSE IF b > 0 \/ a < WrapS(S_MAX + b) THEN WrapS(a - b) ELSE S_MAX

(* tchdr_s16mul, tchdr_s32mul: the product is made in twice the width. *)
smul(a, b) ==
  LET tmp == a * b
  IN IF tmp >= 0 THEN (IF tmp < S_MAX THEN tmp ELSE S_MAX)
                 ELSE (IF tmp > S_MIN THEN tmp ELSE S_MIN)

(* tchdr_u08add, tchdr_u16add, tchdr_u32add. *)
uadd(a, b) == IF b < WrapU(U_MAX - a) THEN WrapU(a + b) ELSE U_MAX

(* tchdr_ulongadd. *)
ulongadd(a, b) == IF a < WrapU(U_MAX - b) THEN WrapU(a + b) ELSE U_MAX

(* tchdr_u32sub: a difference below zero is zero. *)
usub(a, b) == IF a > b THEN WrapU(a - b) ELSE 0

(* tchdr_u32mul: the product is made in twice the width. *)
umul(a, b) == IF a * b <= U_MAX THEN a * b ELSE U_MAX

(* tchdr_ulongmul: the widest type, so a division decides. *)
ulongmul(a, b) == IF a = 0 \/ b = 0 THEN 0
                  ELSE IF U_MAX \div b >= a THEN a * b ELSE U_MAX

-----------------------------------------------------------------------------

(* No sum or difference of two values of a type wraps around: it is exact, *)
(* or the bound on the side of the exact result.                           *)
SumsSaturate(a, b, c, d) ==
  /\ sadd(a, b) = Clamp(a + b, S_MIN, S_MAX)
  /\ ssub(a, b) = Clamp(a - b, S_MIN, S_MAX)
  /\ uadd(c, d) = Clamp(c + d, 0, U_MAX)
  /\ ulongadd(c, d) = Clamp(c + d, 0, U_MAX)
  /\ usub(c, d) = Clamp(c - d, 0, U_MAX)

(* Products saturate, and the two ways to detect an overflow agree. *)
ProductsSaturate(a, b, c, d) ==
  /\ smul(a, b) = Clamp(a * b, S_MIN, S_MAX)
  /\ umul(c, d) = Clamp(c * d, 0, U_MAX)
  /\ ulongmul(c, d) = umul(c, d)

(* A cast gives the nearest value of the target type, so a size that does  *)
(* not fit never turns into a negative number.                             *)
CastsClamp(a, c, wide) ==
  /\ u_to_s(c) = Clamp(c, S_MIN, S_MAX)
  /\ s_to_u(a) = Clamp(a, 0, U_MAX)
  /\ u_narrow(wide) = Clamp(wide, 0, U_MAX)
=============================================================================
