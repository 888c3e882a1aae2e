------------------------------ MODULE MsecProofs ------------------------------
(***************************************************************************)
(* The arithmetic of the time values, for a msec_t of any width: remainder *)
(* and signed value, what the comparison of two wrapped times gives, and   *)
(* that a set of numbers has a least one.                                  *)
(***************************************************************************)
EXTENDS Msec, WellFoundedInduction, TLAPS

\* Quotient and remainder.
LEMMA DivMod ==
    ASSUME NEW mod \in Nat \ {0}, NEW x \in Int
    PROVE  /\ x \div mod \in Int
           /\ x % mod \in 0 .. mod - 1
           /\ x = mod * (x \div mod) + (x % mod)
OBVIOUS

\* The remainder is unique.
LEMMA Remainder ==
    ASSUME NEW mod \in Nat \ {0}, NEW x \in Int, NEW q \in Int, NEW r \in 0 .. mod - 1,
           x = mod * q + r
    PROVE  x % mod = r
<1> DEFINE p == x \div mod
           s == x % mod
<1>1. p \in Int /\ s \in 0 .. mod - 1 /\ mod * p + s = mod * q + r
  BY DivMod
<1> HIDE DEF p, s
<1>2. CASE p > q
  <2>1. mod * (p - q) >= mod
    BY <1>1, <1>2
  <2> QED BY <1>1, <2>1
<1>3. CASE p < q
  <2>1. mod * (q - p) >= mod
    BY <1>1, <1>3
  <2> QED BY <1>1, <2>1
<1>4. s = r
  BY <1>1, <1>2, <1>3
<1> QED BY <1>4 DEF s

\* A number that differs from d by a multiple of the modulus has d as its
\* signed value, if d is in the signed range.
LEMMA SignedExact ==
    ASSUME NEW mod \in Nat \ {0}, NEW d \in Int, -mod < 2 * d, 2 * d < mod,
           NEW q \in Int, NEW x \in Int, x = mod * q + d
    PROVE  Signed(x, mod) = d
<1>1. CASE d >= 0
  <2>1. x % mod = d
    BY <1>1, Remainder
  <2> QED BY <2>1 DEF Signed
<1>2. CASE d < 0
  <2>1. x = mod * (q - 1) + (d + mod) /\ d + mod \in 0 .. mod - 1 /\ q - 1 \in Int
    BY <1>2
  <2>2. x % mod = d + mod
    BY <2>1, Remainder
  <2> QED BY <2>2 DEF Signed
<1> QED BY <1>1, <1>2

\* The signed difference of two wrapped times is the difference of the times, if
\* these are less than half the range apart.
LEMMA MsecExact ==
    ASSUME NEW a \in Int, NEW b \in Int, -KeyMod < 2 * (a - b), 2 * (a - b) < KeyMod
    PROVE  msec_int(a % KeyMod, b % KeyMod) = a - b
<1> DEFINE p == a \div KeyMod
           q == b \div KeyMod
           u == a % KeyMod
           v == b % KeyMod
<1>1. KeyMod \in Nat \ {0}
  BY KeyModAssumption
<1>2. p \in Int /\ u \in Int /\ a = KeyMod * p + u
  BY <1>1, DivMod
<1>3. q \in Int /\ v \in Int /\ b = KeyMod * q + v
  BY <1>1, DivMod
<1> HIDE DEF p, q, u, v
<1> DEFINE d == a - b
           r == q - p
           x == u - v
<1>4. x = KeyMod * r + d /\ r \in Int /\ x \in Int /\ d \in Int /\ -KeyMod < 2 * d /\ 2 * d < KeyMod
  BY <1>1, <1>2, <1>3
<1>5. Signed(x, KeyMod) = d
  <2> HIDE DEF d, r, x
  <2> QED BY <1>1, <1>4, SignedExact
<1> QED BY <1>5 DEF msec_int, u, v

\* A set of numbers that is not empty has a least one.
LEMMA LeastNumber == ASSUME NEW T \in SUBSET Nat, T # {} PROVE \E x \in T : \A y \in T : x <= y
<1> DEFINE R == OpToRel(<, Nat)
<1>1. IsWellFoundedOn(R, Nat)
  BY NatLessThanWellFounded
<1>2. \A x, y \in Nat : y < x => <<y, x>> \in R
  BY DEF OpToRel
<1> HIDE DEF R
<1>3. PICK x \in T : \A y \in T : ~(<<y, x>> \in R)
  BY <1>1, WFMin
<1>4. ASSUME NEW y \in T PROVE x <= y
  <2>1. ~(y < x)
    BY <1>2, <1>3
  <2> QED BY <2>1
<1> QED BY <1>4

\* Keys stay in the range of msec_t.
LEMMA KeyType == \A x \in Int : x % KeyMod \in 0 .. KeyMod - 1
BY KeyModAssumption

\* Two keys in the lower half of the range are compared as they are.
LEMMA MsecLow ==
    ASSUME NEW a \in Nat, NEW b \in Nat, 2 * a < KeyMod, 2 * b < KeyMod
    PROVE  msec_int(a, b) = a - b
<1> DEFINE q == 0
           d == a - b
<1>1. /\ KeyMod \in Nat \ {0} /\ q \in Int /\ d \in Int
      /\ -KeyMod < 2 * d /\ 2 * d < KeyMod /\ d = KeyMod * q + d
  BY KeyModAssumption
<1>2. Signed(d, KeyMod) = d
  <2> HIDE DEF q, d
  <2> QED BY <1>1, SignedExact
<1> QED BY <1>2 DEF msec_int

\* A number below the modulus is its own remainder.
LEMMA ModLow == ASSUME NEW x \in Nat, x < KeyMod PROVE x % KeyMod = x
BY KeyModAssumption
=============================================================================
