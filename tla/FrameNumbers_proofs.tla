------------------------- MODULE FrameNumbers_proofs ------------------------
(***************************************************************************)
(* Proofs about FrameNumbers: what the drive unpacks is what was commanded *)
(* for every number, not only for those that a run tries.                  *)
(***************************************************************************)
EXTENDS FrameNumbers, TLAPS

(* A number below top: the solvers do better without a range of numbers.   *)
Code(code, top) == code \in Int /\ 0 <= code /\ code < top

-----------------------------------------------------------------------------
(* Arithmetic the solver needs in small pieces.                            *)
LEMMA DivBounds ==
  ASSUME NEW n \in Int, NEW d \in Nat, d > 0
  PROVE  n \div d \in Int /\ d * (n \div d) <= n /\ n < d * (n \div d) + d
  OBVIOUS

LEMMA DivMod ==
  ASSUME NEW n \in Int, NEW d \in Nat, d > 0
  PROVE  /\ n \div d \in Int /\ n % d \in Int
         /\ n = d * (n \div d) + (n % d) /\ 0 <= n % d /\ n % d < d
  OBVIOUS

LEMMA TimesMonotone ==
  ASSUME NEW a \in Int, NEW b \in Int, NEW c \in Nat, a <= b
  PROVE  a * c <= b * c
  OBVIOUS

LEMMA TimesDifference ==
  ASSUME NEW a \in Int, NEW b \in Int, NEW c \in Int
  PROVE  (a - b) * c = a * c - b * c
  OBVIOUS

LEMMA QuotientAtLeast ==
  ASSUME NEW d \in Nat, d > 0, NEW q \in Int, NEW low \in Int, d * q + d > d * low
  PROVE  q >= low
  OBVIOUS

LEMMA QuotientAtMost ==
  ASSUME NEW d \in Nat, d > 0, NEW q \in Int, NEW top \in Nat, d * q <= d * top
  PROVE  q <= top
  OBVIOUS

-----------------------------------------------------------------------------
(* float_to_uint: the code fits its field and is the nearest one from      *)
(* below, saturated at the limits.                                         *)
RangeOf(range) ==
  /\ range.min \in Int /\ range.max \in Int /\ range.min < range.max
  /\ range.top \in Nat /\ range.top < 65536

(* ... for a number inside the range, ...                                  *)
LEMMA ScaledCode ==
  ASSUME NEW range, RangeOf(range), NEW c \in range.min .. range.max
  PROVE  LET code == (((c - range.min) * range.top) \div (range.max - range.min)) % 65536
             value == code * (range.max - range.min) + range.min * range.top
         IN  /\ code \in 0 .. range.top
             /\ c = range.max => code = range.top
             /\ c = range.min => code = 0
             /\ value <= c * range.top
             /\ c * range.top - value < range.max - range.min
<1>0. /\ range.min \in Int /\ range.max \in Int /\ range.min < range.max /\ c \in Int
      /\ range.top \in Nat /\ range.top < 65536 /\ range.min <= c /\ c <= range.max
  BY DEF RangeOf
<1> USE <1>0
<1> DEFINE d == range.max - range.min
           n == (c - range.min) * range.top
           q == n \div d
<1>1. /\ d \in Nat /\ d > 0 /\ n \in Int /\ c - range.min \in Nat /\ c - range.min <= d
  OBVIOUS
<1>2. n >= 0 /\ n <= d * range.top
  <2>1. 0 * range.top <= n
    BY <1>1, TimesMonotone
  <2>2. n <= d * range.top
    BY <1>1, TimesMonotone
  <2> HIDE DEF n, d
  <2> QED  BY <2>1, <2>2, <1>1
<1>3. q \in Int /\ d * q <= n /\ n < d * q + d
  <2> HIDE DEF n, d
  <2> QED  BY <1>1, DivBounds
<1>4. q >= 0 /\ q <= range.top
  <2> HIDE DEF q
  <2>1. d * q + d > d * 0
    <3> HIDE DEF n, d
    <3> QED BY <1>1, <1>2, <1>3
  <2>2. d * q <= d * range.top
    <3> HIDE DEF n, d
    <3> QED  BY <1>1, <1>2, <1>3
  <2> HIDE DEF n, d
  <2> QED  BY <1>1, <2>1, <2>2, <1>3, QuotientAtLeast, QuotientAtMost
<1>5. q % 65536 = q
  <2> HIDE DEF q
  <2> QED BY <1>4, <1>3
<1>6. c = range.max => q = range.top
  <2> SUFFICES ASSUME c = range.max PROVE q = range.top
    OBVIOUS
  <2>1. n = d * range.top
    OBVIOUS
  <2> HIDE DEF n, q, d
  <2> QED  BY <1>1, <1>3, <1>4, <2>1, QuotientAtLeast
<1>7. c = range.min => q = 0
  <2> SUFFICES ASSUME c = range.min PROVE q = 0
    OBVIOUS
  <2>1. n = 0
    OBVIOUS
  <2> HIDE DEF n, q, d
  <2>2. d * q <= d * 0
    BY <1>1, <1>3, <2>1
  <2> QED  BY <1>1, <1>3, <1>4, <2>2, QuotientAtMost
<1>8. /\ q * d + range.min * range.top <= c * range.top
      /\ c * range.top - (q * d + range.min * range.top) < d
  <2>1. n = c * range.top - range.min * range.top
    BY TimesDifference
  <2>2. q * d = d * q /\ q * d \in Int
    <3> HIDE DEF n, q, d
    <3> QED  BY <1>1, <1>3
  <2> DEFINE a == c * range.top
             b == range.min * range.top
             e == q * d
  <2>3. a \in Int /\ b \in Int
    OBVIOUS
  <2> HIDE DEF a, b, n, q, d
  <2> QED  BY <1>1, <1>3, <2>1, <2>2, <2>3 DEF a, b
<1> QED  BY <1>3, <1>4, <1>5, <1>6, <1>7, <1>8

(* ... and for any number, for NaN as well.                                *)
LEMMA NearestCode ==
  ASSUME NEW range, RangeOf(range), NEW x \in Number
  PROVE  /\ float_to_uint(x, range) \in 0 .. range.top
         /\ x # NaN => Nearest(float_to_uint(x, range), x, range)
<1>1. /\ range.min \in Int /\ range.max \in Int /\ range.min < range.max
      /\ range.top \in Nat
  BY DEF RangeOf
<1> DEFINE c == clamp(x, range)
<1>2. /\ c \in range.min .. range.max
      /\ x = NaN \/ x > range.max => c = range.max
      /\ x # NaN /\ x < range.min => c = range.min
      /\ x \in range.min .. range.max => c = x
  BY <1>1, NaNAssumption DEF clamp, Number
<1>3. float_to_uint(x, range)
        = (((c - range.min) * range.top) \div (range.max - range.min)) % 65536
  BY DEF float_to_uint
<1> HIDE DEF c
<1> DEFINE code == float_to_uint(x, range)
           value == code * (range.max - range.min) + range.min * range.top
<1>4. /\ code \in 0 .. range.top
      /\ c = range.max => code = range.top
      /\ c = range.min => code = 0
      /\ value <= c * range.top /\ c * range.top - value < range.max - range.min
  BY <1>2, <1>3, ScaledCode
<1>5. ASSUME x # NaN PROVE Nearest(code, x, range)
  <2> HIDE DEF code
  <2> QED  BY <1>1, <1>2, <1>4, <1>5 DEF Nearest, Number
<1> QED  BY <1>4, <1>5

(* The ranges of the five fields are ranges.                               *)
LEMMA Codes ==
  ASSUME NEW x \in Number
  PROVE  /\ Code(float_to_uint(x, MIT_P), 65536)
         /\ \A range \in {MIT_V, MIT_KP, MIT_KD, MIT_T} : Code(float_to_uint(x, range), 4096)
         /\ x # NaN => \A range \in {MIT_P, MIT_V, MIT_KP, MIT_KD, MIT_T} :
                         Nearest(float_to_uint(x, range), x, range)
<1>1. \A range \in {MIT_P, MIT_V, MIT_KP, MIT_KD, MIT_T} : RangeOf(range)
  BY SMT DEF RangeOf, MIT_P, MIT_V, MIT_KP, MIT_KD, MIT_T
<1>2. \A range \in {MIT_P, MIT_V, MIT_KP, MIT_KD, MIT_T} :
        /\ Code(float_to_uint(x, range), range.top + 1)
        /\ x # NaN => Nearest(float_to_uint(x, range), x, range)
  <2> TAKE range \in {MIT_P, MIT_V, MIT_KP, MIT_KD, MIT_T}
  <2>1. /\ range.top \in Nat /\ float_to_uint(x, range) \in 0 .. range.top
        /\ x # NaN => Nearest(float_to_uint(x, range), x, range)
    BY <1>1, NearestCode DEF RangeOf
  <2> QED  BY SMT, <2>1 DEF Code
<1>3. MIT_P.top + 1 = 65536
  BY SMT DEF MIT_P
<1>4. \A range \in {MIT_V, MIT_KP, MIT_KD, MIT_T} : range.top + 1 = 4096
  BY SMT DEF MIT_V, MIT_KP, MIT_KD, MIT_T
<1> QED  BY SMT, <1>2, <1>3, <1>4

-----------------------------------------------------------------------------
(* The two bytes of a code.                                                *)
LEMMA BytesApart ==
  ASSUME NEW code, Code(code, 65536)
  PROVE  /\ (code \div 256) % 256 = code \div 256
         /\ code = (code \div 256) * 256 + (code % 256)
<1> DEFINE h == code \div 256
           g == code % 256
<1>1. /\ h \in Int /\ g \in Int /\ code = h * 256 + g /\ 0 <= g /\ g < 256
  BY DivMod DEF Code
<1>2. 0 <= h /\ h < 256
  <2> HIDE DEF h, g
  <2> QED  BY <1>1 DEF Code
<1>3. h % 256 = h
  <2> HIDE DEF h
  <2> QED  BY <1>1, <1>2
<1> QED  BY <1>1, <1>3

(* The nibbles of two fields that share a byte come apart again.           *)
LEMMA NibblesApart ==
  ASSUME NEW low, Code(low, 4096), NEW high, Code(high, 4096)
  PROVE  /\ Low(low \div 16) * 16 + (((low % 16) * 16 + ((high \div 256) % 16)) \div 16) = low
         /\ (((low % 16) * 16 + ((high \div 256) % 16)) % 16) * 256 + Low(high) = high
<1> DEFINE a == low \div 16
           b == low % 16
           h == high \div 256
           g == high % 256
<1>1. /\ a \in Int /\ b \in Int /\ low = a * 16 + b /\ 0 <= b /\ b < 16
      /\ h \in Int /\ g \in Int /\ high = h * 256 + g /\ 0 <= g /\ g < 256
  BY DivMod DEF Code
<1> HIDE DEF a, b, h, g
<1>2. 0 <= a /\ a < 256 /\ 0 <= h /\ h < 16
  BY <1>1 DEF Code
<1>3. a % 256 = a /\ h % 16 = h
  BY <1>1, <1>2
<1>4. (b * 16 + h) \div 16 = b /\ (b * 16 + h) % 16 = h
  BY <1>1, <1>2
<1>5. Low(low \div 16) = a /\ Low(high) = g
  BY <1>3 DEF Low, a, g
<1> DEFINE shared == (low % 16) * 16 + ((high \div 256) % 16)
<1>6. shared = b * 16 + h
  BY <1>3 DEF b, h
<1> HIDE DEF shared
<1>7. shared \div 16 = b /\ shared % 16 = h
  BY <1>4, <1>6
<1>8. Low(low \div 16) * 16 + (shared \div 16) = low /\ (shared % 16) * 256 + Low(high) = high
  BY <1>1, <1>5, <1>7
<1> QED  BY <1>8 DEF shared

(* drive_mit undoes mit_frame.                                             *)
LEMMA MITRoundTrip ==
  ASSUME NEW p, Code(p, 65536), NEW v, Code(v, 4096), NEW kp, Code(kp, 4096),
         NEW kd, Code(kd, 4096), NEW t, Code(t, 4096)
  PROVE  drive_mit(mit_frame(p, v, kp, kd, t)) = <<p, v, kp, kd, t>>
<1> DEFINE data == mit_frame(p, v, kp, kd, t)
<1>1. /\ data[1] = Low(p \div 256) /\ data[2] = Low(p) /\ data[3] = Low(v \div 16)
      /\ data[4] = (v % 16) * 16 + ((kp \div 256) % 16)
      /\ data[5] = Low(kp) /\ data[6] = Low(kd \div 16)
      /\ data[7] = (kd % 16) * 16 + ((t \div 256) % 16)
      /\ data[8] = Low(t)
  BY SMT DEF mit_frame
<1> HIDE DEF data
<1>2. data[1] * 256 + data[2] = p
  BY <1>1, BytesApart DEF Low
<1>3. data[3] * 16 + (data[4] \div 16) = v
  BY <1>1, NibblesApart
<1>4. (data[4] % 16) * 256 + data[5] = kp
  BY <1>1, NibblesApart
<1>5. data[6] * 16 + (data[7] \div 16) = kd
  BY <1>1, NibblesApart
<1>6. (data[7] % 16) * 256 + data[8] = t
  BY <1>1, NibblesApart
<1> QED  BY <1>2, <1>3, <1>4, <1>5, <1>6, SMT DEF drive_mit, data

(* mit_codes undoes drive_report.                                          *)
LEMMA ReportRoundTrip ==
  ASSUME NEW p, Code(p, 65536), NEW v, Code(v, 4096), NEW t, Code(t, 4096)
  PROVE  mit_codes(drive_report(p, v, t)) = <<p, v, t>>
<1> DEFINE data == drive_report(p, v, t)
<1>1. /\ data[2] = Low(p \div 256) /\ data[3] = Low(p) /\ data[4] = Low(v \div 16)
      /\ data[5] = (v % 16) * 16 + ((t \div 256) % 16) /\ data[6] = Low(t)
  BY SMT DEF drive_report
<1> HIDE DEF data
<1>2. data[2] * 256 + data[3] = p
  BY <1>1, BytesApart DEF Low
<1>3. data[4] * 16 + (data[5] \div 16) = v
  BY <1>1, NibblesApart
<1>4. (data[5] % 16) * 256 + data[6] = t
  BY <1>1, NibblesApart
<1> QED  BY <1>2, <1>3, <1>4, SMT DEF mit_codes, data

(* Digit by digit, the long division stays exact: it represents n.         *)
Divides(digits, n) ==
  /\ digits[1] \in Nat /\ digits[2] \in Nat /\ digits[2] < Thousandth
  /\ digits[1] * Thousandth + digits[2] = n

LEMMA DivideOn ==
  ASSUME NEW digits, NEW n \in Nat, Divides(digits, n), NEW base \in {32, 64}
  PROVE  Divides(divide_on(digits, base), n * base)
<1> DEFINE q == (digits[2] * base) \div Thousandth
           r == (digits[2] * base) % Thousandth
<1>1. /\ divide_on(digits, base)[1] = digits[1] * base + q
      /\ divide_on(digits, base)[2] = r
  BY DEF divide_on
<1>2. /\ digits[1] \in Nat /\ digits[2] \in Nat /\ digits[2] * base \in Nat
      /\ digits[1] * Thousandth + digits[2] = n
  BY SMT DEF Divides
<1>3. /\ q \in Int /\ r \in Int /\ 0 <= r /\ r < Thousandth
      /\ digits[2] * base = Thousandth * q + r
  <2> Thousandth \in Nat /\ Thousandth > 0
    BY DEF Thousandth
  <2> QED  BY <1>2, DivMod
<1> HIDE DEF q, r
<1>4. q \in Nat
  BY SMT, <1>2, <1>3 DEF Thousandth
<1>5. (digits[1] * base + q) * Thousandth + r = n * base
  <2> DEFINE d1 == digits[1]
             d2 == digits[2]
  <2>1. /\ d1 \in Nat /\ d2 \in Nat /\ q \in Nat /\ r \in Int
        /\ d1 * Thousandth + d2 = n /\ d2 * base = Thousandth * q + r
    BY <1>2, <1>3, <1>4
  <2> HIDE DEF d1, d2
  <2>2. (d1 * base + q) * Thousandth + r = n * base
    <3>1. CASE base = 32
      BY <2>1, <3>1 DEF Thousandth
    <3>2. CASE base = 64
      BY <2>1, <3>2 DEF Thousandth
    <3> QED  BY <3>1, <3>2
  <2> QED  BY <2>2 DEF d1
<1> QED  BY SMT, <1>1, <1>2, <1>3, <1>4, <1>5 DEF Divides

(* The float quotient is off by half a unit in its last place.             *)
LEMMA RoundedQuotient ==
  ASSUME NEW m \in Nat, NEW base \in {32, 64}
  PROVE  LET q == rounded_quotient(m, base)
         IN  /\ q \in Nat
             /\ 2 * (q * Thousandth) - 2 * (m * 262144 * base) <= Thousandth
             /\ 2 * (m * 262144 * base) - 2 * (q * Thousandth) <= Thousandth
<1> DEFINE a == <<m \div Thousandth, m % Thousandth>>
           b == divide_on(a, 64)
           c == divide_on(b, 64)
           d == divide_on(c, 64)
           e == divide_on(d, base)
           q == IF 2 * e[2] > Thousandth THEN e[1] + 1 ELSE e[1]
<1>1. rounded_quotient(m, base) = q
  BY DEF rounded_quotient
<1>2. Divides(a, m)
  BY SMT DEF Divides, Thousandth
<1> HIDE DEF a
<1>3. Divides(b, m * 64)
  BY <1>2, DivideOn
<1> HIDE DEF b
<1>4. Divides(c, m * 64 * 64)
  BY <1>3, DivideOn
<1> HIDE DEF c
<1>5. Divides(d, m * 64 * 64 * 64)
  BY <1>4, DivideOn
<1> HIDE DEF d
<1> DEFINE n == m * 64 * 64 * 64
           exact == m * 262144 * base
<1>6. Divides(e, n * base)
  <2> n \in Nat
    OBVIOUS
  <2> HIDE DEF n
  <2> QED  BY <1>5, DivideOn DEF n
<1> HIDE DEF e
<1>7. n * base = exact /\ exact \in Nat
  OBVIOUS
<1> HIDE DEF n, exact
<1>8. /\ e[1] \in Nat /\ e[2] \in Nat /\ e[2] < Thousandth
      /\ e[1] * Thousandth + e[2] = exact
  BY SMT, <1>6, <1>7 DEF Divides
<1>9. /\ q \in Nat
      /\ 2 * (q * Thousandth) - 2 * exact <= Thousandth
      /\ 2 * exact - 2 * (q * Thousandth) <= Thousandth
  <2> DEFINE e1 == e[1]
             e2 == e[2]
  <2>1. /\ e1 \in Nat /\ e2 \in Nat /\ e2 < Thousandth /\ e1 * Thousandth + e2 = exact
        /\ q = IF 2 * e2 > Thousandth THEN e1 + 1 ELSE e1
    BY <1>8
  <2> HIDE DEF e1, e2, q
  <2> QED  BY SMT, <1>7, <2>1 DEF Thousandth
<1> QED  BY <1>1, <1>9 DEF exact

(* In exact thousandths a quotient is at most 13 / 128 too large, and not  *)
(* much too small.                                                         *)
LEMMA Thousandths ==
  ASSUME NEW m \in Nat, m = 0 \/ (8388608 <= m /\ m < 16777216)
  PROVE  /\ thousandths(m) \in Nat
         /\ 64 * thousandths(m) <= 125 * m + 13
         /\ 125 * m <= 64 * thousandths(m) + 165
         /\ m = 0 => thousandths(m) = 0
<1>1. CASE m < Thousandth
  <2> DEFINE q == rounded_quotient(m, 64)
  <2>1. /\ q \in Nat
        /\ 2 * (q * Thousandth) - 2 * (m * 262144 * 64) <= Thousandth
        /\ 2 * (m * 262144 * 64) - 2 * (q * Thousandth) <= Thousandth
    BY RoundedQuotient
  <2>2. thousandths(m) = q
    BY <1>1 DEF thousandths
  <2> HIDE DEF q
  <2> QED  BY SMT, <1>1, <2>1, <2>2 DEF Thousandth
<1>2. CASE ~(m < Thousandth)
  <2> DEFINE q == rounded_quotient(m, 32)
  <2>1. /\ q \in Nat
        /\ 2 * (q * Thousandth) - 2 * (m * 262144 * 32) <= Thousandth
        /\ 2 * (m * 262144 * 32) - 2 * (q * Thousandth) <= Thousandth
    BY RoundedQuotient
  <2>2. thousandths(m) = 2 * q
    BY <1>2 DEF thousandths
  <2> HIDE DEF q
  <2> QED  BY SMT, <1>2, <2>1, <2>2 DEF Thousandth
<1> QED  BY <1>1, <1>2

(* The magnitude of a scaled term that fits is truncated, and fits.        *)
LEMMA MagnitudeTruncated ==
  ASSUME NEW x \in Float, (125 * x.m) \div (64 * x.s) <= 32766
  PROVE  LET r == thousandths(x.m) \div x.s
         IN  /\ r \in Int /\ 0 <= r /\ r <= 32767
             /\ 64 * (x.s * r) - 125 * x.m <= x.s
             /\ 125 * x.m - 64 * (x.s * r) < 65 * x.s
<1> DEFINE m == x.m
           s == x.s
           k == thousandths(m)
           r == k \div s
           p == s * r
<1>1. m \in Nat /\ (m = 0 \/ (8388608 <= m /\ m < 16777216)) /\ s \in Nat /\ s > 0
  BY DEF Float
<1> HIDE DEF m, s
<1>2. /\ k \in Nat /\ 64 * k <= 125 * m + 13 /\ 125 * m <= 64 * k + 165
      /\ m = 0 => k = 0
  BY <1>1, Thousandths
<1> HIDE DEF k
<1>3. r \in Int /\ p <= k /\ k < p + s
  BY <1>1, <1>2, DivBounds
<1> HIDE DEF r
<1>4. p \in Int
  BY <1>1, <1>3
<1>5. 125 * m < 64 * s * 32767
  <2> DEFINE t == (125 * m) \div (64 * s)
  <2>1. 125 * m \in Int /\ 64 * s \in Nat /\ 64 * s > 0
    BY <1>1
  <2>2. t \in Int /\ 125 * m < (64 * s) * t + 64 * s /\ t <= 32766
    BY <2>1, DivBounds DEF m, s
  <2> HIDE DEF t
  <2>3. t * (64 * s) <= 32766 * (64 * s)
    BY <2>1, <2>2, TimesMonotone
  <2>4. (64 * s) * t = t * (64 * s)
    BY <2>1, <2>2
  <2>5. t * (64 * s) \in Int
    BY <2>1, <2>2
  <2> DEFINE u == t * (64 * s)
  <2> HIDE DEF u
  <2> QED  BY SMT, <1>1, <2>2, <2>3, <2>4, <2>5 DEF u
<1>6. 0 <= r
  <2>1. s * r + s > s * 0
    BY <1>1, <1>2, <1>3, <1>4
  <2> QED  BY <1>1, <1>3, <2>1, QuotientAtLeast
<1>7. r <= 32767
  <2>1. p <= s * 32767
    <3> HIDE DEF p
    <3> QED  BY SMT, <1>1, <1>2, <1>3, <1>4, <1>5
  <2> QED  BY <1>1, <1>3, <2>1, QuotientAtMost
<1>8. 64 * p - 125 * m <= s /\ 125 * m - 64 * p < 65 * s
  <2> HIDE DEF p
  <2>1. CASE m = 0
    BY SMT, <1>1, <1>2, <1>3, <1>4, <2>1
  <2>2. CASE m # 0
    BY SMT, <1>1, <1>2, <1>3, <1>4, <1>5, <2>2
  <2> QED  BY <2>1, <2>2
<1> QED  BY <1>3, <1>6, <1>7, <1>8 DEF m, s, k, r

(* A scaled term, through its two bytes.                                   *)
LEMMA TermTruncated ==
  ASSUME NEW x \in Float
  PROVE  Truncated(drive_int16(signal16(to_int16(x))[1], signal16(to_int16(x))[2]), x)
<1> DEFINE r == thousandths(x.m) \div x.s
           n == IF x.negative THEN -r ELSE r
           w == to_int16(x)
           data == signal16(w)
<1> SUFFICES ASSUME (125 * x.m) \div (64 * x.s) <= 32766
             PROVE  Truncated(drive_int16(data[1], data[2]), x)
  BY DEF Truncated
<1>0. /\ r \in Int /\ 0 <= r /\ r <= 32767
      /\ 64 * (x.s * r) - 125 * x.m <= x.s
      /\ 125 * x.m - 64 * (x.s * r) < 65 * x.s
  BY MagnitudeTruncated
<1>1. n \in Int /\ -32768 < n /\ n < 32768
  <2> HIDE DEF r
  <2> QED  BY <1>0
<1>2. w = n % 65536
  BY DEF to_int16
<1>8. (IF x.negative THEN -n ELSE n) = r
  <2> HIDE DEF r
  <2> QED  BY <1>0
<1> HIDE DEF n, r
<1>3. w = IF n >= 0 THEN n ELSE n + 65536
  <2> HIDE DEF w
  <2> QED  BY SMT, <1>1, <1>2
<1> HIDE DEF w
<1>4. data[1] = Low(w) /\ data[2] = Low(w \div 256)
  BY SMT DEF signal16
<1> HIDE DEF data
<1>5. Code(w, 65536)
  BY SMT, <1>1, <1>3 DEF Code
<1>6. data[1] + 256 * data[2] = w
  <2>1. data[2] = w \div 256
    BY SMT, <1>4, <1>5, BytesApart DEF Low
  <2> QED  BY SMT, <1>4, <1>5, <2>1, DivMod DEF Low, Code
<1>7. drive_int16(data[1], data[2]) = n
  BY SMT, <1>1, <1>3, <1>6 DEF drive_int16
<1> QED  BY <1>0, <1>7, <1>8 DEF Truncated

-----------------------------------------------------------------------------
(* None of the properties needs more than the step that packs: the message *)
(* in hand is packed once and then dropped.                                *)

(* For any numbers, NaN among them: every field of a MIT command arrives   *)
(* within one step, saturated, whatever the four others are.               *)
THEOREM NumbersMIT == NumbersSpec => []MITCommandArrives
<1>1. NumbersInit => MITCommandArrives
  BY DEF NumbersInit, MITCommandArrives, None
<1>2. ASSUME MITCommandArrives, [NumbersNext]_nvars
      PROVE  MITCommandArrives'
  <2>1. CASE send_mit
    <3>1. PICK p \in Position, v \in Velocity, kp \in Gain, kd \in Damping, t \in Torque :
            /\ command' = [mode |-> "mit", pos |-> p, vel |-> v, kp |-> kp, kd |-> kd,
                           torque |-> t]
            /\ frame' = mit_frame(float_to_uint(p, MIT_P), float_to_uint(v, MIT_V),
                                  float_to_uint(kp, MIT_KP), float_to_uint(kd, MIT_KD),
                                  float_to_uint(t, MIT_T))
      BY <2>1 DEF send_mit
    <3>2. /\ p \in Number /\ v \in Number /\ kp \in Number /\ kd \in Number /\ t \in Number
      BY NumberAssumption
    <3> DEFINE cp == float_to_uint(p, MIT_P)
               cv == float_to_uint(v, MIT_V)
               ckp == float_to_uint(kp, MIT_KP)
               ckd == float_to_uint(kd, MIT_KD)
               ct == float_to_uint(t, MIT_T)
    <3>3. /\ Code(cp, 65536) /\ Code(cv, 4096) /\ Code(ckp, 4096) /\ Code(ckd, 4096)
          /\ Code(ct, 4096)
      BY <3>2, Codes
    <3>4. /\ p # NaN => Nearest(cp, p, MIT_P)
          /\ v # NaN => Nearest(cv, v, MIT_V)
          /\ kp # NaN => Nearest(ckp, kp, MIT_KP)
          /\ kd # NaN => Nearest(ckd, kd, MIT_KD)
          /\ t # NaN => Nearest(ct, t, MIT_T)
      BY <3>2, Codes
    <3> HIDE DEF cp, cv, ckp, ckd, ct
    <3>5. frame' = mit_frame(cp, cv, ckp, ckd, ct)
      BY <3>1 DEF cp, cv, ckp, ckd, ct
    <3>6. drive_mit(frame') = <<cp, cv, ckp, ckd, ct>>
      BY <3>3, <3>5, MITRoundTrip
    <3> QED  BY SMT, <3>1, <3>4, <3>6 DEF MITCommandArrives
  <2>2. CASE send_position \/ encode_position \/ recv_mit \/ return
    BY <2>2 DEF send_position, encode_position, recv_mit, return, None, MITCommandArrives
  <2>3. CASE UNCHANGED nvars
    BY <1>2, <2>3 DEF nvars, MITCommandArrives
  <2> QED  BY <1>2, <2>1, <2>2, <2>3 DEF NumbersNext
<1> QED  BY <1>1, <1>2, PTL DEF NumbersSpec

(* For any codes of the drive: the estimates are theirs.                   *)
THEOREM NumbersFeedback == NumbersSpec => []FeedbackArrives
<1>1. NumbersInit => FeedbackArrives
  BY DEF NumbersInit, FeedbackArrives, None
<1>2. ASSUME FeedbackArrives, [NumbersNext]_nvars
      PROVE  FeedbackArrives'
  <2>1. CASE recv_mit
    <3>1. PICK p \in Raw, v \in {raw \in Raw : raw < 4096}, t \in {raw \in Raw : raw < 4096} :
            /\ command' = [mode |-> "feedback", pos |-> p, vel |-> v, torque |-> t]
            /\ frame' = drive_report(p, v, t)
      BY <2>1 DEF recv_mit
    <3>2. Code(p, 65536) /\ Code(v, 4096) /\ Code(t, 4096)
      BY SMT, NumberAssumption DEF Code
    <3>3. mit_codes(frame') = <<p, v, t>>
      BY <3>1, <3>2, ReportRoundTrip
    <3> DEFINE code == mit_codes(frame')
    <3>4. estimates' = << code[1] * 381 - 12500000, code[2] * 3175 - 6500000,
                          code[3] * 2442 - 5000000 >>
      BY <2>1, SMT DEF recv_mit
    <3>5. code[1] = p /\ code[2] = v /\ code[3] = t
      BY <3>3, SMT
    <3> HIDE DEF code
    <3> QED  BY SMT, <3>1, <3>4, <3>5 DEF FeedbackArrives
  <2>2. CASE send_mit \/ send_position \/ encode_position \/ return
    BY <2>2 DEF send_mit, send_position, encode_position, return, None, FeedbackArrives
  <2>3. CASE UNCHANGED nvars
    BY <1>2, <2>3 DEF nvars, FeedbackArrives
  <2> QED  BY <1>2, <2>1, <2>2, <2>3 DEF NumbersNext
<1> QED  BY <1>1, <1>2, PTL DEF NumbersSpec

(* For any feedforward terms: neither grows (beyond the rounding of its    *)
(* floats), loses more than a step, changes its sign or disturbs the other. *)
THEOREM NumbersScaled == NumbersSpec => []ScaledFeedforwardArrives
<1>1. NumbersInit => ScaledFeedforwardArrives
  BY DEF NumbersInit, ScaledFeedforwardArrives, None
<1>2. ASSUME ScaledFeedforwardArrives, [NumbersNext]_nvars
      PROVE  ScaledFeedforwardArrives'
  <2>1. CASE encode_position
    <3>1. PICK v \in Feedforward, t \in Feedforward :
            /\ command' = [mode |-> "plugin", vel |-> v, torque |-> t]
            /\ frame' = signal16(to_int16(v)) \o signal16(to_int16(t))
      BY <2>1 DEF encode_position
    <3>2. /\ frame'[1] = signal16(to_int16(v))[1] /\ frame'[2] = signal16(to_int16(v))[2]
          /\ frame'[3] = signal16(to_int16(t))[1] /\ frame'[4] = signal16(to_int16(t))[2]
      BY <3>1 DEF signal16
    <3> QED  BY <3>1, <3>2, NumberAssumption, TermTruncated DEF ScaledFeedforwardArrives
  <2>2. CASE send_mit \/ send_position \/ recv_mit \/ return
    BY <2>2 DEF send_mit, send_position, recv_mit, return, None, ScaledFeedforwardArrives
  <2>3. CASE UNCHANGED nvars
    BY <1>2, <2>3 DEF nvars, ScaledFeedforwardArrives
  <2> QED  BY <1>2, <2>1, <2>2, <2>3 DEF NumbersNext
<1> QED  BY <1>1, <1>2, PTL DEF NumbersSpec
=============================================================================
