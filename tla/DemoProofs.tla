----------------------------- MODULE DemoProofs -----------------------------
(* For every set of 14-bit coordinates: the loop in magnitude computes the     *)
(* integer square root, no index leaves the tables of findArctan and           *)
(* findArcsin, and the roll, the pitch and the face agree with the vector.     *)
EXTENDS Demo, TLAPS

-----------------------------------------------------------------------------
(* Arithmetic.                                                                 *)

\* A bit below all those of r is set by adding it, and what remains are
\* multiples of it.
LEMMA BitOfMultiple ==
  ASSUME NEW b \in Bits, NEW r \in Nat, r % (2 * b) = 0
  PROVE  /\ Or(r, b) = r + b
         /\ r % b = 0 /\ (r + b) % b = 0
         /\ b \div 2 \in Bits \cup {0}
         /\ b \div 2 # 0 => 2 * (b \div 2) = b
         /\ b \div 2 = 0 => b = 1
<1>1. CASE b \in {1, 2, 4, 8} BY <1>1, SMT DEF Or, Bits
<1>2. CASE b \in {16, 32, 64, 128} BY <1>2, SMT DEF Or, Bits
<1>3. CASE b \in {256, 512, 1024, 2048} BY <1>3, SMT DEF Or, Bits
<1>4. CASE b \in {4096, 8192, 16384} BY <1>4, SMT DEF Or, Bits
<1> QED BY <1>1, <1>2, <1>3, <1>4, SMT DEF Bits

LEMMA SquareOrder ==
  ASSUME NEW a \in Nat, NEW b \in Nat, a * a < b * b
  PROVE  a < b
<1>1. SUFFICES ASSUME a >= b PROVE a * a >= b * b
  BY <1>1, SMT
<1> QED BY <1>1

\* A quotient of two values, the divisor the larger one, scaled by 64.
LEMMA QuotientBound ==
  ASSUME NEW a \in Nat, NEW b \in Nat, b > 0, a <= b
  PROVE  (a * 64) \div b \in 0 .. 64
<1> DEFINE q == (a * 64) \div b
           m == (a * 64) % b
<1>1. q \in Int /\ m \in 0 .. b - 1 /\ a * 64 = b * q + m
  OBVIOUS
<1>2. q >= 0
  <2>1. SUFFICES ASSUME q <= -1 PROVE FALSE
    BY <1>1, SMT
  <2>2. b * q <= -b
    BY <1>1, <2>1
  <2> QED BY <1>1, <2>2
<1>3. q <= 64
  <2>1. SUFFICES ASSUME q >= 65 PROVE FALSE
    BY <1>1, SMT
  <2>2. b * q >= b * 65
    BY <1>1, <2>1
  <2> QED BY <1>1, <2>2
<1> QED BY <1>1, <1>2, <1>3

LEMMA SquareOfAbs ==
  ASSUME NEW v \in Int
  PROVE  Abs(v) \in Nat /\ Abs(v) * Abs(v) = v * v
BY DEF Abs

LEMMA SquareOfMagnitude ==
  ASSUME NEW a \in Nat, a <= 8192
  PROVE  a * a \in Nat /\ a * a <= 67108864 /\ (a >= 1 => a * a >= 1)
<1>1. a * a \in Nat /\ a * a <= a * 8192
  BY SMT
<1>2. a >= 1 => a * a >= a
  BY SMT
<1> QED BY <1>1, <1>2, SMT

LEMMA SquareOfAxis ==
  ASSUME NEW v \in Signed14
  PROVE  v * v \in Nat /\ v * v <= 67108864 /\ (v # 0 => v * v >= 1)
<1>1. v \in Int /\ Abs(v) \in Nat /\ Abs(v) <= 8192 /\ (v # 0 => Abs(v) >= 1)
  BY SMT DEF Abs, Signed14
<1>2. Abs(v) * Abs(v) = v * v
  BY <1>1, SquareOfAbs, SMT
<1>3. /\ Abs(v) * Abs(v) \in Nat /\ Abs(v) * Abs(v) <= 67108864
      /\ Abs(v) >= 1 => Abs(v) * Abs(v) >= 1
  BY <1>1, SquareOfMagnitude, SMT
<1> QED BY <1>1, <1>2, <1>3, SMT

LEMMA TangentInTable ==
  ASSUME NEW ux \in Nat, NEW uy \in Nat, uy > 0
  PROVE  Tangent(ux, uy) \in 0 .. 64
<1>1. CASE uy >= ux BY <1>1, QuotientBound DEF Tangent
<1>2. CASE ux > uy BY <1>2, QuotientBound DEF Tangent
<1> QED BY <1>1, <1>2

-----------------------------------------------------------------------------
(* The tables: the sines of the angle arctan gives an index, and of its        *)
(* complement.                                                                 *)

Low(t) == sinetable[arctan[t + 1] + 1]
High(t) == sinetable[91 - arctan[t + 1]]

\* The angle and its two sines are in range.
LEMMA AnglesInRange ==
  \A t \in 0 .. 64 : arctan[t + 1] \in 0 .. 46 /\ Low(t) \in 0 .. 128 /\ High(t) \in 4 .. 128
BY SMTT(60) DEF arctan, sinetable, Low, High

\* The ratio of the two sines is that of the index and 64.
LEMMA Ratios ==
  \A t \in 0 .. 64 : /\ (t + 1) * (High(t) - 4) <= 64 * (Low(t) + 4)
                     /\ 64 * (Low(t) - 4) <= t * (High(t) + 4)
BY SMTT(60) DEF arctan, sinetable, Low, High

\* Each sine is that of a right-angled triangle whose other sides are the index
\* and 64.
LEMMA LowSquares ==
  \A t \in 0 .. 64 : LET p == Low(t) IN
    /\ p > 4 => /\ ((p - 4) * (p - 4)) * (t * t + 4096) <= 16384 * (t * t)
                /\ (p - 4) * (p - 4) <= 512 * t
    /\ ((p + 4) * (p + 4)) * ((t + 1) * (t + 1) + 4096) >= 16384 * ((t + 1) * (t + 1))
BY SMTT(60) DEF arctan, sinetable, Low

LEMMA HighSquares ==
  \A t \in 0 .. 64 : LET q == High(t) IN
    /\ ((q - 4) * (q - 4)) * ((t + 1) * (t + 1) + 4096) <= 67108864
    /\ ((q - 4) * (q - 4)) * (t + 1) <= 2097152
    /\ ((q + 4) * (q + 4)) * (t * t + 4096) >= 67108864
BY SMTT(60) DEF arctan, sinetable, High

\* The sines of the ends of the table.
LEMMA Ends == sinetable[1] = 0 /\ \A r \in 0 .. 90 : sinetable[r + 1] \in 0 .. 128
BY SMTT(60) DEF sinetable
-----------------------------------------------------------------------------
(* Directions.                                                                 *)

\* The index of a ratio, as inequalities without a quotient.
LEMMA IndexOf ==
  ASSUME NEW lo \in Nat, NEW hi \in Nat, hi > 0, lo <= hi
  PROVE  LET t == (lo * 64) \div hi
         IN  t \in 0 .. 64 /\ t * hi <= 64 * lo /\ 64 * lo <= (t + 1) * hi
<1> DEFINE t == (lo * 64) \div hi
           m == (lo * 64) % hi
<1>1. t \in Int /\ m \in 0 .. hi - 1 /\ lo * 64 = hi * t + m
  OBVIOUS
<1> HIDE DEF t, m
<1>2. t >= 0
  <2>1. SUFFICES ASSUME t <= -1 PROVE FALSE
    BY <1>1, SMT
  <2>2. hi * t <= -hi
    BY <1>1, <2>1
  <2> QED BY <1>1, <2>2
<1>3. t <= 64
  <2>1. SUFFICES ASSUME t >= 65 PROVE FALSE
    BY <1>1, SMT
  <2>2. hi * t >= hi * 65
    BY <1>1, <2>1
  <2> QED BY <1>1, <2>2
<1>4. t * hi = hi * t /\ (t + 1) * hi = hi * t + hi
  BY <1>1
<1> QED BY <1>1, <1>2, <1>3, <1>4 DEF t

\* Products keep the order of their factors.
LEMMA ProductOrder ==
  ASSUME NEW a \in Int, NEW b \in Int, NEW c \in Nat, a <= b
  PROVE  a * c <= b * c
OBVIOUS

\* Two ratios that are on opposite sides of n to 64 are in order.
LEMMA RatioOrder ==
  ASSUME NEW lo \in Nat, NEW hi \in Nat, NEW n \in Nat, NEW a \in Int, NEW b \in Nat,
         64 * a <= n * b, n * hi <= 64 * lo
  PROVE  hi * a <= lo * b
<1>1. /\ 64 * a \in Int /\ n * b \in Int /\ n * hi \in Int /\ 64 * lo \in Int
      /\ hi * a \in Int /\ lo * b \in Int
  OBVIOUS
<1>2. (64 * a) * hi <= (n * b) * hi
  BY <1>1, ProductOrder, Zenon
<1>3. (n * hi) * b <= (64 * lo) * b
  BY <1>1, ProductOrder, Zenon
<1>4. (n * b) * hi = (n * hi) * b
  OBVIOUS
<1>5. (64 * a) * hi = 64 * (hi * a) /\ (64 * lo) * b = 64 * (lo * b)
  OBVIOUS
<1>6. (n * b) * hi \in Int
  OBVIOUS
<1>7. \A x, y, z \in Int : 64 * x <= z /\ z <= 64 * y => x <= y
  OBVIOUS
<1>8. 64 * (hi * a) <= (n * b) * hi /\ (n * b) * hi <= 64 * (lo * b)
  BY <1>2, <1>3, <1>4, <1>5, Zenon
<1> QED BY <1>1, <1>6, <1>7, <1>8, Zenon

LEMMA RatioOrderAbove ==
  ASSUME NEW lo \in Nat, NEW hi \in Nat, NEW n \in Nat, NEW a \in Nat, NEW b \in Nat,
         n * a <= 64 * b, 64 * lo <= n * hi
  PROVE  lo * a <= hi * b
<1>1. /\ 64 * b \in Int /\ n * a \in Int /\ n * hi \in Int /\ 64 * lo \in Int
      /\ lo * a \in Int /\ hi * b \in Int /\ (n * a) * hi \in Int
  OBVIOUS
<1>2. (64 * lo) * a <= (n * hi) * a
  BY <1>1, ProductOrder, Zenon
<1>3. (n * a) * hi <= (64 * b) * hi
  BY <1>1, ProductOrder, Zenon
<1>4. (n * a) * hi = (n * hi) * a
  OBVIOUS
<1>5. (64 * lo) * a = 64 * (lo * a) /\ (64 * b) * hi = 64 * (hi * b)
  OBVIOUS
<1>6. \A x, y, z \in Int : 64 * x <= z /\ z <= 64 * y => x <= y
  OBVIOUS
<1>7. 64 * (lo * a) <= (n * a) * hi /\ (n * a) * hi <= 64 * (hi * b)
  BY <1>2, <1>3, <1>4, <1>5, Zenon
<1> QED BY <1>1, <1>6, <1>7, Zenon
\* The two sines point where the ratio does.
LEMMA Direction ==
  ASSUME NEW lo \in Nat, NEW hi \in Nat, hi > 0, NEW t \in 0 .. 64,
         t * hi <= 64 * lo, 64 * lo <= (t + 1) * hi
  PROVE  LET p == Low(t)  q == High(t)
         IN  /\ hi * p - lo * q <= 4 * (lo + hi) /\ lo * q - hi * p <= 4 * (lo + hi)
             /\ hi * q + lo * p > 0
<1> DEFINE p == Low(t)
           q == High(t)
<1>1. /\ p \in 0 .. 128 /\ q \in 4 .. 128
      /\ (t + 1) * (q - 4) <= 64 * (p + 4) /\ 64 * (p - 4) <= t * (q + 4)
  BY AnglesInRange, Ratios
<1> HIDE DEF p, q
<1>2. /\ t \in Nat /\ t + 1 \in Nat /\ q - 4 \in Nat /\ p + 4 \in Nat /\ q + 4 \in Nat
      /\ p - 4 \in Int
  BY <1>1
<1>3. lo * (q - 4) <= hi * (p + 4)
  BY <1>1, <1>2, RatioOrderAbove, Zenon
<1>4. hi * (p - 4) <= lo * (q + 4)
  BY <1>1, <1>2, RatioOrder, Zenon
<1>5. hi * p - lo * q <= 4 * (lo + hi) /\ lo * q - hi * p <= 4 * (lo + hi)
  <2>1. /\ lo * (q - 4) = lo * q - 4 * lo /\ hi * (p + 4) = hi * p + 4 * hi
        /\ hi * (p - 4) = hi * p - 4 * hi /\ lo * (q + 4) = lo * q + 4 * lo
        /\ lo * q \in Int /\ hi * p \in Int
    BY <1>1
  <2> QED BY <1>3, <1>4, <2>1
<1>6. hi * q + lo * p > 0
  <2>1. hi * q >= hi * 4 /\ lo * p >= 0
    BY <1>1
  <2> QED BY <1>1, <2>1
<1> QED BY <1>5, <1>6 DEF p, q

\* The angle in the first quadrant and its sines.
LEMMA FirstAngle ==
  ASSUME NEW ux \in Nat, NEW uy \in Nat, uy > 0
  PROVE  LET r == FirstQuadrant(ux, uy)
             s == sinetable[r + 1]
             c == sinetable[91 - r]
         IN  /\ r \in 0 .. 90 /\ s \in 0 .. 128 /\ c \in 0 .. 128
             /\ ux * s - uy * c <= 4 * (ux + uy) /\ uy * c - ux * s <= 4 * (ux + uy)
             /\ ux * c + uy * s > 0
<1> DEFINE r == FirstQuadrant(ux, uy)
           s == sinetable[r + 1]
           c == sinetable[91 - r]
           t == Tangent(ux, uy)
           a == arctan[t + 1]
<1>1. CASE uy >= ux
  <2>1. t \in 0 .. 64 /\ t * uy <= 64 * ux /\ 64 * ux <= (t + 1) * uy
    BY <1>1, IndexOf DEF Tangent
  <2>2. a \in 0 .. 46 /\ r = 90 - a
    BY <1>1, <2>1, AnglesInRange DEF FirstQuadrant
  <2>3. r + 1 = 91 - a /\ 91 - r = a + 1 /\ r \in 0 .. 90
    BY <2>2
  <2>4. s = High(t) /\ c = Low(t)
    BY <2>3 DEF High, Low
  <2> HIDE DEF r, s, c, t, a
  <2>5. /\ uy * c - ux * s <= 4 * (ux + uy) /\ ux * s - uy * c <= 4 * (ux + uy)
        /\ uy * s + ux * c > 0
    BY <2>1, <2>4, Direction, Zenon
  <2>6. s \in 0 .. 128 /\ c \in 0 .. 128
    BY <2>1, <2>4, AnglesInRange
  <2>7. uy * s + ux * c = ux * c + uy * s
    BY <2>6
  <2> QED BY <2>3, <2>5, <2>6, <2>7, Zenon DEF r, s, c
<1>2. CASE ux > uy
  <2>1. t \in 0 .. 64 /\ t * ux <= 64 * uy /\ 64 * uy <= (t + 1) * ux
    BY <1>2, IndexOf DEF Tangent
  <2>2. a \in 0 .. 46 /\ r = a
    BY <1>2, <2>1, AnglesInRange DEF FirstQuadrant
  <2>3. r + 1 = a + 1 /\ 91 - r = 91 - a /\ r \in 0 .. 90
    BY <2>2
  <2>4. s = Low(t) /\ c = High(t)
    BY <2>3 DEF High, Low
  <2> HIDE DEF r, s, c, t, a
  <2>5. ux > 0 /\ 4 * (uy + ux) = 4 * (ux + uy)
    BY <1>2
  <2>6. /\ ux * s - uy * c <= 4 * (uy + ux) /\ uy * c - ux * s <= 4 * (uy + ux)
        /\ ux * c + uy * s > 0
    BY <2>1, <2>4, <2>5, Direction, Zenon
  <2>7. s \in 0 .. 128 /\ c \in 0 .. 128
    BY <2>1, <2>4, AnglesInRange
  <2> QED BY <2>3, <2>5, <2>6, <2>7, Zenon DEF r, s, c
<1> QED BY <1>1, <1>2, SMT

\* sine and cosine of an angle in each quadrant.
LEMMA Reflections ==
  ASSUME NEW r \in 0 .. 90
  PROVE  LET s == sinetable[r + 1]
             c == sinetable[91 - r]
         IN  /\ sine(r) = s /\ sine(-r) = -s /\ sine(180 - r) = s /\ sine(r - 180) = -s
             /\ cosine(r) = c /\ cosine(-r) = c
             /\ cosine(180 - r) = -c /\ cosine(r - 180) = -c
<1>1. sinetable[1] = 0 /\ sinetable[r + 1] \in Int /\ sinetable[91 - r] \in Int
  <2>1. 90 - r \in 0 .. 90 /\ 91 - r = (90 - r) + 1
    OBVIOUS
  <2>2. sinetable[r + 1] \in 0 .. 128 /\ sinetable[91 - r] \in 0 .. 128 /\ sinetable[1] = 0
    BY <2>1, Ends, Zenon
  <2> QED BY <2>2
<1>2. sine(r) = sinetable[r + 1] /\ sine(180 - r) = sinetable[r + 1]
  BY <1>1 DEF sine
<1>3. sine(-r) = -sinetable[r + 1] /\ sine(r - 180) = -sinetable[r + 1]
  BY <1>1 DEF sine
<1>4. cosine(r) = sinetable[91 - r] /\ cosine(-r) = sinetable[91 - r]
  BY <1>1 DEF cosine, Abs
<1>5. cosine(180 - r) = -sinetable[91 - r] /\ cosine(r - 180) = -sinetable[91 - r]
  BY <1>1 DEF cosine, Abs
<1> QED BY <1>2, <1>3, <1>4, <1>5
-----------------------------------------------------------------------------
(* The roll.                                                                   *)

LEMMA AbsSign ==
  ASSUME NEW v \in Int
  PROVE  /\ Abs(v) \in Nat /\ (v # 0 => Abs(v) > 0)
         /\ (v < 0 => Abs(v) = -v) /\ (v >= 0 => Abs(v) = v)
BY DEF Abs

\* The angle Roll makes of the one in the first quadrant points at the vector.
LEMMA RollDirection ==
  ASSUME NEW x \in Int, NEW y \in Int, y # 0
  PROVE  LET r == Roll(x, y, FirstQuadrant(Abs(x), Abs(y)))
         IN  r \in -180 .. 180 /\ PointsAt(r, x, y)
<1> DEFINE ux == Abs(x)
           uy == Abs(y)
           a == FirstQuadrant(ux, uy)
           s == sinetable[a + 1]
           c == sinetable[91 - a]
           r == Roll(x, y, a)
<1>1. /\ ux \in Nat /\ uy \in Nat /\ uy > 0
      /\ (x < 0 => ux = -x) /\ (x >= 0 => ux = x) /\ (y < 0 => uy = -y) /\ (y >= 0 => uy = y)
  BY AbsSign
<1>2. /\ a \in 0 .. 90 /\ s \in 0 .. 128 /\ c \in 0 .. 128
      /\ ux * s - uy * c <= 4 * (ux + uy) /\ uy * c - ux * s <= 4 * (ux + uy)
      /\ ux * c + uy * s > 0
  BY <1>1, FirstAngle, Zenon
<1>3. /\ sine(a) = s /\ sine(-a) = -s /\ sine(180 - a) = s /\ sine(a - 180) = -s
      /\ cosine(a) = c /\ cosine(-a) = c
      /\ cosine(180 - a) = -c /\ cosine(a - 180) = -c
  BY <1>2, Reflections, Zenon
<1>4. ASSUME NEW t \in Int, -t <= 4 * (ux + uy), t <= 4 * (ux + uy)
      PROVE  Abs(t) <= 4 * (ux + uy) + 4
  BY <1>1, <1>4, SMT DEF Abs
<1> HIDE DEF ux, uy, a, s, c
<1>5. /\ ux * s \in Int /\ uy * c \in Int /\ ux * c \in Int /\ uy * s \in Int
  BY <1>1, <1>2
<1>5a. \A m, n \in Int : m * (-n) = -(m * n) /\ (-m) * n = -(m * n) /\ (-m) * (-n) = m * n
  OBVIOUS
<1>5b. ux \in Int /\ uy \in Int /\ s \in Int /\ c \in Int
  BY <1>1, <1>2
<1>6. CASE y < 0 /\ x < 0
  <2>1. r = a - 180
    BY <1>6 DEF Roll
  <2>2. /\ x = -ux /\ y = -uy /\ sine(r) = -s /\ cosine(r) = -c /\ r \in -180 .. 180
    BY <1>1, <1>2, <1>3, <1>6, <2>1
  <2>3. /\ x * sine(r) = ux * s /\ y * cosine(r) = uy * c
        /\ x * cosine(r) = ux * c /\ y * sine(r) = uy * s
    BY <1>5a, <1>5b, <2>2
  <2> HIDE DEF r
  <2>4. Abs(x * sine(r) - y * cosine(r)) <= 4 * (ux + uy) + 4
    BY <1>2, <1>4, <1>5, <2>3
  <2>5. x * cosine(r) + y * sine(r) > 0
    BY <1>2, <2>3
  <2> QED BY <2>2, <2>4, <2>5, Zenon DEF PointsAt, ux, uy, a, r
<1>7. CASE y < 0 /\ x >= 0
  <2>1. r = -a
    BY <1>7 DEF Roll
  <2>2. /\ x = ux /\ y = -uy /\ sine(r) = -s /\ cosine(r) = c /\ r \in -180 .. 180
    BY <1>1, <1>2, <1>3, <1>7, <2>1
  <2>3. /\ x * sine(r) = -(ux * s) /\ y * cosine(r) = -(uy * c)
        /\ x * cosine(r) = ux * c /\ y * sine(r) = uy * s
    BY <1>5a, <1>5b, <2>2
  <2> HIDE DEF r
  <2>4. Abs(x * sine(r) - y * cosine(r)) <= 4 * (ux + uy) + 4
    BY <1>2, <1>4, <1>5, <2>3
  <2>5. x * cosine(r) + y * sine(r) > 0
    BY <1>2, <2>3
  <2> QED BY <2>2, <2>4, <2>5, Zenon DEF PointsAt, ux, uy, a, r
<1>8. CASE y >= 0 /\ x < 0
  <2>1. r = 180 - a
    BY <1>8 DEF Roll
  <2>2. /\ x = -ux /\ y = uy /\ sine(r) = s /\ cosine(r) = -c /\ r \in -180 .. 180
    BY <1>1, <1>2, <1>3, <1>8, <2>1
  <2>3. /\ x * sine(r) = -(ux * s) /\ y * cosine(r) = -(uy * c)
        /\ x * cosine(r) = ux * c /\ y * sine(r) = uy * s
    BY <1>5a, <1>5b, <2>2
  <2> HIDE DEF r
  <2>4. Abs(x * sine(r) - y * cosine(r)) <= 4 * (ux + uy) + 4
    BY <1>2, <1>4, <1>5, <2>3
  <2>5. x * cosine(r) + y * sine(r) > 0
    BY <1>2, <2>3
  <2> QED BY <2>2, <2>4, <2>5, Zenon DEF PointsAt, ux, uy, a, r
<1>9. CASE y >= 0 /\ x >= 0
  <2>1. r = a
    BY <1>9 DEF Roll
  <2>2. /\ x = ux /\ y = uy /\ sine(r) = s /\ cosine(r) = c /\ r \in -180 .. 180
    BY <1>1, <1>2, <1>3, <1>9, <2>1
  <2>3. /\ x * sine(r) = ux * s /\ y * cosine(r) = uy * c
        /\ x * cosine(r) = ux * c /\ y * sine(r) = uy * s
    BY <2>2
  <2> HIDE DEF r
  <2>4. Abs(x * sine(r) - y * cosine(r)) <= 4 * (ux + uy) + 4
    BY <1>2, <1>4, <1>5, <2>3
  <2>5. x * cosine(r) + y * sine(r) > 0
    BY <1>2, <2>3
  <2> QED BY <2>2, <2>4, <2>5, Zenon DEF PointsAt, ux, uy, a, r
<1> QED BY <1>6, <1>7, <1>8, <1>9
-----------------------------------------------------------------------------
(* The pitch.                                                                  *)

\* A positive factor cancels.
LEMMA Cancel ==
  ASSUME NEW k \in Nat, k > 0, NEW x \in Int, NEW y \in Int, x * k <= y * k
  PROVE  x <= y
<1>1. SUFFICES ASSUME x >= y + 1 PROVE FALSE
  BY <1>1, SMT
<1>2. (y + 1) * k <= x * k
  <2>1. y + 1 \in Int
    OBVIOUS
  <2> QED BY <1>1, <2>1, ProductOrder, Zenon
<1>3. (y + 1) * k = y * k + k /\ y * k \in Int
  OBVIOUS
<1> QED BY <1>2, <1>3

LEMMA SquareMonotone ==
  ASSUME NEW a \in Nat, NEW b \in Nat, a <= b
  PROVE  a * a <= b * b
<1>1. a * a <= b * a
  BY ProductOrder
<1>2. a * b <= b * b
  BY ProductOrder
<1> QED BY <1>1, <1>2

\* The longest side of a right-angled triangle, from above: the other sides are u
\* and at most r + 1, and r is at most u in the ratio of l and k.
LEMMA LongestAtMost ==
  ASSUME NEW u \in Nat, NEW r \in Nat, NEW k \in Nat, NEW l \in Nat, NEW a \in Nat,
         k > 0, k * r <= l * u,
         (a * a) * (k * k + l * l) <= 16384 * (k * k), (a * a) * l <= 32768 * k
  PROVE  (a * a) * (u * u + r * r + 2 * r) <= (128 * u + 256) * (128 * u + 256)
<1> DEFINE A == a * a
           K == k * k
           L == l * l
           U == u * u
           S == u * u + r * r + 2 * r
           T == 16384 * (u * u) + 65536 * u
           m == k * r
           n == l * u
           p == (l * k) * u
           q == k * u
<1>1. /\ A \in Nat /\ K \in Nat /\ L \in Nat /\ U \in Nat /\ S \in Nat /\ T \in Nat
      /\ m \in Nat /\ n \in Nat /\ p \in Nat /\ q \in Nat
  OBVIOUS
<1>2. m <= n /\ A * (K + L) <= 16384 * K /\ A * l <= 32768 * k
  OBVIOUS
<1>3. K > 0
  OBVIOUS
<1>4. S * K = U * K + m * m + 2 * (m * k) /\ n * n = U * L /\ n * k = p
  OBVIOUS
<1>5. p * A = (A * l) * q /\ (16384 * K) * U + 2 * ((32768 * k) * q) = T * K
  OBVIOUS
<1>6. T <= (128 * u + 256) * (128 * u + 256) /\ (128 * u + 256) * (128 * u + 256) \in Int
  OBVIOUS
<1> HIDE DEF A, K, L, U, S, T, m, n, p, q
<1>7. m * m <= n * n /\ m * k <= n * k
  BY <1>1, <1>2, SquareMonotone, ProductOrder
<1>8. S * K <= U * (K + L) + 2 * p
  <2>1. U * (K + L) = U * K + U * L
    BY <1>1
  <2> QED BY <1>1, <1>4, <1>7, <2>1
<1>9. (A * (K + L)) * U <= (16384 * K) * U
  <2>1. A * (K + L) \in Int /\ 16384 * K \in Int
    BY <1>1
  <2> QED BY <1>1, <1>2, <2>1, ProductOrder
<1>10. (A * l) * q <= (32768 * k) * q
  <2>1. A * l \in Int /\ 32768 * k \in Int
    BY <1>1
  <2> QED BY <1>1, <1>2, <2>1, ProductOrder
<1>11. (S * K) * A <= (U * (K + L) + 2 * p) * A
  <2>1. S * K \in Int /\ U * (K + L) + 2 * p \in Int
    BY <1>1
  <2> QED BY <1>1, <1>8, <2>1, ProductOrder
<1>12. /\ (U * (K + L) + 2 * p) * A = (A * (K + L)) * U + 2 * (p * A)
       /\ (S * K) * A = (A * S) * K
  BY <1>1
<1>13. (A * S) * K <= T * K
  BY <1>1, <1>5, <1>9, <1>10, <1>11, <1>12
<1>14. A * S <= T
  <2>1. A * S \in Int
    BY <1>1
  <2> QED BY <1>1, <1>3, <1>13, <2>1, Cancel
<1>15. A * S \in Int
  BY <1>1
<1> QED BY <1>1, <1>6, <1>14, <1>15 DEF A, S

\* From below: r is at least u in the ratio of l and k.
LEMMA LongestAtLeast ==
  ASSUME NEW u \in Nat, NEW r \in Nat, NEW k \in Nat, NEW l \in Nat, NEW b \in Nat,
         k > 0, l * u <= k * r, 16384 * (k * k) <= (b * b) * (k * k + l * l)
  PROVE  (128 * u) * (128 * u) <= (b * b) * (u * u + r * r)
<1> DEFINE B == b * b
           K == k * k
           L == l * l
           U == u * u
           S == u * u + r * r
           T == (128 * u) * (128 * u)
           m == k * r
           n == l * u
<1>1. /\ B \in Nat /\ K \in Nat /\ L \in Nat /\ U \in Nat /\ S \in Nat /\ T \in Nat
      /\ m \in Nat /\ n \in Nat
  OBVIOUS
<1>2. n <= m /\ 16384 * K <= B * (K + L) /\ K > 0
  OBVIOUS
<1>3. S * K = U * K + m * m /\ n * n = U * L /\ (16384 * K) * U = T * K
  OBVIOUS
<1> HIDE DEF B, K, L, U, S, T, m, n
<1>4. n * n <= m * m
  BY <1>1, <1>2, SquareMonotone
<1>5. U * (K + L) <= S * K
  <2>1. U * (K + L) = U * K + U * L
    BY <1>1
  <2> QED BY <1>1, <1>3, <1>4, <2>1
<1>6. (U * (K + L)) * B <= (S * K) * B
  <2>1. U * (K + L) \in Int /\ S * K \in Int
    BY <1>1
  <2> QED BY <1>1, <1>5, <2>1, ProductOrder
<1>7. (16384 * K) * U <= (B * (K + L)) * U
  <2>1. 16384 * K \in Int /\ B * (K + L) \in Int
    BY <1>1
  <2> QED BY <1>1, <1>2, <2>1, ProductOrder
<1>8. (B * (K + L)) * U = (U * (K + L)) * B /\ (S * K) * B = (B * S) * K
  BY <1>1
<1>9. T * K <= (B * S) * K
  BY <1>1, <1>3, <1>6, <1>7, <1>8
<1>10. T <= B * S
  <2>1. B * S \in Int
    BY <1>1
  <2> QED BY <1>1, <1>2, <1>9, <2>1, Cancel
<1> QED BY <1>10 DEF B, S, T

\* A multiple of a root, compared with a multiple of what it is the root of.
LEMMA RootAtMost ==
  ASSUME NEW a \in Nat, NEW f \in Nat, NEW s \in Nat, NEW w \in Nat,
         f * f <= s, (a * a) * s <= w * w
  PROVE  a * f <= w
<1>1. (f * f) * (a * a) <= s * (a * a)
  <2>1. f * f \in Int /\ a * a \in Nat
    OBVIOUS
  <2> QED BY <2>1, ProductOrder
<1>2. (a * f) * (a * f) = (f * f) * (a * a) /\ s * (a * a) = (a * a) * s
  OBVIOUS
<1>3. a * f \in Nat /\ (a * f) * (a * f) \in Int /\ w * w \in Int /\ s * (a * a) \in Int
  OBVIOUS
<1>4. (a * f) * (a * f) <= w * w
  BY <1>1, <1>2, <1>3
<1>5. SUFFICES ASSUME w + 1 <= a * f PROVE FALSE
  BY <1>3
<1>6. (w + 1) * (w + 1) <= (a * f) * (a * f)
  <2>1. w + 1 \in Nat
    OBVIOUS
  <2> QED BY <1>3, <1>5, <2>1, SquareMonotone
<1>7. (w + 1) * (w + 1) = w * w + 2 * w + 1
  OBVIOUS
<1> QED BY <1>3, <1>4, <1>6, <1>7

LEMMA RootAtLeast ==
  ASSUME NEW b \in Nat, NEW f \in Nat, NEW s \in Nat, NEW w \in Nat,
         s <= f * f, w * w <= (b * b) * s
  PROVE  w <= b * f
<1>1. s * (b * b) <= (f * f) * (b * b)
  <2>1. f * f \in Int /\ b * b \in Nat
    OBVIOUS
  <2> QED BY <2>1, ProductOrder
<1>2. (b * f) * (b * f) = (f * f) * (b * b) /\ s * (b * b) = (b * b) * s
  OBVIOUS
<1>3. b * f \in Nat /\ (b * f) * (b * f) \in Int /\ w * w \in Int /\ s * (b * b) \in Int
  OBVIOUS
<1>4. w * w <= (b * f) * (b * f)
  BY <1>1, <1>2, <1>3
<1>5. SUFFICES ASSUME b * f + 1 <= w PROVE FALSE
  BY <1>3
<1> DEFINE v == b * f
<1> HIDE DEF v
<1>6. v \in Nat /\ v + 1 \in Nat /\ v + 1 <= w /\ w * w <= v * v
  BY <1>3, <1>4, <1>5 DEF v
<1>7. (v + 1) * (v + 1) <= w * w
  BY <1>6, SquareMonotone
<1>8. (v + 1) * (v + 1) = v * v + 2 * v + 1 /\ v * v \in Int
  BY <1>6
<1> QED BY <1>3, <1>6, <1>7, <1>8

\* What the two calls of magnitude return for a vector with the component u; y is
\* the sum of the squares of the others.
Measured(u, r, f, y) ==
  /\ r > 0 /\ r * r <= y /\ y < (r + 1) * (r + 1)
  /\ f * f <= u * u + y /\ u * u + y < (f + 1) * (f + 1)

\* The length f of the vector and the sine of its inclination give u back.
Inclined(u, r, f) ==
  LET a == FirstQuadrant(u, r)
      s == sinetable[91 - a]
  IN  /\ a \in 0 .. 90 /\ s \in 0 .. 128
      /\ s * f <= 128 * u + 256 + 4 * f /\ 128 * u <= s * f + 4 * f + 256

LEMMA Inclination ==
  ASSUME NEW u \in Nat, NEW r \in Nat, NEW f \in Nat, NEW y \in Nat, Measured(u, r, f, y)
  PROVE  Inclined(u, r, f)
<1>0. /\ r > 0 /\ r * r <= y /\ y < (r + 1) * (r + 1)
      /\ f * f <= u * u + y /\ u * u + y < (f + 1) * (f + 1)
  BY DEF Measured
<1> DEFINE a == FirstQuadrant(u, r)
           s == sinetable[91 - a]
           t == Tangent(u, r)
           k == IF r >= u THEN t ELSE 64
           l == IF r >= u THEN 64 ELSE t + 1
           m == IF r >= u THEN t + 1 ELSE 64
           n == IF r >= u THEN 64 ELSE t
<1>1. /\ a \in 0 .. 90 /\ s \in 0 .. 128 /\ k \in Nat /\ l \in Nat /\ m \in Nat /\ n \in Nat
      /\ k * r <= l * u /\ n * u <= m * r /\ m > 0
      /\ s > 4 => /\ k > 0
                  /\ ((s - 4) * (s - 4)) * (k * k + l * l) <= 16384 * (k * k)
                  /\ ((s - 4) * (s - 4)) * l <= 32768 * k
      /\ 16384 * (m * m) <= ((s + 4) * (s + 4)) * (m * m + n * n)
  <2>1. CASE r >= u
    <3>1. t \in 0 .. 64 /\ t * r <= 64 * u /\ 64 * u <= (t + 1) * r
      BY <2>1, <1>0, IndexOf DEF Tangent
    <3>2. a = 90 - arctan[t + 1] /\ arctan[t + 1] \in 0 .. 46
      BY <2>1, <3>1, AnglesInRange DEF FirstQuadrant
    <3>3. a \in 0 .. 90 /\ 91 - a = arctan[t + 1] + 1
      BY <3>2
    <3>4. s = Low(t) /\ s \in 0 .. 128
      BY <3>1, <3>3, AnglesInRange DEF Low
    <3>5. k = t /\ l = 64 /\ m = t + 1 /\ n = 64
      BY <2>1
    <3> HIDE DEF a, s, t, k, l, m, n
    <3>6. /\ s > 4 => /\ ((s - 4) * (s - 4)) * (t * t + 4096) <= 16384 * (t * t)
                      /\ (s - 4) * (s - 4) <= 512 * t
          /\ ((s + 4) * (s + 4)) * ((t + 1) * (t + 1) + 4096) >= 16384 * ((t + 1) * (t + 1))
      BY <3>1, <3>4, LowSquares
    <3>7. s > 4 => (s - 4) * (s - 4) >= 1
      BY <3>4
    <3> DEFINE A == (s - 4) * (s - 4)
    <3>8. s > 4 => t > 0 /\ A * 64 <= 32768 * t
      <4>1. A \in Int
        BY <3>4
      <4> QED BY <3>1, <3>6, <3>7, <4>1
    <3> QED BY <3>1, <3>3, <3>4, <3>5, <3>6, <3>8
  <2>2. CASE u > r
    <3>1. t \in 0 .. 64 /\ t * u <= 64 * r /\ 64 * r <= (t + 1) * u
      BY <2>2, <1>0, IndexOf DEF Tangent
    <3>2. a = arctan[t + 1] /\ arctan[t + 1] \in 0 .. 46
      BY <2>2, <3>1, AnglesInRange DEF FirstQuadrant
    <3>3. a \in 0 .. 90
      BY <3>2
    <3>4. s = High(t) /\ s \in 4 .. 128
      BY <3>1, <3>2, AnglesInRange DEF High
    <3>5. k = 64 /\ l = t + 1 /\ m = 64 /\ n = t
      BY <2>2
    <3> HIDE DEF a, s, t, k, l, m, n
    <3>6. /\ ((s - 4) * (s - 4)) * ((t + 1) * (t + 1) + 4096) <= 67108864
          /\ ((s - 4) * (s - 4)) * (t + 1) <= 2097152
          /\ ((s + 4) * (s + 4)) * (t * t + 4096) >= 67108864
      BY <3>1, <3>4, HighSquares
    <3>7. /\ 64 * 64 = 4096 /\ 16384 * 4096 = 67108864 /\ 32768 * 64 = 2097152
          /\ (t + 1) * (t + 1) + 4096 = 4096 + (t + 1) * (t + 1) /\ t * t + 4096 = 4096 + t * t
      BY <3>1
    <3> QED BY <3>1, <3>3, <3>4, <3>5, <3>6, <3>7
  <2> QED BY <2>1, <2>2, SMT
<1> HIDE DEF a, s, t, k, l, m, n
<1>2. s * f <= 128 * u + 256 + 4 * f
  <2>1. CASE s <= 4
    <3>1. s * f <= 4 * f
      BY <1>1, <2>1, ProductOrder
    <3>2. s * f \in Int
      BY <1>1
    <3> QED BY <3>1, <3>2
  <2>2. CASE s > 4
    <3> DEFINE d == s - 4
    <3>1. /\ d \in Nat /\ k > 0
          /\ (d * d) * (k * k + l * l) <= 16384 * (k * k) /\ (d * d) * l <= 32768 * k
      BY <1>1, <2>2
    <3>2. s * f = d * f + 4 * f
      BY <1>1
    <3> HIDE DEF d
    <3>3. (d * d) * (u * u + r * r + 2 * r) <= (128 * u + 256) * (128 * u + 256)
      <4>1. k \in Nat /\ l \in Nat /\ k * r <= l * u
        BY <1>1
      <4> QED BY <3>1, <4>1, LongestAtMost
    <3>4. f * f <= u * u + r * r + 2 * r /\ u * u + r * r + 2 * r \in Nat
      <4>1. (r + 1) * (r + 1) = r * r + 2 * r + 1 /\ r * r \in Nat /\ u * u \in Nat /\ f * f \in Nat
        OBVIOUS
      <4> QED BY <4>1, <1>0
    <3>5. d * f <= 128 * u + 256
      <4>1. 128 * u + 256 \in Nat
        OBVIOUS
      <4> QED BY <3>1, <3>3, <3>4, <4>1, RootAtMost
    <3> QED BY <3>2, <3>5, <3>1
  <2> QED BY <1>1, <2>1, <2>2
<1>3. 128 * u <= s * f + 4 * f + 256
  <2> DEFINE d == s + 4
  <2>1. d \in Nat /\ 16384 * (m * m) <= (d * d) * (m * m + n * n) /\ d <= 132
    BY <1>1
  <2>2. d * (f + 1) = s * f + 4 * f + s + 4 /\ s * f \in Int
    BY <1>1
  <2> HIDE DEF d
  <2>3. (128 * u) * (128 * u) <= (d * d) * (u * u + r * r)
    <3>1. m \in Nat /\ n \in Nat /\ n * u <= m * r /\ m > 0
      BY <1>1
    <3> QED BY <2>1, <3>1, LongestAtLeast
  <2>4. /\ u * u + r * r <= (f + 1) * (f + 1) /\ u * u + r * r \in Nat
        /\ 128 * u \in Nat /\ f + 1 \in Nat
    <3>1. r * r \in Nat /\ u * u \in Nat /\ (f + 1) * (f + 1) \in Nat
      OBVIOUS
    <3> QED BY <3>1, <1>0
  <2>5. 128 * u <= d * (f + 1)
    BY <2>1, <2>3, <2>4, RootAtLeast
  <2> QED BY <1>1, <2>2, <2>5
<1> QED BY <1>1, <1>2, <1>3 DEF a, s, Inclined

\* The pitch is the inclination.
LEMMA PitchDirection ==
  ASSUME NEW x \in Int, NEW r \in Nat, NEW f \in Nat, NEW y \in Nat,
         Measured(Abs(x), r, f, y)
  PROVE  LET p == Pitch(x, FirstQuadrant(Abs(x), r))
         IN  p \in -90 .. 90 /\ Abs(128 * x + sine(p) * f) <= 256 + 4 * f
<1> DEFINE u == Abs(x)
           a == FirstQuadrant(u, r)
           s == sinetable[91 - a]
           p == Pitch(x, a)
<1>1. u \in Nat /\ (x < 0 => x = -u) /\ (x >= 0 => x = u)
  BY AbsSign
<1>2. /\ a \in 0 .. 90 /\ s \in 0 .. 128
      /\ s * f <= 128 * u + 256 + 4 * f /\ 128 * u <= s * f + 4 * f + 256
  <2>1. u \in Nat
    BY <1>1
  <2>2. Inclined(u, r, f)
    BY <2>1, Inclination, Zenon
  <2> QED BY <2>2, Zenon DEF Inclined
<1>3. /\ 90 - a \in 0 .. 90 /\ (90 - a) + 1 = 91 - a /\ -(90 - a) = a - 90
  BY <1>2
<1>4. sine(90 - a) = s /\ sine(a - 90) = -s
  BY <1>3, Reflections
<1>5. p = IF x < 0 THEN 90 - a ELSE a - 90
  BY DEF Pitch
<1> HIDE DEF u, a, s, p
<1>6. p \in -90 .. 90
  BY <1>2, <1>5
<1>7. ASSUME NEW t \in Int, -t <= 256 + 4 * f, t <= 256 + 4 * f
      PROVE  Abs(t) <= 256 + 4 * f
  BY <1>7, SMT DEF Abs
<1>8. s * f \in Int /\ s \in Int /\ (-s) * f = -(s * f)
  BY <1>2
<1>9. CASE x < 0
  <2>1. x = -u /\ sine(p) = s
    BY <1>1, <1>4, <1>5, <1>9
  <2>2. Abs(128 * (-u) + s * f) <= 256 + 4 * f
    BY <1>1, <1>2, <1>7, <1>8
  <2> QED BY <1>6, <2>1, <2>2 DEF u, a, p
<1>10. CASE x >= 0
  <2>1. x = u /\ sine(p) = -s
    BY <1>1, <1>4, <1>5, <1>10
  <2>2. Abs(128 * u + (-s) * f) <= 256 + 4 * f
    BY <1>1, <1>2, <1>7, <1>8
  <2> QED BY <1>6, <2>1, <2>2 DEF u, a, p
<1> QED BY <1>9, <1>10

-----------------------------------------------------------------------------
(* The invariant.                                                              *)

InLoop == pc \in {"force", "pitch"}

TypeInv ==
  /\ pc \in {"measure", "force", "pitch", "roll", "light"}
  /\ ax \in Signed14 /\ ay \in Signed14 /\ az \in Signed14
  /\ square \in Nat /\ result \in Nat /\ force \in Nat
  /\ bit \in Bits \cup {0}

\* The bits tried so far are those of the root: it lies in the interval of the
\* width of the last bit that begins at result.
LoopInv ==
  InLoop =>
    /\ result * result <= square
    /\ bit # 0 => /\ result % (2 * bit) = 0
                  /\ square < (result + 2 * bit) * (result + 2 * bit)
    /\ bit = 0 => square < (result + 1) * (result + 1)

\* What magnitude was called with.
SquareInv ==
  /\ pc = "force" => square = ax * ax + ay * ay + az * az
  /\ pc = "pitch" => az # 0 /\ square = ay * ay + az * az

\* The force is the root of the sum of the squares, and no component is larger.
ForceInv ==
  /\ pc \in {"pitch", "roll", "light"} =>
       \A v \in {ax, ay, az} : v * v < (force + 1) * (force + 1)
  /\ pc = "pitch" => LET s == ax * ax + ay * ay + az * az
                     IN  force * force <= s /\ s < (force + 1) * (force + 1)

IInv == TypeInv /\ LoopInv /\ SquareInv /\ ForceInv

LEMMA InitInv == Init => IInv
BY SMT DEF Init, IInv, TypeInv, LoopInv, SquareInv, ForceInv, InLoop, Signed14

\* The start of the loop: every sum of squares is below the square of 32768.
LEMMA StartOfLoop ==
  ASSUME NEW x \in Signed14, NEW y \in Signed14, NEW z \in Signed14
  PROVE  LET s == x * x + y * y + z * z
         IN  s \in Nat /\ s < (0 + 2 * TopBit) * (0 + 2 * TopBit)
<1>1. /\ x * x \in Nat /\ x * x <= 67108864
      /\ y * y \in Nat /\ y * y <= 67108864
      /\ z * z \in Nat /\ z * z <= 67108864
  BY SquareOfAxis
<1> QED BY <1>1, SMT DEF TopBit

LEMMA MeasureInv == IInv /\ Measure => IInv'
<1> SUFFICES ASSUME IInv, Measure PROVE IInv'
  OBVIOUS
<1>1. PICK x \in Coordinates, y \in Coordinates, z \in Coordinates :
        /\ ax' = x /\ ay' = y /\ az' = z
        /\ magnitude(x, y, z)
  BY DEF Measure
<1>2. x \in Signed14 /\ y \in Signed14 /\ z \in Signed14
  BY DemoAssumption
<1>3. square' \in Nat /\ square' < (0 + 2 * TopBit) * (0 + 2 * TopBit)
  BY <1>1, <1>2, StartOfLoop, SMT DEF magnitude
<1>4. pc' = "force" /\ result' = 0 /\ bit' = TopBit /\ force' = 0
  BY <1>1, SMT DEF Measure, magnitude
<1>5. TypeInv'
  BY <1>1, <1>2, <1>3, <1>4, SMT DEF TypeInv, Bits, TopBit
<1>6. LoopInv'
  BY <1>3, <1>4, SMT DEF LoopInv, InLoop, TopBit
<1>7. SquareInv' /\ ForceInv'
  BY <1>1, <1>4, SMT DEF SquareInv, ForceInv, magnitude
<1> QED BY <1>5, <1>6, <1>7, SMT DEF IInv

LEMMA TryBitInv == IInv /\ TryBit => IInv'
<1> SUFFICES ASSUME IInv, TryBit PROVE IInv'
  OBVIOUS
<1> DEFINE half == bit \div 2
<1>1. bit \in Bits /\ bit \in Nat /\ result \in Nat /\ square \in Nat /\ InLoop /\ bit # 0
  BY SMT DEF IInv, TypeInv, TryBit, InLoop, Bits
<1>2. /\ result * result <= square /\ result % (2 * bit) = 0
      /\ square < (result + 2 * bit) * (result + 2 * bit)
  BY <1>1, SMT DEF IInv, LoopInv
<1>3. /\ Or(result, bit) = result + bit
      /\ result % bit = 0 /\ (result + bit) % bit = 0
      /\ half \in Bits \cup {0}
      /\ half # 0 => 2 * half = bit
      /\ half = 0 => bit = 1
  BY <1>1, <1>2, BitOfMultiple
<1>3a. half \in Nat
  BY <1>3, SMT DEF Bits
<1> HIDE DEF half
<1>4. /\ bit' = half /\ UNCHANGED <<pc, ax, ay, az, square, force>>
      /\ result' = IF (result + bit) * (result + bit) > square THEN result
                                                             ELSE result + bit
  BY <1>1, <1>3, SMT DEF TryBit, half, axes
<1>5. /\ result' \in Nat /\ result' * result' <= square /\ result' % bit = 0
      /\ square < (result' + bit) * (result' + bit)
  <2>1. CASE (result + bit) * (result + bit) > square
    BY <2>1, <1>1, <1>2, <1>3, <1>4, SMT
  <2>2. CASE ~((result + bit) * (result + bit) > square)
    <3>1. result' = result + bit /\ result' + bit = result + 2 * bit
      BY <2>2, <1>1, <1>4, SMT
    <3>2. (result + bit) * (result + bit) <= square
      BY <2>2, <1>1, SMT
    <3> QED BY <3>1, <3>2, <1>1, <1>2, <1>3
  <2> QED BY <2>1, <2>2
<1>6. TypeInv'
  BY <1>3, <1>4, <1>5, SMT DEF IInv, TypeInv
<1>7. LoopInv'
  BY <1>1, <1>3, <1>3a, <1>4, <1>5, SMT DEF LoopInv, InLoop
<1>8. SquareInv' /\ ForceInv'
  BY <1>4, SMT DEF IInv, SquareInv, ForceInv
<1> QED BY <1>6, <1>7, <1>8 DEF IInv

\* The components of a sum of squares are not larger than its root.
LEMMA ComponentOfRoot ==
  ASSUME NEW x \in Signed14, NEW y \in Signed14, NEW z \in Signed14
  PROVE  LET s == x * x + y * y + z * z
         IN  x * x <= s /\ y * y <= s /\ z * z <= s
<1>1. x * x \in Nat /\ y * y \in Nat /\ z * z \in Nat
  BY SquareOfAxis
<1> QED BY <1>1, SMT

LEMMA ForceDoneInv == IInv /\ ForceDone => IInv'
<1> SUFFICES ASSUME IInv, ForceDone PROVE IInv'
  OBVIOUS
<1>1. /\ pc = "force" /\ bit = 0 /\ force' = result /\ UNCHANGED <<ax, ay, az>>
      /\ ax \in Signed14 /\ ay \in Signed14 /\ az \in Signed14
      /\ result \in Nat /\ square \in Nat
  BY SMT DEF IInv, TypeInv, ForceDone, axes
<1>2. /\ square = ax * ax + ay * ay + az * az
      /\ result * result <= square /\ square < (result + 1) * (result + 1)
  BY <1>1, SMT DEF IInv, LoopInv, SquareInv, InLoop
<1>3. ForceInv'
  <2>1. \A v \in {ax, ay, az} : v * v \in Nat /\ v * v <= square
    BY <1>1, <1>2, ComponentOfRoot, SquareOfAxis, SMT
  <2>2. (result + 1) * (result + 1) \in Nat
    BY <1>1, SMT
  <2>3. \A v \in {ax, ay, az} : v * v < (result + 1) * (result + 1)
    <3>1. \A a, b, c \in Nat : a <= b /\ b < c => a < c
      BY SMT
    <3> QED BY <3>1, <2>1, <2>2, <1>1, <1>2, Zenon
  <2> QED BY <2>3, <1>1, <1>2 DEF ForceInv
<1>4. CASE az = 0
  <2>1. pc' = "roll" /\ UNCHANGED <<square, result, bit>>
    BY <1>4, SMT DEF ForceDone, root
  <2>2. TypeInv' /\ LoopInv' /\ SquareInv'
    BY <2>1, <1>1, SMT DEF IInv, TypeInv, LoopInv, SquareInv, InLoop
  <2> QED BY <1>3, <2>2 DEF IInv
<1>5. CASE az # 0
  <2>1. /\ pc' = "pitch" /\ result' = 0 /\ bit' = TopBit
        /\ square' = ay * ay + az * az + 0 * 0
    BY <1>5, SMT DEF ForceDone, magnitude
  <2>2. square' \in Nat /\ square' < (0 + 2 * TopBit) * (0 + 2 * TopBit)
    <3>1. 0 \in Signed14
      BY SMT DEF Signed14
    <3> QED BY <2>1, <3>1, <1>1, StartOfLoop, SMT
  <2>3. TypeInv'
    BY <2>1, <2>2, <1>1, SMT DEF TypeInv, Bits, TopBit
  <2>4. LoopInv'
    BY <2>1, <2>2, SMT DEF LoopInv, InLoop, TopBit
  <2>5. ay * ay \in Nat /\ az * az \in Nat
    BY <1>1, SquareOfAxis, SMT
  <2>6. SquareInv'
    BY <2>1, <2>5, <1>1, <1>5, SMT DEF SquareInv
  <2> QED BY <1>3, <2>3, <2>4, <2>6 DEF IInv
<1> QED BY <1>4, <1>5

\* The other steps leave the loop and what it computed alone.
LEMMA OtherInv == IInv /\ (PitchDone \/ RollDone \/ Light \/ UNCHANGED vars) => IInv'
<1> SUFFICES ASSUME IInv, PitchDone \/ RollDone \/ Light \/ UNCHANGED vars PROVE IInv'
  OBVIOUS
<1>1. /\ UNCHANGED <<ax, ay, az, square, result, bit, force>>
      /\ pc' \in {"roll", "light", "measure"} \/ pc' = pc
      /\ pc' \in {"roll", "light"} => pc \in {"pitch", "roll", "light"}
  BY SMT DEF IInv, TypeInv, PitchDone, RollDone, Light, vars, axes, root
<1>2. TypeInv'
  BY <1>1, SMT DEF IInv, TypeInv
<1>3. LoopInv' /\ SquareInv'
  BY <1>1, SMT DEF IInv, LoopInv, SquareInv, InLoop
<1>4. ForceInv'
  BY <1>1, SMT DEF IInv, ForceInv
<1> QED BY <1>2, <1>3, <1>4 DEF IInv

LEMMA Inductive == Spec => []IInv
<1>1. IInv /\ [Next]_vars => IInv'
  BY MeasureInv, TryBitInv, ForceDoneInv, OtherInv DEF Next
<1> QED BY InitInv, <1>1, PTL DEF Spec

-----------------------------------------------------------------------------
(* The theorems.                                                               *)

\* What the loop in magnitude returns is the integer square root, for every
\* vector of 14-bit coordinates and for both of its callers.
THEOREM MagnitudeIsRoot == Spec => []RootIsExact
<1>1. IInv => RootIsExact
  BY SMT DEF IInv, LoopInv, RootIsExact, InLoop
<1> QED BY Inductive, <1>1, PTL

\* findArctan never reads outside its table and never divides by 0.
THEOREM ArctanNeverLeavesTable == Spec => []ArctanInTable
<1>1. ASSUME IInv PROVE ArctanInTable
  <2>1. /\ ax \in Signed14 /\ ay \in Signed14 /\ az \in Signed14 /\ result \in Nat /\ square \in Nat
    BY <1>1, SMT DEF IInv, TypeInv
  <2>2. /\ Abs(ax) \in Nat /\ Abs(ay) \in Nat /\ Abs(az) \in Nat
        /\ ay # 0 => Abs(ay) > 0
    BY <2>1, SMT DEF Abs, Signed14
  <2>3. ASSUME pc = "pitch", bit = 0 PROVE result > 0
    <3>1. az # 0 /\ square = ay * ay + az * az /\ square < (result + 1) * (result + 1)
      BY <1>1, <2>3, SMT DEF IInv, LoopInv, SquareInv, InLoop
    <3>2. square >= 1
      BY <3>1, <2>1, SquareOfAxis, SMT
    <3>3. result = 0 => (result + 1) * (result + 1) = 1
      BY SMT
    <3> QED BY <3>1, <3>2, <3>3, <2>1, SMT
  <2>4. ay # 0 => /\ Tangent(Abs(ax), Abs(ay)) \in 0 .. 64
                  /\ Tangent(Abs(az), Abs(ay)) \in 0 .. 64
    BY <2>2, TangentInTable
  <2>5. result > 0 => Tangent(Abs(ax), result) \in 0 .. 64
    BY <2>1, <2>2, TangentInTable
  <2> QED BY <2>3, <2>4, <2>5, SMT DEF ArctanInTable
<1> QED BY Inductive, <1>1, PTL

\* The index into the table of findArcsin stays within it, for every component
\* of a vector and the magnitude of that vector.
THEOREM ArcsinNeverLeavesTable == Spec => []ArcsinInTable
<1>1. ASSUME IInv PROVE ArcsinInTable
  <2>1. SUFFICES ASSUME pc \in {"pitch", "roll", "light"}, force # 0,
                        NEW v \in {ax, ay, az}
                 PROVE  SineIndex(v, force) \in 0 .. 64
    BY DEF ArcsinInTable
  <2>2. v \in Int /\ force \in Nat /\ force > 0
    BY <1>1, <2>1, SMT DEF IInv, TypeInv, Signed14
  <2>3. Abs(v) \in Nat /\ Abs(v) * Abs(v) = v * v
    BY <2>2, SquareOfAbs
  <2>4. Abs(v) * Abs(v) < (force + 1) * (force + 1)
    BY <1>1, <2>1, <2>3, SMT DEF IInv, ForceInv
  <2>5. force + 1 \in Nat
    BY <2>2, SMT
  <2>6. Abs(v) < force + 1
    BY <2>3, <2>4, <2>5, SquareOrder
  <2>7. Abs(v) <= force
    BY <2>2, <2>3, <2>6, SMT
  <2> QED BY <2>2, <2>3, <2>7, QuotientBound DEF SineIndex
<1> QED BY Inductive, <1>1, PTL

\* Both tables are read inside their bounds.
THEOREM TablesNeverLeft == Spec => []IndicesInTables
<1>1. ArctanInTable /\ ArcsinInTable => IndicesInTables
  BY DEF IndicesInTables
<1> QED BY ArctanNeverLeavesTable, ArcsinNeverLeavesTable, <1>1, PTL
-----------------------------------------------------------------------------
(* The results of main.                                                        *)

LEMMA AxesAreIntegers ==
  ASSUME IInv
  PROVE  ax \in Int /\ ay \in Int /\ az \in Int /\ result \in Nat /\ force \in Nat
<1>1. ax \in Signed14 /\ ay \in Signed14 /\ az \in Signed14 /\ result \in Nat /\ force \in Nat
  BY Zenon DEF IInv, TypeInv
<1> QED BY <1>1, SMT DEF Signed14

LEMMA RootIsSmall ==
  ASSUME NEW a \in Nat, NEW s \in Squares, a * a <= s
  PROVE  a \in Roots
<1>1. s \in Nat /\ s <= 201326592
  BY SMT DEF Squares
<1>2. a <= 32767
  <2>1. SUFFICES ASSUME 32768 <= a PROVE FALSE
    BY SMT
  <2>2. 32768 * a <= a * a
    BY <2>1, ProductOrder, SMT
  <2>3. a * a \in Int
    BY SMT
  <2> QED BY <1>1, <2>1, <2>2, <2>3, SMT
<1> QED BY <1>2, SMT DEF Roots

LEMMA SumOfSquares ==
  ASSUME NEW x \in Signed14, NEW y \in Signed14, NEW z \in Signed14
  PROVE  x * x + y * y + z * z \in Squares
<1>1. /\ x * x \in Nat /\ x * x <= 67108864
      /\ y * y \in Nat /\ y * y <= 67108864
      /\ z * z \in Nat /\ z * z <= 67108864
  BY SquareOfAxis
<1> QED BY <1>1, SMT DEF Squares

\* findArctan returns what Roll and Pitch make of the angle.
LEMMA RollValue ==
  ASSUME NEW x \in Int, NEW y \in Int
  PROVE  /\ findArctan(x, y, 0, Abs(y)) \in Degrees
         /\ y # 0 => PointsAt(findArctan(x, y, 0, Abs(y)), x, y)
<1>1. Abs(y) = 0 <=> y = 0
  BY SMT DEF Abs
<1>2. CASE y = 0
  BY <1>1, <1>2, SMT DEF findArctan, Degrees
<1>3. CASE y # 0
  <2>1. findArctan(x, y, 0, Abs(y)) = Roll(x, y, FirstQuadrant(Abs(x), Abs(y)))
    BY <1>1, <1>3 DEF findArctan
  <2> QED BY <1>3, <2>1, RollDirection DEF Degrees
<1> QED BY <1>2, <1>3

\* At the end of the second loop its result and the force measure the vector.
LEMMA PitchMeasured ==
  ASSUME IInv, pc = "pitch", bit = 0
  PROVE  /\ result > 0 /\ az # 0
         /\ Measured(Abs(ax), result, force, ay * ay + az * az) /\ ay * ay + az * az \in Nat
<1>1. /\ ax \in Signed14 /\ ay \in Signed14 /\ az \in Signed14 /\ result \in Nat /\ force \in Nat
      /\ az # 0 /\ square = ay * ay + az * az
      /\ result * result <= square /\ square < (result + 1) * (result + 1)
  BY SMT DEF IInv, TypeInv, LoopInv, SquareInv, InLoop
<1>2. /\ ax * ax \in Nat /\ ay * ay \in Nat /\ az * az \in Nat /\ az * az >= 1
      /\ Abs(ax) * Abs(ax) = ax * ax
  <2>1. ax \in Int
    BY <1>1 DEF Signed14
  <2> QED BY <1>1, <2>1, SquareOfAxis, SquareOfAbs
<1>3. result > 0
  <2>1. result = 0 => (result + 1) * (result + 1) = 1
    OBVIOUS
  <2> QED BY <1>1, <1>2, <2>1
<1>4. /\ force * force <= ax * ax + ay * ay + az * az
      /\ ax * ax + ay * ay + az * az < (force + 1) * (force + 1)
  BY SMT DEF IInv, ForceInv
<1>5. ax * ax + ay * ay + az * az = Abs(ax) * Abs(ax) + (ay * ay + az * az)
  BY <1>2
<1>6. Measured(Abs(ax), result, force, ay * ay + az * az)
  BY <1>1, <1>3, <1>4, <1>5, Zenon DEF Measured
<1>7. ay * ay + az * az \in Nat
  BY <1>2
<1> QED BY <1>1, <1>3, <1>6, <1>7

\* So the pitch is the inclination.
LEMMA PitchValue ==
  ASSUME IInv, PitchDone
  PROVE  pitch' \in -90 .. 90 /\ Abs(128 * ax + sine(pitch') * force) <= 256 + 4 * force
<1>1. /\ pc = "pitch" /\ bit = 0 /\ pitch' = findArctan(ax, ay, az, result)
  BY DEF PitchDone
<1>2. ax \in Int /\ result \in Nat /\ force \in Nat
  BY AxesAreIntegers, Zenon
<1>3. /\ result > 0 /\ az # 0 /\ ay * ay + az * az \in Nat
      /\ Measured(Abs(ax), result, force, ay * ay + az * az)
  BY <1>1, PitchMeasured
<1>4. pitch' = Pitch(ax, FirstQuadrant(Abs(ax), result))
  BY <1>1, <1>2, <1>3 DEF findArctan
<1> QED BY <1>2, <1>3, <1>4, PitchDirection, Zenon

\* The face that is up is one of the largest magnitude.
LEMMA LargestFace ==
  ASSUME NEW x \in Int, NEW y \in Int, NEW z \in Int
  PROVE  LET face == upness(x, y, z)
             axis == <<x, y, z>>
         IN  IF face <= 3 THEN \A k \in 1 .. 3 : axis[face] >= Abs(axis[k])
                          ELSE \A k \in 1 .. 3 : -axis[face - 3] >= Abs(axis[k])
<1> DEFINE f1 == [name |-> IF x < 0 THEN 4 ELSE 1, mag |-> Abs(x)]
           f2 == Larger(f1, 2, y)
           f3 == Larger(f2, 3, z)
           axis == <<x, y, z>>
           Named(f) == /\ f.name \in 1 .. 6
                       /\ f.mag = IF f.name <= 3 THEN axis[f.name] ELSE -axis[f.name - 3]
<1>1. /\ Abs(x) \in Nat /\ Abs(y) \in Nat /\ Abs(z) \in Nat
      /\ (x < 0 => Abs(x) = -x) /\ (x >= 0 => Abs(x) = x)
      /\ (y < 0 => Abs(y) = -y) /\ (y >= 0 => Abs(y) = y)
      /\ (z < 0 => Abs(z) = -z) /\ (z >= 0 => Abs(z) = z)
  BY AbsSign
<1>2. axis[1] = x /\ axis[2] = y /\ axis[3] = z
  OBVIOUS
<1>3. f1.name \in {1, 4} /\ f1.mag = Abs(x) /\ Named(f1)
  BY <1>1, <1>2
<1>4. /\ f2.mag \in Nat /\ f2.mag >= Abs(x) /\ f2.mag >= Abs(y) /\ Named(f2)
  <2> HIDE DEF f1, axis
  <2>1. CASE y > f1.mag
    BY <1>1, <1>2, <1>3, <2>1 DEF Larger
  <2>2. CASE ~(y > f1.mag) /\ y < -f1.mag
    BY <1>1, <1>2, <1>3, <2>2 DEF Larger
  <2>3. CASE ~(y > f1.mag) /\ ~(y < -f1.mag)
    BY <1>1, <1>2, <1>3, <2>3 DEF Larger
  <2> QED BY <2>1, <2>2, <2>3
<1>5. /\ f3.mag \in Nat /\ f3.mag >= Abs(x) /\ f3.mag >= Abs(y) /\ f3.mag >= Abs(z) /\ Named(f3)
  <2> HIDE DEF f2, axis
  <2>1. CASE z > f2.mag
    BY <1>1, <1>2, <1>4, <2>1 DEF Larger
  <2>2. CASE ~(z > f2.mag) /\ z < -f2.mag
    BY <1>1, <1>2, <1>4, <2>2 DEF Larger
  <2>3. CASE ~(z > f2.mag) /\ ~(z < -f2.mag)
    BY <1>1, <1>2, <1>4, <2>3 DEF Larger
  <2> QED BY <2>1, <2>2, <2>3
<1>6. upness(x, y, z) = f3.name
  BY DEF upness
<1> HIDE DEF f1, f2, f3, axis
<1>7. \A k \in 1 .. 3 : f3.mag >= Abs(axis[k])
  <2> TAKE k \in 1 .. 3
  <2>1. k = 1 \/ k = 2 \/ k = 3
    OBVIOUS
  <2> QED BY <1>2, <1>5, <2>1
<1>8. IF f3.name <= 3 THEN \A k \in 1 .. 3 : axis[f3.name] >= Abs(axis[k])
                      ELSE \A k \in 1 .. 3 : -axis[f3.name - 3] >= Abs(axis[k])
  BY <1>5, <1>7
<1> QED BY <1>6, <1>8 DEF axis

-----------------------------------------------------------------------------
\* Every value that main and math.c compute has its type: the sum of squares and
\* its root fit, and the angles are in -180 .. 180, for every vector.
THEOREM TypeCorrect == Spec => []TypeOK
<1>1. 0 \in Squares /\ 0 \in Roots /\ 0 \in Degrees /\ <<0, 0, 0>> \in Seq(Int) /\ 0 \in Signed14
  BY SMT DEF Squares, Roots, Degrees, Signed14
<1>2. Init => TypeOK
  BY <1>1, Zenon DEF Init, TypeOK
<1>3. ASSUME TypeOK, IInv, IInv', [Next]_vars PROVE TypeOK'
  <2>1. /\ square \in Squares /\ result \in Roots /\ force \in Roots
        /\ pitch \in Degrees /\ roll \in Degrees
        /\ colour \in Seq(Int) /\ touched \in BOOLEAN
    BY <1>3, Zenon DEF TypeOK
  <2>2. /\ pc' \in {"measure", "force", "pitch", "roll", "light"}
        /\ ax' \in Signed14 /\ ay' \in Signed14 /\ az' \in Signed14
        /\ result' \in Nat /\ bit' \in Bits \cup {0}
    BY <1>3, Zenon DEF IInv, TypeInv
  <2>3. ax \in Int /\ ay \in Int /\ az \in Int /\ ay \in Signed14 /\ az \in Signed14
    BY <1>3, AxesAreIntegers, Zenon DEF IInv, TypeInv
  <2>4. square' \in Squares
    <3>1. CASE Measure
      <4>1. square' = ax' * ax' + ay' * ay' + az' * az'
        BY <3>1 DEF Measure, magnitude
      <4> QED BY <2>2, <4>1, SumOfSquares, Zenon
    <3>2. CASE ForceDone
      <4>1. square' = square \/ square' = ay * ay + az * az + 0 * 0
        BY <3>2 DEF ForceDone, magnitude, root
      <4> QED BY <1>1, <2>1, <2>3, <4>1, SumOfSquares, Zenon
    <3>3. CASE TryBit \/ PitchDone \/ RollDone \/ Light \/ UNCHANGED vars
      <4>1. square' = square
        BY <3>3, SMT DEF TryBit, PitchDone, RollDone, Light, vars, root
      <4> QED BY <2>1, <4>1
    <3> QED BY <1>3, <3>1, <3>2, <3>3 DEF Next
  <2>5. result' \in Roots
    <3>1. CASE InLoop'
      <4>1. result' * result' <= square'
        BY <1>3, <3>1, SMT DEF IInv, LoopInv
      <4> QED BY <2>2, <2>4, <4>1, RootIsSmall, Zenon
    <3>2. CASE ~InLoop'
      <4>1. result' = result
        BY <1>3, <3>2, SMT DEF Next, Measure, TryBit, ForceDone, PitchDone, RollDone, Light, vars,
                              root, InLoop
      <4> QED BY <2>1, <4>1, Zenon
    <3> QED BY <3>1, <3>2
  <2>6. force' \in Roots
    <3>1. force' = force \/ force' = result \/ force' = 0
      BY <1>3, SMT DEF Next, Measure, TryBit, ForceDone, PitchDone, RollDone, Light, vars
    <3> QED BY <1>1, <2>1, <3>1, Zenon
  <2>7. pitch' \in Degrees
    <3>1. pitch' = pitch \/ pitch' = 0 \/ PitchDone \/ pitch' = findArctan(ax, ay, 0, Abs(ay))
      BY <1>3, SMT DEF Next, Measure, TryBit, ForceDone, RollDone, Light, vars
    <3>2. findArctan(ax, ay, 0, Abs(ay)) \in Degrees
      BY <2>3, RollValue
    <3>3. PitchDone => pitch' \in Degrees
      BY <1>3, PitchValue, SMT DEF Degrees
    <3> QED BY <1>1, <2>1, <3>1, <3>2, <3>3, Zenon
  <2>8. roll' \in Degrees
    <3>1. roll' = roll \/ roll' = 0 \/ roll' = findArctan(az, ay, 0, Abs(ay))
      BY <1>3, SMT DEF Next, Measure, TryBit, ForceDone, PitchDone, RollDone, Light, vars
    <3>2. findArctan(az, ay, 0, Abs(ay)) \in Degrees
      BY <2>3, RollValue
    <3> QED BY <1>1, <2>1, <3>1, <3>2, Zenon
  <2>9. colour' \in Seq(Int) /\ touched' \in BOOLEAN
    <3>1. CASE Light
      <4>1. Red \in Int /\ Green \in Int /\ Blue \in Int
        BY <2>1, SMT DEF Red, Green, Blue, AtMost80, Abs, Roots, Degrees
      <4>2. PICK data1 \in Touches, data2 \in Touches :
              LET t1 == (data1 + 4) \div 8
                  t2 == (data2 + 4) \div 8
              IN  /\ touched' = (t1 + t2 # 0)
                  /\ colour' = IF t1 + t2 # 0 THEN <<Red, t2, t1>>
                                              ELSE <<Red, Green, Blue>>
        BY <3>1 DEF Light
      <4>3. (data1 + 4) \div 8 \in Int /\ (data2 + 4) \div 8 \in Int
        BY DemoAssumption, SMT
      <4>4. \A p, q, r \in Int : <<p, q, r>> \in Seq(Int)
        OBVIOUS
      <4>5. colour' \in Seq(Int)
        BY <4>1, <4>2, <4>3, <4>4, Zenon
      <4> QED BY <4>2, <4>5
    <3>2. CASE Measure
      BY <1>1, <3>2, Zenon DEF Measure
    <3>3. CASE TryBit \/ ForceDone \/ PitchDone \/ RollDone \/ UNCHANGED vars
      <4>1. colour' = colour /\ touched' = touched
        BY <3>3 DEF TryBit, ForceDone, PitchDone, RollDone, vars
      <4> QED BY <2>1, <4>1, Zenon
    <3> QED BY <1>3, <3>1, <3>2, <3>3 DEF Next
  <2> QED BY <2>2, <2>4, <2>5, <2>6, <2>7, <2>8, <2>9, Zenon DEF TypeOK
<1> QED BY Inductive, <1>2, <1>3, PTL DEF Spec

\* The roll that main computes points at (az, ay), in every quadrant and for every
\* vector whose ay is not 0.
THEOREM RollIsDirection == Spec => []RollPointsAtVector
<1>1. Init => RollPointsAtVector
  BY DEF Init, RollPointsAtVector
<1>2. ASSUME RollPointsAtVector, IInv, [Next]_vars PROVE RollPointsAtVector'
  <2>1. CASE RollDone
    <3>1. roll' = findArctan(az, ay, 0, Abs(ay)) /\ az' = az /\ ay' = ay
      BY <2>1 DEF RollDone, axes
    <3>2. az \in Int /\ ay \in Int
      BY <1>2, AxesAreIntegers, Zenon
    <3>3. ay # 0 => PointsAt(findArctan(az, ay, 0, Abs(ay)), az, ay)
      BY <3>2, RollValue
    <3> QED BY <3>1, <3>3 DEF RollPointsAtVector, PointsAt
  <2>2. CASE UNCHANGED vars
    BY <1>2, <2>2 DEF RollPointsAtVector, PointsAt, vars, axes
  <2>3. CASE Measure \/ TryBit \/ ForceDone \/ PitchDone \/ Light
    <3>1. pc' # "light"
      BY <2>3, SMT DEF Measure, TryBit, ForceDone, PitchDone, Light
    <3> QED BY <3>1 DEF RollPointsAtVector
  <2> QED BY <1>2, <2>1, <2>2, <2>3 DEF Next
<1> QED BY Inductive, <1>1, <1>2, PTL DEF Spec

\* The pitch that main computes from two roots is the inclination of the x axis,
\* for every vector whose az is not 0.
THEOREM PitchIsRight == Spec => []PitchIsInclination
<1>1. Init => PitchIsInclination
  BY DEF Init, PitchIsInclination
<1>2. ASSUME PitchIsInclination, IInv, [Next]_vars PROVE PitchIsInclination'
  <2>1. CASE PitchDone
    <3>1. ax' = ax /\ force' = force
      BY <2>1 DEF PitchDone, axes
    <3>2. pitch' \in -90 .. 90 /\ Abs(128 * ax + sine(pitch') * force) <= 256 + 4 * force
      BY <1>2, <2>1, PitchValue
    <3> QED BY <3>1, <3>2 DEF PitchIsInclination
  <2>2. CASE UNCHANGED vars
    BY <1>2, <2>2 DEF PitchIsInclination, vars, axes
  <2>3. CASE ForceDone
    <3>1. pc' = "roll" => az' = 0
      BY <2>3, SMT DEF ForceDone, axes
    <3> QED BY <3>1 DEF PitchIsInclination
  <2>4. CASE Measure \/ TryBit \/ RollDone \/ Light
    <3>1. pc' # "roll"
      BY <2>4, SMT DEF Measure, TryBit, RollDone, Light
    <3> QED BY <3>1 DEF PitchIsInclination
  <2> QED BY <1>2, <2>1, <2>2, <2>3, <2>4 DEF Next
<1> QED BY Inductive, <1>1, <1>2, PTL DEF Spec

\* What main and math.c compute of a vector agrees with it, for every vector of
\* 14-bit coordinates: types, roll, pitch and the face that is up.
THEOREM ResultsAgree == Spec => []Inv
<1>1. IInv => UpnessIsLargest
  <2>1. SUFFICES ASSUME IInv PROVE UpnessIsLargest
    OBVIOUS
  <2>2. ax \in Int /\ ay \in Int /\ az \in Int
    BY <2>1, AxesAreIntegers, Zenon
  <2> QED BY <2>2, LargestFace DEF UpnessIsLargest
<1>2. TypeOK /\ RollPointsAtVector /\ PitchIsInclination /\ UpnessIsLargest => Inv
  BY DEF Inv
<1> QED BY Inductive, TypeCorrect, RollIsDirection, PitchIsRight, <1>1, <1>2, PTL
=============================================================================
