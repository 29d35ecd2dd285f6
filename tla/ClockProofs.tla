---------------------------- MODULE ClockProofs ----------------------------
(***************************************************************************)
(* Proofs about the clock of the backend, for every rate, interval, width  *)
(* of the counter and precision of doubles, and every date.                *)
(***************************************************************************)
EXTENDS Clock, TickRate, TLAPS

(* Quotient and remainder.                                                 *)
LEMMA ModDef ==
  ASSUME NEW a \in Int, NEW m \in Nat, m > 0
  PROVE  a = m * (a \div m) + (a % m) /\ a \div m \in Int /\ a % m \in 0..(m - 1)
  OBVIOUS

(* A remainder is determined by any quotient that leaves it.               *)
LEMMA ModUnique ==
  ASSUME NEW a \in Int, NEW q \in Int, NEW m \in Nat, m > 0,
         NEW u \in 0..(m - 1), a = m * q + u
  PROVE  a % m = u
  OBVIOUS

-----------------------------------------------------------------------------
(* The calendar.                                                           *)

(* The days before a later year are more.                                  *)
LEMMA YearsGrow ==
  ASSUME NEW a \in Int, NEW b \in Int, a < b
  PROVE  DaysBefore(a) \in Int /\ DaysBefore(a) < DaysBefore(b)
  BY DEF DaysBefore

(* Every day is in one of the three years that YearOf() looks at.          *)
LEMMA YearExists ==
  ASSUME NEW day \in Int
  PROVE  /\ YearOf(day) \in Int
         /\ DaysBefore(YearOf(day)) <= day /\ day < DaysBefore(YearOf(day) + 1)
<1> DEFINE g == (400 * day) \div 146097
<1>1. g \in Int /\ 146097 * g <= 400 * day /\ 400 * day < 146097 * g + 146097
  OBVIOUS
<1> HIDE DEF g
<1>2. DaysBefore(1969 + g) <= day
  BY <1>1 DEF DaysBefore
<1>3. day < DaysBefore(1972 + g)
  BY <1>1 DEF DaysBefore
<1>4. \E y \in 1969 + g .. 1971 + g : DaysBefore(y) <= day /\ day < DaysBefore(y + 1)
  <2>1. /\ DaysBefore(1970 + g) \in Int /\ DaysBefore(1971 + g) \in Int
        /\ (1969 + g) + 1 = 1970 + g /\ (1970 + g) + 1 = 1971 + g /\ (1971 + g) + 1 = 1972 + g
        /\ 1969 + g \in 1969 + g .. 1971 + g /\ 1970 + g \in 1969 + g .. 1971 + g
        /\ 1971 + g \in 1969 + g .. 1971 + g
    BY <1>1 DEF DaysBefore
  <2>2. CASE day < DaysBefore(1970 + g)
    BY <1>2, <2>1, <2>2
  <2>3. CASE ~(day < DaysBefore(1970 + g)) /\ day < DaysBefore(1971 + g)
    BY <2>1, <2>3
  <2>4. CASE ~(day < DaysBefore(1971 + g))
    BY <1>3, <2>1, <2>4
  <2> QED
    BY <2>2, <2>3, <2>4
<1>5. YearOf(day) = CHOOSE y \in 1969 + g .. 1971 + g :
                      DaysBefore(y) <= day /\ day < DaysBefore(y + 1)
  BY DEF YearOf, g
<1>6. /\ YearOf(day) \in 1969 + g .. 1971 + g
      /\ DaysBefore(YearOf(day)) <= day /\ day < DaysBefore(YearOf(day) + 1)
  BY <1>4, <1>5
<1> QED
  BY <1>1, <1>6

(* The difference of dates that are at most a day apart.                   *)
LEMMA DaysApart ==
  ASSUME NEW d \in Int, NEW e \in Int, e - d \in -1 .. 1
  PROVE  /\ YearOf(e) > YearOf(d) => e - d = 1
         /\ YearOf(e) < YearOf(d) => e - d = -1
<1> DEFINE a == YearOf(e)
           b == YearOf(d)
<1>1. /\ a \in Int /\ DaysBefore(a) <= e /\ e < DaysBefore(a + 1)
      /\ b \in Int /\ DaysBefore(b) <= d /\ d < DaysBefore(b + 1)
  BY YearExists
<1> HIDE DEF a, b
<1>2. DaysBefore(a) \in Int /\ DaysBefore(b) \in Int /\ DaysBefore(a + 1) \in Int
      /\ DaysBefore(b + 1) \in Int
  BY <1>1 DEF DaysBefore
<1>3. a > b => DaysBefore(b + 1) <= DaysBefore(a)
  <2>1. b + 1 < a => DaysBefore(b + 1) < DaysBefore(a)
    BY <1>1, YearsGrow
  <2> QED
    BY <1>1, <1>2, <2>1
<1>4. b > a => DaysBefore(a + 1) <= DaysBefore(b)
  <2>1. a + 1 < b => DaysBefore(a + 1) < DaysBefore(b)
    BY <1>1, YearsGrow
  <2> QED
    BY <1>1, <1>2, <2>1
<1>5. (a > b => e - d = 1) /\ (a < b => e - d = -1)
  BY <1>1, <1>2, <1>3, <1>4
<1> QED
  BY <1>5 DEF a, b

(* Hours, minutes and seconds make up the second of the day.               *)
HourOf(s) == s \div 3600
MinOf(s) == (s \div 60) % 60
SecOf(s) == s % 60

(* They do for every second.                                               *)
LEMMA TimeOfDay ==
  ASSUME NEW s \in Int
  PROVE  /\ HourOf(s) \in Int /\ MinOf(s) \in Int /\ SecOf(s) \in Int
         /\ HourOf(s) * 3600 + MinOf(s) * 60 + SecOf(s) = s
<1> DEFINE a == s \div 60
           b == s % 60
           h == a \div 60
           m == a % 60
<1>1. a \in Int /\ b \in Int /\ 0 <= b /\ b < 60 /\ s = 60 * a + b
  OBVIOUS
<1>2. h \in Int /\ m \in Int /\ 0 <= m /\ m < 60 /\ a = 60 * h + m
  BY <1>1
<1> HIDE DEF a, b, h, m
<1>3. s \div 3600 = h
  BY <1>1, <1>2, SMT
<1> QED
  BY <1>1, <1>2, <1>3, SMT DEF a, b, m, HourOf, MinOf, SecOf

(* recalculate_utc_offset() finds the offset of the zone, on every date.   *)
LEMMA OffsetIsZone ==
  ASSUME NEW unix \in Int, NEW z \in Int, -86400 <= z, z <= 86400
  PROVE  UtcOffset(BrokenDown(unix + z), BrokenDown(unix)) = TicksPerSecond * z
<1> DEFINE e == (unix + z) \div 86400
           u == (unix + z) % 86400
           d == unix \div 86400
           v == unix % 86400
           local == BrokenDown(unix + z)
           utc == BrokenDown(unix)
<1>1. /\ e \in Int /\ u \in Int /\ 0 <= u /\ u < 86400 /\ unix + z = 86400 * e + u
      /\ d \in Int /\ v \in Int /\ 0 <= v /\ v < 86400 /\ unix = 86400 * d + v
  OBVIOUS
<1>2. /\ local.tm_year = YearOf(e) /\ local.tm_yday = e - DaysBefore(YearOf(e))
      /\ local.tm_hour = HourOf(u) /\ local.tm_min = MinOf(u)
      /\ local.tm_sec = SecOf(u)
  BY SMT DEF BrokenDown, HourOf, MinOf, SecOf
<1>3. /\ utc.tm_year = YearOf(d) /\ utc.tm_yday = d - DaysBefore(YearOf(d))
      /\ utc.tm_hour = HourOf(v) /\ utc.tm_min = MinOf(v)
      /\ utc.tm_sec = SecOf(v)
  BY SMT DEF BrokenDown, HourOf, MinOf, SecOf
<1> HIDE DEF e, u, d, v, local, utc
<1>4. DayDiff(local, utc) = e - d
  <2>1. e - d \in -1 .. 1
    BY <1>1
  <2>2. /\ YearOf(e) > YearOf(d) => e - d = 1
        /\ YearOf(e) < YearOf(d) => e - d = -1
    BY <1>1, <2>1, DaysApart
  <2>3. YearOf(e) \in Int /\ YearOf(d) \in Int
    BY <1>1, YearExists
  <2>4. YearOf(e) = YearOf(d) => local.tm_yday - utc.tm_yday = e - d
    <3>1. DaysBefore(YearOf(d)) \in Int
      BY <2>3 DEF DaysBefore
    <3> QED
      BY <1>1, <1>2, <1>3, <3>1
  <2> QED
    BY <1>2, <1>3, <2>2, <2>3, <2>4 DEF DayDiff
<1>5. /\ local.tm_hour \in Int /\ local.tm_min \in Int /\ local.tm_sec \in Int
      /\ local.tm_hour * 3600 + local.tm_min * 60 + local.tm_sec = u
  BY <1>1, <1>2, TimeOfDay, SMT
<1>6. /\ utc.tm_hour \in Int /\ utc.tm_min \in Int /\ utc.tm_sec \in Int
      /\ utc.tm_hour * 3600 + utc.tm_min * 60 + utc.tm_sec = v
  BY <1>1, <1>3, TimeOfDay, SMT
<1>7. DayDiff(local, utc) * 86400 + (local.tm_hour - utc.tm_hour) * 3600
        + (local.tm_min - utc.tm_min) * 60 + (local.tm_sec - utc.tm_sec) = z
  <2> DEFINE h1 == local.tm_hour
             m1 == local.tm_min
             s1 == local.tm_sec
             h2 == utc.tm_hour
             m2 == utc.tm_min
             s2 == utc.tm_sec
  <2>1. /\ h1 \in Int /\ m1 \in Int /\ s1 \in Int /\ h1 * 3600 + m1 * 60 + s1 = u
        /\ h2 \in Int /\ m2 \in Int /\ s2 \in Int /\ h2 * 3600 + m2 * 60 + s2 = v
    BY <1>5, <1>6, SMT
  <2> HIDE DEF h1, m1, s1, h2, m2, s2
  <2>2. (e - d) * 86400 + (h1 - h2) * 3600 + (m1 - m2) * 60 + (s1 - s2) = z
    BY <1>1, <2>1, SMT
  <2> QED
    BY <1>4, <2>2, SMT DEF h1, m1, s1, h2, m2, s2
<1> QED
  BY <1>7 DEF UtcOffset, local, utc

-----------------------------------------------------------------------------
(* The arithmetic of the conversion.                                       *)

(* Halving loses half the distance of doubles.                             *)
LEMMA HalfError ==
  ASSUME NEW x \in Nat
  PROVE  RoundedHalf(x) \in Nat /\ Abs(2 * RoundedHalf(x) - x) <= Ulp
<1>1. Ulp \in Nat /\ Ulp > 0
  <2>1. Ulp \in Nat /\ Ulp # 0
    BY ClockAssumption
  <2> QED
    BY ONLY <2>1
<1>2. CASE Ulp = 1
  <2>1. RoundedHalf(x) = x \div 2
    BY <1>2 DEF RoundedHalf
  <2> QED
    BY <1>2, <2>1 DEF Abs
<1>3. CASE Ulp # 1
  <2> DEFINE m == 2 * Ulp
             q == (x + Ulp) \div m
             r == (x + Ulp) % m
  <2>1. m \in Nat /\ m > 0 /\ x + Ulp \in Int
    BY <1>1
  <2>2. x + Ulp = m * q + r /\ q \in Int /\ r \in 0 .. m - 1
    BY <2>1, ModDef
  <2>3. RoundedHalf(x) = q * Ulp
    BY <1>3 DEF RoundedHalf
  <2> HIDE DEF q, r
  <2>4. q >= 0
    <3> SUFFICES ASSUME q <= -1 PROVE FALSE
      BY <2>2
    <3>1. m * q <= -m
      BY <2>1, <2>2
    <3> QED
      BY <1>1, <2>1, <2>2, <3>1
  <2>5. q * Ulp \in Nat /\ m * q = 2 * (q * Ulp)
    BY <1>1, <2>2, <2>4
  <2>6. 2 * (q * Ulp) - x = Ulp - r
    BY <1>1, <2>2, <2>5
  <2> QED
    BY <1>1, <2>2, <2>3, <2>5, <2>6 DEF Abs
<1> QED
  BY <1>2, <1>3

(* The average of two time stamps, computed with doubles, misses by no     *)
(* more than their distance.                                               *)
LEMMA AverageError ==
  ASSUME NEW first \in Nat, NEW second \in Nat, first <= second
  PROVE  /\ Average(first, second) \in Nat
         /\ Abs(2 * Average(first, second) - (first + second)) <= 2 * Ulp
<1> DEFINE p == RoundedHalf(2 * first)
           x == 2 * p + (second - first)
           r == RoundedHalf(x)
<1>1. p \in Nat /\ Abs(2 * p - 2 * first) <= Ulp
  BY HalfError
<1>2. x \in Nat
  BY <1>1
<1>3. r \in Nat /\ Abs(2 * r - x) <= Ulp
  BY <1>2, HalfError
<1>4. Average(first, second) = r
  BY DEF Average
<1>5. x = 2 * p + (second - first) /\ Ulp \in Nat
  BY ClockAssumption
<1> HIDE DEF p, x, r
<1> QED
  BY <1>1, <1>2, <1>3, <1>4, <1>5 DEF Abs

(* The wrapping difference of time stamps is the difference, also if it is *)
(* negative, as long as the counter stays in half its range.               *)
LEMMA AgeIsDifference ==
  ASSUME NEW ts \in 0 .. MaxTick, NEW base \in 0 .. MaxTick + Ulp
  PROVE  SignedAge(ts, base) = ts - base
<1>1. TscMod \in Nat /\ MaxTick \in Nat /\ Ulp \in Nat /\ 2 * (MaxTick + Ulp) < TscMod
      /\ Ulp # 0
  BY ClockAssumption
<1> DEFINE h == TscMod \div 2
<1>2. h \in Nat /\ 2 * h <= TscMod /\ TscMod <= 2 * h + 1
  BY <1>1
<1>3. SignedAge(ts, base) = IF ((ts - base) % TscMod) >= h
                            THEN ((ts - base) % TscMod) - TscMod
                            ELSE (ts - base) % TscMod
  BY DEF SignedAge
<1> HIDE DEF h
<1>4. CASE ts - base >= 0
  <2>1. /\ ts - base \in 0 .. TscMod - 1 /\ ts - base = TscMod * 0 + (ts - base)
        /\ ts - base \in Int /\ TscMod > 0
    BY <1>1, <1>4
  <2>2. (ts - base) % TscMod = ts - base
    BY <1>1, <2>1, ModUnique
  <2>3. ts - base < h
    BY <1>1, <1>2
  <2> QED
    BY ONLY <1>2, <1>3, <2>1, <2>2, <2>3
<1>5. CASE ts - base < 0
  <2>1. /\ ts - base + TscMod \in 0 .. TscMod - 1
        /\ ts - base = TscMod * (-1) + (ts - base + TscMod)
        /\ ts - base \in Int /\ TscMod > 0 /\ -1 \in Int
    BY <1>1, <1>5
  <2>2. (ts - base) % TscMod = ts - base + TscMod
    BY <1>1, <2>1, ModUnique
  <2> QED
    BY <1>1, <1>2, <1>3, <1>5, <2>1, <2>2
<1> QED
  BY <1>1, <1>4, <1>5

(* The conversion to an integer loses less than one.                       *)
LEMMA TruncationError ==
  ASSUME NEW x \in Int, NEW y \in Nat, y > 0
  PROVE  Truncated(x, y) \in Int /\ Abs(y * Truncated(x, y) - x) < y
<1>1. CASE x < 0
  <2> DEFINE q == (-x) \div y
             r == (-x) % y
  <2>1. -x = y * q + r /\ q \in Int /\ r \in 0 .. y - 1
    BY ModDef
  <2>2. Truncated(x, y) = -q
    BY <1>1 DEF Truncated
  <2> HIDE DEF q, r
  <2>3. y * (-q) = -(y * q) /\ y * q \in Int
    BY <2>1
  <2> QED
    BY <2>1, <2>2, <2>3 DEF Abs
<1>2. CASE ~(x < 0)
  <2> DEFINE q == x \div y
             r == x % y
  <2>1. x = y * q + r /\ q \in Int /\ r \in 0 .. y - 1
    BY ModDef
  <2>2. Truncated(x, y) = q
    BY <1>2 DEF Truncated
  <2> HIDE DEF q, r
  <2>3. y * q \in Int
    BY <2>1
  <2> QED
    BY <2>1, <2>2, <2>3 DEF Abs
<1> QED
  BY <1>1, <1>2

(* The absolute value of a product.                                        *)
LEMMA AbsProduct ==
  ASSUME NEW a \in Int, NEW b \in Int
  PROVE  Abs(a) \in Nat /\ Abs(a * b) = Abs(a) * Abs(b) /\ Abs(a * b) \in Nat
<1>1. Abs(a) \in Nat /\ Abs(a * b) \in Nat
  BY DEF Abs
<1>2. CASE a >= 0 /\ b >= 0
  <2>1. a * b >= 0
    BY <1>2
  <2> QED
    BY <1>1, <1>2, <2>1 DEF Abs
<1>3. CASE a >= 0 /\ b < 0
  <2>1. a * b <= 0 /\ a * (-b) = -(a * b)
    BY <1>3
  <2> QED
    BY <1>1, <1>3, <2>1 DEF Abs
<1>4. CASE a < 0 /\ b >= 0
  <2>1. a * b <= 0 /\ (-a) * b = -(a * b)
    BY <1>4
  <2> QED
    BY <1>1, <1>4, <2>1 DEF Abs
<1>5. CASE a < 0 /\ b < 0
  <2>1. a * b >= 0 /\ (-a) * (-b) = a * b
    BY <1>5
  <2> QED
    BY <1>1, <1>5, <2>1 DEF Abs
<1> QED
  BY <1>2, <1>3, <1>4, <1>5

(* A time c that was read between from and to is taken for that of a time  *)
(* stamp base, and a time stamp x later is converted with rate n / d to a  *)
(* time q later: the error.                                                *)
Converted(n, d, x, q, base, c, from, to, u) ==
  2 * d * Abs(c + q - (x + base))
    <= d * (to - from + 2 * (u + 1)) + 2 * Abs(n - d) * Abs(x)

(* The error of such a conversion.                                         *)
LEMMA ConversionError ==
  ASSUME NEW n \in Nat, NEW d \in Nat, d > 0, NEW x \in Int, NEW q \in Int,
         Abs(d * q - n * x) < d,
         NEW base \in Int, NEW c \in Int, NEW from \in Int, NEW to \in Int, NEW u \in Nat,
         from <= c, c <= to, Abs(2 * base - (from + to)) <= 2 * u
  PROVE  Converted(n, d, x, q, base, c, from, to, u)
<1> DEFINE e == c - base
           b == to - from + 2 * u
           E == Abs(2 * e)
           K == Abs(n - d) * Abs(x)
           Q == d * (q - x)
<1>1. E \in Nat /\ b \in Nat /\ E <= b
  BY DEF Abs
<1>2. K \in Nat /\ Q \in Int /\ Abs(Q) < d + K
  <2>1. K = Abs((n - d) * x) /\ K \in Nat
    <3> DEFINE m == n - d
    <3>1. m \in Int
      OBVIOUS
    <3> HIDE DEF m
    <3>2. Abs(m * x) = Abs(m) * Abs(x) /\ Abs(m * x) \in Nat
      BY <3>1, AbsProduct
    <3> QED
      BY <3>2 DEF m
  <2>2. Q = (d * q - n * x) + (n - d) * x /\ Q \in Int
    OBVIOUS
  <2> DEFINE F == d * q - n * x
             G == (n - d) * x
  <2>3. F \in Int /\ G \in Int /\ Abs(F) < d /\ Q = F + G /\ K = Abs(G)
    BY <2>1, <2>2
  <2> HIDE DEF F, G, K, Q
  <2> QED
    BY <2>1, <2>3 DEF Abs
<1>3. d * E <= d * b /\ d * E \in Nat /\ d * b \in Nat
  <2> HIDE DEF E, b
  <2>1. b - E \in Nat
    BY <1>1
  <2>2. d * (b - E) \in Nat /\ d * (b - E) = d * b - d * E
    BY <1>1, <2>1
  <2> QED
    BY <1>1, <2>2
<1> DEFINE r == c + q - (x + base)
<1>4. r \in Int /\ 2 * d * Abs(r) = Abs(2 * (d * r)) /\ d * r \in Int
  <2>1. r \in Int /\ Abs(2 * d) = 2 * d
    BY DEF Abs
  <2> HIDE DEF r
  <2>2. Abs((2 * d) * r) = (2 * d) * Abs(r)
    BY <2>1, AbsProduct
  <2>3. (2 * d) * r = 2 * (d * r)
    BY <2>1
  <2> QED
    BY <2>1, <2>2, <2>3
<1>5. 2 * (d * r) = d * (2 * e) + 2 * Q /\ d * (2 * e) \in Int
  OBVIOUS
<1>6. Abs(d * (2 * e)) = d * E
  <2>1. Abs(d) = d /\ 2 * e \in Int
    BY DEF Abs
  <2> HIDE DEF e
  <2> QED
    BY <2>1, AbsProduct
<1>7. d * (to - from + 2 * (u + 1)) = d * b + 2 * d
  OBVIOUS
<1>8. 2 * Abs(n - d) * Abs(x) = 2 * K
  <2>1. Abs(n - d) \in Nat /\ Abs(x) \in Nat
    BY DEF Abs
  <2> QED
    BY <2>1
<1>9. Abs(2 * (d * r)) <= d * b + 2 * d + 2 * K
  <2> DEFINE A == d * (2 * e)
             B == d * b
             D == d * E
             R == d * r
  <2>1. A \in Int /\ B \in Nat /\ D \in Nat /\ R \in Int /\ Abs(A) = D /\ D <= B
        /\ 2 * R = A + 2 * Q
    BY <1>3, <1>4, <1>5, <1>6
  <2> HIDE DEF A, B, D, R, K, Q, b, r
  <2>2. Abs(2 * R) <= B + 2 * d + 2 * K
    BY <1>2, <2>1 DEF Abs
  <2> QED
    BY <2>2 DEF B, R
<1> HIDE DEF r, K, b
<1>10. 2 * d * Abs(r) <= d * (to - from + 2 * (u + 1)) + 2 * Abs(n - d) * Abs(x)
  BY <1>4, <1>7, <1>8, <1>9
<1> QED
  BY <1>10 DEF Converted, r

-----------------------------------------------------------------------------
(* The reads of sync_to_system_clock() are in the order of the code.       *)
ReadInv ==
  /\ bpc \in {"check_offset", "check_sync", "poll"} => ready
  /\ bpc \in {"read_clock", "read_tsc2"} => tsc1 <= tick
  /\ bpc = "read_tsc2" => tsc1 <= t.time - t.adj /\ t.time - t.adj <= tick

(* The sync point is in the middle of the reads it is from, and its system *)
(* time was read between them.                                             *)
SyncInv ==
  ready =>
    /\ synced.from <= sync_point.system_time - synced.adj
    /\ sync_point.system_time - synced.adj <= synced.to
    /\ Abs(2 * sync_point.ts - (synced.from + synced.to)) <= 2 * Ulp

(* The UTC offset is that of the zone as it was read last.                 *)
OffsetInv ==
  bpc # "recalculate" \/ ready => utc_offset_ns = TicksPerSecond * synced.zone

(* What the rounds remember of the two settings is not younger than they   *)
(* are.                                                                    *)
AgeInv ==
  /\ now <= rate.num * tick
  /\ last_utc_offset_resync <= rate.num * synced.at
  /\ last_system_clock_resync <= rate.num * synced.from
  /\ ~ready => last_utc_offset_resync = 0 /\ last_system_clock_resync = 0
  /\ ready /\ bpc \in {"read_clock", "read_tsc2"} => now <= rate.num * tsc1

(* Times are shown only while a round converts.                            *)
ShownInv == shown # {} => bpc = "poll"

(* The inductive invariant.                                                *)
IInv ==
  TypeOK /\ ReadInv /\ SyncInv /\ OffsetInv /\ AgeInv /\ ShownInv /\ Accuracy /\ Fresh

(* What the assumption on the constants says of each of them.              *)
LEMMA Constants ==
  /\ MaxTick \in Nat /\ Ulp \in Nat /\ Ulp > 0 /\ TicksPerSecond \in Nat /\ TicksPerSecond > 0
  /\ OffsetInterval \in Nat /\ SyncInterval \in Nat
  /\ MaxChanges \in Nat /\ MaxEvents \in Nat
  /\ Epochs \subseteq Nat /\ Steps \subseteq Int /\ Boots \subseteq 0 .. MaxTick
<1>1. MaxTick \in Nat /\ Ulp \in Nat \ {0} /\ TicksPerSecond \in Nat \ {0}
  BY ClockAssumption
<1>2. OffsetInterval \in Nat /\ SyncInterval \in Nat /\ MaxChanges \in Nat
      /\ MaxEvents \in Nat
  BY ClockAssumption
<1>3. Epochs \subseteq Nat /\ Steps \subseteq Int
  BY ClockAssumption
<1>4. Boots \subseteq Nat /\ \A b \in Boots : b <= MaxTick
  BY ClockAssumption
<1>5. Boots \subseteq 0 .. MaxTick
  BY ONLY <1>1, <1>4
<1> QED
  BY ONLY <1>1, <1>2, <1>3, <1>5

(* An offset from UTC is at most a day.                                    *)
LEMMA ZoneBound ==
  ASSUME NEW z \in Zones
  PROVE  z \in Int /\ -86400 <= z /\ z <= 86400
  BY ZoneAssumption, SMT

(* The tick lasts a positive time.                                         *)
LEMMA RatePositive ==
  ASSUME NEW r \in Rates
  PROVE  r.num \in Nat /\ r.num > 0 /\ r.den \in Nat /\ r.den > 0
<1>1. r \in [num : Nat \ {0}, den : Nat \ {0}]
  BY ClockAssumption
<1> QED
  BY ONLY <1>1

(* The initial states satisfy the invariant.                               *)
LEMMA InitInv == Init => IInv
<1> SUFFICES ASSUME Init PROVE IInv
  OBVIOUS
<1>1. tick \in Stamp /\ 0 \in Stamp /\ rate \in Rates /\ tick \in Nat
  BY Constants DEF Init, Stamp
<1>2. rate.num \in Nat /\ rate.den \in Nat /\ rate.num * tick \in Nat /\ rate.num * 0 = 0
  BY <1>1, RatePositive
<1>3. TypeOK
  <2>1. /\ tick \in Stamp /\ adj \in Int /\ zone \in Zones /\ epoch \in Epochs
        /\ changes \in 0 .. MaxChanges /\ rate \in Rates /\ utc_offset_ns \in Int
        /\ logged \in 0 .. MaxEvents /\ tsc1 \in Stamp
    BY <1>1, Constants DEF Init
  <2>2. /\ sync_point \in [ts : 0 .. MaxTick + Ulp, system_time : Int]
        /\ t \in [time : Int, adj : Int]
    BY Constants DEF Init
  <2>3. synced \in [from : Stamp, to : Stamp, adj : Int, zone : Zones \cup {0}, at : Stamp]
    BY <1>1 DEF Init
  <2> QED
    BY <2>1, <2>2, <2>3 DEF Init, TypeOK
<1>4. ReadInv /\ SyncInv /\ OffsetInv /\ ShownInv /\ Accuracy /\ Fresh
  BY DEF Init, ReadInv, SyncInv, OffsetInv, ShownInv, Accuracy, Fresh
<1>5. AgeInv
  BY <1>1, <1>2 DEF Init, AgeInv
<1> QED
  BY <1>3, <1>4, <1>5 DEF IInv

-----------------------------------------------------------------------------
(* What the clock showed stays as accurate as it was.                      *)
LEMMA KeepAccuracy ==
  ASSUME Accuracy, UNCHANGED <<rate, sync_point, synced, shown>>
  PROVE  Accuracy'
  BY DEF Accuracy

(* Time passing makes no read older than it is.                            *)
LEMMA Later ==
  ASSUME NEW n \in Nat, NEW a \in Nat, NEW b \in Nat, a <= b
  PROVE  n * a \in Nat /\ n * b \in Nat /\ n * a <= n * b
<1>1. b - a \in Nat
  OBVIOUS
<1>2. n * (b - a) \in Nat /\ n * (b - a) = n * b - n * a
  BY <1>1
<1> QED
  BY <1>2

(* A step of the world preserves the invariant.                            *)
LEMMA WorldInv ==
  ASSUME IInv, Tick \/ (\E s \in Steps : SetSystemClock(s))
               \/ (\E z \in Zones : ChangeZone(z)) \/ Log
  PROVE  IInv'
<1> USE DEF IInv
<1>1. /\ rate' = rate /\ sync_point' = sync_point /\ utc_offset_ns' = utc_offset_ns
      /\ bpc' = bpc /\ ready' = ready /\ now' = now /\ tsc1' = tsc1 /\ t' = t
      /\ last_utc_offset_resync' = last_utc_offset_resync
      /\ last_system_clock_resync' = last_system_clock_resync
      /\ synced' = synced /\ shown' = shown /\ epoch' = epoch
  BY DEF Tick, SetSystemClock, ChangeZone, Log, world, locals, lasts
<1>2. tick \in Nat /\ tick' \in Nat /\ tick <= tick' /\ tick' \in Stamp
  BY Constants DEF Tick, SetSystemClock, ChangeZone, Log, world, TypeOK, Stamp
<1>3. rate.num \in Nat /\ rate.num * tick \in Nat /\ rate.num * tick' \in Nat
      /\ rate.num * tick <= rate.num * tick'
  <2>1. rate.num \in Nat
    BY RatePositive DEF TypeOK
  <2> QED
    BY <1>2, <2>1, Later
<1>4. TypeOK'
  <2>1. adj' \in Int /\ zone' \in Zones /\ changes' \in 0 .. MaxChanges
    BY Constants DEF Tick, SetSystemClock, ChangeZone, Log, world, TypeOK
  <2>2. events' \subseteq Event /\ logged' \in 0 .. MaxEvents
    BY Constants DEF Tick, SetSystemClock, ChangeZone, Log, TypeOK, Event
  <2> QED
    BY <1>1, <1>2, <2>1, <2>2 DEF TypeOK
<1>5. ReadInv'
  <2>1. tsc1 \in Nat /\ t.time \in Int /\ t.adj \in Int
    BY DEF TypeOK, Stamp
  <2> QED
    BY <1>1, <1>2, <2>1 DEF ReadInv
<1>6. SyncInv' /\ OffsetInv' /\ ShownInv'
  BY <1>1 DEF SyncInv, OffsetInv, ShownInv
<1>7. AgeInv'
  <2>1. now \in Nat
    BY DEF TypeOK
  <2> QED
    BY <1>1, <1>3, <2>1 DEF AgeInv
<1>8. Accuracy'
  BY <1>1, KeepAccuracy
<1>9. Fresh'
  BY <1>1 DEF Fresh, Due
<1> QED
  BY <1>4, <1>5, <1>6, <1>7, <1>8, <1>9

-----------------------------------------------------------------------------
(* Nothing is shown: there is nothing to be accurate about.                *)
LEMMA NothingShown ==
  ASSUME IInv, bpc # "poll", shown' = shown
  PROVE  shown' = {} /\ Accuracy' /\ ShownInv'
  BY DEF IInv, ShownInv, Accuracy

(* The sizes the steps calculate with.                                     *)
LEMMA Sizes ==
  ASSUME IInv
  PROVE  /\ tick \in Nat /\ tsc1 \in Nat /\ now \in Nat /\ adj \in Int
         /\ last_utc_offset_resync \in Nat /\ last_system_clock_resync \in Nat
         /\ rate.num \in Nat /\ rate.num > 0 /\ rate.den \in Nat /\ rate.den > 0
         /\ synced.from \in Nat /\ synced.to \in Nat /\ synced.at \in Nat /\ synced.adj \in Int
         /\ t.time \in Int /\ t.adj \in Int
         /\ sync_point.ts \in Nat /\ sync_point.system_time \in Int
         /\ rate.num * tick \in Nat /\ rate.num * tsc1 \in Nat
         /\ rate.num * synced.from \in Nat /\ rate.num * synced.at \in Nat
         /\ OffsetInterval * rate.den \in Nat /\ SyncInterval * rate.den \in Nat
<1>1. TypeOK
  BY DEF IInv
<1>2. /\ tick \in Nat /\ tsc1 \in Nat /\ now \in Nat /\ adj \in Int
      /\ last_utc_offset_resync \in Nat /\ last_system_clock_resync \in Nat
      /\ synced.from \in Nat /\ synced.to \in Nat /\ synced.at \in Nat /\ synced.adj \in Int
      /\ t.time \in Int /\ t.adj \in Int
      /\ sync_point.ts \in Nat /\ sync_point.system_time \in Int
  BY <1>1, Constants DEF TypeOK, Stamp
<1>3. rate.num \in Nat /\ rate.num > 0 /\ rate.den \in Nat /\ rate.den > 0
  BY <1>1, RatePositive DEF TypeOK
<1>4. \A a \in Nat : rate.num * a \in Nat
  BY <1>3
<1>5. \A a \in Nat : a * rate.den \in Nat
  BY <1>3
<1>6. OffsetInterval \in Nat /\ SyncInterval \in Nat
  BY Constants
<1> QED
  BY ONLY <1>2, <1>3, <1>4, <1>5, <1>6

(* recalculate_utc_offset() preserves the invariant.                       *)
LEMMA RecalculateInv ==
  ASSUME IInv, RecalculateUtcOffset
  PROVE  IInv'
<1>1. /\ bpc = "recalculate" /\ shown' = shown /\ ready' = ready /\ rate' = rate
      /\ sync_point' = sync_point /\ now' = now /\ tsc1' = tsc1 /\ t' = t
      /\ tick' = tick /\ adj' = adj /\ zone' = zone /\ epoch' = epoch /\ changes' = changes
      /\ last_system_clock_resync' = last_system_clock_resync
      /\ events' = events /\ logged' = logged
  BY DEF RecalculateUtcOffset, world, locals
<1>2. synced' = [synced EXCEPT !.zone = zone, !.at = tick]
  BY DEF RecalculateUtcOffset
<1>3. \/ ready /\ bpc' = "check_sync" /\ last_utc_offset_resync' = now
      \/ ~ready /\ bpc' = "read_tsc1" /\ last_utc_offset_resync' = last_utc_offset_resync
  BY DEF RecalculateUtcOffset
<1>4. utc_offset_ns' = TicksPerSecond * zone /\ utc_offset_ns' \in Int
  <2> DEFINE unix == epoch + (tick + adj) \div TicksPerSecond
  <2>1. utc_offset_ns' = UtcOffset(BrokenDown(unix + zone), BrokenDown(unix))
    BY DEF RecalculateUtcOffset
  <2>2. unix \in Int
    <3>1. tick + adj \in Int /\ epoch \in Int
      BY Sizes, Constants DEF IInv, TypeOK
    <3>2. (tick + adj) \div TicksPerSecond \in Int
      BY <3>1, Constants, ModDef
    <3> QED
      BY <3>1, <3>2
  <2>3. zone \in Int /\ -86400 <= zone /\ zone <= 86400
    BY ZoneBound, SMT DEF IInv, TypeOK
  <2> HIDE DEF unix
  <2>4. UtcOffset(BrokenDown(unix + zone), BrokenDown(unix)) = TicksPerSecond * zone
    BY <2>2, <2>3, OffsetIsZone, SMT
  <2> QED
    BY <2>1, <2>3, <2>4, Constants, SMT
<1>5. /\ synced \in [from : Stamp, to : Stamp, adj : Int, zone : Zones \cup {0}, at : Stamp]
      /\ tick \in Stamp /\ zone \in Zones
  BY DEF IInv, TypeOK
<1>6. /\ synced' \in [from : Stamp, to : Stamp, adj : Int, zone : Zones \cup {0}, at : Stamp]
      /\ synced'.from = synced.from /\ synced'.to = synced.to /\ synced'.adj = synced.adj
      /\ synced'.zone = zone /\ synced'.at = tick
  BY ONLY <1>2, <1>5
<1>7. TypeOK'
  <2>1. last_utc_offset_resync' \in Nat
    BY <1>3, Sizes
  <2> QED
    BY <1>1, <1>3, <1>4, <1>6, <2>1 DEF IInv, TypeOK
<1>8. ReadInv'
  BY <1>1, <1>3 DEF IInv, ReadInv
<1>9. SyncInv'
  BY <1>1, <1>6 DEF IInv, SyncInv
<1>10. OffsetInv'
  BY <1>4, <1>6 DEF OffsetInv
<1>11. AgeInv'
  BY <1>1, <1>3, <1>6, Sizes DEF IInv, AgeInv
<1>12. Fresh'
  <2>1. now <= rate.num * tick
    BY DEF IInv, AgeInv
  <2>2. ~(now - rate.num * tick > OffsetInterval * rate.den)
    BY ONLY <2>1, Sizes, IInv
  <2> QED
    BY <1>1, <1>3, <1>6, <2>2 DEF Fresh, Due
<1> QED
  BY <1>1, <1>7, <1>8, <1>9, <1>10, <1>11, <1>12, NothingShown DEF IInv

(* The first read of sync_to_system_clock() preserves the invariant.       *)
LEMMA ReadTsc1Inv ==
  ASSUME IInv, ReadTsc1
  PROVE  IInv'
<1>1. /\ bpc = "read_tsc1" /\ bpc' = "read_clock" /\ tsc1' = tick
      /\ shown' = shown /\ ready' = ready /\ rate' = rate /\ t' = t
      /\ sync_point' = sync_point /\ utc_offset_ns' = utc_offset_ns /\ now' = now
      /\ tick' = tick /\ adj' = adj /\ zone' = zone /\ epoch' = epoch /\ changes' = changes
      /\ last_utc_offset_resync' = last_utc_offset_resync
      /\ last_system_clock_resync' = last_system_clock_resync
      /\ events' = events /\ logged' = logged /\ synced' = synced
  BY DEF ReadTsc1, world, lasts
<1>2. TypeOK'
  BY <1>1 DEF IInv, TypeOK
<1>3. ReadInv' /\ SyncInv' /\ OffsetInv' /\ Fresh'
  BY <1>1, Sizes DEF IInv, ReadInv, SyncInv, OffsetInv, Fresh
<1>4. AgeInv'
  BY <1>1 DEF IInv, AgeInv
<1> QED
  BY <1>1, <1>2, <1>3, <1>4, NothingShown DEF IInv

(* The second read of sync_to_system_clock() preserves the invariant.      *)
LEMMA ReadSystemClockInv ==
  ASSUME IInv, ReadSystemClock
  PROVE  IInv'
<1>1. /\ bpc = "read_clock" /\ bpc' = "read_tsc2" /\ t' = [time |-> tick + adj, adj |-> adj]
      /\ shown' = shown /\ ready' = ready /\ rate' = rate /\ tsc1' = tsc1
      /\ sync_point' = sync_point /\ utc_offset_ns' = utc_offset_ns /\ now' = now
      /\ tick' = tick /\ adj' = adj /\ zone' = zone /\ epoch' = epoch /\ changes' = changes
      /\ last_utc_offset_resync' = last_utc_offset_resync
      /\ last_system_clock_resync' = last_system_clock_resync
      /\ events' = events /\ logged' = logged /\ synced' = synced
  BY DEF ReadSystemClock, world, lasts
<1>2. TypeOK'
  <2>1. t' \in [time : Int, adj : Int]
    BY <1>1, Sizes
  <2> QED
    BY <1>1, <2>1 DEF IInv, TypeOK
<1>3. ReadInv'
  <2>1. t'.time - t'.adj = tick
    BY <1>1, Sizes
  <2>2. tsc1 <= tick
    BY <1>1 DEF IInv, ReadInv
  <2> QED
    BY <1>1, <2>1, <2>2, Sizes DEF ReadInv
<1>4. SyncInv' /\ OffsetInv' /\ Fresh'
  BY <1>1 DEF IInv, SyncInv, OffsetInv, Fresh
<1>5. AgeInv'
  BY <1>1 DEF IInv, AgeInv
<1> QED
  BY <1>1, <1>2, <1>3, <1>4, <1>5, NothingShown DEF IInv

(* The last read of sync_to_system_clock(), with the new sync point,       *)
(* preserves the invariant.                                                *)
LEMMA SyncToSystemClockInv ==
  ASSUME IInv, SyncToSystemClock
  PROVE  IInv'
<1>1. /\ bpc = "read_tsc2" /\ shown' = shown /\ ready' = TRUE /\ rate' = rate
      /\ utc_offset_ns' = utc_offset_ns /\ now' = now /\ tsc1' = 0
      /\ t' = [time |-> 0, adj |-> 0]
      /\ tick' = tick /\ adj' = adj /\ zone' = zone /\ epoch' = epoch /\ changes' = changes
      /\ last_utc_offset_resync' = last_utc_offset_resync
      /\ events' = events /\ logged' = logged
  BY DEF SyncToSystemClock, world
<1>2. /\ sync_point' = [ts |-> Average(tsc1, tick), system_time |-> t.time]
      /\ synced' = [synced EXCEPT !.from = tsc1, !.to = tick, !.adj = t.adj]
  BY DEF SyncToSystemClock
<1>3. \/ ready /\ bpc' = "poll" /\ last_system_clock_resync' = now
      \/ ~ready /\ bpc' = "check_offset"
         /\ last_system_clock_resync' = last_system_clock_resync
  <2>1. ready \in BOOLEAN
    BY DEF IInv, TypeOK
  <2> QED
    BY <2>1 DEF SyncToSystemClock
<1>4. /\ tsc1 <= tick /\ tsc1 <= t.time - t.adj /\ t.time - t.adj <= tick
  BY <1>1 DEF IInv, ReadInv
<1>5. /\ synced \in [from : Stamp, to : Stamp, adj : Int, zone : Zones \cup {0}, at : Stamp]
      /\ tick \in Stamp /\ tsc1 \in Stamp /\ t.adj \in Int /\ t.time \in Int
  BY DEF IInv, TypeOK
<1>6. /\ synced' \in [from : Stamp, to : Stamp, adj : Int, zone : Zones \cup {0}, at : Stamp]
      /\ synced'.from = tsc1 /\ synced'.to = tick /\ synced'.adj = t.adj
      /\ synced'.zone = synced.zone /\ synced'.at = synced.at
  BY ONLY <1>2, <1>5
<1>7. /\ Average(tsc1, tick) \in 0 .. MaxTick + Ulp
      /\ Abs(2 * Average(tsc1, tick) - (tsc1 + tick)) <= 2 * Ulp
  <2> DEFINE a == Average(tsc1, tick)
  <2>1. a \in Nat /\ Abs(2 * a - (tsc1 + tick)) <= 2 * Ulp
    BY <1>4, Sizes, AverageError
  <2>2. tsc1 <= MaxTick /\ tick <= MaxTick /\ tsc1 \in Nat /\ tick \in Nat
    BY <1>5, Constants DEF Stamp
  <2> HIDE DEF a
  <2>3. a <= MaxTick + Ulp
    BY <2>1, <2>2, Constants DEF Abs
  <2>4. a \in 0 .. MaxTick + Ulp
    BY <2>1, <2>3, Constants
  <2> QED
    BY <2>1, <2>4 DEF a
<1>8. TypeOK'
  <2>1. sync_point' \in [ts : 0 .. MaxTick + Ulp, system_time : Int]
    BY <1>2, <1>5, <1>7
  <2>2. last_system_clock_resync' \in Nat /\ tsc1' \in Stamp /\ t' \in [time : Int, adj : Int]
    BY <1>1, <1>3, Sizes, Constants DEF Stamp
  <2>3. bpc' \in {"poll", "check_offset"}
    BY <1>3
  <2> QED
    BY <1>1, <1>6, <2>1, <2>2, <2>3 DEF IInv, TypeOK
<1>9. ReadInv'
  BY <1>1, <1>3 DEF ReadInv
<1>10. SyncInv'
  <2>1. sync_point'.ts = Average(tsc1, tick) /\ sync_point'.system_time = t.time
    BY <1>2
  <2> QED
    BY <1>4, <1>6, <1>7, <2>1 DEF SyncInv
<1>11. OffsetInv'
  BY <1>1, <1>6 DEF IInv, OffsetInv
<1>12. AgeInv'
  <2>1. ready => now <= rate.num * tsc1
    BY <1>1 DEF IInv, AgeInv
  <2>2. ~ready => last_system_clock_resync = 0
    BY DEF IInv, AgeInv
  <2>3. last_system_clock_resync' <= rate.num * tsc1
    BY <1>3, <2>1, <2>2, Sizes
  <2> QED
    BY <1>1, <1>3, <1>6, <2>3 DEF IInv, AgeInv
<1>13. Fresh'
  <2>1. ready => now <= rate.num * tsc1
    BY <1>1 DEF IInv, AgeInv
  <2>2. ready => ~(now - rate.num * tsc1 > SyncInterval * rate.den)
    BY ONLY <2>1, Sizes, IInv
  <2> QED
    BY <1>1, <1>3, <1>6, <2>2 DEF Fresh, Due
<1> QED
  BY <1>1, <1>8, <1>9, <1>10, <1>11, <1>12, <1>13, NothingShown DEF IInv

(* The two looks at an age preserve the invariant.                         *)
LEMMA CheckInv ==
  ASSUME IInv, CheckUtcOffset \/ CheckSystemClock
  PROVE  IInv'
<1>1. /\ bpc \in {"check_offset", "check_sync"} /\ now' = rate.num * tick
      /\ shown' = shown /\ ready' = ready /\ rate' = rate /\ tsc1' = tsc1 /\ t' = t
      /\ sync_point' = sync_point /\ utc_offset_ns' = utc_offset_ns
      /\ tick' = tick /\ adj' = adj /\ zone' = zone /\ epoch' = epoch /\ changes' = changes
      /\ last_utc_offset_resync' = last_utc_offset_resync
      /\ last_system_clock_resync' = last_system_clock_resync
      /\ events' = events /\ logged' = logged /\ synced' = synced
  BY DEF CheckUtcOffset, CheckSystemClock, read_timestamp_ns, world, lasts
<1>2. \/ bpc' \in {"recalculate", "read_tsc1"}
      \/ bpc' = "check_sync"
         /\ ~(rate.num * tick - last_utc_offset_resync > OffsetInterval * rate.den)
      \/ bpc' = "poll"
         /\ ~(rate.num * tick - last_system_clock_resync > SyncInterval * rate.den)
  BY DEF CheckUtcOffset, CheckSystemClock, read_timestamp_ns, Due
<1>3. ready
  BY <1>1 DEF IInv, ReadInv
<1>4. TypeOK'
  <2>1. now' \in Nat
    BY <1>1, Sizes
  <2>2. bpc' \in {"recalculate", "read_tsc1", "check_sync", "poll"}
    BY <1>2
  <2> QED
    BY <1>1, <2>1, <2>2 DEF IInv, TypeOK
<1>5. ReadInv' /\ SyncInv' /\ OffsetInv'
  BY <1>1, <1>2, <1>3 DEF IInv, ReadInv, SyncInv, OffsetInv
<1>6. AgeInv'
  BY <1>1, <1>2, <1>3, Sizes DEF IInv, AgeInv
<1>7. Fresh'
  <2>1. last_utc_offset_resync <= rate.num * synced.at
        /\ last_system_clock_resync <= rate.num * synced.from
    BY DEF IInv, AgeInv
  <2>2. /\ bpc' = "check_sync" =>
             ~(rate.num * tick - rate.num * synced.at > OffsetInterval * rate.den)
        /\ bpc' = "poll" =>
             ~(rate.num * tick - rate.num * synced.from > SyncInterval * rate.den)
    BY ONLY <1>2, <2>1, Sizes, IInv
  <2> QED
    BY <1>1, <2>2 DEF Fresh, Due
<1> QED
  BY <1>1, <1>4, <1>5, <1>6, <1>7, NothingShown DEF IInv

(* A conversion is accurate, and preserves the invariant.                  *)
LEMMA ConvertInv ==
  ASSUME IInv, NEW e \in events, Convert(e)
  PROVE  IInv'
<1>1. /\ bpc = "poll" /\ bpc' = bpc /\ events' = events \ {e} /\ synced' = synced
      /\ ready' = ready /\ rate' = rate /\ tsc1' = tsc1 /\ t' = t /\ now' = now
      /\ sync_point' = sync_point /\ utc_offset_ns' = utc_offset_ns
      /\ tick' = tick /\ adj' = adj /\ zone' = zone /\ epoch' = epoch /\ changes' = changes
      /\ last_utc_offset_resync' = last_utc_offset_resync
      /\ last_system_clock_resync' = last_system_clock_resync /\ logged' = logged
  BY DEF Convert, world, locals, lasts
<1>2. ready
  BY <1>1 DEF IInv, ReadInv
<1> DEFINE x == e.ts - sync_point.ts
           q == Truncated(rate.num * x, rate.den)
           time == sync_point.system_time + q + utc_offset_ns
<1>3. e \in Event /\ e.ts \in 0 .. MaxTick /\ sync_point.ts \in 0 .. MaxTick + Ulp
      /\ e.ts \in Nat /\ x \in Int /\ utc_offset_ns \in Int
  <2>1. e \in Event /\ e.ts \in 0 .. MaxTick /\ sync_point.ts \in 0 .. MaxTick + Ulp
        /\ utc_offset_ns \in Int
    BY DEF IInv, TypeOK, Event, Stamp
  <2> QED
    BY <2>1, Constants
<1>4. shown' = {[event |-> e, time |-> time]}
  <2>1. SignedAge(e.ts, sync_point.ts) = x
    BY <1>3, AgeIsDifference
  <2> QED
    BY <2>1 DEF Convert, timestamp_to_local_system_time
<1>5. q \in Int /\ Abs(rate.den * q - rate.num * x) < rate.den
  <2>1. rate.num * x \in Int /\ rate.den \in Nat /\ rate.den > 0
    BY <1>3, Sizes
  <2> HIDE DEF x
  <2> QED
    BY <2>1, TruncationError
<1>6. time \in Int
  BY <1>3, <1>5, Sizes
<1>7. TypeOK'
  <2>1. shown' \subseteq [event : Event, time : Int]
    BY <1>3, <1>4, <1>6
  <2> QED
    BY <1>1, <2>1 DEF IInv, TypeOK
<1>8. Accuracy'
  <2> DEFINE c == sync_point.system_time - synced.adj
  <2>1. /\ synced.from <= c /\ c <= synced.to /\ c \in Int
        /\ Abs(2 * sync_point.ts - (synced.from + synced.to)) <= 2 * Ulp
    BY <1>2, Sizes DEF IInv, SyncInv
  <2>2. utc_offset_ns = TicksPerSecond * synced.zone
    BY <1>2 DEF IInv, OffsetInv
  <2> HIDE DEF x, q, c
  <2>3. Converted(rate.num, rate.den, x, q, sync_point.ts, c, synced.from, synced.to, Ulp)
    <3>1. /\ rate.num \in Nat /\ rate.den \in Nat /\ rate.den > 0 /\ sync_point.ts \in Int
          /\ synced.from \in Int /\ synced.to \in Int /\ Ulp \in Nat /\ x \in Int
      BY <1>3, Sizes, Constants
    <3> QED
      BY ONLY <1>5, <2>1, <3>1, ConversionError
  <2>4. time - (e.ts + synced.adj + TicksPerSecond * synced.zone)
          = c + q - (x + sync_point.ts)
    <3>1. /\ time = sync_point.system_time + q + utc_offset_ns
          /\ utc_offset_ns = TicksPerSecond * synced.zone /\ utc_offset_ns \in Int
          /\ x = e.ts - sync_point.ts /\ c = sync_point.system_time - synced.adj
      BY <1>3, <2>2 DEF x, c
    <3> QED
      BY <1>3, <1>5, <3>1, Sizes
  <2> HIDE DEF time
  <2>5. 2 * rate.den * Abs(time - (e.ts + synced.adj + TicksPerSecond * synced.zone)) <=
          rate.den * (synced.to - synced.from + 2 * (Ulp + 1))
            + 2 * Abs(rate.num - rate.den) * Abs(e.ts - sync_point.ts)
    BY <2>3, <2>4 DEF Converted, x
  <2> QED
    BY <1>1, <1>4, <2>5 DEF Accuracy
<1>9. ReadInv' /\ SyncInv' /\ OffsetInv' /\ ShownInv' /\ Fresh'
  BY <1>1 DEF IInv, ReadInv, SyncInv, OffsetInv, ShownInv, Fresh, Due
<1>10. AgeInv'
  BY <1>1 DEF IInv, AgeInv
<1> QED
  BY <1>7, <1>8, <1>9, <1>10 DEF IInv

(* The end of a round preserves the invariant.                             *)
LEMMA EndRoundInv ==
  ASSUME IInv, EndRound
  PROVE  IInv'
<1>1. /\ bpc = "poll" /\ bpc' = "check_offset" /\ now' = 0 /\ shown' = {}
      /\ events' = events /\ synced' = synced
      /\ ready' = ready /\ rate' = rate /\ tsc1' = tsc1 /\ t' = t
      /\ sync_point' = sync_point /\ utc_offset_ns' = utc_offset_ns
      /\ tick' = tick /\ adj' = adj /\ zone' = zone /\ epoch' = epoch /\ changes' = changes
      /\ last_utc_offset_resync' = last_utc_offset_resync
      /\ last_system_clock_resync' = last_system_clock_resync /\ logged' = logged
  BY DEF EndRound, world, lasts
<1>2. TypeOK'
  BY <1>1 DEF IInv, TypeOK
<1>3. ReadInv' /\ SyncInv' /\ OffsetInv' /\ ShownInv' /\ Fresh' /\ Accuracy'
  BY <1>1 DEF IInv, ReadInv, SyncInv, OffsetInv, ShownInv, Fresh, Accuracy
<1>4. AgeInv'
  BY <1>1, Sizes DEF IInv, AgeInv
<1> QED
  BY <1>2, <1>3, <1>4 DEF IInv

-----------------------------------------------------------------------------
(* Every step preserves the invariant.                                     *)
LEMMA StepInv == IInv /\ [Next]_vars => IInv'
<1> SUFFICES ASSUME IInv, [Next]_vars PROVE IInv'
  OBVIOUS
<1>1. CASE Tick \/ (\E s \in Steps : SetSystemClock(s))
           \/ (\E z \in Zones : ChangeZone(z)) \/ Log
  BY <1>1, WorldInv
<1>2. CASE RecalculateUtcOffset
  BY <1>2, RecalculateInv
<1>3. CASE ReadTsc1
  BY <1>3, ReadTsc1Inv
<1>4. CASE ReadSystemClock
  BY <1>4, ReadSystemClockInv
<1>5. CASE SyncToSystemClock
  BY <1>5, SyncToSystemClockInv
<1>6. CASE CheckUtcOffset \/ CheckSystemClock
  BY <1>6, CheckInv
<1>7. ASSUME NEW e \in events, Convert(e) PROVE IInv'
  BY <1>7, ConvertInv
<1>8. CASE EndRound
  BY <1>8, EndRoundInv
<1>9. CASE UNCHANGED vars
  <2>1. TypeOK'
    BY <1>9 DEF vars, world, locals, lasts, IInv, TypeOK
  <2>2. ReadInv' /\ SyncInv' /\ OffsetInv' /\ ShownInv' /\ Fresh'
    BY <1>9 DEF vars, world, locals, lasts, IInv, ReadInv, SyncInv, OffsetInv, ShownInv,
                Fresh, Due
  <2>3. AgeInv'
    BY <1>9 DEF vars, world, locals, lasts, IInv, AgeInv
  <2>4. Accuracy'
    BY <1>9, KeepAccuracy DEF vars, IInv
  <2> QED
    BY <2>1, <2>2, <2>3, <2>4 DEF IInv
<1> QED
  BY <1>1, <1>2, <1>3, <1>4, <1>5, <1>6, <1>7, <1>8, <1>9 DEF Next, BackendStep

(* The invariant is inductive.                                             *)
LEMMA Invariance == Spec => []IInv
  BY InitInv, StepInv, PTL DEF Spec

-----------------------------------------------------------------------------
(* Every variable has a value of its type: the average that the sync point *)
(* gets is a time stamp, and the UTC offset is found on every date.        *)
THEOREM TypeCorrect == Spec => []TypeOK
  BY Invariance, PTL DEF IInv

(* timestamp_to_local_system_time() shows the time of the call by the      *)
(* system clock and the zone as they were read last, within the bound that *)
(* the reads, the doubles and the rate account for.                        *)
THEOREM TimesAreAccurate == Spec => []Accuracy
  BY Invariance, PTL DEF IInv

(* try_resync_clock() leaves neither the UTC offset nor the sync point     *)
(* older than its interval at the time it looked.                          *)
THEOREM SettingsAreFresh == Spec => []Fresh
  BY Invariance, PTL DEF IInv

-----------------------------------------------------------------------------
(* Where the rate of the counter comes from: module TickRate.              *)

(* What every machine of Cpus has in common, and what its leaf 15h and its *)
(* model name say.                                                         *)
IsCpu(c) ==
  /\ c.mhz \in Nat \ {0}
  /\ c.max_extended \in BOOLEAN /\ c.invariant \in BOOLEAN /\ c.max_leaf \in BOOLEAN
  /\ c.leaf15.eax \in Nat /\ c.leaf15.ebx \in Nat /\ c.leaf15.ecx \in Nat
  /\ c.leaf15.ebx # 0 /\ c.leaf15.ecx # 0 =>
       c.leaf15.ebx * c.leaf15.ecx = c.leaf15.eax * c.mhz
  /\ c.name.num \in Nat /\ c.name.den \in Nat \ {0}
  /\ c.vendor = "GenuineIntel" /\ ~c.name.apple /\ c.name.unit \in Units /\ c.name.num # 0
       => c.name.num * Multiplier[c.name.unit] = c.name.den * c.mhz

(* Every machine is one of these.                                          *)
LEMMA CpuFacts == \A c \in Cpus : IsCpu(c)
<1> DEFINE Intel(mhz) == TrueNames(mhz) \cup {Named(0, 1, "G", FALSE), Named(3, 1, "none", FALSE)}
           Rosetta == {Named(3, 1, "G", TRUE), Named(3, 1, "none", TRUE)}
           Others == {Named(8, 1, "none", FALSE), Named(3, 1, "G", FALSE), NoName}
<1> SUFFICES ASSUME NEW mhz \in Frequencies, NEW c,
               \/ c \in Machine("x86", mhz, "GenuineIntel", Leaf15(mhz), Intel(mhz))
               \/ c \in Machine("x86", mhz, "GenuineIntel", NoLeaf, Rosetta)
               \/ c \in Machine("x86", mhz, "AuthenticAMD", NoLeaf, {Named(8, 1, "none", FALSE)})
               \/ c \in Machine("x86", mhz, "other", NoLeaf, {Named(3, 1, "G", FALSE)})
               \/ c \in Machine("aarch64", mhz, "none", NoLeaf, {NoName})
             PROVE  IsCpu(c)
  BY DEF Cpus
<1>1. mhz \in Nat \ {0} /\ "none" \notin Units
  BY TickRateAssumption DEF Units, Multiplier
<1>2. c.mhz = mhz /\ c.max_extended \in BOOLEAN /\ c.invariant \in BOOLEAN
      /\ c.max_leaf \in BOOLEAN
  BY DEF Machine
<1>3. c.leaf15 \in Leaf15(mhz) \/ c.leaf15 \in NoLeaf
  BY DEF Machine
<1>4. c.leaf15.eax \in Nat /\ c.leaf15.ebx \in Nat /\ c.leaf15.ecx \in Nat
  BY <1>3 DEF Leaf15, NoLeaf
<1>5. c.leaf15.ebx # 0 /\ c.leaf15.ecx # 0 =>
        c.leaf15.ebx * c.leaf15.ecx = c.leaf15.eax * mhz
  BY <1>3 DEF Leaf15, NoLeaf
<1>6. /\ c.vendor = "GenuineIntel" => c.name \in Intel(mhz) \cup Rosetta
      /\ c.name \in Intel(mhz) \cup Rosetta \cup Others
  BY DEF Machine
<1>7. ASSUME NEW name \in TrueNames(mhz)
      PROVE  /\ name.num \in Nat /\ name.den \in Nat \ {0}
             /\ name.num * Multiplier[name.unit] = name.den * mhz
  BY <1>1 DEF TrueNames, Named
<1>8. ASSUME NEW name \in Rosetta \cup Others \cup {Named(0, 1, "G", FALSE), Named(3, 1, "none", FALSE)}
      PROVE  name.num \in Nat /\ name.den \in Nat \ {0}
  BY DEF Named, NoName
<1>9. c.name.num \in Nat /\ c.name.den \in Nat \ {0}
  BY <1>6, <1>7, <1>8
<1>10. ASSUME c.vendor = "GenuineIntel", ~c.name.apple, c.name.unit \in Units, c.name.num # 0
       PROVE  c.name.num * Multiplier[c.name.unit] = c.name.den * mhz
  <2>1. c.name \notin Rosetta
    BY <1>10 DEF Named
  <2>2. c.name # Named(0, 1, "G", FALSE) /\ c.name # Named(3, 1, "none", FALSE)
    BY <1>1, <1>10 DEF Named
  <2> QED
    BY <1>6, <1>7, <1>10, <2>1, <2>2
<1> QED
  BY <1>1, <1>2, <1>4, <1>5, <1>9, <1>10 DEF IsCpu

-----------------------------------------------------------------------------
(* Only CPUs with an invariant counter get past the first check.           *)
InvariantInv ==
  pc \in {"leaf15", "name", "measure", "spin"} =>
    cpu.arch = "x86" /\ cpu.max_extended /\ cpu.invariant

(* The inductive invariant.                                                *)
RateIInv == RateTypeOK /\ InvariantInv /\ RateOfCounter

(* The error of a measurement over a window w, where a counter of m MHz is *)
(* read at a and at b, and the window ends at w: it is in proportion to    *)
(* the later of the two readings.                                          *)
Bounded(m, w, a, b) ==
  LET n == b - a
  IN  /\ n * m \in Nat \ {0}
      /\ Magnitude((1000 * w) * m - 1000 * (n * m)) * w <= (1000 * w) * m * LatestOf(a, b - w)

(* Products of natural numbers are monotone.                               *)
LEMMA ProductMonotone ==
  ASSUME NEW a \in Nat, NEW b \in Nat, NEW c \in Nat, b <= c
  PROVE  a * b <= a * c
  OBVIOUS

(* However late the readings are, the measured frequency is off by no more *)
(* than their lateness, as a fraction of the window.                       *)
LEMMA MeasurementError ==
  ASSUME NEW m \in Nat, m > 0, NEW w \in Nat, NEW a \in Nat, NEW b \in Nat, a < b, w <= b
  PROVE  Bounded(m, w, a, b)
<1> DEFINE n == b - a
           e == Magnitude(w - n)
           l == LatestOf(a, b - w)
<1>1. n \in Nat /\ n > 0 /\ e \in Nat /\ l \in Nat /\ e <= l
  BY DEF Magnitude, LatestOf
<1>2. (1000 * w) * m - 1000 * (n * m) = 1000 * (m * (w - n))
  <2>1. n * m = m * n /\ w * m = m * w /\ m * (w - n) = m * w - m * n
    BY <1>1
  <2> QED
    BY <1>1, <2>1
<1>3. Magnitude(1000 * (m * (w - n))) = 1000 * (m * e)
  <2>1. CASE w - n < 0
    <3>1. m * (w - n) < 0
      BY <1>1, <2>1
    <3>2. m * (n - w) = -(m * (w - n)) /\ m * (w - n) \in Int
      BY <1>1
    <3>3. e = n - w
      BY <1>1, <2>1 DEF Magnitude
    <3> QED
      BY <3>1, <3>2, <3>3 DEF Magnitude
  <2>2. CASE ~(w - n < 0)
    <3>1. m * (w - n) >= 0 /\ m * (w - n) \in Int
      BY <1>1, <2>2
    <3> QED
      BY <2>2, <3>1 DEF Magnitude
  <2> QED
    BY <2>1, <2>2
<1> HIDE DEF n, e, l
<1>4. (1000 * (m * w)) * e <= (1000 * (m * w)) * l
  <2>1. 1000 * (m * w) \in Nat
    OBVIOUS
  <2> QED
    BY <1>1, <2>1, ProductMonotone
<1>5. (1000 * (m * e)) * w = (1000 * (m * w)) * e /\ (1000 * w) * m * l = (1000 * (m * w)) * l
  BY <1>1
<1>6. n * m \in Nat \ {0}
  BY <1>1
<1> QED
  BY <1>2, <1>3, <1>4, <1>5, <1>6 DEF n, l, Bounded

(* A rate that the CPU tells is exact.                                     *)
LEMMA ExactRate ==
  ASSUME NEW e \in Nat, NEW b \in Nat, NEW c \in Nat, NEW m \in Nat, b * c = e * m
  PROVE  Magnitude((1000 * e) * m - 1000 * (b * c)) = 0
<1>1. (1000 * e) * m = 1000 * (e * m)
  OBVIOUS
<1> QED
  BY <1>1 DEF Magnitude

-----------------------------------------------------------------------------
(* The initial state.                                                      *)
LEMMA RateInitInv == RateInit => RateIInv
  BY TickRateAssumption
     DEF RateInit, RateIInv, RateTypeOK, InvariantInv, RateOfCounter, Delays

(* Every way to a rate preserves the invariant.                            *)
LEMMA RateStepInv == RateIInv /\ [RateNext]_rateVars => RateIInv'
<1> SUFFICES ASSUME RateIInv, [RateNext]_rateVars PROVE RateIInv'
  OBVIOUS
<1>0. RateTypeOK /\ InvariantInv /\ RateOfCounter /\ IsCpu(cpu)
  BY CpuFacts DEF RateIInv, RateTypeOK
<1>1. CASE ReadFrequency
  <2>1. /\ tick_time' = [num |-> 1000, den |-> cpu.mhz] /\ cpu' = cpu /\ pc' = "true"
        /\ source' = "register" /\ readings' = readings /\ cpu.arch = "aarch64"
    BY <1>1 DEF ReadFrequency, Return
  <2>2. Magnitude(1000 * cpu.mhz - 1000 * cpu.mhz) = 0
    BY <1>0 DEF IsCpu, Magnitude
  <2> QED
    BY <1>0, <2>1, <2>2
       DEF RateIInv, RateTypeOK, InvariantInv, RateOfCounter, IsCpu, readings
<1>2. CASE CheckInvariant
  BY <1>0, <1>2
     DEF CheckInvariant, GoOn, RateIInv, RateTypeOK, InvariantInv, RateOfCounter, readings,
         Lateness
<1>3. ASSUME NEW point \in {"name", "measure"}, GoOn(point), pc \in {"leaf15", "name"}
      PROVE  RateIInv'
  BY <1>0, <1>3 DEF GoOn, RateIInv, RateTypeOK, InvariantInv, RateOfCounter, readings
<1>4. CASE ExtractTickTimeFromLeaf15h
  <2>1. CASE Leaf15Enumerated
    <3> DEFINE e == cpu.leaf15.eax
               b == cpu.leaf15.ebx
               c == cpu.leaf15.ecx
    <3>1. /\ tick_time' = [num |-> 1000 * e, den |-> b * c]
          /\ cpu' = cpu /\ pc' = "true" /\ source' = "leaf" /\ readings' = readings
          /\ pc = "leaf15"
      BY <1>4, <2>1 DEF ExtractTickTimeFromLeaf15h, Return
    <3>2. e \in Nat /\ b \in Nat /\ c \in Nat /\ b # 0 /\ c # 0 /\ cpu.mhz \in Nat
          /\ b * c = e * cpu.mhz
      BY <1>0, <2>1 DEF IsCpu, Leaf15Enumerated
    <3> HIDE DEF e, b, c
    <3>3. 1000 * e \in Nat /\ b * c \in Nat \ {0}
      BY <3>2
    <3>4. Magnitude((1000 * e) * cpu.mhz - 1000 * (b * c)) = 0
      BY <3>2, ExactRate
    <3> QED
      BY <1>0, <3>1, <3>3, <3>4
         DEF RateIInv, RateTypeOK, InvariantInv, RateOfCounter, readings
  <2>2. CASE ~Leaf15Enumerated
    BY <1>3, <1>4, <2>2 DEF ExtractTickTimeFromLeaf15h
  <2> QED
    BY <2>1, <2>2
<1>5. CASE ExtractTickTimeFromName
  <2>1. CASE on_intel /\ ~on_apple_rosetta /\ NamesFrequency
    <3>1. tick_time' = NamedTickTime /\ cpu' = cpu /\ pc' = "true" /\ source' = "name"
          /\ readings' = readings /\ pc = "name"
      BY <1>5, <2>1 DEF ExtractTickTimeFromName, Return
    <3> DEFINE e == cpu.name.den
               b == cpu.name.num
               c == Multiplier[cpu.name.unit]
    <3>2. cpu.name.unit \in Units /\ cpu_model_name = cpu.name /\ b # 0 /\ b * c = e * cpu.mhz
          /\ b \in Nat /\ e \in Nat /\ cpu.mhz \in Nat
      BY <1>0, <2>1 DEF IsCpu, on_intel, on_apple_rosetta, NamesFrequency, cpu_model_name
    <3>3. NamedTickTime = [num |-> 1000 * e, den |-> b * c] /\ c \in Nat \ {0}
      BY <3>2 DEF NamedTickTime, Multiplier, Units
    <3> HIDE DEF e, b, c
    <3>4. 1000 * e \in Nat /\ b * c \in Nat \ {0}
      BY <3>2, <3>3
    <3>5. Magnitude((1000 * e) * cpu.mhz - 1000 * (b * c)) = 0
      BY <3>2, <3>3, ExactRate
    <3> QED
      BY <1>0, <3>1, <3>3, <3>4, <3>5
         DEF RateIInv, RateTypeOK, InvariantInv, RateOfCounter, readings
  <2>2. CASE ~(on_intel /\ ~on_apple_rosetta /\ NamesFrequency)
    BY <1>3, <1>5, <2>2 DEF ExtractTickTimeFromName
  <2> QED
    BY <2>1, <2>2
<1>6. ASSUME NEW delay \in Delays, StartMeasuring(delay) PROVE RateIInv'
  BY <1>0, <1>6 DEF StartMeasuring, RateIInv, RateTypeOK, InvariantInv, RateOfCounter
<1>7. ASSUME NEW delay \in Delays, EndMeasuring(delay) PROVE RateIInv'
  <2> DEFINE end == LatestOf(Window, start_tick + 1) + delay
             n == (end - start_tick) * cpu.mhz
  <2>1. /\ tick_time' = [num |-> 1000 * Window, den |-> n] /\ cpu' = cpu /\ pc' = "true"
        /\ source' = "measured" /\ start_tick' = start_tick /\ end_tick' = end /\ pc = "spin"
    BY <1>7 DEF EndMeasuring, Return
  <2>2. /\ cpu.mhz \in Nat /\ cpu.mhz > 0 /\ Window \in Nat /\ start_tick \in Nat
        /\ end \in Nat /\ start_tick < end /\ Window <= end
    BY <1>0, TickRateAssumption DEF IsCpu, RateTypeOK, Delays, LatestOf
  <2> HIDE DEF end
  <2>3. n \in Nat \ {0}
        /\ Magnitude((1000 * Window) * cpu.mhz - 1000 * n) * Window
             <= (1000 * Window) * cpu.mhz * LatestOf(start_tick, end - Window)
    <3>1. Bounded(cpu.mhz, Window, start_tick, end)
      BY ONLY <2>2, MeasurementError
    <3> QED
      BY <3>1 DEF Bounded
  <2> HIDE DEF n
  <2>4. 1000 * Window \in Nat
    BY TickRateAssumption
  <2> QED
    BY <1>0, <2>1, <2>2, <2>3, <2>4
       DEF RateIInv, RateTypeOK, InvariantInv, RateOfCounter, Lateness
<1>8. CASE UNCHANGED rateVars
  BY <1>0, <1>8
     DEF rateVars, readings, RateIInv, RateTypeOK, InvariantInv, RateOfCounter, Lateness
<1> QED
  BY <1>1, <1>2, <1>4, <1>5, <1>6, <1>7, <1>8 DEF RateNext, Returned

(* The invariant is inductive.                                             *)
LEMMA RateInvariance == RateSpec => []RateIInv
  BY RateInitInv, RateStepInv, PTL DEF RateSpec

-----------------------------------------------------------------------------
(* Every variable has a value of its type; in particular the tick that is  *)
(* returned is a finite number.                                            *)
THEOREM RateTypeCorrect == RateSpec => []RateTypeOK
  BY RateInvariance, PTL DEF RateIInv

(* get_tsc_ns_per_tick() returns the rate of an invariant counter, exactly *)
(* if the CPU tells it; a measured frequency is off by no more than the    *)
(* lateness of the readings, as a fraction of the window, however long the *)
(* thread was suspended.  It fails only if the counter is not invariant.   *)
THEOREM RateIsThatOfCounter == RateSpec => []RateOfCounter
  BY RateInvariance, PTL DEF RateIInv

=============================================================================
