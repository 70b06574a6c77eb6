------------------------- MODULE DataServicesProofs -------------------------
(***************************************************************************)
(* Proofs about what the simulated meter answers: for every configuration  *)
(* of its profiles, every selection and every request, and for the width   *)
(* of an int and the length of a day as they are.                          *)
(***************************************************************************)
EXTENDS DataServices, FiniteSetTheorems, FunctionTheorems, SequenceTheorems,
        WellFoundedInduction, TLAPS

-----------------------------------------------------------------------------
(* Division and multiples.                                                 *)

LEMMA Division ==
    ASSUME NEW t \in Nat, NEW p \in Nat \ {0}
    PROVE  /\ t \div p \in Nat /\ t % p \in 0..(p - 1)
           /\ t = p * (t \div p) + (t % p)
<1>1. t \div p \in Nat
  OBVIOUS
<1>2. t % p \in 0..(p - 1)
  OBVIOUS
<1>3. t = p * (t \div p) + (t % p)
  OBVIOUS
<1> QED
  BY <1>1, <1>2, <1>3

LEMMA MultiplyMonotone ==
    ASSUME NEW a \in Int, NEW b \in Int, NEW p \in Nat \ {0}
    PROVE  /\ a <= b => p * a <= p * b
           /\ a < b => p * a + p <= p * b
  OBVIOUS

\* A quotient and a remainder are the only ones.
LEMMA DivisionIsUnique ==
    ASSUME NEW t \in Nat, NEW p \in Nat \ {0}, NEW m \in Int, NEW r \in 0..(p - 1),
           t = p * m + r
    PROVE  t \div p = m /\ t % p = r
<1> DEFINE k == t \div p
           q == t % p
<1>1. k \in Nat /\ q \in 0..(p - 1) /\ t = p * k + q
  BY Division
<1> HIDE DEF k, q
<1>2. ~(k < m)
  BY <1>1, MultiplyMonotone
<1>3. ~(m < k)
  BY <1>1, MultiplyMonotone
<1>4. k = m
  BY <1>1, <1>2, <1>3
<1>5. q = r
  BY <1>1, <1>4
<1> QED
  BY <1>4, <1>5 DEF k, q

-----------------------------------------------------------------------------
(* The captures of a profile.                                              *)

\* The first n multiples of p from the c-th on.
Multiples(p, c, n) == {p * (c + k - 1) : k \in 1..n}

LEMMA MultiplesCount ==
    ASSUME NEW p \in Nat \ {0}, NEW c \in Nat, NEW n \in Nat
    PROVE  IsFiniteSet(Multiples(p, c, n)) /\ Cardinality(Multiples(p, c, n)) = n
<1> DEFINE S == 1..n
           T == Multiples(p, c, n)
           f == [k \in S |-> p * (c + k - 1)]
<1>1. IsFiniteSet(S) /\ Cardinality(S) = n
  <2>1. IsFiniteSet(S) /\ Cardinality(S) = IF 1 > n THEN 0 ELSE n - 1 + 1
    BY FS_Interval
  <2> QED
    BY <2>1
<1>2. f \in Bijection(S, T)
  <2>1. ASSUME NEW k \in S, NEW j \in S, k # j PROVE f[k] # f[j]
    <3>1. /\ c + k - 1 \in Int /\ c + j - 1 \in Int
          /\ c + k - 1 < c + j - 1 \/ c + j - 1 < c + k - 1
      BY <2>1
    <3>2. /\ c + k - 1 < c + j - 1 => p * (c + k - 1) + p <= p * (c + j - 1)
          /\ c + j - 1 < c + k - 1 => p * (c + j - 1) + p <= p * (c + k - 1)
      BY <3>1, MultiplyMonotone
    <3>3. p * (c + k - 1) \in Int /\ p * (c + j - 1) \in Int
      BY <3>1
    <3>4. p * (c + k - 1) # p * (c + j - 1)
      BY <3>1, <3>2, <3>3
    <3> QED
      BY <3>4
  <2>2. f \in [S -> T] /\ \A t \in T : \E k \in S : f[k] = t
    BY DEF Multiples
  <2> HIDE DEF f, S, T
  <2> QED
    BY <2>1, <2>2, Fun_IsBij
<1>3. ExistsBijection(S, T)
  BY <1>2 DEF ExistsBijection
<1> HIDE DEF S, T, f
<1>4. IsFiniteSet(T) /\ Cardinality(T) = Cardinality(S)
  BY <1>1, <1>3, FS_Bijection
<1> QED
  BY <1>1, <1>4 DEF T

LEMMA MultiplesBelow ==
    ASSUME NEW p \in Nat \ {0}, NEW c \in Nat, NEW n \in Nat, NEW i \in 1..n
    PROVE  {t \in Multiples(p, c, n) : t < p * (c + i - 1)} = Multiples(p, c, i - 1)
<1>1. ASSUME NEW k \in 1..n
      PROVE  p * (c + k - 1) < p * (c + i - 1) <=> k <= i - 1
  <2>1. c + k - 1 \in Int /\ c + i - 1 \in Int
    OBVIOUS
  <2>2. /\ c + k - 1 < c + i - 1 => p * (c + k - 1) + p <= p * (c + i - 1)
        /\ c + i - 1 <= c + k - 1 => p * (c + i - 1) <= p * (c + k - 1)
    BY <2>1, MultiplyMonotone
  <2>3. p * (c + k - 1) \in Int /\ p * (c + i - 1) \in Int
    BY <2>1
  <2>4. c + k - 1 < c + i - 1 <=> k <= i - 1
    OBVIOUS
  <2>5. c + i - 1 <= c + k - 1 <=> ~(k <= i - 1)
    OBVIOUS
  <2> QED
    BY <2>2, <2>3, <2>4, <2>5
<1>2. \A k \in 1..n : k \in 1..(i - 1) <=> k <= i - 1
  OBVIOUS
<1>3. \A k \in 1..(i - 1) : k \in 1..n
  OBVIOUS
<1> QED
  BY <1>1, <1>2, <1>3 DEF Multiples

\* The first multiple that is not below t.
Ceiling(t, p) == (t \div p) + IF t % p = 0 THEN 0 ELSE 1

LEMMA CeilingBounds ==
    ASSUME NEW t \in Nat, NEW p \in Nat \ {0}
    PROVE  Ceiling(t, p) \in Nat /\ t <= p * Ceiling(t, p) /\ p * Ceiling(t, p) < t + p
<1> DEFINE a == t \div p
           r == t % p
<1>1. a \in Nat /\ r \in 0..(p - 1) /\ t = p * a + r
  BY Division
<1>2. Ceiling(t, p) = IF r = 0 THEN a ELSE a + 1
  BY <1>1 DEF Ceiling
<1> HIDE DEF a, r
<1>3. p * (a + 1) = p * a + p
  BY <1>1
<1> QED
  BY <1>1, <1>2, <1>3

\* How many captures there are.
CaptureCount(start, end, p) == (end \div p) - Ceiling(start, p) + 1

LEMMA CapturesAreMultiples ==
    ASSUME NEW start \in Nat, NEW end \in Nat, start <= end, NEW p \in Nat \ {0}
    PROVE  /\ CaptureCount(start, end, p) \in Nat
           /\ Captures(start, end, p)
                = Multiples(p, Ceiling(start, p), CaptureCount(start, end, p))
<1> DEFINE c == Ceiling(start, p)
           f == end \div p
           n == CaptureCount(start, end, p)
<1>1. c \in Nat /\ start <= p * c /\ p * c < start + p
  BY CeilingBounds
<1>2. f \in Nat /\ p * f <= end /\ end < p * f + p
  <2>1. f \in Nat /\ end % p \in 0..(p - 1) /\ end = p * f + (end % p)
    BY Division
  <2> QED
    BY <2>1
<1>3. n = f - c + 1
  BY DEF CaptureCount
<1> HIDE DEF c, f, n
<1>4. n \in Nat
  <2>1. CASE f + 1 < c
    <3>1. p * (f + 1) + p <= p * c
      BY <1>1, <1>2, <2>1, MultiplyMonotone
    <3>2. p * (f + 1) = p * f + p
      BY <1>2
    <3> QED
      BY <1>1, <1>2, <3>1, <3>2
  <2> QED
    BY <1>1, <1>2, <1>3, <2>1
<1>5. ASSUME NEW t \in Captures(start, end, p) PROVE t \in Multiples(p, c, n)
  <2>1. t \in Nat /\ start <= t /\ t <= end /\ t % p = 0
    BY <1>5 DEF Captures
  <2> DEFINE j == t \div p
  <2>2. j \in Nat /\ t = p * j
    <3>1. j \in Nat /\ t % p \in 0..(p - 1) /\ t = p * j + (t % p)
      BY <2>1, Division
    <3> QED
      BY <2>1, <3>1
  <2> HIDE DEF j
  <2>3. c <= j
    <3>1. j < c => p * j + p <= p * c
      BY <1>1, <2>2, MultiplyMonotone
    <3> QED
      BY <1>1, <2>1, <2>2, <3>1
  <2>4. j <= f
    <3>1. f < j => p * f + p <= p * j
      BY <1>2, <2>2, MultiplyMonotone
    <3> QED
      BY <1>2, <2>1, <2>2, <3>1
  <2>5. j - c + 1 \in 1..n /\ c + (j - c + 1) - 1 = j
    BY <1>1, <1>2, <1>3, <2>2, <2>3, <2>4
  <2> QED
    BY <2>2, <2>5 DEF Multiples
<1>6. ASSUME NEW t \in Multiples(p, c, n) PROVE t \in Captures(start, end, p)
  <2>1. PICK k \in 1..n : t = p * (c + k - 1)
    BY <1>6 DEF Multiples
  <2> DEFINE j == c + k - 1
  <2>2. j \in Nat /\ c <= j /\ j <= f
    BY <1>1, <1>2, <1>3, <1>4
  <2>3. t = p * j
    BY <2>1
  <2> HIDE DEF j
  <2>4. p * c <= p * j /\ p * j <= p * f
    BY <1>1, <1>2, <2>2, MultiplyMonotone
  <2>5. t \in Nat /\ start <= t /\ t <= end
    BY <1>1, <1>2, <2>2, <2>3, <2>4
  <2>6. t % p = 0
    <3>1. t = p * j + 0 /\ 0 \in 0..(p - 1)
      BY <2>2, <2>3
    <3> QED
      BY <2>2, <2>5, <3>1, DivisionIsUnique
  <2> QED
    BY <2>5, <2>6 DEF Captures
<1> QED
  BY <1>4, <1>5, <1>6 DEF c, n

-----------------------------------------------------------------------------
(* The rows of a load profile.                                             *)

LEMMA ConstantTypes ==
    /\ Word \in Nat \ {0} /\ Day \in Nat \ {0} /\ MaxPoints \in Nat \ {0}
    /\ Word \div 2 \in Nat /\ Word = 2 * (Word \div 2)
<1>1. Word \in Nat \ {0} /\ Day \in Nat \ {0} /\ MaxPoints \in Nat \ {0} /\ Word % 2 = 0
  BY ObjectTransferAssumption
<1>2. Word \div 2 \in Nat /\ Word = 2 * (Word \div 2) + (Word % 2)
  BY <1>1, Division
<1> QED
  BY <1>1, <1>2

\* Between times that are less than half a Word apart the difference does not wrap.
LEMMA DifferenceIsSigned ==
    ASSUME NEW start \in Int, NEW end \in Int,
           end - start \in (-(Word \div 2))..((Word \div 2) - 1)
    PROVE  SignedDifference(start, end) = end - start
<1> DEFINE h == Word \div 2
           d == end - start
<1>1. /\ Word \in Nat \ {0} /\ h \in Nat /\ Word = 2 * h
      /\ d \in Int /\ -h <= d /\ d < h
  BY ConstantTypes
<1>2. SignedDifference(start, end) = IF d % Word < h THEN d % Word ELSE (d % Word) - Word
  BY DEF SignedDifference
<1> HIDE DEF h, d
<1>3. CASE d >= 0
  <2>1. d \in 0..(Word - 1) /\ d \in Nat /\ d = Word * 0 + d
    BY <1>1, <1>3
  <2>2. d % Word = d
    BY <1>1, <2>1, DivisionIsUnique
  <2> QED
    BY <1>1, <1>2, <2>2 DEF d
<1>4. CASE d < 0
  <2>1. d % Word = d + Word
    BY <1>1, <1>4
  <2> QED
    BY <1>1, <1>2, <1>4, <2>1 DEF d
<1> QED
  BY <1>1, <1>3, <1>4

\* get_next_period_time finds the first capture.
LEMMA NextPeriodIsCapture ==
    ASSUME NEW start \in Nat, NEW p \in 1..(Day - 1)
    PROVE  NextPeriodTime(start, p) = p * Ceiling(start, p)
<1> DEFINE a == start \div p
           r == start % p
<1>0. p \in Nat \ {0} /\ p < Day
  BY ConstantTypes
<1>1. a \in Nat /\ r \in 0..(p - 1) /\ start = p * a + r /\ p \in Nat \ {0} /\ p < Day
  BY <1>0, Division
<1>2. NextPeriodTime(start, p) = IF r = 0 THEN start ELSE a * p + p
  <2>1. r # 0 => NextPeriodTime(start, p) = a * p + p
    BY <1>1 DEF NextPeriodTime
  <2>2. r = 0 => NextPeriodTime(start, p) = start
    BY DEF NextPeriodTime
  <2> QED
    BY <2>1, <2>2
<1>3. Ceiling(start, p) = IF r = 0 THEN a ELSE a + 1
  BY <1>1 DEF Ceiling
<1> HIDE DEF a, r
<1>4. p * (a + 1) = a * p + p
  BY <1>1
<1> QED
  BY <1>1, <1>2, <1>3, <1>4

\* Of the captures between two times calc_points counts all, or all but one.
LEMMA PeriodsOfCaptures ==
    ASSUME NEW start \in Nat, NEW end \in Nat, start <= end, NEW p \in 1..(Day - 1)
    PROVE  LET length == end - start
               counted == WholePeriods(start, length, p) + ExtraPoint(start, end, length, p)
               n == CaptureCount(start, end, p)
           IN  counted \in Nat /\ n \in Nat /\ counted \in {n - 1, n}
<1> DEFINE length == end - start
           a == start \div p
           r == start % p
           f == end \div p
           q == end % p
           n == CaptureCount(start, end, p)
           whole == length \div p
           extra == ExtraPoint(start, end, length, p)
<1>1. p \in Nat \ {0} /\ p # Day /\ length \in Nat
  BY ConstantTypes
<1>2. /\ a \in Nat /\ r \in 0..(p - 1) /\ start = p * a + r
      /\ f \in Nat /\ q \in 0..(p - 1) /\ end = p * f + q
  BY <1>1, Division
<1>3. n \in Nat /\ n = (f - (a + IF r = 0 THEN 0 ELSE 1)) + 1
  BY <1>1, CapturesAreMultiples DEF CaptureCount, Ceiling
<1>4. WholePeriods(start, length, p) = whole /\ whole \in Nat
  BY <1>1, Division DEF WholePeriods
<1>5. extra \in {0, 1} /\ (r # 0 /\ q # 0 => extra = 0)
  BY DEF ExtraPoint
<1>6. length = p * (f - a) + (q - r)
  <2>1. p * (f - a) = p * f - p * a
    BY <1>1, <1>2
  <2> QED
    BY <1>1, <1>2, <2>1
<1> HIDE DEF a, r, f, q, n, extra, length, whole
<1>7. CASE q >= r
  <2>1. q - r \in 0..(p - 1) /\ f - a \in Int
    BY <1>1, <1>2, <1>7
  <2>2. whole = f - a
    BY <1>1, <1>6, <2>1, DivisionIsUnique DEF whole
  <2>3. r = 0 => whole + extra \in {n - 1, n}
    BY <1>2, <1>3, <1>5, <2>2
  <2>4. ASSUME r # 0 PROVE whole + extra \in {n - 1, n}
    <3>1. q # 0
      BY <1>1, <1>2, <1>7, <2>4
    <3>2. extra = 0 /\ n = f - a
      BY <1>2, <1>3, <1>5, <2>4, <3>1
    <3> QED
      BY <1>2, <2>2, <3>2
  <2>5. whole + extra \in {n - 1, n}
    BY <2>3, <2>4
  <2> QED
    BY <1>3, <1>4, <1>5, <2>5 DEF n, extra, length, whole
<1>8. CASE q < r
  <2>1. q - r + p \in 0..(p - 1) /\ f - a - 1 \in Int /\ r # 0
    BY <1>1, <1>2, <1>8
  <2>2. p * (f - a - 1) = p * (f - a) - p
    BY <1>1, <1>2
  <2>3. length = p * (f - a - 1) + (q - r + p)
    BY <1>1, <1>2, <1>6, <2>2
  <2>4. whole = f - a - 1
    BY <1>1, <2>1, <2>3, DivisionIsUnique DEF whole
  <2>5. n = f - a
    BY <1>2, <1>3, <2>1
  <2>6. whole + extra \in {n - 1, n}
    BY <1>2, <1>5, <2>4, <2>5
  <2> QED
    BY <1>3, <1>4, <1>5, <2>6 DEF n, extra, length, whole
<1> QED
  BY <1>1, <1>2, <1>7, <1>8

\* Before and after the selection there is no point.
LEMMA PointsBounds ==
    ASSUME NEW start \in Int, NEW end \in Int, NEW p \in Nat
    PROVE  Points(start, end, p) \in 0..MaxPoints
<1> DEFINE length == SignedDifference(start, end)
           raw == WholePeriods(start, length, p) + ExtraPoint(start, end, length, p)
<1>1. MaxPoints \in Nat /\ 0 \in 0..MaxPoints
  BY ConstantTypes
<1>2. length \in Int
  <2>1. Word \in Nat \ {0}
    BY ConstantTypes
  <2>2. (end - start) % Word \in Nat
    BY <2>1
  <2> QED
    BY <2>1, <2>2 DEF SignedDifference
<1> HIDE DEF length
<1>3. ASSUME p # 0, length >= 0 PROVE raw \in Nat
  <2>1. length \in Nat /\ p \in Nat \ {0}
    BY <1>2, <1>3
  <2>2. length \div p \in Nat
    BY <2>1, Division
  <2>3. WholePeriods(start, length, p) \in Nat
    BY <2>2 DEF WholePeriods
  <2>4. ExtraPoint(start, end, length, p) \in Nat
    BY DEF ExtraPoint
  <2> QED
    BY <2>3, <2>4
<1>4. Points(start, end, p) = IF p = 0 \/ length < 0 THEN 0 ELSE AtMost(raw)
  BY DEF Points, length
<1> HIDE DEF raw
<1>5. raw \in Nat => AtMost(raw) \in 0..MaxPoints
  BY <1>1 DEF AtMost
<1> QED
  BY <1>1, <1>2, <1>3, <1>4, <1>5

LEMMA LoadRowsFields ==
    ASSUME NEW p, p.clock, p.period \in Nat, NEW start \in Int, NEW end \in Int
    PROVE  LET points == Points(start, end, p.period)
               rows == LoadRows(p, start, end)
           IN  /\ DOMAIN rows = 1..points /\ Len(rows) = points
               /\ \A i \in 1..points :
                     rows[i].time = (NextPeriodTime(start, p.period) + (p.period * (i - 1))) % Word
<1> DEFINE points == Points(start, end, p.period)
           rows == LoadRows(p, start, end)
           time(i) == (NextPeriodTime(start, p.period) + (p.period * (i - 1))) % Word
<1>1. points \in Nat
  <2>1. Points(start, end, p.period) \in 0..MaxPoints
    BY PointsBounds
  <2> HIDE DEF points
  <2> QED
    BY <2>1, ConstantTypes DEF points
<1>2. rows = [i \in 1..points |-> Row(time(i), FormattedCells(p))]
  BY DEF LoadRows
<1> HIDE DEF points, rows, time
<1>3. DOMAIN rows = 1..points /\ \A i \in 1..points : rows[i].time = time(i)
  BY <1>2 DEF Row
<1>4. Len(rows) = points
  BY <1>1, <1>2
<1> QED
  BY <1>3, <1>4 DEF points, rows, time

\* The rows are the captures, the first ones of them.
LEMMA RowsOfCaptures ==
    ASSUME NEW p, p.clock, p.period \in 1..(Day - 1),
           NEW start \in 0..(Word - 1), NEW end \in 0..(Word - 1),
           end - start \in (-(Word \div 2))..((Word \div 2) - 1)
    PROVE  LET captures == Captures(start, end, p.period)
               rows == LoadRows(p, start, end)
           IN  /\ \A i \in DOMAIN rows :
                     /\ rows[i].time \in captures
                     /\ Cardinality({t \in captures : t < rows[i].time}) = i - 1
               /\ Len(rows) < MaxPoints => Cardinality(captures) - Len(rows) \in {0, 1}
<1> DEFINE d == p.period
           points == Points(start, end, d)
           captures == Captures(start, end, d)
           rows == LoadRows(p, start, end)
           c == Ceiling(start, d)
           n == CaptureCount(start, end, d)
<1>1. Word \in Nat \ {0} /\ start \in Nat /\ end \in Nat /\ end < Word /\ d \in Nat \ {0}
  BY ConstantTypes
<1>2. SignedDifference(start, end) = end - start
  BY <1>1, DifferenceIsSigned
<1>3. /\ DOMAIN rows = 1..points /\ Len(rows) = points
      /\ \A i \in 1..points : rows[i].time = (NextPeriodTime(start, d) + (d * (i - 1))) % Word
  <2>1. p.period \in Nat /\ start \in Int /\ end \in Int
    BY <1>1
  <2> HIDE DEF rows, points
  <2> QED
    BY <2>1, LoadRowsFields DEF rows, points
<1> DEFINE Good ==
        /\ \A i \in DOMAIN rows :
              /\ rows[i].time \in captures
              /\ Cardinality({t \in captures : t < rows[i].time}) = i - 1
        /\ Len(rows) < MaxPoints => Cardinality(captures) - Len(rows) \in {0, 1}
<1>4. ASSUME end < start PROVE Good
  <2>1. points = 0
    <3>1. end - start < 0
      BY <1>1, <1>4
    <3> QED
      BY <1>2, <3>1 DEF Points
  <2>2. captures = {}
    BY <1>1, <1>4 DEF Captures
  <2>3. Cardinality(captures) = 0
    BY <2>2, FS_EmptySet
  <2> QED
    BY <1>3, <2>1, <2>3
<1>5. ASSUME start <= end PROVE Good
  <2> DEFINE raw == WholePeriods(start, end - start, d) + ExtraPoint(start, end, end - start, d)
  <2>1. raw \in Nat /\ n \in Nat /\ raw \in {n - 1, n}
    BY <1>1, <1>5, PeriodsOfCaptures
  <2>2. points = IF raw >= MaxPoints THEN MaxPoints ELSE raw
    <3>1. ~(d = 0 \/ end - start < 0)
      BY <1>1, <1>5
    <3> QED
      BY <1>2, <3>1 DEF Points, AtMost
  <2>3. captures = Multiples(d, c, n) /\ c \in Nat
    BY <1>1, <1>5, CapturesAreMultiples, CeilingBounds
  <2>4. NextPeriodTime(start, d) = d * c
    BY <1>1, NextPeriodIsCapture
  <2> HIDE DEF d, points, captures, rows, c, n, raw
  <2>5. points \in Nat /\ points <= n /\ (points < MaxPoints => points = raw)
    BY <2>1, <2>2, ConstantTypes
  <2>6. ASSUME NEW i \in 1..points
        PROVE  rows[i].time = d * (c + i - 1) /\ d * (c + i - 1) \in captures
    <3>1. i \in 1..n
      BY <2>1, <2>5
    <3>2. d * (c + i - 1) \in captures
      BY <2>3, <3>1 DEF Multiples
    <3>3. d * (c + i - 1) \in Nat /\ d * (c + i - 1) < Word
      BY <1>1, <3>2 DEF Captures, captures
    <3>4. d * c + (d * (i - 1)) = d * (c + i - 1)
      BY <1>1, <2>3
    <3>5. (d * (c + i - 1)) % Word = d * (c + i - 1)
      BY <1>1, <3>3
    <3> QED
      BY <1>3, <2>4, <3>2, <3>4, <3>5
  <2>7. ASSUME NEW i \in 1..points
        PROVE  Cardinality({t \in captures : t < rows[i].time}) = i - 1
    <3>1. i \in 1..n /\ i - 1 \in Nat
      BY <2>1, <2>5
    <3>2. {t \in captures : t < d * (c + i - 1)} = Multiples(d, c, i - 1)
      BY <1>1, <2>1, <2>3, <3>1, MultiplesBelow
    <3>3. Cardinality(Multiples(d, c, i - 1)) = i - 1
      BY <1>1, <2>3, <3>1, MultiplesCount
    <3> QED
      BY <2>6, <3>2, <3>3
  <2>8. Cardinality(captures) = n
    BY <1>1, <2>1, <2>3, MultiplesCount
  <2>9. points < MaxPoints => n - points \in {0, 1}
    BY <2>1, <2>5
  <2> QED
    BY <1>3, <2>6, <2>7, <2>8, <2>9
<1>6. start <= end \/ end < start
  BY <1>1
<1>7. Good
  <2> HIDE DEF Good
  <2> QED
    BY <1>4, <1>5, <1>6
<1> QED
  BY <1>7

-----------------------------------------------------------------------------
(* The rows of an event profile.                                           *)

LEMMA EventsInSelection ==
    ASSUME NEW start \in 0..(Word - 1), NEW end \in 0..(Word - 1), start <= end,
           end - start < (Word \div 2) - 1
    PROVE  /\ EventRange(start, end) # 0
           /\ EventTimes(start, end) \subseteq start..end
<1> DEFINE width == end - start + 1
<1>1. Word \in Nat \ {0} /\ Word \div 2 \in Nat /\ Word = 2 * (Word \div 2) /\ RandMax \in Nat
  BY ConstantTypes, ObjectTransferAssumption
<1>2. EventRange(start, end) = width
  <2>1. (end + 1) - start \in (-(Word \div 2))..((Word \div 2) - 1)
    BY <1>1
  <2>2. SignedDifference(start, end + 1) = (end + 1) - start
    BY <2>1, DifferenceIsSigned
  <2> QED
    BY <2>2 DEF EventRange
<1>3. width \in Nat \ {0} /\ start + width - 1 = end
  OBVIOUS
<1> HIDE DEF width
<1>4. ASSUME NEW r \in 0..RandMax PROVE (start + (r % width)) % Word \in start..end
  <2>1. r % width \in 0..(width - 1)
    BY <1>1, <1>3, Division
  <2> DEFINE t == start + (r % width)
  <2>2. t \in start..end
    BY <1>3, <2>1
  <2> HIDE DEF t
  <2>3. t % Word = t
    BY <1>1, <2>2
  <2> QED
    BY <2>2, <2>3 DEF t
<1>5. EventTimes(start, end) = {(start + (r % width)) % Word : r \in 0..RandMax}
  <2>1. ~(width < 0)
    BY <1>3
  <2> QED
    BY <1>2, <2>1 DEF EventTimes
<1> QED
  BY <1>2, <1>3, <1>4, <1>5

\* An event profile is answered with one or two of them.
LEMMA EventTableFields ==
    ASSUME NEW p, p.clock, NEW start, NEW end, EventRange(start, end) # 0,
           NEW a \in EventTables(p, start, end)
    PROVE  /\ a.kind = "table"
           /\ \A i \in DOMAIN a.rows : a.rows[i].time \in EventTimes(start, end)
<1> DEFINE R == {Row(t, <<"Enum">>) : t \in EventTimes(start, end)}
<1>1. PICK rows \in UNION {[1..n -> R] : n \in {1, 2}} : a = Table(rows)
  BY DEF EventTables
<1>4. \A i \in DOMAIN rows : rows[i] \in R
  OBVIOUS
<1>2. \A x \in R : x.time \in EventTimes(start, end)
  BY DEF Row
<1> HIDE DEF R
<1>3. a.kind = "table" /\ a.rows = rows
  BY <1>1 DEF Table
<1> QED
  BY <1>2, <1>3, <1>4

-----------------------------------------------------------------------------
(* The invariant.                                                          *)

\* A request and its answer are set in the same step: the answer to a get is, in every
\* state that holds the request, what comes of one that the object of its descriptor may give.
AnswerInv ==
    request.kind = "get" =>
        \E d \in Descriptors, sel \in Selections :
            /\ request.items = <<[d |-> d, sel |-> sel]>>
            /\ \E a \in Answers(d, sel) : response \in Sent(a)

KindInv ==
    /\ its_state \in {1, 3, 6}
    /\ request.kind \in {"none", "get", "list", "action", "other"}
    /\ response.kind \in {"none", "denied", "value", "table", "fault", "list", "action", "unanswered"}
    /\ response.kind = "table" => response.count = Len(response.rows)

ServicesInv == KindInv /\ AnswerInv

AnswerKind(a) ==
    /\ a.kind \in {"denied", "value", "table", "fault"}
    /\ a.kind = "table" => a.count = Len(a.rows)

LEMMA SimpleKinds ==
    /\ AnswerKind(Denied) /\ AnswerKind(Fault)
    /\ \A type, data : AnswerKind(Value(type, data))
    /\ \A rows : AnswerKind(Table(rows)) /\ AnswerKind(TableOf(rows))
  BY DEF AnswerKind, Denied, Fault, Value, Table, TableOf

\* It gets through, or the process stops.
LEMMA SentAnswer ==
    ASSUME NEW a, NEW r \in Sent(a)
    PROVE  r = a \/ (r = Fault /\ Overruns(a))
  BY DEF Sent

\* Every answer of an object is a denial, a value, a table or the end of the process.
LEMMA AnswerKinds ==
    ASSUME NEW d, NEW start, NEW end, NEW its, NEW a \in GetAnswers(d, start, end, its)
    PROVE  AnswerKind(a)
<1>1. ASSUME NEW p, NEW attr, NEW b \in ProfileAnswers(p, attr, start, end) PROVE AnswerKind(b)
  <2>1. ASSUME NEW e \in EventTables(p, start, end) PROVE AnswerKind(e)
    BY <2>1, SimpleKinds DEF EventTables
  <2> QED
    BY <1>1, <2>1, SimpleKinds DEF ProfileAnswers
<1>2. ASSUME NEW b \in RegisterAnswers(d) PROVE AnswerKind(b)
  BY <1>2, SimpleKinds DEF RegisterAnswers, Uninitialised
<1>3. ASSUME NEW b \in EventCodeAnswers PROVE AnswerKind(b)
  BY <1>3, SimpleKinds DEF EventCodeAnswers
<1>4. ASSUME NEW b \in ImageAnswers(d.attr, its) PROVE AnswerKind(b)
  BY <1>4, SimpleKinds DEF ImageAnswers
<1>5. ASSUME NEW b \in DisconnectAnswers(d.attr) PROVE AnswerKind(b)
  BY <1>5, SimpleKinds DEF DisconnectAnswers
<1> QED
  BY <1>1, <1>2, <1>3, <1>4, <1>5, SimpleKinds DEF GetAnswers

\* A list is answered with a list, with nothing, or not at all.
LEMMA ListKinds ==
    ASSUME NEW items, NEW a \in ListResponses(items)
    PROVE  a.kind \in {"list", "unanswered", "fault"}
<1>1. \A answers, shared : ListResponse(answers, shared).kind = "list"
  BY DEF ListResponse
<1>2. ASSUME NEW S \in {IF Fault \in Range(answers)
                          THEN {Fault}
                          ELSE {ListResponse(answers, shared) : shared \in BOOLEAN}
                                 \cup {Fault : shared \in {b \in BOOLEAN : ListOverruns(answers, b)}} :
                        answers \in ListAnswers(items)},
             a \in S
      PROVE  a.kind \in {"list", "fault"}
  BY <1>1, <1>2 DEF Fault
<1>3. CASE items = <<>>
  BY <1>3 DEF ListResponses
<1>4. CASE items # <<>>
  <2>1. a \in UNION {IF Fault \in Range(answers)
                       THEN {Fault}
                       ELSE {ListResponse(answers, shared) : shared \in BOOLEAN}
                              \cup {Fault : shared \in {b \in BOOLEAN : ListOverruns(answers, b)}} :
                     answers \in ListAnswers(items)}
    BY <1>4 DEF ListResponses
  <2> QED
    BY <1>2, <2>1
<1> QED
  BY <1>3, <1>4

LEMMA InitServices == Init => ServicesInv
  BY DEF Init, ServicesInv, KindInv, AnswerInv, None

\* Every step keeps the kinds of the answers.
LEMMA StepKinds ==
    ASSUME KindInv, [Next]_vars
    PROVE  KindInv'
<1>1. CASE GetNormal
  <2>1. PICK d \in Descriptors, sel \in Selections :
           /\ request' = [kind |-> "get", items |-> <<[d |-> d, sel |-> sel]>>]
           /\ \E a \in Answers(d, sel) : response' \in Sent(a)
    BY <1>1 DEF GetNormal
  <2>2. AnswerKind(response')
    BY <2>1, AnswerKinds, SentAnswer, SimpleKinds DEF Answers
  <2> QED
    BY <1>1, <2>1, <2>2 DEF GetNormal, KindInv, AnswerKind
<1>2. CASE GetWithList
  <2>1. PICK n \in 0..MaxList : \E items \in [1..n -> ListItems] :
           /\ request' = [kind |-> "list", items |-> items]
           /\ response' \in ListResponses(Understood(items))
    BY <1>2 DEF GetWithList
  <2>2. response'.kind \in {"list", "unanswered", "fault"}
    BY <2>1, ListKinds
  <2> QED
    BY <1>2, <2>1, <2>2 DEF GetWithList, KindInv
<1>3. CASE Action
  <2>1. its_state' \in {1, 3, 6}
    BY <1>3 DEF Action, ActionAccepted, ImageMethods, KindInv
  <2> QED
    BY <1>3, <2>1 DEF Action, KindInv
<1>4. CASE GetOther \/ Done
  BY <1>4 DEF GetOther, Done, None, KindInv
<1>5. CASE UNCHANGED vars
  BY <1>5 DEF vars, KindInv
<1> QED
  BY <1>1, <1>2, <1>3, <1>4, <1>5 DEF Next

LEMMA StepAnswerInv ==
    ASSUME AnswerInv, [Next]_vars
    PROVE  AnswerInv'
<1>1. CASE GetNormal
  <2>1. PICK d \in Descriptors, sel \in Selections :
           /\ request' = [kind |-> "get", items |-> <<[d |-> d, sel |-> sel]>>]
           /\ \E a \in Answers(d, sel) : response' \in Sent(a)
    BY <1>1 DEF GetNormal
  <2>2. \A e, f : Answers(e, f)' = Answers(e, f)
    BY <1>1 DEF GetNormal, Answers
  <2>3. request'.items = <<[d |-> d, sel |-> sel]>>
    BY <2>1
  <2> QED
    BY <2>1, <2>2, <2>3 DEF AnswerInv
<1>2. CASE GetWithList \/ Action \/ GetOther \/ Done
  <2>1. request'.kind \in {"list", "action", "other", "none"}
    BY <1>2 DEF GetWithList, Action, GetOther, Done, None
  <2> QED
    BY <2>1 DEF AnswerInv
<1>3. CASE UNCHANGED vars
  <2>1. request' = request /\ response' = response /\ \A d, sel : Answers(d, sel)' = Answers(d, sel)
    BY <1>3 DEF vars, Answers
  <2> QED
    BY <2>1 DEF AnswerInv
<1> QED
  BY <1>1, <1>2, <1>3 DEF Next

\* The answers are those of the objects, for every configuration and every request.
THEOREM ServicesInvariant == Spec => []ServicesInv
<1>1. ServicesInv /\ [Next]_vars => ServicesInv'
  BY StepKinds, StepAnswerInv DEF ServicesInv
<1> QED
  BY <1>1, InitServices, PTL DEF Spec

-----------------------------------------------------------------------------
(* The theorems.                                                           *)

LEMMA ReadsProfile ==
    ASSUME NEW d, d.class = 7, d.obis \in DOMAIN Profiles, NEW start, NEW end, NEW its
    PROVE  GetAnswers(d, start, end, its) = ProfileAnswers(Profiles[d.obis], d.attr, start, end)
  BY DEF GetAnswers

LEMMA BufferIsAttribute2 == 2 # 3 /\ 2 # 4
  OBVIOUS

\* The rows of a profile, by its type.
LEMMA ReadsLoad ==
    ASSUME NEW p, p.type = "load profile", NEW start, NEW end
    PROVE  ProfileAnswers(p, 2, start, end) = {TableOf(LoadRows(p, start, end))}
<1>1. p.type \in {"load profile", "event profile"} /\ p.type # "event profile"
  OBVIOUS
<1> QED
  BY <1>1, BufferIsAttribute2, Zenon DEF ProfileAnswers

LEMMA ReadsEvents ==
    ASSUME NEW p, p.type = "event profile", NEW start, NEW end
    PROVE  ProfileAnswers(p, 2, start, end) = EventTables(p, start, end)
<1>1. p.type \in {"load profile", "event profile"} /\ p.type # "load profile"
  OBVIOUS
<1> QED
  BY <1>1, BufferIsAttribute2, Zenon DEF ProfileAnswers

\* What a profile was asked for, and its answer unless an overrun stopped the process.
LEMMA ReadAnswer ==
    ASSUME AnswerInv, NEW type, IsRead(type), type \in {"load profile", "event profile"},
           FitsAlone(Asked(1)) \/ response # Fault
    PROVE  LET sel == Asked(1).sel
               p == Profiles[Asked(1).d.obis]
           IN  /\ sel \in Selections /\ p.period \in Nat /\ p.type = type
               /\ type = "load profile" => response = TableOf(LoadRows(p, sel.start, sel.end))
               /\ type = "event profile" => response \in EventTables(p, sel.start, sel.end)
<1>1. PICK d \in Descriptors, sel \in Selections :
         /\ request.items = <<[d |-> d, sel |-> sel]>>
         /\ \E a \in Answers(d, sel) : response \in Sent(a)
  BY DEF IsRead, AnswerInv
<1>2. Asked(1).d = d /\ Asked(1).sel = sel
  <2> DEFINE item == [d |-> d, sel |-> sel]
  <2>1. item.d = d /\ item.sel = sel /\ <<item>>[1] = item
    OBVIOUS
  <2> HIDE DEF item
  <2>2. request.items = <<item>>
    BY <1>1 DEF item
  <2> QED
    BY <2>1, <2>2 DEF Asked
<1>3. d.class = 7 /\ d.attr = 2 /\ d.obis \in DOMAIN Profiles /\ Profiles[d.obis].type = type
  BY <1>2 DEF IsRead
<1>4. response \in ProfileAnswers(Profiles[d.obis], d.attr, sel.start, sel.end)
  <2>1. GetAnswers(d, sel.start, sel.end, its_state)
          = ProfileAnswers(Profiles[d.obis], d.attr, sel.start, sel.end)
    BY <1>3, ReadsProfile
  <2>2. response \in Answers(d, sel)
    <3>1. PICK a \in Answers(d, sel) : response \in Sent(a)
      BY <1>1
    <3>2. a \in Singly(Asked(1))
      BY <1>2, <3>1 DEF Singly, Answers
    <3> QED
      BY <3>1, <3>2, SentAnswer DEF FitsAlone
  <2> QED
    BY <1>3, <2>1, <2>2 DEF Answers
<1>5. Profiles[d.obis].period \in Nat
  BY <1>3, ObjectTransferAssumption
<1>6. /\ type = "load profile" =>
            response = TableOf(LoadRows(Profiles[d.obis], sel.start, sel.end))
      /\ type = "event profile" =>
            response \in EventTables(Profiles[d.obis], sel.start, sel.end)
  <2>1. response \in ProfileAnswers(Profiles[d.obis], 2, sel.start, sel.end)
    <3>1. d.attr = 2
      BY <1>3
    <3> QED
      BY <1>4, <3>1, Zenon
  <2>2. ASSUME type = "load profile"
        PROVE  response = TableOf(LoadRows(Profiles[d.obis], sel.start, sel.end))
    <3>1. ProfileAnswers(Profiles[d.obis], 2, sel.start, sel.end)
            = {TableOf(LoadRows(Profiles[d.obis], sel.start, sel.end))}
      <4>1. Profiles[d.obis].type = "load profile"
        BY <1>3, <2>2
      <4> QED
        BY <4>1, ReadsLoad, Zenon
    <3> QED
      BY <2>1, <3>1
  <2>3. ASSUME type = "event profile"
        PROVE  response \in EventTables(Profiles[d.obis], sel.start, sel.end)
    <3>1. ProfileAnswers(Profiles[d.obis], 2, sel.start, sel.end)
            = EventTables(Profiles[d.obis], sel.start, sel.end)
      <4>1. Profiles[d.obis].type = "event profile"
        BY <1>3, <2>3
      <4> QED
        BY <4>1, ReadsEvents, Zenon
    <3> QED
      BY <2>1, <3>1
  <2> QED
    BY <2>2, <2>3
<1> QED
  BY <1>2, <1>3, <1>5, <1>6

LEMMA SelectionTypes ==
    ASSUME NEW sel \in Selections
    PROVE  sel.start \in 0..(Word - 1) /\ sel.end \in 0..(Word - 1)
<1>1. Word \in Nat \ {0}
  BY ConstantTypes
<1>2. 0 \in 0..(Word - 1)
  BY <1>1
<1> QED
  BY <1>2, DataServicesAssumption DEF NoSelection, BadSelection, Between

\* The kinds of requests and answers, the counts of the tables, and at most 32 rows of a
\* load profile, whatever is asked for (object_transfer.cpp:27-68).
THEOREM ServicesTypeTheorem == Spec => []TypeOK
<1>1. ServicesInv => TypeOK
  <2>0. SUFFICES ASSUME ServicesInv, IsRead("load profile"), response.kind = "table"
               PROVE  response.count <= MaxPoints
    BY DEF ServicesInv, KindInv, TypeOK
  <2> DEFINE sel == Asked(1).sel
             p == Profiles[Asked(1).d.obis]
  <2>9. response # Fault
    <3>1. Fault.kind # "table"
      BY DEF Fault
    <3> QED
      BY <2>0, <3>1, Zenon
  <2>1. /\ sel \in Selections /\ p.period \in Nat
        /\ response = TableOf(LoadRows(p, sel.start, sel.end))
    BY <2>0, <2>9, ReadAnswer DEF ServicesInv
  <2>2. sel.start \in Int /\ sel.end \in Int
    <3> HIDE DEF sel, p
    <3>1. sel.start \in 0..(Word - 1) /\ sel.end \in 0..(Word - 1)
      BY <2>1, SelectionTypes
    <3> QED
      BY <3>1, ConstantTypes
  <2> HIDE DEF sel, p
  <2>3. LoadRows(p, sel.start, sel.end) # <<>> /\ response = Table(LoadRows(p, sel.start, sel.end))
    BY <2>0, <2>1 DEF TableOf, Denied
  <2>4. p.clock
    BY <2>3 DEF LoadRows
  <2>5. Len(LoadRows(p, sel.start, sel.end)) = Points(sel.start, sel.end, p.period)
    BY <2>1, <2>2, <2>4, LoadRowsFields
  <2>6. Points(sel.start, sel.end, p.period) \in 0..MaxPoints
    BY <2>1, <2>2, PointsBounds
  <2>7. response.count = Points(sel.start, sel.end, p.period)
    BY <2>3, <2>5 DEF Table
  <2>8. \A n \in 0..MaxPoints : n <= MaxPoints
    BY ConstantTypes
  <2> QED
    BY <2>6, <2>7, <2>8
<1> QED
  BY <1>1, ServicesInvariant, PTL

\* The rows of a load profile are the captures of the selected times, for every period
\* below a day and every two times that an unsigned int holds and whose difference an int
\* holds (object_transfer.cpp:27-68, 71-134).
THEOREM RowsTheorem == Spec => []RowsAreCaptures
<1>1. ServicesInv => RowsAreCaptures
  <2> DEFINE sel == Asked(1).sel
             p == Profiles[Asked(1).d.obis]
             captures == Captures(sel.start, sel.end, p.period)
             rows == IF response.kind = "table" THEN response.rows ELSE <<>>
  <2>0. SUFFICES ASSUME ServicesInv, IsRead("load profile"), FitsAlone(Asked(1)), p.clock,
                      p.period \in 1..(Day - 1),
                      sel.end - sel.start \in (-(Word \div 2))..((Word \div 2) - 1)
               PROVE  /\ \A i \in DOMAIN rows :
                           /\ rows[i].time \in captures
                           /\ Cardinality({t \in captures : t < rows[i].time}) = i - 1
                      /\ Len(rows) < MaxPoints => Cardinality(captures) - Len(rows) \in {0, 1}
    BY DEF RowsAreCaptures
  <2>1. /\ sel \in Selections
        /\ response = TableOf(LoadRows(p, sel.start, sel.end))
    BY <2>0, ReadAnswer DEF ServicesInv
  <2>2. rows = LoadRows(p, sel.start, sel.end)
    BY <2>1 DEF TableOf, Table, Denied
  <2>3. sel.start \in 0..(Word - 1) /\ sel.end \in 0..(Word - 1)
    BY <2>1, SelectionTypes
  <2>4. sel.end - sel.start \in (-(Word \div 2))..((Word \div 2) - 1) /\ p.clock
        /\ p.period \in 1..(Day - 1)
    BY <2>0
  <2> DEFINE start == sel.start
             end == sel.end
  <2>5. /\ start \in 0..(Word - 1) /\ end \in 0..(Word - 1)
        /\ end - start \in (-(Word \div 2))..((Word \div 2) - 1)
        /\ p.clock /\ p.period \in 1..(Day - 1)
    BY <2>3, <2>4
  <2>6. rows = LoadRows(p, start, end) /\ captures = Captures(start, end, p.period)
    BY <2>2
  <2> HIDE DEF sel, p, rows, captures, start, end
  <2>7. LET cs == Captures(start, end, p.period)
            rs == LoadRows(p, start, end)
        IN  /\ \A i \in DOMAIN rs :
                  /\ rs[i].time \in cs
                  /\ Cardinality({t \in cs : t < rs[i].time}) = i - 1
            /\ Len(rs) < MaxPoints => Cardinality(cs) - Len(rs) \in {0, 1}
    BY <2>5, RowsOfCaptures
  <2> QED
    BY <2>6, <2>7
<1> QED
  BY <1>1, ServicesInvariant, PTL

\* The times of events lie in the selection, for every RAND_MAX and every two times in
\* order whose distance an int holds (object_transfer.cpp:260-306).
THEOREM EventsTheorem == Spec => []EventsAreInSelection
<1>1. ServicesInv => EventsAreInSelection
  <2> DEFINE sel == Asked(1).sel
             p == Profiles[Asked(1).d.obis]
  <2>0. SUFFICES ASSUME ServicesInv, IsRead("event profile"), FitsAlone(Asked(1)), p.clock,
                      sel.start <= sel.end, sel.end - sel.start < (Word \div 2) - 1
               PROVE  /\ response.kind = "table"
                      /\ \A i \in DOMAIN response.rows :
                            response.rows[i].time \in sel.start..sel.end
    BY DEF EventsAreInSelection
  <2>1. /\ sel \in Selections
        /\ response \in EventTables(p, sel.start, sel.end)
    BY <2>0, ReadAnswer DEF ServicesInv
  <2>2. sel.start \in 0..(Word - 1) /\ sel.end \in 0..(Word - 1)
    BY <2>1, SelectionTypes
  <2> HIDE DEF sel, p
  <2>3. /\ EventRange(sel.start, sel.end) # 0
        /\ EventTimes(sel.start, sel.end) \subseteq sel.start..sel.end
    BY <2>0, <2>2, EventsInSelection
  <2>4. /\ response.kind = "table"
        /\ \A i \in DOMAIN response.rows :
              response.rows[i].time \in EventTimes(sel.start, sel.end)
    BY <2>0, <2>1, <2>3, EventTableFields
  <2> QED
    BY <2>3, <2>4
<1> QED
  BY <1>1, ServicesInvariant, PTL

-----------------------------------------------------------------------------
(* Induction and folds.  The folds of the community modules are recursive   *)
(* functions over sets of places; what they compute is shown by induction,  *)
(* with sets in the place of predicates.                                    *)

\* Every set of naturals that is not empty has a least element.
LEMMA Least ==
    ASSUME NEW T, T \subseteq Nat, T # {}
    PROVE  \E m \in T : \A k \in T : m <= k
<1> DEFINE R == OpToRel(<, Nat)
<1>1. IsWellFoundedOn(R, Nat)
  BY NatLessThanWellFounded
<1>2. \A a, b \in Nat : a < b => <<a, b>> \in R
  BY DEF OpToRel
<1> HIDE DEF R
<1>3. PICK x \in T : \A y \in T : ~(<<y, x>> \in R)
  BY <1>1, WFMin
<1>4. ASSUME NEW y \in T PROVE x <= y
  <2>1. x \in Nat /\ y \in Nat
    OBVIOUS
  <2>2. ~(y < x)
    BY <1>2, <1>3, <2>1
  <2> QED
    BY <2>1, <2>2
<1> QED
  BY <1>4

\* Induction: a set with 0 and the successors of its elements has every natural number.
LEMMA Induction ==
    ASSUME NEW T, 0 \in T, \A n \in Nat : n \in T => n + 1 \in T
    PROVE  Nat \subseteq T
<1> SUFFICES ASSUME Nat \ T # {} PROVE FALSE
  OBVIOUS
<1>1. PICK m \in Nat \ T : \A k \in Nat \ T : m <= k
  BY Least
<1>2. m # 0 /\ m - 1 \in Nat
  BY <1>1
<1>3. m - 1 \in T
  BY <1>1, <1>2
<1> QED
  BY <1>1, <1>2, <1>3

\* The places of a sequence have a last one.
LEMMA LastPlace ==
    ASSUME NEW n \in Nat, NEW S \in SUBSET (1..n), S # {}
    PROVE  Max(S) \in S /\ \A k \in S : k <= Max(S)
<1> DEFINE T == {m \in Nat : \A k \in S : k <= m}
<1>1. PICK m \in T : \A k \in T : m <= k
  <2>1. n \in T /\ T \subseteq Nat
    OBVIOUS
  <2> HIDE DEF T
  <2> QED
    BY <2>1, Least
<1>2. m \in S
  <2> SUFFICES ASSUME m \notin S PROVE FALSE
    OBVIOUS
  <2>1. m \in Nat /\ \A k \in S : k \in Nat /\ k >= 1 /\ k <= m /\ k # m
    OBVIOUS
  <2>2. PICK j \in S : TRUE
    OBVIOUS
  <2>3. m - 1 \in Nat /\ \A k \in S : k <= m - 1
    BY <2>1, <2>2
  <2>4. m - 1 \in T
    BY <2>3
  <2> QED
    BY <1>1, <2>1, <2>4
<1>3. \E x \in S : \A y \in S : x >= y
  BY <1>2
<1> QED
  BY <1>3 DEF Max

\* The function that a fold is defined by (Folds.tla), with a step for each place.
Iterates(it, n, V, base, Step) ==
    /\ it \in [SUBSET (1..n) -> V]
    /\ it[{}] = base
    /\ \A S \in SUBSET (1..n) : S # {} => it[S] = Step[<<it[S \ {Max(S)}], Max(S)>>]

\* It exists.
LEMMA FoldExists ==
    ASSUME NEW n \in Nat, NEW V, NEW base \in V, NEW Step \in [V \X (1..n) -> V]
    PROVE  \E it : Iterates(it, n, V, base, Step)
<1> DEFINE Body(it, S) == IF S = {} THEN base ELSE Step[<<it[S \ {Max(S)}], Max(S)>>]
           Upto(m) == \E it \in [SUBSET (1..m) -> V] :
                         \A S \in SUBSET (1..m) : it[S] = Body(it, S)
           T == {m \in Nat : m <= n => Upto(m)}
<1>1. 0 \in T
  <2> DEFINE it == [S \in SUBSET (1..0) |-> base]
  <2>1. it \in [SUBSET (1..0) -> V] /\ \A S \in SUBSET (1..0) : S = {} /\ it[S] = base
    OBVIOUS
  <2> QED
    BY <2>1
<1>2. ASSUME NEW m \in Nat, m \in T PROVE m + 1 \in T
  <2>0. SUFFICES ASSUME m + 1 <= n PROVE Upto(m + 1)
    <3> HIDE DEF Upto
    <3> QED
      OBVIOUS
  <2>1. PICK g \in [SUBSET (1..m) -> V] : \A S \in SUBSET (1..m) : g[S] = Body(g, S)
    <3>1. Upto(m)
      <4> HIDE DEF Upto
      <4> QED
        BY <1>2, <2>0
    <3> QED
      BY <3>1
  <2> DEFINE h == [S \in SUBSET (1..(m + 1)) |->
                     IF m + 1 \in S THEN Step[<<g[S \ {m + 1}], m + 1>>] ELSE g[S]]
  <2>2. \A S \in SUBSET (1..(m + 1)) : S \ {m + 1} \in SUBSET (1..m)
    OBVIOUS
  <2>3. \A S \in SUBSET (1..(m + 1)) : m + 1 \notin S => S \in SUBSET (1..m)
    BY <2>2
  <2>4. h \in [SUBSET (1..(m + 1)) -> V]
    <3>1. ASSUME NEW S \in SUBSET (1..(m + 1))
          PROVE  (IF m + 1 \in S THEN Step[<<g[S \ {m + 1}], m + 1>>] ELSE g[S]) \in V
      <4>1. m + 1 \in S => <<g[S \ {m + 1}], m + 1>> \in V \X (1..n)
        BY <2>0, <2>1, <2>2
      <4>2. m + 1 \notin S => g[S] \in V
        BY <2>1, <2>3
      <4> QED
        BY <4>1, <4>2
    <3> QED
      BY <3>1
  <2>5. ASSUME NEW S \in SUBSET (1..m) PROVE h[S] = g[S]
    <3>1. S \in SUBSET (1..(m + 1)) /\ m + 1 \notin S
      OBVIOUS
    <3> QED
      BY <3>1
  <2>6. ASSUME NEW S \in SUBSET (1..(m + 1)) PROVE h[S] = Body(h, S)
    <3>1. CASE S = {}
      <4>1. {} \in SUBSET (1..m)
        OBVIOUS
      <4>2. h[S] = g[{}] /\ g[{}] = base
        BY <2>1, <2>5, <3>1, <4>1
      <4> QED
        BY <3>1, <4>2
    <3>2. CASE m + 1 \in S
      <4>1. Max(S) = m + 1
        <5>0. m + 1 \in Nat /\ S \in SUBSET (1..(m + 1)) /\ S # {}
          BY <3>2
        <5>1. Max(S) \in S /\ \A k \in S : k <= Max(S)
          BY <5>0, LastPlace, Zenon
        <5>2. \A k \in S : k \in Int /\ k <= m + 1
          BY <5>0
        <5>3. Max(S) \in Int /\ Max(S) <= m + 1 /\ m + 1 <= Max(S)
          BY <3>2, <5>1, <5>2, Zenon
        <5> QED
          BY <5>0, <5>3
      <4>2. h[S \ {m + 1}] = g[S \ {m + 1}]
        BY <2>2, <2>5
      <4>3. h[S] = Step[<<g[S \ {m + 1}], m + 1>>]
        BY <3>2
      <4> HIDE DEF h
      <4> QED
        BY <3>2, <4>1, <4>2, <4>3
    <3>3. CASE S # {} /\ m + 1 \notin S
      <4>1. S \in SUBSET (1..m)
        BY <2>3, <3>3
      <4>2. S \ {Max(S)} \in SUBSET (1..m)
        BY <4>1
      <4>3. h[S] = g[S] /\ h[S \ {Max(S)}] = g[S \ {Max(S)}]
        BY <2>5, <4>1, <4>2
      <4> HIDE DEF h
      <4> QED
        BY <2>1, <3>3, <4>1, <4>3
    <3> QED
      BY <3>1, <3>2, <3>3
  <2> HIDE DEF h, Body
  <2> QED
    BY <2>4, <2>6
<1>3. Upto(n)
  <2> HIDE DEF T, Upto
  <2>1. n \in T
    BY <1>1, <1>2, Induction
  <2> QED
    BY <2>1 DEF T
<1>4. PICK it \in [SUBSET (1..n) -> V] : \A S \in SUBSET (1..n) : it[S] = Body(it, S)
  BY <1>3
<1>5. it[{}] = base /\ \A S \in SUBSET (1..n) :
                            S # {} => it[S] = Step[<<it[S \ {Max(S)}], Max(S)>>]
  BY <1>4
<1> QED
  BY <1>4, <1>5 DEF Iterates

\* What it says of the first places: one step more for each.
LEMMA FirstPlaces ==
    ASSUME NEW n \in Nat, NEW k \in 1..n
    PROVE  /\ 1..k \in SUBSET (1..n) /\ 1..k # {} /\ 1..0 = {}
           /\ Max(1..k) = k /\ (1..k) \ {Max(1..k)} = 1..(k - 1)
<1>1. 1..k \in SUBSET (1..n) /\ k \in 1..k /\ 1..0 = {}
  OBVIOUS
<1>2. Max(1..k) = k
  <2>1. Max(1..k) \in 1..k /\ \A j \in 1..k : j <= Max(1..k)
    BY <1>1, LastPlace
  <2> QED
    BY <1>1, <2>1
<1>3. (1..k) \ {k} = 1..(k - 1)
  OBVIOUS
<1> QED
  BY <1>1, <1>2, <1>3

\* The states of a fold, from the base to its value.
States(st, n, V, base, Step, last) ==
    /\ st \in [0..n -> V]
    /\ st[0] = base /\ st[n] = last
    /\ \A k \in 1..n : st[k] = Step[<<st[k - 1], k>>]

\* A function that takes such steps for the first places.
Runs(it, n, V, base, Step) ==
    /\ it[{}] = base
    /\ \A k \in 1..n : it[1..(k - 1)] \in V => it[1..k] = Step[<<it[1..(k - 1)], k>>]

LEMMA FoldStates ==
    ASSUME NEW n \in Nat, NEW V, NEW base \in V, NEW Step \in [V \X (1..n) -> V],
           NEW it, Runs(it, n, V, base, Step)
    PROVE  \E st : States(st, n, V, base, Step, it[1..n])
<1>0. /\ it[{}] = base
      /\ \A k \in 1..n : it[1..(k - 1)] \in V => it[1..k] = Step[<<it[1..(k - 1)], k>>]
  BY DEF Runs
<1> DEFINE T == {k \in Nat : k <= n => it[1..k] \in V}
           st == [k \in 0..n |-> it[1..k]]
<1>1. 0 \in T
  <2>1. 1..0 = {}
    OBVIOUS
  <2> QED
    BY <1>0, <2>1
<1>2. ASSUME NEW k \in Nat, k \in T PROVE k + 1 \in T
  <2> SUFFICES ASSUME k + 1 <= n PROVE it[1..(k + 1)] \in V
    OBVIOUS
  <2>1. it[1..k] \in V /\ k + 1 \in 1..n /\ (k + 1) - 1 = k
    BY <1>2
  <2>2. it[1..(k + 1)] = Step[<<it[1..k], k + 1>>]
    BY <1>0, <2>1
  <2> QED
    BY <2>1, <2>2
<1>3. \A k \in 0..n : it[1..k] \in V
  <2>1. Nat \subseteq T
    <3> HIDE DEF T
    <3> QED
      BY <1>1, <1>2, Induction
  <2> QED
    BY <2>1
<1>4. st \in [0..n -> V] /\ st[0] = base /\ st[n] = it[1..n]
  <2>1. 1..0 = {} /\ 0 \in 0..n /\ n \in 0..n
    OBVIOUS
  <2> QED
    BY <1>0, <1>3, <2>1
<1>5. ASSUME NEW k \in 1..n PROVE st[k] = Step[<<st[k - 1], k>>]
  <2>1. k \in 0..n /\ k - 1 \in 0..n
    OBVIOUS
  <2> QED
    BY <1>0, <1>3, <2>1
<1> HIDE DEF st
<1> QED
  BY <1>4, <1>5 DEF States

\* The sums of the first lengths, up to the total.
Sums(st, n, lengths) ==
    /\ st \in [0..n -> Nat]
    /\ st[0] = 0 /\ st[n] = Total(lengths)
    /\ \A k \in 1..n : st[k] = st[k - 1] + lengths[k]

LEMMA TotalStates ==
    ASSUME NEW n \in Nat, NEW lengths \in [1..n -> Nat]
    PROVE  \E st : Sums(st, n, lengths)
<1> DEFINE V == Nat
           Step == [x \in V \X (1..n) |-> x[1] + lengths[x[2]]]
           Defines(f) == f = [S \in SUBSET DOMAIN lengths |->
                                  IF S = {} THEN 0 ELSE f[S \ {Max(S)}] + lengths[Max(S)]]
           it == CHOOSE f : Defines(f)
<1>0. 0 \in V /\ V = Nat
  OBVIOUS
<1>1. Step \in [V \X (1..n) -> V] /\ \A v \in V, k \in 1..n : Step[<<v, k>>] = v + lengths[k]
  BY SMTT(30)
<1>2. Total(lengths) = it[1..n]
  BY DEF Total, FoldLeft, MapThenFoldSet
<1> HIDE DEF Step, V
<1>3. \E x : Defines(x)
  <2>0. PICK x : Iterates(x, n, V, 0, Step)
    BY <1>0, <1>1, FoldExists
  <2>1. /\ x \in [SUBSET (1..n) -> V] /\ x[{}] = 0
        /\ \A S \in SUBSET (1..n) : S # {} => x[S] = Step[<<x[S \ {Max(S)}], Max(S)>>]
    BY <2>0 DEF Iterates
  <2>2. ASSUME NEW S \in SUBSET (1..n), S # {}
        PROVE  Step[<<x[S \ {Max(S)}], Max(S)>>] = x[S \ {Max(S)}] + lengths[Max(S)]
    <3>1. Max(S) \in 1..n /\ S \ {Max(S)} \in SUBSET (1..n)
      BY <2>2, LastPlace
    <3>2. x[S \ {Max(S)}] \in V
      BY <2>1, <3>1
    <3> QED
      BY <1>1, <3>1, <3>2
  <2>3. Defines(x)
    BY <2>1, <2>2
  <2> QED
    BY <2>3
<1>4. Defines(it)
  <2> HIDE DEF Defines
  <2> QED
    BY <1>3
<1>5. it[{}] = 0 /\ \A k \in 1..n : it[1..k] = it[1..(k - 1)] + lengths[k]
  <2> HIDE DEF it
  <2>1. ASSUME NEW S \in SUBSET (1..n)
        PROVE  it[S] = IF S = {} THEN 0 ELSE it[S \ {Max(S)}] + lengths[Max(S)]
    BY <1>4
  <2>2. ASSUME NEW k \in 1..n PROVE it[1..k] = it[1..(k - 1)] + lengths[k]
    BY <2>1, FirstPlaces
  <2>3. it[{}] = 0
    BY <2>1
  <2> QED
    BY <2>2, <2>3
<1> HIDE DEF it
<1>6. PICK st : States(st, n, V, 0, Step, it[1..n])
  <2>1. Runs(it, n, V, 0, Step)
    BY <1>1, <1>5 DEF Runs
  <2> QED
    BY <1>0, <1>1, <2>1, FoldStates
<1>7. /\ st \in [0..n -> V] /\ st[0] = 0 /\ st[n] = it[1..n]
      /\ \A k \in 1..n : st[k - 1] \in V /\ st[k] = Step[<<st[k - 1], k>>]
  BY <1>6 DEF States
<1>8. \A k \in 1..n : st[k] = st[k - 1] + lengths[k]
  BY <1>1, <1>7
<1> QED
  BY <1>0, <1>2, <1>6, <1>7, <1>8 DEF Sums

\* What Picked pushes, place by place.
PushesAt(st, n, seq, places) ==
    /\ st \in [0..n -> Seq({seq[k] : k \in (1..n) \cap places})]
    /\ st[0] = <<>> /\ st[n] = Picked(seq, places)
    /\ \A k \in 1..n : st[k] = IF k \in places THEN Append(st[k - 1], seq[k]) ELSE st[k - 1]

LEMMA PickedStates ==
    ASSUME NEW n \in Nat, NEW seq, DOMAIN seq = 1..n, NEW places
    PROVE  \E st : PushesAt(st, n, seq, places)
<1> DEFINE V == Seq({seq[k] : k \in (1..n) \cap places})
           Push(v, k) == IF k \in places THEN Append(v, seq[k]) ELSE v
           Step == [x \in V \X (1..n) |-> Push(x[1], x[2])]
           Defines(f) == f = [S \in SUBSET (1..n) |->
                                  IF S = {} THEN <<>> ELSE Push(f[S \ {Max(S)}], Max(S))]
           it == CHOOSE f : Defines(f)
<1>0. <<>> \in V
  OBVIOUS
<1>1. Step \in [V \X (1..n) -> V] /\ \A v \in V, k \in 1..n : Step[<<v, k>>] = Push(v, k)
  <2>1. \A v \in V, k \in 1..n : Push(v, k) \in V
    OBVIOUS
  <2> HIDE DEF V, Push
  <2> QED
    BY <2>1
<1>2. Picked(seq, places) = it[1..n]
  <2> DEFINE ks == [k \in 1..n |-> k]
             At(f) == f = [S \in SUBSET (1..n) |->
                               IF S = {} THEN <<>> ELSE Push(f[S \ {Max(S)}], ks[Max(S)])]
  <2>1. Picked(seq, places) = (CHOOSE f : At(f))[1..n]
    BY DEF Picked, FoldLeftDomain, FoldLeft, MapThenFoldSet
  <2>2. \A S \in SUBSET (1..n) : S # {} => ks[Max(S)] = Max(S)
    BY LastPlace
  <2> HIDE DEF ks, Push
  <2>3. ASSUME NEW x PROVE At(x) <=> Defines(x)
    BY <2>2
  <2> HIDE DEF At, Defines
  <2>4. (CHOOSE x : At(x)) = (CHOOSE x : Defines(x))
    BY <2>3
  <2> QED
    BY <2>1, <2>4
<1> HIDE DEF V, Push, Step
<1>3. \E x : Defines(x)
  <2>0. PICK x : Iterates(x, n, V, <<>>, Step)
    BY <1>0, <1>1, FoldExists
  <2>1. /\ x \in [SUBSET (1..n) -> V] /\ x[{}] = <<>>
        /\ \A S \in SUBSET (1..n) : S # {} => x[S] = Step[<<x[S \ {Max(S)}], Max(S)>>]
    BY <2>0 DEF Iterates
  <2>2. ASSUME NEW S \in SUBSET (1..n), S # {}
        PROVE  Step[<<x[S \ {Max(S)}], Max(S)>>] = Push(x[S \ {Max(S)}], Max(S))
    <3>1. Max(S) \in 1..n /\ S \ {Max(S)} \in SUBSET (1..n)
      BY <2>2, LastPlace
    <3>2. x[S \ {Max(S)}] \in V
      BY <2>1, <3>1
    <3> QED
      BY <1>1, <3>1, <3>2
  <2>3. Defines(x)
    BY <2>1, <2>2
  <2> QED
    BY <2>3
<1>4. Defines(it)
  <2> HIDE DEF Defines
  <2> QED
    BY <1>3
<1>5. it[{}] = <<>> /\ \A k \in 1..n : it[1..k] = Push(it[1..(k - 1)], k)
  <2> HIDE DEF it
  <2>1. ASSUME NEW S \in SUBSET (1..n)
        PROVE  it[S] = IF S = {} THEN <<>> ELSE Push(it[S \ {Max(S)}], Max(S))
    BY <1>4
  <2>2. ASSUME NEW k \in 1..n PROVE it[1..k] = Push(it[1..(k - 1)], k)
    BY <2>1, FirstPlaces
  <2>3. it[{}] = <<>>
    BY <2>1
  <2> QED
    BY <2>2, <2>3
<1> HIDE DEF it
<1>6. PICK st : States(st, n, V, <<>>, Step, it[1..n])
  <2>1. Runs(it, n, V, <<>>, Step)
    BY <1>1, <1>5 DEF Runs
  <2> QED
    BY <1>0, <1>1, <2>1, FoldStates
<1>7. /\ st \in [0..n -> V] /\ st[0] = <<>> /\ st[n] = it[1..n]
      /\ \A k \in 1..n : st[k - 1] \in V /\ st[k] = Step[<<st[k - 1], k>>]
  BY <1>6 DEF States
<1>8. \A k \in 1..n : st[k] = Push(st[k - 1], k)
  BY <1>1, <1>7
<1> QED
  BY <1>2, <1>7, <1>8 DEF V, Push, PushesAt

\* Of all places it leaves the whole sequence, of none nothing.
LEMMA PickedAll ==
    ASSUME NEW n \in Nat, NEW seq, DOMAIN seq = 1..n, seq \in Seq({seq[k] : k \in 1..n})
    PROVE  Picked(seq, 1..n) = seq
<1> DEFINE places == 1..n
           E == {seq[k] : k \in (1..n) \cap places}
<1>0. PICK st : PushesAt(st, n, seq, places)
  BY PickedStates
<1>1. /\ st \in [0..n -> Seq(E)] /\ st[0] = <<>> /\ st[n] = Picked(seq, places)
      /\ \A k \in 1..n : st[k] = Append(st[k - 1], seq[k])
  BY <1>0 DEF PushesAt
<1> HIDE DEF E
<1> DEFINE Prefix(s, k) == Len(s) = k /\ \A j \in 1..k : s[j] = seq[j]
           T == {k \in Nat : k <= n => Prefix(st[k], k)}
<1>2. 0 \in T
  BY <1>1
<1>3. ASSUME NEW k \in Nat, k \in T PROVE k + 1 \in T
  <2>0. SUFFICES ASSUME k + 1 <= n PROVE Prefix(st[k + 1], k + 1)
    <3> HIDE DEF Prefix
    <3> QED
      OBVIOUS
  <2>1. k <= n /\ k \in 0..n /\ k + 1 \in 1..n /\ (k + 1) - 1 = k /\ seq[k + 1] \in E
    BY <2>0 DEF E
  <2>2. Prefix(st[k], k)
    <3> HIDE DEF Prefix
    <3> QED
      BY <1>3, <2>1
  <2>3. st[k] \in Seq(E) /\ st[k + 1] = Append(st[k], seq[k + 1])
    BY <1>1, <2>1
  <2> HIDE DEF T
  <2> QED
    BY <2>1, <2>2, <2>3
<1>4. Prefix(st[n], n) /\ st[n] \in Seq(E)
  <2>1. Nat \subseteq T
    <3> HIDE DEF T
    <3> QED
      BY <1>2, <1>3, Induction
  <2>2. n \in T
    BY <2>1
  <2> HIDE DEF Prefix
  <2> QED
    BY <1>1, <2>2
<1>5. Len(seq) = n
  OBVIOUS
<1> HIDE DEF T
<1> QED
  BY <1>1, <1>4, <1>5

LEMMA PickedNone ==
    ASSUME NEW n \in Nat, NEW seq, DOMAIN seq = 1..n
    PROVE  Picked(seq, {}) = <<>>
<1>0. PICK st : PushesAt(st, n, seq, {})
  BY PickedStates
<1>1. st \in [0..n -> Seq({})] /\ st[n] = Picked(seq, {})
  <2>1. {seq[k] : k \in (1..n) \cap {}} = {}
    OBVIOUS
  <2> QED
    BY <1>0, <2>1 DEF PushesAt
<1>2. \A s \in Seq({}) : s = <<>>
  OBVIOUS
<1> QED
  BY <1>1, <1>2

\* A sum of the first lengths is at most the total.
LEMMA SumsGrow ==
    ASSUME NEW n \in Nat, NEW lengths \in [1..n -> Nat], NEW st, Sums(st, n, lengths),
           NEW k \in 0..n
    PROVE  st[k] <= Total(lengths)
<1> DEFINE T == {j \in Nat : j <= n => st[n - j] <= Total(lengths)}
<1>0. /\ st \in [0..n -> Nat] /\ st[n] = Total(lengths)
      /\ \A i \in 1..n : st[i] = st[i - 1] + lengths[i]
  BY DEF Sums
<1>1. 0 \in T
  BY <1>0
<1>2. ASSUME NEW j \in Nat, j \in T PROVE j + 1 \in T
  <2> SUFFICES ASSUME j + 1 <= n PROVE st[n - (j + 1)] <= Total(lengths)
    OBVIOUS
  <2>1. st[n - j] <= Total(lengths)
    BY <1>2
  <2>2. n - j \in 1..n /\ (n - j) - 1 = n - (j + 1)
    OBVIOUS
  <2>3. st[n - j] = st[n - (j + 1)] + lengths[n - j]
    BY <1>0, <2>2
  <2>4. st[n - j] \in Nat /\ st[n - (j + 1)] \in Nat /\ lengths[n - j] \in Nat /\ Total(lengths) \in Nat
    BY <1>0, <2>2
  <2> QED
    BY <2>1, <2>3, <2>4
<1>3. n - k \in T
  <2> HIDE DEF T
  <2>1. Nat \subseteq T
    BY <1>1, <1>2, Induction
  <2>2. n - k \in Nat
    OBVIOUS
  <2> QED
    BY <2>1, <2>2
<1>4. n - (n - k) = k /\ n - k <= n
  OBVIOUS
<1> QED
  BY <1>3, <1>4

-----------------------------------------------------------------------------
(* The tables of a list.                                                   *)

\* Rows whose lengths are known.
AreRows(R) == \A r \in R : RowLength(r) \in Nat

LengthsOf(rows) == [k \in DOMAIN rows |-> RowLength(rows[k])]

Added(start, rows) == FoldLeft(AddRow, [length |-> start, rows |-> <<>>], rows)

\* The states while rows are added.
AddsRows(st, start, rows, R) ==
    /\ st \in [0..Len(rows) -> [length : Nat, rows : Seq(R)]]
    /\ st[0] = [length |-> start, rows |-> <<>>] /\ st[Len(rows)] = Added(start, rows)
    /\ \A k \in 1..Len(rows) : st[k] = AddRow(st[k - 1], rows[k])

LEMMA AddedStates ==
    ASSUME NEW R, AreRows(R), NEW rows \in Seq(R), NEW start \in Nat
    PROVE  \E st : AddsRows(st, start, rows, R)
<1> DEFINE n == Len(rows)
           V == [length : Nat, rows : Seq(R)]
           base == [length |-> start, rows |-> <<>>]
           Step == [x \in V \X (1..n) |-> AddRow(x[1], rows[x[2]])]
           Defines(f) == f = [S \in SUBSET DOMAIN rows |->
                                  IF S = {} THEN base ELSE AddRow(f[S \ {Max(S)}], rows[Max(S)])]
           it == CHOOSE f : Defines(f)
<1>0. base \in V /\ n \in Nat /\ DOMAIN rows = 1..n
  OBVIOUS
<1>1. Step \in [V \X (1..n) -> V]
      /\ \A v \in V, k \in 1..n : Step[<<v, k>>] = AddRow(v, rows[k])
  <2>1. ASSUME NEW v \in V, NEW k \in 1..n PROVE AddRow(v, rows[k]) \in V
    <3>1. rows[k] \in R /\ RowLength(rows[k]) \in Nat
      BY DEF AreRows
    <3> QED
      BY <3>1 DEF AddRow
  <2> HIDE DEF V
  <2> QED
    BY <2>1
<1>2. Added(start, rows) = it[1..n]
  BY <1>0 DEF Added, FoldLeft, MapThenFoldSet
<1> HIDE DEF V, Step, base, n
<1>3. \E x : Defines(x)
  <2>0. PICK x : Iterates(x, n, V, base, Step)
    BY <1>0, <1>1, FoldExists
  <2>1. /\ x \in [SUBSET (1..n) -> V] /\ x[{}] = base
        /\ \A S \in SUBSET (1..n) : S # {} => x[S] = Step[<<x[S \ {Max(S)}], Max(S)>>]
    BY <2>0 DEF Iterates
  <2>2. ASSUME NEW S \in SUBSET (1..n), S # {}
        PROVE  Step[<<x[S \ {Max(S)}], Max(S)>>] = AddRow(x[S \ {Max(S)}], rows[Max(S)])
    <3>1. Max(S) \in 1..n /\ S \ {Max(S)} \in SUBSET (1..n)
      BY <1>0, <2>2, LastPlace
    <3>2. x[S \ {Max(S)}] \in V
      BY <2>1, <3>1
    <3> QED
      BY <1>1, <3>1, <3>2
  <2>3. Defines(x)
    BY <1>0, <2>1, <2>2
  <2> QED
    BY <2>3
<1>4. Defines(it)
  <2> HIDE DEF Defines
  <2> QED
    BY <1>3
<1>5. it[{}] = base /\ \A k \in 1..n : it[1..k] = AddRow(it[1..(k - 1)], rows[k])
  <2> HIDE DEF it
  <2>1. ASSUME NEW S \in SUBSET (1..n)
        PROVE  it[S] = IF S = {} THEN base ELSE AddRow(it[S \ {Max(S)}], rows[Max(S)])
    BY <1>0, <1>4
  <2>2. ASSUME NEW k \in 1..n PROVE it[1..k] = AddRow(it[1..(k - 1)], rows[k])
    BY <1>0, <2>1, FirstPlaces
  <2>3. it[{}] = base
    BY <2>1
  <2> QED
    BY <2>2, <2>3
<1> HIDE DEF it
<1>6. PICK st : States(st, n, V, base, Step, it[1..n])
  <2>1. Runs(it, n, V, base, Step)
    BY <1>1, <1>5 DEF Runs
  <2> QED
    BY <1>0, <1>1, <2>1, FoldStates
<1>7. /\ st \in [0..n -> V] /\ st[0] = base /\ st[n] = it[1..n]
      /\ \A k \in 1..n : st[k - 1] \in V /\ st[k] = Step[<<st[k - 1], k>>]
  BY <1>0, <1>6 DEF States
<1>8. \A k \in 1..n : st[k] = AddRow(st[k - 1], rows[k])
  BY <1>1, <1>7
<1> QED
  BY <1>2, <1>7, <1>8 DEF AddsRows, V, base, n

\* Rows that fit are all added.
LEMMA RowsFit ==
    ASSUME NEW R, AreRows(R), NEW rows \in Seq(R), NEW start \in Nat,
           start + Total(LengthsOf(rows)) <= ListLimit
    PROVE  /\ LengthsOf(rows) \in [1..Len(rows) -> Nat] /\ Total(LengthsOf(rows)) \in Nat
           /\ Added(start, rows) = [length |-> start + Total(LengthsOf(rows)), rows |-> rows]
<1> DEFINE n == Len(rows)
           lengths == LengthsOf(rows)
<1>0. n \in Nat /\ DOMAIN rows = 1..n /\ ListLimit \in Nat
  BY DataServicesAssumption
<1>1. lengths \in [1..n -> Nat] /\ \A k \in 1..n : lengths[k] = RowLength(rows[k])
  BY <1>0 DEF LengthsOf, AreRows
<1> HIDE DEF lengths
<1>2. PICK sums : Sums(sums, n, lengths)
  BY <1>0, <1>1, TotalStates
<1>3. /\ sums \in [0..n -> Nat] /\ sums[0] = 0 /\ sums[n] = Total(lengths)
      /\ \A k \in 1..n : sums[k] = sums[k - 1] + lengths[k]
      /\ \A k \in 0..n : sums[k] <= Total(lengths)
  BY <1>0, <1>1, <1>2, SumsGrow DEF Sums
<1>4. PICK st : AddsRows(st, start, rows, R)
  BY AddedStates
<1>5. /\ st \in [0..n -> [length : Nat, rows : Seq(R)]]
      /\ st[0] = [length |-> start, rows |-> <<>>] /\ st[n] = Added(start, rows)
      /\ \A k \in 1..n : st[k] = AddRow(st[k - 1], rows[k])
  BY <1>4 DEF AddsRows
<1>6. start + Total(lengths) <= ListLimit
  BY DEF lengths
<1> HIDE DEF n
<1> DEFINE Kept1(k) == /\ st[k].length = start + sums[k]
                       /\ Len(st[k].rows) = k
                       /\ \A j \in 1..k : st[k].rows[j] = rows[j]
           T == {k \in Nat : k <= n => Kept1(k)}
<1>7. 0 \in T
  <2>1. st[0].length = start /\ st[0].rows = <<>> /\ sums[0] = 0
    BY <1>3, <1>5
  <2>2. start + 0 = start /\ Len(<<>>) = 0 /\ 1..0 = {}
    OBVIOUS
  <2>3. Kept1(0)
    BY <2>1, <2>2
  <2> HIDE DEF Kept1
  <2> QED
    BY <2>3
<1>8. ASSUME NEW k \in Nat, k \in T PROVE k + 1 \in T
  <2>0. SUFFICES ASSUME k + 1 <= n PROVE Kept1(k + 1)
    <3> HIDE DEF Kept1
    <3> QED
      OBVIOUS
  <2>1. k <= n /\ k \in 0..n /\ k + 1 \in 1..n /\ k + 1 \in 0..n /\ (k + 1) - 1 = k
    BY <1>0, <2>0
  <2>2. Kept1(k)
    <3> HIDE DEF Kept1
    <3> QED
      BY <1>8, <2>1
  <2> HIDE DEF T
  <2>3. st[k] \in [length : Nat, rows : Seq(R)] /\ st[k + 1] = AddRow(st[k], rows[k + 1])
    BY <1>5, <2>1
  <2>4. sums[k + 1] = sums[k] + RowLength(rows[k + 1]) /\ sums[k] \in Nat /\ sums[k] <= Total(lengths)
    BY <1>1, <1>3, <2>1
  <2>5. Total(lengths) \in Nat /\ RowLength(rows[k + 1]) \in Nat /\ rows[k + 1] \in R
    BY <1>0, <1>1, <1>3, <2>1
  <2>6. ~(st[k].length > ListLimit)
    BY <1>0, <1>6, <2>2, <2>4, <2>5
  <2>7. st[k + 1] = [length |-> st[k].length + RowLength(rows[k + 1]),
                     rows |-> Append(st[k].rows, rows[k + 1])]
    BY <2>3, <2>6 DEF AddRow
  <2>8. st[k + 1].length = start + sums[k + 1]
    BY <2>2, <2>4, <2>5, <2>7
  <2>9. Len(st[k + 1].rows) = k + 1 /\ \A j \in 1..(k + 1) : st[k + 1].rows[j] = rows[j]
    <3>1. st[k + 1].rows = Append(st[k].rows, rows[k + 1]) /\ st[k].rows \in Seq(R)
      BY <2>3, <2>7
    <3>2. Len(st[k].rows) = k /\ \A j \in 1..k : st[k].rows[j] = rows[j]
      BY <2>2
    <3> QED
      BY <2>5, <3>1, <3>2
  <2> QED
    BY <2>8, <2>9
<1>9. Kept1(n)
  <2>1. Nat \subseteq T
    <3> HIDE DEF T
    <3> QED
      BY <1>7, <1>8, Induction
  <2>2. n \in T
    BY <1>0, <2>1
  <2> HIDE DEF Kept1
  <2> QED
    BY <1>0, <2>2
<1> HIDE DEF T
<1>10. n \in 0..n /\ st[n] \in [length : Nat, rows : Seq(R)]
  BY <1>0, <1>5
<1>11. st[n].rows = rows
  BY <1>0, <1>9, <1>10 DEF n
<1>12. st[n] = [length |-> start + Total(lengths), rows |-> rows]
  BY <1>3, <1>9, <1>10, <1>11
<1>13. Total(lengths) \in Nat
  BY <1>3, <1>10
<1> QED
  BY <1>1, <1>5, <1>12, <1>13 DEF lengths, n

AreTables(tables, R) ==
    \A i \in DOMAIN tables : tables[i].rows \in Seq(R) /\ tables[i] = Table(tables[i].rows)

TableLengths(tables) == [i \in DOMAIN tables |-> TableLength(tables[i])]

\* The states while tables are added.
Packets(R) == [length : Nat, tables : Seq([kind : {"table"}, count : Nat, rows : Seq(R)])]

AddsTables(st, n, tables, R) ==
    /\ st \in [0..n -> Packets(R)]
    /\ st[0] = [length |-> 4, tables |-> <<>>] /\ st[n].tables = FormatTables(tables)
    /\ \A k \in 1..n : st[k] = AddTable(st[k - 1], tables[k])

\* A table that fits is added as it is.
LEMMA TableAdded ==
    ASSUME NEW R, AreRows(R), NEW rows \in Seq(R), NEW sofar, sofar.length \in Nat,
           sofar.length + TableLength(Table(rows)) <= ListLimit
    PROVE  /\ TableLength(Table(rows)) \in Nat
           /\ AddTable(sofar, Table(rows)) =
                [length |-> sofar.length + TableLength(Table(rows)),
                 tables |-> Append(sofar.tables, Table(rows))]
<1> DEFINE start == sofar.length + 3
           total == Total(LengthsOf(rows))
           t == Table(rows)
<1>1. TableLength(t) = 3 + total /\ t.rows = rows
  BY DEF TableLength, LengthsOf, Table
<1>2. total \in Nat
  <2>1. LengthsOf(rows) \in [1..Len(rows) -> Nat] /\ Len(rows) \in Nat
    BY DEF LengthsOf, AreRows
  <2>2. PICK sums : Sums(sums, Len(rows), LengthsOf(rows))
    BY <2>1, TotalStates
  <2> QED
    BY <2>1, <2>2 DEF Sums
<1>3. AddTable(sofar, t) =
        [length |-> Added(start, rows).length,
         tables |-> Append(sofar.tables, [t EXCEPT !.rows = Added(start, rows).rows])]
  BY <1>1 DEF AddTable, Added
<1> HIDE DEF total
<1>4. start \in Nat /\ start + total <= ListLimit
  BY <1>1, <1>2, DataServicesAssumption
<1>5. Added(start, rows) = [length |-> start + total, rows |-> rows]
  <2> HIDE DEF start
  <2> QED
    BY <1>4, RowsFit DEF total
<1>6. Added(start, rows).length = start + total /\ Added(start, rows).rows = rows
  BY <1>5
<1>7. [t EXCEPT !.rows = rows] = t
  BY DEF Table
<1>8. start + total = sofar.length + TableLength(t)
  BY <1>1, <1>2
<1> HIDE DEF t, start
<1>9. TableLength(t) \in Nat
  BY <1>1, <1>2
<1>10. AddTable(sofar, t) = [length |-> sofar.length + TableLength(t),
                            tables |-> Append(sofar.tables, t)]
  BY <1>3, <1>6, <1>7, <1>8, Zenon
<1> QED
  BY <1>9, <1>10, Zenon DEF t

\* However many rows are left out, the packet has tables of such rows.
LEMMA PacketOfTables ==
    ASSUME NEW R, AreRows(R), NEW rows \in Seq(R), NEW v \in Packets(R)
    PROVE  AddTable(v, Table(rows)) \in Packets(R)
<1> DEFINE start == v.length + 3
           t == Table(rows)
           D == [kind : {"table"}, count : Nat, rows : Seq(R)]
<1>1. start \in Nat /\ v.tables \in Seq(D)
  BY DEF Packets
<1>2. PICK st : AddsRows(st, start, rows, R)
  <2> HIDE DEF start
  <2> QED
    BY <1>1, AddedStates
<1>3. Added(start, rows) \in [length : Nat, rows : Seq(R)]
  BY <1>2 DEF AddsRows
<1>4. AddTable(v, t) =
        [length |-> Added(start, rows).length,
         tables |-> Append(v.tables, [t EXCEPT !.rows = Added(start, rows).rows])]
  BY DEF AddTable, Added, Table
<1>5. [t EXCEPT !.rows = Added(start, rows).rows] \in D
  BY <1>3 DEF Table
<1> HIDE DEF t, start, D
<1>6. Append(v.tables, [t EXCEPT !.rows = Added(start, rows).rows]) \in Seq(D)
  BY <1>1, <1>5
<1>7. AddTable(v, t) \in [length : Nat, tables : Seq(D)]
  BY <1>3, <1>4, <1>6
<1> QED
  BY <1>7 DEF Packets, t, D

LEMMA FormattedStates ==
    ASSUME NEW R, AreRows(R), NEW n \in Nat, NEW tables, DOMAIN tables = 1..n, AreTables(tables, R)
    PROVE  \E st : AddsTables(st, n, tables, R)
<1> DEFINE V == Packets(R)
           base == [length |-> 4, tables |-> <<>>]
           Step == [x \in V \X (1..n) |-> AddTable(x[1], tables[x[2]])]
           Defines(f) == f = [S \in SUBSET DOMAIN tables |->
                                  IF S = {} THEN base ELSE AddTable(f[S \ {Max(S)}], tables[Max(S)])]
           it == CHOOSE f : Defines(f)
<1>0. base \in V
  BY DEF Packets
<1>1. Step \in [V \X (1..n) -> V]
      /\ \A v \in V, k \in 1..n : Step[<<v, k>>] = AddTable(v, tables[k])
  <2>1. ASSUME NEW v \in V, NEW k \in 1..n PROVE AddTable(v, tables[k]) \in V
    <3>1. tables[k].rows \in Seq(R) /\ tables[k] = Table(tables[k].rows)
      BY DEF AreTables
    <3> QED
      BY <3>1, PacketOfTables
  <2> HIDE DEF V
  <2> QED
    BY <2>1
<1>2. FormatTables(tables) = it[1..n].tables
  BY DEF FormatTables, TablePacket, FoldLeft, MapThenFoldSet
<1> HIDE DEF V, Step, base
<1>3. \E x : Defines(x)
  <2>0. PICK x : Iterates(x, n, V, base, Step)
    BY <1>0, <1>1, FoldExists
  <2>1. /\ x \in [SUBSET (1..n) -> V] /\ x[{}] = base
        /\ \A S \in SUBSET (1..n) : S # {} => x[S] = Step[<<x[S \ {Max(S)}], Max(S)>>]
    BY <2>0 DEF Iterates
  <2>2. ASSUME NEW S \in SUBSET (1..n), S # {}
        PROVE  Step[<<x[S \ {Max(S)}], Max(S)>>] = AddTable(x[S \ {Max(S)}], tables[Max(S)])
    <3>1. Max(S) \in 1..n /\ S \ {Max(S)} \in SUBSET (1..n)
      BY <2>2, LastPlace
    <3>2. x[S \ {Max(S)}] \in V
      BY <2>1, <3>1
    <3> QED
      BY <1>1, <3>1, <3>2
  <2>3. Defines(x)
    BY <2>1, <2>2
  <2> QED
    BY <2>3
<1>4. Defines(it)
  <2> HIDE DEF Defines
  <2> QED
    BY <1>3
<1>5. it[{}] = base /\ \A k \in 1..n : it[1..k] = AddTable(it[1..(k - 1)], tables[k])
  <2> HIDE DEF it
  <2>1. ASSUME NEW S \in SUBSET (1..n)
        PROVE  it[S] = IF S = {} THEN base ELSE AddTable(it[S \ {Max(S)}], tables[Max(S)])
    BY <1>4
  <2>2. ASSUME NEW k \in 1..n PROVE it[1..k] = AddTable(it[1..(k - 1)], tables[k])
    BY <2>1, FirstPlaces
  <2>3. it[{}] = base
    BY <2>1
  <2> QED
    BY <2>2, <2>3
<1> HIDE DEF it
<1>6. PICK st : States(st, n, V, base, Step, it[1..n])
  <2>1. Runs(it, n, V, base, Step)
    BY <1>1, <1>5 DEF Runs
  <2> QED
    BY <1>0, <1>1, <2>1, FoldStates
<1>7. /\ st \in [0..n -> V] /\ st[0] = base /\ st[n] = it[1..n]
      /\ \A k \in 1..n : st[k - 1] \in V /\ st[k] = Step[<<st[k - 1], k>>]
  BY <1>6 DEF States
<1>8. \A k \in 1..n : st[k] = AddTable(st[k - 1], tables[k])
  BY <1>1, <1>7
<1> QED
  BY <1>2, <1>7, <1>8 DEF AddsTables, V, base

\* Tables that fit are formatted as they are, row by row.
LEMMA TablesFit ==
    ASSUME NEW R, AreRows(R), NEW n \in Nat, NEW tables, DOMAIN tables = 1..n, AreTables(tables, R),
           4 + Total(TableLengths(tables)) <= ListLimit
    PROVE  Len(FormatTables(tables)) = n /\ \A i \in 1..n : FormatTables(tables)[i] = tables[i]
<1> DEFINE lengths == TableLengths(tables)
           D == [kind : {"table"}, count : Nat, rows : Seq(R)]
<1>1. lengths \in [1..n -> Nat] /\ \A k \in 1..n : lengths[k] = TableLength(tables[k])
  <2>1. ASSUME NEW k \in 1..n PROVE TableLength(tables[k]) \in Nat
    <3>1. tables[k].rows \in Seq(R)
      BY DEF AreTables
    <3>2. /\ LengthsOf(tables[k].rows) \in [1..Len(tables[k].rows) -> Nat]
          /\ Len(tables[k].rows) \in Nat
      BY <3>1 DEF LengthsOf, AreRows
    <3>3. PICK sums : Sums(sums, Len(tables[k].rows), LengthsOf(tables[k].rows))
      BY <3>2, TotalStates
    <3>4. Total(LengthsOf(tables[k].rows)) \in Nat
      BY <3>2, <3>3 DEF Sums
    <3>5. TableLength(tables[k]) = 3 + Total(LengthsOf(tables[k].rows))
      BY DEF TableLength, LengthsOf
    <3> QED
      BY <3>4, <3>5
  <2> QED
    BY <2>1 DEF TableLengths
<1>2. 4 + Total(lengths) <= ListLimit
  OBVIOUS
<1> HIDE DEF lengths
<1>3. PICK sums : Sums(sums, n, lengths)
  BY <1>1, TotalStates
<1>4. /\ sums \in [0..n -> Nat] /\ sums[0] = 0 /\ sums[n] = Total(lengths)
      /\ \A k \in 1..n : sums[k] = sums[k - 1] + lengths[k]
      /\ \A k \in 0..n : sums[k] <= Total(lengths)
  BY <1>1, <1>3, SumsGrow DEF Sums
<1>5. PICK st : AddsTables(st, n, tables, R)
  BY FormattedStates
<1>6. /\ st \in [0..n -> Packets(R)]
      /\ st[0] = [length |-> 4, tables |-> <<>>] /\ st[n].tables = FormatTables(tables)
      /\ \A k \in 1..n : st[k] = AddTable(st[k - 1], tables[k])
  BY <1>5 DEF AddsTables
<1> DEFINE Kept1(k) == /\ st[k].length = 4 + sums[k]
                       /\ Len(st[k].tables) = k
                       /\ \A j \in 1..k : st[k].tables[j] = tables[j]
           T == {k \in Nat : k <= n => Kept1(k)}
<1>7. 0 \in T
  <2>1. st[0].length = 4 /\ st[0].tables = <<>> /\ sums[0] = 0
    BY <1>4, <1>6
  <2>2. 4 + 0 = 4 /\ Len(<<>>) = 0 /\ 1..0 = {}
    OBVIOUS
  <2>3. Kept1(0)
    BY <2>1, <2>2
  <2> HIDE DEF Kept1
  <2> QED
    BY <2>3
<1>8. ASSUME NEW k \in Nat, k \in T PROVE k + 1 \in T
  <2>0. SUFFICES ASSUME k + 1 <= n PROVE Kept1(k + 1)
    <3> HIDE DEF Kept1
    <3> QED
      OBVIOUS
  <2>1. k <= n /\ k \in 0..n /\ k + 1 \in 1..n /\ k + 1 \in 0..n /\ (k + 1) - 1 = k
    BY <2>0
  <2>2. Kept1(k)
    <3> HIDE DEF Kept1
    <3> QED
      BY <1>8, <2>1
  <2> HIDE DEF T
  <2>3. st[k].tables \in Seq(D) /\ st[k].length \in Nat /\ st[k + 1] = AddTable(st[k], tables[k + 1])
    <3>1. st[k] \in [length : Nat, tables : Seq(D)]
      BY <1>6, <2>1 DEF Packets
    <3> HIDE DEF D
    <3> QED
      BY <1>6, <2>1, <3>1
  <2> DEFINE l == lengths[k + 1]
             rows == tables[k + 1].rows
  <2>4. sums[k + 1] = sums[k] + l /\ sums[k] \in Nat /\ l \in Nat
        /\ sums[k + 1] <= Total(lengths) /\ sums[k + 1] \in Nat /\ Total(lengths) \in Nat
    BY <1>1, <1>4, <2>1
  <2>5. rows \in Seq(R) /\ tables[k + 1] = Table(rows) /\ l = TableLength(Table(rows))
    BY <1>1, <2>1 DEF AreTables
  <2> HIDE DEF l, rows
  <2>6. st[k].length + l <= ListLimit
    <3>1. st[k].length = 4 + sums[k] /\ ListLimit \in Nat
      BY <2>2, DataServicesAssumption
    <3>2. st[k].length + l = 4 + sums[k + 1]
      BY <2>4, <3>1
    <3> QED
      BY <1>2, <2>4, <3>1, <3>2, SMTT(30)
  <2>7. st[k + 1] = [length |-> st[k].length + l, tables |-> Append(st[k].tables, Table(rows))]
    BY <2>3, <2>5, <2>6, TableAdded
  <2>8. st[k + 1].length = 4 + sums[k + 1]
    BY <2>2, <2>4, <2>7
  <2>9. Table(rows) \in D
    BY <2>5 DEF Table
  <2>10. Len(st[k + 1].tables) = k + 1 /\ \A j \in 1..(k + 1) : st[k + 1].tables[j] = tables[j]
    <3> HIDE DEF D
    <3>1. st[k + 1].tables = Append(st[k].tables, Table(rows)) /\ st[k].tables \in Seq(D)
      BY <2>3, <2>7
    <3>2. Len(st[k].tables) = k /\ \A j \in 1..k : st[k].tables[j] = tables[j]
      BY <2>2
    <3>3. Table(rows) = tables[k + 1] /\ Table(rows) \in D
      BY <2>5, <2>9
    <3> QED
      BY <3>1, <3>2, <3>3
  <2> QED
    BY <2>8, <2>10
<1>9. Kept1(n)
  <2>1. Nat \subseteq T
    <3> HIDE DEF T
    <3> QED
      BY <1>7, <1>8, Induction
  <2>2. n \in T
    BY <2>1
  <2> HIDE DEF Kept1
  <2> QED
    BY <2>2
<1> QED
  BY <1>6, <1>9

-----------------------------------------------------------------------------
(* The rows and cells of the answers.                                      *)

\* The types of the cells of every row, those of the configuration that are formatted.
CellTypes == {"DoubleLongUnsigned", "Unsigned", "Enum", "Integer", "LongUnsigned", "OctetString"}

LEMMA RowsKnown ==
    ASSUME NEW cells \in Seq(CellTypes), NEW time
    PROVE  RowLength(Row(time, cells)) \in Nat
<1> DEFINE n == Len(cells)
           lengths == [k \in DOMAIN cells |-> CellLength(cells[k])]
<1>1. n \in Nat /\ DOMAIN cells = 1..n
  OBVIOUS
<1>2. ASSUME NEW k \in 1..n PROVE CellLength(cells[k]) \in Nat
  <2>1. cells[k] \in CellTypes
    OBVIOUS
  <2>2. \A type \in CellTypes : CellLength(type) \in Nat
    BY SMT DEF CellTypes, CellLength
  <2> QED
    BY <2>1, <2>2
<1>3. lengths \in [1..n -> Nat]
  BY <1>1, <1>2
<1>4. RowLength(Row(time, cells)) = (IF time = 0 THEN 2 ELSE 16) + Total(lengths)
  BY DEF RowLength, Row
<1> HIDE DEF n, lengths
<1>5. PICK sums : Sums(sums, n, lengths)
  BY <1>1, <1>3, TotalStates
<1>6. Total(lengths) \in Nat
  BY <1>1, <1>5 DEF Sums
<1> QED
  BY <1>4, <1>6

\* Cells of other types are left out.
LEMMA FormattedAreKnown ==
    ASSUME NEW p, p.cells \in Seq(STRING)
    PROVE  FormattedCells(p) \in Seq(CellTypes)
<1> DEFINE cells == p.cells
           n == Len(cells)
           places == {k \in DOMAIN cells : IsFormatted(cells[k])}
           E == {cells[k] : k \in (1..n) \cap places}
<1>1. n \in Nat /\ DOMAIN cells = 1..n
  OBVIOUS
<1>2. E \subseteq CellTypes
  BY DEF IsFormatted, CellTypes
<1>3. FormattedCells(p) = Picked(cells, places)
  BY DEF FormattedCells
<1> HIDE DEF n, cells, places
<1>4. PICK st : PushesAt(st, n, cells, places)
  BY <1>1, PickedStates
<1>5. Picked(cells, places) \in Seq(E)
  BY <1>1, <1>4 DEF PushesAt
<1> HIDE DEF E
<1>6. Seq(E) \subseteq Seq(CellTypes)
  BY <1>2
<1> QED
  BY <1>3, <1>5, <1>6

\* A sequence of rows of which the format knows the length.
IsRows(rows, n) ==
    /\ n \in Nat /\ rows = [i \in 1..n |-> rows[i]]
    /\ \A i \in 1..n : RowLength(rows[i]) \in Nat

AnswerRows(a) == a.kind = "table" => a = Table(a.rows) /\ \E n : IsRows(a.rows, n)

LEMMA RowsOfTable ==
    ASSUME NEW rows, NEW n, IsRows(rows, n)
    PROVE  AnswerRows(Table(rows)) /\ AnswerRows(TableOf(rows))
  BY DEF AnswerRows, Table, TableOf, Denied

LEMMA RowsOfOthers ==
    /\ AnswerRows(Denied) /\ AnswerRows(Fault)
    /\ \A type, data : AnswerRows(Value(type, data))
  BY DEF AnswerRows, Denied, Fault, Value

LEMMA RowsOfLoad ==
    ASSUME NEW p, p.period \in Nat, p.cells \in Seq(STRING), NEW start \in Int, NEW end \in Int
    PROVE  AnswerRows(TableOf(LoadRows(p, start, end)))
<1> DEFINE points == Points(start, end, p.period)
           time(i) == (NextPeriodTime(start, p.period) + (p.period * (i - 1))) % Word
           rows == LoadRows(p, start, end)
<1>1. points \in Nat
  <2>1. points \in 0..MaxPoints
    BY PointsBounds
  <2> HIDE DEF points
  <2> QED
    BY <2>1, ConstantTypes
<1>2. CASE ~p.clock
  <2>1. TableOf(rows) = Denied
    BY <1>2 DEF LoadRows, TableOf
  <2> QED
    BY <2>1, RowsOfOthers
<1>3. CASE p.clock
  <2>1. rows = [i \in 1..points |-> Row(time(i), FormattedCells(p))]
    BY <1>3 DEF LoadRows
  <2> HIDE DEF points, time, rows
  <2>2. \A i \in 1..points : rows[i] = Row(time(i), FormattedCells(p))
    BY <2>1
  <2>3. FormattedCells(p) \in Seq(CellTypes)
    BY FormattedAreKnown
  <2>4. \A i \in 1..points : RowLength(rows[i]) \in Nat
    BY <2>2, <2>3, RowsKnown
  <2>5. rows = [i \in 1..points |-> rows[i]]
    BY <2>1
  <2>6. IsRows(rows, points)
    BY <1>1, <2>4, <2>5 DEF IsRows
  <2> QED
    BY <2>6, RowsOfTable DEF rows
<1> QED
  BY <1>2, <1>3

LEMMA RowsOfEvents ==
    ASSUME NEW p, NEW start, NEW end, NEW a \in EventTables(p, start, end)
    PROVE  AnswerRows(a)
<1> DEFINE R == {Row(t, <<"Enum">>) : t \in EventTimes(start, end)}
<1>1. CASE a \in {Denied, Fault}
  BY <1>1, RowsOfOthers
<1>2. CASE a \notin {Denied, Fault}
  <2>1. PICK rows \in UNION {[1..n -> R] : n \in {1, 2}} : a = Table(rows)
    BY <1>2 DEF EventTables
  <2>2. PICK n \in {1, 2} : rows \in [1..n -> R]
    BY <2>1
  <2>3. \A r \in R : RowLength(r) \in Nat
    <3>1. <<"Enum">> \in Seq(CellTypes)
      BY DEF CellTypes
    <3> QED
      BY <3>1, RowsKnown
  <2> HIDE DEF R
  <2>4. IsRows(rows, n)
    BY <2>2, <2>3 DEF IsRows
  <2> QED
    BY <2>1, <2>4, RowsOfTable
<1> QED
  BY <1>1, <1>2

LEMMA RowsOfCapture ==
    ASSUME NEW p, p.cells \in Seq(STRING)
    PROVE  AnswerRows(TableOf(CaptureObjects(p)))
<1> DEFINE cells == <<"LongUnsigned", "OctetString", "Integer", "LongUnsigned">>
           n == Len(p.cells) + IF p.clock THEN 1 ELSE 0
           rows == CaptureObjects(p)
<1>1. n \in Nat
  <2>1. Len(p.cells) \in Nat
    OBVIOUS
  <2>2. CASE p.clock
    BY <2>1, <2>2
  <2>3. CASE ~p.clock
    BY <2>1, <2>3
  <2> QED
    BY <2>2, <2>3
<1>2. rows = [i \in 1..n |-> Row(0, cells)]
  BY DEF CaptureObjects
<1>3. cells \in Seq(CellTypes)
  BY DEF CellTypes
<1> HIDE DEF n, cells, rows
<1>4. \A i \in 1..n : RowLength(rows[i]) \in Nat
  BY <1>2, <1>3, RowsKnown
<1>5. IsRows(rows, n)
  BY <1>1, <1>2, <1>4 DEF IsRows
<1> QED
  BY <1>5, RowsOfTable DEF rows

\* Every table that an object may be answered with has such rows, as many as it counts.
LEMMA RowsOfAnswers ==
    ASSUME NEW d, NEW start \in Int, NEW end \in Int, NEW its,
           NEW a \in GetAnswers(d, start, end, its)
    PROVE  AnswerRows(a)
<1>1. ASSUME NEW p, p.period \in Nat, p.cells \in Seq(STRING), NEW attr,
             NEW b \in ProfileAnswers(p, attr, start, end)
      PROVE  AnswerRows(b)
  <2> DEFINE load == TableOf(LoadRows(p, start, end))
             capture == TableOf(CaptureObjects(p))
             period == Value("DoubleLongUnsigned", p.period)
  <2>1. AnswerRows(load) /\ AnswerRows(capture) /\ AnswerRows(period)
    BY <1>1, RowsOfLoad, RowsOfCapture, RowsOfOthers
  <2>2. \A e \in EventTables(p, start, end) : AnswerRows(e)
    BY RowsOfEvents
  <2> QED
    BY <1>1, <2>1, <2>2, RowsOfOthers, Zenon DEF ProfileAnswers
<1>2. ASSUME NEW b \in RegisterAnswers(d) PROVE AnswerRows(b)
  BY <1>2, RowsOfOthers DEF RegisterAnswers, Uninitialised
<1>3. ASSUME NEW b \in EventCodeAnswers PROVE AnswerRows(b)
  BY <1>3, RowsOfOthers DEF EventCodeAnswers
<1>4. ASSUME NEW b \in ImageAnswers(d.attr, its) PROVE AnswerRows(b)
  BY <1>4, RowsOfOthers DEF ImageAnswers
<1>5. ASSUME NEW b \in DisconnectAnswers(d.attr) PROVE AnswerRows(b)
  BY <1>5, RowsOfOthers DEF DisconnectAnswers
<1>6. d.obis \in DOMAIN Profiles =>
        Profiles[d.obis].period \in Nat /\ Profiles[d.obis].cells \in Seq(STRING)
  BY ObjectTransferAssumption
<1> QED
  BY <1>1, <1>2, <1>3, <1>4, <1>5, <1>6, RowsOfOthers DEF GetAnswers

\* A read that may be denied is denied.
DeniedOrNot(A) == Denied \in A => A = {Denied}

LEMMA DeniedAlone ==
    ASSUME NEW d, NEW start, NEW end, NEW its
    PROVE  DeniedOrNot(GetAnswers(d, start, end, its))
<1>1. /\ Fault # Denied /\ (\A type, data : Value(type, data) # Denied)
      /\ \A rows : Table(rows) # Denied
  BY DEF Fault, Denied, Value, Table
<1>2. \A x : DeniedOrNot({x})
  BY DEF DeniedOrNot
<1>3. ASSUME NEW p, NEW attr PROVE DeniedOrNot(ProfileAnswers(p, attr, start, end))
  <2>1. DeniedOrNot(EventTables(p, start, end))
    BY <1>1 DEF EventTables, DeniedOrNot
  <2> QED
    BY <1>2, <2>1, ZenonT(60) DEF ProfileAnswers
<1>4. DeniedOrNot(RegisterAnswers(d))
  BY <1>2, Zenon DEF RegisterAnswers
<1>5. DeniedOrNot(EventCodeAnswers)
  BY <1>1 DEF EventCodeAnswers, DeniedOrNot
<1>6. DeniedOrNot(ImageAnswers(d.attr, its))
  BY <1>1, SMTT(30) DEF ImageAnswers, DeniedOrNot
<1>7. DeniedOrNot(DisconnectAnswers(d.attr))
  BY <1>2, ZenonT(60) DEF DisconnectAnswers
<1> QED
  BY <1>2, <1>3, <1>4, <1>5, <1>6, <1>7, ZenonT(60) DEF GetAnswers

\* The times of a list's selections are unsigned ints.
LEMMA ListSelections ==
    ASSUME NEW item \in ListItems
    PROVE  item.sel.start \in Int /\ item.sel.end \in Int
<1>1. Word \in Nat \ {0}
  BY ConstantTypes
<1>2. item.sel \in {NoSelection, BadSelection}
                     \cup {Between(start, end) : start, end \in 0..(Word - 1)}
  BY DataServicesAssumption
<1>3. \A start, end \in 0..(Word - 1) : start \in Int /\ end \in Int
  BY <1>1
<1> QED
  BY <1>2, <1>3 DEF NoSelection, BadSelection, Between

-----------------------------------------------------------------------------
(* Lists.                                                                  *)

\* What is understood of a list is a list.
LEMMA UnderstoodItems ==
    ASSUME NEW n \in Nat, NEW items \in [1..n -> ListItems]
    PROVE  \E m \in Nat : Understood(items) \in [1..m -> ListItems]
<1> DEFINE I == {i \in 1..Len(items) : items[i].sel.kind = "bad"}
           bad == IF I # {} THEN Min(I) ELSE 0
           prefix == SubSeq(items, 1, bad - 1)
<1>1. Understood(items) = IF bad = 0 THEN items ELSE prefix
  BY DEF Understood, SelectInSeq
<1>2. Len(items) = n
  OBVIOUS
<1>3. CASE I = {}
  BY <1>1, <1>3
<1>4. CASE I # {}
  <2>1. I \subseteq Nat /\ I \subseteq 1..n
    BY <1>2
  <2>2. \E x \in I : \A y \in I : x <= y
    <3> HIDE DEF I
    <3> QED
      BY <1>4, <2>1, Least
  <2>3. Min(I) \in I
    <3> HIDE DEF I
    <3> QED
      BY <2>2 DEF Min
  <2>4. bad \in 1..n
    <3> HIDE DEF I
    <3> QED
      BY <1>4, <2>1, <2>3
  <2> HIDE DEF I, bad
  <2>5. \A i \in 1..(bad - 1) : items[i] \in ListItems
    BY <2>4
  <2>6. prefix \in Seq(ListItems)
    <3>1. 1 \in Int /\ bad - 1 \in Int
      BY <2>4
    <3> QED
      BY <2>5, <3>1, SubSeqProperties
  <2> HIDE DEF prefix
  <2>7. prefix \in [1..Len(prefix) -> ListItems] /\ Len(prefix) \in Nat
    BY <2>6
  <2> QED
    BY <1>1, <2>4, <2>7
<1> QED
  BY <1>3, <1>4

\* The sequence that answers a list is made of answers to its items.
AnswersOf(answers, m, items) ==
    /\ DOMAIN answers = 1..m
    /\ answers = [i \in 1..m |-> answers[i]]
    /\ \A i \in 1..m : answers[i] \in Singly(items[i])

LEMMA ListAnswered ==
    ASSUME NEW m \in Nat, NEW items \in [1..m -> ListItems], NEW a \in ListResponses(items),
           a.kind = "list"
    PROVE  m # 0 /\ \E answers, shared :
              /\ answers \in ListAnswers(items) /\ AnswersOf(answers, m, items)
              /\ Fault \notin Range(answers)
              /\ a = ListResponse(answers, shared)
<1>1. items # <<>>
  BY DEF ListResponses
<1>2. m # 0
  BY <1>1
<1>3. PICK answers \in ListAnswers(items) :
         a \in IF Fault \in Range(answers)
                 THEN {Fault}
                 ELSE {ListResponse(answers, shared) : shared \in BOOLEAN}
                        \cup {Fault : shared \in {b \in BOOLEAN : ListOverruns(answers, b)}}
  BY <1>1 DEF ListResponses
<1>4. Fault \notin Range(answers) /\ \E shared : a = ListResponse(answers, shared)
  BY <1>3 DEF Fault
<1>5. AnswersOf(answers, m, items)
  <2> DEFINE possible == [i \in DOMAIN items |-> Answers(items[i].d, items[i].sel)]
  <2>1. answers \in [DOMAIN items -> UNION Range(possible)]
        /\ \A i \in DOMAIN items : answers[i] \in possible[i]
    BY DEF ListAnswers
  <2>2. \A i \in 1..m : answers[i] \in Singly(items[i])
    BY <2>1 DEF Singly, Answers
  <2> HIDE DEF possible
  <2> QED
    BY <2>1, <2>2 DEF AnswersOf
<1> QED
  BY <1>2, <1>3, <1>4, <1>5

\* A kept answer is the one that was given, or the value of another item.
KeptAs(kept, answers, m) ==
    /\ DOMAIN kept = 1..m
    /\ kept = [i \in 1..m |-> kept[i]]
    /\ \A i \in 1..m :
          \/ kept[i] = answers[i]
          \/ answers[i].kind = "value" /\ \E j \in 1..m : kept[i] = answers[j] /\ answers[j].kind = "value"

LEMMA KeptAnswers ==
    ASSUME NEW m \in Nat, NEW answers, DOMAIN answers = 1..m, answers = [i \in 1..m |-> answers[i]],
           NEW shared
    PROVE  KeptAs(Kept(answers, shared), answers, m)
<1> DEFINE I == {i \in 1..Len(answers) : IsWritten(answers[i])}
           last == IF I # {} THEN Max(I) ELSE 0
           kept == [i \in 1..m |->
                      IF shared /\ last # 0 /\ answers[i].kind = "value" THEN answers[last] ELSE answers[i]]
<1>1. Kept(answers, shared) = kept
  BY DEF Kept, SelectLastInSeq
<1>2. Len(answers) = m
  OBVIOUS
<1>3. last # 0 => last \in 1..m /\ answers[last].kind = "value"
  <2> SUFFICES ASSUME last # 0 PROVE last \in 1..m /\ answers[last].kind = "value"
    OBVIOUS
  <2>1. I \in SUBSET (1..m) /\ I # {}
    BY <1>2
  <2>2. last \in I
    <3> HIDE DEF I
    <3> QED
      BY <2>1, LastPlace
  <2> HIDE DEF last
  <2> QED
    BY <1>2, <2>2 DEF IsWritten
<1> HIDE DEF I, last
<1>4. \A i \in 1..m : \/ kept[i] = answers[i]
                      \/ answers[i].kind = "value" /\ last \in 1..m /\ kept[i] = answers[last]
                           /\ answers[last].kind = "value"
  BY <1>3
<1>5. DOMAIN kept = 1..m /\ kept = [i \in 1..m |-> kept[i]]
  OBVIOUS
<1> HIDE DEF kept
<1>6. KeptAs(kept, answers, m)
  BY <1>4, <1>5 DEF KeptAs
<1> QED
  BY <1>1, <1>6

\* Profiles that fit are answered with their tables.
LEMMA TablesAgree ==
    ASSUME NEW m \in Nat, NEW items \in [1..m -> ListItems], NEW answers, NEW shared,
           AnswersOf(answers, m, items), \A i \in 1..m : answers[i].kind = "table",
           4 + Total(TableLengths(answers)) <= ListLimit
    PROVE  LET written == ListResponse(answers, shared).items
           IN  Len(written) = m /\ \A i \in 1..m : written[i] = answers[i]
<1> DEFINE kept == Kept(answers, shared)
           R == UNION {{answers[i].rows[k] : k \in DOMAIN answers[i].rows} : i \in 1..m}
<1>0. DOMAIN answers = 1..m /\ answers = [i \in 1..m |-> answers[i]]
  BY DEF AnswersOf
<1>1. DOMAIN kept = 1..m /\ \A i \in 1..m : kept[i] = answers[i]
  <2>1. KeptAs(kept, answers, m)
    BY <1>0, KeptAnswers
  <2> HIDE DEF kept
  <2> QED
    BY <2>1 DEF KeptAs
<1>2. ASSUME NEW i \in 1..m PROVE AnswerRows(answers[i])
  <2>1. answers[i] \in GetAnswers(items[i].d, items[i].sel.start, items[i].sel.end, its_state)
    BY DEF AnswersOf, Singly
  <2>2. items[i].sel.start \in Int /\ items[i].sel.end \in Int
    BY ListSelections
  <2> QED
    BY <2>1, <2>2, RowsOfAnswers
<1>3. AreRows(R) /\ AreTables(answers, R)
  <2>1. ASSUME NEW i \in 1..m
        PROVE  /\ answers[i] = Table(answers[i].rows) /\ answers[i].rows \in Seq(R)
               /\ \A k \in DOMAIN answers[i].rows : RowLength(answers[i].rows[k]) \in Nat
    <3> DEFINE rows == answers[i].rows
    <3>1. PICK n : IsRows(rows, n)
      BY <1>2 DEF AnswerRows
    <3>2. n \in Nat /\ DOMAIN rows = 1..n /\ rows = [k \in 1..n |-> rows[k]]
          /\ \A k \in 1..n : RowLength(rows[k]) \in Nat
      BY <3>1 DEF IsRows
    <3>3. \A k \in 1..n : rows[k] \in R
      BY <3>2
    <3>4. answers[i] = Table(rows)
      BY <1>2 DEF AnswerRows
    <3> HIDE DEF R, rows
    <3>5. rows \in Seq(R)
      BY <3>2, <3>3
    <3> QED
      BY <3>2, <3>4, <3>5 DEF rows
  <2>2. AreRows(R)
    <3>1. \A r \in R : \E i \in 1..m : \E k \in DOMAIN answers[i].rows : r = answers[i].rows[k]
      OBVIOUS
    <3> HIDE DEF R
    <3> QED
      BY <2>1, <3>1, ZenonT(60) DEF AreRows
  <2> HIDE DEF R
  <2> QED
    BY <1>0, <2>1, <2>2 DEF AreTables
<1> DEFINE tables == Picked(answers, {i \in DOMAIN answers : IsTable(answers[i])})
           others == Picked(kept, {i \in DOMAIN kept : IsOther(kept[i])})
<1>4. others = <<>>
  <2>1. {i \in DOMAIN kept : IsOther(kept[i])} = {}
    BY <1>1 DEF IsOther
  <2> HIDE DEF kept
  <2> QED
    BY <1>1, <2>1, PickedNone
<1>5. tables = answers
  <2>1. {i \in DOMAIN answers : IsTable(answers[i])} = 1..m
    BY <1>0 DEF IsTable
  <2>2. answers \in Seq({answers[k] : k \in 1..m})
    BY <1>0
  <2> QED
    BY <1>0, <2>1, <2>2, PickedAll
<1>6. ListResponse(answers, shared).items = FormatTables(answers)
  <2>1. ListResponse(answers, shared).items = IF others # <<>> THEN others ELSE FormatTables(tables)
    BY DEF ListResponse, TablesOf
  <2> HIDE DEF others, tables
  <2> QED
    BY <1>4, <1>5, <2>1
<1> HIDE DEF R, kept, tables, others
<1>7. Len(FormatTables(answers)) = m /\ \A i \in 1..m : FormatTables(answers)[i] = answers[i]
  <2>1. /\ DOMAIN answers = 1..m /\ m \in Nat
        /\ 4 + Total(TableLengths(answers)) <= ListLimit
    BY <1>0
  <2> QED
    BY <1>3, <2>1, TablesFit, ZenonT(60)
<1> QED
  BY <1>6, <1>7

\* Objects without rows are answered one by one.
LEMMA OthersAgree ==
    ASSUME NEW m \in Nat \ {0}, NEW answers, NEW shared, DOMAIN answers = 1..m,
           answers = [i \in 1..m |-> answers[i]], \A i \in 1..m : answers[i].kind # "table"
    PROVE  LET written == ListResponse(answers, shared).items
           IN  Len(written) = m /\ KeptAs(written, answers, m)
<1> DEFINE kept == Kept(answers, shared)
           tables == Picked(answers, {i \in DOMAIN answers : IsTable(answers[i])})
           others == Picked(kept, {i \in DOMAIN kept : IsOther(kept[i])})
<1>1. KeptAs(kept, answers, m)
  BY KeptAnswers
<1> HIDE DEF kept
<1>2. DOMAIN kept = 1..m /\ kept = [i \in 1..m |-> kept[i]]
      /\ \A i \in 1..m : kept[i].kind # "table"
  BY <1>1 DEF KeptAs
<1>3. others = kept
  <2>1. {i \in DOMAIN kept : IsOther(kept[i])} = 1..m
    BY <1>2 DEF IsOther
  <2>2. kept \in Seq({kept[k] : k \in 1..m})
    BY <1>2
  <2> QED
    BY <1>2, <2>1, <2>2, PickedAll
<1>4. Len(kept) = m /\ kept # <<>>
  BY <1>2
<1>5. ListResponse(answers, shared).items = IF others # <<>> THEN others ELSE FormatTables(tables)
  BY DEF ListResponse, TablesOf, kept
<1> HIDE DEF others, tables
<1> QED
  BY <1>1, <1>3, <1>4, <1>5

-----------------------------------------------------------------------------
(* The invariant of lists, and the theorem.                                *)

\* The answer to a list is one that its items may be given.
ListInv ==
    response.kind = "list" =>
        \E n \in Nat : \E items \in [1..n -> ListItems] :
            /\ request.items = items
            /\ response \in ListResponses(Understood(items))

\* The image state is all that the answers depend on.
LEMMA SameResponses ==
    ASSUME its_state' = its_state, NEW CONSTANT items
    PROVE  ListResponses(items)' = ListResponses(items)
<1>1. \A d, sel : Answers(d, sel)' = Answers(d, sel)
  BY DEF Answers
<1>2. ListAnswers(items)' = ListAnswers(items)
  BY DEF ListAnswers, Answers
<1> QED
  BY <1>2 DEF ListResponses

\* Every step keeps it.
LEMMA StepListInv ==
    ASSUME ListInv, [Next]_vars
    PROVE  ListInv'
<1>1. CASE GetNormal
  <2>1. PICK d \in Descriptors, sel \in Selections :
           \E a \in Answers(d, sel) : response' \in Sent(a)
    BY <1>1 DEF GetNormal
  <2>2. AnswerKind(response')
    BY <2>1, AnswerKinds, SentAnswer, SimpleKinds DEF Answers
  <2> QED
    BY <2>2 DEF ListInv, AnswerKind
<1>2. CASE GetWithList
  <2>1. PICK n \in 0..MaxList : \E items \in [1..n -> ListItems] :
           /\ request' = [kind |-> "list", items |-> items]
           /\ response' \in ListResponses(Understood(items))
    BY <1>2 DEF GetWithList
  <2>2. its_state' = its_state /\ n \in Nat
    BY <1>2, DataServicesAssumption DEF GetWithList
  <2>3. PICK items \in [1..n -> ListItems] :
           /\ request' = [kind |-> "list", items |-> items]
           /\ response' \in ListResponses(Understood(items))
    BY <2>1
  <2>4. request'.items = items /\ response' \in ListResponses(Understood(items))'
    BY <2>2, <2>3, SameResponses
  <2> QED
    BY <2>2, <2>4 DEF ListInv
<1>3. CASE Action \/ GetOther \/ Done
  <2>1. response'.kind \in {"action", "unanswered", "none"}
    BY <1>3 DEF Action, GetOther, Done, None
  <2> QED
    BY <2>1 DEF ListInv
<1>4. CASE UNCHANGED vars
  <2>1. request' = request /\ response' = response /\ its_state' = its_state
    BY <1>4 DEF vars
  <2> SUFFICES ASSUME response.kind = "list" PROVE ListInv'
    BY <2>1 DEF ListInv
  <2>2. PICK n \in Nat : \E items \in [1..n -> ListItems] :
           request.items = items /\ response \in ListResponses(Understood(items))
    BY DEF ListInv
  <2>3. PICK items \in [1..n -> ListItems] :
           request.items = items /\ response \in ListResponses(Understood(items))
    BY <2>2
  <2>4. response' \in ListResponses(Understood(items))'
    BY <2>1, <2>3, SameResponses
  <2> QED
    BY <2>1, <2>3, <2>4 DEF ListInv
<1> QED
  BY <1>1, <1>2, <1>3, <1>4 DEF Next

\* A list agrees with the same reads made one by one: the tables that fit in a packet are
\* all written, row by row, and every other object has an answer at its own place, denied
\* exactly where a single read is (meter_handler.cpp:129-200, ptcl_module_dlms47.cpp:910-1070),
\* however many items are asked for and whatever the meter is configured with.
THEOREM ListTheorem == Spec => []ListAgreesWithSingles
<1>1. ListInv => ListAgreesWithSingles
  <2> SUFFICES ASSUME ListInv, response.kind = "list" PROVE ListAgreesWithSingles
    BY DEF ListAgreesWithSingles
  <2> DEFINE items == Understood(request.items)
             written == response.items
  <2>1. PICK n \in Nat : \E asked \in [1..n -> ListItems] :
           request.items = asked /\ response \in ListResponses(Understood(asked))
    BY DEF ListInv
  <2>2. PICK m \in Nat : items \in [1..m -> ListItems]
    BY <2>1, UnderstoodItems
  <2>3. response \in ListResponses(items)
    BY <2>1
  <2> HIDE DEF items
  <2>4. PICK answers, shared :
           /\ m # 0 /\ answers \in ListAnswers(items) /\ AnswersOf(answers, m, items)
           /\ Fault \notin Range(answers)
           /\ response = ListResponse(answers, shared)
    BY <2>2, <2>3, ListAnswered
  <2>5. /\ DOMAIN answers = 1..m /\ answers = [i \in 1..m |-> answers[i]]
        /\ \A i \in 1..m : answers[i] \in Singly(items[i])
    BY <2>4 DEF AnswersOf
  <2>6. DOMAIN items = 1..m /\ Len(items) = m
    BY <2>2
  <2>7. ASSUME \A i \in DOMAIN items : IsTabular(items[i]), FitsList(items)
        PROVE  Len(written) = Len(items) /\ \A i \in DOMAIN items : written[i] \in Singly(items[i])
    <3>1. \A i \in 1..m : answers[i].kind = "table"
      BY <2>5, <2>6, <2>7 DEF IsTabular
    <3>2. 4 + Total(TableLengths(answers)) <= ListLimit
      BY <2>4, <2>7 DEF FitsList, TableLengths
    <3>3. Len(written) = m /\ \A i \in 1..m : written[i] = answers[i]
      BY <2>2, <2>4, <3>1, <3>2, TablesAgree
    <3> HIDE DEF written
    <3> QED
      BY <2>5, <2>6, <3>3
  <2>8. ASSUME \A i \in DOMAIN items : \A a \in Singly(items[i]) : a.kind # "table"
        PROVE  /\ Len(written) = Len(items)
               /\ \A i \in DOMAIN items :
                     /\ written[i] = Denied <=> Denied \in Singly(items[i])
                     /\ written[i] \in UNION {Singly(item) : item \in Range(items)}
    <3>1. \A i \in 1..m : answers[i].kind # "table"
      BY <2>5, <2>6, <2>8
    <3>2. Len(written) = m /\ KeptAs(written, answers, m)
      BY <2>4, <2>5, <3>1, OthersAgree
    <3> HIDE DEF written
    <3>3. \A i \in 1..m : items[i] \in Range(items)
      BY <2>6 DEF Range
    <3>4. ASSUME NEW i \in 1..m
          PROVE  /\ written[i] = Denied <=> Denied \in Singly(items[i])
                 /\ written[i] \in UNION {Singly(item) : item \in Range(items)}
      <4>1. answers[i] = Denied <=> Denied \in Singly(items[i])
        <5>1. DeniedOrNot(Singly(items[i]))
          BY DeniedAlone DEF Singly
        <5> QED
          BY <2>5, <5>1 DEF DeniedOrNot
      <4>2. CASE written[i] = answers[i]
        BY <2>5, <3>3, <4>1, <4>2
      <4>3. CASE answers[i].kind = "value" /\ \E j \in 1..m :
                    written[i] = answers[j] /\ answers[j].kind = "value"
        <5>1. Denied.kind # "value"
          BY DEF Denied
        <5>2. PICK j \in 1..m : written[i] = answers[j] /\ answers[j].kind = "value"
          BY <4>3
        <5>3. written[i] # Denied /\ answers[i] # Denied
          BY <4>3, <5>1, <5>2
        <5>4. written[i] \in Singly(items[j]) /\ items[j] \in Range(items)
          BY <2>5, <3>3, <5>2
        <5> QED
          BY <4>1, <5>3, <5>4
      <4> QED
        BY <3>2, <4>2, <4>3 DEF KeptAs
    <3> QED
      BY <2>6, <3>2, <3>4
  <2> QED
    BY <2>7, <2>8 DEF ListAgreesWithSingles, items
<1>2. Init => ListInv
  BY DEF Init, None, ListInv
<1>3. ListInv /\ [Next]_vars => ListInv'
  BY StepListInv
<1> QED
  BY <1>1, <1>2, <1>3, PTL DEF Spec
=============================================================================
