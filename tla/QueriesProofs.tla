--------------------------- MODULE QueriesProofs ---------------------------
(***************************************************************************)
(* Proofs about the reading of timestamps and about Queries.               *)
(***************************************************************************)
EXTENDS Queries, SetLemmas

-----------------------------------------------------------------------------
(* Timestamps. *)

\* A double holds the instant and its milliseconds: always where microseconds are safe
\* integers (LiteralOfSafe), and beyond where what Rounding leaves off is zero.
Held(t) == Rounding(t) = 0 /\ Rounding(Milliseconds(t)) = 0

\* The texts read as the instant they denote.  Of the others, src/domain/time.ts makes
\* another instant: Date.UTC takes the years 0 to 99 for others; Date.parse, which sees
\* three digits of the fraction, lets 24:00:00.0001 pass for the first instants of a day;
\* and doubles lose odd microseconds before 1684 and after 2255.
ReadAsWritten(text) ==
  /\ text.year \in 0..99 => ~FastPath(text)
  /\ text.hour = 24 /\ Millis(text.fraction) = 0 => ExtraMicros(text.fraction) = 0
  /\ Denoted(text) # Null => Held(Denoted(text))

\* The difference to PostgreSQL's epoch, 30 years on, is a double that loses nothing:
\* of odd microseconds it loses those from before 1714.
KeptAsRead(text) == Denoted(text) # Null => PgTimestamp(Denoted(text)) = Denoted(text)

LEMMA GrainValues ==
  ASSUME NEW t
  PROVE  Grain(t) \in {1, 2, 4, 8, 16, 32}
BY Zenon DEF Grain

LEMMA InstantParts ==
  ASSUME NEW t \in Instants
  PROVE  /\ t[1] \in Int /\ t[2] \in Nat /\ t[2] < 86400 /\ t[3] \in Nat /\ t[3] < 1000000
         /\ t = <<t[1], t[2], t[3]>> /\ t # Null
<1>1. /\ t[1] \in Int /\ t[2] \in Nat /\ t[2] < 86400 /\ t[3] \in Nat /\ t[3] < 1000000
      /\ t = <<t[1], t[2], t[3]>>
  BY SMT DEF Instants, DaySeconds, Micros
<1>2. \A day, second, micro : <<day, second, micro>> # <<>>
  BY SMT
<1>3. t = <<t[1], t[2], t[3]>> => t # Null
  BY <1>2 DEF Null
<1> QED BY <1>1, <1>3

LEMMA AtIsInstant ==
  ASSUME NEW day \in Int, NEW second \in Int, NEW micro \in Micros
  PROVE  At(day, second, micro) \in Instants
<1>1. second \div 86400 \in Int /\ second % 86400 \in DaySeconds
  BY SMT DEF DaySeconds
<1> QED BY <1>1, SMT DEF At, Instants

LEMMA PlusIsInstant ==
  ASSUME NEW t \in Instants, NEW micros \in Int
  PROVE  Plus(t, micros) \in Instants
<1> DEFINE m == t[3] + micros
<1>1. m \in Int /\ t[1] \in Int /\ t[2] \in Int
  BY InstantParts
<1> HIDE DEF m
<1>2. m \div 1000000 \in Int /\ m % 1000000 \in Micros
  BY <1>1, SMT DEF Micros
<1>3. t[2] + m \div 1000000 \in Int
  BY <1>1, <1>2
<1>4. Plus(t, micros) = At(t[1], t[2] + m \div 1000000, m % 1000000)
  BY DEF Plus, m
<1> QED BY <1>1, <1>2, <1>3, <1>4, AtIsInstant

\* Microseconds that stay within the second are added to its microseconds.
LEMMA PlusWithin ==
  ASSUME NEW t \in Instants, NEW micros \in Int, t[3] + micros \in Micros
  PROVE  Plus(t, micros) = <<t[1], t[2], t[3] + micros>>
<1> DEFINE m == t[3] + micros
<1>1. m \in Nat /\ m < 1000000 /\ t[1] \in Int /\ t[2] \in Nat /\ t[2] < 86400
  BY InstantParts DEF Micros
<1> HIDE DEF m
<1>2. m \div 1000000 = 0 /\ m % 1000000 = m
  BY <1>1, SMT
<1>3. t[2] + 0 = t[2] /\ t[2] \div 86400 = 0 /\ t[2] % 86400 = t[2] /\ t[1] + 0 = t[1]
  BY <1>1, SMT
<1>4. Plus(t, micros) = At(t[1], t[2] + m \div 1000000, m % 1000000)
  BY DEF Plus, m
<1>5. Plus(t, micros) = <<t[1], t[2], m>>
  BY <1>2, <1>3, <1>4 DEF At
<1> QED BY <1>5 DEF m

LEMMA RoundingIsWhole ==
  ASSUME NEW t \in Instants
  PROVE  Rounding(t) \in Int
<1> DEFINE g == Grain(t)
           over == t[3] % g
<1>1. g \in {1, 2, 4, 8, 16, 32} /\ t[3] \in Int
  BY GrainValues, InstantParts
<1>2. Rounding(t) \in {-over, g - over}
  BY DEF Rounding
<1> HIDE DEF g
<1>3. over \in Int /\ g \in Int
  BY <1>1, SMT
<1> HIDE DEF over
<1>4. -over \in Int /\ g - over \in Int
  BY <1>3
<1> QED BY <1>2, <1>4

LEMMA RoundedIsInstant ==
  ASSUME NEW t \in Instants
  PROVE  Rounded(t) \in Instants
BY RoundingIsWhole, PlusIsInstant DEF Rounded

LEMMA RoundedIfHeld ==
  ASSUME NEW t \in Instants, Rounding(t) = 0
  PROVE  Rounded(t) = t
<1>1. t[3] + 0 = t[3] /\ t[3] \in Micros /\ t = <<t[1], t[2], t[3]>>
  BY InstantParts DEF Micros
<1> QED BY <1>1, PlusWithin DEF Rounded

LEMMA MillisecondsTyped ==
  ASSUME NEW t \in Instants
  PROVE  Milliseconds(t) \in Instants /\ Milliseconds(t)[3] = 1000 * (t[3] \div 1000)
<1>1. t[3] \in Nat /\ t[3] < 1000000
  BY InstantParts
<1>2. 1000 * (t[3] \div 1000) \in Nat /\ 1000 * (t[3] \div 1000) < 1000000
  BY <1>1, SMT
<1> QED BY <1>2 DEF Milliseconds, Instants, Micros

\* What time.ts adds up is the instant it means when doubles hold it.
LEMMA SumIsHeld ==
  ASSUME NEW day \in Int, NEW second \in Int, NEW millis \in Nat, millis < 1000,
         NEW extra \in Nat, extra < 1000, Held(At(day, second, 1000 * millis + extra))
  PROVE  InMicros(At(day, second, 1000 * millis), extra)
           = At(day, second, 1000 * millis + extra)
<1> DEFINE s == At(day, second, 1000 * millis)
           t == At(day, second, 1000 * millis + extra)
<1>1. 1000 * millis \in Micros /\ 1000 * millis + extra \in Micros
  BY SMT DEF Micros
<1>2. s \in Instants /\ t \in Instants
  BY <1>1, AtIsInstant
<1>3. /\ s[1] = t[1] /\ s[2] = t[2] /\ s[3] = 1000 * millis /\ t[3] = 1000 * millis + extra
  BY DEF At
<1>4. (1000 * millis + extra) \div 1000 = millis
  BY SMT
<1> HIDE DEF s, t
<1>5. s = <<s[1], s[2], s[3]>> /\ t = <<t[1], t[2], t[3]>>
  BY <1>2, InstantParts
<1>6. Milliseconds(t) = s
  BY <1>3, <1>4, <1>5 DEF Milliseconds
<1>7. Rounding(s) = 0 /\ Rounding(t) = 0
  BY <1>6 DEF Held, t
<1>8. Rounded(s) = s /\ Rounded(t) = t
  BY <1>2, <1>7, RoundedIfHeld
<1>9. Plus(s, extra) = t
  BY <1>1, <1>2, <1>3, <1>5, PlusWithin
<1>10. InMicros(s, extra) = t
  BY <1>8, <1>9 DEF InMicros
<1> QED BY <1>10 DEF s, t

LEMMA InMicrosIsInstant ==
  ASSUME NEW t \in Instants, NEW extra \in Int
  PROVE  InMicros(t, extra) \in Instants
BY RoundedIsInstant, PlusIsInstant DEF InMicros

LEMMA LiteralIsInstant ==
  ASSUME NEW t \in Instants
  PROVE  formatMicrosPgLiteral(t) \in Instants
<1>1. Rounding(Milliseconds(t)) \in Int
  BY MillisecondsTyped, RoundingIsWhole
<1> QED BY <1>1, PlusIsInstant DEF formatMicrosPgLiteral

LEMMA PgTimestampIsInstant ==
  ASSUME NEW t \in Instants
  PROVE  PgTimestamp(t) \in Instants
<1> DEFINE u == <<t[1] - PG_EPOCH_OFFSET_DAYS, t[2], t[3]>>
           r == Rounded(u)
<1>1. u \in Instants
  BY InstantParts DEF Instants, DaySeconds, Micros, PG_EPOCH_OFFSET_DAYS
<1> HIDE DEF u
<1>2. r \in Instants
  BY <1>1, RoundedIsInstant
<1>3. PgTimestamp(t) = <<r[1] + PG_EPOCH_OFFSET_DAYS, r[2], r[3]>>
  BY DEF PgTimestamp, u
<1> HIDE DEF r
<1> QED BY <1>2, <1>3, InstantParts DEF Instants, DaySeconds, Micros, PG_EPOCH_OFFSET_DAYS

\* A time goes to PostgreSQL without a loss when its milliseconds are held.
LEMMA LiteralIsExact ==
  ASSUME NEW t \in Instants, Rounding(Milliseconds(t)) = 0
  PROVE  formatMicrosPgLiteral(t) = t
<1>1. t[3] + 0 = t[3] /\ t[3] \in Micros /\ t = <<t[1], t[2], t[3]>>
  BY InstantParts DEF Micros
<1>2. Plus(t, 0) = t
  BY <1>1, PlusWithin
<1>3. -Rounding(Milliseconds(t)) = 0
  <2> DEFINE r == Rounding(Milliseconds(t))
  <2>1. r \in Int /\ r <= 0 /\ r >= 0
    OBVIOUS
  <2> HIDE DEF r
  <2>2. -r = 0
    BY <2>1, SMT
  <2> QED BY <2>2 DEF r
<1> QED BY <1>2, <1>3 DEF formatMicrosPgLiteral

\* The milliseconds of a safe integer of microseconds are a safe integer too, or the one
\* below the least, and multiples of eight.
LEMMA LiteralOfSafe ==
  ASSUME NEW t \in Instants, isSafeInteger(t)
  PROVE  formatMicrosPgLiteral(t) = t
<1> DEFINE u == Milliseconds(t)
           k == t[3] \div 1000
<1>1. /\ t[1] \in Int /\ t[2] \in Nat /\ t[2] < 86400 /\ t[3] \in Nat /\ t[3] < 1000000
      /\ k \in Nat /\ 1000 * k <= t[3] /\ t[3] < 1000 * k + 1000
  <2>1. t[1] \in Int /\ t[2] \in Nat /\ t[2] < 86400 /\ t[3] \in Nat /\ t[3] < 1000000
    BY InstantParts
  <2> QED BY <2>1, SMT
<1>2. u[1] = t[1] /\ u[2] = t[2] /\ u[3] = 1000 * k
  BY DEF Milliseconds
<1> HIDE DEF k, u
<1>3. Before(t, TwoTo53[1]) /\ Before(TwoTo53[2], t)
  BY DEF isSafeInteger, Beyond
<1>4. /\ ~Beyond(u, TwoTo54) /\ ~Beyond(u, TwoTo55) /\ ~Beyond(u, TwoTo56)
      /\ ~Beyond(u, TwoTo57)
  BY <1>1, <1>2, <1>3, SMT DEF Beyond, Before, TwoTo53, TwoTo54, TwoTo55, TwoTo56, TwoTo57
<1>5. Grain(u) \in {1, 2}
  BY <1>4, Zenon DEF Grain
<1>6. (1000 * k) % 1 = 0 /\ (1000 * k) % 2 = 0
  BY <1>1, SMT
<1>7. u[3] % Grain(u) = 0
  BY <1>2, <1>5, <1>6
<1>8. 2 * 0 < Grain(u)
  BY <1>5
<1>9. Rounding(u) = -(u[3] % Grain(u))
  BY <1>7, <1>8 DEF Rounding
<1>10. Rounding(u) = 0
  BY <1>7, <1>9, SMT
<1> QED BY <1>10, LiteralIsExact DEF u

Digit(fraction, k) == IF k <= Len(fraction) THEN fraction[k] ELSE 0

Fractions == Seq(0..9)

LEMMA DigitsAreDigits ==
  ASSUME NEW fraction \in Fractions, NEW k \in Nat \ {0}
  PROVE  Digit(fraction, k) \in 0..9
BY DEF Digit, Fractions

LEMMA ThreeDigitsType ==
  ASSUME NEW fraction \in Fractions
  PROVE  /\ Millis(fraction) \in Nat /\ Millis(fraction) < 1000
         /\ ExtraMicros(fraction) \in Nat /\ ExtraMicros(fraction) < 1000
<1>1. ASSUME NEW i \in {1, 4}
      PROVE  ThreeDigits(fraction, i) \in Nat /\ ThreeDigits(fraction, i) < 1000
  <2>1. /\ Digit(fraction, i) \in 0..9 /\ Digit(fraction, i + 1) \in 0..9
        /\ Digit(fraction, i + 2) \in 0..9
    BY DigitsAreDigits
  <2>2. ThreeDigits(fraction, i)
          = 100 * Digit(fraction, i) + 10 * Digit(fraction, i + 1) + Digit(fraction, i + 2)
    BY Zenon DEF ThreeDigits, Digit
  <2> QED BY <2>1, <2>2, SMT
<1> QED BY <1>1 DEF Millis, ExtraMicros

\* The function FractionMicros is computed with.
Prefixes(fraction) ==
  LET weight == <<100000, 10000, 1000, 100, 10, 1>>
      upTo[n \in 0..6] ==
        IF n = 0 THEN 0
        ELSE upTo[n - 1] + (IF n <= Len(fraction) THEN weight[n] * fraction[n] ELSE 0)
  IN upTo

\* What a digit adds, and the equation the function of prefixes solves.
Weighed(fraction, n) ==
  LET weight == <<100000, 10000, 1000, 100, 10, 1>>
  IN IF n <= Len(fraction) THEN weight[n] * fraction[n] ELSE 0

AddsUp(fraction, g) ==
  g = [n \in 0..6 |-> IF n = 0 THEN 0 ELSE g[n - 1] + Weighed(fraction, n)]

LEMMA WeightedDigits ==
  ASSUME NEW fraction \in Fractions
  PROVE  /\ Weighed(fraction, 1) = 100000 * Digit(fraction, 1)
         /\ Weighed(fraction, 2) = 10000 * Digit(fraction, 2)
         /\ Weighed(fraction, 3) = 1000 * Digit(fraction, 3)
         /\ Weighed(fraction, 4) = 100 * Digit(fraction, 4)
         /\ Weighed(fraction, 5) = 10 * Digit(fraction, 5)
         /\ Weighed(fraction, 6) = Digit(fraction, 6)
<1>1. \A k \in 1..6 : k <= Len(fraction) => fraction[k] \in 0..9
  BY DEF Fractions
<1> QED BY <1>1 DEF Weighed, Digit

\* Six sums, one after the other, make such a function.
LEMMA SixSums ==
  ASSUME NEW fraction, NEW a, NEW b, NEW c, NEW d, NEW e, NEW f,
         a = 0 + Weighed(fraction, 1), b = a + Weighed(fraction, 2),
         c = b + Weighed(fraction, 3), d = c + Weighed(fraction, 4),
         e = d + Weighed(fraction, 5), f = e + Weighed(fraction, 6)
  PROVE  \E g : AddsUp(fraction, g)
<1> DEFINE g == [n \in 0..6 |-> IF n = 0 THEN 0 ELSE IF n = 1 THEN a ELSE IF n = 2 THEN b
                               ELSE IF n = 3 THEN c ELSE IF n = 4 THEN d
                               ELSE IF n = 5 THEN e ELSE f]
           h == [n \in 0..6 |-> IF n = 0 THEN 0 ELSE g[n - 1] + Weighed(fraction, n)]
<1>1. /\ g[0] = 0 /\ g[1] = a /\ g[2] = b /\ g[3] = c /\ g[4] = d /\ g[5] = e /\ g[6] = f
      /\ g = [n \in 0..6 |-> g[n]]
  OBVIOUS
<1> HIDE DEF g
<1>2. /\ h[0] = g[0] /\ h[1] = g[1] /\ h[2] = g[2] /\ h[3] = g[3] /\ h[4] = g[4]
      /\ h[5] = g[5] /\ h[6] = g[6]
  BY <1>1
<1>3. \A n \in 0..6 : n \in {0, 1, 2, 3, 4, 5, 6}
  OBVIOUS
<1>4. \A n \in 0..6 : h[n] = g[n]
  BY <1>2, <1>3, Zenon
<1>5. h = [n \in 0..6 |-> h[n]]
  OBVIOUS
<1> HIDE DEF h
<1>6. g = h
  BY <1>1, <1>4, <1>5
<1> QED BY <1>6 DEF AddsUp, h

\* Weighing the digits one by one or in two groups of three is the same.
LEMMA FractionValue ==
  ASSUME NEW fraction \in Fractions
  PROVE  FractionMicros(fraction) = 1000 * Millis(fraction) + ExtraMicros(fraction)
<1>1. \E g : AddsUp(fraction, g)
  BY SixSums
<1>2. Prefixes(fraction) = CHOOSE g : AddsUp(fraction, g)
  BY DEF Prefixes, AddsUp, Weighed
<1>3. FractionMicros(fraction) = Prefixes(fraction)[6]
  BY DEF FractionMicros, Prefixes
<1> DEFINE p == Prefixes(fraction)
<1> HIDE DEF p
<1>4. AddsUp(fraction, p)
  BY <1>1, <1>2 DEF p
<1>5. \A n \in 0..6 : p[n] = IF n = 0 THEN 0 ELSE p[n - 1] + Weighed(fraction, n)
  BY <1>4 DEF AddsUp
<1>6. /\ p[0] = 0 /\ p[1] = p[0] + Weighed(fraction, 1) /\ p[2] = p[1] + Weighed(fraction, 2)
      /\ p[3] = p[2] + Weighed(fraction, 3) /\ p[4] = p[3] + Weighed(fraction, 4)
      /\ p[5] = p[4] + Weighed(fraction, 5) /\ p[6] = p[5] + Weighed(fraction, 6)
  BY <1>5
<1>7. /\ Millis(fraction)
           = 100 * Digit(fraction, 1) + 10 * Digit(fraction, 2) + Digit(fraction, 3)
      /\ ExtraMicros(fraction)
           = 100 * Digit(fraction, 4) + 10 * Digit(fraction, 5) + Digit(fraction, 6)
  BY DEF Millis, ExtraMicros, ThreeDigits, Digit
<1>8. /\ Digit(fraction, 1) \in Int /\ Digit(fraction, 2) \in Int
      /\ Digit(fraction, 3) \in Int /\ Digit(fraction, 4) \in Int
      /\ Digit(fraction, 5) \in Int /\ Digit(fraction, 6) \in Int
  BY DigitsAreDigits
<1> HIDE DEF p
<1>9. p[6] = 0 + 100000 * Digit(fraction, 1) + 10000 * Digit(fraction, 2)
                + 1000 * Digit(fraction, 3) + 100 * Digit(fraction, 4)
                + 10 * Digit(fraction, 5) + Digit(fraction, 6)
  BY <1>6, <1>8, WeightedDigits, SMT
<1>10. Millis(fraction) \in Int /\ ExtraMicros(fraction) \in Int
  BY ThreeDigitsType
<1>11. p[6] = 1000 * Millis(fraction) + ExtraMicros(fraction)
  BY <1>7, <1>8, <1>9, <1>10, SMT
<1> QED BY <1>3, <1>11, SMT DEF p

LeapsTo(year) == year \div 4 - year \div 100 + year \div 400

LEMMA OneMoreYear ==
  ASSUME NEW year \in Int
  PROVE  LeapsTo(year) = LeapsTo(year - 1) + IF isLeapYear(year) THEN 1 ELSE 0
BY DEF isLeapYear, LeapsTo

\* The number of a day, counted from January or from March, for each month.
LEMMA DayNumbersAgree ==
  ASSUME NEW year \in Nat, NEW month \in 1..12, NEW day \in Int
  PROVE  CivilDay(year, month, day) = DayNumber(year, month, day)
<1> DEFINE leap == IF month > 2 /\ isLeapYear(year) THEN 1 ELSE 0
           march == (153 * ((month + 9) % 12) + 2) \div 5
           y == IF month <= 2 THEN year - 1 ELSE year
<1>1. DayNumber(year, month, day)
        = 365 * (year - 1970) + LeapsTo(year - 1) - 477 + DaysBeforeMonth[month] + leap + day - 1
  BY DEF DayNumber, LeapsTo
<1>2. CivilDay(year, month, day) = 365 * y + LeapsTo(y) + (march + day - 1) - 719468
  <2> DEFINE era == y \div 400
             ofEra == y - 400 * era
  <2>1. y \in Int /\ era \in Int /\ ofEra \in Int
    OBVIOUS
  <2>2. CivilDay(year, month, day) = 146097 * era + 365 * ofEra + ofEra \div 4 - ofEra \div 100
                                       + (march + day - 1) - 719468
    BY SMT DEF CivilDay
  <2>3. 146097 * era + 365 * ofEra + ofEra \div 4 - ofEra \div 100 = 365 * y + LeapsTo(y)
    <3>1. era = y \div 400 /\ ofEra = y - 400 * era
      OBVIOUS
    <3> HIDE DEF y, era, ofEra
    <3>2. y = 400 * era + ofEra
      BY <2>1, <3>1, SMT
    <3>3. y \div 4 = 100 * era + ofEra \div 4 /\ y \div 100 = 4 * era + ofEra \div 100
      BY <2>1, <3>2, SMT
    <3>4. LeapsTo(y) = 97 * era + ofEra \div 4 - ofEra \div 100
      BY <2>1, <3>1, <3>3, SMT DEF LeapsTo
    <3> QED BY <2>1, <3>2, <3>4, SMT
  <2> HIDE DEF y, era, ofEra
  <2> QED BY <2>2, <2>3, SMT
<1>3. LeapsTo(y) \in Int /\ LeapsTo(year - 1) \in Int
      /\ LeapsTo(year) = LeapsTo(year - 1) + IF isLeapYear(year) THEN 1 ELSE 0
  BY OneMoreYear DEF LeapsTo
<1>4. month <= 2 => march = 275 + DaysBeforeMonth[month] + 31
  BY DEF DaysBeforeMonth
<1>5. month > 2 => march = DaysBeforeMonth[month] - 59
  BY DEF DaysBeforeMonth
<1>6. DaysBeforeMonth[month] \in Int
  BY DEF DaysBeforeMonth
<1> HIDE DEF march
<1>7. CASE month <= 2
  BY <1>1, <1>2, <1>3, <1>4, <1>6, <1>7
<1>8. CASE month > 2
  BY <1>1, <1>2, <1>3, <1>5, <1>6, <1>8
<1> QED BY <1>7, <1>8

\* A month has as many days as lie before the first of the next one.
LEMMA MonthsEnd ==
  ASSUME NEW year \in Nat, NEW month \in 1..12, NEW day \in Int
  PROVE  day <= MaxDay(year, month)
           <=> DayNumber(year, month, day)
                 < DayNumber(IF month = 12 THEN year + 1 ELSE year,
                             IF month = 12 THEN 1 ELSE month + 1, 1)
<1> DEFINE leap == IF month > 2 /\ isLeapYear(year) THEN 1 ELSE 0
<1>1. DayNumber(year, month, day)
        = 365 * (year - 1970) + LeapsTo(year - 1) - 477 + DaysBeforeMonth[month] + leap + day - 1
  BY SMT DEF DayNumber, LeapsTo
<1>2. LeapsTo(year) \in Int /\ LeapsTo(year - 1) \in Int
      /\ LeapsTo(year) = LeapsTo(year - 1) + IF isLeapYear(year) THEN 1 ELSE 0
  BY OneMoreYear DEF LeapsTo
<1>3. CASE month = 12
  <2>1. DayNumber(year + 1, 1, 1)
          = 365 * (year + 1 - 1970) + LeapsTo(year) - 477 + DaysBeforeMonth[1] + 1 - 1
    BY SMT DEF DayNumber, LeapsTo, DaysBeforeMonth
  <2> QED BY <1>1, <1>2, <1>3, <2>1, SMT DEF DaysBeforeMonth, MaxDay, DAYS_IN_MONTH
<1>4. CASE month < 12
  <2> DEFINE next == IF month + 1 > 2 /\ isLeapYear(year) THEN 1 ELSE 0
  <2>1. DayNumber(year, month + 1, 1)
          = 365 * (year - 1970) + LeapsTo(year - 1) - 477 + DaysBeforeMonth[month + 1] + next
              + 1 - 1
    BY SMT DEF DayNumber, LeapsTo
  <2>2. /\ DaysBeforeMonth[month] \in Int /\ DaysBeforeMonth[month + 1] \in Int
        /\ DAYS_IN_MONTH[month] \in Int
        /\ DaysBeforeMonth[month + 1] = DaysBeforeMonth[month] + DAYS_IN_MONTH[month]
    BY <1>4, SMT DEF DaysBeforeMonth, DAYS_IN_MONTH
  <2>3. month = 2 => DAYS_IN_MONTH[month] = 28
    BY SMTT(30) DEF DAYS_IN_MONTH
  <2> QED BY <1>1, <1>2, <1>4, <2>1, <2>2, <2>3, SMT DEF MaxDay
<1> QED BY <1>3, <1>4, SMT

LEMMA PartsTyped ==
  ASSUME NEW text \in TextParts
  PROVE  /\ text.year \in 0..9999 /\ text.year \in Nat /\ text.month \in Nat
         /\ text.day \in Nat /\ text.hour \in Nat /\ text.minute \in Nat
         /\ text.second \in Nat \cup {-1} /\ text.offset \in Int /\ text.fraction \in Fractions
<1>1. text.year \in 0..9999 /\ text.month \in Nat /\ text.day \in Nat
  BY DEF TextParts
<1>2. text.hour \in Nat /\ text.minute \in Nat /\ text.offset \in Int
  BY DEF TextParts
<1>3. text.second \in Nat \cup {-1}
  BY DEF TextParts, NoSeconds
<1>4. text.fraction \in Fractions
  BY SMTT(30) DEF TextParts, Fractions
<1>5. text.year \in Nat
  <2> DEFINE year == text.year
  <2>1. year \in 0..9999
    BY <1>1, SMTT(30)
  <2> HIDE DEF year
  <2>2. year \in Nat
    BY <2>1
  <2> QED BY <2>2, SMTT(30) DEF year
<1> QED BY <1>1, <1>2, <1>3, <1>4, <1>5, SMTT(30)

LEMMA MaxDayType ==
  ASSUME NEW year \in Nat, NEW month \in 1..12
  PROVE  MaxDay(year, month) \in Nat
BY DEF MaxDay, DAYS_IN_MONTH

\* The dates of the calendar are those the code takes for valid.
LEMMA DatesExist ==
  ASSUME NEW text \in TextParts
  PROVE  Exists(text) <=>
           /\ text.iso /\ hasValidCalendarDate(text)
           /\ text.minute <= 59 /\ text.second <= 59
           /\ \/ text.hour <= 23
              \/ /\ text.hour = 24 /\ text.minute = 0 /\ text.second <= 0
                 /\ FractionMicros(text.fraction) = 0
<1>1. CASE text.month \in 1..12
  <2> DEFINE year == text.year
             month == text.month
             day == text.day
             nextYear == IF month = 12 THEN year + 1 ELSE year
             next == IF month = 12 THEN 1 ELSE month + 1
  <2>1. year \in Nat /\ month \in 1..12 /\ day \in Nat /\ nextYear \in Nat /\ next \in 1..12
    BY <1>1, PartsTyped, SMT
  <2>2. /\ CivilDay(year, month, day) = DayNumber(year, month, day)
        /\ CivilDay(nextYear, next, 1) = DayNumber(nextYear, next, 1)
    <3> HIDE DEF year, month, day, nextYear, next
    <3> QED BY <2>1, DayNumbersAgree, SMT
  <2>3. day <= MaxDay(year, month)
          <=> CivilDay(year, month, day) < CivilDay(nextYear, next, 1)
    <3>1. day <= MaxDay(year, month)
            <=> DayNumber(year, month, day) < DayNumber(nextYear, next, 1)
      <4> HIDE DEF year, month, day
      <4> QED BY <2>1, MonthsEnd, SMT
    <3> HIDE DEF year, month, day, nextYear, next
    <3> QED BY <2>2, <3>1, SMT
  <2>4. hasValidCalendarDate(text) <=>
          day >= 1 /\ CivilDay(year, month, day) < CivilDay(nextYear, next, 1)
    <3>1. MaxDay(year, month) \in Nat
      <4> HIDE DEF year, month
      <4> QED BY <2>1, MaxDayType
    <3>2. day \in 1..MaxDay(year, month) <=> day >= 1 /\ day <= MaxDay(year, month)
      <4> HIDE DEF year, month, day
      <4> QED BY <2>1, <3>1, SMT
    <3> QED BY <1>1, <2>3, <3>2, SMT DEF hasValidCalendarDate
  <2> QED BY <1>1, <2>4, SMT DEF Exists
<1>2. CASE text.month \notin 1..12
  BY <1>2, SMT DEF Exists, hasValidCalendarDate
<1> QED BY <1>1, <1>2, SMT

\* What a text with a date denotes, from the parts the code computes.
LEMMA DenotedUnfolds ==
  ASSUME NEW text \in TextParts, Exists(text)
  PROVE  Denoted(text) = At(DayNumber(text.year, text.month, text.day),
                            SecondOfDay(text)
                              - (IF text.zone = "offset" THEN 60 * text.offset ELSE 0),
                            1000 * Millis(text.fraction) + ExtraMicros(text.fraction))
<1> DEFINE off == IF text.zone = "offset" THEN text.offset ELSE 0
           sec == IF text.second = NoSeconds THEN 0 ELSE text.second
           east == IF text.zone = "offset" THEN 60 * text.offset ELSE 0
<1>1. FractionMicros(text.fraction) = 1000 * Millis(text.fraction) + ExtraMicros(text.fraction)
  BY PartsTyped, FractionValue, SMT
<1>2. text.month \in 1..12
  BY SMT DEF Exists
<1>3. CivilDay(text.year, text.month, text.day) = DayNumber(text.year, text.month, text.day)
  BY <1>2, PartsTyped, DayNumbersAgree, SMT
<1>4. /\ text.hour \in Nat /\ text.minute \in Nat /\ sec \in Nat /\ off \in Int
  BY PartsTyped, SMT DEF NoSeconds
<1>5. SecondOfDay(text) = 3600 * text.hour + 60 * text.minute + sec
  BY SMT DEF SecondOfDay
<1>6. east = 60 * off
  BY SMT
<1> HIDE DEF off, sec, east
<1>7. 60 * (60 * text.hour + text.minute - off) + sec
        = SecondOfDay(text) - east
  <2>1. 60 * (60 * text.hour + text.minute - off) + sec
          = 3600 * text.hour + 60 * text.minute + sec - 60 * off
    BY <1>4, SMT
  <2> QED BY <1>4, <1>5, <1>6, <2>1, SMT
<1>8. Denoted(text) = At(CivilDay(text.year, text.month, text.day),
                         60 * (60 * text.hour + text.minute - off) + sec,
                         FractionMicros(text.fraction))
  BY SMT DEF Denoted, off, sec
<1> QED BY <1>1, <1>3, <1>7, <1>8, SMT DEF east

LEMMA InstantsNotNull ==
  ASSUME NEW day, NEW second, NEW micro
  PROVE  At(day, second, micro) # Null
BY SMT DEF At, Null

LEMMA DaysAreWhole ==
  ASSUME NEW text \in TextParts, Exists(text)
  PROVE  DayNumber(text.year, text.month, text.day) \in Int
<1>1. text.year \in Nat /\ text.month \in 1..12 /\ text.day \in Nat
  BY PartsTyped DEF Exists
<1>2. DaysBeforeMonth[text.month] \in Int
  BY <1>1, SMT DEF DaysBeforeMonth
<1> QED BY <1>1, <1>2, SMT DEF DayNumber

\* time.ts: a text is read as the instant it denotes, by whichever of the two ways, and
\* as none if it denotes none; of the exceptions, the three that ReadAsWritten names, the
\* third is all those whose instant the doubles of the sum do not hold.
THEOREM ReadsRight ==
  ASSUME NEW text \in TextParts, ReadAsWritten(text)
  PROVE  parseIsoToMicros(text) = Denoted(text)
<1> DEFINE millis == Millis(text.fraction)
           extra == ExtraMicros(text.fraction)
           off == IF text.zone = "offset" THEN 60 * text.offset ELSE 0
           day == DayNumber(text.year, text.month, text.day)
<1>1. millis \in Nat /\ extra \in Nat /\ millis < 1000 /\ extra < 1000
  BY PartsTyped, ThreeDigitsType, SMT
<1>2. FractionMicros(text.fraction) = 1000 * millis + extra
  BY PartsTyped, FractionValue, SMT
<1>3. CASE FastPath(text)
  <2>1. Exists(text)
    <3>1. text.second <= 59 /\ text.minute <= 59 /\ text.hour <= 23 /\ text.iso
          /\ hasValidCalendarDate(text)
      BY <1>3, SMT DEF FastPath, InRange, hasValidCalendarDate
    <3> QED BY <3>1, DatesExist, SMT
  <2>2. DateUTC(text.year, text.month, text.day) = day
    BY <1>3, SMT DEF ReadAsWritten, DateUTC
  <2>3. off = 0 /\ SecondOfDay(text) \in Int
    <3>1. text.zone = "Z"
      BY <1>3, SMT DEF FastPath
    <3>2. SecondOfDay(text) \in Int
      BY PartsTyped, SMT DEF SecondOfDay, NoSeconds
    <3> QED BY <3>1, <3>2, SMT
  <2>4. SecondOfDay(text) - off = SecondOfDay(text)
    BY <2>3, SMT
  <2>5. parseIsoToMicros(text) = InMicros(At(day, SecondOfDay(text), 1000 * millis), extra)
    BY <1>3, <2>2, SMT DEF parseIsoToMicros
  <2>6. Denoted(text) = At(day, SecondOfDay(text), 1000 * millis + extra)
    BY <2>1, <2>4, DenotedUnfolds, SMT
  <2>7. Held(At(day, SecondOfDay(text), 1000 * millis + extra))
    BY <2>6, InstantsNotNull DEF ReadAsWritten
  <2>8. day \in Int
    BY <2>1, DaysAreWhole
  <2> HIDE DEF millis, extra, day
  <2> QED BY <1>1, <2>3, <2>5, <2>6, <2>7, <2>8, SumIsHeld
<1>4. CASE ~FastPath(text) /\ (~text.iso \/ ~hasValidCalendarDate(text))
  <2>1. ~Exists(text)
    BY <1>4, DatesExist, SMT
  <2> QED BY <1>4, <2>1, SMT DEF parseIsoToMicros, Denoted
<1>5. CASE ~FastPath(text) /\ text.iso /\ hasValidCalendarDate(text)
  <2> DEFINE InDay == text.hour <= 23 /\ text.minute <= 59 /\ text.second <= 59
             Midnight == text.hour = 24 /\ SecondOfDay(text) = 86400 /\ millis = 0
             t == DateParse(text, millis)
  <2>1. t = IF InDay \/ Midnight THEN At(day, SecondOfDay(text) - off, 1000 * millis) ELSE Null
    BY SMT DEF DateParse
  <2>2. Midnight <=> /\ text.hour = 24 /\ text.minute = 0 /\ text.second <= 0 /\ millis = 0
    BY PartsTyped, SMT DEF SecondOfDay, NoSeconds
  <2>3. FractionMicros(text.fraction) = 0 <=> millis = 0 /\ extra = 0
    <3> HIDE DEF millis, extra
    <3> QED BY <1>1, <1>2, SMT
  <2>4. Midnight => extra = 0
    BY SMT DEF ReadAsWritten
  <2>5. Exists(text) <=> InDay \/ Midnight
    <3>1. Exists(text) <=> InDay \/ (/\ text.minute <= 59 /\ text.second <= 59
                                     /\ text.hour = 24 /\ text.minute = 0 /\ text.second <= 0
                                     /\ FractionMicros(text.fraction) = 0)
      BY <1>5, DatesExist, SMT
    <3>2. text.minute \in Int /\ text.second \in Int
      BY PartsTyped, SMT
    <3> HIDE DEF millis, extra, Midnight, InDay
    <3> QED BY <2>2, <2>3, <2>4, <3>1, <3>2, SMT
  <2>6. parseIsoToMicros(text) = IF t = Null THEN Null ELSE InMicros(t, extra)
    BY <1>5, SMT DEF parseIsoToMicros
  <2> HIDE DEF InDay, Midnight, t, millis, extra, off, day
  <2>7. CASE InDay \/ Midnight
    <3>1. t = At(day, SecondOfDay(text) - off, 1000 * millis) /\ t # Null
      BY <2>1, <2>7, InstantsNotNull
    <3>2. Denoted(text) = At(day, SecondOfDay(text) - off, 1000 * millis + extra)
      BY <2>5, <2>7, DenotedUnfolds, SMT DEF day, off, millis, extra
    <3>3. Held(At(day, SecondOfDay(text) - off, 1000 * millis + extra))
      BY <3>2, InstantsNotNull DEF ReadAsWritten
    <3>4. day \in Int
      BY <2>5, <2>7, DaysAreWhole DEF day
    <3>5. SecondOfDay(text) - off \in Int
      BY PartsTyped, SMT DEF SecondOfDay, NoSeconds, off
    <3> QED BY <1>1, <2>6, <3>1, <3>2, <3>3, <3>4, <3>5, SumIsHeld DEF millis, extra
  <2>8. CASE ~(InDay \/ Midnight)
    <3>1. t = Null
      BY <2>1, <2>8
    <3> QED BY <2>5, <2>6, <2>8, <3>1, SMT DEF Denoted
  <2> QED BY <2>7, <2>8
<1> QED BY <1>3, <1>4, <1>5

-----------------------------------------------------------------------------
(* Queries: what is known of the constants.                                *)

LEMMA TextsTyped == Texts \subseteq TextParts
<1>1. \A id \in DOMAIN Entries : Entries[id].timestamp \in TextParts
  BY QueriesAssumption, SMT
<1>2. ASSUME NEW r \in Requests
      PROVE  r.since \in Seq(TextParts) /\ r.until \in Seq(TextParts)
  BY QueriesAssumption, SMT DEF RequestParts
<1>3. ASSUME NEW r \in Requests
      PROVE  /\ \A i \in DOMAIN r.since : r.since[i] \in TextParts
             /\ \A i \in DOMAIN r.until : r.until[i] \in TextParts
  BY <1>2
<1>4. \A r \in Requests : RangeTexts(r) \subseteq TextParts
  BY <1>3 DEF RangeTexts
<1> QED BY <1>1, <1>4 DEF Texts

LEMMA ParsedIsInstant ==
  ASSUME NEW text \in Texts
  PROVE  Parsed[text] = parseIsoToMicros(text) /\ (Parsed[text] # Null => Parsed[text] \in Instants)
<1>1. text \in TextParts
  BY TextsTyped
<1>2. Parsed[text] = parseIsoToMicros(text)
  BY DEF Parsed
<1>3. /\ Millis(text.fraction) \in Nat /\ Millis(text.fraction) < 1000
      /\ ExtraMicros(text.fraction) \in Nat /\ ExtraMicros(text.fraction) < 1000
  BY <1>1, PartsTyped, ThreeDigitsType, SMT
<1>5. SecondOfDay(text) \in Int /\ text.offset \in Int
  BY <1>1, PartsTyped, SMT DEF SecondOfDay, NoSeconds
<1>6. ASSUME NEW year \in Nat, NEW month \in 1..12, NEW day \in Nat
      PROVE  DayNumber(year, month, day) \in Int
  BY SMT DEF DayNumber, DaysBeforeMonth
<1>7. text.year \in Nat /\ text.day \in Nat
  BY <1>1, PartsTyped
<1> DEFINE millis == Millis(text.fraction)
           extra == ExtraMicros(text.fraction)
<1> HIDE DEF millis, extra
<1>8. 1000 * millis \in Micros /\ extra \in Int
  <2>1. millis \in Nat /\ millis < 1000 /\ extra \in Nat
    BY <1>3, SMT DEF millis, extra
  <2> QED BY <2>1, SMT DEF Micros
<1>9. CASE FastPath(text)
  <2>1. text.month \in 1..12
    BY <1>9 DEF FastPath, InRange
  <2>2. DateUTC(text.year, text.month, text.day) \in Int
    <3> DEFINE year == IF text.year \in 0..99 THEN 1900 + text.year ELSE text.year
    <3>1. year \in Nat
      BY <1>7, SMT
    <3> HIDE DEF year
    <3>2. DayNumber(year, text.month, text.day) \in Int
      BY <1>6, <1>7, <2>1, <3>1, Zenon
    <3> QED BY <3>2 DEF DateUTC, year
  <2>3. parseIsoToMicros(text)
          = InMicros(At(DateUTC(text.year, text.month, text.day), SecondOfDay(text),
                        1000 * millis), extra)
    BY <1>9 DEF parseIsoToMicros, millis, extra
  <2> QED BY <1>2, <1>5, <1>8, <2>2, <2>3, AtIsInstant, InMicrosIsInstant
<1>10. CASE ~FastPath(text)
  <2> DEFINE off == IF text.zone = "offset" THEN 60 * text.offset ELSE 0
             t == DateParse(text, millis)
  <2> SUFFICES ASSUME Parsed[text] # Null
               PROVE  Parsed[text] \in Instants
    BY <1>2
  <2>1. /\ text.iso /\ hasValidCalendarDate(text) /\ t # Null
        /\ Parsed[text] = InMicros(t, extra)
    BY <1>2, <1>10 DEF parseIsoToMicros, millis, extra
  <2>2. text.month \in 1..12
    BY <2>1 DEF hasValidCalendarDate
  <2>3. DayNumber(text.year, text.month, text.day) \in Int
    BY <1>6, <1>7, <2>2
  <2>4. off \in Int
    BY <1>5, SMT
  <2>5. t = At(DayNumber(text.year, text.month, text.day), SecondOfDay(text) - off, 1000 * millis)
    BY <2>1, SMT DEF DateParse
  <2> HIDE DEF off, t
  <2>6. SecondOfDay(text) - off \in Int
    BY <1>5, <2>4, SMT
  <2>7. t \in Instants
    BY <1>8, <2>3, <2>5, <2>6, AtIsInstant
  <2> QED BY <1>8, <2>1, <2>7, InMicrosIsInstant
<1> QED BY <1>9, <1>10

\* Instants are ordered.
LEMMA BeforeIsOrder ==
  ASSUME NEW s \in Instants, NEW t \in Instants, NEW u \in Instants
  PROVE  /\ ~Before(s, s)
         /\ s = t \/ Before(s, t) \/ Before(t, s)
         /\ Before(s, t) => ~Before(t, s)
         /\ Before(s, t) /\ Before(t, u) => Before(s, u)
<1>1. /\ s[1] \in Int /\ s[2] \in Int /\ s[3] \in Int /\ t[1] \in Int /\ t[2] \in Int
      /\ t[3] \in Int /\ u[1] \in Int /\ u[2] \in Int /\ u[3] \in Int
      /\ s = <<s[1], s[2], s[3]>> /\ t = <<t[1], t[2], t[3]>>
  BY SMT DEF Instants, DaySeconds, Micros
<1>2. s = t <=> s[1] = t[1] /\ s[2] = t[2] /\ s[3] = t[3]
  BY <1>1, SMT
<1> QED BY <1>1, <1>2, SMT DEF Before

LEMMA EntriesTyped ==
  ASSUME NEW id \in RowIds
  PROVE  /\ id \in Nat /\ Entries[id].timestamp \in Texts
         /\ Entries[id].level \in {"debug", "info", "warn", "error"}
         /\ Entries[id].service \in Services
BY QueriesAssumption DEF RowIds, Texts, Services

LEMMA LevelCodes ==
  ASSUME NEW name \in {"debug", "info", "warn", "error"}
  PROVE  levelToCode(name) \in 0..3 /\ codeToLevel(levelToCode(name)) = name
<1>1. \E c \in 1..4 : LEVELS[c] = name
  BY DEF LEVELS
<1> DEFINE c == CHOOSE k \in 1..4 : LEVELS[k] = name
<1>2. c \in 1..4 /\ LEVELS[c] = name
  BY <1>1, Zenon
<1>3. levelToCode(name) = c - 1
  BY <1>1, Zenon DEF levelToCode
<1> HIDE DEF c
<1>4. (c - 1) + 1 = c /\ c - 1 \in 0..3
  BY <1>2, SMT
<1> QED BY <1>2, <1>3, <1>4 DEF codeToLevel

\* A level that is no level has no code a row could have.
LEMMA LevelMeans ==
  ASSUME NEW name, levelToCode(name) # INVALID_LEVEL,
         NEW other \in {"debug", "info", "warn", "error"}
  PROVE  levelToCode(other) = levelToCode(name) <=> other = name
<1>1. \E c \in 1..4 : LEVELS[c] = name
  BY Zenon DEF levelToCode
<1>2. name \in {"debug", "info", "warn", "error"}
  BY <1>1, SMT DEF LEVELS
<1> QED BY <1>2, LevelCodes, Zenon

LEMMA RequestsTyped ==
  ASSUME NEW r \in Requests
  PROVE  /\ r # <<>> /\ r.path \in {"logs", "aggregate"}
         /\ r.limit \in Seq(Int) /\ r.cursor \in Seq(CursorTokens)
         /\ Given(r.since) => r.since[1] \in Texts
         /\ Given(r.until) => r.until[1] \in Texts
         /\ Given(r.limit) => r.limit[1] \in Int
         /\ Given(r.cursor) => r.cursor[1] \in CursorTokens
<1>1. r \in RequestParts
  BY QueriesAssumption
<1>2. r # <<>>
  <2>1. "path" \in DOMAIN r
    BY <1>1 DEF RequestParts
  <2>2. "path" \notin DOMAIN <<>>
    BY SMT
  <2> QED BY <2>1, <2>2, Zenon
<1>3. /\ r.path \in {"logs", "aggregate"} /\ r.limit \in Seq(Int)
      /\ r.cursor \in Seq(CursorTokens) /\ r.since \in Seq(TextParts) /\ r.until \in Seq(TextParts)
  BY <1>1 DEF RequestParts
<1>4. ASSUME NEW S, NEW s \in Seq(S), Given(s)
      PROVE  1 \in DOMAIN s /\ s[1] \in S
  BY <1>4 DEF Given
<1>5. Given(r.since) => r.since[1] \in Texts
  <2>1. Given(r.since) => 1 \in DOMAIN r.since
    BY <1>3, <1>4
  <2>2. Given(r.since) => r.since[1] \in RangeTexts(r)
    BY <2>1 DEF RangeTexts
  <2> QED BY <2>2 DEF Texts
<1>6. Given(r.until) => r.until[1] \in Texts
  <2>1. Given(r.until) => 1 \in DOMAIN r.until
    BY <1>3, <1>4
  <2>2. Given(r.until) => r.until[1] \in RangeTexts(r)
    BY <2>1 DEF RangeTexts
  <2> QED BY <2>2 DEF Texts
<1>7. /\ Given(r.limit) => r.limit[1] \in Int
      /\ Given(r.cursor) => r.cursor[1] \in CursorTokens
  BY <1>3, <1>4
<1> QED BY <1>2, <1>3, <1>5, <1>6, <1>7

-----------------------------------------------------------------------------
(* Queries: the inductive invariant.  The row of an entry is made of what   *)
(* was sent, so it is the same whenever it is read, and what the walk has   *)
(* seen can be said of ids.                                                 *)

RowOf(id) ==
  [id |-> id, ts |-> PgTimestamp(Parsed[Entries[id].timestamp]),
   service_id |-> ServiceIds[Entries[id].service], level |-> levelToCode(Entries[id].level)]

Ids == {row.id : row \in table}

\* An entry that was taken.
Taken(id) == id \in RowIds /\ Acceptable(Entries[id]) /\ Entries[id].service \in registered

DataInv ==
  /\ IsFiniteSet(table)
  /\ \A row \in table : Taken(row.id) /\ row = RowOf(row.id)
  /\ gone \subseteq RowIds /\ refused \subseteq RowIds
  /\ \A id \in refused : ~Acceptable(Entries[id])
  /\ registered \subseteq Services /\ known \subseteq registered
  /\ IsFiniteSet(snapshot) /\ \A id \in snapshot : Taken(id)

\* Where the request stands.
RequestInv ==
  /\ phase \in {"idle", "asked", "read", "answered"}
  /\ IF phase = "idle"
     THEN req = <<>> /\ got = <<>> /\ steady = {}
     ELSE req \in Requests
  /\ phase # "read" => rows = <<>>
  /\ phase # "answered" => reply = NoReply /\ blind = FALSE
  /\ Given(reply.next_cursor) => blind = FALSE
  /\ phase = "read" => ~BadRequest(req) /\ ~impossible(req)
  /\ phase = "answered" => reply.status \in {200, 400, 500, 503}
  /\ reply.status = 200 => ~BadFilters(req) /\ (req.path = "aggregate" => ~BadAggregate(req))
  /\ Len(reply.logs) <= MAX_LIMIT /\ blind \in BOOLEAN

\* The row is one the walk is for, whichever page it comes on.
Sought(id) ==
  WHERE(RowOf(id), req) /\ (Given(req.cursor) => Past(RowOf(id), req.cursor[1]))

Follows(x, y) == Newer(RowOf(x), RowOf(y))

Seen(id) == \E i \in 1..Len(got) : got[i] = id

Last == got[Len(got)]

StartsWell(r) == Given(r.cursor) => ~BadCursor(r.cursor[1])

\* What came before the page, and how it goes on: the cursor names the last row seen.
WalkInv ==
  /\ got \in Seq(RowIds)
  /\ got # <<>> => req.path = "logs" /\ StartsWell(req)
  /\ \A i \in 1..Len(got) : Taken(got[i]) /\ Sought(got[i])
  /\ \A i, j \in 1..Len(got) : i < j => Follows(got[i], got[j])
  /\ phase \in {"asked", "read"} =>
       cursor = IF got = <<>> THEN req.cursor ELSE <<encodeCursor(RowOf(Last))>>
  /\ Given(reply.next_cursor) =>
       got # <<>> /\ reply.next_cursor = <<encodeCursor(RowOf(Last))>>

\* What was served was well asked, and the service it names stays known.
KnownInv ==
  got # <<>> \/ (reply.status = 200 /\ ~blind) =>
    ~BadFilters(req) /\ ~impossible(req) /\ (req.path = "logs" => StartsWell(req))

\* Rows there all along lie on pages that came or on pages that come.
SteadyInv ==
  /\ steady \subseteq Ids
  /\ phase = "read" /\ req.path = "logs" => steady \subseteq snapshot
  /\ got # <<>> => \A id \in steady : Sought(id) => Seen(id) \/ Follows(Last, id)

\* What the statement of a page read: the first rows the page is for.
Wanted(id) == WHERE(RowOf(id), req) /\ (Given(cursor) => Past(RowOf(id), cursor[1]))

PageInv ==
  phase = "read" /\ req.path = "logs" =>
    /\ rows \in Seq({RowOf(id) : id \in snapshot}) /\ Len(rows) <= Limit(req) + 1
    /\ \A i \in 1..Len(rows) : Wanted(rows[i].id)
    /\ \A i, j \in 1..Len(rows) : i < j => Newer(rows[i], rows[j])
    /\ \A id \in snapshot : Wanted(id) =>
         \/ \E i \in 1..Len(rows) : rows[i] = RowOf(id)
         \/ Len(rows) = Limit(req) + 1 /\ Newer(rows[Len(rows)], RowOf(id))

\* A walk that was served to this answer.
Served == phase = "answered" /\ reply.status = 200 /\ req.path = "logs" /\ ~blind

EndInv ==
  /\ Served /\ ~Given(reply.next_cursor) => \A id \in steady : Sought(id) => Seen(id)
  /\ Served => (Given(reply.next_cursor) <=>
                  \E id \in snapshot : /\ Sought(id) /\ ~Seen(id)
                                       /\ got # <<>> => Follows(Last, id))

\* The row of an entry that was taken.
LEMMA RowTyped ==
  ASSUME NEW id, Taken(id)
  PROVE  /\ RowOf(id) \in [id: RowIds, ts: Instants,
                          service_id: {ServiceIds[n] : n \in Services}, level: 0..3]
         /\ RowOf(id).id = id /\ RowOf(id).ts = PgTimestamp(Parsed[Entries[id].timestamp])
         /\ RowOf(id).ts \in Instants
         /\ RowOf(id).service_id = ServiceIds[Entries[id].service]
         /\ RowOf(id).level = levelToCode(Entries[id].level)
         /\ id \in Nat
<1>1. id \in RowIds /\ Parsed[Entries[id].timestamp] # Null
  BY DEF Taken, Acceptable
<1>2. /\ id \in Nat /\ Entries[id].timestamp \in Texts
      /\ Entries[id].level \in {"debug", "info", "warn", "error"}
      /\ Entries[id].service \in Services
  BY <1>1, EntriesTyped
<1>3. PgTimestamp(Parsed[Entries[id].timestamp]) \in Instants
  BY <1>1, <1>2, ParsedIsInstant, PgTimestampIsInstant
<1>4. levelToCode(Entries[id].level) \in 0..3
  BY <1>2, LevelCodes
<1>5. ServiceIds[Entries[id].service] \in {ServiceIds[n] : n \in Services}
  BY <1>2
<1> QED BY <1>1, <1>2, <1>3, <1>4, <1>5 DEF RowOf

\* Rows have one order, the order of the pages.
LEMMA FollowsIsOrder ==
  ASSUME NEW x, NEW y, NEW z, Taken(x), Taken(y), Taken(z)
  PROVE  /\ ~Follows(x, x)
         /\ x = y \/ Follows(x, y) \/ Follows(y, x)
         /\ Follows(x, y) => ~Follows(y, x)
         /\ Follows(x, y) /\ Follows(y, z) => Follows(x, z)
<1>1. /\ RowOf(x).ts \in Instants /\ RowOf(y).ts \in Instants /\ RowOf(z).ts \in Instants
      /\ RowOf(x).id = x /\ RowOf(y).id = y /\ RowOf(z).id = z
      /\ x \in Nat /\ y \in Nat /\ z \in Nat
  BY RowTyped
<1> DEFINE a == RowOf(x).ts
           b == RowOf(y).ts
           c == RowOf(z).ts
<1>2. /\ Follows(x, y) <=> Before(b, a) \/ (a = b /\ x > y)
      /\ Follows(y, x) <=> Before(a, b) \/ (b = a /\ y > x)
      /\ Follows(y, z) <=> Before(c, b) \/ (b = c /\ y > z)
      /\ Follows(x, z) <=> Before(c, a) \/ (a = c /\ x > z)
      /\ Follows(x, x) <=> Before(a, a) \/ (a = a /\ x > x)
  BY <1>1 DEF Follows, Newer
<1> HIDE DEF a, b, c
<1>3. a \in Instants /\ b \in Instants /\ c \in Instants
  BY <1>1 DEF a, b, c
<1>4. /\ ~Before(a, a) /\ (a = b \/ Before(a, b) \/ Before(b, a))
      /\ (Before(a, b) => ~Before(b, a)) /\ (Before(b, a) => ~Before(a, b))
      /\ (Before(c, b) /\ Before(b, a) => Before(c, a))
  BY <1>3, BeforeIsOrder
<1> QED BY <1>1, <1>2, <1>4

\* A row is past the cursor of another row, one that is not refused, if it follows it.
LEMMA CursorNames ==
  ASSUME NEW x, NEW y, Taken(x), Taken(y), ~BadCursor(encodeCursor(RowOf(x)))
  PROVE  Past(RowOf(y), encodeCursor(RowOf(x))) <=> Follows(x, y)
<1>1. /\ RowOf(x).ts \in Instants /\ RowOf(x).id = x /\ RowOf(y).id = y
      /\ x \in Nat /\ y \in Nat
  BY RowTyped
<1>2. formatMicrosPgLiteral(RowOf(x).ts) = RowOf(x).ts
  BY <1>1, LiteralOfSafe DEF BadCursor, encodeCursor
<1> QED BY <1>1, <1>2 DEF Past, encodeCursor, Follows, Newer

\* What is past a token stays past it further down.
LEMMA PastGoesOn ==
  ASSUME NEW x, NEW y, Taken(x), Taken(y), Follows(x, y), NEW token \in CursorTokens,
         ~BadCursor(token), Past(RowOf(x), token)
  PROVE  Past(RowOf(y), token)
<1>1. /\ RowOf(x).ts \in Instants /\ RowOf(x).id = x /\ RowOf(y).id = y
      /\ RowOf(y).ts \in Instants /\ x \in Nat /\ y \in Nat
  BY RowTyped
<1>2. token.t \in Instants /\ token.i \in Nat
  BY SMT DEF CursorTokens, BadCursor, isSafeInteger
<1> DEFINE t == token.t
           a == RowOf(x).ts
           b == RowOf(y).ts
<1>3. formatMicrosPgLiteral(t) = t
  BY <1>2, LiteralOfSafe DEF BadCursor
<1>4. Before(a, t) \/ (a = t /\ x < token.i)
  BY <1>1, <1>3 DEF Past
<1>5. Before(b, a) \/ (a = b /\ x > y)
  BY <1>1 DEF Follows, Newer
<1>6. Before(b, a) /\ Before(a, t) => Before(b, t)
  BY <1>1, <1>2, BeforeIsOrder
<1>7. Before(b, t) \/ (b = t /\ y < token.i)
  <2> HIDE DEF a, b, t
  <2> QED BY <1>1, <1>2, <1>4, <1>5, <1>6
<1> QED BY <1>1, <1>3, <1>7 DEF Past

\* The ids in the table, and the row of each.
LEMMA IdsOfTable ==
  ASSUME DataInv
  PROVE  /\ IsFiniteSet(Ids) /\ \A id \in Ids : Taken(id) /\ RowOf(id) \in table
         /\ table = {RowOf(id) : id \in Ids}
<1> DEFINE f == [row \in table |-> row.id]
<1>1. f = [row \in table |-> f[row]] /\ Ids = {f[row] : row \in table}
  BY DEF Ids
<1>2. IsFiniteSet(Ids)
  <2> HIDE DEF f
  <2> QED BY <1>1, ImageSize DEF DataInv
<1>3. \A id \in Ids : Taken(id) /\ RowOf(id) \in table
  BY DEF Ids, DataInv
<1>4. \A row \in table : row.id \in Ids /\ row = RowOf(row.id)
  BY DEF Ids, DataInv
<1>5. table = {RowOf(id) : id \in Ids}
  BY <1>3, <1>4
<1> QED BY <1>2, <1>3, <1>5

LEMMA DataInit == Init => DataInv
BY FS_EmptySet DEF Init, DataInv

\* The parts of DataInv that the rows and the names in the table of services make up.
LEMMA DataStays ==
  ASSUME DataInv, table' \subseteq table, registered' = registered, refused' = refused,
         gone' \subseteq RowIds, known' \subseteq registered, snapshot' \in {snapshot, {}, Ids}
  PROVE  DataInv'
<1>1. IsFiniteSet(table') /\ IsFiniteSet(snapshot')
  BY FS_Subset, FS_EmptySet, IdsOfTable DEF DataInv
<1>2. \A id : Taken(id) <=> Taken(id)'
  BY DEF Taken
<1>3. \A id \in snapshot' : Taken(id)
  BY IdsOfTable DEF DataInv
<1>4. \A row \in table' : Taken(row.id) /\ row = RowOf(row.id)
  BY DEF DataInv
<1> QED BY <1>1, <1>2, <1>3, <1>4 DEF DataInv

LEMMA HydratedIsRegistered ==
  ASSUME DataInv, NEW ids
  PROVE  Hydrated(ids) \subseteq registered /\ known \subseteq Hydrated(ids)
BY DEF DataInv, Hydrated

LEMMA DataStep ==
  ASSUME DataInv, [Next]_vars
  PROVE  DataInv'
<1>1. ASSUME NEW id \in RowIds, Arrive(id)
      PROVE  DataInv'
  <2> DEFINE e == Entries[id]
  <2>1. /\ Acceptable(e) /\ table' = table \cup {RowOf(id)}
        /\ registered' = registered \cup {e.service}
        /\ known' \in {known, known \cup {e.service}}
        /\ UNCHANGED <<gone, refused, snapshot>>
    BY <1>1 DEF Arrive, RowOf
  <2>2. e.service \in Services
    BY EntriesTyped
  <2>3. \A k : Taken(k) => Taken(k)'
    BY <2>1 DEF Taken
  <2>4. Taken(id)' /\ RowOf(id).id = id
    BY <2>1 DEF Taken, RowOf
  <2>5. IsFiniteSet(table')
    BY <2>1, FS_AddElement DEF DataInv
  <2>6. \A row \in table' : Taken(row.id)' /\ row = RowOf(row.id)
    <3>1. \A row \in table : Taken(row.id) /\ row = RowOf(row.id)
      BY DEF DataInv
    <3> QED BY <2>1, <2>3, <2>4, <3>1
  <2>7. \A k \in snapshot' : Taken(k)'
    BY <2>1, <2>3 DEF DataInv
  <2>8. registered' \subseteq Services /\ known' \subseteq registered'
    BY <2>1, <2>2 DEF DataInv
  <2> QED BY <2>1, <2>5, <2>6, <2>7, <2>8 DEF DataInv
<1>2. ASSUME NEW id \in RowIds, Reject(id)
      PROVE  DataInv'
  <2>1. \A k : Taken(k) <=> Taken(k)'
    BY <1>2 DEF Reject, Taken
  <2> QED BY <1>2, <2>1 DEF Reject, DataInv
<1>3. ASSUME NEW day \in OldDays, DropDay(day)
      PROVE  DataInv'
  <2> DEFINE ids == {row.id : row \in {r \in table : r.ts[1] = day}}
  <2>1. table' = {row \in table : row.id \notin ids} /\ gone' = gone \cup ids
        /\ UNCHANGED <<refused, registered, known, snapshot>>
    BY <1>3 DEF DropDay
  <2>2. ids \subseteq RowIds
    BY DEF DataInv, Taken
  <2> HIDE DEF ids
  <2>3. table' \subseteq table /\ gone' \subseteq RowIds /\ known' \subseteq registered
    BY <2>1, <2>2 DEF DataInv
  <2> QED BY <2>1, <2>3, DataStays
<1>4. ASSUME Serve \/ NextPage \/ Finish \/ \E r \in Requests : Ask(r)
      PROVE  DataInv'
  <2>1. UNCHANGED dataVars
    BY <1>4 DEF Serve, NextPage, Finish, Ask, AnswerBadRequest, AnswerImpossible, ReadLogs,
                ReplyLogs, ReadAggregate, ReplyAggregate, StatementFails
  <2>2. snapshot' \in {snapshot, {}, Ids}
    BY <1>4 DEF Serve, NextPage, Finish, Ask, AnswerBadRequest, AnswerImpossible, ReadLogs,
                ReplyLogs, ReadAggregate, ReplyAggregate, StatementFails, Ids
  <2>3. known' \subseteq registered
    <3>1. known \subseteq registered
      BY DEF DataInv
    <3>2. CASE ReplyLogs
      BY <3>2, HydratedIsRegistered DEF ReplyLogs
    <3>3. CASE ReplyAggregate
      BY <3>1, <3>3, HydratedIsRegistered DEF ReplyAggregate
    <3>4. CASE ~ReplyLogs /\ ~ReplyAggregate
      BY <1>4, <3>1, <3>4 DEF Serve, NextPage, Finish, Ask, AnswerBadRequest, AnswerImpossible,
                              ReadLogs, ReadAggregate, StatementFails
    <3> QED BY <3>2, <3>3, <3>4
  <2>4. gone \subseteq RowIds
    BY DEF DataInv
  <2> QED BY <2>1, <2>2, <2>3, <2>4, DataStays DEF dataVars
<1>5. CASE UNCHANGED vars
  <2>1. table' = table /\ known \subseteq registered /\ gone \subseteq RowIds
    BY <1>5 DEF vars, dataVars, DataInv
  <2> QED BY <1>5, <2>1, DataStays DEF vars, dataVars
<1> QED BY <1>1, <1>2, <1>3, <1>4, <1>5 DEF Next

LEMMA LimitType ==
  ASSUME NEW r \in Requests, ~BadLimit(r)
  PROVE  Limit(r) \in Nat /\ Limit(r) >= 1 /\ Limit(r) <= MAX_LIMIT
<1>1. MAX_LIMIT \in Nat /\ DEFAULT_LIMIT \in 1..MAX_LIMIT
  BY QueriesAssumption
<1>2. Given(r.limit) => r.limit[1] \in 1..MAX_LIMIT
  BY DEF BadLimit
<1> QED BY <1>1, <1>2 DEF Limit

\* The request is refused or not, whatever else happens, and what is known stays known.
LEMMA RefusalStays ==
  ASSUME cursor' = cursor, req' = req
  PROVE  BadRequest(req)' <=> BadRequest(req)
BY DEF BadRequest

LEMMA NeverImpossibleLater ==
  ASSUME req' = req, known \subseteq known', ~impossible(req)
  PROVE  ~impossible(req)'
BY DEF impossible

LEMMA ServedIsValid ==
  ASSUME RequestInv, ~BadRequest(req), phase # "idle"
  PROVE  /\ req \in Requests /\ ~BadFilters(req)
         /\ req.path = "logs" => ~BadLimit(req)
         /\ req.path = "aggregate" => ~BadAggregate(req)
BY DEF BadRequest, RequestInv

LEMMA NoReplyYet ==
  /\ NoReply.status = 0 /\ NoReply.logs = <<>> /\ ~Given(NoReply.next_cursor)
  /\ NoReply.buckets = <<>> /\ Len(NoReply.logs) <= MAX_LIMIT
<1>1. MAX_LIMIT \in Nat
  BY QueriesAssumption, SMT
<1> QED BY <1>1 DEF NoReply, Given

\* Nothing is asked.
Idle ==
  /\ phase = "idle" /\ req = <<>> /\ got = <<>> /\ steady = {} /\ rows = <<>>
  /\ reply = NoReply /\ blind = FALSE

LEMMA IdleRequest == Idle => RequestInv
<1> SUFFICES ASSUME Idle
             PROVE  RequestInv
  OBVIOUS
<1>1. /\ phase # "read" /\ phase # "answered" /\ blind \in BOOLEAN
      /\ phase \in {"idle", "asked", "read", "answered"}
  BY Zenon DEF Idle
<1>2. reply.status # 200 /\ Len(reply.logs) <= MAX_LIMIT
  BY NoReplyYet DEF Idle
<1> QED BY <1>1, <1>2, Zenon DEF Idle, RequestInv

LEMMA RequestInit == Init => RequestInv
BY IdleRequest DEF Init, Idle

\* Nothing of the request changes.
LEMMA RequestStays ==
  ASSUME RequestInv, UNCHANGED <<phase, req, cursor, got, rows, reply, blind>>,
         known \subseteq known', steady' \subseteq steady
  PROVE  RequestInv'
<1>1. phase = "read" => ~BadRequest(req)' /\ ~impossible(req)'
  BY RefusalStays, NeverImpossibleLater DEF RequestInv
<1> QED BY <1>1 DEF RequestInv

LEMMA RequestStep ==
  ASSUME DataInv, RequestInv, PageInv, [Next]_vars
  PROVE  RequestInv'
<1>1. MAX_LIMIT \in Nat
  BY QueriesAssumption
<1>2. ASSUME NEW id \in RowIds, Arrive(id) \/ Reject(id)
      PROVE  RequestInv'
  <2>1. UNCHANGED <<phase, req, cursor, got, rows, reply, blind>> /\ known \subseteq known'
        /\ steady' \subseteq steady
    BY <1>2 DEF Arrive, Reject, walkVars
  <2> QED BY <2>1, RequestStays
<1>3. ASSUME NEW day \in OldDays, DropDay(day)
      PROVE  RequestInv'
  <2>1. UNCHANGED <<phase, req, cursor, got, rows, reply, blind>> /\ known \subseteq known'
        /\ steady' \subseteq steady
    BY <1>3 DEF DropDay
  <2> QED BY <2>1, RequestStays
<1>4. ASSUME NEW r \in Requests, Ask(r)
      PROVE  RequestInv'
  <2>1. /\ phase = "idle" /\ phase' = "asked" /\ req' = r
        /\ UNCHANGED <<got, steady, blind, rows, reply>>
    BY <1>4 DEF Ask
  <2>2. reply = NoReply /\ blind = FALSE /\ rows = <<>>
    BY <2>1 DEF RequestInv
  <2> QED BY <2>1, <2>2, NoReplyYet DEF RequestInv
<1>5. CASE AnswerBadRequest
  BY <1>1, <1>5 DEF AnswerBadRequest, Answer, RequestInv, walkVars, Given
<1>6. CASE AnswerImpossible
  <2>1. ~BadFilters(req) /\ (req.path = "aggregate" => ~BadAggregate(req))
    BY <1>6, ServedIsValid DEF AnswerImpossible
  <2> QED BY <1>1, <1>6, <2>1 DEF AnswerImpossible, Answer, RequestInv, Given
<1>7. CASE ReadLogs \/ ReadAggregate
  <2>1. /\ phase = "asked" /\ phase' = "read" /\ ~BadRequest(req) /\ ~impossible(req)
        /\ UNCHANGED <<req, cursor, got, reply, blind, known>>
    BY <1>7 DEF ReadLogs, ReadAggregate, walkVars
  <2>2. ~BadRequest(req)' /\ ~impossible(req)'
    BY <2>1, RefusalStays, NeverImpossibleLater
  <2> QED BY <2>1, <2>2 DEF RequestInv
<1>8. CASE ReplyLogs
  <2> DEFINE n == IF Len(rows) > Limit(req) THEN Limit(req) ELSE Len(rows)
  <2>1. phase = "read" /\ req.path = "logs" /\ ~BadRequest(req) /\ req \in Requests
    BY <1>8 DEF ReplyLogs, RequestInv
  <2>2. ~BadLimit(req) /\ ~BadFilters(req)
    BY <2>1, ServedIsValid
  <2>3. Limit(req) \in Nat /\ Limit(req) <= MAX_LIMIT
    BY <2>1, <2>2, LimitType
  <2>4. Len(rows) \in Nat
    BY <2>1 DEF PageInv
  <2>5. n \in Nat /\ n <= MAX_LIMIT
    BY <1>1, <2>3, <2>4
  <2>6. phase' = "answered" /\ reply'.status = 200 /\ Len(reply'.logs) = n /\ rows' = <<>>
        /\ UNCHANGED <<req, blind>>
    BY <1>8, <2>5 DEF ReplyLogs, Answer
  <2> HIDE DEF n
  <2>7. blind = FALSE
    BY <2>1 DEF RequestInv
  <2> QED BY <2>1, <2>2, <2>5, <2>6, <2>7 DEF RequestInv
<1>9. CASE ReplyAggregate
  <2>1. phase = "read" /\ req.path = "aggregate" /\ ~BadRequest(req) /\ req \in Requests
        /\ blind = FALSE
    BY <1>9 DEF ReplyAggregate, RequestInv
  <2>2. ~BadAggregate(req) /\ ~BadFilters(req)
    BY <2>1, ServedIsValid
  <2>3. phase' = "answered" /\ reply'.status = 200 /\ reply'.logs = <<>> /\ rows' = <<>>
        /\ UNCHANGED <<req, blind>>
    BY <1>9 DEF ReplyAggregate, Answer, walkVars
  <2> QED BY <1>1, <2>1, <2>2, <2>3 DEF RequestInv
<1>10. CASE StatementFails
  <2>1. req \in Requests /\ blind = FALSE
    BY <1>10 DEF StatementFails, RequestInv
  <2> QED BY <1>1, <1>10, <2>1 DEF StatementFails, Answer, RequestInv, walkVars
<1>11. CASE NextPage
  BY <1>11, NoReplyYet DEF NextPage, RequestInv
<1>12. CASE Finish
  <2>1. rows' = <<>>
    BY <1>12 DEF Finish, RequestInv
  <2>2. Idle'
    BY <1>12, <2>1 DEF Finish, Idle
  <2>3. (Idle => RequestInv)'
    BY IdleRequest, PTL
  <2> QED BY <2>2, <2>3
<1>13. CASE UNCHANGED vars
  <2>1. UNCHANGED <<phase, req, cursor, got, rows, reply, blind>> /\ known \subseteq known'
        /\ steady' \subseteq steady
    BY <1>13 DEF vars, walkVars
  <2> QED BY <2>1, RequestStays
<1> QED BY <1>2, <1>3, <1>4, <1>5, <1>6, <1>7, <1>8, <1>9, <1>10, <1>11, <1>12, <1>13
        DEF Next, Serve

-----------------------------------------------------------------------------
(* Queries: the page a statement reads.                                    *)

\* The rows a page may have, and the order it has them in.
Matching(r) == {row \in table : WHERE(row, r) /\ (Given(cursor) => Past(row, cursor[1]))}

PageOrder(S) == {pair \in S \X S : Newer(pair[1], pair[2])}

LEMMA PageOrderOrders ==
  ASSUME DataInv, NEW S, S \subseteq table
  PROVE  Orders(PageOrder(S), S)
<1>1. ASSUME NEW a \in S, NEW b \in S
      PROVE  <<a, b>> \in PageOrder(S) <=> Follows(a.id, b.id)
  <2>1. a = RowOf(a.id) /\ b = RowOf(b.id)
    BY DEF DataInv
  <2>2. Newer(a, b) <=> Follows(a.id, b.id)
    <3> DEFINE x == a.id
               y == b.id
    <3>1. a = RowOf(x) /\ b = RowOf(y)
      BY <2>1
    <3> HIDE DEF x, y
    <3>2. Newer(a, b) <=> Follows(x, y)
      BY <3>1 DEF Follows
    <3> QED BY <3>2 DEF x, y
  <2> QED BY <2>2 DEF PageOrder
<1>2. \A a, b \in S : <<a, b>> \in PageOrder(S) <=> Follows(a.id, b.id)
  BY <1>1
<1>3. \A a \in S : Taken(a.id) /\ a = RowOf(a.id)
  BY DEF DataInv
<1>4. \A a \in S : ~Follows(a.id, a.id)
  BY <1>3, FollowsIsOrder
<1>5. ASSUME NEW a \in S, NEW b \in S
      PROVE  a = b \/ Follows(a.id, b.id) \/ Follows(b.id, a.id)
  <2>1. a.id = b.id \/ Follows(a.id, b.id) \/ Follows(b.id, a.id)
    BY <1>3, FollowsIsOrder
  <2>2. a.id = b.id => a = b
    BY <1>3
  <2> QED BY <2>1, <2>2
<1>6. \A a, b, c \in S : Follows(a.id, b.id) /\ Follows(b.id, c.id) => Follows(a.id, c.id)
  BY <1>3, FollowsIsOrder
<1>7. \A a \in S : <<a, a>> \notin PageOrder(S)
  BY <1>2, <1>4
<1>8. \A a, b \in S : a = b \/ <<a, b>> \in PageOrder(S) \/ <<b, a>> \in PageOrder(S)
  BY <1>2, <1>5
<1>9. \A a, b, c \in S : <<a, b>> \in PageOrder(S) /\ <<b, c>> \in PageOrder(S)
                           => <<a, c>> \in PageOrder(S)
  BY <1>2, <1>6
<1> QED BY <1>7, <1>8, <1>9 DEF Orders

\* ORDER BY ts DESC, id DESC lists what WHERE lets through.
LEMMA OrderedPage ==
  ASSUME DataInv, NEW r
  PROVE  IsListing(InOrder(Matching(r), Newer), PageOrder(Matching(r)), Matching(r))
<1> DEFINE S == Matching(r)
           R == PageOrder(S)
           s == InOrder(S, Newer)
<1>1. S \subseteq table /\ IsFiniteSet(S)
  BY FS_Subset DEF Matching, DataInv
<1> HIDE DEF S
<1>2. Orders(R, S)
  BY <1>1, PageOrderOrders
<1>3. \A x \in S : {y \in S : Newer(y, x)} = Ahead(R, S, x)
  BY DEF Ahead, PageOrder
<1>4. s = [i \in 1..Cardinality(S) |->
             CHOOSE x \in S : Cardinality({y \in S : Newer(y, x)}) = i - 1]
  BY Zenon DEF InOrder
<1>5. ASSUME NEW i
      PROVE  (CHOOSE x \in S : Cardinality({y \in S : Newer(y, x)}) = i - 1)
               = (CHOOSE x \in S : Cardinality(Ahead(R, S, x)) = i - 1)
  <2> HIDE DEF R
  <2>1. \A x : x \in S /\ Cardinality({y \in S : Newer(y, x)}) = i - 1
               <=> x \in S /\ Cardinality(Ahead(R, S, x)) = i - 1
    BY <1>3
  <2> QED BY <2>1
<1>6. s = [i \in 1..Cardinality(S) |-> CHOOSE x \in S : Cardinality(Ahead(R, S, x)) = i - 1]
  BY <1>4, <1>5
<1> HIDE DEF R, s
<1>7. IsListing(s, R, S)
  BY <1>1, <1>2, <1>6, ChosenPlacesList
<1> QED BY <1>7 DEF s, R, S

LEMMA SelectedUnfolds ==
  ASSUME NEW r
  PROVE  LET ordered == InOrder(Matching(r), Newer)
         IN Selected(r) = SubSeq(ordered, 1, IF Len(ordered) <= Limit(r) THEN Len(ordered)
                                             ELSE Limit(r) + 1)
BY Zenon DEF Selected, Matching

\* The start of a listing.
LEMMA StartOfListing ==
  ASSUME NEW S, NEW s \in Seq(S), NEW limit \in Nat, NEW p,
         p = SubSeq(s, 1, IF Len(s) <= limit THEN Len(s) ELSE limit + 1)
  PROVE  /\ p \in Seq(S) /\ Len(p) <= limit + 1 /\ Len(p) <= Len(s)
         /\ \A i \in 1..Len(p) : p[i] = s[i]
         /\ Len(p) = Len(s) \/ Len(p) = limit + 1
<1> DEFINE n == IF Len(s) <= limit THEN Len(s) ELSE limit + 1
<1>1. n \in Nat /\ n <= Len(s) /\ n <= limit + 1 /\ (n = Len(s) \/ n = limit + 1)
  OBVIOUS
<1> HIDE DEF n
<1>2. p = SubSeq(s, 1, n)
  BY DEF n
<1>3. p \in Seq(S) /\ Len(p) = n /\ \A i \in 1..n : p[i] = s[i]
  BY <1>1, <1>2
<1> QED BY <1>1, <1>3

LEMMA PageRead ==
  ASSUME DataInv, RequestInv, ReadLogs
  PROVE  PageInv'
<1> DEFINE S == Matching(req)
           s == InOrder(S, Newer)
           limit == Limit(req)
           id(row) == row.id
<1>1. /\ req' = req /\ cursor' = cursor /\ snapshot' = Ids /\ rows' = Selected(req)
      /\ req.path = "logs" /\ ~BadRequest(req) /\ phase = "asked"
  BY DEF ReadLogs, Ids
<1>2. limit \in Nat
  BY <1>1, ServedIsValid, LimitType
<1>3. IsListing(s, PageOrder(S), S)
  BY OrderedPage
<1>4. rows' = SubSeq(s, 1, IF Len(s) <= limit THEN Len(s) ELSE limit + 1)
  BY <1>1, SelectedUnfolds
<1>5. /\ \A row \in S : row \in table /\ row.id \in Ids /\ row = RowOf(row.id)
      /\ \A row \in S : WHERE(row, req) /\ (Given(cursor) => Past(row, cursor[1]))
      /\ \A k \in Ids : Wanted(k) => RowOf(k) \in S
  <2>1. \A k \in Ids : RowOf(k) \in table
    BY IdsOfTable
  <2>2. \A row \in table : row.id \in Ids /\ row = RowOf(row.id)
    BY DEF Ids, DataInv
  <2> QED BY <2>1, <2>2 DEF Matching, Wanted
<1> HIDE DEF S, s, limit
<1>6. s \in Seq(S) /\ Len(s) \in Nat /\ (\A x \in S : \E i \in 1..Len(s) : s[i] = x)
      /\ \A i, j \in 1..Len(s) : i < j => Newer(s[i], s[j])
  <2>1. s \in Seq(S) /\ (\A x \in S : \E i \in 1..Len(s) : s[i] = x)
        /\ \A i, j \in 1..Len(s) : i < j <=> <<s[i], s[j]>> \in PageOrder(S)
    BY <1>3 DEF IsListing
  <2>2. \A i, j \in 1..Len(s) : i < j => Newer(s[i], s[j])
    BY <2>1 DEF PageOrder
  <2> QED BY <2>1, <2>2
<1> DEFINE p == rows'
           n == Len(p)
<1>7. /\ p \in Seq(S) /\ n <= limit + 1 /\ n <= Len(s)
      /\ \A i \in 1..n : p[i] = s[i]
      /\ n = Len(s) \/ n = limit + 1
  <2> HIDE DEF p
  <2> QED BY <1>2, <1>4, <1>6, StartOfListing DEF p
<1>8. n \in Nat /\ \A i \in 1..n : p[i] \in S /\ i \in 1..Len(s)
  <2> HIDE DEF p
  <2>1. p \in Seq(S) /\ n <= Len(s) /\ Len(s) \in Nat
    BY <1>6, <1>7
  <2>2. n \in Nat /\ \A i \in 1..n : p[i] \in S
    BY <2>1
  <2> HIDE DEF n
  <2>3. \A i \in 1..n : i \in 1..Len(s)
    BY <2>1, <2>2
  <2> QED BY <2>2, <2>3
<1> HIDE DEF p, n
<1>9. p \in Seq({RowOf(k) : k \in Ids})
  <2>1. \A row \in S : row \in {RowOf(k) : k \in Ids}
    BY <1>5
  <2>2. S \subseteq {RowOf(k) : k \in Ids}
    BY <2>1
  <2> QED BY <1>7, <2>2
<1>10. ASSUME NEW i \in 1..n
       PROVE  Wanted(p[i].id)
  <2>1. p[i] \in S /\ p[i] = RowOf(p[i].id)
    BY <1>5, <1>8
  <2> QED BY <1>5, <2>1 DEF Wanted
<1>11. \A i, j \in 1..n : i < j => Newer(p[i], p[j])
  BY <1>6, <1>7, <1>8
<1>12. ASSUME NEW k \in Ids, Wanted(k)
       PROVE  \/ \E i \in 1..n : p[i] = RowOf(k)
              \/ n = limit + 1 /\ Newer(p[n], RowOf(k))
  <2>1. PICK i \in 1..Len(s) : s[i] = RowOf(k)
    BY <1>5, <1>6, <1>12
  <2>2. CASE i <= n
    BY <1>7, <1>8, <2>1, <2>2
  <2>3. CASE i > n
    <3>1. n = limit + 1 /\ n \in 1..n /\ n \in 1..Len(s)
      BY <1>2, <1>6, <1>7, <1>8, <2>3
    <3>2. Newer(s[n], s[i]) /\ p[n] = s[n]
      BY <1>6, <1>7, <2>1, <2>3, <3>1
    <3> QED BY <2>1, <3>1, <3>2
  <2> QED BY <1>8, <2>2, <2>3
<1>13. \A k : Wanted(k)' <=> Wanted(k)
  BY <1>1 DEF Wanted
<1>14. Limit(req') = limit
  BY <1>1 DEF limit
<1> QED BY <1>1, <1>7, <1>9, <1>10, <1>11, <1>12, <1>13, <1>14 DEF PageInv, p, n

LEMMA PageStep ==
  ASSUME DataInv, RequestInv, PageInv, [Next]_vars
  PROVE  PageInv'
<1>1. CASE ReadLogs
  BY <1>1, PageRead
<1>2. CASE phase' = "read" /\ req'.path = "logs" /\ ~ReadLogs
  <2>1. UNCHANGED <<phase, req, cursor, rows, snapshot>>
    BY <1>2 DEF Next, Serve, AnswerBadRequest, AnswerImpossible, ReplyLogs, ReadAggregate,
                ReplyAggregate, StatementFails, NextPage, Finish, Ask, Answer, Arrive, Reject,
                DropDay, walkVars, vars
  <2>2. \A k : Wanted(k)' <=> Wanted(k)
    BY <2>1 DEF Wanted
  <2> QED BY <2>1, <2>2 DEF PageInv
<1>3. CASE ~(phase' = "read" /\ req'.path = "logs")
  BY <1>3 DEF PageInv
<1> QED BY <1>1, <1>2, <1>3

-----------------------------------------------------------------------------
(* Queries: the walk from page to page.                                    *)

\* A row is for this page if it is for the walk and comes after what was seen.
LEMMA WantedMeans ==
  ASSUME DataInv, RequestInv, WalkInv, phase \in {"asked", "read"}, req.path = "logs",
         ~BadRequest(req), NEW id, Taken(id)
  PROVE  Wanted(id) <=> Sought(id) /\ (got # <<>> => Follows(Last, id))
<1>1. req \in Requests
  BY DEF RequestInv
<1>2. CASE got = <<>>
  <2>1. cursor = req.cursor
    BY <1>2 DEF WalkInv
  <2> QED BY <1>2, <2>1 DEF Wanted, Sought
<1>3. CASE got # <<>>
  <2>1. cursor = <<encodeCursor(RowOf(Last))>>
    BY <1>3 DEF WalkInv
  <2>2. Len(got) \in 1..Len(got)
    BY <1>3 DEF WalkInv
  <2>3. Taken(Last) /\ Sought(Last)
    BY <2>2 DEF WalkInv, Last
  <2>4. Given(cursor) /\ cursor[1] = encodeCursor(RowOf(Last))
    BY <2>1 DEF Given
  <2>5. Past(RowOf(id), cursor[1]) <=> Follows(Last, id)
    <3>1. ~BadCursor(encodeCursor(RowOf(Last)))
      BY <2>4 DEF BadRequest
    <3> QED BY <2>3, <2>4, <3>1, CursorNames
  <2>6. ASSUME Follows(Last, id), Given(req.cursor)
        PROVE  Past(RowOf(id), req.cursor[1])
    <3>1. req.cursor[1] \in CursorTokens /\ ~BadCursor(req.cursor[1])
      BY <1>1, <1>3, <2>6, RequestsTyped DEF WalkInv, StartsWell
    <3>2. Past(RowOf(Last), req.cursor[1])
      BY <2>3, <2>6 DEF Sought
    <3> QED BY <2>3, <2>6, <3>1, <3>2, PastGoesOn
  <2>7. Wanted(id) <=> WHERE(RowOf(id), req) /\ Follows(Last, id)
    BY <2>4, <2>5 DEF Wanted
  <2> QED BY <1>3, <2>6, <2>7 DEF Sought
<1> QED BY <1>2, <1>3

\* The rows of the page that is answered, and the walk with them.
PageLen == IF Len(rows) > Limit(req) THEN Limit(req) ELSE Len(rows)
PageIds == [i \in 1..PageLen |-> rows[i].id]
Joined == got \o PageIds
End == Joined[Len(Joined)]

Reading ==
  /\ DataInv /\ RequestInv /\ WalkInv /\ PageInv
  /\ phase = "read" /\ req.path = "logs"

LEMMA PageFacts ==
  ASSUME Reading
  PROVE  /\ Limit(req) \in Nat /\ Limit(req) >= 1 /\ Len(rows) \in Nat
         /\ Len(rows) <= Limit(req) + 1
         /\ PageLen \in Nat /\ PageLen <= Len(rows) /\ PageLen <= Limit(req)
         /\ Len(rows) <= Limit(req) => PageLen = Len(rows)
         /\ Len(rows) > Limit(req) => PageLen = Limit(req)
<1>1. req \in Requests /\ ~BadLimit(req)
  BY ServedIsValid DEF Reading, RequestInv
<1>2. Limit(req) \in Nat /\ Limit(req) >= 1
  BY <1>1, LimitType
<1>3. Len(rows) \in Nat /\ Len(rows) <= Limit(req) + 1
  BY DEF Reading, PageInv
<1> QED BY <1>2, <1>3 DEF PageLen

LEMMA RowFacts ==
  ASSUME Reading, NEW i \in 1..Len(rows)
  PROVE  /\ rows[i].id \in snapshot /\ rows[i] = RowOf(rows[i].id) /\ Taken(rows[i].id)
         /\ Sought(rows[i].id) /\ (got # <<>> => Follows(Last, rows[i].id))
<1>1. rows[i] \in {RowOf(id) : id \in snapshot}
  BY DEF Reading, PageInv
<1>2. PICK id \in snapshot : rows[i] = RowOf(id)
  BY <1>1
<1>3. rows[i].id = id
  BY <1>2 DEF RowOf
<1>4. Taken(id)
  BY DEF Reading, DataInv
<1>5. Wanted(id)
  BY <1>3 DEF Reading, PageInv
<1>6. Sought(id) /\ (got # <<>> => Follows(Last, id))
  BY <1>4, <1>5, WantedMeans DEF Reading, RequestInv
<1> QED BY <1>2, <1>3, <1>4, <1>6

LEMMA RowsFollow ==
  ASSUME Reading, NEW i \in 1..Len(rows), NEW j \in 1..Len(rows), i < j
  PROVE  Follows(rows[i].id, rows[j].id)
<1> DEFINE x == rows[i].id
           y == rows[j].id
<1>1. rows[i] = RowOf(x) /\ rows[j] = RowOf(y)
  BY RowFacts
<1>2. Newer(rows[i], rows[j])
  BY DEF Reading, PageInv
<1> HIDE DEF x, y
<1>3. Follows(x, y)
  BY <1>1, <1>2 DEF Follows
<1> QED BY <1>3 DEF x, y

\* A row comes after all that was seen if it comes after the last.
LEMMA FollowsAll ==
  ASSUME WalkInv, NEW id, Taken(id), got # <<>>, Follows(Last, id), NEW i \in 1..Len(got)
  PROVE  Follows(got[i], id)
<1>1. Len(got) \in 1..Len(got) /\ i <= Len(got)
  BY DEF WalkInv
<1>2. Taken(got[i]) /\ Taken(Last)
  BY <1>1 DEF WalkInv, Last
<1>3. i = Len(got) \/ Follows(got[i], Last)
  BY <1>1 DEF WalkInv, Last
<1>4. i = Len(got) => got[i] = Last
  BY DEF Last
<1> QED BY <1>2, <1>3, <1>4, FollowsIsOrder

LEMMA JoinedParts ==
  ASSUME Reading
  PROVE  /\ Joined \in Seq(RowIds) /\ Len(Joined) = Len(got) + PageLen /\ Len(got) \in Nat
         /\ \A i \in 1..Len(got) : Joined[i] = got[i] /\ i \in 1..Len(Joined)
         /\ \A i \in 1..PageLen : Joined[Len(got) + i] = rows[i].id
                                  /\ Len(got) + i \in 1..Len(Joined)
<1>1. PageLen \in Nat /\ PageLen <= Len(rows) /\ Len(rows) \in Nat
  BY PageFacts
<1>2. ASSUME NEW i \in 1..PageLen
      PROVE  rows[i].id \in RowIds
  <2>1. i \in 1..Len(rows)
    BY <1>1
  <2> QED BY <2>1, RowFacts DEF Taken
<1>3. PageIds \in Seq(RowIds) /\ Len(PageIds) = PageLen
      /\ \A i \in 1..PageLen : PageIds[i] = rows[i].id
  BY <1>1, <1>2 DEF PageIds
<1>4. got \in Seq(RowIds) /\ Len(got) \in Nat
  BY DEF Reading, WalkInv
<1>5. /\ Joined \in Seq(RowIds) /\ Len(Joined) = Len(got) + PageLen
      /\ \A i \in 1..Len(got) : Joined[i] = got[i]
      /\ \A i \in 1..PageLen : Joined[Len(got) + i] = PageIds[i]
  <2>1. Joined \in Seq(RowIds) /\ Len(Joined) = Len(got) + PageLen
    BY <1>3, <1>4 DEF Joined
  <2>2. \A i \in 1..(Len(got) + PageLen) :
          Joined[i] = IF i <= Len(got) THEN got[i] ELSE PageIds[i - Len(got)]
    BY <1>3, <1>4 DEF Joined
  <2>3. \A i \in 1..Len(got) : Joined[i] = got[i]
    BY <1>1, <1>4, <2>2
  <2>4. ASSUME NEW i \in 1..PageLen
        PROVE  Joined[Len(got) + i] = PageIds[i]
    <3>1. /\ Len(got) + i \in 1..(Len(got) + PageLen) /\ ~(Len(got) + i <= Len(got))
          /\ (Len(got) + i) - Len(got) = i
      BY <1>1, <1>4
    <3> QED BY <2>2, <3>1
  <2> QED BY <2>1, <2>3, <2>4
<1> QED BY <1>1, <1>3, <1>4, <1>5

\* An element of the walk with the page is one seen before or a row of the page.
LEMMA JoinedCases ==
  ASSUME Reading, NEW k \in 1..Len(Joined)
  PROVE  \/ k \in 1..Len(got) /\ Joined[k] = got[k]
         \/ /\ k - Len(got) \in 1..PageLen /\ k - Len(got) \in 1..Len(rows)
            /\ Joined[k] = rows[k - Len(got)].id
<1>1. /\ Len(Joined) = Len(got) + PageLen /\ Len(got) \in Nat /\ PageLen \in Nat
      /\ PageLen <= Len(rows) /\ Len(rows) \in Nat
  BY JoinedParts, PageFacts
<1>2. CASE k <= Len(got)
  <2>1. k \in 1..Len(got)
    BY <1>1, <1>2
  <2> QED BY <2>1, JoinedParts
<1>3. CASE k > Len(got)
  <2>1. k - Len(got) \in 1..PageLen /\ k - Len(got) \in 1..Len(rows)
        /\ Len(got) + (k - Len(got)) = k
    BY <1>1, <1>3
  <2>2. Joined[Len(got) + (k - Len(got))] = rows[k - Len(got)].id
    BY <2>1, JoinedParts
  <2> QED BY <2>1, <2>2
<1> QED BY <1>1, <1>2, <1>3

LEMMA JoinedWalk ==
  ASSUME Reading
  PROVE  /\ \A k \in 1..Len(Joined) : Taken(Joined[k]) /\ Sought(Joined[k])
         /\ \A k, m \in 1..Len(Joined) : k < m => Follows(Joined[k], Joined[m])
<1>1. ASSUME NEW k \in 1..Len(Joined)
      PROVE  Taken(Joined[k]) /\ Sought(Joined[k])
  BY JoinedCases, RowFacts DEF Reading, WalkInv
<1>2. ASSUME NEW k \in 1..Len(Joined), NEW m \in 1..Len(Joined), k < m
      PROVE  Follows(Joined[k], Joined[m])
  <2> DEFINE x == k - Len(got)
             y == m - Len(got)
  <2>0. Len(got) \in Nat /\ k \in Nat /\ m \in Nat /\ Len(Joined) \in Nat
    BY JoinedParts, PageFacts
  <2>1. CASE m \in 1..Len(got) /\ Joined[m] = got[m]
    <3>1. k \in 1..Len(got)
      BY <1>2, <2>0, <2>1
    <3> QED BY <1>2, <2>1, <3>1, JoinedParts DEF Reading, WalkInv
  <2>2. CASE y \in 1..PageLen /\ y \in 1..Len(rows) /\ Joined[m] = rows[y].id
    <3>1. CASE k \in 1..Len(got) /\ Joined[k] = got[k]
      <4>1. got # <<>>
        BY <2>0, <3>1
      <4>2. Taken(rows[y].id) /\ Follows(Last, rows[y].id)
        BY <2>2, <4>1, RowFacts
      <4>3. Follows(got[k], rows[y].id)
        BY <3>1, <4>1, <4>2, FollowsAll DEF Reading
      <4> QED BY <2>2, <3>1, <4>3
    <3>2. CASE x \in 1..PageLen /\ x \in 1..Len(rows) /\ Joined[k] = rows[x].id
      <4>1. x < y
        BY <1>2, <2>0
      <4> HIDE DEF x, y
      <4> QED BY <2>2, <3>2, <4>1, RowsFollow
    <3> QED BY <3>1, <3>2, JoinedCases
  <2> QED BY <2>1, <2>2, JoinedCases
<1> QED BY <1>1, <1>2

\* The end of the walk so far: the last row of the page, or the one before the page.
LEMMA EndFacts ==
  ASSUME Reading
  PROVE  /\ Joined # <<>> => /\ Len(Joined) \in 1..Len(Joined) /\ Taken(End)
                             /\ \A k \in 1..Len(Joined) : Joined[k] = End \/ Follows(Joined[k], End)
         /\ got # <<>> => Joined # <<>> /\ (Last = End \/ Follows(Last, End))
         /\ Len(rows) > Limit(req) =>
              /\ Joined # <<>> /\ End = rows[Limit(req)].id /\ Limit(req) \in 1..Len(rows)
              /\ rows[Limit(req)] = RowOf(End)
<1>1. /\ Joined \in Seq(RowIds) /\ Len(Joined) = Len(got) + PageLen /\ Len(got) \in Nat
      /\ PageLen \in Nat /\ Len(rows) \in Nat /\ Limit(req) \in Nat /\ Limit(req) >= 1
      /\ (Len(rows) > Limit(req) => PageLen = Limit(req)) /\ got \in Seq(RowIds)
  BY JoinedParts, PageFacts DEF Reading, WalkInv
<1>2. ASSUME Joined # <<>>
      PROVE  /\ Len(Joined) \in 1..Len(Joined) /\ Taken(End)
             /\ \A k \in 1..Len(Joined) : Joined[k] = End \/ Follows(Joined[k], End)
  <2>1. Len(Joined) \in 1..Len(Joined)
    BY <1>1, <1>2
  <2>2. Taken(End)
    BY <2>1, JoinedWalk DEF End
  <2>3. ASSUME NEW k \in 1..Len(Joined)
        PROVE  Joined[k] = End \/ Follows(Joined[k], End)
    <3>1. k = Len(Joined) \/ k < Len(Joined)
      BY <1>1
    <3> QED BY <2>1, <3>1, JoinedWalk DEF End
  <2> QED BY <2>1, <2>2, <2>3
<1>3. ASSUME got # <<>>
      PROVE  Joined # <<>> /\ (Last = End \/ Follows(Last, End))
  <2>1. Len(got) \in 1..Len(got)
    BY <1>1, <1>3
  <2>2. Joined[Len(got)] = Last /\ Len(got) \in 1..Len(Joined)
    BY <2>1, JoinedParts DEF Last
  <2>3. Joined # <<>>
    BY <2>2
  <2> QED BY <1>2, <2>2, <2>3
<1>4. ASSUME Len(rows) > Limit(req)
      PROVE  /\ Joined # <<>> /\ End = rows[Limit(req)].id /\ Limit(req) \in 1..Len(rows)
             /\ rows[Limit(req)] = RowOf(End)
  <2>1. Limit(req) \in 1..Len(rows) /\ Limit(req) \in 1..PageLen /\ PageLen = Limit(req)
    BY <1>1, <1>4
  <2>2. Joined[Len(got) + Limit(req)] = rows[Limit(req)].id
        /\ Len(got) + Limit(req) \in 1..Len(Joined)
    BY <2>1, JoinedParts
  <2>3. End = rows[Limit(req)].id
    BY <1>1, <2>1, <2>2 DEF End
  <2>4. Joined # <<>>
    BY <2>2
  <2> QED BY <2>1, <2>3, <2>4, RowFacts
<1> QED BY <1>2, <1>3, <1>4

\* Every row of the snapshot that is sought and not yet behind is on the page, or comes
\* after it.
LEMMA RestOfWalk ==
  ASSUME Reading, NEW id \in snapshot, Sought(id),
         got # <<>> => Seen(id) \/ Follows(Last, id)
  PROVE  \/ \E k \in 1..Len(Joined) : Joined[k] = id
         \/ Len(rows) > Limit(req) /\ Follows(End, id)
<1>1. Taken(id)
  BY DEF Reading, DataInv
<1>2. CASE Seen(id)
  BY <1>2, JoinedParts DEF Seen
<1>3. CASE ~Seen(id)
  <2> DEFINE limit == Limit(req)
             m == Len(rows)
  <2>1. /\ limit \in Nat /\ limit >= 1 /\ m \in Nat /\ m <= limit + 1 /\ PageLen \in Nat
        /\ (m <= limit => PageLen = m) /\ (m > limit => PageLen = limit)
    BY PageFacts
  <2>2. Wanted(id)
    BY <1>1, <1>3, WantedMeans DEF Reading, RequestInv
  <2>3. \/ \E i \in 1..m : rows[i] = RowOf(id)
        \/ m = limit + 1 /\ Newer(rows[m], RowOf(id))
    BY <2>2 DEF Reading, PageInv
  <2>4. m > limit => /\ limit \in 1..m /\ m = limit + 1 /\ m \in 1..m
                     /\ Follows(End, rows[m].id) /\ Taken(End) /\ Taken(rows[m].id)
                     /\ rows[m] = RowOf(rows[m].id)
    <3> SUFFICES ASSUME m > limit
                 PROVE  /\ limit \in 1..m /\ m = limit + 1 /\ m \in 1..m
                        /\ Follows(End, rows[m].id) /\ Taken(End) /\ Taken(rows[m].id)
                        /\ rows[m] = RowOf(rows[m].id)
      OBVIOUS
    <3>1. limit \in 1..m /\ m = limit + 1 /\ m \in 1..m /\ limit < m
      BY <2>1
    <3>2. Follows(rows[limit].id, rows[m].id)
      BY <3>1, RowsFollow
    <3>3. End = rows[limit].id /\ Taken(End)
      BY EndFacts
    <3> QED BY <3>1, <3>2, <3>3, RowFacts
  <2>5. ASSUME NEW i \in 1..m, rows[i] = RowOf(id)
        PROVE  \/ \E k \in 1..Len(Joined) : Joined[k] = id
               \/ m > limit /\ Follows(End, id)
    <3>1. rows[i].id = id
      BY <2>5 DEF RowOf
    <3>2. CASE i \in 1..PageLen
      BY <3>1, <3>2, JoinedParts
    <3>3. CASE i \notin 1..PageLen
      <4>1. m > limit /\ i = m
        <5> HIDE DEF m, limit
        <5> QED BY <2>1, <3>3
      <4> QED BY <2>4, <3>1, <4>1
    <3> QED BY <3>2, <3>3
  <2>6. ASSUME m = limit + 1, Newer(rows[m], RowOf(id))
        PROVE  m > limit /\ Follows(End, id)
    <3>1. m > limit
      BY <2>1, <2>6
    <3> DEFINE x == rows[m].id
    <3>2. Follows(End, x) /\ Taken(End) /\ Taken(x) /\ rows[m] = RowOf(x)
      BY <2>4, <3>1
    <3> HIDE DEF x
    <3>3. Follows(x, id)
      BY <2>6, <3>2 DEF Follows
    <3> QED BY <1>1, <3>1, <3>2, <3>3, FollowsIsOrder
  <2> QED BY <2>3, <2>5, <2>6
<1> QED BY <1>2, <1>3

\* What answering a page changes.
LEMMA PageAnswered ==
  ASSUME Reading, ReplyLogs
  PROVE  /\ got' = Joined /\ phase' = "answered" /\ rows' = <<>> /\ reply'.status = 200
         /\ reply'.next_cursor = NextCursor(rows, Limit(req))
         /\ DOMAIN reply'.logs = 1..PageLen
         /\ \A i \in 1..PageLen :
              reply'.logs[i] = [id |-> rows[i].id, timestamp |-> formatMicrosIso(rows[i].ts),
                                level |-> codeToLevel(rows[i].level),
                                service |-> NameIn(known', rows[i].service_id)]
         /\ known' = Hydrated({rows[i].service_id : i \in 1..PageLen})
         /\ reply'.buckets = <<>>
         /\ UNCHANGED <<dataVars, req, cursor, steady, blind, snapshot>>
<1> DEFINE n == IF Len(rows) > Limit(req) THEN Limit(req) ELSE Len(rows)
           page == SubSeq(rows, 1, n)
<1>1. /\ phase' = "answered" /\ known' = Hydrated({page[i].service_id : i \in 1..n})
      /\ reply' = [status |-> 200,
                   logs |-> [i \in 1..n |-> [id |-> page[i].id,
                                             timestamp |-> formatMicrosIso(page[i].ts),
                                             level |-> codeToLevel(page[i].level),
                                             service |-> NameIn(known', page[i].service_id)]],
                   next_cursor |-> NextCursor(rows, Limit(req)), buckets |-> <<>>]
      /\ got' = got \o [i \in 1..n |-> page[i].id] /\ rows' = <<>>
      /\ UNCHANGED <<dataVars, req, cursor, steady, blind, snapshot>>
  BY DEF ReplyLogs, Answer
<1>2. n = PageLen
  BY DEF PageLen
<1>3. n \in Nat /\ n <= Len(rows)
  BY <1>2, PageFacts
<1>4. rows \in Seq({RowOf(id) : id \in snapshot})
  BY DEF Reading, PageInv
<1> HIDE DEF n
<1>5. \A i \in 1..n : page[i] = rows[i]
  BY <1>3, <1>4
<1> HIDE DEF page
<1>6. {page[i].service_id : i \in 1..n} = {rows[i].service_id : i \in 1..PageLen}
  BY <1>2, <1>5
<1>7. [i \in 1..n |-> page[i].id] = PageIds
  BY <1>2, <1>5 DEF PageIds
<1>8. /\ DOMAIN reply'.logs = 1..n /\ reply'.status = 200 /\ reply'.buckets = <<>>
      /\ reply'.next_cursor = NextCursor(rows, Limit(req))
      /\ \A i \in 1..n :
           reply'.logs[i] = [id |-> page[i].id, timestamp |-> formatMicrosIso(page[i].ts),
                             level |-> codeToLevel(page[i].level),
                             service |-> NameIn(known', page[i].service_id)]
  BY <1>1
<1> QED BY <1>1, <1>2, <1>5, <1>6, <1>7, <1>8 DEF Joined

\* The cursor of the answer names the end of the walk so far.
LEMMA NextNamesEnd ==
  ASSUME Reading
  PROVE  /\ Given(NextCursor(rows, Limit(req))) <=> Len(rows) > Limit(req)
         /\ Len(rows) > Limit(req) =>
              Joined # <<>> /\ NextCursor(rows, Limit(req)) = <<encodeCursor(RowOf(End))>>
<1>1. Len(rows) > Limit(req) =>
        /\ NextCursor(rows, Limit(req)) = <<encodeCursor(rows[Limit(req)])>>
        /\ Joined # <<>> /\ rows[Limit(req)] = RowOf(End)
  BY EndFacts DEF NextCursor
<1>2. ~(Len(rows) > Limit(req)) => NextCursor(rows, Limit(req)) = <<>>
  BY DEF NextCursor
<1> QED BY <1>1, <1>2 DEF Given

\* A walk that reads a page began with a cursor that was not refused, if with one.
LEMMA ReadsStartWell ==
  ASSUME RequestInv, WalkInv, phase = "read", req.path = "logs"
  PROVE  StartsWell(req)
<1>1. ~BadRequest(req)
  BY DEF RequestInv
<1>2. got = <<>> => cursor = req.cursor
  BY DEF WalkInv
<1> QED BY <1>1, <1>2 DEF WalkInv, BadRequest, StartsWell

LEMMA WalkInit == Init => WalkInv
<1> SUFFICES ASSUME Init
             PROVE  WalkInv
  OBVIOUS
<1>1. got = <<>> /\ phase = "idle" /\ ~Given(reply.next_cursor)
  BY NoReplyYet DEF Init
<1> QED BY <1>1 DEF WalkInv

\* Nothing of the walk changes.
LEMMA WalkStays ==
  ASSUME WalkInv, UNCHANGED <<req, got>>, registered \subseteq registered',
         phase' \in {"asked", "read"} => phase \in {"asked", "read"} /\ cursor' = cursor,
         Given(reply'.next_cursor) => reply' = reply
  PROVE  WalkInv'
<1>1. \A id : Taken(id) => Taken(id)'
  BY DEF Taken
<1>2. \A id : Sought(id)' <=> Sought(id)
  BY DEF Sought
<1>3. \A i \in 1..Len(got') : Taken(got[i])' /\ Sought(got[i])'
  BY <1>1, <1>2 DEF WalkInv
<1> QED BY <1>3 DEF WalkInv, Last

LEMMA WalkStep ==
  ASSUME DataInv, RequestInv, PageInv, WalkInv, [Next]_vars
  PROVE  WalkInv'
<1>1. ASSUME \/ UNCHANGED vars
             \/ \E id \in RowIds : Arrive(id) \/ Reject(id)
             \/ \E day \in OldDays : DropDay(day)
      PROVE  WalkInv'
  <2>1. UNCHANGED <<req, got, phase, cursor, reply>> /\ registered \subseteq registered'
    BY <1>1 DEF Arrive, Reject, DropDay, walkVars, vars, dataVars
  <2> QED BY <2>1, WalkStays
<1>2. ASSUME AnswerBadRequest \/ AnswerImpossible \/ StatementFails \/ ReplyAggregate
      PROVE  WalkInv'
  <2>1. UNCHANGED <<req, got, registered>> /\ phase' = "answered" /\ reply'.next_cursor = <<>>
    BY <1>2 DEF AnswerBadRequest, AnswerImpossible, StatementFails, ReplyAggregate, Answer,
                walkVars, dataVars
  <2> QED BY <2>1, WalkStays DEF Given
<1>3. ASSUME ReadLogs \/ ReadAggregate
      PROVE  WalkInv'
  <2>1. UNCHANGED <<req, got, registered, cursor, reply>> /\ phase = "asked"
    BY <1>3 DEF ReadLogs, ReadAggregate, walkVars, dataVars
  <2> QED BY <2>1, WalkStays
<1>4. ASSUME NEW r \in Requests, Ask(r)
      PROVE  WalkInv'
  <2>1. got = <<>> /\ got' = got /\ reply' = reply /\ reply = NoReply /\ cursor' = r.cursor
        /\ req' = r
    BY <1>4 DEF Ask, RequestInv
  <2>2. got' = <<>> /\ ~Given(reply'.next_cursor) /\ cursor' = req'.cursor
    BY <2>1, NoReplyYet
  <2> QED BY <2>2 DEF WalkInv
<1>5. ASSUME NextPage
      PROVE  WalkInv'
  <2>1. UNCHANGED <<req, got, registered>> /\ reply' = NoReply /\ cursor' = reply.next_cursor
        /\ Given(reply.next_cursor)
    BY <1>5 DEF NextPage, dataVars
  <2>2. \A id : Taken(id) => Taken(id)'
    BY <2>1 DEF Taken
  <2>3. \A id : Sought(id)' <=> Sought(id)
    BY <2>1 DEF Sought
  <2>4. \A i \in 1..Len(got') : Taken(got[i])' /\ Sought(got[i])'
    BY <2>1, <2>2, <2>3 DEF WalkInv
  <2>5. ~Given(reply'.next_cursor)
    BY <2>1, NoReplyYet
  <2> QED BY <2>1, <2>4, <2>5 DEF WalkInv, Last
<1>6. ASSUME Finish
      PROVE  WalkInv'
  <2>1. got' = <<>> /\ phase' = "idle" /\ ~Given(reply'.next_cursor)
    BY <1>6, NoReplyYet DEF Finish
  <2> QED BY <2>1 DEF WalkInv
<1>7. ASSUME ReplyLogs
      PROVE  WalkInv'
  <2>1. Reading
    BY <1>7 DEF Reading, ReplyLogs
  <2>2. /\ got' = Joined /\ phase' = "answered" /\ UNCHANGED <<registered, req>>
        /\ reply'.next_cursor = NextCursor(rows, Limit(req))
    BY <1>7, <2>1, PageAnswered DEF dataVars
  <2>3. \A id : Taken(id)' <=> Taken(id)
    BY <2>2 DEF Taken
  <2>4. \A id : Sought(id)' <=> Sought(id)
    BY <2>2 DEF Sought
  <2>5. Joined \in Seq(RowIds) /\ req'.path = "logs" /\ StartsWell(req')
    BY <2>1, <2>2, JoinedParts, ReadsStartWell DEF Reading
  <2>6. \A k \in 1..Len(got') : Taken(got[k])' /\ Sought(got[k])'
    BY <2>1, <2>2, <2>3, <2>4, JoinedWalk
  <2>7. \A k, m \in 1..Len(got') : k < m => Follows(got'[k], got'[m])
    BY <2>1, <2>2, JoinedWalk
  <2>8. Given(reply'.next_cursor) =>
          got' # <<>> /\ reply'.next_cursor = <<encodeCursor(RowOf(End))>>
    BY <2>1, <2>2, NextNamesEnd
  <2>9. Last' = End
    BY <2>2 DEF Last, End
  <2> QED BY <2>2, <2>5, <2>6, <2>7, <2>8, <2>9 DEF WalkInv
<1> QED BY <1>1, <1>2, <1>3, <1>4, <1>5, <1>6, <1>7 DEF Next, Serve

LEMMA KnownInit == Init => KnownInv
<1> SUFFICES ASSUME Init
             PROVE  KnownInv
  OBVIOUS
<1>1. got = <<>> /\ reply.status = 0
  BY NoReplyYet DEF Init
<1> QED BY <1>1 DEF KnownInv

LEMMA KnownStep ==
  ASSUME RequestInv, WalkInv, KnownInv, [Next]_vars
  PROVE  KnownInv'
<1>1. CASE Finish \/ \E r \in Requests : Ask(r)
  <2>1. got' = <<>> /\ reply' = NoReply
    BY <1>1 DEF Finish, Ask, RequestInv
  <2> QED BY <2>1, NoReplyYet DEF KnownInv
<1>2. CASE ~(Finish \/ \E r \in Requests : Ask(r))
  <2>1. known \subseteq known'
    BY DEF Hydrated, Next, Serve, Arrive, Reject, DropDay, Ask, AnswerBadRequest,
       AnswerImpossible, ReadLogs, ReplyLogs, ReadAggregate, ReplyAggregate, StatementFails,
       NextPage, Finish, vars
  <2>2. req' = req
    BY <1>2 DEF Next, Serve, Arrive, Reject, DropDay, AnswerBadRequest,
       AnswerImpossible, ReadLogs, ReplyLogs, ReadAggregate, ReplyAggregate, StatementFails,
       NextPage, vars, walkVars
  <2>3. (BadFilters(req)' <=> BadFilters(req)) /\ (~impossible(req) => ~impossible(req)')
    BY <2>1, <2>2, NeverImpossibleLater DEF BadFilters
  <2>4. CASE ReplyLogs \/ ReplyAggregate
    <3>1. ~BadFilters(req) /\ ~impossible(req)
      BY <2>4 DEF ReplyLogs, ReplyAggregate, RequestInv, BadRequest
    <3>2. req.path = "logs" => StartsWell(req)
      BY <2>4, ReadsStartWell DEF ReplyLogs, ReplyAggregate
    <3> QED BY <2>2, <2>3, <3>1, <3>2 DEF KnownInv
  <2>5. CASE ~(ReplyLogs \/ ReplyAggregate)
    <3>1. got' = got /\ (reply'.status = 200 /\ ~blind' => reply.status = 200 /\ ~blind)
      BY <1>2, <2>5, NoReplyYet
         DEF Next, Serve, Arrive, Reject, DropDay, AnswerBadRequest, Answer,
         AnswerImpossible, ReadLogs, ReadAggregate, StatementFails, NextPage, vars, walkVars
    <3> QED BY <2>2, <2>3, <3>1 DEF KnownInv
  <2> QED BY <2>4, <2>5
<1> QED BY <1>1, <1>2

LEMMA SteadyInit == Init => SteadyInv
BY DEF Init, SteadyInv

\* Nothing of the walk changes, but rows may be dropped.
LEMMA SteadyStays ==
  ASSUME SteadyInv, UNCHANGED <<req, got>>, steady' \subseteq steady, steady' \subseteq Ids',
         phase' = "read" => phase = "read" /\ snapshot' = snapshot
  PROVE  SteadyInv'
<1>1. \A id : (Sought(id)' <=> Sought(id)) /\ (Seen(id)' <=> Seen(id))
  BY DEF Sought, Seen
<1>2. Last' = Last
  BY DEF Last
<1>3. got # <<>> => \A id \in steady' : Sought(id) => Seen(id) \/ Follows(Last, id)
  BY DEF SteadyInv
<1>4. phase' = "read" /\ req'.path = "logs" => steady' \subseteq snapshot'
  BY DEF SteadyInv
<1> QED BY <1>1, <1>2, <1>3, <1>4 DEF SteadyInv

LEMMA SteadyStep ==
  ASSUME DataInv, RequestInv, PageInv, WalkInv, KnownInv, SteadyInv, [Next]_vars
  PROVE  SteadyInv'
<1>1. ASSUME UNCHANGED vars \/ \E id \in RowIds : Arrive(id) \/ Reject(id)
      PROVE  SteadyInv'
  <2>1. /\ UNCHANGED <<req, got, steady, phase, snapshot>> /\ table \subseteq table'
    BY <1>1 DEF Arrive, Reject, walkVars, vars, dataVars
  <2>2. steady' \subseteq Ids'
    BY <2>1 DEF SteadyInv, Ids
  <2> QED BY <2>1, <2>2, SteadyStays
<1>2. ASSUME NEW day \in OldDays, DropDay(day)
      PROVE  SteadyInv'
  <2> DEFINE ids == {row.id : row \in {r \in table : r.ts[1] = day}}
  <2>1. /\ table' = {row \in table : row.id \notin ids} /\ steady' = steady \ ids
        /\ UNCHANGED <<req, got, phase, snapshot>>
    BY <1>2 DEF DropDay
  <2> HIDE DEF ids
  <2>2. steady' \subseteq Ids'
    BY <2>1 DEF SteadyInv, Ids
  <2> QED BY <2>1, <2>2, SteadyStays
<1>3. ASSUME NEW r \in Requests, Ask(r)
      PROVE  SteadyInv'
  <2>1. got' = <<>> /\ steady' = {}
    BY <1>3 DEF Ask, RequestInv
  <2> QED BY <2>1 DEF SteadyInv
<1>4. ASSUME AnswerBadRequest \/ StatementFails \/ ReplyAggregate \/ NextPage
      PROVE  SteadyInv'
  <2>1. UNCHANGED <<req, got, steady, table>> /\ phase' # "read"
    BY <1>4 DEF AnswerBadRequest, StatementFails, ReplyAggregate, NextPage, Answer, walkVars,
                dataVars
  <2>2. steady' \subseteq Ids'
    BY <2>1 DEF SteadyInv, Ids
  <2> QED BY <2>1, <2>2, SteadyStays
<1>5. ASSUME AnswerImpossible
      PROVE  SteadyInv'
  <2>1. got' = <<>> /\ phase' = "answered" /\ steady' = Ids /\ Ids' = Ids
    BY <1>5 DEF AnswerImpossible, Answer, KnownInv, Ids, dataVars
  <2> QED BY <2>1 DEF SteadyInv
<1>6. ASSUME ReadLogs
      PROVE  SteadyInv'
  <2>1. /\ UNCHANGED <<req, got, table>> /\ snapshot' = Ids /\ phase = "asked"
        /\ steady' = IF got = <<>> THEN Ids ELSE steady
    BY <1>6 DEF ReadLogs, Ids, dataVars
  <2>2. Ids' = Ids
    BY <2>1 DEF Ids
  <2>3. steady' \subseteq Ids' /\ steady' \subseteq snapshot'
    BY <2>1, <2>2 DEF SteadyInv
  <2>4. CASE got = <<>>
    BY <2>1, <2>3, <2>4 DEF SteadyInv
  <2>5. CASE got # <<>>
    <3>1. \A id : (Sought(id)' <=> Sought(id)) /\ (Seen(id)' <=> Seen(id))
      BY <2>1 DEF Sought, Seen
    <3>2. Last' = Last
      BY <2>1 DEF Last
    <3>3. \A id \in steady' : Sought(id) => Seen(id) \/ Follows(Last, id)
      BY <2>1, <2>5 DEF SteadyInv
    <3> QED BY <2>3, <3>1, <3>2, <3>3 DEF SteadyInv
  <2> QED BY <2>4, <2>5
<1>7. ASSUME ReadAggregate
      PROVE  SteadyInv'
  <2>1. UNCHANGED <<req, got, steady, table>> /\ req.path = "aggregate" /\ req \in Requests
    BY <1>7 DEF ReadAggregate, walkVars, dataVars, RequestInv
  <2>2. got = <<>>
    BY <2>1 DEF WalkInv
  <2>3. steady' \subseteq Ids'
    BY <2>1 DEF SteadyInv, Ids
  <2> QED BY <2>1, <2>2, <2>3 DEF SteadyInv
<1>8. ASSUME Finish
      PROVE  SteadyInv'
  <2>1. got' = <<>> /\ steady' = {}
    BY <1>8 DEF Finish
  <2> QED BY <2>1 DEF SteadyInv
<1>9. ASSUME ReplyLogs
       PROVE  SteadyInv'
  <2>1. Reading
    BY <1>9 DEF Reading, ReplyLogs
  <2>2. /\ got' = Joined /\ phase' = "answered" /\ UNCHANGED <<table, req, steady>>
    BY <1>9, <2>1, PageAnswered DEF dataVars
  <2>3. steady' \subseteq Ids'
    BY <2>2 DEF SteadyInv, Ids
  <2>4. ASSUME NEW id \in steady', Sought(id)'
        PROVE  Seen(id)' \/ Follows(Last', id)
    <3>1. id \in snapshot /\ Sought(id) /\ (got # <<>> => Seen(id) \/ Follows(Last, id))
      BY <2>1, <2>2, <2>4 DEF SteadyInv, Reading, Sought
    <3>2. (\E k \in 1..Len(Joined) : Joined[k] = id) \/ Follows(End, id)
      BY <2>1, <3>1, RestOfWalk
    <3> QED BY <2>2, <3>2 DEF Seen, Last, End
  <2> QED BY <2>2, <2>3, <2>4 DEF SteadyInv
<1> QED BY <1>1, <1>2, <1>3, <1>4, <1>5, <1>6, <1>7, <1>8, <1>9 DEF Next, Serve

-----------------------------------------------------------------------------
(* Queries: what the answer says of the rows still to come.                *)

LEMMA EndInit == Init => EndInv
BY DEF Init, EndInv, Served

\* The row read beyond a page is still to come.
LEMMA BeyondThePage ==
  ASSUME Reading, Len(rows) > Limit(req)
  PROVE  \E id \in snapshot : /\ Sought(id) /\ Follows(End, id)
                              /\ \A k \in 1..Len(Joined) : Joined[k] # id
<1> DEFINE m == Len(rows)
           id == rows[m].id
<1>1. Limit(req) \in 1..m /\ m \in 1..m /\ Limit(req) < m
  <2> HIDE DEF m
  <2> QED BY PageFacts DEF m
<1>2. id \in snapshot /\ Sought(id) /\ Taken(id)
  BY <1>1, RowFacts
<1>3. Follows(rows[Limit(req)].id, id)
  BY <1>1, RowsFollow
<1>4. /\ Joined # <<>> /\ End = rows[Limit(req)].id /\ Taken(End)
      /\ \A k \in 1..Len(Joined) : Joined[k] = End \/ Follows(Joined[k], End)
  BY EndFacts
<1> HIDE DEF id
<1>5. Follows(End, id)
  BY <1>3, <1>4
<1>6. ASSUME NEW k \in 1..Len(Joined)
      PROVE  Joined[k] # id
  <2>1. Taken(Joined[k])
    BY JoinedWalk
  <2>2. Follows(Joined[k], id)
    BY <1>2, <1>4, <1>5, <2>1, FollowsIsOrder
  <2> QED BY <1>2, <2>2, FollowsIsOrder
<1> QED BY <1>2, <1>5, <1>6

LEMMA EndStep ==
  ASSUME DataInv, RequestInv, PageInv, WalkInv, SteadyInv, EndInv, [Next]_vars
  PROVE  EndInv'
<1>1. ASSUME \/ UNCHANGED vars
             \/ \E id \in RowIds : Arrive(id) \/ Reject(id)
             \/ \E day \in OldDays : DropDay(day)
      PROVE  EndInv'
  <2>1. UNCHANGED <<phase, req, got, reply, blind, snapshot>> /\ steady' \subseteq steady
    BY <1>1 DEF Arrive, Reject, DropDay, walkVars, vars
  <2>2. \A id : (Sought(id)' <=> Sought(id)) /\ (Seen(id)' <=> Seen(id))
    BY <2>1 DEF Sought, Seen
  <2>3. Last' = Last /\ (Served' <=> Served)
    BY <2>1 DEF Last, Served
  <2> QED BY <2>1, <2>2, <2>3 DEF EndInv
<1>2. ASSUME ReplyLogs
      PROVE  EndInv'
  <2>1. Reading
    BY <1>2 DEF Reading, ReplyLogs
  <2>2. /\ got' = Joined /\ UNCHANGED <<req, steady, snapshot>>
        /\ reply'.next_cursor = NextCursor(rows, Limit(req))
    BY <1>2, <2>1, PageAnswered
  <2>3. Given(reply'.next_cursor) <=> Len(rows) > Limit(req)
    BY <2>1, <2>2, NextNamesEnd
  <2>4. \A id : (Sought(id)' <=> Sought(id))
                /\ (Seen(id)' <=> \E k \in 1..Len(Joined) : Joined[k] = id)
    BY <2>2 DEF Sought, Seen
  <2>5. Last' = End
    BY <2>2 DEF Last, End
  <2>6. ASSUME ~(Len(rows) > Limit(req)), NEW id \in steady, Sought(id)
        PROVE  \E k \in 1..Len(Joined) : Joined[k] = id
    <3>1. id \in snapshot /\ (got # <<>> => Seen(id) \/ Follows(Last, id))
      BY <2>1, <2>6 DEF SteadyInv, Reading
    <3> QED BY <2>1, <2>6, <3>1, RestOfWalk
  <2>7. ASSUME NEW id \in snapshot, Sought(id), Joined # <<>> => Follows(End, id),
               \A k \in 1..Len(Joined) : Joined[k] # id
        PROVE  Len(rows) > Limit(req)
    <3>1. got # <<>> => Follows(Last, id)
      <4> SUFFICES ASSUME got # <<>>
                   PROVE  Follows(Last, id)
        OBVIOUS
      <4>1. Joined # <<>> /\ (Last = End \/ Follows(Last, End)) /\ Taken(End)
        BY <2>1, EndFacts
      <4>2. Taken(Last) /\ Taken(id)
        <5>1. Len(got) \in 1..Len(got)
          BY DEF WalkInv
        <5> QED BY <5>1 DEF WalkInv, DataInv, Last
      <4> QED BY <2>7, <4>1, <4>2, FollowsIsOrder
    <3> QED BY <2>1, <2>7, <3>1, RestOfWalk
  <2>8. Len(rows) > Limit(req) =>
          \E id \in snapshot : /\ Sought(id) /\ Follows(End, id)
                               /\ \A k \in 1..Len(Joined) : Joined[k] # id
    BY <2>1, BeyondThePage
  <2>9. ~Given(reply'.next_cursor) => \A id \in steady' : Sought(id)' => Seen(id)'
    BY <2>2, <2>3, <2>4, <2>6
  <2>10. Given(reply'.next_cursor) <=>
           \E id \in snapshot' : /\ Sought(id)' /\ ~Seen(id)'
                                 /\ got' # <<>> => Follows(Last', id)
    BY <2>2, <2>3, <2>4, <2>5, <2>7, <2>8
  <2> QED BY <2>9, <2>10 DEF EndInv
<1>3. ASSUME \/ AnswerBadRequest \/ AnswerImpossible \/ ReadLogs \/ ReadAggregate
             \/ ReplyAggregate \/ StatementFails \/ NextPage \/ Finish
             \/ \E r \in Requests : Ask(r)
      PROVE  EndInv'
  <2>1. CASE AnswerBadRequest \/ StatementFails
    BY <2>1 DEF AnswerBadRequest, StatementFails, Answer, EndInv, Served
  <2>2. CASE AnswerImpossible
    BY <2>2 DEF AnswerImpossible, EndInv, Served
  <2>3. CASE ReplyAggregate
    BY <2>3 DEF ReplyAggregate, walkVars, EndInv, Served
  <2>4. CASE ReadLogs \/ ReadAggregate \/ NextPage \/ Finish \/ \E r \in Requests : Ask(r)
    BY <2>4 DEF ReadLogs, ReadAggregate, NextPage, Finish, Ask, EndInv, Served
  <2> QED BY <1>3, <2>1, <2>2, <2>3, <2>4
<1> QED BY <1>1, <1>2, <1>3 DEF Next, Serve

-----------------------------------------------------------------------------
(* Queries: what the properties say, in the words of the invariant.        *)

AllReadAsWritten ==
  /\ \A text \in Texts : ReadAsWritten(text)
  /\ \A id \in RowIds : KeptAsRead(Entries[id].timestamp)

LEMMA TextsRead ==
  ASSUME AllReadAsWritten, NEW text \in Texts
  PROVE  Denotation[text] = Parsed[text]
<1>1. text \in TextParts /\ ReadAsWritten(text)
  BY TextsTyped DEF AllReadAsWritten
<1> QED BY <1>1, ReadsRight DEF Denotation, Parsed

LEMMA TruthIsRow ==
  ASSUME AllReadAsWritten, NEW id, Taken(id)
  PROVE  Truth(id) = RowOf(id).ts /\ Truth(id) \in Instants
<1> DEFINE text == Entries[id].timestamp
<1>1. text \in Texts /\ Parsed[text] # Null /\ id \in RowIds
  BY EntriesTyped DEF Taken, Acceptable
<1>2. Parsed[text] = Denotation[text] /\ Denotation[text] = Denoted(text)
  BY <1>1, TextsRead DEF Denotation
<1>3. PgTimestamp(Parsed[text]) = Parsed[text]
  BY <1>1, <1>2 DEF AllReadAsWritten, KeptAsRead
<1> QED BY <1>2, <1>3, RowTyped DEF Truth

\* The ends of a range that is not refused.
LEMMA RangeRead ==
  ASSUME AllReadAsWritten, NEW r \in Requests, ~BadFilters(r)
  PROVE  /\ Given(r.since) => /\ Instant(r.since) \in Instants
                              /\ Instant(r.since) = Denotation[r.since[1]]
                              /\ formatMicrosPgLiteral(Instant(r.since)) = Instant(r.since)
         /\ Given(r.until) => /\ Instant(r.until) \in Instants
                              /\ Instant(r.until) = Denotation[r.until[1]]
                              /\ formatMicrosPgLiteral(Instant(r.until)) = Instant(r.until)
<1>1. (Given(r.since) => Instant(r.since) # Null) /\ (Given(r.until) => Instant(r.until) # Null)
  BY DEF BadFilters
<1>2. /\ Given(r.since) => r.since[1] \in Texts
      /\ Given(r.until) => r.until[1] \in Texts
  BY RequestsTyped
<1>3. /\ Given(r.since) => Instant(r.since) \in Instants
      /\ Given(r.until) => Instant(r.until) \in Instants
  BY <1>1, <1>2, ParsedIsInstant DEF Instant
<1>4. /\ Given(r.since) => Instant(r.since) = Denotation[r.since[1]]
      /\ Given(r.until) => Instant(r.until) = Denotation[r.until[1]]
  BY <1>2, TextsRead DEF Instant
<1>5. ASSUME NEW text \in Texts, Denotation[text] \in Instants
      PROVE  formatMicrosPgLiteral(Denotation[text]) = Denotation[text]
  <2>1. Denoted(text) = Denotation[text] /\ Denoted(text) # Null
    BY <1>5, InstantParts DEF Denotation
  <2>2. Rounding(Milliseconds(Denotation[text])) = 0
    BY <2>1 DEF AllReadAsWritten, ReadAsWritten, Held
  <2> QED BY <1>5, <2>2, LiteralIsExact
<1> QED BY <1>2, <1>3, <1>4, <1>5

\* The statement's WHERE picks the rows of the entries that the request means.
LEMMA WhereMeans ==
  ASSUME AllReadAsWritten, DataInv, NEW r \in Requests, ~BadFilters(r), ~impossible(r),
         NEW id, Taken(id)
  PROVE  WHERE(RowOf(id), r) <=>
           LET e == Entries[id]
           IN /\ Given(r.since) => ~Before(Truth(id), Denotation[r.since[1]])
              /\ Given(r.until) => Before(Truth(id), Denotation[r.until[1]])
              /\ Given(r.service) => e.service = r.service[1]
              /\ Given(r.level) => e.level = r.level[1]
              /\ r.attributes \subseteq e.attributes
              /\ Given(r.q) => r.q[1] \in e.words
<1> DEFINE row == RowOf(id)
           e == Entries[id]
<1>1. /\ id \in RowIds /\ e.level \in {"debug", "info", "warn", "error"} /\ e.service \in Services
  BY EntriesTyped DEF Taken
<1>2. /\ row.id = id /\ row.ts = Truth(id) /\ row.service_id = ServiceIds[e.service]
      /\ row.level = levelToCode(e.level)
  BY RowTyped, TruthIsRow
<1>3. Given(r.service) => r.service[1] \in Services
  BY DEF impossible, DataInv
<1>4. Given(r.service) => (row.service_id = ServiceIds[r.service[1]] <=> e.service = r.service[1])
  BY <1>1, <1>2, <1>3, QueriesAssumption DEF Services
<1>5. Given(r.level) => levelToCode(r.level[1]) # INVALID_LEVEL
  BY DEF BadFilters
<1>6. Given(r.level) => (row.level = levelToCode(r.level[1]) <=> e.level = r.level[1])
  BY <1>1, <1>2, <1>5, LevelMeans
<1>7. /\ Given(r.since) => formatMicrosPgLiteral(Instant(r.since)) = Denotation[r.since[1]]
      /\ Given(r.until) => formatMicrosPgLiteral(Instant(r.until)) = Denotation[r.until[1]]
  BY RangeRead
<1> HIDE DEF row
<1>8. WHERE(row, r) <=>
        /\ Given(r.since) => ~Before(Truth(id), Denotation[r.since[1]])
        /\ Given(r.until) => Before(Truth(id), Denotation[r.until[1]])
        /\ Given(r.service) => e.service = r.service[1]
        /\ Given(r.level) => e.level = r.level[1]
        /\ r.attributes \subseteq e.attributes
        /\ Given(r.q) => r.q[1] \in e.words
  BY <1>2, <1>4, <1>6, <1>7 DEF WHERE, MatchesTerm
<1> QED BY <1>8 DEF row

LEMMA SoughtMeans ==
  ASSUME AllReadAsWritten, DataInv, req \in Requests, req.path = "logs", ~BadFilters(req),
         ~impossible(req), StartsWell(req), NEW id, Taken(id)
  PROVE  Sought(id) <=> Meant(req, id)
<1> DEFINE token == req.cursor[1]
<1>1. Given(req.cursor) => token \in CursorTokens
  BY RequestsTyped
<1>2. Given(req.cursor) => formatMicrosPgLiteral(token.t) = token.t
  <2>1. Given(req.cursor) => token.t \in Instants /\ isSafeInteger(token.t)
    BY <1>1 DEF CursorTokens, StartsWell, BadCursor, isSafeInteger
  <2> QED BY <2>1, LiteralOfSafe
<1>3. RowOf(id).ts = Truth(id) /\ RowOf(id).id = id
  BY TruthIsRow, RowTyped
<1>4. Given(req.cursor) => (Past(RowOf(id), token) <=> After(id, token.t, token.i))
  BY <1>2, <1>3 DEF Past, After
<1> QED BY <1>4, WhereMeans DEF Sought, Meant

LEMMA FollowsMeans ==
  ASSUME AllReadAsWritten, NEW x, NEW y, Taken(x), Taken(y)
  PROVE  Follows(x, y) <=> After(y, Truth(x), x)
<1>1. /\ RowOf(x).ts = Truth(x) /\ RowOf(y).ts = Truth(y) /\ RowOf(x).id = x /\ RowOf(y).id = y
      /\ x \in Nat /\ y \in Nat
  BY TruthIsRow, RowTyped
<1> QED BY <1>1 DEF Follows, Newer, After

Inv ==
  /\ DataInv /\ RequestInv /\ PageInv /\ WalkInv /\ KnownInv /\ SteadyInv /\ EndInv

LEMMA InvInit == Init => Inv
<1>1. Init => PageInv
  BY DEF Init, PageInv
<1> QED BY <1>1, DataInit, RequestInit, WalkInit, KnownInit, SteadyInit, EndInit DEF Inv

LEMMA InvStep == Inv /\ [Next]_vars => Inv'
BY DataStep, RequestStep, PageStep, WalkStep, KnownStep, SteadyStep, EndStep DEF Inv

LEMMA InvHolds == Spec => []Inv
BY InvInit, InvStep, PTL DEF Spec

LEMMA InvType == Inv => TypeOK
<1> SUFFICES ASSUME Inv
             PROVE  TypeOK
  OBVIOUS
<1>1. DataInv /\ RequestInv /\ SteadyInv
  BY DEF Inv
<1>2. table \subseteq [id: RowIds, ts: Instants,
                       service_id: {ServiceIds[n] : n \in Services}, level: 0..3]
  BY <1>1, RowTyped DEF DataInv
<1>3. \A row, other \in table : row.id = other.id => row = other
  BY <1>1 DEF DataInv
<1>4. /\ gone \subseteq RowIds /\ refused \subseteq RowIds
      /\ registered \subseteq Services /\ known \subseteq registered
      /\ snapshot \subseteq RowIds
  BY <1>1 DEF DataInv, Taken
<1>5. steady \subseteq RowIds
  BY <1>1, IdsOfTable DEF SteadyInv, Taken
<1>6. req \in Requests \cup {<<>>} /\ (req = <<>> <=> phase = "idle")
  BY <1>1, RequestsTyped DEF RequestInv
<1>7. phase = "answered" => reply.status \in {200, 400, 500, 503}
  BY <1>1 DEF RequestInv
<1>8. phase # "answered" => reply.status = 0
  BY <1>1, NoReplyYet DEF RequestInv
<1>9. reply.status \in {0, 200, 400, 500, 503} /\ (reply.status # 0 <=> phase = "answered")
  BY <1>7, <1>8
<1>10. /\ phase \in {"idle", "asked", "read", "answered"} /\ Len(reply.logs) <= MAX_LIMIT
       /\ blind \in BOOLEAN
  BY <1>1 DEF RequestInv
<1> QED BY <1>2, <1>3, <1>4, <1>5, <1>6, <1>9, <1>10 DEF TypeOK

LEMMA InvTimes == AllReadAsWritten /\ Inv => TimesReadRight
<1> SUFFICES ASSUME AllReadAsWritten, Inv
             PROVE  TimesReadRight
  OBVIOUS
<1>1. DataInv /\ RequestInv
  BY DEF Inv
<1>2. ASSUME NEW row \in table
      PROVE  row.ts = Truth(row.id)
  BY <1>1, TruthIsRow DEF DataInv
<1>3. ASSUME NEW id \in refused
      PROVE  Truth(id) = Null \/ Before(At(Now[1], Now[2] + Skew, Now[3]), Truth(id))
  <2>1. id \in RowIds /\ ~Acceptable(Entries[id])
    BY <1>1 DEF DataInv
  <2>2. Truth(id) = Parsed[Entries[id].timestamp]
    BY <2>1, EntriesTyped, TextsRead DEF Truth
  <2> QED BY <2>1, <2>2 DEF Acceptable
<1>4. ASSUME phase # "idle", reply.status = 200
      PROVE  RangeMakesSense(req)
  <2>1. req \in Requests /\ ~BadFilters(req)
    BY <1>1, <1>4 DEF RequestInv
  <2>2. /\ Given(req.since) => Instant(req.since) = Denotation[req.since[1]]
                               /\ Instant(req.since) # Null
        /\ Given(req.until) => Instant(req.until) = Denotation[req.until[1]]
                               /\ Instant(req.until) # Null
    BY <2>1, RangeRead DEF BadFilters
  <2>3. Given(req.since) /\ Given(req.until) => ~Before(Instant(req.until), Instant(req.since))
    BY <2>1, <2>2 DEF BadFilters, HasRange
  <2> QED BY <2>2, <2>3 DEF RangeMakesSense
<1> QED BY <1>2, <1>3, <1>4 DEF TimesReadRight

LEMMA InvDescend == AllReadAsWritten /\ Inv => PagesDescend
<1> SUFFICES ASSUME AllReadAsWritten, Inv
             PROVE  PagesDescend
  OBVIOUS
<1>1. DataInv /\ RequestInv /\ WalkInv /\ KnownInv
  BY DEF Inv
<1>2. Len(got) \in Nat /\ DOMAIN got = 1..Len(got)
  BY <1>1 DEF WalkInv
<1>3. ASSUME NEW i \in 1..Len(got) - 1
      PROVE  After(got[i + 1], Truth(got[i]), got[i])
  <2>1. i \in 1..Len(got) /\ i + 1 \in 1..Len(got) /\ i < i + 1
    BY <1>2
  <2>2. Follows(got[i], got[i + 1]) /\ Taken(got[i]) /\ Taken(got[i + 1])
    BY <1>1, <2>1 DEF WalkInv
  <2> QED BY <2>2, FollowsMeans
<1>4. ASSUME NEW i \in 1..Len(got)
      PROVE  Meant(req, got[i])
  <2>1. got # <<>>
    BY <1>2
  <2>2. req.path = "logs" /\ Taken(got[i]) /\ Sought(got[i]) /\ ~BadFilters(req) /\ ~impossible(req)
        /\ StartsWell(req)
    BY <1>1, <2>1 DEF WalkInv, KnownInv
  <2>3. req \in Requests
    BY <1>1, <2>1 DEF RequestInv
  <2> QED BY <1>1, <2>2, <2>3, SoughtMeans
<1> QED BY <1>2, <1>3, <1>4 DEF PagesDescend

\* What a walk that was served sought is what its request means.
LEMMA ServedMeans ==
  ASSUME AllReadAsWritten, Inv, Served, NEW id, Taken(id)
  PROVE  Sought(id) <=> Meant(req, id)
<1>1. /\ DataInv /\ req \in Requests /\ req.path = "logs" /\ ~BadFilters(req)
      /\ ~impossible(req) /\ StartsWell(req)
  BY DEF Inv, Served, RequestInv, KnownInv
<1> QED BY <1>1, SoughtMeans

LEMMA InvMissed == AllReadAsWritten /\ Inv => NothingMissed
<1> SUFFICES ASSUME AllReadAsWritten, Inv, Served, ~Given(reply.next_cursor),
                    NEW id \in steady, Meant(req, id)
             PROVE  \E i \in DOMAIN got : got[i] = id
  BY DEF NothingMissed, Served
<1>1. Taken(id)
  BY IdsOfTable DEF Inv, SteadyInv
<1>2. Sought(id)
  BY <1>1, ServedMeans
<1>3. Seen(id)
  BY <1>2 DEF Inv, EndInv
<1>4. DOMAIN got = 1..Len(got)
  BY DEF Inv, WalkInv
<1> QED BY <1>3, <1>4 DEF Seen

LEMMA InvEnd == AllReadAsWritten /\ Inv => NullExactlyAtEnd
<1> SUFFICES ASSUME AllReadAsWritten, Inv, Served
             PROVE  Given(reply.next_cursor) <=>
                      {id \in snapshot : /\ Meant(req, id)
                                         /\ \A i \in DOMAIN got : got[i] # id
                                         /\ got # <<>> => LET last == got[Len(got)]
                                                          IN After(id, Truth(last), last)} # {}
  BY Zenon DEF NullExactlyAtEnd, Served
<1>1. DOMAIN got = 1..Len(got) /\ (got # <<>> => Len(got) \in 1..Len(got))
  BY DEF Inv, WalkInv
<1>2. ASSUME NEW id \in snapshot
      PROVE  /\ Sought(id) <=> Meant(req, id)
             /\ Seen(id) <=> \E i \in DOMAIN got : got[i] = id
             /\ got # <<>> => (Follows(Last, id) <=> After(id, Truth(Last), Last))
  <2>1. Taken(id)
    BY DEF Inv, DataInv
  <2>2. got # <<>> => Taken(Last)
    BY <1>1 DEF Inv, WalkInv, Last
  <2> QED BY <1>1, <2>1, <2>2, ServedMeans, FollowsMeans DEF Seen
<1>3. Given(reply.next_cursor) <=>
        \E id \in snapshot : /\ Sought(id) /\ ~Seen(id)
                             /\ got # <<>> => Follows(Last, id)
  BY DEF Inv, EndInv
<1> QED BY <1>2, <1>3 DEF Last

-----------------------------------------------------------------------------
(* Queries: names.                                                         *)

LEMMA NamesDiffer ==
  ASSUME NEW n \in Services, NEW m \in Services, ServiceIds[n] = ServiceIds[m]
  PROVE  n = m
BY QueriesAssumption DEF Services

\* An id that a dictionary has gets the name that was registered with it.
LEMMA NameFound ==
  ASSUME NEW names \in SUBSET Services, NEW n \in names
  PROVE  NameIn(names, ServiceIds[n]) = n
<1> DEFINE id == ServiceIds[n]
           m == CHOOSE k \in names : ServiceIds[k] = id
<1>1. \E k \in names : ServiceIds[k] = id
  OBVIOUS
<1>2. m \in names /\ ServiceIds[m] = id
  BY <1>1, Zenon
<1>3. NameIn(names, id) = m
  BY <1>1, Zenon DEF NameIn
<1> HIDE DEF m
<1>4. m = n
  BY <1>2, NamesDiffer
<1> QED BY <1>3, <1>4

\* What is hydrated has the names of the ids asked for.
LEMMA HydratedNames ==
  ASSUME DataInv, NEW ids, NEW id, Taken(id), ServiceIds[Entries[id].service] \in ids
  PROVE  /\ Hydrated(ids) \in SUBSET Services
         /\ NameIn(Hydrated(ids), ServiceIds[Entries[id].service]) = Entries[id].service
<1>1. Hydrated(ids) \in SUBSET Services
  BY HydratedIsRegistered DEF DataInv
<1>2. Entries[id].service \in Hydrated(ids)
  BY DEF Hydrated, Taken
<1> QED BY <1>1, <1>2, NameFound

LEMMA NamesInit == Init => NamesAreTrue
<1> SUFFICES ASSUME Init
             PROVE  NamesAreTrue
  OBVIOUS
<1>1. reply.logs = <<>> /\ reply.buckets = <<>>
  BY NoReplyYet DEF Init
<1> QED BY <1>1 DEF NamesAreTrue

-----------------------------------------------------------------------------
(* Queries: groups.                                                        *)

KeyOf(id) == [bucket |-> BucketStart(RowOf(id).ts, req), group_key |-> GroupKey(RowOf(id), req)]

Group(g) == [bucket |-> g.bucket, group_key |-> g.group_key]

Counted(key) == {id \in snapshot : WHERE(RowOf(id), req) /\ KeyOf(id) = key}

KeyFirst(g, h) ==
  Before(g.bucket, h.bucket) \/ (g.bucket = h.bucket /\ g.group_key < h.group_key)

\* What GROUP BY made of the rows that were in the table then.
GroupsInv ==
  phase = "read" /\ req.path = "aggregate" =>
    /\ rows \in Seq([bucket: Instants, group_key: Int, count: Nat])
    /\ \A i \in 1..Len(rows) : /\ Counted(Group(rows[i])) # {}
                               /\ rows[i].count = Cardinality(Counted(Group(rows[i])))
    /\ \A id \in snapshot :
         WHERE(RowOf(id), req) => \E i \in 1..Len(rows) : KeyOf(id) = Group(rows[i])
    /\ \A i, j \in 1..Len(rows) : i < j => KeyFirst(Group(rows[i]), Group(rows[j]))

BucketSizes == {60, 300, 3600, 86400}

LEMMA SizeOfBucket ==
  ASSUME NEW r, ~BadAggregate(r)
  PROVE  /\ BucketSize(r) \in BucketSizes /\ r.bucket # <<>> /\ HasRange(r)
         /\ bucketCount(r) <= MAX_BUCKETS \/ bucketCount(r) \notin Int
         /\ r.group_by \in {<<>>, <<"service">>, <<"level">>}
<1>1. /\ r.bucket \in {<<b>> : b \in DOMAIN BUCKET_SECONDS} /\ HasRange(r)
      /\ r.group_by \in {<<>>, <<"service">>, <<"level">>}
      /\ ~(r.bucket # <<>> /\ HasRange(r) /\ bucketCount(r) > MAX_BUCKETS)
  BY Zenon DEF BadAggregate
<1>2. PICK b \in {"m1", "m5", "h1", "d1"} : r.bucket = <<b>>
  BY <1>1, SMT DEF BUCKET_SECONDS
<1>3. r.bucket[1] = b /\ r.bucket # <<>>
  BY <1>2
<1>4. BUCKET_SECONDS[b] \in BucketSizes
  BY <1>2, SMT DEF BUCKET_SECONDS, BucketSizes
<1>5. MAX_BUCKETS \in Nat
  BY QueriesAssumption
<1> QED BY <1>1, <1>3, <1>4, <1>5 DEF BucketSize

LEMMA RoundedDown ==
  ASSUME NEW k \in BucketSizes, NEW x \in Nat, NEW y \in Nat
  PROVE  /\ x - (x % k) \in Int
         /\ x - (x % k) = y - (y % k) <=> y - (y % k) <= x /\ x < y - (y % k) + k
<1>1. CASE k = 60
  BY <1>1, SMT
<1>2. CASE k = 300
  BY <1>2, SMT
<1>3. CASE k = 3600
  BY <1>3, SMT
<1>4. CASE k = 86400
  BY <1>4, SMT
<1> QED BY <1>1, <1>2, <1>3, <1>4, SMT DEF BucketSizes

\* A bucket starts on the clock, and holds the instants from its start to the next start.
LEMMA BucketHolds ==
  ASSUME NEW k \in BucketSizes, NEW t \in Instants, NEW u \in Instants, NEW b,
         b = <<t[1], t[2] - (t[2] % k), 0>>
  PROVE  /\ b \in Instants /\ b[2] % k = 0 /\ b[3] = 0
         /\ <<u[1], u[2] - (u[2] % k), 0>> = b <=>
              ~Before(u, b) /\ Before(u, At(b[1], b[2] + k, 0))
<1>1. /\ t[1] \in Int /\ t[2] \in Nat /\ t[2] < 86400 /\ u[1] \in Int /\ u[2] \in Nat
      /\ u[2] < 86400 /\ u[3] \in Nat
  BY SMT DEF Instants, DaySeconds, Micros
<1> DEFINE c == t[2] - (t[2] % k)
           d == u[2] - (u[2] % k)
           e == At(t[1], c + k, 0)
<1>2. /\ c \in Nat /\ c < 86400 /\ c % k = 0 /\ c + k <= 86400
  BY <1>1, SMT DEF BucketSizes
<1>3. d \in Int /\ (d = c <=> c <= u[2] /\ u[2] < c + k)
  BY <1>1, RoundedDown
<1>4. b[1] = t[1] /\ b[2] = c /\ b[3] = 0 /\ b = <<t[1], c, 0>>
  OBVIOUS
<1> HIDE DEF c
<1>5. b \in Instants
  BY <1>1, <1>2, <1>4, SMT DEF Instants, DaySeconds, Micros
<1>6. k \in Nat
  BY SMT DEF BucketSizes
<1>7. e = <<t[1] + (c + k) \div 86400, (c + k) % 86400, 0>>
  BY SMT DEF At
<1>8. IF c + k = 86400 THEN e = <<t[1] + 1, 0, 0>> ELSE e = <<t[1], c + k, 0>>
  <2>1. CASE c + k = 86400
    <3>1. (c + k) \div 86400 = 1 /\ (c + k) % 86400 = 0
      BY <2>1, SMT
    <3> QED BY <1>7, <2>1, <3>1, SMT
  <2>2. CASE c + k # 86400
    <3>1. (c + k) \div 86400 = 0 /\ (c + k) % 86400 = c + k /\ t[1] + 0 = t[1]
      BY <1>1, <1>2, <1>6, <2>2, SMT
    <3> QED BY <1>7, <2>2, <3>1, SMT
  <2> QED BY <2>1, <2>2
<1> HIDE DEF d, e
<1>9. <<u[1], d, 0>> = b <=> u[1] = t[1] /\ d = c
  BY <1>4
<1>10. ~Before(u, b) <=> u[1] > t[1] \/ (u[1] = t[1] /\ u[2] >= c)
  BY <1>1, <1>2, <1>4, SMT DEF Before
<1>11. Before(u, e) <=> u[1] < t[1] \/ (u[1] = t[1] /\ u[2] < c + k)
  <2>1. CASE c + k = 86400
    <3>1. e[1] = t[1] + 1 /\ e[2] = 0 /\ e[3] = 0
      BY <1>8, <2>1, SMT
    <3> QED BY <1>1, <2>1, <3>1, SMT DEF Before
  <2>2. CASE c + k # 86400
    <3>1. e[1] = t[1] /\ e[2] = c + k /\ e[3] = 0
      BY <1>8, <2>2, SMT
    <3> QED BY <1>1, <3>1, SMT DEF Before
  <2> QED BY <2>1, <2>2
<1>12. <<u[1], d, 0>> = b <=> ~Before(u, b) /\ Before(u, e)
  BY <1>1, <1>2, <1>3, <1>6, <1>9, <1>10, <1>11, SMT
<1> QED BY <1>2, <1>4, <1>5, <1>12 DEF d, e

\* The keys of groups, in order.
KeyType == [bucket: Instants, group_key: Int]

KeyOrder(S) == {pair \in S \X S : KeyFirst(pair[1], pair[2])}

LEMMA KeyOrderOrders ==
  ASSUME NEW S, S \subseteq KeyType
  PROVE  Orders(KeyOrder(S), S)
<1>1. \A g, h \in S : <<g, h>> \in KeyOrder(S) <=> KeyFirst(g, h)
  BY DEF KeyOrder
<1>2. \A g \in S : g.bucket \in Instants /\ g.group_key \in Int
                   /\ g = [bucket |-> g.bucket, group_key |-> g.group_key]
  BY DEF KeyType
<1>3. ASSUME NEW g \in S
      PROVE  <<g, g>> \notin KeyOrder(S)
  <2>1. ~Before(g.bucket, g.bucket) /\ ~(g.group_key < g.group_key)
    BY <1>2, BeforeIsOrder
  <2> QED BY <1>1, <2>1 DEF KeyFirst
<1>4. ASSUME NEW g \in S, NEW h \in S
      PROVE  g = h \/ <<g, h>> \in KeyOrder(S) \/ <<h, g>> \in KeyOrder(S)
  <2>1. g.bucket = h.bucket \/ Before(g.bucket, h.bucket) \/ Before(h.bucket, g.bucket)
    BY <1>2, BeforeIsOrder
  <2>2. g.group_key = h.group_key \/ g.group_key < h.group_key \/ h.group_key < g.group_key
    BY <1>2
  <2>3. g = h \/ g.bucket # h.bucket \/ g.group_key # h.group_key
    BY <1>2
  <2> QED BY <1>1, <2>1, <2>2, <2>3 DEF KeyFirst
<1>5. ASSUME NEW g \in S, NEW h \in S, NEW j \in S, KeyFirst(g, h), KeyFirst(h, j)
      PROVE  KeyFirst(g, j)
  <2>1. Before(g.bucket, h.bucket) /\ Before(h.bucket, j.bucket) => Before(g.bucket, j.bucket)
    BY <1>2, BeforeIsOrder
  <2>2. g.group_key < h.group_key /\ h.group_key < j.group_key => g.group_key < j.group_key
    BY <1>2
  <2> QED BY <1>5, <2>1, <2>2 DEF KeyFirst
<1> QED BY <1>1, <1>3, <1>4, <1>5 DEF Orders

LEMMA OrderedKeys ==
  ASSUME NEW S, S \subseteq KeyType, IsFiniteSet(S)
  PROVE  IsListing(InOrder(S, KeyFirst), KeyOrder(S), S)
<1> DEFINE R == KeyOrder(S)
           s == InOrder(S, KeyFirst)
<1>1. Orders(R, S)
  BY KeyOrderOrders
<1>2. \A x \in S : {y \in S : KeyFirst(y, x)} = Ahead(R, S, x)
  BY DEF Ahead, KeyOrder
<1>3. s = [i \in 1..Cardinality(S) |->
             CHOOSE x \in S : Cardinality({y \in S : KeyFirst(y, x)}) = i - 1]
  BY Zenon DEF InOrder
<1>4. ASSUME NEW i
      PROVE  (CHOOSE x \in S : Cardinality({y \in S : KeyFirst(y, x)}) = i - 1)
               = (CHOOSE x \in S : Cardinality(Ahead(R, S, x)) = i - 1)
  <2> HIDE DEF R
  <2>1. \A x : x \in S /\ Cardinality({y \in S : KeyFirst(y, x)}) = i - 1
               <=> x \in S /\ Cardinality(Ahead(R, S, x)) = i - 1
    BY <1>2
  <2> QED BY <2>1
<1>5. s = [i \in 1..Cardinality(S) |-> CHOOSE x \in S : Cardinality(Ahead(R, S, x)) = i - 1]
  BY <1>3, <1>4
<1> HIDE DEF R, s
<1>6. IsListing(s, R, S)
  BY <1>1, <1>5, ChosenPlacesList
<1> QED BY <1>6 DEF s, R

Picked(r) == {row \in table : WHERE(row, r)}
RowKey(row, r) == [bucket |-> BucketStart(row.ts, r), group_key |-> GroupKey(row, r)]
Keys(r) == {RowKey(row, r) : row \in Picked(r)}

LEMMA GroupedUnfolds ==
  ASSUME NEW r
  PROVE  LET keys == InOrder(Keys(r), KeyFirst)
         IN Grouped(r) = [i \in DOMAIN keys |->
                            [bucket |-> keys[i].bucket, group_key |-> keys[i].group_key,
                             count |-> Cardinality({row \in Picked(r) : RowKey(row, r) = keys[i]})]]
BY Zenon DEF Grouped, InOrder, KeyFirst, Keys, Picked, RowKey

LEMMA BucketStarts ==
  ASSUME NEW r, BucketSize(r) \in BucketSizes, NEW t \in Instants, NEW u \in Instants
  PROVE  LET b == BucketStart(t, r)
         IN /\ b \in Instants /\ b[2] % BucketSize(r) = 0 /\ b[3] = 0
            /\ BucketStart(u, r) = b <=>
                 ~Before(u, b) /\ Before(u, At(b[1], b[2] + BucketSize(r), 0))
<1> DEFINE k == BucketSize(r)
           b == BucketStart(t, r)
<1>1. b = <<t[1], t[2] - (t[2] % k), 0>> /\ BucketStart(u, r) = <<u[1], u[2] - (u[2] % k), 0>>
  BY DEF BucketStart
<1> HIDE DEF b, k
<1>2. k \in BucketSizes
  BY DEF k
<1>3. /\ b \in Instants /\ b[2] % k = 0 /\ b[3] = 0
      /\ <<u[1], u[2] - (u[2] % k), 0>> = b <=>
           ~Before(u, b) /\ Before(u, At(b[1], b[2] + k, 0))
  BY <1>1, <1>2, BucketHolds
<1> QED BY <1>1, <1>3 DEF b, k

LEMMA KeysTyped ==
  ASSUME NEW r, BucketSize(r) \in BucketSizes, NEW id, Taken(id)
  PROVE  RowKey(RowOf(id), r) \in KeyType
<1>1. BucketStart(RowOf(id).ts, r) \in Instants
  BY RowTyped, BucketStarts
<1>2. RowOf(id).service_id \in Int /\ RowOf(id).level \in Int
  <2>1. RowOf(id).service_id = ServiceIds[Entries[id].service] /\ Entries[id].service \in Services
    BY RowTyped, EntriesTyped DEF Taken
  <2>2. RowOf(id).level \in 0..3
    BY RowTyped
  <2> QED BY <2>1, <2>2, QueriesAssumption DEF Services
<1>3. GroupKey(RowOf(id), r) \in Int
  BY <1>2 DEF GroupKey
<1> QED BY <1>1, <1>3 DEF RowKey, KeyType

\* The rows of a group are counted by their ids.
LEMMA CountedByIds ==
  ASSUME DataInv, NEW key
  PROVE  LET T == {row \in Picked(req) : RowKey(row, req) = key}
             C == {id \in Ids : WHERE(RowOf(id), req) /\ KeyOf(id) = key}
         IN /\ IsFiniteSet(T) /\ Cardinality(T) = Cardinality(C) /\ Cardinality(T) \in Nat
            /\ C = {row.id : row \in T}
<1> DEFINE T == {row \in Picked(req) : RowKey(row, req) = key}
           C == {id \in Ids : WHERE(RowOf(id), req) /\ KeyOf(id) = key}
           f == [row \in T |-> row.id]
<1>1. T \subseteq table /\ IsFiniteSet(T)
  BY FS_Subset DEF Picked, DataInv
<1>2. \A row \in table : row.id \in Ids /\ row = RowOf(row.id)
  BY DEF Ids, DataInv
<1>3. \A id \in Ids : RowOf(id) \in table /\ RowOf(id).id = id
  BY IdsOfTable, RowTyped
<1>4. \A id : KeyOf(id) = RowKey(RowOf(id), req)
  BY DEF KeyOf, RowKey
<1>5. ASSUME NEW id \in C
      PROVE  \E row \in T : row.id = id
  BY <1>3, <1>4 DEF Picked
<1>6. ASSUME NEW row \in T
      PROVE  row.id \in C
  <2>1. row.id \in Ids /\ row = RowOf(row.id) /\ WHERE(row, req) /\ RowKey(row, req) = key
    BY <1>2 DEF Picked
  <2> DEFINE id == row.id
  <2>2. id \in Ids /\ row = RowOf(id)
    BY <2>1
  <2> HIDE DEF id
  <2>3. id \in C
    BY <1>4, <2>1, <2>2
  <2> QED BY <2>3 DEF id
<1> HIDE DEF C, T
<1>7. C = {row.id : row \in T}
  BY <1>5, <1>6
<1>8. C = {f[row] : row \in T} /\ f = [row \in T |-> f[row]]
  BY <1>7
<1>9. \A row, other \in T : f[row] = f[other] => row = other
  BY <1>1, <1>2
<1> HIDE DEF f
<1>10. Cardinality(T) = Cardinality(C)
  BY <1>1, <1>8, <1>9, ImageSize
<1> QED BY <1>1, <1>7, <1>10, FS_CardinalityType DEF C, T

LEMMA GroupsRead ==
  ASSUME DataInv, RequestInv, ReadAggregate
  PROVE  GroupsInv'
<1> DEFINE S == Keys(req)
           keys == InOrder(S, KeyFirst)
           n == Len(keys)
           C(key) == {id \in Ids : WHERE(RowOf(id), req) /\ KeyOf(id) = key}
           T(key) == {row \in Picked(req) : RowKey(row, req) = key}
           found == rows'
<1>1. /\ req' = req /\ snapshot' = Ids /\ rows' = Grouped(req) /\ phase = "asked"
      /\ req.path = "aggregate" /\ ~BadRequest(req)
  BY DEF ReadAggregate, Ids, walkVars
<1>2. BucketSize(req) \in BucketSizes
  BY <1>1, ServedIsValid, SizeOfBucket
<1>3. found = [i \in DOMAIN keys |-> [bucket |-> keys[i].bucket, group_key |-> keys[i].group_key,
                                     count |-> Cardinality(T(keys[i]))]]
  BY <1>1, GroupedUnfolds
<1>4. Picked(req) \subseteq table /\ IsFiniteSet(Picked(req))
  BY FS_Subset DEF Picked, DataInv
<1>5. S \subseteq KeyType
  <2>1. ASSUME NEW row \in Picked(req)
        PROVE  RowKey(row, req) \in KeyType
    BY <1>2, <1>4, KeysTyped DEF DataInv
  <2> QED BY <2>1 DEF Keys
<1>6. IsFiniteSet(S)
  <2> DEFINE f == [row \in Picked(req) |-> RowKey(row, req)]
  <2>1. f = [row \in Picked(req) |-> f[row]] /\ S = {f[row] : row \in Picked(req)}
    BY DEF Keys
  <2> HIDE DEF f
  <2> QED BY <1>4, <2>1, ImageSize
<1>7. \A key : /\ Cardinality(T(key)) = Cardinality(C(key)) /\ Cardinality(T(key)) \in Nat
               /\ C(key) = {row.id : row \in T(key)}
  BY CountedByIds
<1>8. \A key \in S : T(key) # {}
  BY DEF Keys
<1>9. \A id \in Ids : WHERE(RowOf(id), req) => KeyOf(id) \in S
  BY IdsOfTable DEF Keys, Picked, KeyOf, RowKey
<1>10. IsListing(keys, KeyOrder(S), S)
  BY <1>5, <1>6, OrderedKeys
<1> HIDE DEF S, keys, C, T
<1>11. /\ keys \in Seq(S) /\ DOMAIN keys = 1..n /\ n \in Nat
       /\ \A i \in 1..n : keys[i] \in S
       /\ \A x \in S : \E i \in 1..n : keys[i] = x
       /\ \A i, j \in 1..n : i < j => KeyFirst(keys[i], keys[j])
  <2>1. keys \in Seq(S) /\ (\A x \in S : \E i \in 1..n : keys[i] = x)
        /\ \A i, j \in 1..n : i < j => <<keys[i], keys[j]>> \in KeyOrder(S)
    BY <1>10 DEF IsListing
  <2>2. keys \in Seq(S) /\ DOMAIN keys = 1..n /\ n \in Nat /\ \A i \in 1..n : keys[i] \in S
    BY <2>1
  <2>3. ASSUME NEW i \in 1..n, NEW j \in 1..n, i < j
        PROVE  KeyFirst(keys[i], keys[j])
    <3>1. <<keys[i], keys[j]>> \in KeyOrder(S)
      BY <2>1, <2>3
    <3> QED BY <3>1 DEF KeyOrder
  <2> QED BY <2>1, <2>2, <2>3
<1> HIDE DEF n, found
<1>12. ASSUME NEW i \in 1..n
       PROVE  /\ found[i] \in [bucket: Instants, group_key: Int, count: Nat]
              /\ Group(found[i]) = keys[i] /\ found[i].count = Cardinality(C(keys[i]))
              /\ C(keys[i]) # {}
  <2>1. /\ found[i] = [bucket |-> keys[i].bucket, group_key |-> keys[i].group_key,
                       count |-> Cardinality(T(keys[i]))]
        /\ keys[i] \in S /\ keys[i] \in KeyType
    BY <1>3, <1>5, <1>11
  <2>2. /\ keys[i].bucket \in Instants /\ keys[i].group_key \in Int
        /\ keys[i] = [bucket |-> keys[i].bucket, group_key |-> keys[i].group_key]
    BY <2>1 DEF KeyType
  <2>3. Cardinality(T(keys[i])) = Cardinality(C(keys[i])) /\ Cardinality(T(keys[i])) \in Nat
        /\ C(keys[i]) # {}
    BY <1>7, <1>8, <2>1
  <2> QED BY <2>1, <2>2, <2>3 DEF Group
<1>13. found = [i \in 1..n |-> found[i]]
  BY <1>3, <1>11
<1>14. found \in Seq([bucket: Instants, group_key: Int, count: Nat]) /\ Len(found) = n
  <2>1. [i \in 1..n |-> found[i]] \in Seq([bucket: Instants, group_key: Int, count: Nat])
        /\ Len([i \in 1..n |-> found[i]]) = n
    BY <1>11, <1>12
  <2> QED BY <1>13, <2>1, Zenon
<1>15. \A key : Counted(key)' = C(key)
  BY <1>1 DEF Counted, C, KeyOf
<1>16. \A id : KeyOf(id)' = KeyOf(id)
  BY <1>1 DEF KeyOf
<1>17. \A i \in 1..n : /\ C(Group(found[i])) # {}
                       /\ found[i].count = Cardinality(C(Group(found[i])))
  BY <1>12
<1>18. \A id \in Ids : WHERE(RowOf(id), req) => \E i \in 1..n : KeyOf(id) = Group(found[i])
  BY <1>9, <1>11, <1>12
<1>19. \A i, j \in 1..n : i < j => KeyFirst(Group(found[i]), Group(found[j]))
  BY <1>11, <1>12
<1>20. /\ rows' \in Seq([bucket: Instants, group_key: Int, count: Nat])
       /\ \A i \in 1..Len(rows') : /\ C(Group(rows'[i])) # {}
                                   /\ rows'[i].count = Cardinality(C(Group(rows'[i])))
       /\ \A id \in snapshot' : WHERE(RowOf(id), req') =>
                                  \E i \in 1..Len(rows') : KeyOf(id) = Group(rows'[i])
       /\ \A i, j \in 1..Len(rows') : i < j => KeyFirst(Group(rows'[i]), Group(rows'[j]))
  BY <1>1, <1>14, <1>17, <1>18, <1>19 DEF found
<1> QED BY <1>15, <1>16, <1>20 DEF GroupsInv

LEMMA GroupsStep ==
  ASSUME DataInv, RequestInv, GroupsInv, [Next]_vars
  PROVE  GroupsInv'
<1>1. CASE ReadAggregate
  BY <1>1, GroupsRead
<1>2. CASE phase' = "read" /\ req'.path = "aggregate" /\ ~ReadAggregate
  <2>1. UNCHANGED <<phase, req, rows, snapshot>>
    BY <1>2 DEF Next, Serve, AnswerBadRequest, AnswerImpossible, ReadLogs, ReplyLogs,
                ReplyAggregate, StatementFails, NextPage, Finish, Ask, Answer, Arrive, Reject,
                DropDay, walkVars, vars
  <2>2. \A id : KeyOf(id)' = KeyOf(id)
    BY <2>1 DEF KeyOf
  <2>3. \A key : Counted(key)' = Counted(key)
    BY <2>1, <2>2 DEF Counted
  <2> QED BY <2>1, <2>2, <2>3 DEF GroupsInv
<1>3. CASE ~(phase' = "read" /\ req'.path = "aggregate")
  BY <1>3 DEF GroupsInv
<1> QED BY <1>1, <1>2, <1>3

\* The name of the group an entry belongs to.
GroupName(id) ==
  IF req.group_by = <<"service">> THEN Entries[id].service
  ELSE IF req.group_by = <<"level">> THEN Entries[id].level ELSE "null"

\* Entries are in one group if they have one name.
LEMMA GroupsByName ==
  ASSUME NEW x, NEW y, Taken(x), Taken(y)
  PROVE  GroupKey(RowOf(x), req) = GroupKey(RowOf(y), req) <=> GroupName(x) = GroupName(y)
<1>1. /\ RowOf(x).service_id = ServiceIds[Entries[x].service]
      /\ RowOf(y).service_id = ServiceIds[Entries[y].service]
      /\ RowOf(x).level = levelToCode(Entries[x].level)
      /\ RowOf(y).level = levelToCode(Entries[y].level)
  BY RowTyped
<1>2. /\ Entries[x].service \in Services /\ Entries[y].service \in Services
      /\ Entries[x].level \in {"debug", "info", "warn", "error"}
      /\ Entries[y].level \in {"debug", "info", "warn", "error"}
  BY EntriesTyped DEF Taken
<1>3. RowOf(x).service_id = RowOf(y).service_id <=> Entries[x].service = Entries[y].service
  BY <1>1, <1>2, NamesDiffer
<1>4. RowOf(x).level = RowOf(y).level <=> Entries[x].level = Entries[y].level
  BY <1>1, <1>2, LevelCodes
<1>5. <<"service">> # <<"level">>
  OBVIOUS
<1> QED BY <1>3, <1>4, <1>5 DEF GroupKey, GroupName

\* What answering an aggregate changes.
LEMMA GroupsAnswered ==
  ASSUME DataInv, RequestInv, GroupsInv, ReplyAggregate
  PROVE  /\ phase' = "answered" /\ reply'.status = 200 /\ reply'.logs = <<>>
         /\ UNCHANGED <<req, snapshot, blind, registered>>
         /\ DOMAIN reply'.buckets = 1..Len(rows) /\ Len(reply'.buckets) = Len(rows)
         /\ \A i \in 1..Len(rows) : /\ reply'.buckets[i].start = rows[i].bucket
                                    /\ reply'.buckets[i].count = rows[i].count
         /\ \A i \in 1..Len(rows) : \A id \in Counted(Group(rows[i])) :
              reply'.buckets[i].group = GroupName(id)
<1>1. /\ phase' = "answered" /\ phase = "read" /\ req.path = "aggregate"
      /\ known' = IF req.group_by = <<"service">>
                  THEN Hydrated({rows[i].group_key : i \in DOMAIN rows}) ELSE known
      /\ reply' = [status |-> 200, logs |-> <<>>, next_cursor |-> <<>>,
                   buckets |-> [i \in DOMAIN rows |->
                                  [start |-> rows[i].bucket, count |-> rows[i].count,
                                   group |-> resolveGroup(rows[i].group_key, req, known')]]]
      /\ UNCHANGED <<req, snapshot, blind, registered>>
  BY DEF ReplyAggregate, Answer, walkVars, dataVars
<1>2. rows \in Seq([bucket: Instants, group_key: Int, count: Nat])
  BY <1>1 DEF GroupsInv
<1>3. DOMAIN rows = 1..Len(rows) /\ Len(rows) \in Nat
  BY <1>2
<1>4. /\ reply'.status = 200 /\ reply'.logs = <<>>
      /\ reply'.buckets = [i \in 1..Len(rows) |->
                             [start |-> rows[i].bucket, count |-> rows[i].count,
                              group |-> resolveGroup(rows[i].group_key, req, known')]]
  BY <1>1, <1>3
<1>5. DOMAIN reply'.buckets = 1..Len(rows) /\ Len(reply'.buckets) = Len(rows)
  BY <1>3, <1>4
<1>6. ASSUME NEW i \in 1..Len(rows), NEW id \in Counted(Group(rows[i]))
      PROVE  resolveGroup(rows[i].group_key, req, known') = GroupName(id)
  <2>1. Taken(id) /\ GroupKey(RowOf(id), req) = rows[i].group_key
    BY <1>6 DEF Counted, KeyOf, Group, DataInv
  <2>2. CASE req.group_by = <<"service">>
    <3> DEFINE ids == {rows[j].group_key : j \in DOMAIN rows}
    <3>1. rows[i].group_key = ServiceIds[Entries[id].service] /\ rows[i].group_key \in ids
      BY <1>3, <2>1, <2>2, RowTyped DEF GroupKey
    <3>2. known' = Hydrated(ids)
      BY <1>1, <2>2
    <3> HIDE DEF ids
    <3>3. NameIn(known', rows[i].group_key) = Entries[id].service
      BY <2>1, <3>1, <3>2, HydratedNames
    <3>4. req.group_by # <<>> /\ req.group_by # <<"level">>
      BY <2>2
    <3> QED BY <2>2, <3>3, <3>4 DEF resolveGroup, GroupName
  <2>3. CASE req.group_by = <<"level">>
    <3>1. req.group_by # <<>> /\ req.group_by # <<"service">>
      BY <2>3
    <3>2. rows[i].group_key = levelToCode(Entries[id].level)
      BY <2>1, <2>3, <3>1, RowTyped DEF GroupKey
    <3>3. codeToLevel(rows[i].group_key) = Entries[id].level
      BY <2>1, <3>2, EntriesTyped, LevelCodes DEF Taken
    <3> QED BY <2>3, <3>1, <3>3 DEF resolveGroup, GroupName
  <2>4. CASE req.group_by = <<>>
    BY <2>4 DEF resolveGroup, GroupName
  <2>5. req.group_by \in {<<>>, <<"service">>, <<"level">>}
    <3>1. ~BadRequest(req) /\ phase # "idle"
      BY <1>1 DEF RequestInv
    <3> QED BY <1>1, <3>1, ServedIsValid, SizeOfBucket
  <2> QED BY <2>2, <2>3, <2>4, <2>5
<1>7. \A i \in 1..Len(rows) : /\ reply'.buckets[i].start = rows[i].bucket
                              /\ reply'.buckets[i].count = rows[i].count
                              /\ reply'.buckets[i].group
                                   = resolveGroup(rows[i].group_key, req, known')
  BY <1>4
<1> QED BY <1>1, <1>4, <1>5, <1>6, <1>7

\* The names in an answer stay true while it stands.
LEMMA NamesStep ==
  ASSUME DataInv, RequestInv, WalkInv, PageInv, GroupsInv, NamesAreTrue, [Next]_vars
  PROVE  NamesAreTrue'
<1>1. ASSUME ReplyLogs
      PROVE  NamesAreTrue'
  <2>1. Reading
    BY <1>1 DEF Reading, ReplyLogs
  <2>2. /\ DOMAIN reply'.logs = 1..PageLen /\ reply'.buckets = <<>>
        /\ known' = Hydrated({rows[i].service_id : i \in 1..PageLen})
        /\ \A i \in 1..PageLen :
             reply'.logs[i] = [id |-> rows[i].id, timestamp |-> formatMicrosIso(rows[i].ts),
                               level |-> codeToLevel(rows[i].level),
                               service |-> NameIn(known', rows[i].service_id)]
    BY <1>1, <2>1, PageAnswered
  <2>3. ASSUME NEW i \in 1..PageLen
        PROVE  /\ reply'.logs[i].service = Entries[reply'.logs[i].id].service
               /\ reply'.logs[i].level = Entries[reply'.logs[i].id].level
    <3> DEFINE id == rows[i].id
    <3>1. i \in 1..Len(rows)
      BY <2>1, PageFacts
    <3>2. Taken(id) /\ rows[i] = RowOf(id)
      BY <2>1, <3>1, RowFacts
    <3>3. /\ rows[i].service_id = ServiceIds[Entries[id].service]
          /\ rows[i].level = levelToCode(Entries[id].level)
      BY <3>2 DEF RowOf
    <3>4. NameIn(known', ServiceIds[Entries[id].service]) = Entries[id].service
      <4>1. ServiceIds[Entries[id].service] \in {rows[j].service_id : j \in 1..PageLen}
        BY <3>3
      <4> QED BY <2>2, <3>2, <4>1, HydratedNames
    <3>5. codeToLevel(rows[i].level) = Entries[id].level
      BY <3>2, <3>3, EntriesTyped, LevelCodes DEF Taken
    <3> DEFINE log == reply'.logs[i]
    <3>6. log = [id |-> id, timestamp |-> formatMicrosIso(rows[i].ts),
                 level |-> codeToLevel(rows[i].level),
                 service |-> NameIn(known', rows[i].service_id)]
      BY <2>2
    <3> HIDE DEF log
    <3>7. /\ log.id = id /\ log.level = codeToLevel(rows[i].level)
          /\ log.service = NameIn(known', rows[i].service_id)
      BY <3>6
    <3> QED BY <3>3, <3>4, <3>5, <3>7 DEF log
  <2> QED BY <2>2, <2>3 DEF NamesAreTrue
<1>2. ASSUME ReplyAggregate
      PROVE  NamesAreTrue'
  <2>1. /\ reply'.logs = <<>> /\ DOMAIN reply'.buckets = 1..Len(rows)
        /\ UNCHANGED <<req, registered>>
        /\ \A i \in 1..Len(rows) : \A id \in Counted(Group(rows[i])) :
             reply'.buckets[i].group = GroupName(id)
    BY <1>2, GroupsAnswered
  <2>2. ASSUME NEW i \in 1..Len(rows), req.group_by = <<"service">>
        PROVE  reply'.buckets[i].group \in registered
    <3>1. PICK id : id \in Counted(Group(rows[i]))
      BY <1>2 DEF GroupsInv, ReplyAggregate
    <3>2. Taken(id)
      BY <3>1 DEF Counted, DataInv
    <3>3. reply'.buckets[i].group = Entries[id].service
      BY <2>1, <2>2, <3>1 DEF GroupName
    <3> QED BY <3>2, <3>3 DEF Taken
  <2> QED BY <2>1, <2>2 DEF NamesAreTrue
<1>3. ASSUME \/ AnswerBadRequest \/ AnswerImpossible \/ StatementFails \/ NextPage \/ Finish
             \/ \E r \in Requests : Ask(r)
      PROVE  NamesAreTrue'
  <2>1. reply'.logs = <<>> /\ reply'.buckets = <<>>
    BY <1>3, NoReplyYet DEF AnswerBadRequest, AnswerImpossible, StatementFails, NextPage, Finish,
                            Ask, Answer, RequestInv
  <2> QED BY <2>1 DEF NamesAreTrue
<1>4. ASSUME \/ ReadLogs \/ ReadAggregate \/ UNCHANGED vars
             \/ \E id \in RowIds : Arrive(id) \/ Reject(id)
             \/ \E day \in OldDays : DropDay(day)
      PROVE  NamesAreTrue'
  <2>1. UNCHANGED <<reply, req>> /\ registered \subseteq registered'
    BY <1>4 DEF ReadLogs, ReadAggregate, Arrive, Reject, DropDay, walkVars, dataVars, vars
  <2> QED BY <2>1 DEF NamesAreTrue
<1> QED BY <1>1, <1>2, <1>3, <1>4 DEF Next, Serve

-----------------------------------------------------------------------------
(* Queries: how many buckets there are, and what they count.               *)

\* The start of the bucket k seconds wide that has the number q since 1970.
StartAt(q, k) == <<(k * q) \div 86400, (k * q) % 86400, 0>>

SecondsOf(t) == 86400 * t[1] + t[2]

LEMMA SecondsType ==
  ASSUME NEW s \in Instants, NEW t \in Instants
  PROVE  SecondsOf(t) \in Int /\ SecondsUp(s, t) \in Int
<1>1. /\ s[1] \in Int /\ s[2] \in Int /\ s[3] \in Int
      /\ t[1] \in Int /\ t[2] \in Int /\ t[3] \in Int
  BY SMT DEF Instants, DaySeconds, Micros
<1> QED BY <1>1, SMT DEF SecondsOf, SecondsUp

\* An instant in a range is at most as far into it as the range is long.
LEMMA RangeReaches ==
  ASSUME NEW s \in Instants, NEW u \in Instants, NEW t \in Instants, ~Before(t, s), Before(t, u)
  PROVE  SecondsOf(s) <= SecondsOf(t) /\ SecondsOf(t) - SecondsOf(s) <= SecondsUp(s, u)
<1>1. /\ s[1] \in Int /\ s[2] \in Nat /\ s[3] \in Int /\ s[2] < 86400
      /\ t[1] \in Int /\ t[2] \in Nat /\ t[3] \in Int /\ t[2] < 86400
      /\ u[1] \in Int /\ u[2] \in Nat /\ u[3] \in Int /\ u[2] < 86400
  BY SMT DEF Instants, DaySeconds, Micros
<1>2. t[1] > s[1] \/ (t[1] = s[1] /\ t[2] >= s[2])
  BY <1>1, SMT DEF Before
<1>3. t[1] < u[1] \/ (t[1] = u[1] /\ t[2] <= u[2])
  BY <1>1, SMT DEF Before
<1> QED BY <1>1, <1>2, <1>3, SMT DEF SecondsOf, SecondsUp

\* Numbers of buckets, for each of their sizes.
LEMMA BucketNumbers ==
  ASSUME NEW k \in BucketSizes, NEW s \in Int, NEW day \in Int, NEW second \in Nat,
         second < 86400, NEW t, t = 86400 * day + second, s <= t, NEW d \in Int, t - s <= d,
         NEW n \in Nat, (d + k - 1) \div k <= n
  PROVE  /\ t \div k \in Int /\ s \div k \in Int
         /\ s \div k <= t \div k /\ t \div k <= s \div k + n
         /\ k * (t \div k) = 86400 * day + (second - (second % k))
         /\ second - (second % k) \in Nat /\ second - (second % k) < 86400
<1>1. CASE k = 60
  BY <1>1, SMT
<1>2. CASE k = 300
  BY <1>2, SMT
<1>3. CASE k = 3600
  BY <1>3, SMT
<1>4. CASE k = 86400
  BY <1>4, SMT
<1> QED BY <1>1, <1>2, <1>3, <1>4, SMT DEF BucketSizes

LEMMA BucketIndex ==
  ASSUME NEW k \in BucketSizes, NEW s \in Instants, NEW u \in Instants, NEW t \in Instants,
         ~Before(t, s), Before(t, u), NEW n \in Nat, (SecondsUp(s, u) + k - 1) \div k <= n
  PROVE  /\ SecondsOf(s) \div k \in Int
         /\ \E q \in (SecondsOf(s) \div k)..((SecondsOf(s) \div k) + n) :
              <<t[1], t[2] - (t[2] % k), 0>> = StartAt(q, k)
<1> DEFINE a == SecondsOf(s)
           d == SecondsUp(s, u)
           q == SecondsOf(t) \div k
           c == t[2] - (t[2] % k)
<1>1. t[1] \in Int /\ t[2] \in Nat /\ t[2] < 86400
  BY SMT DEF Instants, DaySeconds, Micros
<1>2. a \in Int /\ d \in Int /\ a <= SecondsOf(t) /\ SecondsOf(t) - a <= d
  BY SecondsType, RangeReaches
<1>3. SecondsOf(t) = 86400 * t[1] + t[2]
  BY SMT DEF SecondsOf
<1> HIDE DEF a, d
<1>4. (d + k - 1) \div k <= n
  BY DEF d
<1>5. /\ q \in Int /\ a \div k \in Int /\ a \div k <= q /\ q <= a \div k + n
      /\ k * q = 86400 * t[1] + c /\ c \in Nat /\ c < 86400
  BY <1>1, <1>2, <1>3, <1>4, BucketNumbers
<1> HIDE DEF q, c
<1>6. (86400 * t[1] + c) \div 86400 = t[1] /\ (86400 * t[1] + c) % 86400 = c
  BY <1>1, <1>5, SMT
<1>7. StartAt(q, k) = <<t[1], c, 0>>
  BY <1>5, <1>6, SMT DEF StartAt
<1>8. q \in (a \div k)..((a \div k) + n)
  BY <1>5
<1> QED BY <1>5, <1>7, <1>8 DEF a, c

\* So many buckets, when the range has room for no more than that.
LEMMA FewBuckets ==
  ASSUME NEW lo \in Int, NEW n \in Nat, NEW k, NEW B,
         \A b \in B : \E q \in lo..(lo + n) : b = StartAt(q, k)
  PROVE  Cardinality(B) <= n + 1
<1> DEFINE Q == lo..(lo + n)
           f == [q \in Q |-> StartAt(q, k)]
           T == {f[q] : q \in Q}
<1>1. IsFiniteSet(Q) /\ Cardinality(Q) = n + 1
  <2>1. lo + n \in Int /\ ~(lo > lo + n) /\ lo + n - lo + 1 = n + 1
    OBVIOUS
  <2> QED BY <2>1, FS_Interval
<1>2. f = [q \in Q |-> f[q]]
  OBVIOUS
<1>3. B \subseteq T
  OBVIOUS
<1> HIDE DEF f, Q
<1>4. IsFiniteSet(T) /\ Cardinality(T) <= Cardinality(Q)
  BY <1>1, <1>2, ImageSize
<1> HIDE DEF T
<1>5. Cardinality(B) <= Cardinality(T) /\ IsFiniteSet(B)
  BY <1>3, <1>4, FS_Subset
<1>6. Cardinality(B) \in Nat /\ Cardinality(T) \in Nat
  BY <1>4, <1>5, FS_CardinalityType
<1> QED BY <1>1, <1>4, <1>5, <1>6

\* The bucket b holds the row id, when buckets are as wide as r has them.
Holds(b, r, id) ==
  /\ ~Before(Truth(id), b.start)
  /\ Before(Truth(id), At(b.start[1], b.start[2] + BucketSize(r), 0))
  /\ b.group = IF r.group_by = <<"service">> THEN Entries[id].service
               ELSE IF r.group_by = <<"level">> THEN Entries[id].level ELSE "null"

\* What AggregateExact says of the buckets of an answer.
ExactBuckets(buckets, r, ids) ==
  LET meant == {id \in ids : Meant(r, id)}
  IN /\ \A i \in DOMAIN buckets :
          /\ buckets[i].start[2] % BucketSize(r) = 0 /\ buckets[i].start[3] = 0
          /\ buckets[i].count = Cardinality({id \in meant : Holds(buckets[i], r, id)})
          /\ buckets[i].count > 0
     /\ \A id \in meant : \E i \in DOMAIN buckets : Holds(buckets[i], r, id)
     /\ \A i \in 1..Len(buckets) - 1 : ~Before(buckets[i + 1].start, buckets[i].start)
     /\ Cardinality({buckets[i].start : i \in DOMAIN buckets}) <= MAX_BUCKETS + 1

Aggregated == phase = "answered" /\ reply.status = 200 /\ req.path = "aggregate" /\ ~blind

LEMMA ExactUnfolds ==
  AggregateExact <=> (Aggregated => ExactBuckets(reply.buckets, req, snapshot))
BY Zenon DEF AggregateExact, Aggregated, ExactBuckets, Holds

Grouping ==
  DataInv /\ RequestInv /\ GroupsInv /\ phase = "read" /\ req.path = "aggregate"

\* What the request of an aggregate is.
LEMMA GroupingFacts ==
  ASSUME Grouping
  PROVE  /\ req \in Requests /\ ~BadFilters(req) /\ ~impossible(req)
         /\ BucketSize(req) \in BucketSizes /\ HasRange(req)
         /\ bucketCount(req) <= MAX_BUCKETS \/ bucketCount(req) \notin Int
         /\ rows \in Seq([bucket: Instants, group_key: Int, count: Nat])
         /\ DOMAIN rows = 1..Len(rows) /\ Len(rows) \in Nat
<1>1. ~BadRequest(req) /\ ~impossible(req)
  BY DEF Grouping, RequestInv
<1>2. req \in Requests /\ ~BadFilters(req) /\ ~BadAggregate(req)
  BY <1>1, ServedIsValid DEF Grouping
<1>3. rows \in Seq([bucket: Instants, group_key: Int, count: Nat])
  BY DEF Grouping, GroupsInv
<1>4. DOMAIN rows = 1..Len(rows) /\ Len(rows) \in Nat
  BY <1>3
<1> QED BY <1>1, <1>2, <1>3, <1>4, SizeOfBucket

\* The entries meant are those the statement counts.
LEMMA AggregateMeans ==
  ASSUME AllReadAsWritten, Grouping, NEW id \in snapshot
  PROVE  /\ Taken(id) /\ RowOf(id).ts = Truth(id) /\ Truth(id) \in Instants
         /\ WHERE(RowOf(id), req) <=> Meant(req, id)
<1>1. Taken(id) /\ DataInv /\ req.path # "logs"
  BY DEF Grouping, DataInv
<1>2. /\ req \in Requests /\ ~BadFilters(req) /\ ~impossible(req)
  BY GroupingFacts
<1>3. WHERE(RowOf(id), req) <=> Meant(req, id)
  BY <1>1, <1>2, WhereMeans DEF Meant
<1> QED BY <1>1, <1>3, TruthIsRow

\* A bucket of the answer holds what the group it is made of counts.
LEMMA BucketIsGroup ==
  ASSUME AllReadAsWritten, Grouping, NEW i \in 1..Len(rows), NEW b,
         b.start = rows[i].bucket,
         \A id \in Counted(Group(rows[i])) : b.group = GroupName(id)
  PROVE  /\ b.start \in Instants /\ b.start[2] % BucketSize(req) = 0 /\ b.start[3] = 0
         /\ \A id \in snapshot : KeyOf(id) = Group(rows[i]) <=> Holds(b, req, id)
<1> DEFINE k == BucketSize(req)
           g == rows[i]
<1>1. k \in BucketSizes
  BY GroupingFacts
<1>2. PICK x \in Counted(Group(g)) : TRUE
  BY DEF Grouping, GroupsInv
<1>3. /\ x \in snapshot /\ BucketStart(RowOf(x).ts, req) = g.bucket
      /\ GroupKey(RowOf(x), req) = g.group_key
  BY DEF Counted, KeyOf, Group
<1>4. RowOf(x).ts \in Instants /\ Taken(x)
  BY <1>3, AggregateMeans
<1>5. /\ b.start \in Instants /\ b.start[2] % k = 0 /\ b.start[3] = 0
  BY <1>1, <1>3, <1>4, BucketStarts
<1>6. ASSUME NEW id \in snapshot
      PROVE  KeyOf(id) = Group(g) <=> Holds(b, req, id)
  <2>1. Taken(id) /\ RowOf(id).ts = Truth(id) /\ Truth(id) \in Instants
    BY AggregateMeans
  <2>2. BucketStart(Truth(id), req) = b.start <=>
          ~Before(Truth(id), b.start) /\ Before(Truth(id), At(b.start[1], b.start[2] + k, 0))
    BY <1>1, <1>3, <1>4, <2>1, BucketStarts
  <2>3. b.group = GroupName(x)
    BY <1>2
  <2>4. GroupKey(RowOf(id), req) = g.group_key <=> b.group = GroupName(id)
    BY <1>3, <1>4, <2>1, <2>3, GroupsByName
  <2>5. KeyOf(id) = Group(g) <=> /\ BucketStart(RowOf(id).ts, req) = g.bucket
                                 /\ GroupKey(RowOf(id), req) = g.group_key
    BY DEF KeyOf, Group
  <2>6. Holds(b, req, id) <=>
          /\ ~Before(Truth(id), b.start) /\ Before(Truth(id), At(b.start[1], b.start[2] + k, 0))
          /\ b.group = GroupName(id)
    BY DEF Holds, GroupName
  <2> QED BY <2>1, <2>2, <2>4, <2>5, <2>6
<1> QED BY <1>5, <1>6

\* No answer has more buckets in a row than the limit and one.
LEMMA BucketsLimited ==
  ASSUME AllReadAsWritten, Grouping
  PROVE  Cardinality({rows[i].bucket : i \in 1..Len(rows)}) <= MAX_BUCKETS + 1
<1> DEFINE k == BucketSize(req)
           s == Instant(req.since)
           u == Instant(req.until)
           n == MAX_BUCKETS
           lo == SecondsOf(s) \div k
           B == {rows[i].bucket : i \in 1..Len(rows)}
<1>1. k \in BucketSizes /\ HasRange(req) /\ req \in Requests /\ ~BadFilters(req)
      /\ (bucketCount(req) <= n \/ bucketCount(req) \notin Int) /\ n \in Nat
  BY GroupingFacts, QueriesAssumption
<1>2. /\ s \in Instants /\ u \in Instants /\ formatMicrosPgLiteral(s) = s
      /\ formatMicrosPgLiteral(u) = u /\ Given(req.since) /\ Given(req.until)
  BY <1>1, RangeRead DEF HasRange
<1>3. (SecondsUp(s, u) + k - 1) \div k <= n
  <2>1. SecondsUp(s, u) \in Int
    BY <1>2, SecondsType
  <2>2. bucketCount(req) = (SecondsUp(s, u) + k - 1) \div k
    BY DEF bucketCount
  <2> HIDE DEF k, s, u
  <2>3. (SecondsUp(s, u) + k - 1) \div k \in Int
    BY <1>1, <2>1, SMT DEF BucketSizes
  <2> QED BY <1>1, <2>2, <2>3
<1>4. ASSUME NEW i \in 1..Len(rows)
      PROVE  \E q \in lo..(lo + n) : rows[i].bucket = StartAt(q, k)
  <2>1. PICK x \in Counted(Group(rows[i])) : TRUE
    BY DEF Grouping, GroupsInv
  <2>2. x \in snapshot /\ WHERE(RowOf(x), req) /\ BucketStart(RowOf(x).ts, req) = rows[i].bucket
    BY DEF Counted, KeyOf, Group
  <2> DEFINE t == RowOf(x).ts
  <2>3. t \in Instants
    BY <2>2, AggregateMeans
  <2>4. ~Before(t, s) /\ Before(t, u)
    BY <1>2, <2>2 DEF WHERE
  <2>5. rows[i].bucket = <<t[1], t[2] - (t[2] % k), 0>>
    BY <2>2 DEF BucketStart
  <2> HIDE DEF k, s, u, n, t
  <2> QED BY <1>1, <1>2, <1>3, <2>3, <2>4, <2>5, BucketIndex
<1>5. lo \in Int
  <2> HIDE DEF k, s
  <2>1. SecondsOf(s) \in Int
    BY <1>2, SecondsType
  <2> QED BY <1>1, <2>1, SMT DEF BucketSizes
<1>6. \A b \in B : \E q \in lo..(lo + n) : b = StartAt(q, k)
  <2> HIDE DEF lo, k
  <2> QED BY <1>4
<1> HIDE DEF lo, k, B
<1>7. Cardinality(B) <= n + 1
  BY <1>1, <1>5, <1>6, FewBuckets
<1> QED BY <1>7 DEF B

LEMMA AggregateAnswered ==
  ASSUME AllReadAsWritten, Grouping, ReplyAggregate
  PROVE  ExactBuckets(reply'.buckets, req, snapshot)
<1> DEFINE B == reply'.buckets
           n == Len(rows)
           meant == {id \in snapshot : Meant(req, id)}
<1>1. /\ DOMAIN B = 1..n /\ Len(B) = n /\ n \in Nat
      /\ \A i \in 1..n : B[i].start = rows[i].bucket /\ B[i].count = rows[i].count
      /\ \A i \in 1..n : \A id \in Counted(Group(rows[i])) : B[i].group = GroupName(id)
  BY GroupsAnswered, GroupingFacts DEF Grouping
<1> HIDE DEF B
<1>2. \A id : id \in meant <=> id \in snapshot /\ WHERE(RowOf(id), req)
  BY AggregateMeans
<1>3. ASSUME NEW i \in 1..n
      PROVE  /\ B[i].start \in Instants /\ B[i].start[2] % BucketSize(req) = 0
             /\ B[i].start[3] = 0
             /\ \A id \in snapshot : KeyOf(id) = Group(rows[i]) <=> Holds(B[i], req, id)
  <2> DEFINE b == B[i]
  <2>1. b.start = rows[i].bucket /\ \A id \in Counted(Group(rows[i])) : b.group = GroupName(id)
    BY <1>1
  <2> HIDE DEF b
  <2>2. /\ b.start \in Instants /\ b.start[2] % BucketSize(req) = 0 /\ b.start[3] = 0
        /\ \A id \in snapshot : KeyOf(id) = Group(rows[i]) <=> Holds(b, req, id)
    BY <2>1, BucketIsGroup
  <2> QED BY <2>2 DEF b
<1>4. ASSUME NEW i \in 1..n
      PROVE  /\ B[i].count = Cardinality({id \in meant : Holds(B[i], req, id)})
             /\ B[i].count > 0
  <2>1. {id \in meant : Holds(B[i], req, id)} = Counted(Group(rows[i]))
    BY <1>2, <1>3 DEF Counted
  <2>2. /\ Counted(Group(rows[i])) # {}
        /\ rows[i].count = Cardinality(Counted(Group(rows[i])))
    BY DEF Grouping, GroupsInv
  <2>3. IsFiniteSet(Counted(Group(rows[i])))
    BY FS_Subset DEF Counted, Grouping, DataInv
  <2>4. Cardinality(Counted(Group(rows[i]))) \in Nat
        /\ Cardinality(Counted(Group(rows[i]))) # 0
    BY <2>2, <2>3, FS_EmptySet, FS_CardinalityType
  <2> DEFINE c == Cardinality(Counted(Group(rows[i])))
  <2>5. c \in Nat /\ c # 0 /\ B[i].count = c
    BY <1>1, <2>2, <2>4
  <2> HIDE DEF c
  <2>6. B[i].count = c /\ B[i].count > 0
    BY <2>5
  <2> HIDE DEF meant
  <2> QED BY <2>1, <2>6 DEF c
<1>5. ASSUME NEW id \in meant
      PROVE  \E i \in 1..n : Holds(B[i], req, id)
  <2>1. PICK i \in 1..n : KeyOf(id) = Group(rows[i])
    BY <1>2 DEF Grouping, GroupsInv
  <2> QED BY <1>2, <1>3, <2>1
<1>6. ASSUME NEW i \in 1..n - 1
      PROVE  ~Before(B[i + 1].start, B[i].start)
  <2>1. i \in 1..n /\ i + 1 \in 1..n /\ i < i + 1
    BY <1>1
  <2>2. KeyFirst(Group(rows[i]), Group(rows[i + 1]))
    BY <2>1 DEF Grouping, GroupsInv
  <2>3. Before(B[i].start, B[i + 1].start) \/ B[i].start = B[i + 1].start
    BY <1>1, <2>1, <2>2 DEF KeyFirst, Group
  <2>4. B[i].start \in Instants /\ B[i + 1].start \in Instants
    BY <1>3, <2>1
  <2> QED BY <2>3, <2>4, BeforeIsOrder
<1>7. {B[i].start : i \in DOMAIN B} = {rows[i].bucket : i \in 1..n}
  BY <1>1
<1>8. Cardinality({B[i].start : i \in DOMAIN B}) <= MAX_BUCKETS + 1
  BY <1>7, BucketsLimited
<1>9. ExactBuckets(B, req, snapshot)
  BY <1>1, <1>3, <1>4, <1>5, <1>6, <1>8, Zenon DEF ExactBuckets
<1> QED BY <1>9 DEF B

LEMMA ExactInit == Init => AggregateExact
<1>1. Init => ~Aggregated
  BY DEF Init, Aggregated
<1> QED BY <1>1, ExactUnfolds

LEMMA ExactStep ==
  ASSUME AllReadAsWritten, DataInv, RequestInv, GroupsInv, AggregateExact, [Next]_vars
  PROVE  AggregateExact'
<1>1. AggregateExact' <=> (Aggregated' => ExactBuckets(reply'.buckets, req', snapshot'))
  BY Zenon DEF AggregateExact, Aggregated, ExactBuckets, Holds
<1>2. CASE ReplyAggregate
  <2>1. Grouping
    BY <1>2 DEF Grouping, ReplyAggregate
  <2>2. req' = req /\ snapshot' = snapshot
    BY <1>2, GroupsAnswered
  <2>3. ExactBuckets(reply'.buckets, req, snapshot)
    BY <1>2, <2>1, AggregateAnswered
  <2> QED BY <1>1, <2>2, <2>3
<1>3. CASE \/ UNCHANGED vars
           \/ \E id \in RowIds : Arrive(id) \/ Reject(id)
           \/ \E day \in OldDays : DropDay(day)
  <2>1. UNCHANGED <<phase, reply, req, snapshot, blind>>
    BY <1>3 DEF Arrive, Reject, DropDay, walkVars, vars
  <2>2. Aggregated' <=> Aggregated
    BY <2>1 DEF Aggregated
  <2> QED BY <1>1, <2>1, <2>2, ExactUnfolds
<1>4. CASE \/ AnswerBadRequest \/ AnswerImpossible \/ ReadLogs \/ ReplyLogs \/ ReadAggregate
           \/ StatementFails \/ NextPage \/ Finish \/ \E r \in Requests : Ask(r)
  <2>1. ~Aggregated'
    BY <1>4 DEF AnswerBadRequest, AnswerImpossible, ReadLogs, ReplyLogs, ReadAggregate,
                StatementFails, NextPage, Finish, Ask, Answer, Aggregated
  <2> QED BY <1>1, <2>1
<1> QED BY <1>2, <1>3, <1>4 DEF Next, Serve

-----------------------------------------------------------------------------
(* Queries: the theorems.                                                  *)

\* The groups of the statement and the names of the answer, beside the walk.
LEMMA GroupsInit == Init => GroupsInv
BY DEF Init, GroupsInv

AnswerInv == Inv /\ GroupsInv /\ NamesAreTrue

LEMMA AnswerHolds == Spec => []AnswerInv
<1>1. Init => AnswerInv
  BY InvInit, GroupsInit, NamesInit DEF AnswerInv
<1>2. AnswerInv /\ [Next]_vars => AnswerInv'
  <2> SUFFICES ASSUME AnswerInv, [Next]_vars
               PROVE  AnswerInv'
    OBVIOUS
  <2>1. Inv /\ GroupsInv /\ NamesAreTrue
    BY DEF AnswerInv
  <2>2. DataInv /\ RequestInv /\ PageInv /\ WalkInv
    BY <2>1 DEF Inv
  <2>3. Inv'
    BY <2>1, InvStep
  <2>4. GroupsInv'
    BY <2>1, <2>2, GroupsStep
  <2>5. NamesAreTrue'
    BY <2>1, <2>2, NamesStep
  <2> QED BY <2>3, <2>4, <2>5 DEF AnswerInv
<1> QED BY <1>1, <1>2, PTL DEF Spec

\* The type invariant: rows have the types of their columns and ids of their own, what is
\* known is registered, and a request is under way exactly when the phase says so.
THEOREM QueriesTypeCorrect == Spec => []TypeOK
BY InvHolds, InvType, PTL

\* services.ts, hydrateIds(): a page and an aggregate name the service each row was sent
\* with, whichever instance registered it and however much later, and its level.
THEOREM NamesStayTrue == Spec => []NamesAreTrue
<1>1. AnswerInv => NamesAreTrue
  BY DEF AnswerInv
<1> QED BY <1>1, AnswerHolds, PTL

\* time.ts: rows are stored at the instants their texts denote, entries are refused only
\* for denoting none or one too far ahead, and only ranges that make sense are served, for
\* all texts but the three kinds that ReadAsWritten excepts and those of entries from
\* before 1714 that KeptAsRead does.
THEOREM TimesStayRight ==
  ASSUME AllReadAsWritten
  PROVE  Spec => []TimesReadRight
<1>1. Inv => TimesReadRight
  BY InvTimes
<1> QED BY <1>1, InvHolds, PTL

\* logs.ts: pages go back in time without a row coming twice, whatever arrives and is
\* dropped between them, and every row is one that the request means.
THEOREM PagesGoBack ==
  ASSUME AllReadAsWritten
  PROVE  Spec => []PagesDescend
<1>1. Inv => PagesDescend
  BY InvDescend
<1> QED BY <1>1, InvHolds, PTL

\* logs.ts: a walk that has come to its end has had every row that it means and that was
\* there all along; rows that share an instant are neither lost nor repeated at the
\* boundary of two pages.
THEOREM WalksMissNothing ==
  ASSUME AllReadAsWritten
  PROVE  Spec => []NothingMissed
<1>1. Inv => NothingMissed
  BY InvMissed
<1> QED BY <1>1, InvHolds, PTL

\* logs.ts: next_cursor is null exactly when the statement that read the page saw no row
\* beyond it.
THEOREM CursorEndsWalk ==
  ASSUME AllReadAsWritten
  PROVE  Spec => []NullExactlyAtEnd
<1>1. Inv => NullExactlyAtEnd
  BY InvEnd
<1> QED BY <1>1, InvHolds, PTL

\* aggregate.ts: every row that the request means is counted once, in the bucket of its
\* instant and under the name of its group; buckets are in order, and one more than the
\* limit at most.
THEOREM AggregatesAreExact ==
  ASSUME AllReadAsWritten
  PROVE  Spec => []AggregateExact
<1>1. Inv /\ GroupsInv => DataInv /\ RequestInv /\ GroupsInv
  BY DEF Inv
<1>2. AnswerInv => Inv /\ GroupsInv
  BY DEF AnswerInv
<1>3. AnswerInv /\ AggregateExact /\ [Next]_vars => AggregateExact'
  BY <1>1, <1>2, ExactStep
<1> QED BY <1>3, ExactInit, AnswerHolds, PTL DEF Spec
=============================================================================
