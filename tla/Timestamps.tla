----------------------------- MODULE Timestamps -----------------------------
(***************************************************************************)
(* src/domain/time.ts: from the text of a timestamp to an instant.         *)
(*                                                                         *)
(* A text is a record of its parts; one the regular expression does not    *)
(* match has iso = FALSE.  The code's number of microseconds is a triple   *)
(* <<day, second, microsecond>>, counted from 1970-01-01T00:00:00Z, since  *)
(* TLC's integers have 32 bits: whole numbers and triples are in one to    *)
(* one correspondence and ordered alike.  The numbers are doubles, which   *)
(* hold every whole number up to 2^53 only: see Rounding.                  *)
(***************************************************************************)
EXTENDS Integers, Sequences

NoSeconds == -1

\* The parts of a text; no seconds is NoSeconds, no fraction is <<>>, "offset" is in
\* minutes east of UTC and counts when zone is "offset".
TextParts == [iso: BOOLEAN, year: 0..9999, month: Nat, day: Nat, hour: Nat, minute: Nat,
              second: Nat \cup {NoSeconds}, fraction: Seq(0..9),
              zone: {"none", "Z", "offset"}, offset: Int]

Null == <<>>

\* A second of a day and a microsecond of a second.
DaySeconds == {second \in Nat : second < 86400}
Micros == {micro \in Nat : micro < 1000000}
Instants == Int \X DaySeconds \X Micros

\* Lexicographic order of instants.
Before(s, t) ==
  \/ s[1] < t[1]
  \/ s[1] = t[1] /\ s[2] < t[2]
  \/ s[1] = t[1] /\ s[2] = t[2] /\ s[3] < t[3]

\* Seconds may be negative or more than a day has.
At(day, second, micro) == <<day + second \div 86400, second % 86400, micro>>

\* Microseconds may be negative or more than a second has.
Plus(t, micros) ==
  LET m == t[3] + micros IN At(t[1], t[2] + m \div 1000000, m % 1000000)

Milliseconds(t) == <<t[1], t[2], 1000 * (t[3] \div 1000)>>

(* Doubles.  Numbers of at least 2^53 are multiples of 2, of at least 2^54 of 4,
   and so on; no year up to 9999 gets to 2^58. *)

\* t is at least the first instant in size, whose negative is the second.
Beyond(t, bounds) == ~Before(t, bounds[1]) \/ ~Before(bounds[2], t)

TwoTo53 == <<<<104249, 85654, 740992>>, <<-104250, 745, 259008>>>>
TwoTo54 == <<<<208499, 84909, 481984>>, <<-208500, 1490, 518016>>>>
TwoTo55 == <<<<416999, 83418, 963968>>, <<-417000, 2981, 36032>>>>
TwoTo56 == <<<<833999, 80437, 927936>>, <<-834000, 5962, 72064>>>>
TwoTo57 == <<<<1667999, 74475, 855872>>, <<-1668000, 11924, 144128>>>>

\* The distance of two neighbours where t is.
Grain(t) ==
  IF Beyond(t, TwoTo57) THEN 32
  ELSE IF Beyond(t, TwoTo56) THEN 16
  ELSE IF Beyond(t, TwoTo55) THEN 8
  ELSE IF Beyond(t, TwoTo54) THEN 4
  ELSE IF Beyond(t, TwoTo53) THEN 2 ELSE 1

\* How far the double nearest to t is from it, the even one of two that are as near.
\* A second has a multiple of 64 microseconds, so its microseconds tell.
Rounding(t) ==
  LET grain == Grain(t)
      over == t[3] % grain
  IN IF 2 * over < grain \/ (2 * over = grain /\ t[3] % (2 * grain) < grain)
     THEN -over ELSE grain - over

Rounded(t) == Plus(t, Rounding(t))

\* Number.isSafeInteger(), of a whole number.
isSafeInteger(t) == t # Null /\ ~Beyond(t, TwoTo53)

-----------------------------------------------------------------------------

isLeapYear(year) == (year % 4 = 0 /\ year % 100 # 0) \/ year % 400 = 0

DAYS_IN_MONTH == <<31, 28, 31, 30, 31, 30, 31, 31, 30, 31, 30, 31>>

MaxDay(year, month) ==
  IF month = 2 /\ isLeapYear(year) THEN 29 ELSE DAYS_IN_MONTH[month]

hasValidCalendarDate(text) ==
  text.month \in 1..12 /\ text.day \in 1..MaxDay(text.year, text.month)

DaysBeforeMonth == <<0, 31, 59, 90, 120, 151, 181, 212, 243, 273, 304, 334>>

\* The day of a date in V8, which lets a day past the end of its month roll over.
DayNumber(year, month, day) ==
  LET leapsTo(y) == y \div 4 - y \div 100 + y \div 400
  IN 365 * (year - 1970) + leapsTo(year - 1) - leapsTo(1969)
       + DaysBeforeMonth[month] + (IF month > 2 /\ isLeapYear(year) THEN 1 ELSE 0) + day - 1

\* Date.UTC(): the years 0 to 99 are those of the 20th century.
DateUTC(year, month, day) == DayNumber(IF year \in 0..99 THEN 1900 + year ELSE year, month, day)

\* Digits i to i + 2 of a fraction as a number, as if zeros followed it.
ThreeDigits(fraction, i) ==
  LET digit(k) == IF k <= Len(fraction) THEN fraction[k] ELSE 0
  IN 100 * digit(i) + 10 * digit(i + 1) + digit(i + 2)

InRange(text) ==
  /\ text.month \in 1..12 /\ text.hour <= 23 /\ text.minute <= 59 /\ text.second <= 59
  /\ text.day \in 1..MaxDay(text.year, text.month)

\* The texts of 20, 24 and 27 characters that are read digit by digit.
FastPath(text) ==
  /\ text.iso /\ text.zone = "Z" /\ text.second # NoSeconds
  /\ Len(text.fraction) \in {0, 3, 6}
  /\ InRange(text)

SecondOfDay(text) ==
  3600 * text.hour + 60 * text.minute
    + IF text.second = NoSeconds THEN 0 ELSE text.second

\* Date.parse() of the text with its fraction brought to three digits: 24 is an hour
\* at midnight, and the offset is taken off.
DateParse(text, millis) ==
  IF \/ text.hour <= 23 /\ text.minute <= 59 /\ text.second <= 59
     \/ text.hour = 24 /\ SecondOfDay(text) = 86400 /\ millis = 0
  THEN At(DayNumber(text.year, text.month, text.day),
          SecondOfDay(text) - IF text.zone = "offset" THEN 60 * text.offset ELSE 0,
          1000 * millis)
  ELSE Null

\* Variant: a short fraction is a number of milliseconds.
Millis_Unpadded(fraction) ==
  IF Len(fraction) = 1 THEN fraction[1] ELSE ThreeDigits(fraction, 1)

Millis(fraction) == ThreeDigits(fraction, 1)

\* The microseconds past the milliseconds; later digits are cut off.
ExtraMicros(fraction) == ThreeDigits(fraction, 4)

\* Milliseconds * MICROS_PER_MS + extraMicros: a product and a sum of doubles.
InMicros(t, extra) == Rounded(Plus(Rounded(t), extra))

\* Null when the text is not an instant.
parseIsoToMicros(text) ==
  IF FastPath(text)
  THEN InMicros(At(DateUTC(text.year, text.month, text.day), SecondOfDay(text),
                   1000 * Millis(text.fraction)),
                ExtraMicros(text.fraction))
  ELSE IF ~text.iso \/ ~hasValidCalendarDate(text) THEN Null
  ELSE LET t == DateParse(text, Millis(text.fraction))
       IN IF t = Null THEN Null ELSE InMicros(t, ExtraMicros(text.fraction))

\* formatMicrosIso(): replies have milliseconds.
formatMicrosIso(t) == <<t[1], t[2], t[3] \div 1000>>

\* formatMicrosPgLiteral() and the cast to timestamptz: the milliseconds, then what t
\* has more than their product with MICROS_PER_MS, which may be rounded.
formatMicrosPgLiteral(t) == Plus(t, -Rounding(Milliseconds(t)))

\* toISOString() gives years outside 0000 to 9999 a sign and six digits, which
\* PostgreSQL does not read, and neither does it read the year 0.
LiteralIsRead(t) == t[1] \in -719162..2932896

\* 2000-01-01, from where PostgreSQL counts.
PG_EPOCH_OFFSET_DAYS == 10957

\* timestampMicros - PG_EPOCH_OFFSET_MICROS, a difference of doubles, as PostgreSQL
\* reads it.
PgTimestamp(t) ==
  LET sent == Rounded(<<t[1] - PG_EPOCH_OFFSET_DAYS, t[2], t[3]>>)
  IN <<sent[1] + PG_EPOCH_OFFSET_DAYS, sent[2], sent[3]>>

-----------------------------------------------------------------------------
(* What a text denotes by the calendar, computed another way.  A text      *)
(* without a zone is in UTC; microseconds are the resolution.              *)

CivilDay(year, month, day) ==
  LET y == IF month <= 2 THEN year - 1 ELSE year
      era == y \div 400
      ofEra == y - 400 * era
      ofYear == (153 * ((month + 9) % 12) + 2) \div 5 + day - 1
  IN 146097 * era + 365 * ofEra + ofEra \div 4 - ofEra \div 100 + ofYear - 719468

\* A fraction in microseconds, digit by digit.
FractionMicros(fraction) ==
  LET weight == <<100000, 10000, 1000, 100, 10, 1>>
      upTo[n \in 0..6] ==
        IF n = 0 THEN 0
        ELSE upTo[n - 1] + (IF n <= Len(fraction) THEN weight[n] * fraction[n] ELSE 0)
  IN upTo[6]

Exists(text) ==
  /\ text.iso /\ text.month \in 1..12
  /\ text.day >= 1
  \* the first of the next month is at least as many days on as this day
  /\ CivilDay(text.year, text.month, text.day)
       < CivilDay(IF text.month = 12 THEN text.year + 1 ELSE text.year,
                  IF text.month = 12 THEN 1 ELSE text.month + 1, 1)
  /\ text.minute <= 59 /\ text.second <= 59
  /\ \/ text.hour <= 23
     \/ /\ text.hour = 24 /\ text.minute = 0 /\ text.second <= 0
        /\ FractionMicros(text.fraction) = 0

Denoted(text) ==
  LET east == IF text.zone = "offset" THEN text.offset ELSE 0
      second == IF text.second = NoSeconds THEN 0 ELSE text.second
  IN IF ~Exists(text) THEN Null
     ELSE At(CivilDay(text.year, text.month, text.day),
             60 * (60 * text.hour + text.minute - east) + second,
             FractionMicros(text.fraction))
=============================================================================
