--------------------------- MODULE TemporalValues ---------------------------
(***************************************************************************)
(* The date and time types of chrono (NaiveDate, NaiveTime, NaiveDateTime  *)
(* and DateTime<Utc | FixedOffset | Local>), of time (Date, Time,          *)
(* PrimitiveDateTime, OffsetDateTime) and of odbc_api::sys: what each is   *)
(* encoded as, which value kinds it accepts and what it decodes.           *)
(*                                                                         *)
(* A day is its number, counted from year 0; a year has Days of them.  A   *)
(* time of day is its second, a moment the second since year 0; frac is    *)
(* the fraction of the second, odd when finer than a microsecond.          *)
(***************************************************************************)
EXTENDS Integers

CONSTANTS
  Days,                 \* days of a year
  DaySeconds,           \* seconds of a day
  MinuteSeconds,        \* seconds of a minute
  TwoDigits,            \* second of the day from which hours have two digits
  MaxYear16,            \* largest year of an ODBC structure, an i16
  MaxChrono, MaxTime,   \* largest year of chrono; of time, and of four digits
  EpochYear,            \* 1970
  FirstYear, LastYear,  \* 1900 and 3000: years of integers read as YYYYMMDD
  Base,                 \* YYYYMMDD is year * Base + the day in the year
  LocalOffset           \* offset of the local time zone, in seconds

ASSUME CalendarAssumption ==
  /\ {Days, DaySeconds, MinuteSeconds, MaxTime} \subseteq Nat \ {0}
  /\ MaxTime < MaxYear16 /\ MaxYear16 < MaxChrono
  /\ {MaxYear16, MaxChrono, EpochYear, FirstYear, LastYear} \subseteq Nat
  /\ FirstYear <= LastYear /\ LastYear <= MaxTime /\ EpochYear <= MaxTime
  /\ Base \in Nat /\ Days < Base
  /\ TwoDigits \in 0..DaySeconds
  /\ LocalOffset \in Int

DaysOf(min, max) == (min * Days)..(max * Days + Days - 1)
SecondsOf(min, max) ==
  (min * Days * DaySeconds)..((max + 1) * Days * DaySeconds - 1)

Days16 == DaysOf(-MaxYear16 - 1, MaxYear16)
Seconds16 == SecondsOf(-MaxYear16 - 1, MaxYear16)
TimeDays == DaysOf(-MaxTime, MaxTime)
TimeSeconds == SecondsOf(-MaxTime, MaxTime)
IsoSeconds == SecondsOf(0, MaxTime)
SecondOfDay == 0..(DaySeconds - 1)
Fraction == 0..3

\* The fraction in whole microseconds.
Micros(frac) == frac - (frac % 2)

\* Mutant: the year loses its sign.
SignlessDay(day) ==
  IF day < 0 THEN (day % Days) - (day \div Days) * Days ELSE day

\* Mutant: the year is not narrowed.
WholeDay(day) == day

\* `year as i16` of structures.
WrapDay(day) ==
  IF day \in Days16 THEN day
  ELSE ((day + (MaxYear16 + 1) * Days) % (2 * (MaxYear16 + 1) * Days))
         - (MaxYear16 + 1) * Days
WrapSecond(at) ==
  IF at \in Seconds16 THEN at
  ELSE WrapDay(at \div DaySeconds) * DaySeconds + (at % DaySeconds)

-----------------------------------------------------------------------------
(* Contents of arguments, cells and fetched values.  A text has a form:    *)
(* "date" YYYY-MM-DD, "time" hh:mm:ss, "datetime" with a space between the *)
(* two, "T" with a T, "offset" with a T and an offset, "digits" exactly    *)
(* eight digits, "number" any other number, and the forms of               *)
(* ContentValues.  Structures have the forms "date", "time", "datetime".   *)

\* pad: the hour has two digits.
Content(form, at, frac, offset, pad) ==
  [form |-> form, at |-> at, frac |-> frac, offset |-> offset, pad |-> pad]
Plain(form, at, frac) == Content(form, at, frac, 0, TRUE)

Argument(kind, content) == [kind |-> kind, content |-> content]

\* A Rust value: at is a day, a second of the day, a local second, or, of a
\* type with an offset, the second in UTC.
Moment(at, frac, offset) == [at |-> at, frac |-> frac, offset |-> offset]
Some(value) == [ok |-> TRUE, value |-> value]
Error == [ok |-> FALSE, value |-> Moment(0, 0, 0)]
When(at, frac) == Some(Moment(at, frac, 0))

DateType == {"NaiveDate", "Date", "SysDate"}
TimeType == {"NaiveTime", "Time", "SysTime"}
LocalType == {"NaiveDateTime", "PrimitiveDateTime", "SysTimestamp"}
ZonedType == {"Utc", "FixedOffset", "Local", "OffsetDateTime"}
SysType == {"SysDate", "SysTime", "SysTimestamp"}
TimeCrate == {"Date", "Time", "PrimitiveDateTime", "OffsetDateTime"}
TemporalType == DateType \cup TimeType \cup LocalType \cup ZonedType

\* The type_info of each type, as the column of that type.
TemporalColumn(T) ==
  CASE T \in DateType -> "Date" [] T \in TimeType -> "Time"
    [] OTHER -> "Timestamp"

TemporalKind == {"Date", "Time", "Timestamp"}
NumberKind == {"BigInt", "Real", "Double"}

\* T::compatible, on the kinds of fetched values.
ChronoAccepts(T) ==
  IF T = "Local" THEN {"Timestamp", "Text"}
  ELSE {TemporalColumn(T), "Text"} \cup NumberKind

TimeAccepts(T) ==
  TemporalKind \cup {"Text"} \cup (IF T = "OffsetDateTime" THEN NumberKind ELSE {})

TemporalAccepts(T) ==
  CASE T \in SysType -> {TemporalColumn(T)}
    [] T \in TimeCrate -> TimeAccepts(T)
    [] OTHER -> ChronoAccepts(T)

-----------------------------------------------------------------------------
(* Encoding.                                                               *)

\* A structure has no room for what is finer than a second of a time of day.
Structure(T, at, frac) ==
  CASE T \in DateType -> Argument("Date", Plain("date", at, 0))
    [] T \in TimeType -> Argument("Time", Plain("time", at, 0))
    [] OTHER -> Argument("Timestamp", Plain("datetime", at, frac))

\* RFC 3339 has no seconds in an offset: to_rfc3339 takes the next minute.
Minutes(n) == ((n + MinuteSeconds \div 2) \div MinuteSeconds) * MinuteSeconds
MinuteOffset(offset) == IF offset < 0 THEN -Minutes(-offset) ELSE Minutes(offset)

\* Mutant: the time of a DateTime<FixedOffset> is written in UTC.
EncodeInUtc(T, v) ==
  CASE T = "NaiveDate" -> Structure(T, WrapDay(v.at), 0)
    [] T = "NaiveTime" -> Structure(T, v.at, 0)
    [] T \in {"NaiveDateTime", "Local"} ->
         Structure(T, WrapSecond(v.at + v.offset), v.frac)
    [] OTHER ->
         Argument("Text",
           Content("offset", v.at, v.frac, MinuteOffset(v.offset), TRUE))

\* Structures of local time, but RFC 3339 for Utc and FixedOffset.
EncodeChrono(T, v) ==
  CASE T = "NaiveDate" -> Structure(T, WrapDay(v.at), 0)
    [] T = "NaiveTime" -> Structure(T, v.at, 0)
    [] T \in {"NaiveDateTime", "Local"} ->
         Structure(T, WrapSecond(v.at + v.offset), v.frac)
    [] OTHER ->
         Argument("Text",
           Content("offset", v.at + v.offset, v.frac, MinuteOffset(v.offset), TRUE))

\* Display of time does not pad the hour; an OffsetDateTime is written in UTC.
Padded(second) == second >= TwoDigits

EncodeTime(T, v) ==
  Argument("Text",
    CASE T = "Date" -> Plain("date", v.at, 0)
      [] T = "Time" -> Content("time", v.at, v.frac, 0, Padded(v.at))
      [] OTHER ->
           Content("datetime", v.at, v.frac, 0, Padded(v.at % DaySeconds)))

EncodeTemporal(T, v) ==
  CASE T \in SysType -> Structure(T, v.at, v.frac)
    [] T \in TimeCrate -> EncodeTime(T, v)
    [] OTHER -> EncodeChrono(T, v)

-----------------------------------------------------------------------------
(* Decoding a value of some kind and content.                              *)

IsText(kind, c, forms) == kind = "Text" /\ c.form \in forms

\* as_i64 and as_f64 return a number; at is its whole part.
IsInt(kind, c) ==
  \/ kind = "BigInt"
  \/ IsText(kind, c, {"digits", "number"}) /\ c.frac = 0
IsNum(kind, c) ==
  kind \in NumberKind \/ IsText(kind, c, {"digits", "number"})

\* Iso8601 of time: four digits of a year have no sign.
IsIso(kind, c) ==
  IsText(kind, c, {"T", "offset"}) /\ c.pad /\ c.at \in IsoSeconds

\* YYYYMMDD.
IsCode(n) == n >= 0 /\ n % Base < Days
CodeDay(n) == (n \div Base) * Days + (n % Base)
InCodeRange(n) ==
  IsCode(n) /\ n \in (FirstYear * Base)..(LastYear * Base + Days - 1)

Unix(n) == EpochYear * Days * DaySeconds + n

DecodeNaiveDate(kind, c) ==
  CASE kind = "Date" \/ IsText(kind, c, {"date"}) -> When(c.at, 0)
    [] IsText(kind, c, {"digits"}) /\ IsCode(c.at) -> When(CodeDay(c.at), 0)
    [] IsNum(kind, c) /\ InCodeRange(c.at) -> When(CodeDay(c.at), 0)
    [] OTHER -> Error

\* An integer that is not YYYYMMDD counts days since the epoch; a text with a
\* T after the date is cut there.
DecodeDate(kind, c) ==
  LET plain == kind = "Date" \/ IsText(kind, c, {"date"})
      code  == IsNum(kind, c) /\ InCodeRange(c.at)
      since == IsInt(kind, c) /\ ~code /\ EpochYear * Days + c.at \in TimeDays
  IN  CASE plain /\ c.at \in TimeDays -> When(c.at, 0)
        [] code -> When(CodeDay(c.at), 0)
        [] since -> When(EpochYear * Days + c.at, 0)
        [] ~code /\ ~since /\ IsText(kind, c, {"digits"}) /\ IsCode(c.at) ->
             When(CodeDay(c.at), 0)
        [] IsIso(kind, c) -> When(c.at \div DaySeconds, 0)
        [] OTHER -> Error

DecodeNaiveTime(kind, c) ==
  IF kind = "Time" \/ IsText(kind, c, {"time"})
  THEN When(c.at, c.frac) ELSE Error

\* Mutant: the fraction of a text is dropped.
DecodeTimeWithoutNanos(kind, c) ==
  CASE kind = "Time" -> When(c.at, 0)
    [] IsNum(kind, c) /\ c.at \in SecondOfDay -> When(c.at, 0)
    [] IsText(kind, c, {"time"}) /\ c.pad -> When(c.at, 0)
    [] OTHER -> Error

\* A number counts seconds of the day; a text must have a two-digit hour.
DecodeTime(kind, c) ==
  CASE kind = "Time" -> When(c.at, 0)
    [] IsNum(kind, c) /\ c.at \in SecondOfDay -> When(c.at, 0)
    [] IsText(kind, c, {"time"}) /\ c.pad -> When(c.at, c.frac)
    [] OTHER -> Error

DecodeNaiveDateTime(kind, c) ==
  IF kind = "Timestamp" \/ IsText(kind, c, {"datetime", "T"})
  THEN When(c.at, c.frac) ELSE Error

\* The formats of PrimitiveDateTime; that with a T has no fraction.
InFormat(kind, c) ==
  /\ IsText(kind, c, {"datetime", "T"}) /\ c.pad /\ c.at \in TimeSeconds
  /\ c.form = "T" => c.frac = 0

\* Mutant: the format with a fraction is missing.
DecodeWithoutSubsecond(kind, c) ==
  CASE kind = "Timestamp" /\ c.at \in TimeSeconds -> When(c.at, c.frac)
    [] IsNum(kind, c) /\ Unix(c.at) \in TimeSeconds -> When(Unix(c.at), 0)
    [] IsIso(kind, c) \/ (InFormat(kind, c) /\ c.frac = 0) -> When(c.at, c.frac)
    [] OTHER -> Error

\* A number counts seconds since the epoch; an offset is ignored.
DecodePrimitiveDateTime(kind, c) ==
  CASE kind = "Timestamp" /\ c.at \in TimeSeconds -> When(c.at, c.frac)
    [] IsNum(kind, c) /\ Unix(c.at) \in TimeSeconds -> When(Unix(c.at), 0)
    [] IsIso(kind, c) \/ InFormat(kind, c) -> When(c.at, c.frac)
    [] OTHER -> Error

\* What a text with an offset says.
Instant(c, offset) == Some(Moment(c.at - c.offset, c.frac, offset))

\* Mutant: a timestamp is taken for local time.
DecodeZonedLocally(T, kind, c) ==
  CASE kind = "Timestamp" -> When(c.at - LocalOffset, c.frac)
    [] IsText(kind, c, {"offset"}) -> Instant(c, 0)
    [] OTHER -> DecodeNaiveDateTime(kind, c)

\* DateTime<Utc>, <FixedOffset> and <Local>: without an offset it is UTC.
DecodeZoned(T, kind, c) ==
  LET zone == IF T = "Local" THEN LocalOffset ELSE 0
      naive == DecodeNaiveDateTime(kind, c)
  IN  CASE IsText(kind, c, {"offset"}) ->
             Instant(c, IF T = "FixedOffset" THEN c.offset ELSE zone)
        [] naive.ok -> Some([naive.value EXCEPT !.offset = zone])
        [] OTHER -> Error

DecodeOffsetDateTime(kind, c) ==
  IF IsIso(kind, c) /\ c.form = "offset"
  THEN Instant(c, c.offset)
  ELSE DecodePrimitiveDateTime(kind, c)

DecodeSys(T, kind, c) ==
  IF kind = TemporalColumn(T) THEN When(c.at, c.frac) ELSE Error

DecodeTemporal(T, kind, c) ==
  CASE T = "NaiveDate" -> DecodeNaiveDate(kind, c)
    [] T = "Date" -> DecodeDate(kind, c)
    [] T = "NaiveTime" -> DecodeNaiveTime(kind, c)
    [] T = "Time" -> DecodeTime(kind, c)
    [] T = "NaiveDateTime" -> DecodeNaiveDateTime(kind, c)
    [] T = "PrimitiveDateTime" -> DecodePrimitiveDateTime(kind, c)
    [] T = "OffsetDateTime" -> DecodeOffsetDateTime(kind, c)
    [] T \in {"Utc", "FixedOffset", "Local"} -> DecodeZoned(T, kind, c)
    [] OTHER -> DecodeSys(T, kind, c)
=============================================================================
