----------------------------- MODULE ValueTrip -----------------------------
(***************************************************************************)
(* The journey of one value that is not an integer: encoded by its Rust    *)
(* type, bound as a parameter, stored by the driver in a column, fetched,  *)
(* and read as any type that TemporalValues and ContentValues describe.    *)
(* Rows that other programs wrote are fetched and read as well.            *)
(*                                                                         *)
(* "Varchar" stands for the character types, "Numeric" for NUMERIC and     *)
(* DECIMAL, "Double" for FLOAT and DOUBLE, "Binary" for the binary types.  *)
(***************************************************************************)
EXTENDS ContentValues

CONSTANT MaxOffset   \* largest offset from UTC, in seconds

ASSUME OffsetAssumption ==
  MaxOffset \in Nat /\ LocalOffset \in -MaxOffset..MaxOffset

Offsets == -MaxOffset..MaxOffset
TextOffsets == {MinuteOffset(offset) : offset \in Offsets}

Type == TemporalType \cup ContentType
Column == TemporalKind \cup NumberKind \cup {"Numeric", "Varchar", "Binary"}

OwnColumn(T) ==
  IF T \in TemporalType THEN TemporalColumn(T) ELSE ContentColumn(T)

\* Numbers whose whole part is a day's code, a second or a day.
Whole == 0..((MaxTime + 1) * Base - 1)

-----------------------------------------------------------------------------
(* What a Rust value, a text and a column can be.                          *)

Moments(at, fracs, offsets) ==
  {Moment(a, f, o) : a \in at, f \in fracs, o \in offsets}

Numbers(precision) == {Plain("number", n, f) : n \in Whole, f \in 0..precision}

Values(T) ==
  CASE T = "NaiveDate" -> Moments(DaysOf(-MaxChrono, MaxChrono), {0}, {0})
    [] T = "SysDate" -> Moments(Days16, {0}, {0})
    [] T = "Date" -> Moments(TimeDays, {0}, {0})
    [] T = "SysTime" -> Moments(SecondOfDay, {0}, {0})
    [] T \in {"NaiveTime", "Time"} -> Moments(SecondOfDay, Fraction, {0})
    [] T \in {"NaiveDateTime", "Utc"} ->
         Moments(SecondsOf(-MaxChrono, MaxChrono), Fraction, {0})
    [] T = "SysTimestamp" -> Moments(Seconds16, Fraction, {0})
    [] T = "PrimitiveDateTime" -> Moments(TimeSeconds, Fraction, {0})
    [] T = "FixedOffset" ->
         Moments(SecondsOf(-MaxChrono, MaxChrono), Fraction, Offsets)
    [] T = "Local" ->
         Moments(SecondsOf(-MaxChrono, MaxChrono), Fraction, {LocalOffset})
    [] T = "OffsetDateTime" -> Moments(TimeSeconds, Fraction, Offsets)
    [] T \in NumberType ->
         Numbers(Precision[T])
    [] T = "text" -> {Plain(form, 0, 0) : form \in TextOnly}
    [] T = "bytes" -> {Plain("blob", 0, 0)}
    [] T = "Uuid" -> {Plain("uuid", 0, 0)}
    [] T = "Json" ->
         {Plain("json", 0, 0)} \cup Numbers(2)
    [] OTHER ->
         {Plain(form, 0, 0) : form \in TextOnly \cup {"blob"}}
           \cup Numbers(2)

\* Only early hours are written with one digit.
Pads(second) == IF Padded(second) THEN {TRUE} ELSE BOOLEAN

DateTexts == {Plain("date", day, 0) : day \in DaysOf(-MaxChrono, MaxChrono)}
TimeTexts ==
  UNION {{Content("time", s, f, 0, pad) : f \in Fraction, pad \in Pads(s)} :
           s \in SecondOfDay}
MomentTexts ==
  UNION {{Content(form, at, f, 0, pad) :
            form \in {"datetime", "T"}, f \in Fraction, pad \in Pads(at % DaySeconds)} :
           at \in SecondsOf(-MaxChrono, MaxChrono)}
OffsetTexts ==
  {Content("offset", at, f, o, TRUE) :
     at \in SecondsOf(-MaxChrono, MaxChrono), f \in Fraction, o \in TextOffsets}

Texts ==
  DateTexts \cup TimeTexts \cup MomentTexts \cup OffsetTexts
    \cup {Plain("digits", n, 0) : n \in Whole}
    \cup Numbers(4)
    \cup {Plain(form, 0, 0) : form \in TextOnly}

Dates == {Plain("date", day, 0) : day \in Days16}
Times == {Plain("time", s, 0) : s \in SecondOfDay}
Timestamps == {Plain("datetime", at, f) : at \in Seconds16, f \in Fraction}

Holds(col) ==
  CASE col = "Date" -> Dates
    [] col = "Time" -> Times
    [] col = "Timestamp" -> Timestamps
    [] col = "Varchar" -> Texts
    [] col = "Binary" -> {Plain(form, 0, 0) : form \in {"uuid", "json", "blob"}}
    [] OTHER -> Numbers(Precision[col])

VARIABLES
  phase,     \* "client", "added", "stored", "fetched" or "failed"
  wrote,  \* history: the Rust type and the value a client wrote, if any
  arg,    \* the OdbcArgumentValue
  cell,   \* the database: column type and content
  row     \* the OdbcValueKind fetched, and whether it is 16 bytes long

vars == <<phase, wrote, arg, cell, row>>

Nothing == Plain("none", 0, 0)
NoWrite == [type |-> "none", value |-> Nothing]
NoArg == Argument("none", Nothing)
NoCell == [col |-> "none", content |-> Nothing]
Fetched(kind, content, sixteen) ==
  [kind |-> kind, content |-> content, sixteen |-> sixteen]
NoRow == Fetched("none", Nothing, FALSE)

Init ==
  /\ phase = "client"
  /\ wrote = NoWrite /\ arg = NoArg /\ cell = NoCell /\ row = NoRow

-----------------------------------------------------------------------------

\* arguments.add(value).
Add(T, value) ==
  /\ phase = "client"
  /\ phase' = "added"
  /\ wrote' = [type |-> T, value |-> value]
  /\ arg' = IF T \in TemporalType THEN EncodeTemporal(T, value)
                                  ELSE EncodeContent(T, value)
  /\ UNCHANGED <<cell, row>>

\* What the driver makes of a parameter in a column.  A timestamp parameter
\* is declared with microseconds; a column without time zones drops an offset
\* or converts to UTC; a number is rounded; a text is kept.
Stored(p, col) ==
  CASE p.content.form = "datetime"
         /\ (col = "Timestamp" \/ (col = "Varchar" /\ p.kind = "Timestamp")) ->
         {Plain("datetime", p.content.at, f) :
            f \in {p.content.frac, Micros(p.content.frac)}}
    [] col = "Timestamp" /\ p.content.form = "offset" ->
         {Plain("datetime", a, p.content.frac) :
            a \in {p.content.at, p.content.at - p.content.offset}}
    [] col = "Time" /\ p.content.form = "time" -> {Plain("time", p.content.at, 0)}
    [] col \in NumberKind -> {Rounded(p.content, Precision[col])}
    [] OTHER -> {p.content}

Store(col) ==
  /\ phase = "added"
  /\ col = "BigInt" => arg.content.frac = 0
  /\ \E content \in Stored(arg, col) \cap Holds(col) :
       cell' = [col |-> col, content |-> content]
  /\ phase' = "stored"
  /\ UNCHANGED <<wrote, arg, row>>

\* The column cannot hold the parameter, or the driver does not convert it.
Refuse ==
  /\ phase = "added"
  /\ phase' = "failed"
  /\ UNCHANGED <<wrote, arg, cell, row>>

\* A row that another program wrote.
Existing(col) ==
  /\ phase = "client"
  /\ \E content \in Holds(col) : cell' = [col |-> col, content |-> content]
  /\ phase' = "stored"
  /\ UNCHANGED <<wrote, arg, row>>

\* Texts and bytes of any content may be 16 bytes long, but not an identifier
\* and not a moment of RFC 3339, which take more.
Sixteen(kind, c) ==
  IF kind \in {"Text", "Binary"} /\ c.form \notin {"uuid", "offset"}
  THEN BOOLEAN ELSE {FALSE}

\* fetch_value, and map_buffer_desc in buffered mode, agree on the kinds of
\* these columns: what is not a fixed-size type is fetched as text.
Fetch ==
  /\ phase = "stored"
  /\ phase' = "fetched"
  /\ LET kind == IF cell.col \in {"Numeric", "Varchar"} THEN "Text" ELSE cell.col
     IN  \E sixteen \in Sixteen(kind, cell.content) :
           row' = Fetched(kind, cell.content, sixteen)
  /\ UNCHANGED <<wrote, arg, cell>>

Next ==
  \/ \E T \in Type : \E value \in Values(T) : Add(T, value)
  \/ \E col \in Column : Store(col) \/ Existing(col)
  \/ Refuse
  \/ Fetch

Spec == Init /\ [][Next]_vars

-----------------------------------------------------------------------------
(* Reading: try_get::<T> on what was fetched.                              *)

Accepts(T) == IF T \in TemporalType THEN TemporalAccepts(T) ELSE ContentAccepts(T)

Decode(T) ==
  IF T \in TemporalType THEN DecodeTemporal(T, row.kind, row.content)
                        ELSE DecodeContent(T, row.kind, row.content, row.sixteen)

TryGet(T) ==
  IF row.kind \notin Accepts(T) \/ (T = "Any" /\ cell.col \notin AnyColumn)
  THEN Error ELSE Decode(T)

Readable(T) == phase = "fetched" /\ TryGet(T).ok

\* What the types that can read the row make of it.
Readings(types) ==
  {[type |-> T, value |-> TryGet(T).value] : T \in {T \in types : Readable(T)}}

-----------------------------------------------------------------------------
(* Properties.                                                             *)

\* Every variable has its type; no structure has a year beyond an i16.
TypeOK ==
  /\ phase \in {"client", "added", "stored", "fetched", "failed"}
  /\ wrote # NoWrite => wrote.type \in Type
  /\ cell # NoCell => cell.col \in Column /\ cell.content \in Holds(cell.col)
  /\ row # NoRow => row.content = cell.content
  /\ arg # NoArg => arg.kind \in TemporalKind \cup NumberKind \cup {"Text", "Binary"}
  /\ arg.kind = "Date" => arg.content.at \in Days16
  /\ arg.kind = "Timestamp" => arg.content.at \in Seconds16

\* A year beyond i16 was written through a structure.
Wrapped ==
  LET local == wrote.value.at + wrote.value.offset
  IN  \/ wrote.type = "NaiveDate" /\ local \notin Days16
      \/ wrote.type \in {"NaiveDateTime", "Local"} /\ local \notin Seconds16

\* A date is read as the date that was written, by all types of both crates,
\* from structures and from texts.
DateIsRead ==
  wrote.type \in DateType /\ ~Wrapped =>
    \A r \in Readings(DateType) : r.value.at = wrote.value.at

\* A time of day is read as the second that was written; its fraction only
\* survives as a text, which NaiveTime never is.
TimeIsRead ==
  wrote.type \in TimeType =>
    \A r \in Readings(TimeType) :
      /\ r.value.at = wrote.value.at
      /\ r.value.frac = IF cell.col = "Varchar" /\ wrote.type # "NaiveTime"
                        THEN wrote.value.frac ELSE 0

\* How far a read moment may be from the one written: a DateTime<Local> is
\* written as local time and read as UTC; a DateTime<FixedOffset> loses the
\* seconds of its offset, but not of its local time, and depends on what the
\* column makes of the offset, which PrimitiveDateTime ignores.
Shifts(reader) ==
  LET offset == wrote.value.offset
      lost == offset - MinuteOffset(offset)
  IN  CASE wrote.type = "Local" -> {LocalOffset}
        [] wrote.type = "FixedOffset" /\ cell.col = "Timestamp" -> {lost, offset}
        [] wrote.type = "FixedOffset" /\ cell.col # "Timestamp" ->
             {IF reader = "PrimitiveDateTime" THEN offset ELSE lost}
        [] OTHER -> {0}

\* A moment is read as the same instant, whichever types of the two crates
\* wrote and read it and however it was stored, but for the shifts above and
\* for what is finer than a microsecond of a timestamp column or parameter.
InstantIsRead ==
  wrote.type \in LocalType \cup ZonedType /\ ~Wrapped =>
    \A r \in Readings(LocalType \cup ZonedType) :
      /\ r.value.at - wrote.value.at \in Shifts(r.type)
      /\ \/ r.value.frac = wrote.value.frac
         \/ /\ \/ cell.col = "Timestamp"
               \/ wrote.type \in {"NaiveDateTime", "Local", "SysTimestamp"}
            /\ r.value.frac = Micros(wrote.value.frac)

\* What a type writes into a column of its own type or of text it can read
\* back, but for the times of day that time writes with a one-digit hour and
\* odbc_api's structures, which are never read from a text.
OwnValueIsReadable ==
  phase = "fetched" /\ wrote.type # "none" /\ cell.col \in {OwnColumn(wrote.type), "Varchar"}
    => \/ Readable(wrote.type)
       \/ /\ wrote.type \in {"Time", "PrimitiveDateTime", "OffsetDateTime"}
          /\ cell.col = "Varchar" /\ ~row.content.pad
       \/ wrote.type \in {"SysDate", "SysTime", "SysTimestamp"} /\ cell.col = "Varchar"

\* Whether two readings are of the same date, time of day or instant.
SameMoment(r, s) ==
  CASE {r.type, s.type} \subseteq DateType -> r.value.at = s.value.at
    [] {r.type, s.type} \subseteq TimeType -> r.value = s.value
    [] r.type \in DateType /\ s.type \in LocalType ->
         r.value.at = s.value.at \div DaySeconds
    [] {r.type, s.type} \subseteq LocalType \cup ZonedType ->
         r.value.at = s.value.at /\ r.value.frac = s.value.frac
    [] OTHER -> TRUE

\* Two types that both read a row, of whichever crates, agree on its date, its
\* time of day or its instant, whoever wrote it.  A number is the exception:
\* it is the same date to all only as YYYYMMDD of a year from 1900 to 3000;
\* an offset is the other one, which PrimitiveDateTime ignores.
CratesAgree ==
  LET readings == Readings(TemporalType)
  IN  \A r, s \in readings :
        \/ SameMoment(r, s)
        \/ /\ IsNum(row.kind, row.content)
           /\ ({r.type, s.type} \subseteq DateType => ~InCodeRange(row.content.at))
        \/ "PrimitiveDateTime" \in {r.type, s.type} /\ row.content.offset # 0

\* A number is rounded to the least precision on its way and to nothing less:
\* a decimal never passes through a float unless its column or reader is one.
NumberIsRead ==
  LET numeric == NumberType \cup {"Json", "Any"}
  IN  wrote.type \in numeric =>
        \A r \in Readings(numeric) :
          wrote.value.form = "number" =>
            /\ r.value.at = wrote.value.at
            /\ r.value.frac =
                 Smaller(wrote.value.frac,
                         Smaller(Precision[r.type], Precision[cell.col]))

\* Text, bytes, identifiers and documents are read as what was written, and
\* nothing else is read as an identifier; but any text or bytes of length 16
\* are, numbers and documents included.
ContentIsRead ==
  wrote.type \in ContentType =>
    \A r \in Readings({"text", "bytes", "Uuid", "Json", "Any"}) :
      \/ r.type = "Uuid" /\ row.sixteen
      \/ r.type # "Uuid" /\ wrote.value.form = "number"
      \/ r.value = wrote.value
=============================================================================
