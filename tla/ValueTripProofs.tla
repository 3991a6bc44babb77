-------------------------- MODULE ValueTripProofs --------------------------
(***************************************************************************)
(* What was written is what is read, for every calendar, every range of    *)
(* the crates' dates and every offset.                                     *)
(***************************************************************************)
EXTENDS ValueTrip, TLAPS

-----------------------------------------------------------------------------
(* The inductive invariant.                                                *)

Encoded ==
  IF wrote.type \in TemporalType THEN EncodeTemporal(wrote.type, wrote.value)
                                 ELSE EncodeContent(wrote.type, wrote.value)

\* What is fetched is what the column holds, which is one of the things the
\* driver makes of what the client encoded.
TripInv ==
  /\ phase = "client" => wrote = NoWrite
  /\ wrote # NoWrite => wrote.type \in Type /\ wrote.value \in Values(wrote.type)
  /\ phase = "added" => arg = Encoded
  /\ phase \in {"stored", "fetched"} =>
       /\ cell.col \in Column /\ cell.content \in Holds(cell.col)
       /\ wrote # NoWrite => cell.content \in Stored(Encoded, cell.col)
  /\ phase = "fetched" =>
       /\ row.kind = IF cell.col \in {"Numeric", "Varchar"} THEN "Text" ELSE cell.col
       /\ row.content = cell.content
       /\ row.sixteen \in Sixteen(row.kind, row.content)

\* The inductive invariant holds in every reachable state.
THEOREM Inductive == Spec => []TripInv
<1>1. Init => TripInv
  <2> SUFFICES ASSUME Init PROVE TripInv
    OBVIOUS
  <2>1. phase = "client" /\ wrote = NoWrite
    BY DEF Init
  <2>2. phase \notin {"added", "stored", "fetched"}
    BY <2>1
  <2> QED
    BY <2>1, <2>2 DEF TripInv
<1>2. TripInv /\ [Next]_vars => TripInv'
  <2> SUFFICES ASSUME TripInv, [Next]_vars PROVE TripInv'
    OBVIOUS
  <2>1. ASSUME NEW T \in Type, NEW value \in Values(T), Add(T, value)
        PROVE  TripInv'
    <3>1. phase' = "added" /\ wrote'.type = T /\ wrote'.value = value
      BY <2>1 DEF Add
    <3>2. arg' = Encoded'
      BY <2>1, <3>1 DEF Add, Encoded
    <3> QED
      BY <3>1, <3>2 DEF TripInv
  <2>2. ASSUME NEW col \in Column, Store(col)
        PROVE  TripInv'
    <3>1. PICK content \in Stored(arg, col) \cap Holds(col) :
            cell' = [col |-> col, content |-> content]
      BY <2>2 DEF Store
    <3>2. phase = "added" /\ phase' = "stored" /\ UNCHANGED <<wrote, arg, row>>
      BY <2>2 DEF Store
    <3>3. arg = Encoded /\ Encoded' = Encoded
      BY <3>2 DEF TripInv, Encoded
    <3>4. cell'.col = col /\ cell'.content = content
      BY <3>1
    <3>5. cell'.content \in Stored(Encoded, col)' /\ cell'.content \in Holds(col)
      BY <3>1, <3>3, <3>4 DEF Stored
    <3> QED
      BY <3>2, <3>4, <3>5 DEF TripInv
  <2>3. ASSUME NEW col \in Column, Existing(col)
        PROVE  TripInv'
    <3>1. PICK content \in Holds(col) : cell' = [col |-> col, content |-> content]
      BY <2>3 DEF Existing
    <3>2. phase = "client" /\ phase' = "stored" /\ UNCHANGED <<wrote, arg, row>>
      BY <2>3 DEF Existing
    <3> QED
      BY <3>1, <3>2 DEF TripInv
  <2>4. CASE Refuse
    BY <2>4 DEF Refuse, TripInv
  <2>5. CASE Fetch
    <3>1. phase = "stored" /\ phase' = "fetched" /\ UNCHANGED <<wrote, arg, cell>>
      BY <2>5 DEF Fetch
    <3>2. Encoded' = Encoded
      BY <3>1 DEF Encoded
    <3> DEFINE kind == IF cell.col \in {"Numeric", "Varchar"} THEN "Text" ELSE cell.col
    <3>3. PICK sixteen \in Sixteen(kind, cell.content) :
            row' = Fetched(kind, cell.content, sixteen)
      BY <2>5 DEF Fetch
    <3>4. row'.kind = kind /\ row'.content = cell.content /\ row'.sixteen = sixteen
      BY <3>3 DEF Fetched
    <3>5. row'.sixteen \in Sixteen(row.kind, row.content)'
      BY <3>3, <3>4 DEF Sixteen
    <3> QED
      BY <3>1, <3>2, <3>4, <3>5 DEF TripInv
  <2>6. CASE UNCHANGED vars
    <3>1. Encoded' = Encoded
      BY <2>6 DEF vars, Encoded
    <3> QED
      BY <2>6, <3>1 DEF vars, TripInv
  <2> QED
    BY <2>1, <2>2, <2>3, <2>4, <2>5, <2>6 DEF Next
<1> QED
  BY <1>1, <1>2, PTL DEF Spec

-----------------------------------------------------------------------------
(* Types, and what narrowing a year to 16 bits does.                       *)

LEMMA TimesMonotonic ==
  ASSUME NEW a \in Int, NEW b \in Int, NEW n \in Nat, a <= b
  PROVE  a * n <= b * n
OBVIOUS

\* `as i16` yields a year in range that is whole turns of the range away.
LEMMA NarrowedDay ==
  ASSUME NEW day \in Int
  PROVE  /\ WrapDay(day) \in Days16
         /\ \E turns \in Int :
              WrapDay(day) = day + turns * (2 * (MaxYear16 + 1) * Days)
<1> DEFINE half == (MaxYear16 + 1) * Days
<1>1. MaxYear16 \in Nat /\ Days \in Nat /\ Days > 0
  BY CalendarAssumption
<1>2. half \in Nat /\ half > 0
  BY <1>1
<1>3. Days16 = (-half)..(half - 1)
  BY <1>1 DEF Days16, DaysOf
<1>4. 2 * (MaxYear16 + 1) * Days = 2 * half
  BY <1>1
<1>5. CASE day \in Days16
  <2>1. WrapDay(day) = day
    BY <1>5 DEF WrapDay
  <2>2. day = day + 0 * (2 * half)
    BY <1>2
  <2> QED
    BY <1>4, <1>5, <2>1, <2>2
<1>6. CASE day \notin Days16
  <2>1. WrapDay(day) = ((day + half) % (2 * half)) - half
    BY <1>4, <1>6 DEF WrapDay
  <2> HIDE DEF half
  <2>2. (day + half) % (2 * half) \in 0..(2 * half - 1)
    BY <1>2
  <2>3. (day + half) \div (2 * half) \in Int
    BY <1>2
  <2>4. day + half = ((2 * half) * ((day + half) \div (2 * half))) + ((day + half) % (2 * half))
    BY <1>2
  <2>5. PICK q \in Int : day + half = ((2 * half) * q) + ((day + half) % (2 * half))
    BY <2>3, <2>4
  <2>6. (-q) * (2 * half) = -((2 * half) * q)
    BY <1>2
  <2>7. WrapDay(day) = day + ((-q) * (2 * half))
    BY <1>2, <2>1, <2>2, <2>5, <2>6
  <2>8. WrapDay(day) \in Days16
    BY <1>2, <1>3, <2>1, <2>2
  <2> QED
    BY <1>4, <2>7, <2>8
<1> QED
  BY <1>5, <1>6

\* The time of day is kept.
LEMMA NarrowedSecond ==
  ASSUME NEW at \in Int
  PROVE  WrapSecond(at) \in Seconds16
<1> DEFINE half == (MaxYear16 + 1) * Days
<1>1. /\ MaxYear16 \in Nat /\ Days \in Nat /\ DaySeconds \in Nat /\ DaySeconds > 0
      /\ half \in Nat
  BY CalendarAssumption
<1>2. Days16 = (-half)..(half - 1)
  BY <1>1 DEF Days16, DaysOf
<1>3. Seconds16 = (-(half * DaySeconds))..(half * DaySeconds - 1)
  BY <1>1 DEF Seconds16, SecondsOf
<1>4. CASE at \notin Seconds16
  <2> DEFINE day == WrapDay(at \div DaySeconds)
             second == at % DaySeconds
  <2>1. WrapSecond(at) = day * DaySeconds + second
    BY <1>4 DEF WrapSecond
  <2>2. at \div DaySeconds \in Int /\ second \in 0..(DaySeconds - 1)
    BY <1>1
  <2>3. day \in (-half)..(half - 1)
    BY <1>2, <2>2, NarrowedDay
  <2> HIDE DEF half, day, second
  <2>4. /\ (-half) * DaySeconds <= day * DaySeconds
        /\ day * DaySeconds <= (half - 1) * DaySeconds
    BY <1>1, <2>3, TimesMonotonic
  <2>5. /\ (-half) * DaySeconds = -(half * DaySeconds)
        /\ (half - 1) * DaySeconds = half * DaySeconds - DaySeconds
        /\ day * DaySeconds \in Int /\ half * DaySeconds \in Int
    BY <1>1, <2>3
  <2> QED
    BY <1>1, <1>3, <2>1, <2>2, <2>4, <2>5
<1> QED
  BY <1>4 DEF WrapSecond

LEMMA MomentParts ==
  ASSUME NEW at, NEW frac, NEW offset
  PROVE  /\ Moment(at, frac, offset).at = at /\ Moment(at, frac, offset).frac = frac
         /\ Moment(at, frac, offset).offset = offset
BY DEF Moment

\* A parameter is of one of the kinds, and structures have years of 16 bits.
ArgOK(p) ==
  /\ p.kind \in TemporalKind \cup NumberKind \cup {"Text", "Binary"}
  /\ p.kind = "Date" => p.content.at \in Days16
  /\ p.kind = "Timestamp" => p.content.at \in Seconds16

LEMMA EncodedArg ==
  ASSUME NEW T \in Type, NEW v \in Values(T)
  PROVE  ArgOK(IF T \in TemporalType THEN EncodeTemporal(T, v) ELSE EncodeContent(T, v))
<1>1. /\ Seconds16 \subseteq Int /\ Days16 \subseteq Int
      /\ SecondsOf(-MaxChrono, MaxChrono) \subseteq Int
      /\ DaysOf(-MaxChrono, MaxChrono) \subseteq Int /\ LocalOffset \in Int
  BY CalendarAssumption DEF Seconds16, Days16, SecondsOf, DaysOf
<1>2. \A at, frac :
        Structure(T, at, frac) =
          CASE T \in DateType -> Argument("Date", Plain("date", at, 0))
            [] T \in TimeType -> Argument("Time", Plain("time", at, 0))
            [] OTHER -> Argument("Timestamp", Plain("datetime", at, frac))
  BY DEF Structure
<1>3. \A form, at, frac : Plain(form, at, frac).at = at
  BY DEF Plain, Content
<1>4. \A kind, content : Argument(kind, content).kind = kind
                         /\ Argument(kind, content).content = content
  BY DEF Argument
<1>5. \A content : ArgOK(Argument("Text", content))
  BY <1>4 DEF ArgOK
<1>6. ASSUME T \in DateType, NEW at \in Days16, NEW frac PROVE ArgOK(Structure(T, at, frac))
  <2>1. Structure(T, at, frac) = Argument("Date", Plain("date", at, 0))
    BY <1>2, <1>6 DEF DateType, TimeType
  <2> QED
    BY <1>3, <1>4, <2>1 DEF ArgOK, TemporalKind
<1>7. ASSUME T \in TimeType, NEW at, NEW frac PROVE ArgOK(Structure(T, at, frac))
  <2>1. Structure(T, at, frac) = Argument("Time", Plain("time", at, 0))
    BY <1>2, <1>7 DEF DateType, TimeType
  <2> QED
    BY <1>4, <2>1 DEF ArgOK, TemporalKind
<1>8. ASSUME T \notin DateType \cup TimeType, NEW at \in Seconds16, NEW frac
      PROVE  ArgOK(Structure(T, at, frac))
  <2>1. Structure(T, at, frac) = Argument("Timestamp", Plain("datetime", at, frac))
    BY <1>2, <1>8
  <2> QED
    BY <1>3, <1>4, <2>1 DEF ArgOK, TemporalKind
<1>9. CASE T \in SysType
  <2>1. EncodeTemporal(T, v) = Structure(T, v.at, v.frac)
    BY <1>9 DEF EncodeTemporal, SysType, TimeCrate
  <2>2. /\ T = "SysDate" => v.at \in Days16
        /\ T = "SysTimestamp" => v.at \in Seconds16
    <3>1. T = "SysDate" => Values(T) = Moments(Days16, {0}, {0})
      BY DEF Values, NumberType
    <3>2. T = "SysTimestamp" => Values(T) = Moments(Seconds16, Fraction, {0})
      BY DEF Values, NumberType
    <3> QED
      BY <3>1, <3>2, MomentParts DEF Moments
  <2> QED
    BY <1>6, <1>7, <1>8, <1>9, <2>1, <2>2
       DEF SysType, TemporalType, DateType, TimeType, LocalType
<1>10. CASE T \in TimeCrate
  <2>1. EncodeTemporal(T, v) = EncodeTime(T, v)
    BY <1>10 DEF EncodeTemporal, SysType, TimeCrate
  <2> QED
    BY <1>5, <1>10, <2>1
       DEF EncodeTime, TimeCrate, TemporalType, DateType, TimeType, LocalType, ZonedType
<1>11. CASE T \in TemporalType /\ T \notin SysType \cup TimeCrate
  <2>1. EncodeTemporal(T, v) = EncodeChrono(T, v)
    BY <1>11 DEF EncodeTemporal
  <2>2. CASE T = "NaiveDate"
    <3>1. Values(T) = Moments(DaysOf(-MaxChrono, MaxChrono), {0}, {0})
      BY <2>2 DEF Values, NumberType
    <3>2. v.at \in Int
      BY <1>1, <3>1, MomentParts DEF Moments
    <3>3. EncodeChrono(T, v) = Structure(T, WrapDay(v.at), 0)
      BY <2>2 DEF EncodeChrono
    <3> QED
      BY <1>6, <1>11, <2>1, <2>2, <3>2, <3>3, NarrowedDay DEF DateType
  <2>3. CASE T = "NaiveTime"
    <3>1. EncodeChrono(T, v) = Structure(T, v.at, 0)
      BY <2>3 DEF EncodeChrono
    <3> QED
      BY <1>7, <1>11, <2>1, <2>3, <3>1 DEF TimeType
  <2>4. CASE T \in {"NaiveDateTime", "Local"}
    <3>1. T = "NaiveDateTime" =>
            Values(T) = Moments(SecondsOf(-MaxChrono, MaxChrono), Fraction, {0})
      BY DEF Values, NumberType
    <3>2. T = "Local" =>
            Values(T) = Moments(SecondsOf(-MaxChrono, MaxChrono), Fraction, {LocalOffset})
      BY DEF Values, NumberType
    <3>3. T = "NaiveDateTime" => v.at + v.offset \in Int
      BY <1>1, <3>1, MomentParts DEF Moments
    <3>4. T = "Local" => v.at + v.offset \in Int
      BY <1>1, <3>2, MomentParts DEF Moments
    <3>5. EncodeChrono(T, v) = Structure(T, WrapSecond(v.at + v.offset), v.frac)
      BY <2>4 DEF EncodeChrono
    <3> QED
      BY <1>8, <1>11, <2>1, <2>4, <3>3, <3>4, <3>5, NarrowedSecond DEF DateType, TimeType
  <2>5. CASE T \in {"Utc", "FixedOffset"}
    BY <1>5, <1>11, <2>1, <2>5 DEF EncodeChrono
  <2> QED
    BY <1>11, <2>2, <2>3, <2>4, <2>5
       DEF TemporalType, DateType, TimeType, LocalType, ZonedType, SysType, TimeCrate
<1>12. CASE T \notin TemporalType
  <2>1. \A kind \in NumberKind \cup {"Text", "Binary"} :
          \A content : ArgOK(Argument(kind, content))
    BY <1>4 DEF ArgOK, NumberKind
  <2>2. ArgOK(EncodeBasic(T, v)) /\ ArgOK(EncodeSpelling(v)) /\ ArgOK(EncodeAny(v))
    BY <2>1 DEF EncodeBasic, EncodeSpelling, EncodeAny, NumberKind
  <2>3. EncodeContent(T, v) \in {EncodeBasic(T, v), EncodeSpelling(v), EncodeAny(v)}
    BY DEF EncodeContent
  <2> QED
    BY <1>12, <2>2, <2>3
<1> QED
  BY <1>9, <1>10, <1>11, <1>12

\* What TypeOK needs: nothing is fetched before it is fetched.
TypeInv == TypeOK /\ (phase # "fetched" => row = NoRow)

\* Every reachable state is well typed; narrowing a year keeps structures in
\* the range of an i16.
THEOREM Typing == Spec => []TypeOK
<1>1. Init => TypeInv
  <2> SUFFICES ASSUME Init PROVE TypeInv
    OBVIOUS
  <2>1. NoArg.kind = "none" /\ NoArg = arg
    BY DEF Init, NoArg, Argument
  <2> QED
    BY <2>1 DEF Init, TypeInv, TypeOK
<1>2. TypeInv /\ [Next]_vars => TypeInv'
  <2> SUFFICES ASSUME TypeInv, [Next]_vars PROVE TypeInv'
    OBVIOUS
  <2>1. ASSUME NEW T \in Type, NEW value \in Values(T), Add(T, value)
        PROVE  TypeInv'
    <3>1. /\ phase # "fetched" /\ phase' = "added" /\ wrote' = [type |-> T, value |-> value]
          /\ UNCHANGED <<cell, row>>
          /\ arg' = IF T \in TemporalType THEN EncodeTemporal(T, value)
                                          ELSE EncodeContent(T, value)
      BY <2>1 DEF Add
    <3>2. ArgOK(arg')
      BY <3>1, EncodedArg
    <3> QED
      BY <3>1, <3>2 DEF TypeInv, TypeOK, ArgOK
  <2>2. ASSUME NEW col \in Column, Store(col) \/ Existing(col)
        PROVE  TypeInv'
    <3>1. /\ phase # "fetched" /\ phase' = "stored" /\ UNCHANGED <<wrote, arg, row>>
          /\ \E content \in Holds(col) : cell' = [col |-> col, content |-> content]
      BY <2>2 DEF Store, Existing
    <3>2. cell'.col = col /\ cell'.content \in Holds(col) /\ row' = NoRow
      BY <3>1 DEF TypeInv
    <3> QED
      BY <3>1, <3>2 DEF TypeInv, TypeOK
  <2>3. CASE Refuse
    BY <2>3 DEF Refuse, TypeInv, TypeOK
  <2>4. CASE Fetch
    <3>1. row'.content = cell'.content
      BY <2>4 DEF Fetch, Fetched
    <3> QED
      BY <2>4, <3>1 DEF Fetch, TypeInv, TypeOK
  <2>5. CASE UNCHANGED vars
    BY <2>5 DEF vars, TypeInv, TypeOK
  <2> QED
    BY <2>1, <2>2, <2>3, <2>4, <2>5 DEF Next
<1> QED
  BY <1>1, <1>2, PTL DEF Spec, TypeInv

-----------------------------------------------------------------------------
(* What columns hold, and what is written to them.                         *)

LEMMA FormOfColumn ==
  ASSUME NEW col \in Column, NEW c \in Holds(col)
  PROVE  /\ col = "Date" => c.form = "date"
         /\ col = "Time" => c.form = "time"
         /\ col = "Timestamp" => c.form = "datetime"
         /\ col \in NumberKind \cup {"Numeric"} => c.form = "number"
         /\ col = "Binary" => c.form \in {"uuid", "json", "blob"}
<1>1. Column = TemporalKind \cup NumberKind \cup {"Numeric", "Varchar", "Binary"}
  BY DEF Column
<1>2. CASE col = "Date"
  BY <1>2 DEF Holds, Dates, Plain, Content, NumberKind
<1>3. CASE col = "Time"
  BY <1>3 DEF Holds, Times, Plain, Content, NumberKind
<1>4. CASE col = "Timestamp"
  BY <1>4 DEF Holds, Timestamps, Plain, Content, NumberKind
<1>5. CASE col \in NumberKind \cup {"Numeric"}
  BY <1>5 DEF Holds, Numbers, Plain, Content, NumberKind
<1>6. CASE col = "Binary"
  BY <1>6 DEF Holds, Plain, Content, NumberKind
<1>7. CASE col = "Varchar"
  BY <1>7 DEF NumberKind
<1> QED
  BY <1>1, <1>2, <1>3, <1>4, <1>5, <1>6, <1>7 DEF TemporalKind

\* A reading comes from a decoder that the type check lets at the row.
LEMMA ReadFacts ==
  ASSUME TripInv, wrote # NoWrite, NEW types, NEW r \in Readings(types)
  PROVE  /\ phase = "fetched"
         /\ r.type \in types /\ Decode(r.type).ok /\ r.value = Decode(r.type).value
         /\ row.kind \in Accepts(r.type)
         /\ r.type = "Any" => cell.col \in AnyColumn
         /\ cell.col \in Column /\ cell.content \in Holds(cell.col)
         /\ cell.content \in Stored(Encoded, cell.col)
         /\ row.content = cell.content
         /\ row.kind = IF cell.col \in {"Numeric", "Varchar"} THEN "Text" ELSE cell.col
<1>1. PICK U \in types : Readable(U) /\ r = [type |-> U, value |-> TryGet(U).value]
  BY DEF Readings
<1>2. r.type = U /\ r.value = TryGet(U).value /\ phase = "fetched" /\ TryGet(U).ok
  BY <1>1 DEF Readable
<1>3. ~Error.ok
  BY DEF Error
<1>4. /\ TryGet(U) = Decode(U) /\ row.kind \in Accepts(U)
      /\ U = "Any" => cell.col \in AnyColumn
  BY <1>2, <1>3 DEF TryGet
<1>5. /\ cell.col \in Column /\ cell.content \in Holds(cell.col)
      /\ cell.content \in Stored(Encoded, cell.col)
      /\ row.content = cell.content
      /\ row.kind = IF cell.col \in {"Numeric", "Varchar"} THEN "Text" ELSE cell.col
  BY <1>2 DEF TripInv
<1> QED
  BY <1>1, <1>2, <1>4, <1>5

\* The form of what is written survives, or the column refuses it.
LEMMA FormIsKept ==
  ASSUME NEW col \in Column, NEW p, NEW c \in Stored(p, col),
         NEW form, NEW at, NEW frac, NEW offset, NEW pad,
         p.content = Content(form, at, frac, offset, pad), form # "offset"
  PROVE  c.form = form
<1>a. p.content.form = form
  BY DEF Content
<1>1. CASE /\ p.content.form = "datetime"
           /\ col = "Timestamp" \/ (col = "Varchar" /\ p.kind = "Timestamp")
  <2>1. Stored(p, col) = {Plain("datetime", p.content.at, f) :
                            f \in {p.content.frac, Micros(p.content.frac)}}
    BY <1>1 DEF Stored, NumberKind
  <2> QED
    BY <1>1, <1>a, <2>1 DEF Plain, Content
<1>2. CASE col = "Time" /\ p.content.form = "time"
  <2>1. Stored(p, col) = {Plain("time", p.content.at, 0)}
    BY <1>2 DEF Stored, NumberKind
  <2> QED
    BY <1>2, <1>a, <2>1 DEF Plain, Content
<1>3. CASE col \in NumberKind
  <2>1. Stored(p, col) = {Rounded(p.content, Precision[col])}
    BY <1>3 DEF Stored, NumberKind
  <2> QED
    BY <2>1 DEF Rounded, Content
<1>4. CASE /\ ~(/\ p.content.form = "datetime"
                /\ col = "Timestamp" \/ (col = "Varchar" /\ p.kind = "Timestamp"))
           /\ ~(col = "Time" /\ p.content.form = "time") /\ col \notin NumberKind
  <2>1. Stored(p, col) = {p.content}
    BY <1>4, <1>a DEF Stored
  <2> QED
    BY <1>a, <2>1
<1> QED
  BY <1>1, <1>2, <1>3, <1>4

-----------------------------------------------------------------------------
(* Dates.                                                                  *)

LEMMA DateValues ==
  ASSUME NEW T \in DateType, NEW v \in Values(T)
  PROVE  v.at \in Int /\ v.frac = 0 /\ v.offset = 0
<1>1. \A a, b \in Int : DaysOf(a, b) \subseteq Int
  BY CalendarAssumption DEF DaysOf
<1>2. Days16 \subseteq Int /\ TimeDays \subseteq Int /\ DaysOf(-MaxChrono, MaxChrono) \subseteq Int
  BY <1>1, CalendarAssumption DEF Days16, TimeDays
<1>3. \E S : S \subseteq Int /\ Values(T) = Moments(S, {0}, {0})
  <2>1. CASE T = "NaiveDate"
    <3>1. Values(T) = Moments(DaysOf(-MaxChrono, MaxChrono), {0}, {0})
      BY <2>1 DEF Values, NumberType
    <3> QED
      BY <3>1, <1>2
  <2>2. CASE T = "SysDate"
    <3>1. Values(T) = Moments(Days16, {0}, {0})
      BY <2>2 DEF Values, NumberType
    <3> QED
      BY <3>1, <1>2
  <2>3. CASE T = "Date"
    <3>1. Values(T) = Moments(TimeDays, {0}, {0})
      BY <2>3 DEF Values, NumberType
    <3> QED
      BY <3>1, <1>2
  <2> QED
    BY <2>1, <2>2, <2>3 DEF DateType
<1>4. PICK S : S \subseteq Int /\ Values(T) = Moments(S, {0}, {0})
  BY <1>3
<1> QED
  BY <1>4 DEF Moments, Moment

\* A date is written as itself, as a structure or as a text.
LEMMA DateEncoded ==
  ASSUME NEW T \in DateType, NEW v, v.offset = 0, v.at \in Int,
         T = "NaiveDate" => v.at \in Days16
  PROVE  EncodeTemporal(T, v).content = Plain("date", v.at, 0)
<1>1. T = "NaiveDate" => WrapDay(v.at) = v.at
  BY DEF WrapDay
<1>2. \A frac : Structure(T, v.at, frac).content = Plain("date", v.at, 0)
  BY DEF Structure, Argument, DateType, TimeType
<1>3. CASE T = "NaiveDate"
  <2>1. EncodeTemporal(T, v) = EncodeChrono(T, v)
    BY <1>3 DEF EncodeTemporal, SysType, TimeCrate
  <2>2. EncodeChrono(T, v) = Structure(T, WrapDay(v.at), 0)
    BY <1>3 DEF EncodeChrono
  <2> QED
    BY <1>1, <1>2, <1>3, <2>1, <2>2
<1>4. CASE T = "SysDate"
  <2>1. EncodeTemporal(T, v) = Structure(T, v.at, v.frac)
    BY <1>4 DEF EncodeTemporal, SysType, TimeCrate
  <2> QED
    BY <1>2, <2>1
<1>5. CASE T = "Date"
  <2>1. EncodeTemporal(T, v) = EncodeTime(T, v)
    BY <1>5 DEF EncodeTemporal, SysType, TimeCrate
  <2>2. EncodeTime(T, v).content = Plain("date", v.at, 0)
    BY <1>5 DEF EncodeTime, Argument
  <2> QED
    BY <2>1, <2>2
<1> QED
  BY <1>3, <1>4, <1>5 DEF DateType

LEMMA DateRead ==
  ASSUME NEW T \in DateType, NEW kind \in {"Date", "Text"}, NEW at \in Int,
         DecodeTemporal(T, kind, Plain("date", at, 0)).ok
  PROVE  DecodeTemporal(T, kind, Plain("date", at, 0)).value.at = at
<1> DEFINE c == Plain("date", at, 0)
<1>1. c.form = "date" /\ c.at = at
  BY DEF Plain, Content
<1> HIDE DEF c
<1>2. ~IsNum(kind, c) /\ ~IsInt(kind, c)
  BY <1>1 DEF IsNum, IsInt, IsText, NumberKind
<1>3. DecodeNaiveDate(kind, c) = When(at, 0)
  <2>1. kind = "Date" \/ IsText(kind, c, {"date"})
    BY <1>1 DEF IsText
  <2>2. ~IsText(kind, c, {"digits"})
    BY <1>1 DEF IsText
  <2> QED
    BY <1>1, <1>2, <2>1, <2>2 DEF DecodeNaiveDate
<1>4. DecodeDate(kind, c) \in {When(at, 0), Error}
  BY <1>1, <1>2 DEF DecodeDate, IsIso, IsText
<1>5. DecodeSys(T, kind, c) \in {When(at, c.frac), Error}
  BY <1>1 DEF DecodeSys
<1>6. DecodeTemporal(T, kind, c) \in {When(at, 0), When(at, c.frac), Error}
  BY <1>3, <1>4, <1>5 DEF DecodeTemporal, DateType
<1> QED
  BY <1>6 DEF When, Some, Error, Moment, c

\* Whichever type is asked for, Decode gives the date that Encode was given, or
\* an error.
THEOREM DateSafe == Spec => []DateIsRead
<1>1. TripInv => DateIsRead
  <2> SUFFICES ASSUME TripInv, wrote.type \in DateType, ~Wrapped,
                      NEW r \in Readings(DateType)
               PROVE  r.value.at = wrote.value.at
    BY DEF DateIsRead
  <2> DEFINE T == wrote.type
             v == wrote.value
             c == Plain("date", v.at, 0)
  <2>1. T \in TemporalType /\ wrote # NoWrite
    BY DEF TemporalType, DateType, NoWrite
  <2>2. v \in Values(T)
    BY <2>1 DEF TripInv
  <2>3. v.at \in Int /\ v.frac = 0 /\ v.offset = 0
    BY <2>2, DateValues
  <2>4. T = "NaiveDate" => v.at \in Days16
    BY <2>3 DEF Wrapped
  <2>5. Encoded.content = c
    BY <2>1, <2>3, <2>4, DateEncoded DEF Encoded
  <2>6. /\ r.type \in DateType /\ Decode(r.type).ok /\ r.value = Decode(r.type).value
        /\ cell.col \in Column /\ cell.content \in Holds(cell.col)
        /\ cell.content \in Stored(Encoded, cell.col)
        /\ row.content = cell.content
        /\ row.kind = IF cell.col \in {"Numeric", "Varchar"} THEN "Text" ELSE cell.col
    BY <2>1, ReadFacts
  <2>7. c.form = "date"
    BY DEF Plain, Content
  <2>8. cell.content.form = "date"
    BY <2>5, <2>6, FormIsKept DEF Plain
  <2>9. cell.col \in {"Date", "Varchar"}
    BY <2>6, <2>8, FormOfColumn DEF Column, TemporalKind
  <2>10. row.content = c
    BY <2>5, <2>6, <2>7, <2>9 DEF Stored, NumberKind
  <2>11. row.kind \in {"Date", "Text"}
    BY <2>6, <2>9
  <2>12. Decode(r.type) = DecodeTemporal(r.type, row.kind, c)
    BY <2>6, <2>10 DEF Decode, TemporalType
  <2> QED
    BY <2>3, <2>6, <2>11, <2>12, DateRead
<1> QED
  BY <1>1, Inductive, PTL

-----------------------------------------------------------------------------
(* Times of day.                                                           *)

\* A time of day is written as itself; only the time crate writes a fraction.
LEMMA TimeEncoded ==
  ASSUME NEW T \in TimeType, NEW v \in Values(T)
  PROVE  /\ v.at \in Int
         /\ \E pad \in BOOLEAN : EncodeTemporal(T, v).content =
              Content("time", v.at, IF T = "NaiveTime" THEN 0 ELSE v.frac, 0, pad)
<1>1. SecondOfDay \subseteq Int
  BY CalendarAssumption DEF SecondOfDay
<1>2. CASE T \in {"NaiveTime", "SysTime"}
  <2>1. /\ v.at \in Int
        /\ T = "SysTime" => v.frac = 0
    <3>1. Values(T) = Moments(SecondOfDay, IF T = "SysTime" THEN {0} ELSE Fraction, {0})
      BY <1>2 DEF Values, NumberType
    <3> QED
      BY <1>1, <3>1 DEF Moments, Moment
  <2>2. \A frac : Structure(T, v.at, frac).content = Plain("time", v.at, 0)
    BY DEF Structure, Argument, DateType, TimeType
  <2>3. EncodeTemporal(T, v).content = Plain("time", v.at, 0)
    <3>1. CASE T = "NaiveTime"
      <4>1. EncodeTemporal(T, v) = Structure(T, v.at, 0)
        BY <3>1 DEF EncodeTemporal, EncodeChrono, SysType, TimeCrate
      <4> QED
        BY <2>2, <4>1
    <3>2. CASE T = "SysTime"
      <4>1. EncodeTemporal(T, v) = Structure(T, v.at, v.frac)
        BY <3>2 DEF EncodeTemporal, SysType, TimeCrate
      <4> QED
        BY <2>2, <4>1
    <3> QED
      BY <1>2, <3>1, <3>2
  <2> QED
    BY <1>2, <2>1, <2>3 DEF Plain
<1>3. CASE T = "Time"
  <2>1. Values(T) = Moments(SecondOfDay, Fraction, {0})
    BY <1>3 DEF Values, NumberType
  <2>2. v.at \in Int
    BY <1>1, <2>1 DEF Moments, Moment
  <2>3. EncodeTemporal(T, v) = EncodeTime(T, v)
    BY <1>3 DEF EncodeTemporal, SysType, TimeCrate
  <2>4. EncodeTime(T, v).content = Content("time", v.at, v.frac, 0, Padded(v.at))
    BY <1>3 DEF EncodeTime, Argument
  <2>5. Padded(v.at) \in BOOLEAN
    BY DEF Padded
  <2> QED
    BY <1>3, <2>2, <2>3, <2>4, <2>5
<1> QED
  BY <1>2, <1>3 DEF TimeType

LEMMA TimeRead ==
  ASSUME NEW T \in TimeType, NEW kind \in {"Time", "Text"}, NEW c, c.form = "time",
         kind = "Time" => c.frac = 0, DecodeTemporal(T, kind, c).ok
  PROVE  DecodeTemporal(T, kind, c).value = Moment(c.at, c.frac, 0)
<1>1. ~IsNum(kind, c)
  BY DEF IsNum, IsText, NumberKind
<1>2. DecodeNaiveTime(kind, c) = When(c.at, c.frac)
  BY DEF DecodeNaiveTime, IsText
<1>3. DecodeTime(kind, c) \in {When(c.at, c.frac), Error}
  BY <1>1 DEF DecodeTime, IsText
<1>4. DecodeSys(T, kind, c) \in {When(c.at, c.frac), Error}
  BY DEF DecodeSys
<1>5. DecodeTemporal(T, kind, c) \in {When(c.at, c.frac), Error}
  BY <1>2, <1>3, <1>4 DEF DecodeTemporal, TimeType
<1> QED
  BY <1>5 DEF When, Some, Error

\* Decode gives the second of the day that Encode was given, with its fraction
\* where the column has room for one.
THEOREM TimeSafe == Spec => []TimeIsRead
<1>1. TripInv => TimeIsRead
  <2> DEFINE v == wrote.value
             frac == IF wrote.type = "NaiveTime" THEN 0 ELSE v.frac
  <2> SUFFICES ASSUME TripInv, wrote.type \in TimeType, NEW r \in Readings(TimeType)
               PROVE  /\ r.value.at = v.at
                      /\ r.value.frac = IF cell.col = "Varchar" /\ wrote.type # "NaiveTime"
                                        THEN v.frac ELSE 0
    BY DEF TimeIsRead
  <2>1. wrote.type \in TemporalType /\ wrote # NoWrite
    BY DEF TemporalType, TimeType, NoWrite
  <2>2. v \in Values(wrote.type)
    BY <2>1 DEF TripInv
  <2>3. Encoded = EncodeTemporal(wrote.type, v)
    BY <2>1 DEF Encoded
  <2>4. PICK pad \in BOOLEAN : Encoded.content = Content("time", v.at, frac, 0, pad)
    BY <2>2, <2>3, TimeEncoded
  <2>5. /\ Encoded.content.form = "time" /\ Encoded.content.at = v.at
        /\ Encoded.content.frac = frac
    BY <2>4 DEF Content
  <2>6. /\ r.type \in TimeType /\ Decode(r.type).ok /\ r.value = Decode(r.type).value
        /\ cell.col \in Column /\ cell.content \in Holds(cell.col)
        /\ cell.content \in Stored(Encoded, cell.col)
        /\ row.content = cell.content
        /\ row.kind = IF cell.col \in {"Numeric", "Varchar"} THEN "Text" ELSE cell.col
    BY <2>1, ReadFacts
  <2>7. cell.content.form = "time"
    BY <2>4, <2>6, FormIsKept
  <2>8. cell.col \in {"Time", "Varchar"}
    BY <2>6, <2>7, FormOfColumn DEF Column, TemporalKind
  <2>9. /\ cell.content.at = v.at
        /\ cell.content.frac = IF cell.col = "Varchar" THEN frac ELSE 0
    <3>1. CASE cell.col = "Time"
      <4>1. cell.content = Plain("time", v.at, 0)
        BY <2>5, <2>6, <3>1 DEF Stored, NumberKind
      <4> QED
        BY <3>1, <4>1 DEF Plain, Content
    <3>2. CASE cell.col = "Varchar"
      <4>1. cell.content = Encoded.content
        BY <2>5, <2>6, <3>2 DEF Stored, NumberKind
      <4> QED
        BY <2>5, <3>2, <4>1
    <3> QED
      BY <2>8, <3>1, <3>2
  <2>10. row.kind \in {"Time", "Text"} /\ (row.kind = "Time" => row.content.frac = 0)
    BY <2>6, <2>8, <2>9
  <2>11. Decode(r.type) = DecodeTemporal(r.type, row.kind, row.content)
    BY <2>6 DEF Decode, TemporalType
  <2>12. r.value = Moment(row.content.at, row.content.frac, 0)
    BY <2>6, <2>7, <2>10, <2>11, TimeRead
  <2> QED
    BY <2>6, <2>8, <2>9, <2>12 DEF Moment
<1> QED
  BY <1>1, Inductive, PTL

-----------------------------------------------------------------------------
(* Moments.                                                                *)

MomentType == LocalType \cup ZonedType

LEMMA MomentValues ==
  ASSUME NEW T \in MomentType, NEW v \in Values(T)
  PROVE  /\ v.at \in Int /\ v.frac \in Nat /\ v.offset \in Int
         /\ T \in {"NaiveDateTime", "SysTimestamp", "PrimitiveDateTime", "Utc"} =>
              v.offset = 0
         /\ T = "Local" => v.offset = LocalOffset
<1>1. \A a, b \in Int : SecondsOf(a, b) \subseteq Int
  BY CalendarAssumption DEF SecondsOf
<1>2. /\ Seconds16 \subseteq Int /\ TimeSeconds \subseteq Int
      /\ SecondsOf(-MaxChrono, MaxChrono) \subseteq Int
  BY <1>1, CalendarAssumption DEF Seconds16, TimeSeconds
<1>3. Fraction \subseteq Nat /\ Offsets \subseteq Int /\ LocalOffset \in Int
  BY OffsetAssumption, CalendarAssumption DEF Fraction, Offsets
<1>4. \A S, O, w : S \subseteq Int /\ O \subseteq Int /\ w \in Moments(S, Fraction, O)
        => w.at \in Int /\ w.frac \in Nat /\ w.offset \in O
  BY <1>3 DEF Moments, Moment
<1>5. CASE T \in {"NaiveDateTime", "Utc"}
  <2>1. Values(T) = Moments(SecondsOf(-MaxChrono, MaxChrono), Fraction, {0})
    BY <1>5 DEF Values, NumberType
  <2> QED
    BY <1>2, <1>4, <1>5, <2>1
<1>6. CASE T = "SysTimestamp"
  <2>1. Values(T) = Moments(Seconds16, Fraction, {0})
    BY <1>6 DEF Values, NumberType
  <2>2. PICK at \in Seconds16, f \in Fraction : v = Moment(at, f, 0)
    BY <2>1 DEF Moments
  <2> QED
    BY <1>2, <1>3, <1>6, <2>2 DEF Moment
<1>7. CASE T = "PrimitiveDateTime"
  <2>1. Values(T) = Moments(TimeSeconds, Fraction, {0})
    BY <1>7 DEF Values, NumberType
  <2>2. PICK at \in TimeSeconds, f \in Fraction : v = Moment(at, f, 0)
    BY <2>1 DEF Moments
  <2> QED
    BY <1>2, <1>3, <1>7, <2>2 DEF Moment
<1>8. CASE T = "FixedOffset"
  <2>1. Values(T) = Moments(SecondsOf(-MaxChrono, MaxChrono), Fraction, Offsets)
    BY <1>8 DEF Values, NumberType
  <2>2. PICK at \in SecondsOf(-MaxChrono, MaxChrono), f \in Fraction, o \in Offsets :
          v = Moment(at, f, o)
    BY <2>1 DEF Moments
  <2> QED
    BY <1>2, <1>3, <1>8, <2>2 DEF Moment
<1>9. CASE T = "Local"
  <2>1. Values(T) = Moments(SecondsOf(-MaxChrono, MaxChrono), Fraction, {LocalOffset})
    BY <1>9 DEF Values, NumberType
  <2>2. PICK at \in SecondsOf(-MaxChrono, MaxChrono), f \in Fraction :
          v = Moment(at, f, LocalOffset)
    BY <2>1 DEF Moments
  <2> QED
    BY <1>2, <1>3, <1>9, <2>2 DEF Moment
<1>10. CASE T = "OffsetDateTime"
  <2>1. Values(T) = Moments(TimeSeconds, Fraction, Offsets)
    BY <1>10 DEF Values, NumberType
  <2> QED
    BY <1>2, <1>3, <1>4, <1>10, <2>1
<1> QED
  BY <1>5, <1>6, <1>7, <1>8, <1>9, <1>10 DEF MomentType, LocalType, ZonedType

\* Whole minutes are a number; UTC is none of them.
LEMMA MinuteOffsets ==
  /\ \A offset \in Int : MinuteOffset(offset) \in Int
  /\ MinuteOffset(0) = 0
<1>1. MinuteSeconds \in Nat /\ MinuteSeconds > 0
  BY CalendarAssumption
<1>2. \A n \in Int : Minutes(n) \in Int
  BY <1>1 DEF Minutes
<1>3. Minutes(0) = 0
  <2> DEFINE half == MinuteSeconds \div 2
  <2>1. half \in 0..(MinuteSeconds - 1)
    BY <1>1
  <2>2. Minutes(0) = ((0 + half) \div MinuteSeconds) * MinuteSeconds
    BY DEF Minutes
  <2> HIDE DEF half
  <2>3. (0 + half) \div MinuteSeconds = 0
    BY <1>1, <2>1
  <2> QED
    BY <1>1, <2>2, <2>3
<1> QED
  BY <1>2, <1>3 DEF MinuteOffset

\* Only chrono's types with an offset of their own write it.
WithOffset == {"Utc", "FixedOffset"}

\* The local second that is written.
LocalSecond(T, v) == IF T \in WithOffset \cup {"Local"} THEN v.at + v.offset ELSE v.at

LEMMA MomentEncoded ==
  ASSUME NEW T \in MomentType, NEW v \in Values(T),
         T \in {"NaiveDateTime", "Local"} => v.at + v.offset \in Seconds16
  PROVE  /\ T \in WithOffset => EncodeTemporal(T, v).content =
              Content("offset", LocalSecond(T, v), v.frac, MinuteOffset(v.offset), TRUE)
         /\ T \notin WithOffset => \E pad \in BOOLEAN : EncodeTemporal(T, v).content =
              Content("datetime", LocalSecond(T, v), v.frac, 0, pad)
         /\ T \in {"PrimitiveDateTime", "OffsetDateTime"} =>
              EncodeTemporal(T, v).kind = "Text"
<1>1. v.at \in Int /\ (T = "NaiveDateTime" => v.offset = 0)
  BY MomentValues
<1>2. T \in {"SysTimestamp", "NaiveDateTime", "Local"} =>
        \A at : Structure(T, at, v.frac).content = Content("datetime", at, v.frac, 0, TRUE)
  BY DEF Structure, Argument, DateType, TimeType, Plain
<1>3. CASE T = "SysTimestamp"
  <2>1. EncodeTemporal(T, v) = Structure(T, v.at, v.frac)
    BY <1>3 DEF EncodeTemporal, SysType, TimeCrate
  <2> QED
    BY <1>2, <1>3, <2>1 DEF WithOffset, LocalSecond
<1>4. CASE T \in {"NaiveDateTime", "Local"}
  <2>1. EncodeTemporal(T, v) = EncodeChrono(T, v)
    BY <1>4 DEF EncodeTemporal, SysType, TimeCrate
  <2>2. EncodeChrono(T, v) = Structure(T, WrapSecond(v.at + v.offset), v.frac)
    BY <1>4 DEF EncodeChrono
  <2>3. WrapSecond(v.at + v.offset) = v.at + v.offset
    BY <1>4 DEF WrapSecond
  <2>4. v.at + v.offset = LocalSecond(T, v)
    BY <1>1, <1>4 DEF LocalSecond, WithOffset
  <2> QED
    BY <1>2, <1>4, <2>1, <2>2, <2>3, <2>4 DEF WithOffset
<1>5. CASE T \in WithOffset
  <2>1. EncodeTemporal(T, v) = EncodeChrono(T, v)
    BY <1>5 DEF EncodeTemporal, SysType, TimeCrate, WithOffset
  <2>2. EncodeChrono(T, v).content =
          Content("offset", v.at + v.offset, v.frac, MinuteOffset(v.offset), TRUE)
    BY <1>5 DEF EncodeChrono, WithOffset, Argument
  <2> QED
    BY <1>5, <2>1, <2>2 DEF LocalSecond, WithOffset
<1>6. CASE T \in {"PrimitiveDateTime", "OffsetDateTime"}
  <2>1. EncodeTemporal(T, v) = EncodeTime(T, v)
    BY <1>6 DEF EncodeTemporal, SysType, TimeCrate
  <2>2. EncodeTime(T, v).content =
          Content("datetime", v.at, v.frac, 0, Padded(v.at % DaySeconds))
    BY <1>6 DEF EncodeTime, Argument
  <2>3. Padded(v.at % DaySeconds) \in BOOLEAN
    BY DEF Padded
  <2>4. EncodeTime(T, v).kind = "Text"
    BY DEF EncodeTime, Argument
  <2> QED
    BY <1>6, <2>1, <2>2, <2>3, <2>4 DEF WithOffset, LocalSecond
<1> QED
  BY <1>3, <1>4, <1>5, <1>6 DEF MomentType, LocalType, ZonedType, WithOffset

\* What columns make of a moment without an offset, and of one with it.
LEMMA LocalMomentStored ==
  ASSUME NEW col \in Column, NEW at, NEW frac, NEW pad, NEW p,
         p.content = Content("datetime", at, frac, 0, pad),
         NEW c \in Stored(p, col), c \in Holds(col)
  PROVE  /\ col \in {"Timestamp", "Varchar"} /\ c.form = "datetime" /\ c.at = at
         /\ \/ c.frac = frac
            \/ /\ col = "Timestamp" \/ p.kind = "Timestamp"
               /\ c.frac = Micros(frac)
<1>1. c.form = "datetime"
  BY FormIsKept
<1>2. col \in {"Timestamp", "Varchar"}
  BY <1>1, FormOfColumn DEF Column, TemporalKind
<1>3. p.content.form = "datetime" /\ p.content.at = at /\ p.content.frac = frac
  BY DEF Content
<1>4. CASE col = "Timestamp" \/ (col = "Varchar" /\ p.kind = "Timestamp")
  <2>1. Stored(p, col) = {Plain("datetime", at, f) : f \in {frac, Micros(frac)}}
    BY <1>3, <1>4 DEF Stored, NumberKind
  <2>2. PICK f \in {frac, Micros(frac)} : c = Plain("datetime", at, f)
    BY <2>1
  <2>3. c.at = at /\ c.frac = f
    BY <2>2 DEF Plain, Content
  <2> QED
    BY <1>1, <1>2, <1>4, <2>2, <2>3
<1>5. CASE col = "Varchar" /\ p.kind # "Timestamp"
  <2>1. Stored(p, col) = {p.content}
    BY <1>3, <1>5 DEF Stored, NumberKind
  <2> QED
    BY <1>1, <1>3, <1>5, <2>1
<1> QED
  BY <1>2, <1>4, <1>5

LEMMA OffsetMomentStored ==
  ASSUME NEW col \in Column, NEW at, NEW frac, NEW offset, NEW p,
         p.content.form = "offset", p.content.at = at, p.content.frac = frac,
         p.content.offset = offset, "form" \in DOMAIN p.content,
         NEW c \in Stored(p, col), c \in Holds(col)
  PROVE  /\ c.frac = frac
         /\ \/ col = "Timestamp" /\ c.form = "datetime" /\ c.at \in {at, at - offset}
            \/ col = "Varchar" /\ c.form = "offset" /\ c.at = at /\ c.offset = offset
<1>1. /\ p.content.form = "offset" /\ p.content.at = at /\ p.content.frac = frac
      /\ p.content.offset = offset /\ "form" \in DOMAIN p.content
  OBVIOUS
<1>2. CASE col = "Timestamp"
  <2>1. Stored(p, col) = {Plain("datetime", a, frac) : a \in {at, at - offset}}
    BY <1>1, <1>2 DEF Stored, NumberKind
  <2>2. PICK a \in {at, at - offset} : c = Plain("datetime", a, frac)
    BY <2>1
  <2> QED
    BY <1>2, <2>2 DEF Plain, Content
<1>3. CASE col \in NumberKind
  <2>1. Stored(p, col) = {Rounded(p.content, Precision[col])}
    BY <1>1, <1>3 DEF Stored, NumberKind
  <2>2. c.form = "offset"
    BY <1>1, <2>1 DEF Rounded
  <2> QED
    BY <1>3, <2>2, FormOfColumn
<1>4. CASE col \notin NumberKind /\ col # "Timestamp"
  <2>1. Stored(p, col) = {p.content}
    BY <1>1, <1>4 DEF Stored
  <2>2. c.form = "offset"
    BY <1>1, <2>1
  <2>3. col = "Varchar"
    BY <1>4, <2>2, FormOfColumn DEF Column, TemporalKind
  <2> QED
    BY <1>1, <2>1, <2>3
<1> QED
  BY <1>2, <1>3, <1>4

LEMMA MomentRead ==
  ASSUME NEW T \in MomentType, NEW kind, NEW c, ~IsNum(kind, c),
         kind = "Timestamp" => c.form = "datetime",
         DecodeTemporal(T, kind, c).ok
  PROVE  LET value == DecodeTemporal(T, kind, c).value
         IN  /\ value.frac = c.frac /\ c.form \in {"datetime", "T", "offset"}
             /\ c.form # "offset" => value.at = c.at
             /\ c.form = "offset" => \/ T \in ZonedType /\ value.at = c.at - c.offset
                                     \/ T = "PrimitiveDateTime" /\ value.at = c.at
<1>1. ~Error.ok
  BY DEF Error
<1>2. \A at, frac : When(at, frac).ok /\ When(at, frac).value = Moment(at, frac, 0)
  BY DEF When, Some
<1>3. \A at, frac, offset : Moment(at, frac, offset).at = at
                            /\ Moment(at, frac, offset).frac = frac
  BY DEF Moment
<1>4. \A offset : Instant(c, offset).value = Moment(c.at - c.offset, c.frac, offset)
  BY DEF Instant, Some
<1>5. DecodeNaiveDateTime(kind, c) =
        IF kind = "Timestamp" \/ (kind = "Text" /\ c.form \in {"datetime", "T"})
        THEN When(c.at, c.frac) ELSE Error
  BY DEF DecodeNaiveDateTime, IsText
<1>6. \/ DecodePrimitiveDateTime(kind, c) = Error
      \/ /\ DecodePrimitiveDateTime(kind, c) = When(c.at, c.frac)
         /\ c.form \in {"datetime", "T", "offset"}
  <2>1. DecodePrimitiveDateTime(kind, c) = Error
        \/ kind = "Timestamp" \/ IsText(kind, c, {"datetime", "T", "offset"})
    BY DEF DecodePrimitiveDateTime, IsIso, InFormat, IsText
  <2>2. DecodePrimitiveDateTime(kind, c) \in {When(c.at, c.frac), Error}
    BY DEF DecodePrimitiveDateTime
  <2> QED
    BY <2>1, <2>2 DEF IsText
<1>7. CASE T \in {"Utc", "FixedOffset", "Local"}
  <2>1. DecodeTemporal(T, kind, c) = DecodeZoned(T, kind, c)
    BY <1>7 DEF DecodeTemporal
  <2>2. CASE IsText(kind, c, {"offset"})
    <3>1. \E offset : DecodeZoned(T, kind, c) = Instant(c, offset)
      <4>1. ~DecodeNaiveDateTime(kind, c).ok
        BY <1>1, <1>5, <2>2 DEF IsText
      <4> QED
        BY <2>2, <4>1 DEF DecodeZoned
    <3>2. c.form = "offset"
      BY <2>2 DEF IsText
    <3> QED
      BY <1>3, <1>4, <1>7, <2>1, <3>1, <3>2 DEF ZonedType
  <2>3. CASE ~IsText(kind, c, {"offset"})
    <3>1. DecodeNaiveDateTime(kind, c).ok
      BY <1>1, <2>1, <2>3 DEF DecodeZoned
    <3>2. c.form \in {"datetime", "T"} /\ DecodeNaiveDateTime(kind, c) = When(c.at, c.frac)
      BY <1>1, <1>5, <3>1
    <3>3. DecodeZoned(T, kind, c) =
            Some([Moment(c.at, c.frac, 0) EXCEPT
                    !.offset = IF T = "Local" THEN LocalOffset ELSE 0])
      BY <1>2, <2>3, <3>1, <3>2 DEF DecodeZoned
    <3> QED
      BY <2>1, <3>2, <3>3 DEF Some, Moment
  <2> QED
    BY <2>2, <2>3
<1>8. CASE T = "OffsetDateTime"
  <2>1. DecodeTemporal(T, kind, c) = DecodeOffsetDateTime(kind, c)
    BY <1>8 DEF DecodeTemporal
  <2>2. CASE IsIso(kind, c) /\ c.form = "offset"
    <3>1. DecodeOffsetDateTime(kind, c) = Instant(c, c.offset) /\ c.form = "offset"
      BY <2>2 DEF DecodeOffsetDateTime
    <3> QED
      BY <1>3, <1>4, <1>8, <2>1, <3>1 DEF ZonedType
  <2>3. CASE ~(IsIso(kind, c) /\ c.form = "offset")
    <3>1. DecodeOffsetDateTime(kind, c) = DecodePrimitiveDateTime(kind, c)
      BY <2>3 DEF DecodeOffsetDateTime
    <3>2. /\ DecodePrimitiveDateTime(kind, c) = When(c.at, c.frac)
          /\ c.form \in {"datetime", "T", "offset"}
      BY <1>1, <1>6, <2>1, <3>1
    <3>3. c.form # "offset"
      <4> SUFFICES ASSUME c.form = "offset" PROVE FALSE
        OBVIOUS
      <4>1. DecodePrimitiveDateTime(kind, c) = Error
        BY <2>3 DEF DecodePrimitiveDateTime, InFormat, IsText
      <4> QED
        BY <1>1, <2>1, <3>1, <4>1
    <3> QED
      BY <1>2, <1>3, <2>1, <3>1, <3>2, <3>3
  <2> QED
    BY <2>2, <2>3
<1>9. CASE T = "PrimitiveDateTime"
  <2>1. DecodeTemporal(T, kind, c) = DecodePrimitiveDateTime(kind, c)
    BY <1>9 DEF DecodeTemporal
  <2> QED
    BY <1>1, <1>2, <1>3, <1>6, <1>9, <2>1
<1>10. CASE T = "NaiveDateTime"
  <2>1. DecodeTemporal(T, kind, c) = DecodeNaiveDateTime(kind, c)
    BY <1>10 DEF DecodeTemporal
  <2> QED
    BY <1>1, <1>2, <1>3, <1>5, <2>1
<1>11. CASE T = "SysTimestamp"
  <2>1. DecodeTemporal(T, kind, c) = DecodeSys(T, kind, c)
    BY <1>11 DEF DecodeTemporal
  <2>2. DecodeSys(T, kind, c) = IF kind = "Timestamp" THEN When(c.at, c.frac) ELSE Error
    BY <1>11 DEF DecodeSys, TemporalColumn, DateType, TimeType
  <2> QED
    BY <1>1, <1>2, <1>3, <2>1, <2>2
<1> QED
  BY <1>7, <1>8, <1>9, <1>10, <1>11 DEF MomentType, LocalType, ZonedType

\* Decode gives the instant that Encode was given, up to the shifts that drivers
\* and types without an offset make.
THEOREM InstantSafe == Spec => []InstantIsRead
<1>1. TripInv => InstantIsRead
  <2> DEFINE T == wrote.type
             v == wrote.value
             c == cell.content
  <2> SUFFICES ASSUME TripInv, T \in MomentType, ~Wrapped, NEW r \in Readings(MomentType)
               PROVE  /\ r.value.at - v.at \in Shifts(r.type)
                      /\ \/ r.value.frac = v.frac
                         \/ /\ \/ cell.col = "Timestamp"
                               \/ T \in {"NaiveDateTime", "Local", "SysTimestamp"}
                            /\ r.value.frac = Micros(v.frac)
    BY DEF InstantIsRead, MomentType
  <2> DEFINE zone == MinuteOffset(v.offset)
  <2>1. T \in TemporalType /\ wrote # NoWrite
    BY DEF TemporalType, MomentType, LocalType, ZonedType, NoWrite
  <2>2. v \in Values(T)
    BY <2>1 DEF TripInv
  <2>3. /\ v.at \in Int /\ v.offset \in Int
        /\ T \in {"NaiveDateTime", "SysTimestamp", "PrimitiveDateTime", "Utc"} =>
             v.offset = 0
        /\ T = "Local" => v.offset = LocalOffset
        /\ zone \in Int /\ (T = "Utc" => zone = 0)
    BY <2>2, MomentValues, MinuteOffsets
  <2>4. T \in {"NaiveDateTime", "Local"} => v.at + v.offset \in Seconds16
    BY DEF Wrapped
  <2>5. Encoded = EncodeTemporal(T, v)
    BY <2>1 DEF Encoded
  <2>6. /\ T \in WithOffset =>
             Encoded.content = Content("offset", LocalSecond(T, v), v.frac, zone, TRUE)
        /\ T \notin WithOffset => \E pad \in BOOLEAN :
             Encoded.content = Content("datetime", LocalSecond(T, v), v.frac, 0, pad)
        /\ T \in {"PrimitiveDateTime", "OffsetDateTime"} => Encoded.kind = "Text"
    BY <2>2, <2>4, <2>5, MomentEncoded
  <2>7. /\ r.type \in MomentType /\ Decode(r.type).ok /\ r.value = Decode(r.type).value
        /\ cell.col \in Column /\ c \in Holds(cell.col)
        /\ c \in Stored(Encoded, cell.col)
        /\ row.content = c
        /\ row.kind = IF cell.col \in {"Numeric", "Varchar"} THEN "Text" ELSE cell.col
    BY <2>1, ReadFacts
  <2>9. ASSUME /\ cell.col \in {"Timestamp", "Varchar"}
               /\ c.form \in {"datetime", "offset"}
               /\ cell.col = "Timestamp" => c.form = "datetime"
        PROVE  /\ r.value.frac = c.frac
               /\ c.form = "datetime" => r.value.at = c.at
               /\ c.form = "offset" =>
                    \/ r.type \in ZonedType /\ r.value.at = c.at - c.offset
                    \/ r.type = "PrimitiveDateTime" /\ r.value.at = c.at
    <3>1. Decode(r.type) = DecodeTemporal(r.type, row.kind, c)
      BY <2>7 DEF Decode, TemporalType, MomentType
    <3>2. ~IsNum(row.kind, c) /\ (row.kind = "Timestamp" => c.form = "datetime")
      BY <2>7, <2>9 DEF IsNum, IsText, NumberKind
    <3> QED
      BY <2>7, <2>9, <3>1, <3>2, MomentRead
  <2>8. CASE T \in WithOffset
    <3>1. /\ c.frac = v.frac
          /\ \/ /\ cell.col = "Timestamp" /\ c.form = "datetime"
                /\ c.at \in {LocalSecond(T, v), LocalSecond(T, v) - zone}
             \/ /\ cell.col = "Varchar" /\ c.form = "offset"
                /\ c.at = LocalSecond(T, v) /\ c.offset = zone
      <4>1. Encoded.content = Content("offset", LocalSecond(T, v), v.frac, zone, TRUE)
        BY <2>6, <2>8
      <4>2. /\ Encoded.content.form = "offset" /\ Encoded.content.at = LocalSecond(T, v)
            /\ Encoded.content.frac = v.frac /\ Encoded.content.offset = zone
            /\ "form" \in DOMAIN Encoded.content
        BY <4>1 DEF Content
      <4> QED
        BY <2>7, <4>2, OffsetMomentStored
    <3>2. LocalSecond(T, v) = v.at + v.offset
      BY <2>8 DEF LocalSecond
    <3>3. CASE cell.col = "Timestamp"
      <4>a. c.form = "datetime"
        BY <3>1, <3>3
      <4>b. r.value.frac = c.frac /\ r.value.at = c.at
        BY <2>9, <3>3, <4>a
      <4>1. /\ r.value.frac = v.frac /\ r.value.at = c.at
            /\ c.at \in {v.at + v.offset, v.at + v.offset - zone}
        BY <2>3, <3>1, <3>2, <3>3, <4>b
      <4>2. r.value.at - v.at \in {v.offset - zone, v.offset}
        BY <2>3, <4>1
      <4>3. T = "FixedOffset" => Shifts(r.type) = {v.offset - zone, v.offset}
        BY <3>3 DEF Shifts
      <4>4. T = "Utc" => v.offset = 0 /\ zone = 0 /\ Shifts(r.type) = {0}
        BY <2>3 DEF Shifts
      <4> QED
        BY <2>8, <4>1, <4>2, <4>3, <4>4 DEF WithOffset
    <3>4. CASE cell.col = "Varchar"
      <4>1. /\ r.value.frac = v.frac
            /\ \/ r.type \in ZonedType /\ r.value.at = v.at + v.offset - zone
               \/ r.type = "PrimitiveDateTime" /\ r.value.at = v.at + v.offset
        <5>1. c.form = "offset" /\ c.frac = v.frac /\ c.offset = zone
              /\ c.at = v.at + v.offset
          BY <2>3, <3>1, <3>2, <3>4
        <5>2. /\ r.value.frac = c.frac
              /\ \/ r.type \in ZonedType /\ r.value.at = c.at - c.offset
                 \/ r.type = "PrimitiveDateTime" /\ r.value.at = c.at
          BY <2>9, <3>4, <5>1
        <5> QED
          BY <2>3, <5>1, <5>2
      <4>2. CASE r.type \in ZonedType
        <5>1. Shifts(r.type) = {v.offset - zone}
          <6>1. T = "FixedOffset" => Shifts(r.type) = {v.offset - zone}
            BY <3>4, <4>2 DEF Shifts, ZonedType
          <6>2. T = "Utc" => Shifts(r.type) = {0} /\ v.offset - zone = 0
            BY <2>3 DEF Shifts
          <6> QED
            BY <2>8, <6>1, <6>2 DEF WithOffset
        <5> QED
          BY <2>3, <4>1, <4>2, <5>1 DEF ZonedType
      <4>3. CASE r.type = "PrimitiveDateTime"
        <5>1. Shifts(r.type) = {v.offset}
          BY <2>3, <2>8, <3>4, <4>3 DEF Shifts, WithOffset
        <5> QED
          BY <2>3, <4>1, <4>3, <5>1 DEF ZonedType
      <4> QED
        BY <4>1, <4>2, <4>3
    <3> QED
      BY <3>1, <3>3, <3>4
  <2>10. CASE T \notin WithOffset
    <3>1. PICK pad \in BOOLEAN :
            Encoded.content = Content("datetime", LocalSecond(T, v), v.frac, 0, pad)
      BY <2>6, <2>10
    <3>2. /\ cell.col \in {"Timestamp", "Varchar"} /\ c.form = "datetime"
          /\ c.at = LocalSecond(T, v)
          /\ \/ c.frac = v.frac
             \/ /\ cell.col = "Timestamp" \/ Encoded.kind = "Timestamp"
                /\ c.frac = Micros(v.frac)
      BY <2>7, <3>1, LocalMomentStored
    <3>a. Encoded.kind = "Timestamp" => T \in {"NaiveDateTime", "Local", "SysTimestamp"}
      BY <2>6, <2>10 DEF MomentType, LocalType, ZonedType, WithOffset
    <3>3. /\ r.value.frac = c.frac /\ r.value.at = LocalSecond(T, v)
      BY <2>7, <2>9, <3>2
    <3>4. CASE T = "Local"
      <4>1. Shifts(r.type) = {LocalOffset} /\ LocalSecond(T, v) = v.at + LocalOffset
        BY <2>3, <3>4 DEF Shifts, LocalSecond
      <4> QED
        BY <2>3, <3>2, <3>a, <3>3, <3>4, <4>1
    <3>5. CASE T # "Local"
      <4>1. Shifts(r.type) = {0} /\ LocalSecond(T, v) = v.at
        BY <2>10, <3>5 DEF Shifts, LocalSecond, WithOffset
      <4> QED
        BY <2>3, <3>2, <3>a, <3>3, <4>1
    <3> QED
      BY <3>4, <3>5
  <2> QED
    BY <2>8, <2>10
<1> QED
  BY <1>1, Inductive, PTL
=============================================================================
